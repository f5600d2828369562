------------------------- MODULE MCServerLifecycle -------------------------
(* The server and at most two requests: one more than it takes to loop in  *)
(* drain_requests.                                                         *)
EXTENDS ServerLifecycle
=============================================================================
