--------------------------- MODULE MCRpcTransport ---------------------------
(* Two clients that make two requests each, the second one after the first *)
(* was answered, has timed out or was lost with the server.                *)
EXTENDS RpcTransport
=============================================================================
