---------------------------- MODULE MCHotReload ----------------------------
(* Two fields with two values and three changes: one can be stored while   *)
(* an older one is in the queue and the oldest is applied, and the object  *)
(* can become again what it was.                                           *)
EXTENDS HotReload
=============================================================================
