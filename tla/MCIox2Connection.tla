-------------------------- MODULE MCIox2Connection --------------------------
(* One redis-py client with three requests to spend on commands and on one *)
(* retry of each: enough to leave a reply behind, reconnect and go on.     *)
EXTENDS Iox2Connection
=============================================================================
