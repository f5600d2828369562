---------------------------- MODULE MCDumpLoad ----------------------------
(* One plain key, one constant of the users' and that of the server.  Ticks  *)
(* are half milliseconds.                                                   *)
EXTENDS DumpLoad

CONSTANTS a, c, doc, bytes

MCDurations == {1, 3}

MCBlobs == { [val |-> bytes, ttl |-> 1, json |-> FALSE] }

MCPatterns == {{a, c, InfoKey}, {a}}

(* No action and no property looks at the command handled last.             *)
State == <<items, clock, script, file, origin, touched, others>>
=============================================================================
