---------------------------- MODULE MCClientApi ----------------------------
(* Two plain keys, one constant of the users' and that of the server; a     *)
(* document, null, plain text and bytes that are no text.                  *)
EXTENDS ClientApi

CONSTANTS a, b, c, doc, bytes

MCDurations == {1}

MCBlobs ==
  { [val |-> doc, ttl |-> NoDeadline, json |-> TRUE],
    [val |-> bytes, ttl |-> 0, json |-> FALSE] }

MCPatterns == {{a, c}, {a, b, c, InfoKey}}

(* No action looks at the last command or call, and the action properties   *)
(* speak of the next ones only: states that differ in them are one.         *)
Contents == <<items, clock>>
=============================================================================
