--------------------------- MODULE MCHotReloadLog ---------------------------
EXTENDS HotReloadLog

CONSTANTS a, b, p

(* One application that logs more than its queue and the list hold, two    *)
(* with requests that come late, and two whose records have equal times.   *)
MCSetups ==
  LET Records(n, m) == [app \in Apps |-> IF app = a THEN n ELSE m]
  IN { [apps |-> {a}, pages |-> {p}, strict |-> TRUE, records |-> Records(4, 0), late |-> 0],
       [apps |-> {a, b}, pages |-> {}, strict |-> TRUE, records |-> Records(2, 1), late |-> 1],
       [apps |-> {a, b}, pages |-> {p}, strict |-> FALSE, records |-> Records(1, 1), late |-> 0] }
=============================================================================
