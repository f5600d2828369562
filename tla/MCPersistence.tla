--------------------------- MODULE MCPersistence ---------------------------
(* Two plain keys and the description of the server; two starts: what the  *)
(* first one saves, the second one loads while clients write.              *)
EXTENDS Persistence

Default == [load |-> Keys, save |-> Keys, dump |-> TRUE]

(* The wrapper without options; with --persist-no-load; and one that loads *)
(* no constants, saves one plain key and has no shutdown dump.             *)
MCOptionSets ==
  {Default, [Default EXCEPT !.load = {}],
   [load |-> PlainKeys, save |-> {CHOOSE k \in PlainKeys : TRUE}, dump |-> FALSE]}
=============================================================================
