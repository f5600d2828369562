---------------------------- MODULE MCAlgorithms ----------------------------
(* The three algorithms with small sets of values at the edges. *)
EXTENDS Algorithms

CONSTANTS
  Digit,                           \* a cell that is a JSON text
  service, path, topic, number     \* what a command line is made of

-----------------------------------------------------------------------------
(* Codec: names and argument lists at the edges: empty, as long as a U16    *)
(* field allows, one longer; every type of value and every kind of         *)
(* response.                                                               *)

MCJsonTexts == {<<Digit>>}

Values == { None, Python("str", <<>>), Python("str", <<Small>>),
            Python("bytes", <<NotText, Digit>>), Python("json", <<Digit>>) }

ArgumentLists ==
  { <<v>> : v \in Values } \cup { <<v, Python("bytes", <<Small>>)>> : v \in Values }
    \cup { <<>>, <<None, None, None>> }

Names ==
  { Python("str", <<>>), Python("str", <<Small, Small>>), Python("str", <<Small, Small, Small>>),
    Python("bytes", <<Small>>), Python("bytes", <<NotText>>) }

MCCommands == { <<name>> \o args : name \in Names, args \in ArgumentLists } \cup {<<>>}

MCFrames ==
  { ResponseFrame("bulk", v, <<>>) : v \in Values }
    \cup { ResponseFrame("array", vs, <<>>) : vs \in ArgumentLists }
    \cup { ResponseFrame("error", None, message) : message \in {<<>>, <<Small, Small>>} }
    \cup { ResponseFrame(kind, Python("str", <<Small>>), <<>>) : kind \in {"simple", "pong"} }
    \cup { ResponseFrame("integer", Python("json", <<Digit>>), <<>>),
           ResponseFrame("pong", None, <<>>), ResponseFrame("nil", None, <<>>) }

(* Requests with another version, no version, no command, no data, and an  *)
(* unknown type.                                                           *)
MCDocuments ==
  LET request == [v |-> 1, command |-> <<Small>>, args |-> <<>>]
  IN { [request EXCEPT !.v = 2], [v |-> 1, args |-> <<>>], [request EXCEPT !.command = <<>>],
       [v |-> 1, command |-> <<Small>>],
       [request EXCEPT !.args = <<[type |-> "str"]>>],
       [request EXCEPT !.args = <<[type |-> "tuple", data |-> <<Small>>]>>] }

-----------------------------------------------------------------------------
(* RedisGlob: every special character, and "a" and "b", in patterns of up  *)
(* to MaxPattern characters, matched with keys of up to two.               *)

Letters == {97, 98}

MCSymbols == {42, 63, 45, 91, 92, 93, 94} \cup Letters

MCKeys == UNION { [1..n -> {45, 92, 93, 94} \cup Letters] : n \in 0..2 }

-----------------------------------------------------------------------------
(* WrapperArgs: a service, the path of a store file, a service that is no  *)
(* path, and a number; an option of every kind.                            *)

MCPaths == {service, path, DefaultService}

MCNumbers == {number}

MCArguments ==
  { [option |-> "", value |-> v] : v \in {service, path, topic, number} }
    \cup { [option |-> o, value |-> NoValue] :
             o \in {"--store-file", "--persist-service", "--persist-no-load",
                    "--poll-ns", "--service", "--"} }
    \cup { [option |-> "--store-file", value |-> path],
           [option |-> "--poll-ns", value |-> number],
           [option |-> "--service", value |-> service] }
=============================================================================
