----------------------------- MODULE Algorithms -----------------------------
(***************************************************************************)
(* The three parts of the program that turn one representation into        *)
(* another and share no state: the codec, the compiler of globs and the    *)
(* command line of the wrapper.  A behaviour is one of them at work.       *)
(***************************************************************************)
EXTENDS Codec

CONSTANTS
  Symbols, MaxPattern, Keys,           \* of RedisGlob: see there
  Arguments, Paths, Numbers, NoValue,  \* of WrapperArgs
  DefaultService, MaxArgs

VARIABLES
  subject,                                      \* which of the three is at work
  pattern, idx, parts, scan, negated, class,    \* of RedisGlob
  argv, outcome                                 \* of WrapperArgs

globVars == <<pattern, idx, parts, scan, negated, class>>
argsVars == <<argv, outcome>>

(* Characters are code points. *)
ASSUME GlobAssumption ==
  Symbols \subseteq Nat /\ MaxPattern \in Nat /\ Keys \subseteq Seq(Nat)

(* An argument that is an option starts with a hyphen, a path with a slash *)
(* and a number with neither.                                              *)
ASSUME ArgumentsAssumption ==
  /\ NoValue \notin Paths /\ Paths \cap Numbers = {}
  /\ \A a \in Arguments : a.option \notin Paths

Globs == INSTANCE RedisGlob WITH Texts <- Keys
Args  == INSTANCE WrapperArgs

AllInit ==
  /\ subject \in {"codec", "glob", "command line"}
  /\ Init /\ Args!Init
  /\ subject # "glob" => pattern = <<>>
  /\ Globs!Init

InCodec == subject = "codec" /\ UNCHANGED <<subject, globVars, argsVars>>
InGlob  == subject = "glob" /\ UNCHANGED <<subject, vars, argsVars>>
InArgs  == subject = "command line" /\ UNCHANGED <<subject, vars, globVars>>

AllNext ==
  \/ InCodec /\ Send
  \/ InCodec /\ SendLegacy
  \/ InCodec /\ SendDocument
  \/ InCodec /\ Garble
  \/ InCodec /\ Serve
  \/ InCodec /\ Receive
  \/ InGlob /\ Globs!Wildcard
  \/ InGlob /\ Globs!Escaped
  \/ InGlob /\ Globs!Ordinary
  \/ InGlob /\ Globs!OpenClass
  \/ InGlob /\ Globs!Member
  \/ InGlob /\ Globs!CloseClass
  \/ InGlob /\ Globs!Unclosed
  \/ InArgs /\ Args!Type
  \/ InArgs /\ Args!Start

AllSpec == AllInit /\ [][AllNext]_<<subject, vars, globVars, argsVars>>

(* A glob matches what it stands for: see RedisGlob. *)
MatchesGlob == Globs!MatchesGlob

(* The wrapper saves and loads the server it has started: see WrapperArgs. *)
SavesOwnServer == Args!SavesOwnServer
=============================================================================
