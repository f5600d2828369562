----------------------------- MODULE WrapperArgs -----------------------------
(***************************************************************************)
(* The command line of examples/server.py: what of it the wrapper takes    *)
(* for itself, what it forwards to the server, what the server accepts of  *)
(* that, and which service the wrapper then saves and loads.               *)
(*                                                                         *)
(* argparse is external.  An option is written out in full here, and "--"  *)
(* ends the options of whoever parses it.                                  *)
(***************************************************************************)
EXTENDS Naturals, Sequences

CONSTANTS
  Arguments,       \* what a user may type
  Paths, Numbers,  \* the values that start with "/", and those int() takes
  NoValue,         \* nothing
  DefaultService,  \* DEFAULT_SERVICE
  MaxArgs          \* bound on the length of a command line

VARIABLES argv, outcome

vars == <<argv, outcome>>

(* "value", "--option" and "--option=value". *)
Plain(v)     == [option |-> "", value |-> v]
Option(o)    == [option |-> o, value |-> NoValue]
With(o, v)   == [option |-> o, value |-> v]
Separator    == Option("--")
IsPlain(a)   == a.option = ""
IsNumber(a)  == a.value \in Numbers

WrapperOptions == {"--store-file", "--persist-service"}
WrapperFlags   == {"--persist-no-load", "--persist-no-dump"}
ServerOptions  == {"--max-payload-size", "--poll-ns", "--poll-ms"}

(* argparse: the place where the options end. *)
End(args) ==
  CHOOSE n \in 1 .. Len(args) + 1 :
    /\ n <= Len(args) => args[n] = Separator
    /\ \A i \in 1 .. n - 1 : args[i] # Separator

(* The options of a parser that are followed by their value. *)
Split(args, options) ==
  { i \in 1 .. End(args) - 1 : args[i].option \in options /\ args[i].value = NoValue }

ValuesOf(args, options) == { i + 1 : i \in Split(args, options) }

HasValues(args, options) ==
  \A i \in Split(args, options) : i + 1 < End(args) /\ IsPlain(args[i + 1])

-----------------------------------------------------------------------------
(* The wrapper: parse_known_args *)

Known(args) ==
  { i \in 1 .. End(args) - 1 : args[i].option \in WrapperOptions \cup WrapperFlags }
    \cup ValuesOf(args, WrapperOptions)

(* The last value given counts. *)
Given(args, o) ==
  LET at == { i \in 1 .. End(args) - 1 : args[i].option = o }
      i  == CHOOSE i \in at : \A j \in at : j <= i
  IN IF at = {} THEN NoValue
     ELSE IF args[i].value # NoValue THEN args[i].value ELSE args[i + 1].value

UnknownUpTo(args) ==
  LET unknown[i \in 0..Len(args)] ==
        IF i = 0 THEN <<>>
        ELSE IF i \in Known(args) THEN unknown[i - 1]
        ELSE Append(unknown[i - 1], args[i])
  IN unknown

Unknown(args) == UnknownUpTo(args)[Len(args)]

(* main(): a separator in front of what is forwarded is dropped. *)
Forwarded(args) ==
  LET rest == Unknown(args)
  IN IF rest # <<>> /\ Head(rest) = Separator THEN Tail(rest) ELSE rest

FirstIn(args, S) == args[CHOOSE i \in S : \A j \in S : i <= j]

InferPositional(args) ==   \* a mutant: what does not look like an option is the service
  LET plain == { i \in DOMAIN args : IsPlain(args[i]) }
  IN IF plain = {} THEN DefaultService ELSE FirstIn(args, plain).value

(* _infer_service *)
Infer(args) ==
  LET named == { i \in DOMAIN args :
                   args[i].option \in {"--service", "--host"}
                     /\ (args[i].value # NoValue \/ i < Len(args)) }
      paths == { i \in DOMAIN args : IsPlain(args[i]) /\ args[i].value \in Paths }
      i     == CHOOSE i \in named : \A j \in named : i <= j
  IN IF named # {} THEN (IF args[i].value # NoValue THEN args[i] ELSE args[i + 1]).value
     ELSE IF paths # {} THEN FirstIn(args, paths).value
     ELSE DefaultService

-----------------------------------------------------------------------------
(* The server: build_parser().parse_args() *)

Positionals(args) ==
  ({ i \in 1 .. End(args) - 1 : IsPlain(args[i]) } \ ValuesOf(args, ServerOptions))
    \cup { i \in DOMAIN args : i > End(args) }

(* Options have numbers, there are no others, and one argument remains; a  *)
(* separator at the very end has to follow it.                             *)
Accepts(args) ==
  /\ \A i \in 1 .. End(args) - 1 :
       \/ IsPlain(args[i])
       \/ args[i].option \in ServerOptions /\ (args[i].value = NoValue \/ IsNumber(args[i]))
  /\ HasValues(args, ServerOptions)
  /\ \A i \in ValuesOf(args, ServerOptions) : IsNumber(args[i])
  /\ \E p \in DOMAIN args : /\ Positionals(args) = {p}
                            /\ End(args) = Len(args) => p = End(args) - 1

(* The service of a server that starts. *)
Serves(args) ==
  IF Accepts(args) THEN LET p == CHOOSE p \in Positionals(args) : TRUE
                        IN IF IsPlain(args[p]) THEN args[p].value ELSE args[p].option
  ELSE NoValue

-----------------------------------------------------------------------------

NotStarted == [status |-> "typing", serves |-> NoValue, file |-> NoValue, uses |-> NoValue]

Init == argv = <<>> /\ outcome = NotStarted

Type ==
  /\ outcome = NotStarted /\ Len(argv) < MaxArgs
  /\ \E a \in Arguments : argv' = Append(argv, a)
  /\ UNCHANGED outcome

Ends(status, serves, file, uses) ==
  outcome' = [status |-> status, serves |-> serves, file |-> file, uses |-> uses]

(* main() and the beginning of run_persistent_server: without a store file *)
(* the server gets every argument there is.                                *)
Start ==
  /\ outcome = NotStarted /\ UNCHANGED argv
  /\ LET file == Given(argv, "--store-file")
         args == Forwarded(argv)
         asked == Given(argv, "--persist-service")
     IN \/ /\ \A i \in DOMAIN argv : argv[i].option # "--store-file"
           /\ Ends("plain", Serves(argv), NoValue, NoValue)
        \/ /\ \E i \in DOMAIN argv : argv[i].option = "--store-file"
           /\ \/ ~HasValues(argv, WrapperOptions) /\ Ends("usage", NoValue, NoValue, NoValue)
              \/ /\ HasValues(argv, WrapperOptions) /\ file = NoValue
                 /\ Ends("plain", Serves(args), NoValue, NoValue)
              \/ /\ HasValues(argv, WrapperOptions) /\ file # NoValue
                 /\ Ends("persistent", Serves(args), file,
                         IF asked = NoValue THEN Infer(args) ELSE asked)

Next == Type \/ Start

Spec == Init /\ [][Next]_vars

-----------------------------------------------------------------------------
(* Properties *)

(* However the arguments are mixed, and wherever other values look like a  *)
(* service: the wrapper saves and loads the server it has started, if that *)
(* serves a path and the user names no other.                              *)
SavesOwnServer ==
  outcome.status = "persistent" /\ outcome.serves \in Paths
    /\ (\A i \in 1 .. End(argv) - 1 : argv[i].option # "--persist-service")
    => outcome.uses = outcome.serves
=============================================================================
