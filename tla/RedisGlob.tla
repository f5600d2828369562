------------------------------ MODULE RedisGlob ------------------------------
(***************************************************************************)
(* _compile_redis_glob of src/iox2redis/server.py, the patterns of KEYS:   *)
(* the loop that turns a glob into a regular expression, one action for    *)
(* each way through its body, checked against a direct reading of globs.   *)
(* Characters are their code points, because "a-z" depends on their order. *)
(***************************************************************************)
EXTENDS Naturals, Sequences

CONSTANTS Symbols, MaxPattern, Texts   \* bounds: of the patterns, and the keys to match

VARIABLES
  pattern,
  idx, parts,            \* the next character, and the expression so far
  scan, negated, class   \* inside "[": the next character (or 0), and class_parts

vars == <<pattern, idx, parts, scan, negated, class>>

Bang == 33  Star == 42  Dash == 45  Question == 63
Open == 91  Backslash == 92  Close == 93  Caret == 94

(* What an expression is made of; Class's members are (escaped) characters *)
(* and bare hyphens.                                                       *)
AnyText       == [type |-> "text"]
AnyOne        == [type |-> "one"]
Literal(c)    == [type |-> "literal", char |-> c]
Class(neg, s) == [type |-> "class", negated |-> neg, members |-> s]
Escape(c)     == [char |-> c, bare |-> FALSE]
Hyphen        == [char |-> Dash, bare |-> TRUE]

Patterns == UNION { [1..n -> Symbols] : n \in 0..MaxPattern }

At(i) == IF i <= Len(pattern) THEN pattern[i] ELSE 0

Init ==
  /\ pattern \in Patterns
  /\ idx = 1 /\ parts = <<>> /\ scan = 0 /\ negated = FALSE /\ class = <<>>

Emit(part, n) ==
  /\ parts' = Append(parts, part) /\ idx' = n
  /\ scan' = 0 /\ negated' = FALSE /\ class' = <<>>
  /\ UNCHANGED pattern

Outside == scan = 0 /\ idx <= Len(pattern)

Wildcard ==
  /\ Outside
  /\ \/ At(idx) = Star /\ Emit(AnyText, idx + 1)
     \/ At(idx) = Question /\ Emit(AnyOne, idx + 1)

(* A backslash at the end stands for itself. *)
Escaped ==
  /\ Outside /\ At(idx) = Backslash
  /\ IF idx < Len(pattern) THEN Emit(Literal(At(idx + 1)), idx + 2)
     ELSE Emit(Literal(Backslash), idx + 1)

Ordinary ==
  /\ Outside /\ At(idx) \notin {Star, Question, Backslash, Open}
  /\ Emit(Literal(At(idx)), idx + 1)

(* A "]" that comes first in a class is a member of it. *)
OpenClass ==
  /\ Outside /\ At(idx) = Open
  /\ LET neg   == At(idx + 1) \in {Caret, Bang}
         first == IF neg THEN idx + 2 ELSE idx + 1
     IN /\ negated' = neg
        /\ IF At(first) = Close THEN class' = <<Escape(Close)>> /\ scan' = first + 1
           ELSE class' = <<>> /\ scan' = first
  /\ UNCHANGED <<pattern, idx, parts>>

Inside == scan \in 1..Len(pattern) /\ pattern[scan] # Close

MemberAsIs ==   \* a mutant: a backslash in a class is a member like any other
  /\ Inside
  /\ class' = Append(class, IF At(scan) = Dash THEN Hyphen ELSE Escape(At(scan)))
  /\ scan' = scan + 1
  /\ UNCHANGED <<pattern, idx, parts, negated>>

Member ==
  /\ Inside
  /\ IF At(scan) = Backslash /\ scan < Len(pattern)
     THEN class' = Append(class, Escape(At(scan + 1))) /\ scan' = scan + 2
     ELSE /\ class' = Append(class, IF At(scan) = Dash THEN Hyphen ELSE Escape(At(scan)))
          /\ scan' = scan + 1
  /\ UNCHANGED <<pattern, idx, parts, negated>>

CloseClass ==
  /\ scan # 0 /\ At(scan) = Close
  /\ IF class = <<>> THEN Emit(Literal(Open), idx + 1)
     ELSE Emit(Class(negated, class), scan + 1)

(* A bracket that is never closed stands for itself. *)
Unclosed == scan > Len(pattern) /\ Emit(Literal(Open), idx + 1)

Next == Wildcard \/ Escaped \/ Ordinary \/ OpenClass \/ Member \/ CloseClass \/ Unclosed

Spec == Init /\ [][Next]_vars

Compiled == scan = 0 /\ idx > Len(pattern)

-----------------------------------------------------------------------------
(* The module re: a hyphen between two members makes them a range.         *)

IsRange(s, i) == i + 2 <= Len(s) /\ s[i + 1].bare

(* The members and ranges of a class, as sets of characters. *)
Chunks(s) ==
  LET from[i \in 1 .. Len(s) + 3] ==
        IF i > Len(s) THEN {}
        ELSE IF IsRange(s, i) THEN {<<s[i].char, s[i + 2].char>>} \cup from[i + 3]
        ELSE {<<s[i].char, s[i].char>>} \cup from[i + 1]
  IN from[1]

(* re.compile raises if a range ends before it starts. *)
Valid(s) == \A chunk \in Chunks(s) : chunk[1] <= chunk[2]

In(c, s) == \E chunk \in Chunks(s) : chunk[1] <= c /\ c <= chunk[2]

Accepts(part, c) ==
  CASE part.type = "one"     -> TRUE
    [] part.type = "literal" -> c = part.char
    [] part.type = "class"   -> In(c, part.members) # part.negated

(* fullmatch: where in the text each part of the expression may end. *)
EndsOf(ps, text) ==
  LET ends[i \in 0..Len(ps)] ==
        IF i = 0 THEN {0}
        ELSE IF ps[i].type = "text" THEN { n \in 0..Len(text) : \E m \in ends[i - 1] : m <= n }
        ELSE { n \in 1..Len(text) : n - 1 \in ends[i - 1] /\ Accepts(ps[i], text[n]) }
  IN ends

FullMatch(ps, text) == Len(text) \in EndsOf(ps, text)[Len(ps)]

-----------------------------------------------------------------------------
(* Globs, read without a regular expression *)

(* From a place on: which characters have a backslash before them that has *)
(* none before it.                                                         *)
QuotedFrom(p, from) ==
  LET quoted[i \in from..Len(p)] == i > from /\ p[i - 1] = Backslash /\ ~quoted[i - 1]
  IN quoted

Quoted(p, from, i) == i \in from..Len(p) /\ QuotedFrom(p, from)[i]

(* Of a class that starts at i.  *)
FirstMember(p, i) == IF i < Len(p) /\ p[i + 1] \in {Caret, Bang} THEN i + 2 ELSE i + 1

(* The brackets that may close it. *)
Closing(p, i) ==
  LET first == FirstMember(p, i)
  IN { j \in first + 1 .. Len(p) : p[j] = Close /\ ~Quoted(p, first, j) }

MemberAt(p, first, j) ==
  IF p[j] = Dash /\ ~Quoted(p, first, j) THEN Hyphen ELSE Escape(p[j])

(* Its members up to each of the places that follow. *)
MembersOf(p, first) ==
  LET upto[j \in first - 1 .. Len(p)] ==
        IF j < first THEN <<>>
        ELSE IF Quoted(p, first, j + 1) THEN upto[j - 1]
        ELSE Append(upto[j - 1], MemberAt(p, first, j))
  IN upto

IsMember(c, p, i, close) ==
  LET first == FirstMember(p, i)
  IN In(c, MembersOf(p, first)[close - 1]) # (first = i + 2)

StartsClass(p, i) == p[i] = Open /\ Closing(p, i) # {}

EndOfClass(p, i) == CHOOSE j \in Closing(p, i) : \A k \in Closing(p, i) : j <= k

(* Where a glob goes on after what starts at a place and takes one         *)
(* character, and which characters that takes.                             *)
After(p, i) ==
  IF StartsClass(p, i) THEN EndOfClass(p, i) + 1
  ELSE IF p[i] = Backslash /\ i < Len(p) THEN i + 2 ELSE i + 1

Fits(c, p, i) ==
  IF StartsClass(p, i) THEN IsMember(c, p, i, EndOfClass(p, i))
  ELSE IF p[i] = Backslash /\ i < Len(p) THEN c = p[i + 1] ELSE p[i] \in {Question, c}

(* How much of the text has to be read before the rest of it matches the   *)
(* glob from a place on.                                                   *)
Before(p, text) ==
  LET before[i \in 1..Len(p) + 1] ==
        IF i > Len(p) THEN {Len(text)}
        ELSE IF p[i] = Star THEN { n \in 0..Len(text) : \E m \in before[i + 1] : n <= m }
        ELSE { n \in 0..Len(text) - 1 : Fits(text[n + 1], p, i) /\ n + 1 \in before[After(p, i)] }
  IN before

Glob(p, text) == 0 \in Before(p, text)[1]

-----------------------------------------------------------------------------
(* Properties *)

Ranges == \A i \in DOMAIN parts : parts[i].type = "class" => Valid(parts[i].members)

(* The expression matches the keys the glob stands for, with classes,      *)
(* ranges and backslashes in any combination, closed or not.               *)
MatchesGlob ==
  Compiled /\ Ranges => \A text \in Texts : FullMatch(parts, text) = Glob(pattern, text)
=============================================================================
