--------------------------- MODULE AlgorithmProofs ---------------------------
(***************************************************************************)
(* Proofs about the codec, the compiler of globs and the command line of   *)
(* the wrapper, for every cell, command, frame, pattern, key and argument. *)
(*                                                                         *)
(* The recursive functions of these modules are shown to exist, and        *)
(* inductions over them are made, by looking at the first place where      *)
(* there would be nothing.                                                 *)
(***************************************************************************)
EXTENDS Algorithms, SequenceTheorems, WellFoundedInduction, TLAPS

-----------------------------------------------------------------------------
(* Induction and recursion over an interval *)

LEMMA Smallest ==
  ASSUME NEW T \in SUBSET Nat, T # {}
  PROVE  \E x \in T : \A y \in T : x <= y
<1>1. PICK x \in T : \A y \in T : ~(<<y, x>> \in OpToRel(<, Nat))
  BY NatLessThanWellFounded, WFMin
<1>2. ASSUME NEW y \in T, y < x PROVE FALSE
  <2>1. <<y, x>> \in OpToRel(<, Nat)
    BY <1>2 DEF OpToRel
  <2> QED BY <1>1, <2>1
<1>3. \A y \in T : x <= y
  BY <1>2
<1> QED BY <1>3

LEMMA Induction ==
  ASSUME NEW m \in Nat, NEW n \in Nat, NEW P,
         m \in P, \A i \in m..n : i # m /\ i - 1 \in P => i \in P
  PROVE  \A i \in m..n : i \in P
<1> DEFINE T == { i \in m..n : i \notin P }
<1> SUFFICES ASSUME T # {} PROVE FALSE
  OBVIOUS
<1>1. PICK i \in T : \A j \in T : i <= j
  <2>1. T \in SUBSET Nat
    OBVIOUS
  <2> HIDE DEF T
  <2> QED BY <2>1, Smallest
<1>2. i \in m + 1 .. n
  BY <1>1
<1>3. i - 1 \in m..n /\ i - 1 \notin T
  BY <1>1, <1>2
<1> QED BY <1>1, <1>2, <1>3

(* A function is defined by its first value and by what follows a value.   *)
Follows(f, m, n, start, next) ==
  f = [i \in m..n |-> IF i = m THEN start ELSE next[<<f[i - 1], i>>]]

LEMMA Recursion ==
  ASSUME NEW S, NEW m \in Nat, NEW n \in Nat, NEW start \in S,
         NEW next \in [S \X (m..n) -> S]
  PROVE  \E f \in [m..n -> S] : Follows(f, m, n, start, next)
<1> DEFINE Table(f, k) ==
             /\ f \in [m..k -> S]
             /\ \A i \in m..k : f[i] = IF i = m THEN start ELSE next[<<f[i - 1], i>>]
           P == { k \in Nat : \E f : Table(f, k) }
<1>1. CASE n < m
  <2>1. m..n = {}
    BY <1>1
  <2> QED BY <2>1 DEF Follows
<1>2. CASE m <= n
  <2>1. Table([i \in m..m |-> start], m)
    OBVIOUS
  <2>2. ASSUME NEW k \in m + 1 .. n, NEW g, Table(g, k - 1) PROVE \E f : Table(f, k)
    <3> DEFINE f == [i \in m..k |-> IF i = k THEN next[<<g[k - 1], k>>] ELSE g[i]]
    <3>1. /\ k - 1 \in m..k - 1 /\ k \in m..k /\ k # m
          /\ \A i \in m..k : i # k => i \in m..k - 1
          /\ \A i \in m..k : i # m => i - 1 \in m..k - 1 /\ i - 1 \in m..k /\ i - 1 # k
      OBVIOUS
    <3>2. g[k - 1] \in S /\ next[<<g[k - 1], k>>] \in S
      BY <2>2, <3>1
    <3>3. f \in [m..k -> S]
      BY <2>2, <3>1, <3>2
    <3>4. ASSUME NEW i \in m..k PROVE f[i] = IF i = m THEN start ELSE next[<<f[i - 1], i>>]
      <4>1. i # m => f[i - 1] = g[i - 1]
        BY <3>1
      <4>2. CASE i = k
        <5>1. f[i] = next[<<g[k - 1], k>>]
          BY <4>2
        <5> QED BY <3>1, <4>1, <4>2, <5>1
      <4>3. CASE i # k
        <5>1. f[i] = g[i] /\ i \in m..k - 1
          BY <3>1, <4>3
        <5>2. g[i] = IF i = m THEN start ELSE next[<<g[i - 1], i>>]
          BY <2>2, <5>1
        <5> QED BY <4>1, <5>1, <5>2
      <4> QED BY <4>2, <4>3
    <3>5. Table(f, k)
      BY <3>3, <3>4
    <3> HIDE DEF f, Table
    <3> QED BY <3>5
  <2> HIDE DEF Table
  <2>3. \A k \in m..n : k \in P
    <3>1. m \in P
      BY <2>1
    <3>2. \A k \in m..n : k # m /\ k - 1 \in P => k \in P
      BY <2>2
    <3> HIDE DEF P
    <3> QED BY <3>1, <3>2, Induction
  <2>4. PICK f : Table(f, n)
    <3>1. n \in P
      BY <1>2, <2>3
    <3> QED BY <3>1
  <2> USE DEF Table
  <2>5. f \in [m..n -> S] /\ f = [i \in m..n |-> f[i]]
    BY <2>4
  <2>6. Follows(f, m, n, start, next)
    BY <2>4, <2>5 DEF Follows
  <2> QED BY <2>5, <2>6, Zenon
<1> QED BY <1>1, <1>2
-----------------------------------------------------------------------------
(* The command line of the wrapper *)

LEMMA EndIs ==
  ASSUME NEW args \in Seq(Arguments)
  PROVE  /\ Args!End(args) \in 1 .. Len(args) + 1
         /\ Args!End(args) <= Len(args) => args[Args!End(args)] = Args!Separator
<1> DEFINE T == { n \in 1 .. Len(args) + 1 : n <= Len(args) => args[n] = Args!Separator }
<1>1. PICK n \in T : \A m \in T : n <= m
  <2>1. Len(args) + 1 \in T /\ T \in SUBSET Nat
    OBVIOUS
  <2> HIDE DEF T
  <2> QED BY <2>1, Smallest
<1>2. \A i \in 1 .. n - 1 : args[i] # Args!Separator
  <2> SUFFICES ASSUME NEW i \in 1 .. n - 1, args[i] = Args!Separator PROVE FALSE
    OBVIOUS
  <2>1. i \in T
    BY <1>1
  <2> QED BY <1>1, <2>1
<1> QED BY <1>1, <1>2 DEF Args!End

LEMMA UnknownUpToIs ==
  ASSUME NEW args \in Seq(Arguments)
  PROVE  Args!UnknownUpTo(args) =
           [i \in 0..Len(args) |->
              IF i = 0 THEN <<>>
              ELSE IF i \in Args!Known(args) THEN Args!UnknownUpTo(args)[i - 1]
              ELSE Append(Args!UnknownUpTo(args)[i - 1], args[i])]
<1> DEFINE n    == Len(args)
           S    == Seq(Arguments)
           next == [x \in S \X (0..n) |->
                      IF x[2] \in Args!Known(args) \cup {0} THEN x[1] ELSE Append(x[1], args[x[2]])]
           Is(f) == f = [i \in 0..n |-> IF i = 0 THEN <<>>
                                        ELSE IF i \in Args!Known(args) THEN f[i - 1]
                                        ELSE Append(f[i - 1], args[i])]
<1>1. \E f : Is(f)
  <2>1. next \in [S \X (0..n) -> S]
    OBVIOUS
  <2>2. PICK f \in [0..n -> S] : Follows(f, 0, n, <<>>, next)
    <3>1. <<>> \in S /\ 0 \in Nat /\ n \in Nat
      OBVIOUS
    <3> HIDE DEF S, next, n
    <3> QED BY <2>1, <3>1, Recursion
  <2>3. ASSUME NEW i \in 0..n, i # 0
        PROVE  next[<<f[i - 1], i>>] =
                 IF i \in Args!Known(args) THEN f[i - 1] ELSE Append(f[i - 1], args[i])
    <3>1. i - 1 \in 0..n
      BY <2>3
    <3>2. f[i - 1] \in S
      BY <2>2, <3>1
    <3> QED BY <2>3, <3>2
  <2>4. Is(f)
    <3> HIDE DEF next
    <3> QED BY <2>2, <2>3 DEF Follows
  <2> QED BY <2>4
<1>2. Args!UnknownUpTo(args) = CHOOSE f : Is(f)
  BY DEF Args!UnknownUpTo
<1> QED BY <1>1, <1>2, Zenon

(* What is forwarded to the server was typed. *)
LEMMA ForwardedType ==
  ASSUME NEW args \in Seq(Arguments)
  PROVE  Args!Forwarded(args) \in Seq(Arguments)
<1>1. PICK u : u = Args!UnknownUpTo(args)
  OBVIOUS
<1>2. /\ u[0] = <<>>
      /\ \A i \in 0..Len(args) : i # 0 =>
           u[i] = IF i \in Args!Known(args) THEN u[i - 1] ELSE Append(u[i - 1], args[i])
  <2>1. 0 \in 0..Len(args)
    OBVIOUS
  <2> QED BY <1>1, <2>1, UnknownUpToIs, Zenon
<1>3. \A i \in 0..Len(args) : u[i] \in Seq(Arguments)
  <2> DEFINE P == { i \in 0..Len(args) : u[i] \in Seq(Arguments) }
  <2>1. 0 \in P
    <3>1. u[0] \in Seq(Arguments)
      BY <1>2
    <3> QED BY <3>1
  <2>2. ASSUME NEW i \in 0..Len(args), i # 0, i - 1 \in P PROVE i \in P
    <3>1. i # 0 /\ u[i - 1] \in Seq(Arguments) /\ args[i] \in Arguments
      BY <2>2
    <3>2. u[i] \in Seq(Arguments)
      <4>1. Append(u[i - 1], args[i]) \in Seq(Arguments)
        BY <3>1, AppendProperties
      <4> HIDE DEF P
      <4> QED BY <1>2, <3>1, <4>1, Zenon
    <3> QED BY <3>2
  <2>3. Len(args) \in Nat
    OBVIOUS
  <2>4. \A i \in 0..Len(args) : i \in P
    <3> HIDE DEF P
    <3> QED BY <2>1, <2>2, <2>3, Induction
  <2> QED BY <2>4
<1>4. Args!Unknown(args) \in Seq(Arguments)
  BY <1>1, <1>3 DEF Args!Unknown
<1> QED BY <1>4 DEF Args!Forwarded

(* A server that is given a path serves the one the wrapper infers: every  *)
(* other argument that it takes is an option, a separator or a number.     *)
LEMMA InfersServed ==
  ASSUME NEW args \in Seq(Arguments), Args!Serves(args) \in Paths
  PROVE  Args!Infer(args) = Args!Serves(args)
<1> DEFINE end == Args!End(args)
<1>1. Args!Accepts(args)
  BY ArgumentsAssumption DEF Args!Serves
<1>2. PICK p \in DOMAIN args : Args!Positionals(args) = {p}
  BY <1>1 DEF Args!Accepts
<1>3. /\ Args!IsPlain(args[p]) /\ args[p].value \in Paths
      /\ Args!Serves(args) = args[p].value
  <2>1. args[p] \in Arguments
    OBVIOUS
  <2>2. Args!Serves(args) = IF Args!IsPlain(args[p]) THEN args[p].value ELSE args[p].option
    BY <1>1, <1>2 DEF Args!Serves
  <2> QED BY <2>1, <2>2, ArgumentsAssumption
<1>4. \A i \in DOMAIN args : i < end => i \in 1 .. end - 1
  BY EndIs
<1>5. \A i \in DOMAIN args : i = end => args[i].option = "--"
  BY EndIs DEF Args!Separator, Args!Option
<1>6. \A i \in DOMAIN args : i > end => i = p
  BY <1>2 DEF Args!Positionals
<1>7. \A i \in DOMAIN args : i < end \/ i = end \/ i > end
  BY EndIs
<1>8. \A i \in DOMAIN args : args[i].option \notin {"--service", "--host"}
  <2> SUFFICES ASSUME NEW i \in DOMAIN args PROVE args[i].option \notin {"--service", "--host"}
    OBVIOUS
  <2>1. CASE i < end
    BY <1>1, <1>4, <2>1 DEF Args!Accepts, Args!IsPlain, Args!ServerOptions
  <2> QED BY <1>3, <1>5, <1>6, <1>7, <2>1 DEF Args!IsPlain
<1>9. ASSUME NEW i \in DOMAIN args, Args!IsPlain(args[i]), args[i].value \in Paths PROVE i = p
  <2>1. CASE i < end
    <3>1. i \notin Args!ValuesOf(args, Args!ServerOptions)
      BY <1>1, <1>9, ArgumentsAssumption DEF Args!Accepts, Args!IsNumber
    <3>2. i \in Args!Positionals(args)
      BY <1>4, <1>9, <2>1, <3>1 DEF Args!Positionals
    <3> QED BY <1>2, <3>2
  <2> QED BY <1>5, <1>6, <1>7, <1>9, <2>1 DEF Args!IsPlain
<1>10. { i \in DOMAIN args : Args!IsPlain(args[i]) /\ args[i].value \in Paths } = {p}
  BY <1>3, <1>9
<1>11. { i \in DOMAIN args : args[i].option \in {"--service", "--host"}
                               /\ (args[i].value # NoValue \/ i < Len(args)) } = {}
  BY <1>8
<1>12. Args!FirstIn(args, {p}) = args[p]
  BY DEF Args!FirstIn
<1> QED BY <1>3, <1>10, <1>11, <1>12 DEF Args!Infer

(* The wrapper saves and loads the server it has started, if that serves a *)
(* path and the user names no other.                                       *)
ArgsInv == argv \in Seq(Arguments) /\ SavesOwnServer

LEMMA ArgsInit == AllInit => ArgsInv
<1> SUFFICES ASSUME Args!Init PROVE ArgsInv
  BY DEF AllInit
<1> QED BY DEF Args!Init, Args!NotStarted, ArgsInv, SavesOwnServer, Args!SavesOwnServer

LEMMA StartSavesOwn == argv \in Seq(Arguments) /\ Args!Start => SavesOwnServer'
<1> SUFFICES ASSUME argv \in Seq(Arguments), Args!Start,
                    outcome'.status = "persistent", outcome'.serves \in Paths,
                    \A i \in 1 .. Args!End(argv) - 1 : argv[i].option # "--persist-service"
             PROVE  outcome'.uses = outcome'.serves
  BY DEF Args!Start, SavesOwnServer, Args!SavesOwnServer
<1>1. Args!Given(argv, "--persist-service") = NoValue
  BY DEF Args!Given
<1>2. /\ outcome'.serves = Args!Serves(Args!Forwarded(argv))
      /\ outcome'.uses = Args!Infer(Args!Forwarded(argv))
  BY <1>1 DEF Args!Start, Args!Ends
<1> QED BY <1>2, ForwardedType, InfersServed

LEMMA ArgsNext == ArgsInv /\ [AllNext]_<<subject, vars, globVars, argsVars>> => ArgsInv'
<1> SUFFICES ASSUME ArgsInv, [AllNext]_<<subject, vars, globVars, argsVars>> PROVE ArgsInv'
  OBVIOUS
<1>1. CASE UNCHANGED argsVars
  BY <1>1 DEF ArgsInv, argsVars, SavesOwnServer, Args!SavesOwnServer
<1>2. CASE Args!Type
  <2>1. argv' \in Seq(Arguments)
    BY <1>2 DEF ArgsInv, Args!Type
  <2>2. outcome'.status = "typing"
    BY <1>2 DEF Args!Type, Args!NotStarted
  <2> QED BY <2>1, <2>2 DEF ArgsInv, SavesOwnServer, Args!SavesOwnServer
<1>3. CASE Args!Start
  BY <1>3, StartSavesOwn DEF ArgsInv, Args!Start
<1> QED BY <1>1, <1>2, <1>3 DEF AllNext, InCodec, InGlob

(* However the arguments are mixed: a server that serves a path is the one *)
(* that the wrapper saves and loads, unless the user names another.        *)
THEOREM SavesOwnServerHolds == AllSpec => []SavesOwnServer
<1>1. ArgsInv => SavesOwnServer
  BY DEF ArgsInv
<1> QED BY <1>1, ArgsInit, ArgsNext, PTL DEF AllSpec
-----------------------------------------------------------------------------
(* Globs: the recursive functions of RedisGlob *)

Members == { Globs!Hyphen } \cup { Globs!Escape(c) : c \in Nat }

LEMMA QuotedFromIs ==
  ASSUME NEW p \in Seq(Nat), NEW from \in Nat
  PROVE  Globs!QuotedFrom(p, from) =
           [i \in from..Len(p) |->
              i > from /\ p[i - 1] = Globs!Backslash /\ ~Globs!QuotedFrom(p, from)[i - 1]]
<1> DEFINE n    == Len(p)
           next == [x \in BOOLEAN \X (from..n) |-> p[x[2] - 1] = Globs!Backslash /\ ~x[1]]
           Is(f) == f = [i \in from..n |-> i > from /\ p[i - 1] = Globs!Backslash /\ ~f[i - 1]]
<1>1. \E f : Is(f)
  <2>1. next \in [BOOLEAN \X (from..n) -> BOOLEAN]
    OBVIOUS
  <2>2. PICK f \in [from..n -> BOOLEAN] : Follows(f, from, n, FALSE, next)
    <3>1. FALSE \in BOOLEAN /\ n \in Nat
      OBVIOUS
    <3> HIDE DEF next, n
    <3> QED BY <2>1, <3>1, Recursion
  <2>3. ASSUME NEW i \in from..n
        PROVE  (IF i = from THEN FALSE ELSE next[<<f[i - 1], i>>])
                 = (i > from /\ p[i - 1] = Globs!Backslash /\ ~f[i - 1])
    <3>1. CASE i = from
      <4>1. ~(i > from)
        BY <3>1
      <4> HIDE DEF next
      <4> QED BY <3>1, <4>1, Zenon
    <3>2. CASE i # from
      <4>1. i - 1 \in from..n /\ i > from
        BY <3>2
      <4>2. f[i - 1] \in BOOLEAN
        BY <2>2, <4>1
      <4>3. next[<<f[i - 1], i>>] = (p[i - 1] = Globs!Backslash /\ ~f[i - 1])
        BY <4>2
      <4> QED BY <3>2, <4>1, <4>3
    <3> QED BY <3>1, <3>2
  <2>4. Is(f)
    <3>1. f = [i \in from..n |-> IF i = from THEN FALSE ELSE next[<<f[i - 1], i>>]]
      BY <2>2 DEF Follows
    <3>2. f = [i \in from..n |-> f[i]]
      BY <2>2
    <3>3. \A i \in from..n : f[i] = (i > from /\ p[i - 1] = Globs!Backslash /\ ~f[i - 1])
      <4> HIDE DEF next, n
      <4> QED BY <2>3, <3>1
    <3> HIDE DEF n
    <3> QED BY <3>2, <3>3
  <2> QED BY <2>4
<1>2. Globs!QuotedFrom(p, from) = CHOOSE f : Is(f)
  BY DEF Globs!QuotedFrom
<1> QED BY <1>1, <1>2, Zenon

(* The first character of a class has nothing before it that counts; the   *)
(* others are quoted by a backslash that is not.                           *)
LEMMA QuotedIs ==
  ASSUME NEW p \in Seq(Nat), NEW from \in Nat
  PROVE  /\ ~Globs!Quoted(p, from, from)
         /\ \A i \in from..Len(p) :
              Globs!Quoted(p, from, i + 1) <=>
                i < Len(p) /\ p[i] = Globs!Backslash /\ ~Globs!Quoted(p, from, i)
<1>1. PICK q : q = Globs!QuotedFrom(p, from)
  OBVIOUS
<1>2. \A i \in from..Len(p) : q[i] = (i > from /\ p[i - 1] = Globs!Backslash /\ ~q[i - 1])
  BY <1>1, QuotedFromIs, Zenon
<1>3. \A i : Globs!Quoted(p, from, i) <=> i \in from..Len(p) /\ q[i]
  BY <1>1 DEF Globs!Quoted
<1>4. ~Globs!Quoted(p, from, from)
  <2> SUFFICES ASSUME from \in from..Len(p) PROVE ~q[from]
    BY <1>3
  <2>1. ~(from > from)
    OBVIOUS
  <2> QED BY <1>2, <2>1, Zenon
<1>5. ASSUME NEW i \in from..Len(p)
      PROVE  Globs!Quoted(p, from, i + 1) <=>
               i < Len(p) /\ p[i] = Globs!Backslash /\ ~Globs!Quoted(p, from, i)
  <2>1. CASE i < Len(p)
    <3>1. i + 1 \in from..Len(p) /\ i + 1 > from /\ i + 1 - 1 = i
      BY <2>1
    <3>2. q[i + 1] = (p[i] = Globs!Backslash /\ ~q[i])
      BY <1>2, <3>1
    <3> QED BY <1>3, <2>1, <3>1, <3>2
  <2>2. CASE i = Len(p)
    <3>1. i + 1 \notin from..Len(p)
      BY <2>2
    <3> QED BY <1>3, <2>2, <3>1
  <2> QED BY <2>1, <2>2
<1> QED BY <1>4, <1>5

LEMMA MembersOfIs ==
  ASSUME NEW p \in Seq(Nat), NEW first \in Nat \ {0}
  PROVE  Globs!MembersOf(p, first) =
           [j \in first - 1 .. Len(p) |->
              IF j < first THEN <<>>
              ELSE IF Globs!Quoted(p, first, j + 1) THEN Globs!MembersOf(p, first)[j - 1]
              ELSE Append(Globs!MembersOf(p, first)[j - 1], Globs!MemberAt(p, first, j))]
<1> DEFINE n     == Len(p)
           S     == Seq(Members)
           next  == [x \in S \X (first - 1 .. n) |->
                       IF Globs!Quoted(p, first, x[2] + 1) \/ x[2] < first THEN x[1]
                       ELSE Append(x[1], Globs!MemberAt(p, first, x[2]))]
           Is(f) == f = [j \in first - 1 .. n |->
                           IF j < first THEN <<>>
                           ELSE IF Globs!Quoted(p, first, j + 1) THEN f[j - 1]
                           ELSE Append(f[j - 1], Globs!MemberAt(p, first, j))]
<1>1. \E f : Is(f)
  <2>1. \A j \in first .. n : Globs!MemberAt(p, first, j) \in Members
    BY DEF Members, Globs!MemberAt
  <2>2. next \in [S \X (first - 1 .. n) -> S]
    <3> SUFFICES ASSUME NEW x \in S \X (first - 1 .. n), x[2] >= first
                 PROVE  Append(x[1], Globs!MemberAt(p, first, x[2])) \in S
      <4> HIDE DEF S
      <4> QED OBVIOUS
    <3>1. Globs!MemberAt(p, first, x[2]) \in Members
      BY <2>1
    <3> QED BY <3>1, AppendProperties
  <2>3. PICK f \in [first - 1 .. n -> S] : Follows(f, first - 1, n, <<>>, next)
    <3>1. <<>> \in S /\ first - 1 \in Nat /\ n \in Nat
      OBVIOUS
    <3> HIDE DEF S, next, n
    <3> QED BY <2>2, <3>1, Recursion
  <2>4. ASSUME NEW j \in first - 1 .. n
        PROVE  (IF j = first - 1 THEN <<>> ELSE next[<<f[j - 1], j>>])
                 = IF j < first THEN <<>>
                   ELSE IF Globs!Quoted(p, first, j + 1) THEN f[j - 1] ELSE Append(f[j - 1], Globs!MemberAt(p, first, j))
    <3>1. CASE j = first - 1
      BY <3>1
    <3>2. CASE j # first - 1
      <4>1. j - 1 \in first - 1 .. n /\ ~(j < first)
        BY <3>2
      <4>2. f[j - 1] \in S
        BY <2>3, <4>1
      <4> HIDE DEF S
      <4>3. next[<<f[j - 1], j>>] =
              IF Globs!Quoted(p, first, j + 1) THEN f[j - 1] ELSE Append(f[j - 1], Globs!MemberAt(p, first, j))
        BY <4>1, <4>2
      <4> QED BY <3>2, <4>1, <4>3
    <3> QED BY <3>1, <3>2
  <2>5. Is(f)
    <3> HIDE DEF next, n
    <3> QED BY <2>3, <2>4 DEF Follows
  <2> QED BY <2>5
<1>2. Globs!MembersOf(p, first) = CHOOSE f : Is(f)
  BY DEF Globs!MembersOf
<1> QED BY <1>1, <1>2, Zenon

(* The members of a class, one place after the other. *)
LEMMA MembersAre ==
  ASSUME NEW p \in Seq(Nat), NEW first \in Nat \ {0}, first - 1 <= Len(p)
  PROVE  /\ Globs!MembersOf(p, first)[first - 1] = <<>>
         /\ \A j \in first..Len(p) :
              Globs!MembersOf(p, first)[j] =
                IF Globs!Quoted(p, first, j + 1) THEN Globs!MembersOf(p, first)[j - 1]
                ELSE Append(Globs!MembersOf(p, first)[j - 1], Globs!MemberAt(p, first, j))
<1>1. PICK m : m = Globs!MembersOf(p, first)
  OBVIOUS
<1>2. m[first - 1] = <<>>
  <2>1. first - 1 \in first - 1 .. Len(p) /\ first - 1 < first
    OBVIOUS
  <2> QED BY <1>1, <2>1, MembersOfIs, Zenon
<1>3. ASSUME NEW j \in first..Len(p)
      PROVE  m[j] = IF Globs!Quoted(p, first, j + 1) THEN m[j - 1]
                    ELSE Append(m[j - 1], Globs!MemberAt(p, first, j))
  <2>1. j \in first - 1 .. Len(p) /\ ~(j < first)
    OBVIOUS
  <2> QED BY <1>1, <2>1, MembersOfIs, Zenon
<1> QED BY <1>1, <1>2, <1>3
LEMMA MembersNext ==
  ASSUME NEW p \in Seq(Nat), NEW first \in Nat \ {0}, NEW j \in first..Len(p),
         ~Globs!Quoted(p, first, j + 1)
  PROVE  Globs!MembersOf(p, first)[j]
           = Append(Globs!MembersOf(p, first)[j - 1], Globs!MemberAt(p, first, j))
<1>1. first - 1 <= Len(p)
  OBVIOUS
<1> QED BY <1>1, MembersAre, Zenon

(* Where a part may end, given where the part before it may. *)
Extends(part, text, ends) ==
  IF part.type = "text" THEN { n \in 0..Len(text) : \E m \in ends : m <= n }
  ELSE { n \in 1..Len(text) : n - 1 \in ends /\ Globs!Accepts(part, text[n]) }

LEMMA EndsOfIs ==
  ASSUME NEW ps, Len(ps) \in Nat, NEW text \in Seq(Nat)
  PROVE  /\ Globs!EndsOf(ps, text)[0] = {0}
         /\ \A i \in 1..Len(ps) :
              Globs!EndsOf(ps, text)[i] = Extends(ps[i], text, Globs!EndsOf(ps, text)[i - 1])
<1> DEFINE n    == Len(ps)
           S    == SUBSET (0..Len(text))
           next == [x \in S \X (0..n) |-> Extends(ps[x[2]], text, x[1])]
           Is(f) == f = [i \in 0..n |->
                           IF i = 0 THEN {0}
                           ELSE IF ps[i].type = "text"
                           THEN { k \in 0..Len(text) : \E m \in f[i - 1] : m <= k }
                           ELSE { k \in 1..Len(text) :
                                    k - 1 \in f[i - 1] /\ Globs!Accepts(ps[i], text[k]) }]
<1>1. \E f : Is(f)
  <2>1. next \in [S \X (0..n) -> S]
    BY DEF Extends
  <2>2. PICK f \in [0..n -> S] : Follows(f, 0, n, {0}, next)
    <3>1. {0} \in S /\ 0 \in Nat /\ n \in Nat
      OBVIOUS
    <3> HIDE DEF S, next, n
    <3> QED BY <2>1, <3>1, Recursion
  <2>3. ASSUME NEW i \in 0..n
        PROVE  (IF i = 0 THEN {0} ELSE next[<<f[i - 1], i>>])
                 = IF i = 0 THEN {0} ELSE Extends(ps[i], text, f[i - 1])
    <3>1. CASE i # 0
      <4>1. i - 1 \in 0..n
        BY <3>1
      <4>2. f[i - 1] \in S
        BY <2>2, <4>1
      <4> HIDE DEF S
      <4> QED BY <3>1, <4>2
    <3> QED BY <3>1
  <2>4. f = [i \in 0..n |-> IF i = 0 THEN {0} ELSE Extends(ps[i], text, f[i - 1])]
    <3> HIDE DEF next, n
    <3> QED BY <2>2, <2>3 DEF Follows
  <2>5. Is(f)
    BY <2>4, Zenon DEF Extends
  <2> QED BY <2>5
<1>2. Globs!EndsOf(ps, text) = CHOOSE f : Is(f)
  BY DEF Globs!EndsOf
<1>3. PICK e : e = Globs!EndsOf(ps, text)
  OBVIOUS
<1>4. Is(e)
  BY <1>1, <1>2, <1>3, Zenon
<1>5. e = [i \in 0..n |-> IF i = 0 THEN {0} ELSE Extends(ps[i], text, e[i - 1])]
  BY <1>4, Zenon DEF Extends
<1>6. e[0] = {0} /\ \A i \in 1..n : e[i] = Extends(ps[i], text, e[i - 1])
  <2>1. 0 \in 0..n /\ \A i \in 1..n : i \in 0..n /\ i # 0
    OBVIOUS
  <2> HIDE DEF n
  <2> QED BY <1>5, <2>1, Zenon
<1> QED BY <1>3, <1>6

Parts ==
  { Globs!AnyText, Globs!AnyOne } \cup { Globs!Literal(c) : c \in Nat }
    \cup { Globs!Class(neg, members) : neg \in BOOLEAN, members \in Seq(Members) }

(* What one more part adds to an expression. *)
LEMMA EndsOfMore ==
  ASSUME NEW ps \in Seq(Parts), NEW part \in Parts, NEW text \in Seq(Nat)
  PROVE  Globs!EndsOf(Append(ps, part), text)[Len(ps) + 1]
           = Extends(part, text, Globs!EndsOf(ps, text)[Len(ps)])
<1>1. PICK e : e = Globs!EndsOf(ps, text)
  OBVIOUS
<1>2. PICK qs : qs = Append(ps, part)
  OBVIOUS
<1>3. PICK g : g = Globs!EndsOf(qs, text)
  OBVIOUS
<1>4. /\ qs \in Seq(Parts) /\ Len(qs) = Len(ps) + 1 /\ Len(ps) \in Nat
      /\ \A i \in 1..Len(ps) : qs[i] = ps[i]
      /\ qs[Len(ps) + 1] = part
  BY <1>2
<1>5. g[0] = {0} /\ \A i \in 1..Len(ps) + 1 : g[i] = Extends(qs[i], text, g[i - 1])
  BY <1>3, <1>4, EndsOfIs
<1>6. e[0] = {0} /\ \A i \in 1..Len(ps) : e[i] = Extends(ps[i], text, e[i - 1])
  BY <1>1, EndsOfIs
<1>7. \A i \in 0..Len(ps) : g[i] = e[i]
  <2> DEFINE P == { i \in 0..Len(ps) : g[i] = e[i] }
  <2>1. 0 \in P
    <3>1. 0 \in 0..Len(ps) /\ g[0] = e[0]
      BY <1>4, <1>5, <1>6
    <3> QED BY <3>1
  <2>2. ASSUME NEW i \in 0..Len(ps), i # 0, i - 1 \in P PROVE i \in P
    <3>1. i \in 1..Len(ps) /\ i \in 1..Len(ps) + 1
      BY <2>2
    <3>2. g[i - 1] = e[i - 1]
      BY <2>2
    <3>3. g[i] = e[i]
      BY <1>4, <1>5, <1>6, <3>1, <3>2, Zenon
    <3> QED BY <3>3
  <2>3. \A i \in 0..Len(ps) : i \in P
    <3> HIDE DEF P
    <3> QED BY <1>4, <2>1, <2>2, Induction
  <2> QED BY <2>3
<1>8. g[Len(ps) + 1] = Extends(part, text, g[Len(ps)])
  BY <1>4, <1>5
<1> QED BY <1>1, <1>2, <1>3, <1>4, <1>7, <1>8

(* What the rest of a glob takes, given what it takes from other places on. *)
Precedes(p, text, i, before) ==
  IF i > Len(p) THEN {Len(text)}
  ELSE IF p[i] = Globs!Star THEN { n \in 0..Len(text) : \E m \in before[i + 1] : n <= m }
  ELSE { n \in 0..Len(text) - 1 :
           Globs!Fits(text[n + 1], p, i) /\ n + 1 \in before[Globs!After(p, i)] }

(* A glob goes on further to the right. *)
LEMMA AfterIsLater ==
  ASSUME NEW p \in Seq(Nat), NEW i \in 1..Len(p)
  PROVE  Globs!After(p, i) \in i + 1 .. Len(p) + 1
<1>1. CASE Globs!StartsClass(p, i)
  <2>1. Globs!Closing(p, i) # {} /\ Globs!Closing(p, i) \in SUBSET Nat
    BY <1>1, SMTT(60) DEF Globs!StartsClass, Globs!Closing, Globs!FirstMember
  <2>2. Globs!EndOfClass(p, i) \in Globs!Closing(p, i)
    BY <2>1, Smallest DEF Globs!EndOfClass
  <2>3. Globs!EndOfClass(p, i) \in i + 1 .. Len(p)
    BY <2>2 DEF Globs!Closing, Globs!FirstMember
  <2> QED BY <1>1, <2>3 DEF Globs!After
<1>2. CASE ~Globs!StartsClass(p, i)
  BY <1>2 DEF Globs!After
<1> QED BY <1>1, <1>2

LEMMA BeforeIs ==
  ASSUME NEW p \in Seq(Nat), NEW text \in Seq(Nat), NEW i \in 1..Len(p) + 1
  PROVE  Globs!Before(p, text)[i] = Precedes(p, text, i, Globs!Before(p, text))
<1> DEFINE n == Len(p) + 1
           Table(f, k) == f = [j \in k..n |-> Precedes(p, text, j, f)]
           P == { k \in 0..n - 1 : \E f : Table(f, n - k) }
<1>1. Table([j \in n..n |-> {Len(text)}], n)
  BY DEF Precedes
<1>2. ASSUME NEW k \in 1..n - 1, NEW g, Table(g, k + 1) PROVE \E f : Table(f, k)
  <2> DEFINE f == [j \in k..n |-> IF j = k THEN Precedes(p, text, k, g) ELSE g[j]]
  <2>1. \A j \in k + 1 .. n : f[j] = g[j]
    OBVIOUS
  <2>2. ASSUME NEW j \in k..n PROVE Precedes(p, text, j, f) = Precedes(p, text, j, g)
    <3>1. CASE j = n
      BY <3>1 DEF Precedes
    <3>2. CASE j # n
      <4>1. j \in 1..Len(p)
        BY <3>2, SMTT(60)
      <4>2. Globs!After(p, j) \in k + 1 .. n /\ j + 1 \in k + 1 .. n
        BY <4>1, AfterIsLater
      <4>3. f[Globs!After(p, j)] = g[Globs!After(p, j)] /\ f[j + 1] = g[j + 1]
        BY <2>1, <4>2
      <4> HIDE DEF f
      <4> QED BY <4>3 DEF Precedes
    <3> QED BY <3>1, <3>2
  <2>3. ASSUME NEW j \in k..n PROVE f[j] = Precedes(p, text, j, g)
    <3>1. CASE j = k
      BY <3>1
    <3>2. CASE j # k
      <4>1. j \in k + 1 .. n
        BY <3>2
      <4> QED BY <1>2, <2>1, <4>1
    <3> QED BY <3>1, <3>2
  <2>4. Table(f, k)
    <3>1. f = [j \in k..n |-> f[j]]
      OBVIOUS
    <3> HIDE DEF f
    <3> QED BY <2>2, <2>3, <3>1
  <2> HIDE DEF f, Table
  <2> QED BY <2>4
<1> HIDE DEF Table
<1>3. \A k \in 0..n - 1 : k \in P
  <2>1. 0 \in P
    BY <1>1
  <2>2. ASSUME NEW k \in 0..n - 1, k # 0, k - 1 \in P PROVE k \in P
    <3>1. n - k \in 1..n - 1 /\ n - (k - 1) = n - k + 1
      BY <2>2
    <3>2. PICK g : Table(g, n - k + 1)
      BY <2>2, <3>1
    <3>3. \E f : Table(f, n - k)
      BY <1>2, <3>1, <3>2
    <3> QED BY <3>3
  <2>3. n - 1 \in Nat
    OBVIOUS
  <2> HIDE DEF P
  <2> QED BY <2>1, <2>2, <2>3, Induction
<1>4. \E f : Table(f, 1)
  <2>1. n - 1 \in P
    BY <1>3
  <2>2. n - (n - 1) = 1
    OBVIOUS
  <2> QED BY <2>1, <2>2
<1> USE DEF Table
<1>5. Globs!Before(p, text) = CHOOSE f : Table(f, 1)
  BY DEF Globs!Before, Precedes
<1> QED BY <1>4, <1>5, Zenon
-----------------------------------------------------------------------------
(* Globs: the loop of the compiler *)

(* The expression so far takes a beginning of a key, and the glob from idx *)
(* on the rest, exactly for the keys that the glob matches.                *)
Translated(ps, i) ==
  \A text \in Keys :
    Globs!Glob(pattern, text) <=>
      \E n \in Globs!EndsOf(ps, text)[Len(ps)] : n \in Globs!Before(pattern, text)[i]

(* Inside a class that starts at idx: what was collected are its members   *)
(* so far, and no bracket that was passed closes it.                       *)
InClass ==
  LET first == Globs!FirstMember(pattern, idx)
  IN /\ idx <= Len(pattern) /\ pattern[idx] = Globs!Open
     /\ scan \in first .. Len(pattern) + 1
     /\ negated = (first = idx + 2)
     /\ class = Globs!MembersOf(pattern, first)[scan - 1]
     /\ ~Globs!Quoted(pattern, first, scan)
     /\ \A j \in first + 1 .. scan - 1 :
          pattern[j] = Globs!Close => Globs!Quoted(pattern, first, j)
     /\ scan = first => (scan <= Len(pattern) => pattern[scan] # Globs!Close)
     /\ scan # first => class # <<>>

GlobInv ==
  /\ pattern \in Seq(Nat) /\ idx \in 1 .. Len(pattern) + 1
  /\ parts \in Seq(Parts) /\ class \in Seq(Members) /\ negated \in BOOLEAN
  /\ scan # 0 => InClass
  /\ Translated(parts, idx)

LEMMA KeyTypes == \A text \in Keys : text \in Seq(Nat)
BY GlobAssumption

LEMMA EndsInText ==
  ASSUME NEW ps \in Seq(Parts), NEW text \in Seq(Nat)
  PROVE  Globs!EndsOf(ps, text)[Len(ps)] \subseteq 0..Len(text)
<1>1. PICK e : e = Globs!EndsOf(ps, text)
  OBVIOUS
<1>2. e[0] = {0} /\ \A i \in 1..Len(ps) : e[i] = Extends(ps[i], text, e[i - 1])
  BY <1>1, EndsOfIs
<1>3. e[Len(ps)] \subseteq 0..Len(text)
  <2>1. CASE Len(ps) = 0
    BY <1>2, <2>1
  <2>2. CASE Len(ps) # 0
    <3>1. e[Len(ps)] = Extends(ps[Len(ps)], text, e[Len(ps) - 1])
      BY <1>2, <2>2
    <3> QED BY <3>1 DEF Extends
  <2> QED BY <2>1, <2>2
<1> QED BY <1>1, <1>3

(* A part that takes the same characters as the glob at a place, and one   *)
(* at a time, translates it up to the place it goes on from.               *)
LEMMA OneCharacter ==
  ASSUME GlobInv, idx <= Len(pattern), pattern[idx] # Globs!Star,
         NEW part \in Parts, part.type # "text",
         \A c \in Nat : Globs!Accepts(part, c) <=> Globs!Fits(c, pattern, idx)
  PROVE  Translated(Append(parts, part), Globs!After(pattern, idx))
<1> DEFINE qs == Append(parts, part)
           i  == Globs!After(pattern, idx)
<1> SUFFICES ASSUME NEW text \in Keys
             PROVE  Globs!Glob(pattern, text) <=>
                      \E n \in Globs!EndsOf(qs, text)[Len(qs)] : n \in Globs!Before(pattern, text)[i]
  BY DEF Translated
<1>1. PICK e : e = Globs!EndsOf(parts, text)[Len(parts)]
  OBVIOUS
<1>2. PICK b : b = Globs!Before(pattern, text)
  OBVIOUS
<1>3. text \in Seq(Nat) /\ e \subseteq 0..Len(text) /\ Len(qs) = Len(parts) + 1
  BY <1>1, KeyTypes, EndsInText DEF GlobInv
<1>10. PICK g : g = Globs!EndsOf(qs, text)[Len(qs)]
  OBVIOUS
<1>4. g = { n \in 1..Len(text) : n - 1 \in e /\ Globs!Accepts(part, text[n]) }
  <2>1. g = Extends(part, text, e)
    <3>1. Globs!EndsOf(qs, text)[Len(parts) + 1]
            = Extends(part, text, Globs!EndsOf(parts, text)[Len(parts)])
      BY <1>3, EndsOfMore DEF GlobInv
    <3> QED BY <1>1, <1>3, <1>10, <3>1
  <2> QED BY <2>1 DEF Extends
<1>5. b[idx] = { n \in 0..Len(text) - 1 : Globs!Fits(text[n + 1], pattern, idx) /\ n + 1 \in b[i] }
  <2>1. b[idx] = Precedes(pattern, text, idx, b)
    BY <1>2, <1>3, BeforeIs DEF GlobInv
  <2>2. ~(idx > Len(pattern))
    BY DEF GlobInv
  <2> QED BY <2>1, <2>2, Zenon DEF Precedes
<1>6. Globs!Glob(pattern, text) <=> \E n \in e : n \in b[idx]
  BY <1>1, <1>2 DEF GlobInv, Translated
<1>7. \A n \in 1..Len(text) : text[n] \in Nat
  BY <1>3
<1>8. ASSUME NEW n \in e, n \in b[idx]
      PROVE  n + 1 \in g /\ n + 1 \in b[i]
  <2>1. n + 1 \in 1..Len(text) /\ n + 1 - 1 = n /\ Globs!Fits(text[n + 1], pattern, idx) /\ n + 1 \in b[i]
    BY <1>3, <1>5, <1>8
  <2>2. Globs!Accepts(part, text[n + 1])
    BY <1>7, <2>1
  <2>3. PICK m : m = n + 1
    OBVIOUS
  <2>4. m \in 1..Len(text) /\ m - 1 \in e /\ Globs!Accepts(part, text[m])
    <3>1. n \in Nat
      BY <1>3
    <3>2. m - 1 = n
      BY <2>3, <3>1
    <3> QED BY <1>8, <2>1, <2>2, <2>3, <3>2
  <2> QED BY <1>4, <2>1, <2>3, <2>4
<1>9. ASSUME NEW n \in g, n \in b[i]
      PROVE  n - 1 \in e /\ n - 1 \in b[idx]
  <2>1. n \in 1..Len(text) /\ n - 1 \in e /\ Globs!Accepts(part, text[n])
    BY <1>4, <1>9
  <2>2. Globs!Fits(text[n], pattern, idx)
    BY <1>7, <2>1
  <2>3. n - 1 \in 0..Len(text) - 1 /\ n - 1 + 1 = n
    BY <1>3, <2>1
  <2> QED BY <1>5, <1>9, <2>1, <2>2, <2>3
<1> QED BY <1>2, <1>6, <1>8, <1>9, <1>10, Zenon

(* A star takes any text. *)
LEMMA AnyCharacters ==
  ASSUME GlobInv, idx <= Len(pattern), pattern[idx] = Globs!Star
  PROVE  Translated(Append(parts, Globs!AnyText), idx + 1)
<1> DEFINE qs == Append(parts, Globs!AnyText)
<1> SUFFICES ASSUME NEW text \in Keys
             PROVE  Globs!Glob(pattern, text) <=>
                      \E n \in Globs!EndsOf(qs, text)[Len(qs)] :
                         n \in Globs!Before(pattern, text)[idx + 1]
  BY DEF Translated
<1>1. PICK e : e = Globs!EndsOf(parts, text)[Len(parts)]
  OBVIOUS
<1>2. PICK b : b = Globs!Before(pattern, text)
  OBVIOUS
<1>3. text \in Seq(Nat) /\ e \subseteq 0..Len(text) /\ Len(qs) = Len(parts) + 1
  BY <1>1, KeyTypes, EndsInText DEF GlobInv
<1>4. Globs!AnyText \in Parts /\ Globs!AnyText.type = "text"
  BY DEF Parts, Globs!AnyText
<1>5. PICK g : g = Globs!EndsOf(qs, text)[Len(qs)]
  OBVIOUS
<1>6. g = { n \in 0..Len(text) : \E m \in e : m <= n }
  <2>1. g = Extends(Globs!AnyText, text, e)
    <3>1. Globs!EndsOf(qs, text)[Len(parts) + 1]
            = Extends(Globs!AnyText, text, Globs!EndsOf(parts, text)[Len(parts)])
      BY <1>3, <1>4, EndsOfMore DEF GlobInv
    <3> QED BY <1>1, <1>3, <1>5, <3>1
  <2> QED BY <1>4, <2>1 DEF Extends
<1>7. /\ b[idx] = { n \in 0..Len(text) : \E m \in b[idx + 1] : n <= m }
      /\ b[idx + 1] \subseteq 0..Len(text)
  <2>1. /\ b[idx] = Precedes(pattern, text, idx, b)
        /\ b[idx + 1] = Precedes(pattern, text, idx + 1, b)
    <3>1. idx \in 1..Len(pattern) + 1 /\ idx + 1 \in 1..Len(pattern) + 1 /\ pattern \in Seq(Nat)
      BY DEF GlobInv
    <3> QED BY <1>2, <1>3, <3>1, BeforeIs
  <2>2. ~(idx > Len(pattern))
    BY DEF GlobInv
  <2>3. b[idx] = { n \in 0..Len(text) : \E m \in b[idx + 1] : n <= m }
    BY <2>1, <2>2, Zenon DEF Precedes
  <2>4. Precedes(pattern, text, idx + 1, b) \subseteq 0..Len(text)
    BY <1>3 DEF Precedes
  <2> QED BY <2>1, <2>3, <2>4
<1>8. Globs!Glob(pattern, text) <=> \E n \in e : n \in b[idx]
  BY <1>1, <1>2 DEF GlobInv, Translated
<1>9. (\E n \in e : n \in b[idx]) <=> \E n \in g : n \in b[idx + 1]
  BY <1>3, <1>6, <1>7
<1> QED BY <1>2, <1>5, <1>8, <1>9, Zenon
(* One character that stands for itself, outside a class. *)
LEMMA Itself ==
  ASSUME GlobInv, idx <= Len(pattern),
         pattern[idx] \notin {Globs!Star, Globs!Question},
         ~Globs!StartsClass(pattern, idx),
         pattern[idx] = Globs!Backslash => idx = Len(pattern)
  PROVE  Translated(Append(parts, Globs!Literal(pattern[idx])), idx + 1)
<1>1. Globs!After(pattern, idx) = idx + 1
  BY DEF Globs!After, GlobInv
<1>2. pattern[idx] \in Nat
  BY DEF GlobInv
<1>3. Globs!Literal(pattern[idx]) \in Parts /\ Globs!Literal(pattern[idx]).type # "text"
  BY <1>2 DEF Parts, Globs!Literal
<1>4. \A c \in Nat : Globs!Accepts(Globs!Literal(pattern[idx]), c) <=> Globs!Fits(c, pattern, idx)
  BY DEF Globs!Accepts, Globs!Literal, Globs!Fits, GlobInv
<1> QED BY <1>1, <1>3, <1>4, OneCharacter, Zenon

LEMMA NoClassHere ==
  ASSUME NEW p, NEW i, p[i] # Globs!Open
  PROVE  ~Globs!StartsClass(p, i)
BY DEF Globs!StartsClass

LEMMA CharactersDiffer ==
  /\ Globs!Star = 42 /\ Globs!Dash = 45 /\ Globs!Question = 63 /\ Globs!Open = 91
  /\ Globs!Backslash = 92 /\ Globs!Close = 93 /\ Globs!Caret = 94 /\ Globs!Bang = 33
BY DEF Globs!Star, Globs!Dash, Globs!Question, Globs!Open, Globs!Backslash, Globs!Close,
       Globs!Caret, Globs!Bang

LEMMA AtIs ==
  ASSUME GlobInv
  PROVE  \A i \in 1..Len(pattern) : Globs!At(i) = pattern[i]
BY DEF GlobInv, Globs!At

LEMMA EmitKeeps ==
  ASSUME GlobInv, NEW part \in Parts, NEW i \in 1 .. Len(pattern) + 1,
         Translated(Append(parts, part), i), Globs!Emit(part, i)
  PROVE  GlobInv'
<1>1. parts' \in Seq(Parts)
  BY DEF GlobInv, Globs!Emit
<1>2. Translated(parts', idx')
  BY DEF Globs!Emit
<1>3. Translated(parts, idx)'
  BY <1>2 DEF Globs!Emit, Translated
<1>4. class' \in Seq(Members)
  BY DEF Globs!Emit
<1> QED BY <1>1, <1>3, <1>4 DEF GlobInv, Globs!Emit

LEMMA WildcardKeeps == GlobInv /\ Globs!Wildcard => GlobInv'
<1> SUFFICES ASSUME GlobInv, Globs!Wildcard PROVE GlobInv'
  OBVIOUS
<1>1. idx <= Len(pattern) /\ idx + 1 \in 1 .. Len(pattern) + 1 /\ Globs!At(idx) = pattern[idx]
  BY AtIs DEF GlobInv, Globs!Wildcard, Globs!Outside
<1>2. CASE pattern[idx] = Globs!Star
  <2>1. Globs!Emit(Globs!AnyText, idx + 1)
    BY <1>1, <1>2, CharactersDiffer DEF Globs!Wildcard
  <2>2. Globs!AnyText \in Parts
    BY DEF Parts
  <2> QED BY <1>1, <1>2, <2>1, <2>2, AnyCharacters, EmitKeeps
<1>3. CASE pattern[idx] = Globs!Question
  <2>1. Globs!Emit(Globs!AnyOne, idx + 1)
    BY <1>1, <1>3, CharactersDiffer DEF Globs!Wildcard
  <2>2. Globs!AnyOne \in Parts /\ Globs!AnyOne.type # "text"
    BY DEF Parts, Globs!AnyOne
  <2>3. pattern[idx] # Globs!Star /\ ~Globs!StartsClass(pattern, idx) /\ pattern[idx] # Globs!Backslash
    BY <1>3, NoClassHere, CharactersDiffer
  <2>4. \A c \in Nat : Globs!Accepts(Globs!AnyOne, c) <=> Globs!Fits(c, pattern, idx)
    BY <1>3, <2>3 DEF Globs!Accepts, Globs!AnyOne, Globs!Fits
  <2>5. Globs!After(pattern, idx) = idx + 1
    BY <2>3 DEF Globs!After
  <2>6. Translated(Append(parts, Globs!AnyOne), idx + 1)
    BY <1>1, <2>2, <2>3, <2>4, <2>5, OneCharacter, Zenon
  <2> QED BY <1>1, <2>1, <2>2, <2>6, EmitKeeps
<1> QED BY <1>1, <1>2, <1>3 DEF Globs!Wildcard

LEMMA EscapedKeeps == GlobInv /\ Globs!Escaped => GlobInv'
<1> SUFFICES ASSUME GlobInv, Globs!Escaped PROVE GlobInv'
  OBVIOUS
<1>1. /\ idx <= Len(pattern) /\ idx \in 1..Len(pattern) /\ pattern[idx] = Globs!Backslash
      /\ pattern \in Seq(Nat)
  BY AtIs DEF GlobInv, Globs!Escaped, Globs!Outside
<1>2. /\ pattern[idx] \notin {Globs!Star, Globs!Question} /\ pattern[idx] # Globs!Open
      /\ ~Globs!StartsClass(pattern, idx)
  BY <1>1, NoClassHere, CharactersDiffer
<1>3. CASE idx < Len(pattern)
  <2> DEFINE part == Globs!Literal(pattern[idx + 1])
  <2>1. Globs!Emit(part, idx + 2) /\ idx + 2 \in 1 .. Len(pattern) + 1 /\ pattern[idx + 1] \in Nat
    <3>1. idx + 1 \in 1..Len(pattern) /\ idx + 2 \in 1 .. Len(pattern) + 1
      BY <1>1, <1>3
    <3>2. Globs!At(idx + 1) = pattern[idx + 1]
      BY <3>1, AtIs
    <3> QED BY <1>1, <1>3, <3>1, <3>2 DEF Globs!Escaped
  <2>2. part \in Parts /\ part.type # "text"
    BY <2>1 DEF Parts, Globs!Literal
  <2>3. \A c \in Nat : Globs!Accepts(part, c) <=> Globs!Fits(c, pattern, idx)
    BY <1>1, <1>2, <1>3 DEF Globs!Accepts, Globs!Literal, Globs!Fits
  <2>4. Globs!After(pattern, idx) = idx + 2
    BY <1>1, <1>2, <1>3 DEF Globs!After
  <2> HIDE DEF part
  <2>5. Translated(Append(parts, part), idx + 2)
    BY <1>1, <1>2, <2>2, <2>3, <2>4, OneCharacter
  <2> QED BY <2>1, <2>2, <2>5, EmitKeeps
<1>4. CASE ~(idx < Len(pattern))
  <2>1. Globs!Emit(Globs!Literal(pattern[idx]), idx + 1) /\ idx + 1 \in 1 .. Len(pattern) + 1
    BY <1>1, <1>4 DEF Globs!Escaped
  <2>2. Globs!Literal(pattern[idx]) \in Parts
    BY <1>1 DEF Parts
  <2>3. Translated(Append(parts, Globs!Literal(pattern[idx])), idx + 1)
    BY <1>1, <1>2, <1>4, Itself
  <2> QED BY <2>1, <2>2, <2>3, EmitKeeps
<1> QED BY <1>3, <1>4

LEMMA OrdinaryKeeps == GlobInv /\ Globs!Ordinary => GlobInv'
<1> SUFFICES ASSUME GlobInv, Globs!Ordinary PROVE GlobInv'
  OBVIOUS
<1>1. /\ idx <= Len(pattern) /\ idx + 1 \in 1 .. Len(pattern) + 1 /\ pattern[idx] \in Nat
      /\ pattern[idx] \notin {Globs!Star, Globs!Question, Globs!Backslash, Globs!Open}
      /\ Globs!Emit(Globs!Literal(pattern[idx]), idx + 1)
  BY AtIs DEF GlobInv, Globs!Ordinary, Globs!Outside
<1>2. Translated(Append(parts, Globs!Literal(pattern[idx])), idx + 1)
  BY <1>1, NoClassHere, Itself
<1>3. Globs!Literal(pattern[idx]) \in Parts
  BY <1>1 DEF Parts
<1> QED BY <1>1, <1>2, <1>3, EmitKeeps
(* Only the members of a class change while one is read. *)
LEMMA ClassKeeps ==
  ASSUME GlobInv, UNCHANGED <<pattern, idx, parts>>,
         class' \in Seq(Members), negated' \in BOOLEAN, InClass'
  PROVE  GlobInv'
<1>1. Translated(parts, idx)'
  BY DEF GlobInv, Translated
<1> QED BY <1>1 DEF GlobInv

LEMMA OpenClassKeeps == GlobInv /\ Globs!OpenClass => GlobInv'
<1> SUFFICES ASSUME GlobInv, Globs!OpenClass PROVE GlobInv'
  OBVIOUS
<1> DEFINE first == Globs!FirstMember(pattern, idx)
<1>1. /\ pattern \in Seq(Nat) /\ idx \in 1..Len(pattern) /\ pattern[idx] = Globs!Open
      /\ UNCHANGED <<pattern, idx, parts>>
  BY AtIs DEF GlobInv, Globs!OpenClass, Globs!Outside
<1>2. /\ negated' \in BOOLEAN
      /\ negated' <=> idx < Len(pattern) /\ pattern[idx + 1] \in {Globs!Caret, Globs!Bang}
  <2>1. /\ negated' \in BOOLEAN
        /\ negated' <=> Globs!At(idx + 1) \in {Globs!Caret, Globs!Bang}
    <3>1. negated' = (Globs!At(idx + 1) \in {Globs!Caret, Globs!Bang})
      BY DEF Globs!OpenClass
    <3>2. CASE Globs!At(idx + 1) \in {Globs!Caret, Globs!Bang}
      <4>1. negated' = TRUE
        BY <3>1, <3>2
      <4> QED BY <3>2, <4>1, Zenon
    <3>3. CASE Globs!At(idx + 1) \notin {Globs!Caret, Globs!Bang}
      <4>1. ~negated'
        BY <3>1, <3>3
      <4>2. negated' \in BOOLEAN
        BY DEF Globs!OpenClass
      <4> QED BY <3>3, <4>1, <4>2, Zenon
    <3> QED BY <3>2, <3>3
  <2>2. CASE idx < Len(pattern)
    <3>1. idx + 1 \in 1..Len(pattern)
      BY <1>1, <2>2
    <3>2. Globs!At(idx + 1) = pattern[idx + 1]
      BY <3>1, AtIs
    <3> QED BY <2>1, <2>2, <3>2, Zenon
  <2>3. CASE ~(idx < Len(pattern))
    <3>1. Globs!At(idx + 1) = 0
      BY <1>1, <2>3 DEF Globs!At
    <3>2. Globs!At(idx + 1) \notin {Globs!Caret, Globs!Bang}
      BY <3>1, CharactersDiffer
    <3> QED BY <2>1, <2>3, <3>2, Zenon
  <2> QED BY <2>2, <2>3
<1>3. /\ first \in Nat \ {0} /\ first <= Len(pattern) + 1
      /\ negated' <=> first = idx + 2
      /\ ~negated' => first = idx + 1
      /\ first' = first
  BY <1>1, <1>2 DEF Globs!FirstMember
<1>4. negated' = (first = idx + 2)
  <2> HIDE DEF first
  <2> QED BY <1>2, <1>3, Zenon
<1>9. /\ Globs!At(first) = Globs!Close =>
           class' = <<Globs!Escape(Globs!Close)>> /\ scan' = first + 1
      /\ Globs!At(first) # Globs!Close => class' = <<>> /\ scan' = first
  <2>1. negated' = (Globs!At(idx + 1) \in {Globs!Caret, Globs!Bang})
    BY DEF Globs!OpenClass
  <2> HIDE DEF first
  <2>2. first = IF Globs!At(idx + 1) \in {Globs!Caret, Globs!Bang} THEN idx + 2 ELSE idx + 1
    BY <1>3, <2>1
  <2> QED BY <2>2 DEF Globs!OpenClass
<1>5. ~Globs!Quoted(pattern, first, first)
  BY <1>1, <1>3, QuotedIs
<1>6. Globs!MembersOf(pattern, first)[first - 1] = <<>>
  BY <1>1, <1>3, MembersAre
<1>7. CASE first <= Len(pattern) /\ pattern[first] = Globs!Close
  <2>1. scan' = first + 1 /\ class' = <<Globs!Escape(Globs!Close)>>
    <3>1. Globs!At(first) = Globs!Close
      BY <1>3, <1>7, AtIs
    <3> QED BY <1>9, <3>1
  <2>2. first \in first..Len(pattern)
    BY <1>3, <1>7
  <2>3. ~Globs!Quoted(pattern, first, first + 1)
    BY <1>1, <1>3, <1>7, <2>2, QuotedIs, CharactersDiffer
  <2>4. Globs!MemberAt(pattern, first, first) = Globs!Escape(Globs!Close)
    BY <1>7, CharactersDiffer DEF Globs!MemberAt
  <2>5. Globs!MembersOf(pattern, first)[first] = class'
    <3>1. Globs!MembersOf(pattern, first)[first] = Append(<<>>, Globs!MemberAt(pattern, first, first))
      BY <1>1, <1>3, <1>6, <2>2, <2>3, MembersNext
    <3> QED BY <2>1, <2>4, <3>1
  <2>6. class' \in Seq(Members) /\ class' # <<>>
    BY <2>1, CharactersDiffer DEF Members
  <2> HIDE DEF first
  <2>7. scan' - 1 = first /\ scan' # first /\ scan' \in first .. Len(pattern) + 1
    BY <1>3, <1>7, <2>1
  <2>8. InClass'
    BY <1>1, <1>2, <1>3, <1>4, <2>1, <2>3, <2>5, <2>6, <2>7, SMTT(60) DEF InClass, first
  <2> QED BY <1>1, <1>2, <2>6, <2>8, ClassKeeps
<1>8. CASE ~(first <= Len(pattern) /\ pattern[first] = Globs!Close)
  <2>1. scan' = first /\ class' = <<>>
    <3>1. Globs!At(first) # Globs!Close
      BY <1>3, <1>8, AtIs, CharactersDiffer DEF Globs!At
    <3> QED BY <1>9, <3>1
  <2>2. class' \in Seq(Members)
    BY <2>1
  <2>3. InClass'
    BY <1>1, <1>2, <1>3, <1>4, <1>5, <1>6, <1>8, <2>1 DEF InClass
  <2> QED BY <1>1, <1>2, <2>2, <2>3, ClassKeeps
<1> QED BY <1>7, <1>8

LEMMA FirstIs ==
  ASSUME GlobInv, scan # 0
  PROVE  /\ Globs!FirstMember(pattern, idx) \in {idx + 1, idx + 2}
         /\ Globs!FirstMember(pattern, idx) <= Len(pattern) + 1
         /\ Globs!FirstMember(pattern, idx) \in Nat \ {0}
BY DEF GlobInv, InClass, Globs!FirstMember

LEMMA MemberKeeps == GlobInv /\ Globs!Member => GlobInv'
<1> SUFFICES ASSUME GlobInv, Globs!Member PROVE GlobInv'
  OBVIOUS
<1>1. PICK first : first = Globs!FirstMember(pattern, idx)
  OBVIOUS
<1>2. /\ pattern \in Seq(Nat) /\ scan \in 1..Len(pattern) /\ pattern[scan] # Globs!Close
      /\ pattern[scan] \in Nat
      /\ InClass /\ UNCHANGED <<pattern, idx, parts, negated>> /\ Globs!At(scan) = pattern[scan]
  BY AtIs, SMTT(60) DEF GlobInv, Globs!Member, Globs!Inside
<1>3. /\ first \in Nat \ {0} /\ first - 1 <= Len(pattern) /\ scan \in first..Len(pattern)
      /\ class = Globs!MembersOf(pattern, first)[scan - 1] /\ ~Globs!Quoted(pattern, first, scan)
      /\ \A j \in first + 1 .. scan - 1 :
           pattern[j] = Globs!Close => Globs!Quoted(pattern, first, j)
  BY <1>1, <1>2, FirstIs DEF InClass
<1>4. Globs!FirstMember(pattern, idx)' = first
  BY <1>1, <1>2
<1>5. CASE pattern[scan] = Globs!Backslash /\ scan < Len(pattern)
  <2> DEFINE c == Globs!Escape(pattern[scan + 1])
  <2>1. scan' = scan + 2 /\ class' = Append(class, c) /\ pattern[scan + 1] \in Nat
    <3>1. Globs!At(scan + 1) = pattern[scan + 1]
      BY <1>2, <1>5, AtIs
    <3> QED BY <1>2, <1>5, <3>1 DEF Globs!Member
  <2>2. scan + 1 \in first..Len(pattern) /\ scan + 1 - 1 = scan /\ scan + 1 + 1 = scan + 2
    BY <1>3, <1>5
  <2>3. Globs!Quoted(pattern, first, scan + 1)
    BY <1>2, <1>3, <1>5, QuotedIs
  <2>4. ~Globs!Quoted(pattern, first, scan + 2)
    BY <1>2, <1>3, <2>2, <2>3, QuotedIs
  <2>5. Globs!MembersOf(pattern, first)[scan] = class
    BY <1>2, <1>3, <2>3, MembersAre
  <2>6. Globs!MemberAt(pattern, first, scan + 1) = c
    BY <2>3 DEF Globs!MemberAt
  <2>7. Globs!MembersOf(pattern, first)[scan + 1] = class'
    <3>1. Globs!MembersOf(pattern, first)[scan + 1]
            = Append(Globs!MembersOf(pattern, first)[scan], Globs!MemberAt(pattern, first, scan + 1))
      <4>1. PICK j : j = scan + 1
        OBVIOUS
      <4>2. /\ j \in first..Len(pattern) /\ ~Globs!Quoted(pattern, first, j + 1)
            /\ j - 1 = scan
        BY <1>2, <2>2, <2>4, <4>1
      <4>3. Globs!MembersOf(pattern, first)[j]
              = Append(Globs!MembersOf(pattern, first)[j - 1], Globs!MemberAt(pattern, first, j))
        BY <1>2, <1>3, <4>2, MembersNext
      <4> QED BY <4>1, <4>2, <4>3
    <3> QED BY <2>1, <2>5, <2>6, <3>1
  <2>8. class' \in Seq(Members) /\ class' # <<>>
    <3>1. c \in Members
      BY <2>1 DEF Members
    <3> HIDE DEF c
    <3> QED BY <2>1, <3>1 DEF GlobInv
  <2>9. \A j \in first + 1 .. scan' - 1 :
          pattern[j] = Globs!Close => Globs!Quoted(pattern, first, j)
    <3> SUFFICES ASSUME NEW j \in first + 1 .. scan + 1, pattern[j] = Globs!Close
                 PROVE  Globs!Quoted(pattern, first, j)
      BY <1>2, <2>1
    <3>1. CASE j = scan + 1
      BY <2>3, <3>1
    <3>2. CASE j = scan
      BY <1>2, <3>2
    <3>3. CASE j < scan
      BY <1>2, <1>3, <3>3
    <3> QED BY <1>2, <3>1, <3>2, <3>3
  <2>10. scan' \in first .. Len(pattern) + 1 /\ scan' # first /\ scan' - 1 = scan + 1
    BY <1>2, <1>3, <1>5, <2>1
  <2> HIDE DEF c
  <2>11. InClass'
    BY <1>1, <1>2, <1>4, <2>1, <2>4, <2>7, <2>8, <2>9, <2>10 DEF InClass
  <2> QED BY <1>2, <2>8, <2>11, ClassKeeps DEF GlobInv
<1>6. CASE ~(pattern[scan] = Globs!Backslash /\ scan < Len(pattern))
  <2> DEFINE c == Globs!MemberAt(pattern, first, scan)
  <2>1. scan' = scan + 1 /\ class' = Append(class, c)
    BY <1>2, <1>3, <1>6 DEF Globs!Member, Globs!MemberAt
  <2>2. ~Globs!Quoted(pattern, first, scan + 1)
    BY <1>2, <1>3, <1>6, QuotedIs
  <2>3. Globs!MembersOf(pattern, first)[scan] = class'
    BY <1>2, <1>3, <2>1, <2>2, MembersAre
  <2>4. class' \in Seq(Members) /\ class' # <<>>
    <3>1. c \in Members
      BY <1>2 DEF Members, Globs!MemberAt
    <3> HIDE DEF c
    <3> QED BY <2>1, <3>1 DEF GlobInv
  <2>5. \A j \in first + 1 .. scan' - 1 :
          pattern[j] = Globs!Close => Globs!Quoted(pattern, first, j)
    <3> SUFFICES ASSUME NEW j \in first + 1 .. scan, pattern[j] = Globs!Close
                 PROVE  Globs!Quoted(pattern, first, j)
      BY <1>2, <2>1
    <3>1. CASE j = scan
      BY <1>2, <3>1
    <3>2. CASE j < scan
      BY <1>2, <1>3, <3>2
    <3> QED BY <1>2, <3>1, <3>2
  <2>6. scan' \in first .. Len(pattern) + 1 /\ scan' # first /\ scan' - 1 = scan
    BY <1>2, <1>3, <2>1
  <2> HIDE DEF c
  <2>7. InClass'
    BY <1>1, <1>2, <1>4, <2>1, <2>2, <2>3, <2>4, <2>5, <2>6 DEF InClass
  <2> QED BY <1>2, <2>4, <2>7, ClassKeeps DEF GlobInv
<1> QED BY <1>5, <1>6

LEMMA CloseClassKeeps == GlobInv /\ Globs!CloseClass => GlobInv'
<1> SUFFICES ASSUME GlobInv, Globs!CloseClass PROVE GlobInv'
  OBVIOUS
<1>1. PICK first : first = Globs!FirstMember(pattern, idx)
  OBVIOUS
<1>2. /\ InClass /\ pattern \in Seq(Nat) /\ idx \in 1..Len(pattern) /\ pattern[idx] = Globs!Open
      /\ first \in Nat \ {0} /\ scan \in first .. Len(pattern) + 1
  BY <1>1, FirstIs DEF GlobInv, Globs!CloseClass, InClass
<1>3. scan \in 1..Len(pattern) /\ pattern[scan] = Globs!Close
  <2>1. scan <= Len(pattern)
    BY <1>2, CharactersDiffer DEF Globs!CloseClass, Globs!At
  <2>2. scan \in 1..Len(pattern)
    BY <1>2, <2>1
  <2> QED BY <2>2, AtIs DEF Globs!CloseClass
<1>4. scan # first
  BY <1>1, <1>2, <1>3 DEF InClass
<1>5. class # <<>>
  BY <1>1, <1>2, <1>4 DEF InClass
<1>6. scan \in Globs!Closing(pattern, idx) /\ \A k \in Globs!Closing(pattern, idx) : scan <= k
  BY <1>1, <1>2, <1>3, <1>4 DEF InClass, Globs!Closing
<1>7. Globs!StartsClass(pattern, idx) /\ Globs!EndOfClass(pattern, idx) = scan
  <2>1. Globs!StartsClass(pattern, idx)
    BY <1>2, <1>6 DEF Globs!StartsClass
  <2>2. \A j \in Globs!Closing(pattern, idx) :
          (\A k \in Globs!Closing(pattern, idx) : j <= k) => j = scan
    <3>1. \A j \in Globs!Closing(pattern, idx) : j \in Int
      BY <1>1, <1>2 DEF Globs!Closing
    <3> QED BY <1>2, <1>6, <3>1
  <2> QED BY <1>6, <2>1, <2>2 DEF Globs!EndOfClass
<1> DEFINE part == Globs!Class(negated, class)
<1>8. Globs!Emit(part, scan + 1) /\ part \in Parts /\ part.type # "text"
  <2>1. Globs!Emit(part, scan + 1)
    BY <1>5 DEF Globs!CloseClass
  <2>2. part \in Parts
    BY DEF GlobInv, Parts
  <2>3. part.type # "text"
    BY DEF Globs!Class
  <2> QED BY <2>1, <2>2, <2>3
<1>9. ASSUME NEW c \in Nat PROVE Globs!Accepts(part, c) <=> Globs!Fits(c, pattern, idx)
  <2>1. Globs!Accepts(part, c) <=> (Globs!In(c, class) # negated)
    BY DEF Globs!Accepts, Globs!Class
  <2>2. class = Globs!MembersOf(pattern, first)[scan - 1] /\ negated = (first = idx + 2)
    BY <1>1, <1>2 DEF InClass
  <2>3. Globs!Fits(c, pattern, idx) <=> (Globs!In(c, class) # negated)
    BY <1>1, <1>7, <2>2 DEF Globs!Fits, Globs!IsMember
  <2> QED BY <2>1, <2>3
<1>10. Globs!After(pattern, idx) = scan + 1
  BY <1>7 DEF Globs!After
<1> HIDE DEF part
<1>11. Translated(Append(parts, part), scan + 1)
  BY <1>2, <1>8, <1>9, <1>10, OneCharacter, CharactersDiffer
<1>12. scan + 1 \in 1 .. Len(pattern) + 1
  BY <1>3
<1> QED BY <1>8, <1>11, <1>12, EmitKeeps

LEMMA UnclosedKeeps == GlobInv /\ Globs!Unclosed => GlobInv'
<1> SUFFICES ASSUME GlobInv, Globs!Unclosed PROVE GlobInv'
  OBVIOUS
<1>1. PICK first : first = Globs!FirstMember(pattern, idx)
  OBVIOUS
<1>2. /\ InClass /\ pattern \in Seq(Nat) /\ idx \in 1..Len(pattern) /\ pattern[idx] = Globs!Open
      /\ scan = Len(pattern) + 1
  BY DEF GlobInv, Globs!Unclosed, InClass
<1>3. \A j \in first + 1 .. Len(pattern) :
        pattern[j] = Globs!Close => Globs!Quoted(pattern, first, j)
  BY <1>1, <1>2 DEF InClass
<1>4. ~Globs!StartsClass(pattern, idx)
  BY <1>1, <1>3 DEF Globs!StartsClass, Globs!Closing
<1>5. /\ Globs!Emit(Globs!Literal(pattern[idx]), idx + 1)
      /\ Globs!Literal(pattern[idx]) \in Parts /\ idx + 1 \in 1 .. Len(pattern) + 1
  BY <1>2 DEF Globs!Unclosed, Parts
<1>6. Translated(Append(parts, Globs!Literal(pattern[idx])), idx + 1)
  BY <1>2, <1>4, Itself, CharactersDiffer
<1> QED BY <1>5, <1>6, EmitKeeps
LEMMA GlobInit == AllInit => GlobInv
<1> SUFFICES ASSUME AllInit PROVE GlobInv
  OBVIOUS
<1>1. pattern \in Seq(Nat)
  <2>1. PICK n \in 0..MaxPattern : pattern \in [1..n -> Symbols]
    BY DEF AllInit, Globs!Init, Globs!Patterns
  <2>2. n \in Nat
    BY GlobAssumption
  <2>3. pattern \in [1..n -> Nat]
    BY <2>1, GlobAssumption
  <2> QED BY <2>2, <2>3
<1>2. /\ idx = 1 /\ parts = <<>> /\ scan = 0 /\ negated = FALSE /\ class = <<>>
  BY DEF AllInit, Globs!Init
<1>3. Translated(parts, idx)
  <2> SUFFICES ASSUME NEW text \in Keys
               PROVE  Globs!Glob(pattern, text) <=>
                        \E n \in Globs!EndsOf(parts, text)[Len(parts)] :
                           n \in Globs!Before(pattern, text)[1]
    BY <1>2 DEF Translated
  <2>1. Len(parts) = 0 /\ Globs!EndsOf(parts, text)[0] = {0}
    BY <1>2, KeyTypes, EndsOfIs
  <2> QED BY <2>1 DEF Globs!Glob
<1>4. parts \in Seq(Parts) /\ class \in Seq(Members)
  BY <1>2
<1>5. idx \in 1 .. Len(pattern) + 1
  BY <1>1, <1>2
<1> QED BY <1>1, <1>2, <1>3, <1>4, <1>5, Zenon DEF GlobInv

LEMMA GlobNext == GlobInv /\ [AllNext]_<<subject, vars, globVars, argsVars>> => GlobInv'
<1> SUFFICES ASSUME GlobInv, [AllNext]_<<subject, vars, globVars, argsVars>> PROVE GlobInv'
  OBVIOUS
<1>1. CASE UNCHANGED globVars
  BY <1>1 DEF globVars, GlobInv, InClass, Translated
<1>2. CASE \/ Globs!Wildcard \/ Globs!Escaped \/ Globs!Ordinary \/ Globs!OpenClass
           \/ Globs!Member \/ Globs!CloseClass \/ Globs!Unclosed
  BY <1>2, WildcardKeeps, EscapedKeeps, OrdinaryKeeps, OpenClassKeeps, MemberKeeps,
     CloseClassKeeps, UnclosedKeeps
<1> QED BY <1>1, <1>2 DEF AllNext, InCodec, InArgs

(* The expression that a glob is compiled into matches exactly the keys    *)
(* that the glob stands for, with classes, ranges and backslashes in any   *)
(* combination, closed or not.                                             *)
THEOREM MatchesGlobHolds == AllSpec => []MatchesGlob
<1>1. GlobInv => MatchesGlob
  <2> SUFFICES ASSUME GlobInv, Globs!Compiled, NEW text \in Keys
               PROVE  Globs!FullMatch(parts, text) = Globs!Glob(pattern, text)
    BY DEF MatchesGlob, Globs!MatchesGlob
  <2>1. text \in Seq(Nat) /\ idx > Len(pattern) /\ idx \in 1 .. Len(pattern) + 1
    BY KeyTypes DEF GlobInv, Globs!Compiled
  <2>2. Globs!Before(pattern, text)[idx] = {Len(text)}
    BY <2>1, BeforeIs DEF GlobInv, Precedes
  <2>3. Globs!Glob(pattern, text) <=> Globs!FullMatch(parts, text)
    BY <2>2 DEF GlobInv, Translated, Globs!FullMatch
  <2> QED BY <2>3 DEF Globs!Glob, Globs!FullMatch
<1> QED BY <1>1, GlobInit, GlobNext, PTL DEF AllSpec
-----------------------------------------------------------------------------
(* The codec: what decoders make of what encoders wrote *)

(* A payload: after the magic every cell is a number. *)
Payload ==
  { p \in Seq(Nat \cup {Magic}) : \A i \in 2..Len(p) : p[i] \in Nat }

LEMMA OutcomesAre ==
  /\ \A x : Good(x).error = "" /\ Good(x).value = x
  /\ \A x, y : Then(Good(x), y) = Good(y)
  /\ \A x : Raised(x).error # ""
  /\ Malformed.error # "" /\ OtherError.error # ""
  /\ \A x, y : Step(x, y).outcome = x /\ Step(x, y).at = y
BY DEF Good, Then, Raised, Malformed, OtherError, Step

(* What is in a payload from a place on. *)
Holds(p, at, s) ==
  at + Len(s) <= Len(p) + 1 /\ \A i \in 1..Len(s) : p[at + i - 1] = s[i]

LEMMA HoldsParts ==
  ASSUME NEW p, Len(p) \in Nat, NEW at \in Nat, NEW s \in Seq(Nat), NEW t \in Seq(Nat),
         Holds(p, at, s \o t)
  PROVE  Holds(p, at, s) /\ Holds(p, at + Len(s), t)
<1>1. /\ Len(s \o t) = Len(s) + Len(t)
      /\ \A i \in 1..Len(s) : i \in 1..Len(s \o t) /\ (s \o t)[i] = s[i]
      /\ \A i \in 1..Len(t) :
           Len(s) + i \in 1..Len(s \o t) /\ (s \o t)[Len(s) + i] = t[i]
  OBVIOUS
<1>2. Holds(p, at, s)
  BY <1>1 DEF Holds
<1>3. ASSUME NEW i \in 1..Len(t) PROVE p[at + Len(s) + i - 1] = t[i]
  <2>1. p[at + (Len(s) + i) - 1] = t[i]
    BY <1>1 DEF Holds
  <2>2. at + (Len(s) + i) - 1 = at + Len(s) + i - 1
    OBVIOUS
  <2> QED BY <2>1, <2>2
<1>4. at + Len(s) + Len(t) <= Len(p) + 1
  BY <1>1 DEF Holds
<1> QED BY <1>2, <1>3, <1>4 DEF Holds

(* What a payload holds is what one reads there. *)
LEMMA HoldsReads ==
  ASSUME NEW p \in Payload, NEW at \in Nat \ {0}, NEW s \in Seq(Nat), Holds(p, at, s)
  PROVE  SubSeq(p, at, at + Len(s) - 1) = s
<1>1. p \in Seq(Nat \cup {Magic}) /\ at + Len(s) - 1 <= Len(p)
  BY DEF Payload, Holds
<1>2. PICK n : n = at + Len(s) - 1
  OBVIOUS
<1>3. at \in Int /\ n \in Int /\ \A i \in at..n : p[i] \in Nat \cup {Magic}
  <2>1. at \in Int /\ n \in Int /\ \A i \in at..n : i \in 1..Len(p)
    BY <1>1, <1>2
  <2> QED BY <1>1, <2>1, ElementOfSeq
<1>4. PICK q : q = SubSeq(p, at, n)
  OBVIOUS
<1>5. /\ q \in Seq(Nat \cup {Magic})
      /\ Len(q) = IF at <= n THEN n - at + 1 ELSE 0
      /\ \A i \in 1 .. n - at + 1 : q[i] = p[at + i - 1]
  <2>1. PICK S : S = Nat \cup {Magic}
    OBVIOUS
  <2>2. \A i \in at..n : p[i] \in S
    BY <1>3, <2>1
  <2>3. /\ q \in Seq(S)
        /\ Len(q) = IF at <= n THEN n - at + 1 ELSE 0
        /\ \A i \in 1 .. n - at + 1 : q[i] = p[at + i - 1]
    BY <1>3, <1>4, <2>2, SubSeqProperties
  <2> QED BY <2>1, <2>3
<1>6. Len(q) = Len(s) /\ \A i \in 1..Len(q) : i \in 1 .. n - at + 1 /\ i \in 1..Len(s)
  BY <1>2, <1>5
<1>7. \A i \in 1..Len(q) : q[i] = s[i]
  BY <1>5, <1>6, Zenon DEF Holds
<1>8. s \in Seq(Nat \cup {Magic})
  BY SeqMonotonic
<1> QED BY <1>2, <1>4, <1>5, <1>6, <1>7, <1>8, SeqEqual, Zenon

LEMMA CellsAreNumbers == Cells \subseteq Nat /\ \A s \in JsonTexts : s \in Seq(Cells) /\ IsText(s)
BY CodecAssumption DEF Cells

(* The shape of a value, type by type. *)
LEMMA ValueShape ==
  ASSUME NEW v \in Value
  PROVE  /\ v = Python(v.type, v.data) /\ v.data \in Seq(Nat)
         /\ v.type \in {"none", "bytes", "str", "json"}
         /\ v.type = "none" => v = None /\ v.data = <<>>
         /\ v.type = "str" => IsText(v.data)
         /\ v.type = "json" => v.data \in JsonTexts /\ IsText(v.data)
<1>1. \A s \in Seq(Cells) : s \in Seq(Nat)
  BY CellsAreNumbers, SeqMonotonic
<1>2. CASE v = None
  BY <1>2 DEF None, Python
<1>3. CASE v \in [type : {"bytes"}, data : Seq(Cells)]
  BY <1>1, <1>3 DEF Python
<1>4. CASE v \in [type : {"str"}, data : Texts]
  BY <1>1, <1>4 DEF Python, Texts
<1>5. CASE v \in [type : {"json"}, data : JsonTexts]
  BY <1>1, <1>5, CellsAreNumbers DEF Python
<1> QED BY <1>2, <1>3, <1>4, <1>5 DEF Value

LEMMA PrefixedIs ==
  ASSUME NEW s \in Seq(Nat)
  PROVE  /\ Prefixed(s) \in Seq(Nat) /\ Len(Prefixed(s)) = Len(s) + 1
         /\ Prefixed(s)[1] = Len(s)
         /\ \A i \in 1..Len(s) : Prefixed(s)[i + 1] = s[i]
BY DEF Prefixed

LEMMA FieldReads ==
  ASSUME NEW p \in Payload, NEW at \in Nat \ {0}, NEW s \in Seq(Nat), Holds(p, at, Prefixed(s))
  PROVE  Field(p, at) = Step(Good(s), at + Len(s) + 1)
<1>1. at + Len(s) <= Len(p) /\ p[at] = Len(s) /\ Len(p) \in Nat
  <2>1. at + (Len(s) + 1) <= Len(p) + 1 /\ p[at + 1 - 1] = Len(s)
    <3>1. Len(Prefixed(s)) = Len(s) + 1 /\ Prefixed(s)[1] = Len(s) /\ 1 \in 1..Len(Prefixed(s))
      BY PrefixedIs
    <3>2. at + Len(Prefixed(s)) <= Len(p) + 1 /\ p[at + 1 - 1] = Prefixed(s)[1]
      BY <3>1, Zenon DEF Holds
    <3> QED BY <3>1, <3>2
  <2>2. Len(p) \in Nat /\ at + 1 - 1 = at
    BY DEF Payload
  <2> QED BY <2>1, <2>2
<1>2. Holds(p, at + 1, s)
  <2>1. <<Len(s)>> \in Seq(Nat) /\ Len(<<Len(s)>>) = 1
    OBVIOUS
  <2> QED BY <1>1, <2>1, HoldsParts DEF Prefixed
<1>3. SubSeq(p, at + 1, at + 1 + Len(s) - 1) = s /\ at + 1 + Len(s) - 1 = at + Len(s)
  BY <1>2, HoldsReads
<1>4. ~(at > Len(p) \/ at + p[at] > Len(p))
  BY <1>1
<1> QED BY <1>1, <1>3, <1>4, Zenon DEF Field

LEMMA EncodeValueType ==
  ASSUME NEW v \in Value
  PROVE  EncodeValue(v) \in Seq(Nat)
<1>1. v.data \in Seq(Nat) /\ v.type \in {"none", "bytes", "str", "json"}
  BY ValueShape
<1>2. <<Tag[v.type]>> \in Seq(Nat)
  BY <1>1 DEF Tag
<1>3. Prefixed(v.data) \in Seq(Nat)
  BY <1>1, PrefixedIs
<1> QED BY <1>2, <1>3 DEF EncodeValue

(* A value that is not None is read as it was written. *)
LEMMA DataReads ==
  ASSUME NEW p \in Payload, NEW at \in Nat \ {0},
         NEW type \in {"bytes", "str", "json"}, NEW data \in Seq(Nat),
         type = "str" => IsText(data), type = "json" => data \in JsonTexts,
         Holds(p, at, <<Tag[type]>> \o Prefixed(data))
  PROVE  DecodeValue(p, at) = Step(Good(Python(type, data)), at + Len(data) + 2)
<1>1. PICK tag \in {1, 2, 3} : tag = Tag[type] /\ tag # Tag["none"]
  BY DEF Tag
<1>2. PICK t : t = <<tag>> /\ t \in Seq(Nat) /\ Len(t) = 1 /\ t[1] = tag
  <2>1. <<tag>> \in Seq(Nat) /\ Len(<<tag>>) = 1 /\ <<tag>>[1] = tag
    OBVIOUS
  <2> QED BY <2>1, Zenon
<1>3. Holds(p, at, t) /\ Holds(p, at + 1, Prefixed(data))
  <2>1. Prefixed(data) \in Seq(Nat) /\ Len(p) \in Nat
    BY PrefixedIs DEF Payload
  <2>2. Holds(p, at, t) /\ Holds(p, at + Len(t), Prefixed(data))
    BY <1>1, <1>2, <2>1, HoldsParts
  <2> QED BY <1>2, <2>2
<1>4. at <= Len(p) /\ p[at] = tag
  <2>1. 1 \in 1..Len(t) /\ at + 1 - 1 = at
    BY <1>2
  <2>2. at + Len(t) <= Len(p) + 1 /\ p[at + 1 - 1] = t[1]
    BY <1>3, <2>1 DEF Holds
  <2>3. Len(p) \in Nat
    BY DEF Payload
  <2> QED BY <1>2, <2>1, <2>2, <2>3
<1>5. Field(p, at + 1) = Step(Good(data), at + Len(data) + 2)
  <2>1. at + 1 \in Nat \ {0} /\ at + 1 + Len(data) + 1 = at + Len(data) + 2
    OBVIOUS
  <2> QED BY <1>3, <2>1, FieldReads
<1>6. Interpreted(tag, data) = Good(Python(type, data))
  <2>1. CASE type = "bytes"
    BY <1>1, <2>1 DEF Interpreted, Tag
  <2>2. CASE type = "str"
    <3>1. Interpreted(tag, data) = Then(Text(data), Python("str", data))
      BY <1>1, <2>2 DEF Interpreted, Tag
    <3>2. Text(data) = Good(data)
      BY <2>2 DEF Text
    <3>3. Interpreted(tag, data) = Then(Good(data), Python("str", data))
      BY <3>1, <3>2
    <3> QED BY <2>2, <3>3 DEF Then, Good
  <2>3. CASE type = "json"
    BY <1>1, <2>3 DEF Interpreted, Tag
  <2> QED BY <2>1, <2>2, <2>3
<1>7. PICK field : field = Field(p, at + 1)
  OBVIOUS
<1>8. ~(field.outcome.error # "") /\ field.outcome.value = data /\ field.at = at + Len(data) + 2
  <2>1. PICK n : n = at + Len(data) + 2
    OBVIOUS
  <2>2. field = Step(Good(data), n)
    BY <1>5, <1>7, <2>1
  <2> QED BY <2>1, <2>2 DEF Step, Good
<1>9. ~(at > Len(p)) /\ ~(p[at] = Tag["none"])
  BY <1>1, <1>4 DEF Payload
<1>10. DecodeValue(p, at) =
         Step(IF field.outcome.error # "" THEN Malformed
              ELSE Interpreted(p[at], field.outcome.value), field.at)
  BY <1>7, <1>9, Zenon DEF DecodeValue
<1> QED BY <1>4, <1>6, <1>8, <1>10, Zenon

LEMMA ValueReads ==
  ASSUME NEW p \in Payload, NEW at \in Nat \ {0}, NEW v \in Value, Holds(p, at, EncodeValue(v))
  PROVE  DecodeValue(p, at) = Step(Good(v), at + Len(EncodeValue(v)))
<1>1. PICK type, data : type = v.type /\ data = v.data
  OBVIOUS
<1>2. /\ v = Python(type, data) /\ data \in Seq(Nat)
      /\ type \in {"none", "bytes", "str", "json"}
      /\ type = "none" => v = None
      /\ type = "str" => IsText(data)
      /\ type = "json" => data \in JsonTexts
  BY <1>1, ValueShape
<1>3. EncodeValue(v) = <<Tag[type]>> \o IF type = "none" THEN <<>> ELSE Prefixed(data)
  BY <1>1 DEF EncodeValue
<1>4. CASE type = "none"
  <2>1. PICK s : s = EncodeValue(v)
    OBVIOUS
  <2>2. Len(s) = 1 /\ s[1] = Tag["none"]
    BY <1>3, <1>4, <2>1 DEF Tag
  <2>3. Len(p) \in Nat /\ Holds(p, at, s)
    BY <2>1 DEF Payload
  <2>4. at <= Len(p) /\ p[at] = Tag["none"]
    BY <2>2, <2>3 DEF Holds
  <2>5. DecodeValue(p, at) = Step(Good(None), at + 1)
    BY <2>3, <2>4 DEF DecodeValue
  <2> QED BY <1>2, <1>4, <2>1, <2>2, <2>5
<1>5. CASE type # "none"
  <2>1. EncodeValue(v) = <<Tag[type]>> \o Prefixed(data)
    BY <1>3, <1>5
  <2>2. DecodeValue(p, at) = Step(Good(Python(type, data)), at + Len(data) + 2)
    <3>1. Holds(p, at, <<Tag[type]>> \o Prefixed(data)) /\ type \in {"bytes", "str", "json"}
      BY <1>2, <1>5, <2>1
    <3> QED BY <1>2, <3>1, DataReads
  <2>3. Len(EncodeValue(v)) = Len(data) + 2
    <3>1. Prefixed(data) \in Seq(Nat) /\ Len(Prefixed(data)) = Len(data) + 1
      BY <1>2, PrefixedIs
    <3>2. PICK t : t = Prefixed(data)
      OBVIOUS
    <3>3. PICK tag \in Nat : tag = Tag[type]
      BY <1>2 DEF Tag
    <3>4. Len(<<tag>> \o t) = Len(t) + 1
      BY <3>1, <3>2
    <3>5. Len(data) \in Nat
      BY <1>2
    <3> QED BY <2>1, <3>1, <3>2, <3>3, <3>4, <3>5
  <2>4. at + Len(data) + 2 = at + (Len(data) + 2)
    BY <1>2
  <2> QED BY <1>2, <2>2, <2>3, <2>4
<1> QED BY <1>4, <1>5
-----------------------------------------------------------------------------
(* Several values *)

LEMMA EncodedIs ==
  ASSUME NEW vs \in Seq(Value)
  PROVE  /\ Encoded(vs)[0] = <<>>
         /\ \A i \in 1..Len(vs) : Encoded(vs)[i] = Encoded(vs)[i - 1] \o EncodeValue(vs[i])
         /\ \A i \in 0..Len(vs) : Encoded(vs)[i] \in Seq(Nat)
<1> DEFINE n    == Len(vs)
           S    == Seq(Nat)
           next == [x \in S \X (0..n) |->
                      IF x[2] = 0 THEN x[1] ELSE x[1] \o EncodeValue(vs[x[2]])]
           Is(f) == f = [i \in 0..n |-> IF i = 0 THEN <<>> ELSE f[i - 1] \o EncodeValue(vs[i])]
<1>1. \A i \in 1..n : EncodeValue(vs[i]) \in S
  <2>1. \A i \in 1..n : vs[i] \in Value
    OBVIOUS
  <2> QED BY <2>1, EncodeValueType
<1>2. ASSUME NEW f, Is(f)
      PROVE  /\ f[0] = <<>>
             /\ \A i \in 1..n : f[i] = f[i - 1] \o EncodeValue(vs[i])
             /\ \A i \in 0..n : f[i] \in S
  <2>1. f[0] = <<>> /\ \A i \in 1..n : f[i] = f[i - 1] \o EncodeValue(vs[i])
    <3>1. 0 \in 0..n /\ \A i \in 1..n : i \in 0..n /\ i # 0
      OBVIOUS
    <3> QED BY <1>2, <3>1, Zenon
  <2>2. \A i \in 0..n : f[i] \in S
    <3> DEFINE P == { i \in 0..n : f[i] \in S }
    <3>1. 0 \in P
      <4>1. <<>> \in S /\ 0 \in 0..n
        OBVIOUS
      <4> QED BY <2>1, <4>1, Zenon
    <3>2. ASSUME NEW i \in 0..n, i # 0, i - 1 \in P PROVE i \in P
      <4>1. i \in 1..n /\ f[i - 1] \in S
        BY <3>2
      <4>2. f[i] = f[i - 1] \o EncodeValue(vs[i]) /\ EncodeValue(vs[i]) \in S
        BY <1>1, <2>1, <4>1, Zenon
      <4>3. f[i] \in S
        BY <4>1, <4>2
      <4> QED BY <4>3
    <3>3. \A i \in 0..n : i \in P
      <4>1. 0 \in Nat /\ n \in Nat
        OBVIOUS
      <4> HIDE DEF P, n
      <4> QED BY <3>1, <3>2, <4>1, Induction
    <3> QED BY <3>3
  <2> QED BY <2>1, <2>2
<1>3. \E f : Is(f)
  <2>1. next \in [S \X (0..n) -> S]
    <3> SUFFICES ASSUME NEW x \in S \X (0..n)
                 PROVE  (IF x[2] = 0 THEN x[1] ELSE x[1] \o EncodeValue(vs[x[2]])) \in S
      BY Zenon
    <3>1. x[1] \in S /\ (x[2] # 0 => EncodeValue(vs[x[2]]) \in S)
      BY <1>1
    <3> QED BY <3>1
  <2>2. PICK f \in [0..n -> S] : Follows(f, 0, n, <<>>, next)
    <3>1. <<>> \in S /\ 0 \in Nat /\ n \in Nat
      OBVIOUS
    <3> HIDE DEF S, next, n
    <3> QED BY <2>1, <3>1, Recursion
  <2>3. ASSUME NEW i \in 0..n, i # 0
        PROVE  next[<<f[i - 1], i>>] = f[i - 1] \o EncodeValue(vs[i])
    <3>1. i - 1 \in 0..n
      BY <2>3
    <3>2. f[i - 1] \in S
      BY <2>2, <3>1
    <3> QED BY <2>3, <3>2
  <2>4. Is(f)
    <3> HIDE DEF next
    <3> QED BY <2>2, <2>3 DEF Follows
  <2> QED BY <2>4
<1>4. Encoded(vs) = CHOOSE f : Is(f)
  BY DEF Encoded
<1>5. Is(Encoded(vs))
  <2> HIDE DEF Is
  <2> QED BY <1>3, <1>4, Zenon
<1> HIDE DEF Is
<1> QED BY <1>2, <1>5, Zenon

LEMMA DecodedIs ==
  ASSUME NEW p, NEW from, NEW n \in Nat
  PROVE  /\ Decoded(p, from, n)[0] = Step(Good(<<>>), from)
         /\ \A i \in 1..n : Decoded(p, from, n)[i] = DecodeNext(p, Decoded(p, from, n)[i - 1])
<1> DEFINE Table(f, k) == f = [i \in 0..k |-> IF i = 0 THEN Step(Good(<<>>), from)
                                              ELSE DecodeNext(p, f[i - 1])]
           P == { k \in 0..n : \E f : Table(f, k) }
<1>1. Table([i \in 0..0 |-> Step(Good(<<>>), from)], 0)
  OBVIOUS
<1>2. ASSUME NEW k \in 1..n, NEW g, Table(g, k - 1) PROVE \E f : Table(f, k)
  <2> DEFINE f == [i \in 0..k |-> IF i = k THEN DecodeNext(p, g[k - 1]) ELSE g[i]]
  <2>1. \A i \in 0 .. k - 1 : f[i] = g[i]
    OBVIOUS
  <2>2. ASSUME NEW i \in 0..k
        PROVE  f[i] = IF i = 0 THEN Step(Good(<<>>), from) ELSE DecodeNext(p, f[i - 1])
    <3>1. CASE i = k
      <4>1. f[i - 1] = g[k - 1] /\ f[i] = DecodeNext(p, g[k - 1]) /\ i # 0
        BY <2>1, <3>1
      <4> QED BY <4>1
    <3>2. CASE i # k
      <4>1. i \in 0 .. k - 1 /\ f[i] = g[i]
        BY <2>1, <3>2
      <4>2. g[i] = IF i = 0 THEN Step(Good(<<>>), from) ELSE DecodeNext(p, g[i - 1])
        BY <1>2, <4>1
      <4>3. i # 0 => f[i - 1] = g[i - 1]
        BY <2>1, <4>1
      <4> HIDE DEF f
      <4> QED BY <4>1, <4>2, <4>3
    <3> QED BY <3>1, <3>2
  <2>3. Table(f, k)
    <3>1. f = [i \in 0..k |-> f[i]]
      OBVIOUS
    <3> HIDE DEF f
    <3> QED BY <2>2, <3>1
  <2> HIDE DEF f, Table
  <2> QED BY <2>3
<1> HIDE DEF Table
<1>3. \A k \in 0..n : k \in P
  <2>1. 0 \in P
    BY <1>1
  <2>2. ASSUME NEW k \in 0..n, k # 0, k - 1 \in P PROVE k \in P
    <3>1. k \in 1..n
      BY <2>2
    <3>2. PICK g : Table(g, k - 1)
      BY <2>2
    <3> QED BY <1>2, <3>1, <3>2
  <2>3. 0 \in Nat
    OBVIOUS
  <2> HIDE DEF P
  <2> QED BY <2>1, <2>2, <2>3, Induction
<1>4. \E f : Table(f, n)
  <2>1. n \in P
    BY <1>3
  <2> QED BY <2>1
<1>5. Decoded(p, from, n) = CHOOSE f : Table(f, n)
  BY DEF Decoded, Table
<1>6. Table(Decoded(p, from, n), n)
  BY <1>4, <1>5, Zenon
<1>7. 0 \in 0..n /\ \A i \in 1..n : i \in 0..n /\ i # 0
  OBVIOUS
<1> QED BY <1>6, <1>7, Zenon DEF Table

LEMMA NextIs ==
  ASSUME NEW p, NEW values, NEW at, NEW v, NEW then, DecodeValue(p, at) = Step(Good(v), then)
  PROVE  DecodeNext(p, Step(Good(values), at)) = Step(Good(Append(values, v)), then)
<1>1. PICK before, next : before = Step(Good(values), at) /\ next = DecodeValue(p, at)
  OBVIOUS
<1>2. /\ ~(before.outcome.error # "") /\ before.outcome.value = values /\ before.at = at
      /\ next.outcome = Good(v) /\ next.outcome.value = v /\ next.at = then
  <2>1. before.outcome = Good(values) /\ before.at = at
    BY <1>1 DEF Step
  <2>2. next.outcome = Good(v) /\ next.at = then
    <3>1. next = Step(Good(v), then)
      BY <1>1, Zenon
    <3> QED BY <3>1 DEF Step
  <2>3. before.outcome.error = "" /\ before.outcome.value = values /\ next.outcome.value = v
    BY <2>1, <2>2, OutcomesAre, Zenon
  <2> QED BY <2>1, <2>2, <2>3, Zenon
<1>3. DecodeNext(p, before) =
        IF before.outcome.error # "" THEN before
        ELSE Step(Then(next.outcome, Append(before.outcome.value, next.outcome.value)), next.at)
  BY <1>1, <1>2 DEF DecodeNext
<1>4. DecodeNext(p, before) = Step(Then(Good(v), Append(values, v)), then)
  BY <1>2, <1>3, Zenon
<1>5. Then(Good(v), Append(values, v)) = Good(Append(values, v))
  BY OutcomesAre, Zenon
<1> QED BY <1>1, <1>4, <1>5, Zenon

(* Values are read one after another as they were written. *)
LEMMA ValuesRead ==
  ASSUME NEW p \in Payload, NEW from \in Nat \ {0}, NEW vs \in Seq(Value),
         Holds(p, from, EncodeValues(vs))
  PROVE  Decoded(p, from, Len(vs))[Len(vs)] = Step(Good(vs), from + Len(EncodeValues(vs)))
<1> DEFINE n == Len(vs)
<1>1. PICK e : e = Encoded(vs)
  OBVIOUS
<1>2. /\ e[0] = <<>>
      /\ \A i \in 1..n : e[i] = e[i - 1] \o EncodeValue(vs[i])
      /\ \A i \in 0..n : e[i] \in Seq(Nat)
  BY <1>1, EncodedIs, Zenon
<1>3. PICK d : d = Decoded(p, from, n)
  OBVIOUS
<1>4. /\ d[0] = Step(Good(<<>>), from)
      /\ \A i \in 1..n : d[i] = DecodeNext(p, d[i - 1])
  <2>1. n \in Nat
    OBVIOUS
  <2> QED BY <1>3, <2>1, DecodedIs, Zenon
<1>5. ASSUME NEW i \in 1..n
      PROVE  /\ vs[i] \in Value /\ EncodeValue(vs[i]) \in Seq(Nat)
             /\ i - 1 \in 0..n /\ e[i - 1] \in Seq(Nat)
  BY <1>2, EncodeValueType
<1>6. Len(p) \in Nat /\ n \in Nat /\ 0 \in Nat
  BY DEF Payload
<1>7. \A k \in 0..n : Holds(p, from, e[n - k])
  <2> DEFINE P == { k \in 0..n : Holds(p, from, e[n - k]) }
  <2>1. 0 \in P
    <3>1. n - 0 = n /\ EncodeValues(vs) = e[n] /\ 0 \in 0..n
      BY <1>1 DEF EncodeValues
    <3> QED BY <3>1
  <2>2. ASSUME NEW k \in 0..n, k # 0, k - 1 \in P PROVE k \in P
    <3>1. PICK i \in 1..n : i = n - (k - 1) /\ n - k = i - 1
      BY <2>2
    <3>2. Holds(p, from, e[i])
      BY <2>2, <3>1
    <3>3. Holds(p, from, e[i - 1] \o EncodeValue(vs[i]))
      BY <1>2, <3>2
    <3>4. Holds(p, from, e[i - 1])
      BY <1>5, <1>6, <3>3, HoldsParts
    <3> QED BY <3>1, <3>4
  <2>3. \A k \in 0..n : k \in P
    <3> HIDE DEF P, n
    <3> QED BY <1>6, <2>1, <2>2, Induction
  <2> QED BY <2>3
<1>8. \A i \in 0..n : d[i] = Step(Good(SubSeq(vs, 1, i)), from + Len(e[i]))
  <2> DEFINE P == { i \in 0..n : d[i] = Step(Good(SubSeq(vs, 1, i)), from + Len(e[i])) }
  <2>1. 0 \in P
    <3>1. SubSeq(vs, 1, 0) = <<>> /\ from + Len(e[0]) = from /\ 0 \in 0..n
      BY <1>2
    <3> QED BY <1>4, <3>1
  <2>2. ASSUME NEW i \in 0..n, i # 0, i - 1 \in P PROVE i \in P
    <3>1. i \in 1..n /\ n - (n - i) = i /\ n - i \in 0..n
      BY <2>2
    <3>2. Holds(p, from, e[i - 1] \o EncodeValue(vs[i]))
      <4>1. Holds(p, from, e[n - (n - i)])
        BY <1>7, <3>1, Zenon
      <4> QED BY <1>2, <3>1, <4>1
    <3>3. PICK s, t, v : s = e[i - 1] /\ t = EncodeValue(vs[i]) /\ v = vs[i]
      OBVIOUS
    <3>4. s \in Seq(Nat) /\ t \in Seq(Nat) /\ v \in Value
      BY <1>5, <3>1, <3>3
    <3>5. Holds(p, from + Len(s), t)
      BY <1>6, <3>2, <3>3, <3>4, HoldsParts
    <3>6. DecodeValue(p, from + Len(s)) = Step(Good(v), from + Len(s) + Len(t))
      <4>1. from + Len(s) \in Nat \ {0}
        BY <3>4
      <4> QED BY <3>3, <3>4, <3>5, <4>1, ValueReads
    <3>7. d[i - 1] = Step(Good(SubSeq(vs, 1, i - 1)), from + Len(s))
      BY <2>2, <3>3
    <3>8. d[i] = Step(Good(Append(SubSeq(vs, 1, i - 1), v)), from + Len(s) + Len(t))
      <4>1. d[i] = DecodeNext(p, d[i - 1])
        BY <1>4, <3>1
      <4>2. PICK values, place, next :
              /\ values = SubSeq(vs, 1, i - 1) /\ place = from + Len(s)
              /\ next = from + Len(s) + Len(t)
        OBVIOUS
      <4>3. DecodeNext(p, Step(Good(values), place)) = Step(Good(Append(values, v)), next)
        <5>1. DecodeValue(p, place) = Step(Good(v), next)
          BY <3>6, <4>2, Zenon
        <5> HIDE DEF n
        <5> QED BY <5>1, NextIs
      <4>4. d[i] = Step(Good(Append(values, v)), next)
        BY <3>7, <4>1, <4>2, <4>3, Zenon
      <4> QED BY <4>2, <4>4, Zenon
    <3>9. from + Len(e[i]) = from + Len(s) + Len(t)
      <4>1. e[i] = s \o t
        BY <1>2, <3>1, <3>3
      <4> QED BY <3>4, <4>1
    <3>10. Append(SubSeq(vs, 1, i - 1), v) = SubSeq(vs, 1, i)
      BY <3>1, <3>3
    <3> QED BY <3>8, <3>9, <3>10
  <2>3. \A i \in 0..n : i \in P
    <3> HIDE DEF P, n
    <3> QED BY <1>6, <2>1, <2>2, Induction
  <2> QED BY <2>3
<1>9. n \in 0..n /\ SubSeq(vs, 1, n) = vs
  OBVIOUS
<1> QED BY <1>1, <1>3, <1>8, <1>9 DEF EncodeValues
-----------------------------------------------------------------------------
(* A payload and its beginnings *)

Begins(q, p) == Len(q) <= Len(p) /\ \A i \in 1..Len(q) : q[i] = p[i]

Fine(step)   == step.outcome.error = ""
Placed(step) == step.at \in Nat /\ step.at >= 2

LEMMA StepsAre ==
  /\ \A x, y : Fine(Step(x, y)) <=> x.error = ""
  /\ \A x, y : Placed(Step(x, y)) <=> y \in Nat /\ y >= 2
  /\ \A y : ~Fine(Step(Malformed, y))
<1>1. ASSUME NEW x, NEW y PROVE Step(x, y).outcome = x /\ Step(x, y).at = y
  BY DEF Step
<1>2. Malformed.error # ""
  BY OutcomesAre
<1>3. \A x, y : Fine(Step(x, y)) <=> x.error = ""
  BY <1>1, Zenon DEF Fine
<1>4. \A x, y : Placed(Step(x, y)) <=> y \in Nat /\ y >= 2
  BY <1>1, Zenon DEF Placed
<1> QED BY <1>2, <1>3, <1>4, Zenon

LEMMA PayloadIs ==
  ASSUME NEW p \in Payload
  PROVE  /\ Len(p) \in Nat /\ p \in Seq(Nat \cup {Magic})
         /\ \A i \in 2..Len(p) : p[i] \in Nat
BY DEF Payload

(* What a payload begins with is read in it, too. *)
LEMMA FieldSame ==
  ASSUME NEW p \in Payload, NEW q \in Payload, Begins(q, p),
         NEW at \in Nat, at >= 2, Fine(Field(q, at))
  PROVE  Field(p, at) = Field(q, at) /\ Placed(Field(q, at))
<1>2. Len(p) \in Nat /\ Len(q) \in Nat /\ Len(q) <= Len(p)
  BY PayloadIs DEF Begins
<1>3. ~(at > Len(q) \/ at + q[at] > Len(q))
  <2> SUFFICES ASSUME at > Len(q) \/ at + q[at] > Len(q) PROVE FALSE
    OBVIOUS
  <2>1. Field(q, at) = Step(Malformed, at)
    BY Zenon DEF Field
  <2> QED BY <2>1, StepsAre, Zenon
<1>4. at \in 2..Len(q)
  BY <1>2, <1>3
<1>5. PICK n \in Nat : n = q[at] /\ n = p[at]
  BY <1>4, PayloadIs DEF Begins
<1>6. at + n <= Len(q) /\ at + n <= Len(p) /\ at <= Len(p) /\ at + n \in Nat
  BY <1>2, <1>3, <1>4, <1>5
<1>7. SubSeq(p, at + 1, at + n) = SubSeq(q, at + 1, at + n)
  <2>1. PICK S : S = Nat \cup {Magic}
    OBVIOUS
  <2>2. PICK low, high : low = at + 1 /\ high = at + n
    OBVIOUS
  <2>3. low \in Int /\ high \in Int /\ low >= 1 /\ high <= Len(q) /\ high <= Len(p)
    BY <1>6, <2>2
  <2>4. \A i \in low..high : i \in 1..Len(q) /\ i \in 1..Len(p)
    BY <1>2, <2>3
  <2>5. \A i \in low..high : q[i] = p[i] /\ q[i] \in S /\ p[i] \in S
    <3>1. p \in Seq(S) /\ q \in Seq(S)
      BY <2>1, PayloadIs
    <3>2. \A i \in 1..Len(q) : q[i] \in S
      BY <3>1
    <3> QED BY <2>4, <3>2 DEF Begins
  <2>6. PICK a, b : a = SubSeq(p, low, high) /\ b = SubSeq(q, low, high)
    OBVIOUS
  <2>7. /\ a \in Seq(S) /\ b \in Seq(S) /\ Len(a) = Len(b)
        /\ Len(a) = IF low <= high THEN high - low + 1 ELSE 0
    BY <2>3, <2>5, <2>6, SubSeqProperties
  <2>8. \A i \in 1 .. high - low + 1 : a[i] = p[low + i - 1] /\ b[i] = q[low + i - 1]
    BY <2>3, <2>5, <2>6, SubSeqProperties
  <2>9. ASSUME NEW i \in 1..Len(a) PROVE a[i] = b[i]
    <3>1. i \in 1 .. high - low + 1 /\ low + i - 1 \in low..high
      BY <2>3, <2>7
    <3> QED BY <2>5, <2>8, <3>1, Zenon
  <2>10. a = b
    BY <2>7, <2>9, SeqEqual
  <2> QED BY <2>2, <2>6, <2>10
<1>8. Field(q, at) = Step(Good(SubSeq(q, at + 1, at + n)), at + n + 1)
  BY <1>3, <1>5, Zenon DEF Field
<1>9. Field(p, at) = Step(Good(SubSeq(p, at + 1, at + n)), at + n + 1)
  <2>1. ~(at > Len(p) \/ at + n > Len(p))
    BY <1>2, <1>6
  <2> QED BY <1>5, <2>1, Zenon DEF Field
<1>10. at + n + 1 \in Nat /\ at + n + 1 >= 2
  OBVIOUS
<1>11. Placed(Field(q, at))
  BY <1>8, <1>10, StepsAre, Zenon
<1> QED BY <1>7, <1>8, <1>9, <1>11, Zenon

LEMMA ValueSame ==
  ASSUME NEW p \in Payload, NEW q \in Payload, Begins(q, p),
         NEW at \in Nat, at >= 2, Fine(DecodeValue(q, at))
  PROVE  DecodeValue(p, at) = DecodeValue(q, at) /\ Placed(DecodeValue(q, at))
<1>1. ~(at > Len(q))
  <2> SUFFICES ASSUME at > Len(q) PROVE FALSE
    OBVIOUS
  <2>1. DecodeValue(q, at) = Step(Malformed, at)
    BY Zenon DEF DecodeValue
  <2> QED BY <2>1, StepsAre, Zenon
<1>2. ~(at > Len(p)) /\ p[at] = q[at]
  <2>1. Len(q) \in Nat /\ Len(p) \in Nat /\ at \in 1..Len(q)
    BY <1>1, PayloadIs
  <2> QED BY <2>1 DEF Begins
<1>3. CASE q[at] = Tag["none"]
  <2>1. DecodeValue(q, at) = Step(Good(None), at + 1) /\ DecodeValue(p, at) = Step(Good(None), at + 1)
    BY <1>1, <1>2, <1>3, Zenon DEF DecodeValue
  <2>2. at + 1 \in Nat /\ at + 1 >= 2
    OBVIOUS
  <2> QED BY <2>1, <2>2, StepsAre, Zenon
<1>4. CASE q[at] # Tag["none"]
  <2>1. PICK field, ok, there : /\ field = Field(q, at + 1)
                                /\ ok = Interpreted(q[at], field.outcome.value)
                                /\ there = field.at
    OBVIOUS
  <2>2. DecodeValue(q, at) =
          Step(IF field.outcome.error # "" THEN Malformed ELSE ok, there)
    BY <1>1, <1>4, <2>1, Zenon DEF DecodeValue
  <2>3. Fine(field)
    <3> SUFFICES ASSUME field.outcome.error # "" PROVE FALSE
      BY Zenon DEF Fine
    <3>1. DecodeValue(q, at) = Step(Malformed, there)
      BY <2>2, Zenon
    <3> QED BY <3>1, StepsAre, Zenon
  <2>4. at + 1 \in Nat /\ at + 1 >= 2
    OBVIOUS
  <2>5. Field(p, at + 1) = field /\ Placed(field)
    <3>1. Fine(Field(q, at + 1))
      BY <2>1, <2>3, Zenon
    <3> QED BY <2>1, <2>4, <3>1, FieldSame, Zenon
  <2>6. DecodeValue(p, at) =
          Step(IF field.outcome.error # "" THEN Malformed ELSE ok, there)
    BY <1>2, <1>4, <2>1, <2>5, Zenon DEF DecodeValue
  <2>7. there \in Nat /\ there >= 2
    BY <2>1, <2>5, Zenon DEF Placed
  <2> QED BY <2>2, <2>6, <2>7, StepsAre, Zenon
<1> QED BY <1>3, <1>4

LEMMA NextCases ==
  ASSUME NEW p, NEW before, Fine(DecodeNext(p, before))
  PROVE  /\ Fine(before) /\ Fine(DecodeValue(p, before.at))
         /\ Placed(DecodeValue(p, before.at)) => Placed(DecodeNext(p, before))
<1>1. Fine(before)
  <2> SUFFICES ASSUME before.outcome.error # "" PROVE FALSE
    BY Zenon DEF Fine
  <2>1. DecodeNext(p, before) = before
    BY Zenon DEF DecodeNext
  <2> QED BY <2>1, Zenon DEF Fine
<1>2. PICK next, x, y, z : /\ next = DecodeValue(p, before.at) /\ x = next.outcome /\ y = next.at
                           /\ z = Append(before.outcome.value, next.outcome.value)
  OBVIOUS
<1>3. DecodeNext(p, before) = Step(Then(x, z), y)
  BY <1>1, <1>2, Zenon DEF DecodeNext, Fine
<1>4. Fine(next)
  <2> SUFFICES ASSUME x.error # "" PROVE FALSE
    BY <1>2, Zenon DEF Fine
  <2>1. Then(x, z) = x
    BY Zenon DEF Then
  <2> QED BY <1>3, <2>1, StepsAre, Zenon
<1>5. ASSUME Placed(next) PROVE Placed(DecodeNext(p, before))
  <2>1. y \in Nat /\ y >= 2
    BY <1>2, <1>5, Zenon DEF Placed
  <2> QED BY <1>3, <2>1, StepsAre, Zenon
<1> QED BY <1>1, <1>2, <1>4, <1>5, Zenon

LEMMA NextSame ==
  ASSUME NEW p \in Payload, NEW q \in Payload, Begins(q, p),
         NEW before, Placed(before), Fine(DecodeNext(q, before))
  PROVE  DecodeNext(p, before) = DecodeNext(q, before) /\ Placed(DecodeNext(q, before))
<1>1. PICK at : at = before.at
  OBVIOUS
<1>2. at \in Nat /\ at >= 2
  BY <1>1, Zenon DEF Placed
<1>3. Fine(DecodeValue(q, at))
  BY <1>1, NextCases, Zenon
<1>4. DecodeValue(p, at) = DecodeValue(q, at) /\ Placed(DecodeValue(q, at))
  BY <1>2, <1>3, ValueSame, Zenon
<1>5. DecodeNext(p, before) = DecodeNext(q, before)
  BY <1>1, <1>4, Zenon DEF DecodeNext
<1> QED BY <1>1, <1>4, <1>5, NextCases, Zenon

LEMMA ValuesSame ==
  ASSUME NEW p \in Payload, NEW q \in Payload, Begins(q, p),
         NEW from \in Nat, from >= 2, NEW n \in Nat,
         Fine(Decoded(q, from, n)[n])
  PROVE  Decoded(p, from, n)[n] = Decoded(q, from, n)[n]
<1>1. PICK c, d : c = Decoded(p, from, n) /\ d = Decoded(q, from, n)
  OBVIOUS
<1>2. /\ c[0] = Step(Good(<<>>), from) /\ d[0] = Step(Good(<<>>), from)
      /\ \A i \in 1..n : c[i] = DecodeNext(p, c[i - 1]) /\ d[i] = DecodeNext(q, d[i - 1])
  BY <1>1, DecodedIs, Zenon
<1>3. \A k \in 0..n : Fine(d[n - k])
  <2> DEFINE P == { k \in 0..n : Fine(d[n - k]) }
  <2>1. 0 \in P
    <3>1. n - 0 = n /\ 0 \in 0..n
      OBVIOUS
    <3> QED BY <1>1, <3>1
  <2>2. ASSUME NEW k \in 0..n, k # 0, k - 1 \in P PROVE k \in P
    <3>1. PICK i \in 1..n : i = n - (k - 1) /\ n - k = i - 1
      BY <2>2
    <3>2. Fine(d[i])
      BY <2>2, <3>1
    <3>3. Fine(DecodeNext(q, d[i - 1]))
      BY <1>2, <3>2, Zenon
    <3>4. Fine(d[i - 1])
      BY <3>3, NextCases, Zenon
    <3> QED BY <3>1, <3>4
  <2>3. \A k \in 0..n : k \in P
    <3>1. 0 \in Nat
      OBVIOUS
    <3> HIDE DEF P
    <3> QED BY <2>1, <2>2, <3>1, Induction
  <2> QED BY <2>3
<1>4. \A i \in 0..n : c[i] = d[i] /\ Placed(d[i])
  <2> DEFINE P == { i \in 0..n : c[i] = d[i] /\ Placed(d[i]) }
  <2>1. 0 \in P
    <3>1. Placed(d[0]) /\ c[0] = d[0]
      BY <1>2, StepsAre, Zenon
    <3>2. 0 \in 0..n
      OBVIOUS
    <3> QED BY <3>1, <3>2
  <2>2. ASSUME NEW i \in 0..n, i # 0, i - 1 \in P PROVE i \in P
    <3>1. i \in 1..n /\ n - (n - i) = i /\ n - i \in 0..n
      BY <2>2
    <3>2. PICK before : before = d[i - 1] /\ before = c[i - 1] /\ Placed(before)
      BY <2>2
    <3>3. d[i] = DecodeNext(q, before) /\ c[i] = DecodeNext(p, before)
      BY <1>2, <3>1, <3>2, Zenon
    <3>4. Fine(DecodeNext(q, before))
      <4>1. Fine(d[n - (n - i)])
        BY <1>3, <3>1, Zenon
      <4> QED BY <3>1, <3>3, <4>1
    <3>5. DecodeNext(p, before) = DecodeNext(q, before) /\ Placed(DecodeNext(q, before))
      BY <3>2, <3>4, NextSame, Zenon
    <3> QED BY <3>3, <3>5
  <2>3. \A i \in 0..n : i \in P
    <3>1. 0 \in Nat
      OBVIOUS
    <3> HIDE DEF P
    <3> QED BY <2>1, <2>2, <3>1, Induction
  <2> QED BY <2>3
<1>5. n \in 0..n
  OBVIOUS
<1> QED BY <1>1, <1>4, <1>5, Zenon

LEMMA WholeIs ==
  ASSUME NEW p, NEW x, NEW at
  PROVE  /\ x.error # "" \/ at = Len(p) + 1 => Whole(p, Step(x, at)) = x
         /\ x.error = "" /\ at # Len(p) + 1 => Whole(p, Step(x, at)) = Malformed
         /\ Whole(p, Step(x, at)).error = "" => x.error = "" /\ at = Len(p) + 1
<1>1. PICK step : step = Step(x, at)
  OBVIOUS
<1>2. step.outcome = x /\ step.at = at
  BY <1>1 DEF Step
<1>3. CASE x.error = "" /\ at # Len(p) + 1
  <2>1. Whole(p, step) = Malformed
    BY <1>2, <1>3, Zenon DEF Whole
  <2> QED BY <1>1, <1>3, <2>1, OutcomesAre, Zenon
<1>4. CASE ~(x.error = "" /\ at # Len(p) + 1)
  <2>1. Whole(p, step) = x
    BY <1>2, <1>4, Zenon DEF Whole
  <2> QED BY <1>1, <1>4, <2>1, Zenon
<1> QED BY <1>3, <1>4

LEMMA WholeEnds ==
  ASSUME NEW p, NEW step, Whole(p, step).error = ""
  PROVE  Fine(step) /\ step.at = Len(p) + 1
<1>1. CASE Fine(step) /\ step.at # Len(p) + 1
  <2>1. Whole(p, step) = Malformed
    BY <1>1, Zenon DEF Whole, Fine
  <2> QED BY <2>1, OutcomesAre, Zenon
<1>2. CASE ~(Fine(step) /\ step.at # Len(p) + 1)
  <2>1. Whole(p, step) = step.outcome
    BY <1>2, Zenon DEF Whole, Fine
  <2>2. Fine(step)
    BY <2>1, Zenon DEF Fine
  <2> QED BY <1>2, <2>2, Zenon
<1> QED BY <1>1, <1>2

(* Of two payloads one of which begins with the other, at most one ends    *)
(* with the values.                                                        *)
LEMMA ValuesCut ==
  ASSUME NEW p \in Payload, NEW q \in Payload, Begins(q, p), Len(q) # Len(p),
         NEW from \in Nat, from >= 2, NEW n \in Nat, NEW x,
         Decoded(p, from, n)[n] = Step(x, Len(p) + 1)
  PROVE  DecodeValues(q, from, n).error # ""
<1>1. Len(p) + 1 # Len(q) + 1
  <2>1. Len(p) \in Nat /\ Len(q) \in Nat
    BY PayloadIs
  <2> QED BY <2>1
<1> SUFFICES ASSUME Whole(q, Decoded(q, from, n)[n]).error = "" PROVE FALSE
  BY Zenon DEF DecodeValues
<1>2. PICK step : step = Decoded(q, from, n)[n]
  OBVIOUS
<1>3. Fine(step) /\ step.at = Len(q) + 1
  BY <1>2, WholeEnds, Zenon
<1>4. Decoded(p, from, n)[n] = step
  BY <1>2, <1>3, ValuesSame, Zenon
<1>5. PICK m, k : m = Len(p) + 1 /\ k = Len(q) + 1
  OBVIOUS
<1>6. m = k
  <2>1. step = Step(x, m) /\ step.at = k
    BY <1>3, <1>4, <1>5, Zenon
  <2>2. Step(x, m).at = m
    BY OutcomesAre, Zenon
  <2> QED BY <2>1, <2>2, Zenon
<1> QED BY <1>5, <1>6, <1>1, Zenon
-----------------------------------------------------------------------------
(* Commands *)

LEMMA DecodeValuesIs ==
  ASSUME NEW p \in Payload, NEW from \in Nat \ {0}, NEW vs \in Seq(Value),
         Holds(p, from, EncodeValues(vs))
  PROVE  DecodeValues(p, from, Len(vs)) =
           IF from + Len(EncodeValues(vs)) = Len(p) + 1 THEN Good(vs) ELSE Malformed
<1>1. PICK n, at : n = Len(vs) /\ at = from + Len(EncodeValues(vs))
  OBVIOUS
<1>2. Decoded(p, from, n)[n] = Step(Good(vs), at)
  BY <1>1, ValuesRead
<1>3. DecodeValues(p, from, n) = Whole(p, Step(Good(vs), at))
  BY <1>2, Zenon DEF DecodeValues
<1>4. Good(vs).error = ""
  BY OutcomesAre, Zenon
<1>5. CASE at = Len(p) + 1
  <2>1. Whole(p, Step(Good(vs), at)) = Good(vs)
    BY <1>5, WholeIs, Zenon
  <2> QED BY <1>1, <1>3, <1>5, <2>1, Zenon
<1>6. CASE at # Len(p) + 1
  <2>1. Whole(p, Step(Good(vs), at)) = Malformed
    BY <1>4, <1>6, WholeIs, ZenonT(60)
  <2> QED BY <1>1, <1>3, <1>6, <2>1, Zenon
<1> QED BY <1>5, <1>6

LEMMA Concatenated ==
  ASSUME NEW S, NEW x \in Seq(S), NEW u \in Seq(S), NEW e \in Seq(S)
  PROVE  /\ x \o u \o e \in Seq(S) /\ Len(x \o u \o e) = Len(x) + Len(u) + Len(e)
         /\ \A i \in 1..Len(x) : (x \o u \o e)[i] = x[i]
         /\ \A i \in 1..Len(u) : (x \o u \o e)[Len(x) + i] = u[i]
         /\ \A i \in 1..Len(e) : (x \o u \o e)[Len(x) + Len(u) + i] = e[i]
<1>1. PICK y : y = x \o u
  OBVIOUS
<1>2. /\ y \in Seq(S) /\ Len(y) = Len(x) + Len(u)
      /\ \A i \in 1..Len(x) : y[i] = x[i]
      /\ \A i \in 1..Len(u) : y[Len(x) + i] = u[i]
  <2>1. /\ x \o u \in Seq(S) /\ Len(x \o u) = Len(x) + Len(u)
        /\ \A i \in 1..Len(x) : (x \o u)[i] = x[i]
        /\ \A i \in 1..Len(u) : (x \o u)[Len(x) + i] = u[i]
    OBVIOUS
  <2> QED BY <1>1, <2>1, Zenon
<1>3. PICK p : p = y \o e
  OBVIOUS
<1>4. /\ p \in Seq(S) /\ Len(p) = Len(y) + Len(e)
      /\ \A i \in 1..Len(y) : p[i] = y[i]
      /\ \A i \in 1..Len(e) : p[Len(y) + i] = e[i]
  <2>1. y \in Seq(S)
    BY <1>2
  <2>2. /\ y \o e \in Seq(S) /\ Len(y \o e) = Len(y) + Len(e)
        /\ \A i \in 1..Len(y) : (y \o e)[i] = y[i]
        /\ \A i \in 1..Len(e) : (y \o e)[Len(y) + i] = e[i]
    BY <2>1
  <2> QED BY <1>3, <2>2, Zenon
<1>5. ASSUME NEW i \in 1..Len(u) PROVE p[Len(x) + i] = u[i]
  <2>1. Len(x) + i \in 1..Len(y)
    BY <1>2
  <2> QED BY <1>2, <1>4, <2>1
<1>6. ASSUME NEW i \in 1..Len(x) PROVE p[i] = x[i]
  <2>1. i \in 1..Len(y)
    BY <1>2
  <2> QED BY <1>2, <1>4, <2>1
<1>7. p = x \o u \o e
  BY <1>1, <1>3, Zenon
<1>8. /\ Len(p) = Len(x) + Len(u) + Len(e)
      /\ \A i \in 1..Len(e) : p[Len(x) + Len(u) + i] = e[i]
  BY <1>2, <1>4
<1> QED BY <1>4, <1>5, <1>6, <1>7, <1>8, Zenon

(* A payload that starts with a header of the right type. *)
Headed(p, type) ==
  Len(p) >= 3 /\ p[1] = Magic /\ p[2] = Version /\ p[3] = FrameType[type]

LEMMA HeadedIs ==
  ASSUME NEW p \in Payload, NEW type, Headed(p, type)
  PROVE  HasHeader(p, type) /\ StartsWithMagic(Binary(p)) /\ Binary(p).format = "binary"
<1>1. PICK S, t : S = Nat \cup {Magic, t} /\ t = FrameType[type]
  OBVIOUS
<1>2. PICK h : h = Header(type) /\ h = <<Magic, 1, t>>
  BY <1>1 DEF Header, Version
<1>3. PICK q : q = SubSeq(p, 1, 3)
  OBVIOUS
<1>4. Len(p) \in Nat /\ Len(p) >= 3 /\ p[1] = Magic /\ p[2] = 1 /\ p[3] = t
  BY <1>1, PayloadIs DEF Headed, Version
<1>5. q \in Seq(S) /\ Len(q) = 3 /\ \A i \in 1..3 : q[i] = p[i]
  <2>1. \A i \in 1..3 : p[i] \in S
    BY <1>1, <1>4
  <2>2. q \in Seq(S) /\ Len(q) = (IF 1 <= 3 THEN 3 - 1 + 1 ELSE 0)
        /\ \A i \in 1 .. 3 - 1 + 1 : q[i] = p[1 + i - 1]
    BY <1>3, <2>1, SubSeqProperties
  <2>3. \A i \in 1..3 : i \in 1 .. 3 - 1 + 1 /\ 1 + i - 1 = i
    OBVIOUS
  <2>4. Len(q) = 3
    BY <2>2
  <2> QED BY <2>2, <2>3, <2>4, Zenon
<1>6. h \in Seq(S) /\ Len(h) = 3 /\ h[1] = Magic /\ h[2] = 1 /\ h[3] = t
  BY <1>1, <1>2
<1>7. q = h
  <2>1. \A i \in 1..Len(q) : q[i] = h[i]
    BY <1>4, <1>5, <1>6
  <2> QED BY <1>5, <1>6, <2>1, SeqEqual
<1>8. HasHeader(p, type)
  BY <1>2, <1>3, <1>4, <1>7 DEF HasHeader
<1>9. StartsWithMagic(Binary(p)) /\ Binary(p).format = "binary"
  <2>1. p # <<>> /\ p[1] = Magic
    BY <1>4
  <2>2. PICK w : w = Binary(p)
    OBVIOUS
  <2>3. w.data = p /\ w.format = "binary"
    BY <2>2 DEF Binary
  <2> QED BY <2>1, <2>2, <2>3, Zenon DEF StartsWithMagic
<1> QED BY <1>8, <1>9

LEMMA CutIs ==
  ASSUME NEW p \in Payload, NEW n \in 0 .. Len(p) - 1
  PROVE  /\ SubSeq(p, 1, n) \in Payload /\ Begins(SubSeq(p, 1, n), p)
         /\ Len(SubSeq(p, 1, n)) # Len(p)
<1>1. PICK S : S = Nat \cup {Magic}
  OBVIOUS
<1>2. PICK q : q = SubSeq(p, 1, n)
  OBVIOUS
<1>3. Len(p) \in Nat /\ p \in Seq(S) /\ \A i \in 2..Len(p) : p[i] \in Nat
  BY <1>1, PayloadIs
<1>4. \A i \in 1..n : p[i] \in S
  BY <1>3
<1>5. q \in Seq(S) /\ Len(q) = n /\ \A i \in 1..n : q[i] = p[i]
  <2>1. /\ q \in Seq(S) /\ Len(q) = (IF 1 <= n THEN n - 1 + 1 ELSE 0)
        /\ \A i \in 1 .. n - 1 + 1 : q[i] = p[1 + i - 1]
    <3>1. n \in Int /\ 1 \in Int
      BY <1>3
    <3> QED BY <1>2, <1>4, <3>1, SubSeqProperties
  <2>2. \A i \in 1..n : i \in 1 .. n - 1 + 1 /\ 1 + i - 1 = i
    BY <1>3
  <2>3. Len(q) = n
    BY <1>3, <2>1
  <2> QED BY <2>1, <2>2, <2>3, Zenon
<1>6. \A i \in 2..Len(q) : q[i] \in Nat
  BY <1>3, <1>5
<1>7. q \in Payload
  BY <1>1, <1>5, <1>6 DEF Payload
<1>8. Begins(q, p)
  BY <1>3, <1>5 DEF Begins
<1> QED BY <1>2, <1>3, <1>5, <1>7, <1>8

LEMMA LongerIs ==
  ASSUME NEW p \in Payload, p # <<>>, NEW c \in Nat
  PROVE  /\ Append(p, c) \in Payload /\ Begins(p, Append(p, c))
         /\ Len(Append(p, c)) = Len(p) + 1
<1>1. PICK S : S = Nat \cup {Magic}
  OBVIOUS
<1>2. PICK q : q = Append(p, c)
  OBVIOUS
<1>3. Len(p) \in Nat /\ p \in Seq(S) /\ \A i \in 2..Len(p) : p[i] \in Nat
  BY <1>1, PayloadIs
<1>4. /\ q \in Seq(S) /\ Len(q) = Len(p) + 1 /\ q[Len(p) + 1] = c
      /\ \A i \in 1..Len(p) : q[i] = p[i]
  <2>1. c \in S
    BY <1>1
  <2> QED BY <1>2, <1>3, <2>1, AppendProperties
<1>5. \A i \in 2..Len(q) : q[i] \in Nat
  BY <1>3, <1>4
<1>6. q \in Payload
  BY <1>1, <1>4, <1>5 DEF Payload
<1>7. Begins(p, q)
  BY <1>3, <1>4 DEF Begins
<1> QED BY <1>2, <1>4, <1>6, <1>7

LEMMA HoldsMore ==
  ASSUME NEW p \in Payload, NEW q \in Payload, Begins(p, q),
         NEW at \in Nat \ {0}, NEW s, Len(s) \in Nat, Holds(p, at, s)
  PROVE  Holds(q, at, s)
<1>1. Len(p) \in Nat /\ Len(q) \in Nat /\ Len(p) <= Len(q)
  BY PayloadIs DEF Begins
<1>2. at + Len(s) <= Len(p) + 1
  BY DEF Holds
<1>3. at + Len(s) <= Len(q) + 1
  BY <1>1, <1>2
<1>4. ASSUME NEW i \in 1..Len(s) PROVE q[at + i - 1] = s[i]
  <2>1. at + i - 1 \in 1..Len(p)
    BY <1>1, <1>2
  <2> QED BY <2>1 DEF Begins, Holds
<1> QED BY <1>3, <1>4 DEF Holds
LEMMA UpperIs ==
  ASSUME NEW s \in Seq(Nat)
  PROVE  /\ Upper(s) \in Seq(Nat) /\ Len(Upper(s)) = Len(s) /\ Upper(Upper(s)) = Upper(s)
         /\ IsText(s) => IsText(Upper(s))
         /\ Upper(s) = <<>> <=> s = <<>>
<1>1. Small \in Nat /\ Small + 1 \in Nat /\ NotText # Small /\ NotText # Small + 1
  BY CodecAssumption, CellsAreNumbers
<1>2. PICK small \in Nat, capital \in Nat :
        small = Small /\ capital = Small + 1 /\ small # capital
  BY <1>1
<1>3. DOMAIN s = 1..Len(s) /\ Len(s) \in Nat
  OBVIOUS
<1>4. PICK t : t = Upper(s) /\ t = [i \in 1..Len(s) |-> IF s[i] = small THEN capital ELSE s[i]]
  BY <1>2, <1>3 DEF Upper
<1>5. \A i \in 1..Len(s) : s[i] \in Nat
  OBVIOUS
<1>6. t \in [1..Len(s) -> Nat]
  BY <1>4, <1>5
<1>7. t \in Seq(Nat) /\ Len(t) = Len(s) /\ DOMAIN t = 1..Len(s)
  BY <1>3, <1>6
<1>8. Upper(t) = t
  <2>1. Upper(t) = [i \in 1..Len(s) |-> IF t[i] = small THEN capital ELSE t[i]]
    BY <1>2, <1>7, Zenon DEF Upper
  <2>2. \A i \in 1..Len(s) : t[i] # small
    BY <1>2, <1>4
  <2>3. Upper(t) = [i \in 1..Len(s) |-> t[i]]
    BY <2>1, <2>2
  <2>4. t = [i \in 1..Len(s) |-> t[i]]
    BY <1>6
  <2> QED BY <2>3, <2>4, Zenon
<1>9. ASSUME IsText(s) PROVE IsText(t)
  BY <1>1, <1>2, <1>3, <1>4, <1>7, <1>9 DEF IsText
<1>10. t = <<>> <=> s = <<>>
  <2>1. (t = <<>> <=> Len(t) = 0) /\ (s = <<>> <=> Len(s) = 0)
    BY <1>7
  <2> QED BY <1>7, <2>1
<1> QED BY <1>4, <1>7, <1>8, <1>9, <1>10, Zenon

(* A command of this name and with these arguments in the first cells of p. *)
CommandIn(p, name, args, cells) ==
  /\ p \in Payload /\ Headed(p, "command")
  /\ cells = 5 + Len(name) + Len(EncodeValues(args)) /\ cells <= Len(p)
  /\ p[4] = Len(name) /\ p[5] = Len(args)
  /\ Holds(p, 6, Upper(name)) /\ Holds(p, 6 + Len(name), EncodeValues(args))

LEMMA EncodedType ==
  ASSUME NEW vs \in Seq(Value)
  PROVE  EncodeValues(vs) \in Seq(Nat)
<1>1. Len(vs) \in 0..Len(vs)
  OBVIOUS
<1> QED BY <1>1, EncodedIs, Zenon DEF EncodeValues

WrittenCommand(name, args) ==
  Header("command") \o <<Len(name), Len(args)>> \o Upper(name) \o EncodeValues(args)

LEMMA ThreeCells ==
  ASSUME NEW S, NEW a \in S, NEW b \in S, NEW c \in S, NEW y \in Seq(S)
  PROVE  /\ <<a, b, c>> \o y \in Seq(S) /\ Len(<<a, b, c>> \o y) = 3 + Len(y)
         /\ (<<a, b, c>> \o y)[1] = a
         /\ (<<a, b, c>> \o y)[2] = b
         /\ (<<a, b, c>> \o y)[3] = c
         /\ \A i \in 1..Len(y) : (<<a, b, c>> \o y)[3 + i] = y[i]
<1>1. /\ <<a, b, c>> \in Seq(S) /\ Len(<<a, b, c>>) = 3
      /\ <<a, b, c>>[1] = a /\ <<a, b, c>>[2] = b /\ <<a, b, c>>[3] = c
  OBVIOUS
<1>2. PICK x \in Seq(S) : x = <<a, b, c>>
  BY <1>1, Zenon
<1>3. Len(x) = 3 /\ x[1] = a /\ x[2] = b /\ x[3] = c
  BY <1>1, <1>2, Zenon
<1>4. /\ x \o y \in Seq(S) /\ Len(x \o y) = Len(x) + Len(y)
      /\ \A i \in 1..Len(x) : (x \o y)[i] = x[i]
      /\ \A i \in 1..Len(y) : (x \o y)[Len(x) + i] = y[i]
  OBVIOUS
<1>5. 1 \in 1..Len(x) /\ 2 \in 1..Len(x) /\ 3 \in 1..Len(x)
  BY <1>3
<1> QED BY <1>2, <1>3, <1>4, <1>5, Zenon

LEMMA CommandWritten ==
  ASSUME NEW name \in Seq(Nat), NEW args \in Seq(Value)
  PROVE  CommandIn(WrittenCommand(name, args), name, args, Len(WrittenCommand(name, args)))
<1> PICK p : p = WrittenCommand(name, args)
  OBVIOUS
<1>1. PICK S : S = Nat \cup {Magic}
  OBVIOUS
<1>2. PICK m \in Nat, n \in Nat : m = Len(name) /\ n = Len(args)
  OBVIOUS
<1>3. Header("command") = <<Magic, 1, 1>>
  BY DEF Header, Version, FrameType
<1>4. PICK x : x = Header("command") \o <<m, n>>
  OBVIOUS
<1>5. x \in Seq(S) /\ Len(x) = 5 /\ x[1] = Magic /\ x[2] = 1 /\ x[3] = 1 /\ x[4] = m /\ x[5] = n
  <2>1. Magic \in S /\ 1 \in S /\ m \in S /\ n \in S
    BY <1>1
  <2>2. PICK y \in Seq(S) : y = <<m, n>> /\ Len(y) = 2 /\ y[1] = m /\ y[2] = n
    <3>1. <<m, n>> \in Seq(S) /\ Len(<<m, n>>) = 2 /\ <<m, n>>[1] = m /\ <<m, n>>[2] = n
      BY <2>1
    <3> QED BY <3>1, Zenon
  <2>3. x = <<Magic, 1, 1>> \o y
    BY <1>3, <1>4, <2>2, Zenon
  <2>4. /\ x \in Seq(S) /\ Len(x) = 3 + Len(y) /\ x[1] = Magic /\ x[2] = 1 /\ x[3] = 1
        /\ \A i \in 1..Len(y) : x[3 + i] = y[i]
    BY <2>1, <2>3, ThreeCells
  <2>5. 1 \in 1..Len(y) /\ 2 \in 1..Len(y) /\ 3 + 1 = 4 /\ 3 + 2 = 5 /\ 3 + Len(y) = 5
    BY <2>2
  <2>6. x[4] = m /\ x[5] = n
    BY <2>2, <2>4, <2>5, Zenon
  <2> QED BY <2>4, <2>5, <2>6, Zenon
<1>6. PICK u : u = Upper(name) /\ u \in Seq(Nat) /\ Len(u) = m
  BY <1>2, UpperIs
<1>7. PICK e : e = EncodeValues(args) /\ e \in Seq(Nat)
  BY EncodedType
<1>8. u \in Seq(S) /\ e \in Seq(S)
  BY <1>1, <1>6, <1>7, SeqMonotonic
<1>9. p = x \o u \o e
  BY <1>2, <1>4, <1>6, <1>7, Zenon DEF WrittenCommand
<1>10. /\ p \in Seq(S) /\ Len(p) = Len(x) + Len(u) + Len(e)
       /\ \A i \in 1..Len(x) : p[i] = x[i]
       /\ \A i \in 1..Len(u) : p[Len(x) + i] = u[i]
       /\ \A i \in 1..Len(e) : p[Len(x) + Len(u) + i] = e[i]
  <2>1. /\ x \o u \o e \in Seq(S) /\ Len(x \o u \o e) = Len(x) + Len(u) + Len(e)
        /\ \A i \in 1..Len(x) : (x \o u \o e)[i] = x[i]
        /\ \A i \in 1..Len(u) : (x \o u \o e)[Len(x) + i] = u[i]
        /\ \A i \in 1..Len(e) : (x \o u \o e)[Len(x) + Len(u) + i] = e[i]
    <3>1. x \in Seq(S)
      BY <1>5
    <3> QED BY <1>8, <3>1, Concatenated
  <2> QED BY <1>9, <2>1, Zenon
<1>11. Len(u) = m /\ Len(e) \in Nat /\ Len(p) = 5 + m + Len(e)
  BY <1>5, <1>6, <1>7, <1>10
<1>12. p[1] = Magic /\ p[2] = 1 /\ p[3] = 1 /\ p[4] = m /\ p[5] = n
  BY <1>5, <1>10
<1>13. Holds(p, 6, u)
  <2>1. ASSUME NEW i \in 1..Len(u) PROVE p[6 + i - 1] = u[i]
    <3>1. 6 + i - 1 = 5 + i /\ Len(x) = 5
      BY <1>5, <1>11
    <3> QED BY <1>10, <3>1
  <2> QED BY <1>11, <2>1 DEF Holds
<1>14. Holds(p, 6 + m, e)
  <2>1. ASSUME NEW i \in 1..Len(e) PROVE p[6 + m + i - 1] = e[i]
    <3>1. 6 + m + i - 1 = 5 + m + i /\ Len(x) = 5
      BY <1>5, <1>11
    <3> QED BY <1>10, <1>11, <3>1
  <2> QED BY <1>11, <2>1 DEF Holds
<1>15. p \in Payload
  <2>1. ASSUME NEW i \in 2..Len(p) PROVE p[i] \in Nat
    <3>1. CASE i <= 5
      <4>1. i \in {2, 3, 4, 5}
        BY <2>1, <3>1
      <4> QED BY <1>12, <4>1
    <3>2. CASE i > 5 /\ i <= 5 + m
      <4>1. PICK j \in 1..Len(u) : i = Len(x) + j
        <5>1. i - 5 \in 1..Len(u) /\ i = Len(x) + (i - 5)
          BY <1>5, <1>11, <3>2
        <5> QED BY <5>1
      <4>2. u[j] \in Nat
        BY <1>6
      <4> QED BY <1>10, <4>1, <4>2
    <3>3. CASE i > 5 + m
      <4>1. PICK j \in 1..Len(e) : i = Len(x) + Len(u) + j
        <5>1. i - 5 - m \in 1..Len(e) /\ i = Len(x) + Len(u) + (i - 5 - m)
          BY <1>5, <1>11, <3>3
        <5> QED BY <5>1
      <4>2. e[j] \in Nat
        BY <1>7
      <4> QED BY <1>10, <4>1, <4>2
    <3> QED BY <2>1, <3>1, <3>2, <3>3
  <2> QED BY <1>1, <1>10, <2>1 DEF Payload
<1>16. Headed(p, "command")
  BY <1>11, <1>12 DEF Headed, Version, FrameType
<1>17. Len(p) = 5 + Len(name) + Len(EncodeValues(args)) /\ Len(p) <= Len(p)
  BY <1>2, <1>7, <1>11
<1> QED BY <1>2, <1>6, <1>7, <1>12, <1>13, <1>14, <1>15, <1>16, <1>17, Zenon DEF CommandIn
LEMMA CommandReads ==
  ASSUME NEW name \in Seq(Nat), IsText(name), NEW args \in Seq(Value),
         NEW p, NEW cells, CommandIn(p, name, args, cells)
  PROVE  DecodeBinaryCommand(p) =
           IF cells # Len(p) \/ name = <<>> THEN Malformed ELSE Good(CommandFrame(name, args))
<1>1. PICK m \in Nat, n \in Nat, k \in Nat :
        m = Len(name) /\ n = Len(args) /\ k = Len(EncodeValues(args))
  BY EncodedType
<1>2. /\ p \in Payload /\ Len(p) \in Nat /\ HasHeader(p, "command")
      /\ cells = 5 + m + k /\ 5 + m + k <= Len(p) /\ p[4] = m /\ p[5] = n
      /\ Holds(p, 6, Upper(name)) /\ Holds(p, 6 + m, EncodeValues(args))
  BY <1>1, HeadedIs, PayloadIs, Zenon DEF CommandIn
<1>3. PICK named, items : named = Text(SubSeq(p, 6, 5 + m)) /\ items = DecodeValues(p, 6 + m, n)
  OBVIOUS
<1>4. PICK u \in Seq(Nat) : u = Upper(name) /\ Len(u) = m /\ IsText(u) /\ Upper(u) = u
                            /\ (u = <<>> <=> name = <<>>)
  BY <1>1, UpperIs
<1>5. named = Good(u)
  <2>1. 6 + Len(u) - 1 = 5 + m
    BY <1>4
  <2>2. SubSeq(p, 6, 6 + Len(u) - 1) = u
    <3>1. 6 \in Nat \ {0}
      OBVIOUS
    <3> QED BY <1>2, <1>4, <3>1, HoldsReads
  <2> QED BY <1>3, <1>4, <2>1, <2>2, Zenon DEF Text
<1>6. items = IF cells = Len(p) THEN Good(args) ELSE Malformed
  <2>1. 6 + m \in Nat \ {0} /\ (6 + m + k = Len(p) + 1 <=> cells = Len(p))
    <3>1. PICK l \in Nat : l = Len(p)
      BY <1>2
    <3>2. 6 + m + k = l + 1 <=> 5 + m + k = l
      OBVIOUS
    <3>3. 6 + m \in Nat \ {0}
      OBVIOUS
    <3> QED BY <1>2, <3>1, <3>2, <3>3, Zenon
  <2>2. items = IF 6 + m + k = Len(p) + 1 THEN Good(args) ELSE Malformed
    BY <1>1, <1>2, <1>3, <2>1, DecodeValuesIs
  <2> QED BY <2>1, <2>2
<1>7. DecodeBinaryCommand(p) =
        IF named.error # "" THEN named
        ELSE IF named.value = <<>> THEN Malformed
        ELSE Then(items, CommandFrame(named.value, items.value))
  <2>1. ~(Len(p) < 5) /\ ~(5 + m > Len(p))
    BY <1>2
  <2> QED BY <1>2, <1>3, <2>1, Zenon DEF DecodeBinaryCommand
<1>8. named.error = "" /\ named.value = u
  BY <1>5, OutcomesAre, Zenon
<1>9. DecodeBinaryCommand(p) =
        IF u = <<>> THEN Malformed ELSE Then(items, CommandFrame(u, items.value))
  BY <1>7, <1>8, Zenon
<1>10. CASE name = <<>>
  BY <1>4, <1>9, <1>10, Zenon
<1>11. CASE name # <<>> /\ cells = Len(p)
  <2>1. items = Good(args) /\ items.value = args
    BY <1>6, <1>11, OutcomesAre, Zenon
  <2>2. DecodeBinaryCommand(p) = Good(CommandFrame(u, args))
    BY <1>4, <1>9, <1>11, <2>1, OutcomesAre, ZenonT(60)
  <2>3. CommandFrame(u, args) = CommandFrame(name, args)
    BY <1>4, Zenon DEF CommandFrame
  <2> QED BY <1>11, <2>2, <2>3, Zenon
<1>12. CASE name # <<>> /\ cells # Len(p)
  <2>1. items = Malformed /\ items.error # ""
    BY <1>6, <1>12, OutcomesAre, Zenon
  <2>2. Then(items, CommandFrame(u, items.value)) = Malformed
    BY <2>1, Zenon DEF Then
  <2> QED BY <1>4, <1>9, <1>12, <2>2, Zenon
<1> QED BY <1>10, <1>11, <1>12, Zenon

LEMMA CommandCut ==
  ASSUME NEW name \in Seq(Nat), NEW args \in Seq(Value),
         NEW p, CommandIn(p, name, args, Len(p)),
         NEW q \in Payload, Begins(q, p), Len(q) # Len(p)
  PROVE  DecodeBinaryCommand(q).error # ""
<1>1. PICK m \in Nat, n \in Nat, k \in Nat :
        m = Len(name) /\ n = Len(args) /\ k = Len(EncodeValues(args))
  BY EncodedType
<1>2. /\ p \in Payload /\ Len(p) \in Nat /\ Len(q) \in Nat
      /\ Len(p) = 5 + m + k /\ p[4] = m /\ p[5] = n
      /\ Holds(p, 6 + m, EncodeValues(args))
  BY <1>1, PayloadIs, Zenon DEF CommandIn
<1>3. CASE ~HasHeader(q, "command") \/ Len(q) < 5 \/ 5 + q[4] > Len(q)
  <2>1. DecodeBinaryCommand(q) = Malformed
    BY <1>3, Zenon DEF DecodeBinaryCommand
  <2> QED BY <2>1, OutcomesAre, Zenon
<1>4. CASE HasHeader(q, "command") /\ ~(Len(q) < 5) /\ ~(5 + q[4] > Len(q))
  <2>1. q[4] = m /\ q[5] = n
    <3>1. 4 \in 1..Len(q) /\ 5 \in 1..Len(q)
      BY <1>2, <1>4
    <3> QED BY <1>2, <3>1, Zenon DEF Begins
  <2>2. PICK from \in Nat : from = 6 + m
    OBVIOUS
  <2>3. PICK items : items = DecodeValues(q, from, n)
    OBVIOUS
  <2>4. items.error # ""
    <3>1. Decoded(p, from, n)[n] = Step(Good(args), Len(p) + 1)
      <4>1. from + Len(EncodeValues(args)) = Len(p) + 1 /\ from \in Nat \ {0}
        BY <1>1, <1>2, <2>2
      <4> QED BY <1>1, <1>2, <2>2, <4>1, ValuesRead, Zenon
    <3>2. from >= 2
      BY <2>2
    <3> QED BY <1>2, <2>3, <3>1, <3>2, ValuesCut, Zenon
  <2>5. PICK named, whole :
          /\ named = Text(SubSeq(q, 6, 5 + m))
          /\ whole = Then(items, CommandFrame(named.value, items.value))
    OBVIOUS
  <2>6. DecodeBinaryCommand(q) =
          IF named.error # "" THEN named ELSE IF named.value = <<>> THEN Malformed ELSE whole
    BY <1>4, <2>1, <2>2, <2>3, <2>5, Zenon DEF DecodeBinaryCommand
  <2>7. whole.error # ""
    <3>1. whole = items
      BY <2>4, <2>5, Zenon DEF Then
    <3> QED BY <2>4, <3>1
  <2> QED BY <2>6, <2>7, OutcomesAre, Zenon
<1> QED BY <1>3, <1>4, Zenon

(* A longer payload has the same command in its first cells. *)
LEMMA CommandLonger ==
  ASSUME NEW name \in Seq(Nat), NEW args \in Seq(Value),
         NEW p, CommandIn(p, name, args, Len(p)), NEW c \in Nat
  PROVE  CommandIn(Append(p, c), name, args, Len(p)) /\ Len(Append(p, c)) # Len(p)
<1>1. p \in Payload /\ Len(p) \in Nat /\ Len(p) >= 5
  <2>1. p \in Payload /\ Len(p) = 5 + Len(name) + Len(EncodeValues(args))
    BY Zenon DEF CommandIn
  <2>2. Len(name) \in Nat /\ Len(EncodeValues(args)) \in Nat
    BY EncodedType
  <2> QED BY <2>1, <2>2
<1>2. PICK q : q = Append(p, c)
  OBVIOUS
<1>3. q \in Payload /\ Begins(p, q) /\ Len(q) = Len(p) + 1
  <2>1. p # <<>>
    BY <1>1
  <2> QED BY <1>1, <1>2, <2>1, LongerIs, Zenon
<1>4. q[1] = p[1] /\ q[2] = p[2] /\ q[3] = p[3] /\ q[4] = p[4] /\ q[5] = p[5]
  <2>1. 1 \in 1..Len(p) /\ 2 \in 1..Len(p) /\ 3 \in 1..Len(p) /\ 4 \in 1..Len(p) /\ 5 \in 1..Len(p)
    BY <1>1
  <2> QED BY <1>3, <2>1, Zenon DEF Begins
<1>5. Len(q) >= 3 /\ Len(p) <= Len(q) /\ Len(q) # Len(p)
  BY <1>1, <1>3
<1>6. Headed(q, "command")
  <2>1. Headed(p, "command")
    BY Zenon DEF CommandIn
  <2> QED BY <1>4, <1>5, <2>1, Zenon DEF Headed
<1>7. Holds(q, 6, Upper(name)) /\ Holds(q, 6 + Len(name), EncodeValues(args))
  <2>1. Holds(p, 6, Upper(name)) /\ Holds(p, 6 + Len(name), EncodeValues(args))
    BY Zenon DEF CommandIn
  <2>2. 6 \in Nat \ {0} /\ 6 + Len(name) \in Nat \ {0}
    OBVIOUS
  <2>3. Len(Upper(name)) \in Nat /\ Len(EncodeValues(args)) \in Nat
    BY UpperIs, EncodedType
  <2> QED BY <1>1, <1>3, <2>1, <2>2, <2>3, HoldsMore, Zenon
<1> QED BY <1>2, <1>3, <1>4, <1>5, <1>6, <1>7, Zenon DEF CommandIn
-----------------------------------------------------------------------------
(* Responses *)

SingleKinds == {"simple", "bulk", "integer", "pong"}

(* The parts of a frame. *)
FrameIs(kind, value, message) ==
  \/ kind \in SingleKinds /\ value \in Value /\ message = <<>>
  \/ kind = "array" /\ value \in Seq(Value) /\ message = <<>>
  \/ kind = "nil" /\ value = None /\ message = <<>>
  \/ kind = "error" /\ value = None /\ message \in Texts

LEMMA FrameShape ==
  ASSUME NEW f \in Frame
  PROVE  \E kind, value, message :
           FrameIs(kind, value, message) /\ f = ResponseFrame(kind, value, message)
<1>1. FrameIs(f.kind, f.value, f.message) /\ f = ResponseFrame(f.kind, f.value, f.message)
  <2>1. CASE f \in [kind : {"simple", "bulk", "integer", "pong"}, value : Value, message : {<<>>}]
    BY <2>1 DEF FrameIs, ResponseFrame, SingleKinds
  <2>2. CASE f \in [kind : {"array"}, value : Seq(Value), message : {<<>>}]
    BY <2>2 DEF FrameIs, ResponseFrame
  <2>3. CASE f \in [kind : {"nil"}, value : {None}, message : {<<>>}]
    BY <2>3 DEF FrameIs, ResponseFrame
  <2>4. CASE f \in [kind : {"error"}, value : {None}, message : Texts]
    BY <2>4 DEF FrameIs, ResponseFrame
  <2> QED BY <2>1, <2>2, <2>3, <2>4, Zenon DEF Frame
<1> QED BY <1>1, Zenon

Body(kind, value, message) ==
  CASE kind = "nil"   -> <<>>
    [] kind = "error" -> Prefixed(message)
    [] kind = "array" -> <<Len(value)>> \o EncodeValues(value)
    [] OTHER          -> EncodeValue(value)

LEMMA TextsAre == \A s \in Texts : s \in Seq(Nat) /\ IsText(s)
<1>1. \A s \in Seq(Cells) : s \in Seq(Nat)
  BY CellsAreNumbers, SeqMonotonic
<1> QED BY <1>1 DEF Texts

(* How a frame of each kind is written. *)
BodyFacts(kind, value, message) ==
  /\ kind \in SingleKinds =>
       value \in Value /\ message = <<>> /\ Body(kind, value, message) = EncodeValue(value)
  /\ kind = "nil" =>
       value = None /\ message = <<>> /\ Body(kind, value, message) = <<>>
  /\ kind = "error" =>
       /\ value = None /\ message \in Seq(Nat) /\ IsText(message)
       /\ Body(kind, value, message) = Prefixed(message)
  /\ kind = "array" =>
       /\ value \in Seq(Value) /\ message = <<>>
       /\ Body(kind, value, message) = <<Len(value)>> \o EncodeValues(value)
  /\ kind \in SingleKinds \cup {"nil", "error", "array"}
  /\ Body(kind, value, message) \in Seq(Nat)

LEMMA BodyIs ==
  ASSUME NEW kind, NEW value, NEW message, FrameIs(kind, value, message)
  PROVE  BodyFacts(kind, value, message)
<1>1. CASE kind \in SingleKinds /\ value \in Value /\ message = <<>>
  <2>1. kind # "nil" /\ kind # "error" /\ kind # "array"
    BY <1>1 DEF SingleKinds
  <2>2. Body(kind, value, message) = EncodeValue(value)
    BY <2>1, Zenon DEF Body
  <2>3. EncodeValue(value) \in Seq(Nat)
    BY <1>1, EncodeValueType
  <2> QED BY <1>1, <2>1, <2>2, <2>3, Zenon DEF BodyFacts
<1>2. CASE kind = "array" /\ value \in Seq(Value) /\ message = <<>>
  <2>1. kind \notin SingleKinds /\ kind # "nil" /\ kind # "error"
    BY <1>2 DEF SingleKinds
  <2>2. Body(kind, value, message) = <<Len(value)>> \o EncodeValues(value)
    BY <1>2, <2>1, Zenon DEF Body
  <2>3. <<Len(value)>> \o EncodeValues(value) \in Seq(Nat)
    <3>1. <<Len(value)>> \in Seq(Nat) /\ EncodeValues(value) \in Seq(Nat)
      BY <1>2, EncodedType
    <3> QED BY <3>1
  <2> QED BY <1>2, <2>1, <2>2, <2>3, Zenon DEF BodyFacts
<1>3. CASE kind = "nil" /\ value = None /\ message = <<>>
  <2>1. kind \notin SingleKinds /\ kind # "array" /\ kind # "error"
    BY <1>3 DEF SingleKinds
  <2>2. Body(kind, value, message) = <<>>
    BY <1>3, <2>1, Zenon DEF Body
  <2>3. <<>> \in Seq(Nat)
    OBVIOUS
  <2> QED BY <1>3, <2>1, <2>2, <2>3, Zenon DEF BodyFacts
<1>4. CASE kind = "error" /\ value = None /\ message \in Texts
  <2>1. kind \notin SingleKinds /\ kind # "array" /\ kind # "nil"
    BY <1>4 DEF SingleKinds
  <2>2. Body(kind, value, message) = Prefixed(message)
    BY <1>4, <2>1, Zenon DEF Body
  <2>3. message \in Seq(Nat) /\ IsText(message)
    BY <1>4, TextsAre, Zenon
  <2>4. Prefixed(message) \in Seq(Nat)
    BY <2>3, PrefixedIs
  <2> QED BY <1>4, <2>1, <2>2, <2>3, <2>4, Zenon DEF BodyFacts
<1> QED BY <1>1, <1>2, <1>3, <1>4, Zenon DEF FrameIs, BodyFacts

WrittenResponse(kind, value, message) ==
  Header("response") \o <<Codes[kind]>> \o Body(kind, value, message)

LEMMA EncodesResponse ==
  ASSUME NEW kind, NEW value, NEW message
  PROVE  EncodeResponse(ResponseFrame(kind, value, message)) = WrittenResponse(kind, value, message)
<1>1. PICK f : f = ResponseFrame(kind, value, message)
  OBVIOUS
<1>2. f.kind = kind /\ f.value = value /\ f.message = message
  BY <1>1 DEF ResponseFrame
<1> QED BY <1>1, <1>2, Zenon DEF EncodeResponse, WrittenResponse, Body

(* This response in the first cells of p. *)
ResponseIn(p, kind, value, message, cells) ==
  /\ p \in Payload /\ Headed(p, "response")
  /\ cells = 4 + Len(Body(kind, value, message)) /\ cells <= Len(p)
  /\ p[4] = Codes[kind] /\ Holds(p, 5, Body(kind, value, message))

LEMMA CodesAre ==
  ASSUME NEW kind \in SingleKinds \cup {"nil", "error", "array"}
  PROVE  /\ Codes[kind] \in Nat /\ kind \in DOMAIN Codes
         /\ (CHOOSE k \in DOMAIN Codes : Codes[k] = Codes[kind]) = kind
<1>1. DOMAIN Codes = {"simple", "bulk", "array", "nil", "error", "integer", "pong"}
  BY DEF Codes
<1>2. kind \in DOMAIN Codes
  BY <1>1 DEF SingleKinds
<1>3. \A k \in DOMAIN Codes : Codes[k] = Codes[kind] => k = kind
  BY <1>1, <1>2 DEF Codes
<1>4. Codes[kind] \in Nat
  BY <1>1, <1>2 DEF Codes
<1> QED BY <1>2, <1>3, <1>4, Zenon

LEMMA ResponseWritten ==
  ASSUME NEW kind, NEW value, NEW message, FrameIs(kind, value, message)
  PROVE  ResponseIn(WrittenResponse(kind, value, message), kind, value, message,
                    Len(WrittenResponse(kind, value, message)))
<1>1. PICK p : p = WrittenResponse(kind, value, message)
  OBVIOUS
<1>2. PICK S : S = Nat \cup {Magic}
  OBVIOUS
<1>3. PICK n \in Nat : n = Codes[kind]
  BY BodyIs, CodesAre, Zenon DEF BodyFacts
<1>4. PICK e \in Seq(Nat) : e = Body(kind, value, message)
  BY BodyIs, Zenon DEF BodyFacts
<1>5. Header("response") = <<Magic, 1, 2>>
  BY DEF Header, Version, FrameType
<1>6. PICK x : x = <<Magic, 1, 2>> \o <<n>>
  OBVIOUS
<1>7. x \in Seq(S) /\ Len(x) = 4 /\ x[1] = Magic /\ x[2] = 1 /\ x[3] = 2 /\ x[4] = n
  <2>1. Magic \in S /\ 1 \in S /\ 2 \in S /\ n \in S
    BY <1>2
  <2>2. PICK y \in Seq(S) : y = <<n>> /\ Len(y) = 1 /\ y[1] = n
    <3>1. <<n>> \in Seq(S) /\ Len(<<n>>) = 1 /\ <<n>>[1] = n
      BY <2>1
    <3> QED BY <3>1, Zenon
  <2>3. x = <<Magic, 1, 2>> \o y
    BY <1>6, <2>2, Zenon
  <2>4. /\ x \in Seq(S) /\ Len(x) = 3 + Len(y) /\ x[1] = Magic /\ x[2] = 1 /\ x[3] = 2
        /\ \A i \in 1..Len(y) : x[3 + i] = y[i]
    BY <2>1, <2>3, ThreeCells
  <2>5. 1 \in 1..Len(y) /\ 3 + 1 = 4 /\ 3 + Len(y) = 4
    BY <2>2
  <2>6. x[4] = n
    BY <2>2, <2>4, <2>5, Zenon
  <2> QED BY <2>4, <2>5, <2>6, Zenon
<1>8. e \in Seq(S)
  BY <1>2, SeqMonotonic
<1>9. /\ x \o e \in Seq(S) /\ Len(x \o e) = Len(x) + Len(e)
      /\ \A i \in 1..Len(x) : (x \o e)[i] = x[i]
      /\ \A i \in 1..Len(e) : (x \o e)[Len(x) + i] = e[i]
  <2>1. x \in Seq(S)
    BY <1>7
  <2> QED BY <1>8, <2>1
<1>10. /\ p \in Seq(S) /\ Len(p) = 4 + Len(e)
       /\ \A i \in 1..4 : p[i] = x[i]
       /\ \A i \in 1..Len(e) : p[4 + i] = e[i]
  <2>1. p = x \o e
    BY <1>1, <1>3, <1>4, <1>5, <1>6, Zenon DEF WrittenResponse
  <2> QED BY <1>7, <1>9, <2>1, Zenon
<1>11. Len(e) \in Nat /\ Len(p) \in Nat
  BY <1>10
<1>12. p[1] = Magic /\ p[2] = 1 /\ p[3] = 2 /\ p[4] = n
  <2>1. 1 \in 1..4 /\ 2 \in 1..4 /\ 3 \in 1..4 /\ 4 \in 1..4
    OBVIOUS
  <2> QED BY <1>7, <1>10, <2>1, Zenon
<1>13. Holds(p, 5, e)
  <2>1. ASSUME NEW i \in 1..Len(e) PROVE p[5 + i - 1] = e[i]
    <3>1. 5 + i - 1 = 4 + i
      OBVIOUS
    <3> QED BY <1>10, <3>1
  <2>2. 5 + Len(e) <= Len(p) + 1
    BY <1>10, <1>11
  <2> QED BY <2>1, <2>2 DEF Holds
<1>14. p \in Payload
  <2>1. ASSUME NEW i \in 2..Len(p) PROVE p[i] \in Nat
    <3>1. CASE i <= 4
      <4>1. i \in {2, 3, 4}
        BY <2>1, <3>1
      <4> QED BY <1>12, <4>1
    <3>2. CASE i > 4
      <4>1. PICK j \in 1..Len(e) : i = 4 + j
        <5>1. i - 4 \in 1..Len(e) /\ i = 4 + (i - 4)
          BY <1>10, <1>11, <3>2
        <5> QED BY <5>1
      <4>2. e[j] \in Nat
        OBVIOUS
      <4> QED BY <1>10, <4>1, <4>2
    <3> QED BY <2>1, <3>1, <3>2
  <2> QED BY <1>2, <1>10, <2>1 DEF Payload
<1>15. Headed(p, "response")
  <2>1. Len(p) >= 3
    BY <1>10, <1>11
  <2> QED BY <1>12, <2>1 DEF Headed, Version, FrameType
<1>16. Len(p) <= Len(p)
  BY <1>11
<1> QED BY <1>1, <1>3, <1>4, <1>10, <1>12, <1>13, <1>14, <1>15, <1>16, Zenon DEF ResponseIn
LEMMA OneValue ==
  ASSUME NEW v \in Value
  PROVE  <<v>> \in Seq(Value) /\ Len(<<v>>) = 1 /\ <<v>>[1] = v /\ EncodeValues(<<v>>) = EncodeValue(v)
<1>1. <<v>> \in Seq(Value) /\ Len(<<v>>) = 1 /\ <<v>>[1] = v
  OBVIOUS
<1>2. PICK vs \in Seq(Value) : vs = <<v>>
  BY <1>1, Zenon
<1>3. Len(vs) = 1 /\ vs[1] = v
  BY <1>1, <1>2, Zenon
<1>4. 1 \in 1..Len(vs) /\ 1 - 1 = 0
  BY <1>3
<1>5. PICK e : e = Encoded(vs)
  OBVIOUS
<1>6. e[1] = e[1 - 1] \o EncodeValue(vs[1]) /\ e[0] = <<>>
  BY <1>4, <1>5, EncodedIs, Zenon
<1>7. EncodeValues(vs) = <<>> \o EncodeValue(v)
  BY <1>3, <1>4, <1>5, <1>6, Zenon DEF EncodeValues
<1>8. PICK t \in Seq(Nat) : t = EncodeValue(v)
  BY EncodeValueType, Zenon
<1>9. <<>> \o t = t
  OBVIOUS
<1> QED BY <1>1, <1>2, <1>7, <1>8, <1>9, Zenon

(* What a body that ends there is read as. *)
Heard(kind, value, message) ==
  ResponseFrame(kind, value, IF kind = "error" THEN OrUnknown(message) ELSE message)

(* The items of the body of an array. *)
LEMMA ArrayReads ==
  ASSUME NEW p \in Payload, NEW vs \in Seq(Value),
         Holds(p, 5, <<Len(vs)>> \o EncodeValues(vs))
  PROVE  /\ 5 <= Len(p) /\ p[5] = Len(vs) /\ Holds(p, 6, EncodeValues(vs))
         /\ Len(<<Len(vs)>> \o EncodeValues(vs)) = Len(EncodeValues(vs)) + 1
<1>1. PICK n \in Nat : n = Len(vs)
  OBVIOUS
<1>2. PICK e \in Seq(Nat) : e = EncodeValues(vs)
  BY EncodedType
<1>3. PICK t \in Seq(Nat) : t = <<n>> /\ Len(t) = 1 /\ t[1] = n
  <2>1. <<n>> \in Seq(Nat) /\ Len(<<n>>) = 1 /\ <<n>>[1] = n
    OBVIOUS
  <2> QED BY <2>1, Zenon
<1>4. Holds(p, 5, t) /\ Holds(p, 5 + Len(t), e)
  <2>1. Holds(p, 5, t \o e) /\ Len(p) \in Nat /\ 5 \in Nat
    BY <1>1, <1>2, <1>3, PayloadIs, Zenon
  <2> QED BY <2>1, HoldsParts, Zenon
<1>5. 5 + Len(t) = 6 /\ 5 + 1 - 1 = 5 /\ 1 \in 1..Len(t)
  BY <1>3
<1>6. p[5] = n
  BY <1>3, <1>4, <1>5, Zenon DEF Holds
<1>7. 5 <= Len(p)
  <2>1. 6 <= Len(p) + 1 /\ Len(p) \in Nat
    BY <1>4, <1>5, PayloadIs, Zenon DEF Holds
  <2> QED BY <2>1
<1>8. Len(t \o e) = Len(e) + 1
  BY <1>3
<1> QED BY <1>1, <1>2, <1>3, <1>4, <1>5, <1>6, <1>7, <1>8, Zenon

LEMMA ResponseReads ==
  ASSUME NEW kind, NEW value, NEW message, FrameIs(kind, value, message),
         NEW p, NEW cells, ResponseIn(p, kind, value, message, cells)
  PROVE  DecodeBinaryResponse(p) =
           IF cells # Len(p) THEN Malformed ELSE Good(Heard(kind, value, message))
<1> PICK b \in Seq(Nat) : b = Body(kind, value, message) /\ BodyFacts(kind, value, message)
  BY BodyIs, Zenon DEF BodyFacts
<1>1. /\ p \in Payload /\ Len(p) \in Nat /\ HasHeader(p, "response")
      /\ cells = 4 + Len(b) /\ 4 + Len(b) <= Len(p) /\ p[4] = Codes[kind] /\ Holds(p, 5, b)
  BY HeadedIs, PayloadIs, Zenon DEF ResponseIn
<1>2. cells = Len(p) <=> 5 + Len(b) = Len(p) + 1
  <2>1. PICK l \in Nat, n \in Nat : l = Len(p) /\ n = Len(b)
    BY <1>1
  <2>2. 4 + n = l <=> 5 + n = l + 1
    OBVIOUS
  <2> QED BY <1>1, <2>1, <2>2, Zenon
<1>3. DecodeBinaryResponse(p) = DecodeBody(p, kind)
  <2>1. ~(Len(p) < 4)
    BY <1>1
  <2>2. kind \in DOMAIN Codes /\ (CHOOSE k \in DOMAIN Codes : Codes[k] = p[4]) = kind
    BY <1>1, CodesAre, Zenon DEF BodyFacts
  <2>3. ~(\A k \in DOMAIN Codes : Codes[k] # p[4])
    BY <1>1, <2>2, Zenon
  <2> QED BY <1>1, <2>1, <2>2, <2>3, Zenon DEF DecodeBinaryResponse
<1>4. CASE kind \in SingleKinds
  <2>1. value \in Value /\ message = <<>> /\ b = EncodeValue(value)
    BY <1>4, Zenon DEF BodyFacts
  <2>2. kind # "nil" /\ kind # "error" /\ kind # "array"
    BY <1>4 DEF SingleKinds
  <2>3. PICK items : items = DecodeValues(p, 5, 1)
    OBVIOUS
  <2>4. items = IF 5 + Len(b) = Len(p) + 1 THEN Good(<<value>>) ELSE Malformed
    <3>1. PICK vs \in Seq(Value) : vs = <<value>> /\ Len(vs) = 1 /\ EncodeValues(vs) = b
      BY <2>1, OneValue, Zenon
    <3>2. 5 \in Nat \ {0}
      OBVIOUS
    <3> QED BY <1>1, <2>3, <3>1, <3>2, DecodeValuesIs, Zenon
  <2>5. DecodeBody(p, kind) = Then(items, ResponseFrame(kind, items.value[1], <<>>))
    BY <2>2, <2>3, Zenon DEF DecodeBody
  <2>6. CASE cells = Len(p)
    <3>1. items = Good(<<value>>)
      BY <1>2, <2>4, <2>6, Zenon
    <3>2. items.value[1] = value
      <4>1. items.value = <<value>>
        BY <3>1, OutcomesAre, Zenon
      <4> QED BY <2>1, <4>1, OneValue, Zenon
    <3>3. Heard(kind, value, message) = ResponseFrame(kind, items.value[1], <<>>)
      BY <2>1, <2>2, <3>2, Zenon DEF Heard
    <3>4. DecodeBody(p, kind) = Good(ResponseFrame(kind, items.value[1], <<>>))
      BY <2>5, <3>1, OutcomesAre, Zenon
    <3> QED BY <1>3, <2>6, <3>3, <3>4, Zenon
  <2>7. CASE cells # Len(p)
    <3>1. items = Malformed
      BY <1>2, <2>4, <2>7, Zenon
    <3> QED BY <1>3, <2>5, <2>7, <3>1, OutcomesAre, Zenon DEF Then
  <2> QED BY <2>6, <2>7
<1>5. CASE kind = "nil"
  <2>1. value = None /\ message = <<>> /\ b = <<>>
    BY <1>5, Zenon DEF BodyFacts
  <2>2. PICK whole : whole = Whole(p, Step(Good(<<>>), 5))
    OBVIOUS
  <2>3. DecodeBody(p, kind) = Then(whole, ResponseFrame(kind, None, <<>>))
    BY <1>5, <2>2, Zenon DEF DecodeBody
  <2>4. 5 + Len(b) = 5
    BY <2>1
  <2>5. CASE cells = Len(p)
    <3>1. whole = Good(<<>>)
      BY <1>2, <2>2, <2>4, <2>5, WholeIs, Zenon
    <3> QED BY <1>3, <1>5, <2>1, <2>3, <2>5, <3>1, OutcomesAre, Zenon DEF Heard
  <2>6. CASE cells # Len(p)
    <3>1. 5 # Len(p) + 1 /\ Good(<<>>).error = ""
      BY <1>2, <2>4, <2>6, OutcomesAre, Zenon
    <3>2. whole = Malformed
      BY <2>2, <3>1, WholeIs, ZenonT(60)
    <3> QED BY <1>3, <2>3, <2>6, <3>2, OutcomesAre, Zenon DEF Then
  <2> QED BY <2>5, <2>6
<1>6. CASE kind = "error"
  <2>1. value = None /\ message \in Seq(Nat) /\ IsText(message) /\ b = Prefixed(message)
    BY <1>6, Zenon DEF BodyFacts
  <2>2. PICK at : at = 5 + Len(message) + 1
    OBVIOUS
  <2>3. Field(p, 5) = Step(Good(message), at)
    <3>1. 5 \in Nat \ {0}
      OBVIOUS
    <3> QED BY <1>1, <2>1, <2>2, <3>1, FieldReads, Zenon
  <2>4. 5 + Len(b) = at
    <3>1. Len(b) = Len(message) + 1 /\ Len(message) \in Nat
      BY <2>1, PrefixedIs
    <3>2. PICK n \in Nat : n = Len(message)
      BY <3>1
    <3>3. 5 + (n + 1) = 5 + n + 1
      OBVIOUS
    <3> QED BY <2>2, <3>1, <3>2, <3>3, Zenon
  <2>5. PICK field, text :
          /\ field = Whole(p, Field(p, 5))
          /\ text = IF field.error # "" THEN field ELSE Text(field.value)
    OBVIOUS
  <2>6. DecodeBody(p, kind) = Then(text, ResponseFrame(kind, None, OrUnknown(text.value)))
    BY <1>6, <2>5, Zenon DEF DecodeBody
  <2>7. CASE cells = Len(p)
    <3>1. field = Good(message)
      <4>1. at = Len(p) + 1
        BY <1>2, <2>4, <2>7, Zenon
      <4>2. Whole(p, Step(Good(message), at)) = Good(message)
        BY <4>1, WholeIs, Zenon
      <4> QED BY <2>3, <2>5, <4>2, Zenon
    <3>2. text = Good(message) /\ text.value = message
      <4>1. field.error = "" /\ field.value = message
        BY <3>1, OutcomesAre, Zenon
      <4>2. text = Good(message)
        BY <2>1, <2>5, <4>1, Zenon DEF Text
      <4> QED BY <4>2, OutcomesAre, Zenon
    <3>3. Heard(kind, value, message) = ResponseFrame(kind, None, OrUnknown(text.value))
      BY <1>6, <2>1, <3>2, Zenon DEF Heard
    <3>4. DecodeBody(p, kind) = Good(ResponseFrame(kind, None, OrUnknown(text.value)))
      BY <2>6, <3>2, OutcomesAre, Zenon
    <3> QED BY <1>3, <2>7, <3>3, <3>4, Zenon
  <2>8. CASE cells # Len(p)
    <3>1. field = Malformed
      <4>1. at # Len(p) + 1 /\ Good(message).error = ""
        BY <1>2, <2>4, <2>8, OutcomesAre, Zenon
      <4>2. Whole(p, Step(Good(message), at)) = Malformed
        BY <4>1, WholeIs, ZenonT(60)
      <4> QED BY <2>3, <2>5, <4>2, Zenon
    <3>2. text = Malformed
      BY <2>5, <3>1, OutcomesAre, Zenon
    <3> QED BY <1>3, <2>6, <2>8, <3>2, OutcomesAre, Zenon DEF Then
  <2> QED BY <2>7, <2>8
<1>7. CASE kind = "array"
  <2>1. value \in Seq(Value) /\ message = <<>> /\ b = <<Len(value)>> \o EncodeValues(value)
    BY <1>7, Zenon DEF BodyFacts
  <2>2. PICK items : items = DecodeArray(p, 5)
    OBVIOUS
  <2>3. DecodeBody(p, kind) = Then(items, ResponseFrame(kind, items.value, <<>>))
    BY <1>7, <2>2, Zenon DEF DecodeBody
  <2>4. /\ 5 <= Len(p) /\ p[5] = Len(value) /\ Holds(p, 6, EncodeValues(value))
        /\ Len(b) = Len(EncodeValues(value)) + 1
    BY <1>1, <2>1, ArrayReads, Zenon
  <2>5. items = IF 6 + Len(EncodeValues(value)) = Len(p) + 1 THEN Good(value) ELSE Malformed
    <3>1. ~(5 > Len(p)) /\ 5 + 1 = 6 /\ 6 \in Nat \ {0}
      BY <1>1, <2>4
    <3>2. items = DecodeValues(p, 6, Len(value))
      BY <2>2, <2>4, <3>1, Zenon DEF DecodeArray
    <3> QED BY <1>1, <2>1, <2>4, <3>1, <3>2, DecodeValuesIs, Zenon
  <2>6. 6 + Len(EncodeValues(value)) = 5 + Len(b)
    <3>1. PICK n \in Nat : n = Len(EncodeValues(value))
      BY <2>1, EncodedType
    <3>2. 6 + n = 5 + (n + 1)
      OBVIOUS
    <3> QED BY <2>4, <3>1, <3>2, Zenon
  <2>7. CASE cells = Len(p)
    <3>1. items = Good(value)
      BY <1>2, <2>5, <2>6, <2>7, Zenon
    <3>2. items.value = value
      BY <3>1, OutcomesAre, Zenon
    <3>3. kind # "error"
      BY <1>7
    <3>4. Heard(kind, value, message) = ResponseFrame(kind, items.value, <<>>)
      BY <2>1, <3>2, <3>3, Zenon DEF Heard
    <3>5. DecodeBody(p, kind) = Good(ResponseFrame(kind, items.value, <<>>))
      BY <2>3, <3>1, OutcomesAre, Zenon
    <3> QED BY <1>3, <2>7, <3>4, <3>5, Zenon
  <2>8. CASE cells # Len(p)
    <3>1. items = Malformed
      BY <1>2, <2>5, <2>6, <2>8, Zenon
    <3> QED BY <1>3, <2>3, <2>8, <3>1, OutcomesAre, Zenon DEF Then
  <2> QED BY <2>7, <2>8
<1> QED BY <1>4, <1>5, <1>6, <1>7, Zenon DEF BodyFacts
LEMMA ResponseCut ==
  ASSUME NEW kind, NEW value, NEW message, FrameIs(kind, value, message),
         NEW p, ResponseIn(p, kind, value, message, Len(p)),
         NEW q \in Payload, Begins(q, p), Len(q) # Len(p)
  PROVE  DecodeBinaryResponse(q).error # ""
<1> PICK b \in Seq(Nat) : b = Body(kind, value, message) /\ BodyFacts(kind, value, message)
  BY BodyIs, Zenon DEF BodyFacts
<1>1. /\ p \in Payload /\ Len(p) \in Nat /\ Len(q) \in Nat
      /\ Len(p) = 4 + Len(b) /\ p[4] = Codes[kind] /\ Holds(p, 5, b)
  BY PayloadIs, Zenon DEF ResponseIn
<1>2. Len(q) < Len(p)
  <2>1. Len(q) <= Len(p)
    BY Zenon DEF Begins
  <2> QED BY <1>1, <2>1
<1>3. CASE ~HasHeader(q, "response") \/ Len(q) < 4
  <2>1. DecodeBinaryResponse(q) = Malformed
    BY <1>3, Zenon DEF DecodeBinaryResponse
  <2> QED BY <2>1, OutcomesAre, Zenon
<1> SUFFICES ASSUME HasHeader(q, "response"), ~(Len(q) < 4) PROVE DecodeBinaryResponse(q).error # ""
  BY <1>3, Zenon
<1>4. DecodeBinaryResponse(q) = DecodeBody(q, kind)
  <2>1. 4 \in 1..Len(q)
    BY <1>1
  <2>2. q[4] = Codes[kind]
    BY <1>1, <2>1, Zenon DEF Begins
  <2>3. kind \in DOMAIN Codes /\ (CHOOSE k \in DOMAIN Codes : Codes[k] = q[4]) = kind
    BY <2>2, CodesAre, Zenon DEF BodyFacts
  <2>4. ~(\A k \in DOMAIN Codes : Codes[k] # q[4])
    BY <2>2, <2>3, Zenon
  <2> QED BY <2>3, <2>4, Zenon DEF DecodeBinaryResponse
<1>5. CASE kind = "nil"
  <2>1. b = <<>>
    BY <1>5, Zenon DEF BodyFacts
  <2>2. Len(p) = 4
    BY <1>1, <2>1
  <2> QED BY <1>1, <1>2, <2>2
<1>6. CASE kind \in SingleKinds
  <2>1. value \in Value /\ b = EncodeValue(value)
    BY <1>6, Zenon DEF BodyFacts
  <2>2. kind # "nil" /\ kind # "error" /\ kind # "array"
    BY <1>6 DEF SingleKinds
  <2>3. PICK vs \in Seq(Value) : vs = <<value>> /\ Len(vs) = 1 /\ EncodeValues(vs) = b
    BY <2>1, OneValue, Zenon
  <2>4. 5 + Len(b) = Len(p) + 1 /\ 5 \in Nat \ {0} /\ 5 >= 2 /\ 1 \in Nat /\ 5 \in Nat
    BY <1>1
  <2>5. Decoded(p, 5, 1)[1] = Step(Good(vs), Len(p) + 1)
    BY <1>1, <2>3, <2>4, ValuesRead, ZenonT(60)
  <2>6. PICK items : items = DecodeValues(q, 5, 1)
    OBVIOUS
  <2>7. items.error # ""
    BY <1>1, <2>4, <2>5, <2>6, ValuesCut, Zenon
  <2>8. DecodeBody(q, kind) = Then(items, ResponseFrame(kind, items.value[1], <<>>))
    BY <2>2, <2>6, Zenon DEF DecodeBody
  <2> QED BY <1>4, <2>7, <2>8, Zenon DEF Then
<1>7. CASE kind = "array"
  <2>1. value \in Seq(Value) /\ b = <<Len(value)>> \o EncodeValues(value)
    BY <1>7, Zenon DEF BodyFacts
  <2>2. PICK items : items = DecodeArray(q, 5)
    OBVIOUS
  <2>3. DecodeBody(q, kind) = Then(items, ResponseFrame(kind, items.value, <<>>))
    BY <1>7, <2>2, Zenon DEF DecodeBody
  <2>4. CASE 5 > Len(q)
    <3>1. items = Malformed
      BY <2>2, <2>4, Zenon DEF DecodeArray
    <3> QED BY <1>4, <2>3, <3>1, OutcomesAre, Zenon DEF Then
  <2>5. CASE ~(5 > Len(q))
    <3>1. /\ p[5] = Len(value) /\ Holds(p, 6, EncodeValues(value))
          /\ Len(b) = Len(EncodeValues(value)) + 1
      BY <1>1, <2>1, ArrayReads, Zenon
    <3>2. PICK n \in Nat, k \in Nat : n = Len(value) /\ k = Len(EncodeValues(value))
      BY <2>1, EncodedType
    <3>3. Decoded(p, 6, n)[n] = Step(Good(value), Len(p) + 1)
      <4>1. 6 + k = Len(p) + 1 /\ 6 \in Nat \ {0}
        BY <1>1, <3>1, <3>2
      <4> QED BY <1>1, <2>1, <3>1, <3>2, <4>1, ValuesRead, Zenon
    <3>4. q[5] = n
      <4>1. 5 \in 1..Len(q)
        BY <1>1, <2>5
      <4> QED BY <3>1, <3>2, <4>1, Zenon DEF Begins
    <3>5. 5 + 1 = 6 /\ 6 \in Nat /\ 6 >= 2
      OBVIOUS
    <3>6. items = DecodeValues(q, 6, n)
      BY <2>2, <2>5, <3>4, <3>5, Zenon DEF DecodeArray
    <3>7. items.error # ""
      BY <1>1, <3>2, <3>3, <3>5, <3>6, ValuesCut, Zenon
    <3> QED BY <1>4, <2>3, <3>7, Zenon DEF Then
  <2> QED BY <2>4, <2>5
<1>8. CASE kind = "error"
  <2>1. message \in Seq(Nat) /\ b = Prefixed(message)
    BY <1>8, Zenon DEF BodyFacts
  <2>2. PICK field, text :
          /\ field = Whole(q, Field(q, 5))
          /\ text = IF field.error # "" THEN field ELSE Text(field.value)
    OBVIOUS
  <2>3. DecodeBody(q, kind) = Then(text, ResponseFrame(kind, None, OrUnknown(text.value)))
    BY <1>8, <2>2, Zenon DEF DecodeBody
  <2>4. Field(p, 5) = Step(Good(message), Len(p) + 1)
    <3>1. PICK n \in Nat : n = Len(message)
      BY <2>1
    <3>2. Len(b) = n + 1
      BY <2>1, <3>1, PrefixedIs
    <3>3. 5 + n + 1 = Len(p) + 1 /\ 5 \in Nat \ {0}
      BY <1>1, <3>2
    <3> QED BY <1>1, <2>1, <3>1, <3>3, FieldReads, Zenon
  <2>5. Len(p) + 1 # Len(q) + 1 /\ 5 \in Nat /\ 5 >= 2
    BY <1>1, <1>2
  <2>6. field.error # ""
    <3> SUFFICES ASSUME Whole(q, Field(q, 5)).error = "" PROVE FALSE
      BY <2>2, Zenon
    <3>1. PICK step : step = Field(q, 5)
      OBVIOUS
    <3>2. Fine(step) /\ step.at = Len(q) + 1
      BY <3>1, WholeEnds, Zenon
    <3>3. step = Field(p, 5)
      BY <1>1, <2>5, <3>1, <3>2, FieldSame, Zenon
    <3>4. step.at = Len(p) + 1
      <4>1. PICK x, end : x = Good(message) /\ end = Len(p) + 1
        OBVIOUS
      <4>2. step = Step(x, end)
        BY <2>4, <3>3, <4>1, Zenon
      <4>3. Step(x, end).at = end
        BY OutcomesAre, Zenon
      <4> QED BY <4>1, <4>2, <4>3, Zenon
    <3> QED BY <2>5, <3>2, <3>4, Zenon
  <2>7. text = field
    BY <2>2, <2>6, Zenon
  <2> QED BY <1>4, <2>3, <2>6, <2>7, Zenon DEF Then
<1> QED BY <1>5, <1>6, <1>7, <1>8, Zenon DEF BodyFacts

LEMMA ResponseLonger ==
  ASSUME NEW kind, NEW value, NEW message, FrameIs(kind, value, message),
         NEW p, ResponseIn(p, kind, value, message, Len(p)), NEW c \in Nat
  PROVE  /\ ResponseIn(Append(p, c), kind, value, message, Len(p))
         /\ Len(Append(p, c)) # Len(p)
<1> PICK b \in Seq(Nat) : b = Body(kind, value, message)
  BY BodyIs, Zenon DEF BodyFacts
<1>1. /\ p \in Payload /\ Len(p) \in Nat /\ Headed(p, "response")
      /\ Len(p) = 4 + Len(b) /\ p[4] = Codes[kind] /\ Holds(p, 5, b)
  BY PayloadIs, Zenon DEF ResponseIn
<1>2. PICK q : q = Append(p, c)
  OBVIOUS
<1>3. q \in Payload /\ Begins(p, q) /\ Len(q) = Len(p) + 1
  <2>1. p # <<>>
    BY <1>1
  <2> QED BY <1>1, <1>2, <2>1, LongerIs, Zenon
<1>4. q[1] = p[1] /\ q[2] = p[2] /\ q[3] = p[3] /\ q[4] = p[4]
  <2>1. 1 \in 1..Len(p) /\ 2 \in 1..Len(p) /\ 3 \in 1..Len(p) /\ 4 \in 1..Len(p)
    BY <1>1
  <2> QED BY <1>3, <2>1, Zenon DEF Begins
<1>5. Len(q) >= 3 /\ Len(p) <= Len(q) /\ Len(q) # Len(p)
  BY <1>1, <1>3
<1>6. Headed(q, "response")
  BY <1>1, <1>4, <1>5, Zenon DEF Headed
<1>7. Holds(q, 5, b)
  <2>1. 5 \in Nat \ {0} /\ Len(b) \in Nat
    OBVIOUS
  <2> QED BY <1>1, <1>3, <2>1, HoldsMore, Zenon
<1> QED BY <1>1, <1>2, <1>3, <1>4, <1>5, <1>6, <1>7, Zenon DEF ResponseIn

LEMMA HeadersDiffer ==
  ASSUME NEW p
  PROVE  DecodeBinaryCommand(p).error # "" \/ DecodeBinaryResponse(p).error # ""
<1>1. Header("command") # Header("response")
  <2>1. Header("command") = <<Magic, 1, 1>> /\ Header("response") = <<Magic, 1, 2>>
    BY DEF Header, Version, FrameType
  <2> QED BY <2>1
<1>2. ~HasHeader(p, "command") \/ ~HasHeader(p, "response")
  BY <1>1, Zenon DEF HasHeader
<1>3. ~HasHeader(p, "command") => DecodeBinaryCommand(p) = Malformed
  BY Zenon DEF DecodeBinaryCommand
<1>4. ~HasHeader(p, "response") => DecodeBinaryResponse(p) = Malformed
  BY Zenon DEF DecodeBinaryResponse
<1> QED BY <1>2, <1>3, <1>4, OutcomesAre, Zenon
-----------------------------------------------------------------------------
(* The legacy format *)

LEMMA JsonValueReads ==
  ASSUME NEW v \in Value
  PROVE  /\ DecodeJsonValue(EncodeJsonValue(v)) = Good(v)
         /\ EncodeJsonValue(v) # None
<1>1. PICK type, data : type = v.type /\ data = v.data
  OBVIOUS
<1>2. v = Python(type, data) /\ type \in {"none", "bytes", "str", "json"}
  BY <1>1, ValueShape
<1>3. PICK x : x = EncodeJsonValue(v)
  OBVIOUS
<1>4. CASE type = "bytes"
  <2>1. x = [type |-> "bytes", data |-> Base64(data)]
    BY <1>1, <1>3, <1>4, Zenon DEF EncodeJsonValue
  <2>2. /\ DOMAIN x = {"type", "data"} /\ x.type = "bytes" /\ x.data = Base64(data)
        /\ x.data.base64 = data
    BY <2>1 DEF Base64
  <2>3. DecodeJsonValue(x) = Good(Python("bytes", data))
    BY <2>2 DEF DecodeJsonValue
  <2>4. x # None
    BY <2>2 DEF None, Python
  <2> QED BY <1>2, <1>3, <1>4, <2>3, <2>4, Zenon
<1>5. CASE type = "str"
  <2>1. x = [type |-> "str", data |-> data]
    BY <1>1, <1>3, <1>5 DEF EncodeJsonValue
  <2>2. DOMAIN x = {"type", "data"} /\ x.type = "str" /\ x.data = data
    BY <2>1
  <2>3. DecodeJsonValue(x) = Good(Python("str", data))
    BY <2>2 DEF DecodeJsonValue
  <2>4. x # None
    BY <2>2 DEF None, Python
  <2> QED BY <1>2, <1>3, <1>5, <2>3, <2>4, Zenon
<1>6. CASE type \in {"none", "json"}
  <2>1. x = [type |-> "json", data |-> v]
    BY <1>1, <1>3, <1>6 DEF EncodeJsonValue
  <2>2. DOMAIN x = {"type", "data"} /\ x.type = "json" /\ x.data = v
    BY <2>1
  <2>3. DecodeJsonValue(x) = Good(v)
    BY <2>2 DEF DecodeJsonValue
  <2>4. x # None
    BY <2>2 DEF None, Python
  <2> QED BY <1>3, <2>3, <2>4, Zenon
<1> QED BY <1>2, <1>4, <1>5, <1>6

TaggedAs(xs, vs, null) ==
  \A i \in DOMAIN vs :
    xs[i] = EncodeJsonValue(vs[i]) \/ (xs[i] = None /\ vs[i] = None /\ null = Good(None))

LEMMA JsonValuesRead ==
  ASSUME NEW vs \in Seq(Value), NEW xs, DOMAIN xs = DOMAIN vs, NEW null, TaggedAs(xs, vs, null)
  PROVE  DecodeJsonValues(xs, null) = Good(vs)
<1>1. PICK items : items = [i \in DOMAIN xs |-> IF xs[i] = None THEN null ELSE DecodeJsonValue(xs[i])]
  OBVIOUS
<1>2. ASSUME NEW i \in DOMAIN xs
      PROVE  items[i] = Good(vs[i]) /\ items[i].error = "" /\ items[i].value = vs[i]
  <2>1. items[i] = IF xs[i] = None THEN null ELSE DecodeJsonValue(xs[i])
    BY <1>1, Zenon
  <2>2. vs[i] \in Value /\ i \in DOMAIN vs
    OBVIOUS
  <2>3. CASE xs[i] = None /\ vs[i] = None /\ null = Good(None)
    BY <2>1, <2>3, OutcomesAre, Zenon
  <2>4. CASE xs[i] = EncodeJsonValue(vs[i])
    <3>1. EncodeJsonValue(vs[i]).type # "none" /\ None.type = "none"
      BY DEF EncodeJsonValue, None, Python
    <3>2. xs[i] # None
      BY <2>4, <3>1, Zenon
    <3>3. items[i] = Good(vs[i])
      BY <2>1, <2>2, <2>4, <3>2, JsonValueReads, Zenon
    <3> QED BY <3>3, OutcomesAre, Zenon
  <2> QED BY <2>2, <2>3, <2>4, Zenon DEF TaggedAs
<1>3. { i \in DOMAIN xs : items[i].error # "" } = {}
  BY <1>2, Zenon
<1>4. DecodeJsonValues(xs, null) = Good([i \in DOMAIN xs |-> items[i].value])
  BY <1>1, <1>3, Zenon DEF DecodeJsonValues
<1>5. [i \in DOMAIN xs |-> items[i].value] = vs
  <2>1. vs = [i \in DOMAIN vs |-> vs[i]]
    OBVIOUS
  <2> QED BY <1>2, <2>1, Zenon
<1> QED BY <1>4, <1>5, Zenon

LEMMA LegacyCommandReads ==
  ASSUME NEW args \in Seq(Value), args # <<>>
  PROVE  DecodeJsonCommand(LegacyCommand(args)) =
           IF args[1].data = <<>> THEN Malformed ELSE Good(CommandFrame(args[1].data, Tail(args)))
<1>1. PICK rest \in Seq(Value) : rest = Tail(args)
  <2>1. Tail(args) \in Seq(Value)
    BY HeadTailProperties
  <2> QED BY <2>1, Zenon
<1>2. PICK xs : xs = [i \in DOMAIN rest |-> EncodeJsonValue(rest[i])]
  OBVIOUS
<1>3. DecodeJsonValues(xs, Malformed) = Good(rest)
  <2>1. DOMAIN xs = DOMAIN rest /\ \A i \in DOMAIN rest : xs[i] = EncodeJsonValue(rest[i])
    BY <1>2, Zenon
  <2>2. PICK null : null = Malformed
    OBVIOUS
  <2>3. TaggedAs(xs, rest, null)
    BY <2>1, Zenon DEF TaggedAs
  <2>4. DecodeJsonValues(xs, null) = Good(rest)
    BY <2>1, <2>3, JsonValuesRead
  <2> QED BY <2>2, <2>4, Zenon
<1>4. PICK name : name = args[1].data
  OBVIOUS
<1>5. PICK d : d = [v |-> Version, command |-> name, args |-> xs]
  OBVIOUS
<1>6. d = LegacyCommand(args)
  BY <1>1, <1>2, <1>4, <1>5, Zenon DEF LegacyCommand
<1>7. d.v = Version /\ d.command = name /\ d.args = xs /\ DOMAIN d = {"v", "command", "args"}
  BY <1>5
<1>8. FieldOf(d, "v", 0) = Version /\ FieldOf(d, "command", <<>>) = name /\ FieldOf(d, "args", <<>>) = xs
  BY <1>7 DEF FieldOf
<1>9. DecodeJsonCommand(d) =
        IF name = <<>> THEN Malformed
        ELSE Then(Good(rest), CommandFrame(name, Good(rest).value))
  BY <1>3, <1>7, <1>8, Zenon DEF DecodeJsonCommand
<1>10. Then(Good(rest), CommandFrame(name, Good(rest).value)) = Good(CommandFrame(name, rest))
  BY OutcomesAre, Zenon
<1> QED BY <1>1, <1>4, <1>6, <1>9, <1>10, Zenon

LEMMA LegacyResponseReads ==
  ASSUME NEW kind, NEW value, NEW message, FrameIs(kind, value, message)
  PROVE  DecodeJsonResponse(LegacyResponse(ResponseFrame(kind, value, message))) =
           Good(ResponseFrame(kind, value, message))
<1>1. PICK f : f = ResponseFrame(kind, value, message)
  OBVIOUS
<1>2. f.kind = kind /\ f.value = value /\ f.message = message
  BY <1>1 DEF ResponseFrame
<1>3. BodyFacts(kind, value, message)
  BY BodyIs, Zenon
<1>4. CASE kind = "error"
  <2>1. PICK d : d = [v |-> Version, kind |-> kind, message |-> message]
    OBVIOUS
  <2>2. d = LegacyResponse(f)
    BY <1>2, <1>4, <2>1, Zenon DEF LegacyResponse
  <2>3. d.v = Version /\ d.kind = kind /\ d.message = message /\ DOMAIN d = {"v", "kind", "message"}
    BY <2>1
  <2>4. FieldOf(d, "v", 0) = Version /\ FieldOf(d, "message", UnknownError) = message /\ "kind" \in DOMAIN d
    BY <2>3 DEF FieldOf
  <2>5. d.kind = "error" /\ d.kind # "bulk" /\ d.kind # "array"
    BY <1>4, <2>3
  <2>6. DecodeJsonResponse(d) = Good(ResponseFrame("error", None, message))
    BY <2>4, <2>5, Zenon DEF DecodeJsonResponse
  <2>7. value = None
    BY <1>3, <1>4, Zenon DEF BodyFacts
  <2> QED BY <1>1, <1>4, <2>2, <2>6, <2>7, Zenon
<1>5. ASSUME NEW x, kind # "error"
      PROVE  LET d == [v |-> Version, kind |-> kind, value |-> x]
             IN /\ d.kind = kind /\ d.value = x /\ DOMAIN d = {"v", "kind", "value"}
                /\ FieldOf(d, "v", 0) = Version /\ "kind" \in DOMAIN d
                /\ "value" \in DOMAIN d /\ FieldOf(d, "value", None) = x
                /\ FieldOf(d, "value", <<>>) = x /\ FieldOf(d, "message", <<>>) = <<>>
  BY DEF FieldOf
<1>6. CASE kind = "bulk"
  <2>1. PICK x, d : x = EncodeJsonValue(value) /\ d = [v |-> Version, kind |-> kind, value |-> x]
    OBVIOUS
  <2>2. kind # "error" /\ kind \in SingleKinds
    BY <1>6 DEF SingleKinds
  <2>3. d = LegacyResponse(f)
    BY <1>2, <1>6, <2>1, <2>2, Zenon DEF LegacyResponse
  <2>4. value \in Value /\ message = <<>>
    BY <1>3, <2>2, Zenon DEF BodyFacts
  <2>5. DecodeJsonValue(d.value) = Good(value)
    BY <1>5, <2>1, <2>2, <2>4, JsonValueReads, Zenon
  <2>6. DecodeJsonResponse(d) =
          Then(DecodeJsonValue(d.value), ResponseFrame("bulk", DecodeJsonValue(d.value).value, <<>>))
    BY <1>5, <1>6, <2>1, <2>2, Zenon DEF DecodeJsonResponse
  <2>7. DecodeJsonResponse(d) = Good(ResponseFrame("bulk", value, <<>>))
    <3>1. PICK item : item = DecodeJsonValue(d.value)
      OBVIOUS
    <3>2. item.value = value
      BY <2>5, <3>1, OutcomesAre, Zenon
    <3>3. DecodeJsonResponse(d) = Then(Good(value), ResponseFrame("bulk", value, <<>>))
      BY <2>5, <2>6, <3>1, <3>2, Zenon
    <3> QED BY <3>3, OutcomesAre, Zenon
  <2> QED BY <1>1, <1>6, <2>3, <2>4, <2>7, Zenon
<1>7. CASE kind = "array"
  <2>1. PICK x : x = [i \in DOMAIN value |->
                        IF value[i] = None THEN None ELSE EncodeJsonValue(value[i])]
    OBVIOUS
  <2>2. PICK d : d = [v |-> Version, kind |-> kind, value |-> x]
    OBVIOUS
  <2>3. kind # "error" /\ kind # "bulk"
    BY <1>7
  <2>4. d = LegacyResponse(f)
    BY <1>2, <1>7, <2>1, <2>2, <2>3, Zenon DEF LegacyResponse
  <2>5. value \in Seq(Value) /\ message = <<>>
    BY <1>3, <1>7, Zenon DEF BodyFacts
  <2>6. DecodeJsonValues(x, Good(None)) = Good(value)
    <3>1. DOMAIN x = DOMAIN value
      BY <2>1, Zenon
    <3>2. PICK null : null = Good(None)
      OBVIOUS
    <3>3. TaggedAs(x, value, null)
      BY <2>1, <3>2, Zenon DEF TaggedAs
    <3>4. DecodeJsonValues(x, null) = Good(value)
      BY <2>5, <3>1, <3>3, JsonValuesRead
    <3> QED BY <3>2, <3>4, Zenon
  <2>7. DecodeJsonResponse(d) = Then(Good(value), ResponseFrame("array", Good(value).value, <<>>))
    BY <1>5, <1>7, <2>2, <2>3, <2>6, Zenon DEF DecodeJsonResponse
  <2>8. DecodeJsonResponse(d) = Good(ResponseFrame("array", value, <<>>))
    BY <2>7, OutcomesAre, ZenonT(60)
  <2> QED BY <1>1, <1>7, <2>4, <2>5, <2>8, Zenon
<1>8. CASE kind \notin {"bulk", "array", "error"}
  <2>1. PICK d : d = [v |-> Version, kind |-> kind, value |-> value]
    OBVIOUS
  <2>2. kind # "error" /\ kind # "bulk" /\ kind # "array"
    BY <1>8
  <2>3. d = LegacyResponse(f)
    BY <1>2, <2>1, <2>2, Zenon DEF LegacyResponse
  <2>4. message = <<>>
    BY <1>3, <2>2, Zenon DEF BodyFacts
  <2>5. DecodeJsonResponse(d) = Good(ResponseFrame(kind, value, <<>>))
    BY <1>5, <2>1, <2>2, Zenon DEF DecodeJsonResponse
  <2> QED BY <1>1, <2>3, <2>4, <2>5, Zenon
<1> QED BY <1>4, <1>6, <1>7, <1>8, Zenon
-----------------------------------------------------------------------------
(* The exchange *)

LEMMA CommandParts ==
  /\ \A args \in Seq(Value) : args # <<>> => args[1] \in Value /\ Tail(args) \in Seq(Value)
  /\ IsText(<<>>)
<1>1. ASSUME NEW args \in Seq(Value), args # <<>> PROVE args[1] \in Value /\ Tail(args) \in Seq(Value)
  BY <1>1, HeadTailProperties
<1>2. IsText(<<>>)
  BY DEF IsText
<1> QED BY <1>1, <1>2

LEMMA EncodesCommand ==
  ASSUME NEW args \in Seq(Value), EncodeCommand(args).error = ""
  PROVE  /\ args # <<>> /\ IsText(args[1].data)
         /\ EncodeCommand(args).value = WrittenCommand(args[1].data, Tail(args))
<1>1. args # <<>>
  <2> SUFFICES ASSUME args = <<>> PROVE FALSE
    OBVIOUS
  <2>1. EncodeCommand(args) = Malformed
    BY Zenon DEF EncodeCommand
  <2> QED BY <2>1, OutcomesAre, Zenon
<1>2. PICK type, data, v : v = args[1] /\ type = v.type /\ data = v.data
  OBVIOUS
<1>3. PICK name, rest : name = CommandName(v) /\ rest = Tail(args)
  OBVIOUS
<1>4. EncodeCommand(args) =
        IF name.error # "" THEN name
        ELSE IF Len(name.value) > MaxU16 \/ Len(rest) > MaxU16 THEN Malformed
        ELSE Good(Header("command") \o <<Len(name.value), Len(rest)>>
                    \o Upper(name.value) \o EncodeValues(rest))
  BY <1>1, <1>2, <1>3, Zenon DEF EncodeCommand
<1>5. name.error = "" /\ ~(Len(name.value) > MaxU16 \/ Len(rest) > MaxU16)
  <2>1. name.error = ""
    BY <1>4, Zenon
  <2> SUFFICES ASSUME Len(name.value) > MaxU16 \/ Len(rest) > MaxU16 PROVE FALSE
    BY <2>1, Zenon
  <2>2. EncodeCommand(args) = Malformed
    BY <1>4, <2>1, Zenon
  <2> QED BY <2>2, OutcomesAre, Zenon
<1>6. IsText(data) /\ name = Good(data)
  <2>1. v \in Value
    <3>1. args[1] \in Value
      BY <1>1, CommandParts, Zenon
    <3> QED BY <1>2, <3>1, Zenon
  <2>2. v = Python(type, data) /\ type \in {"none", "bytes", "str", "json"}
        /\ (type = "none" => data = <<>>) /\ (type \in {"str", "json"} => IsText(data))
    BY <1>2, <2>1, ValueShape
  <2>3. CASE type = "bytes"
    <3>1. name = Text(data)
      BY <1>2, <1>3, <2>3, Zenon DEF CommandName
    <3>2. IsText(data)
      <4> SUFFICES ASSUME ~IsText(data) PROVE FALSE
        OBVIOUS
      <4>1. name = OtherError
        BY <3>1, Zenon DEF Text
      <4> QED BY <1>5, <4>1, OutcomesAre, Zenon
    <3> QED BY <3>1, <3>2, Zenon DEF Text
  <2>4. CASE type # "bytes"
    <3>1. name = Good(data)
      BY <1>2, <1>3, <2>4, Zenon DEF CommandName
    <3>2. IsText(<<>>)
      BY CommandParts, Zenon
    <3> QED BY <2>2, <2>4, <3>1, <3>2
  <2> QED BY <2>3, <2>4
<1>7. EncodeCommand(args) = Good(WrittenCommand(data, rest))
  <2>1. name.value = data
    BY <1>6, OutcomesAre, Zenon
  <2> QED BY <1>4, <1>5, <2>1, Zenon DEF WrittenCommand
<1> QED BY <1>1, <1>2, <1>3, <1>6, <1>7, OutcomesAre, Zenon

LEMMA WiresAre ==
  ASSUME NEW p
  PROVE  /\ Binary(p).format = "binary" /\ Binary(p).data = p
         /\ Document(p).format = "json" /\ Document(p).data = p
         /\ DecodeCommand(Document(p)) = DecodeJsonCommand(p)
         /\ DecodeResponse(Document(p)) = DecodeJsonResponse(p)
         /\ DecodeCommand(Binary(p)) \in {DecodeBinaryCommand(p), Malformed}
         /\ DecodeResponse(Binary(p)) \in {DecodeBinaryResponse(p), Malformed}
         /\ StartsWithMagic(Binary(p)) =>
              /\ DecodeCommand(Binary(p)) = DecodeBinaryCommand(p)
              /\ DecodeResponse(Binary(p)) = DecodeBinaryResponse(p)
<1>1. Binary(p).format = "binary" /\ Binary(p).data = p
  BY DEF Binary
<1>2. Document(p).format = "json" /\ Document(p).data = p
  BY DEF Document
<1>3. Binary(p).format # "json"
  BY <1>1
<1>4. DecodeCommand(Document(p)) = DecodeJsonCommand(p)
  BY <1>2, Zenon DEF DecodeCommand
<1>5. DecodeResponse(Document(p)) = DecodeJsonResponse(p)
  BY <1>2, Zenon DEF DecodeResponse
<1>6. DecodeCommand(Binary(p)) =
        IF StartsWithMagic(Binary(p)) THEN DecodeBinaryCommand(p) ELSE Malformed
  BY <1>1, <1>3, Zenon DEF DecodeCommand
<1>7. DecodeResponse(Binary(p)) =
        IF StartsWithMagic(Binary(p)) THEN DecodeBinaryResponse(p) ELSE Malformed
  BY <1>1, <1>3, Zenon DEF DecodeResponse
<1> QED BY <1>1, <1>2, <1>4, <1>5, <1>6, <1>7, Zenon

(* What the server makes of the commands that clients send. *)
Expected(args) ==
  IF args[1].data = <<>> THEN Malformed
  ELSE Good([command |-> Upper(args[1].data), args |-> Tail(args)])

Command(args) == WrittenCommand(args[1].data, Tail(args))

LEMMA RequestReads ==
  ASSUME NEW args \in Seq(Value), args # <<>>
  PROVE  /\ DecodeCommand(Document(LegacyCommand(args))) = Expected(args)
         /\ IsText(args[1].data) =>
              /\ DecodeCommand(Binary(Command(args))) = Expected(args)
              /\ \A n \in 0 .. Len(Command(args)) - 1 :
                   DecodeCommand(Binary(SubSeq(Command(args), 1, n))).error # ""
              /\ \A c \in Nat : DecodeCommand(Binary(Append(Command(args), c))).error # ""
<1>1. DecodeCommand(Document(LegacyCommand(args))) = Expected(args)
  BY LegacyCommandReads, WiresAre, Zenon DEF Expected, CommandFrame
<1>2. PICK name \in Seq(Nat), rest \in Seq(Value) : name = args[1].data /\ rest = Tail(args)
  <2>1. args[1] \in Value /\ Tail(args) \in Seq(Value)
    BY CommandParts, Zenon
  <2>2. args[1].data \in Seq(Nat)
    BY <2>1, ValueShape, Zenon
  <2> QED BY <2>1, <2>2, Zenon
<1>3. PICK p : p = Command(args)
  OBVIOUS
<1>4. CommandIn(p, name, rest, Len(p))
  BY <1>2, <1>3, CommandWritten, Zenon DEF Command
<1>5. p \in Payload
  BY <1>4, Zenon DEF CommandIn
<1>6. ASSUME IsText(name) PROVE DecodeCommand(Binary(p)) = Expected(args)
  <2>1. StartsWithMagic(Binary(p))
    BY <1>4, HeadedIs, Zenon DEF CommandIn
  <2>2. DecodeBinaryCommand(p) =
          IF Len(p) # Len(p) \/ name = <<>> THEN Malformed ELSE Good(CommandFrame(name, rest))
    BY <1>4, <1>6, CommandReads, Zenon
  <2> QED BY <1>2, <2>1, <2>2, WiresAre, Zenon DEF Expected, CommandFrame
<1>7. ASSUME NEW n \in 0 .. Len(p) - 1 PROVE DecodeCommand(Binary(SubSeq(p, 1, n))).error # ""
  <2>1. PICK q : q = SubSeq(p, 1, n)
    OBVIOUS
  <2>2. q \in Payload /\ Begins(q, p) /\ Len(q) # Len(p)
    BY <1>5, <2>1, CutIs, Zenon
  <2>3. DecodeBinaryCommand(q).error # ""
    BY <1>4, <2>2, CommandCut, Zenon
  <2> QED BY <2>1, <2>3, WiresAre, OutcomesAre, Zenon
<1>8. ASSUME NEW c \in Nat, IsText(name) PROVE DecodeCommand(Binary(Append(p, c))).error # ""
  <2>1. PICK q : q = Append(p, c)
    OBVIOUS
  <2>2. CommandIn(q, name, rest, Len(p)) /\ Len(q) # Len(p)
    BY <1>4, <2>1, CommandLonger, Zenon
  <2>3. DecodeBinaryCommand(q) =
          IF Len(p) # Len(q) \/ name = <<>> THEN Malformed ELSE Good(CommandFrame(name, rest))
    BY <1>8, <2>2, CommandReads, Zenon
  <2>4. DecodeBinaryCommand(q) = Malformed
    BY <2>2, <2>3, Zenon
  <2> QED BY <2>1, <2>4, WiresAre, OutcomesAre, Zenon
<1> QED BY <1>1, <1>2, <1>3, <1>6, <1>7, <1>8, Zenon

(* What a caller gets when this arrives. *)
Received(w) ==
  LET response == DecodeResponse(w)
  IN IF response.error # "" THEN response ELSE RedisValue(response.value)

LEMMA RedisValueHeard ==
  ASSUME NEW kind, NEW value, NEW message
  PROVE  RedisValue(Heard(kind, value, message)) = RedisValue(ResponseFrame(kind, value, message))
<1>1. CASE kind # "error"
  <2>1. Heard(kind, value, message) = ResponseFrame(kind, value, message)
    BY <1>1, Zenon DEF Heard
  <2> QED BY <2>1, Zenon
<1>2. CASE kind = "error"
  <2>1. PICK g, f : g = Heard(kind, value, message) /\ f = ResponseFrame(kind, value, message)
    OBVIOUS
  <2>2. g.kind = "error" /\ g.message = OrUnknown(message)
    BY <1>2, <2>1 DEF Heard, ResponseFrame
  <2>3. f.kind = "error" /\ f.message = message
    BY <1>2, <2>1 DEF ResponseFrame
  <2>4. \A x : x.kind = "error" => RedisValue(x) = Raised(OrUnknown(x.message))
    <3> TAKE x
    <3> HAVE x.kind = "error"
    <3>1. x.kind \notin {"simple", "bulk"} /\ x.kind # "integer" /\ x.kind # "array"
          /\ x.kind # "nil" /\ x.kind # "pong"
      OBVIOUS
    <3> QED BY <3>1, Zenon DEF RedisValue
  <2>5. OrUnknown(OrUnknown(message)) = OrUnknown(message)
    BY CodecAssumption, Zenon DEF OrUnknown
  <2> QED BY <2>1, <2>2, <2>3, <2>4, <2>5, Zenon
<1> QED BY <1>1, <1>2

LEMMA ReceivedIs ==
  ASSUME NEW f \in Frame
  PROVE  /\ Received(Document(LegacyResponse(f))) = RedisValue(f)
         /\ Received(Binary(EncodeResponse(f))) = RedisValue(f)
         /\ \A n \in 0 .. Len(EncodeResponse(f)) - 1 :
              Received(Binary(SubSeq(EncodeResponse(f), 1, n))).error # ""
         /\ \A c \in Nat : Received(Binary(Append(EncodeResponse(f), c))).error # ""
<1>1. PICK kind, value, message : FrameIs(kind, value, message) /\ f = ResponseFrame(kind, value, message)
  BY FrameShape, Zenon
<1>2. PICK p : p = EncodeResponse(f)
  OBVIOUS
<1>3. p = WrittenResponse(kind, value, message)
  BY <1>1, <1>2, EncodesResponse, Zenon
<1>4. ResponseIn(p, kind, value, message, Len(p))
  BY <1>1, <1>3, ResponseWritten, Zenon
<1>5. p \in Payload
  BY <1>4, Zenon DEF ResponseIn
<1>6. \A w, x : DecodeResponse(w) = Good(x) => Received(w) = RedisValue(x)
  BY OutcomesAre, Zenon DEF Received
<1>7. \A w : DecodeResponse(w).error # "" => Received(w).error # ""
  BY Zenon DEF Received
<1>8. Received(Document(LegacyResponse(f))) = RedisValue(f)
  <2>1. DecodeResponse(Document(LegacyResponse(f))) = Good(f)
    <3>1. DecodeJsonResponse(LegacyResponse(f)) = Good(f)
      BY <1>1, LegacyResponseReads, Zenon
    <3> QED BY <3>1, WiresAre, Zenon
  <2> QED BY <1>6, <2>1, Zenon
<1>9. Received(Binary(p)) = RedisValue(f)
  <2>1. StartsWithMagic(Binary(p))
    BY <1>4, HeadedIs, Zenon DEF ResponseIn
  <2>2. DecodeBinaryResponse(p) =
          IF Len(p) # Len(p) THEN Malformed ELSE Good(Heard(kind, value, message))
    BY <1>1, <1>4, ResponseReads, Zenon
  <2>3. DecodeResponse(Binary(p)) = Good(Heard(kind, value, message))
    BY <2>1, <2>2, WiresAre, Zenon
  <2> QED BY <1>1, <1>6, <2>3, RedisValueHeard, Zenon
<1>10. ASSUME NEW n \in 0 .. Len(p) - 1 PROVE Received(Binary(SubSeq(p, 1, n))).error # ""
  <2>1. PICK q : q = SubSeq(p, 1, n)
    OBVIOUS
  <2>2. q \in Payload /\ Begins(q, p) /\ Len(q) # Len(p)
    BY <1>5, <2>1, CutIs, Zenon
  <2>3. DecodeBinaryResponse(q).error # ""
    BY <1>1, <1>4, <2>2, ResponseCut, Zenon
  <2>4. DecodeResponse(Binary(q)).error # ""
    BY <2>3, WiresAre, OutcomesAre, Zenon
  <2> QED BY <1>7, <2>1, <2>4, Zenon
<1>11. ASSUME NEW c \in Nat PROVE Received(Binary(Append(p, c))).error # ""
  <2>1. PICK q : q = Append(p, c)
    OBVIOUS
  <2>2. ResponseIn(q, kind, value, message, Len(p)) /\ Len(q) # Len(p)
    BY <1>1, <1>4, <2>1, ResponseLonger, Zenon
  <2>3. DecodeBinaryResponse(q) =
          IF Len(p) # Len(q) THEN Malformed ELSE Good(Heard(kind, value, message))
    BY <1>1, <2>2, ResponseReads, Zenon
  <2>4. DecodeResponse(Binary(q)).error # ""
    BY <2>2, <2>3, WiresAre, OutcomesAre, Zenon
  <2> QED BY <1>7, <2>1, <2>4, Zenon
<1> QED BY <1>2, <1>8, <1>9, <1>10, <1>11, Zenon
-----------------------------------------------------------------------------
(* The codec *)

Phases == {"idle", "request", "response", "done", "refused"}
Harms  == {"none", "cut", "longer", "changed", "foreign"}

(* The request under way is the command that was sent, in one of the two   *)
(* formats, or a payload that is too short or too long for it.             *)
RequestIs ==
  /\ harm.request \in {"none", "cut", "longer"} => sent # <<>>
  /\ harm.request = "none" =>
       \/ wire = Document(LegacyCommand(sent))
       \/ wire = Binary(Command(sent)) /\ IsText(sent[1].data)
  /\ harm.request = "cut" =>
       /\ IsText(sent[1].data)
       /\ \E n \in 0 .. Len(Command(sent)) - 1 : wire = Binary(SubSeq(Command(sent), 1, n))
  /\ harm.request = "longer" =>
       /\ IsText(sent[1].data)
       /\ \E c \in Cells : wire = Binary(Append(Command(sent), c))

(* What decode_command made of it. *)
HeardIs ==
  /\ sent # <<>> /\ harm.request = "none" => heard = Expected(sent)
  /\ harm.request \in {"cut", "longer"} => heard.error # ""

(* The same of the response and of what the caller gets. *)
ResponseIs ==
  /\ answer \in Frame
  /\ harm.response = "none" =>
       \/ wire = Document(LegacyResponse(answer))
       \/ wire = Binary(EncodeResponse(answer))
  /\ harm.response = "cut" =>
       \E n \in 0 .. Len(EncodeResponse(answer)) - 1 :
         wire = Binary(SubSeq(EncodeResponse(answer), 1, n))
  /\ harm.response = "longer" =>
       \E c \in Cells : wire = Binary(Append(EncodeResponse(answer), c))

GotIs ==
  /\ harm.response = "none" => got = RedisValue(answer)
  /\ harm.response \in {"cut", "longer"} => got.error # ""

CodecInv ==
  /\ phase \in Phases /\ sent \in Seq(Value)
  /\ harm \in [request : Harms, response : Harms]
  /\ phase = "idle" => harm.request = "none"
  /\ phase \in {"idle", "request"} => harm.response = "none"
  /\ phase = "request" => RequestIs
  /\ phase \in {"response", "done"} => HeardIs
  /\ phase = "response" => ResponseIs
  /\ phase = "done" => GotIs

LEMMA CodecInit == Init => CodecInv
<1> SUFFICES ASSUME Init PROVE CodecInv
  OBVIOUS
<1>1. phase = "idle" /\ sent = <<>> /\ harm = [request |-> "none", response |-> "none"]
  BY Zenon DEF Init
<1>2. sent \in Seq(Value)
  BY <1>1
<1>3. harm \in [request : Harms, response : Harms] /\ harm.request = "none" /\ harm.response = "none"
  BY <1>1 DEF Harms
<1>4. phase \in Phases /\ phase # "request" /\ phase # "response" /\ phase # "done"
  BY <1>1 DEF Phases
<1> QED BY <1>2, <1>3, <1>4, Zenon DEF CodecInv

LEMMA PhasesDiffer ==
  ASSUME NEW x
  PROVE  /\ x = "request" => x \in Phases /\ x \notin {"idle", "response", "done"}
         /\ x = "response" => x \in Phases /\ x \notin {"idle", "request", "done"}
         /\ x = "done" => x \in Phases /\ x \notin {"idle", "request", "response"}
         /\ x = "refused" => x \in Phases /\ x \notin {"idle", "request", "response", "done"}
BY DEF Phases

LEMMA SendKeeps == CodecInv /\ (Send \/ SendLegacy \/ SendDocument) => CodecInv'
<1> SUFFICES ASSUME CodecInv, Send \/ SendLegacy \/ SendDocument PROVE CodecInv'
  OBVIOUS
<1>1. /\ sent \in Seq(Value) /\ harm \in [request : Harms, response : Harms]
      /\ phase = "idle" /\ harm.request = "none" /\ harm.response = "none"
  BY Zenon DEF CodecInv, Send, SendLegacy, SendDocument
<1>2. \A args \in Commands : args \in Seq(Value)
  BY ExchangeAssumption, Zenon
<1>3. CASE Send
  <2>1. PICK args \in Commands :
          /\ sent' = args
          /\ \/ /\ EncodeCommand(args).error = "" /\ wire' = Binary(EncodeCommand(args).value)
                /\ phase' = "request"
             \/ phase' = "refused"
    BY <1>3, Zenon DEF Send
  <2>2. harm' = harm
    BY <1>3, Zenon DEF Send
  <2>3. CASE phase' = "refused"
    BY <1>1, <1>2, <2>1, <2>2, <2>3, PhasesDiffer, Zenon DEF CodecInv
  <2>4. CASE /\ EncodeCommand(args).error = "" /\ wire' = Binary(EncodeCommand(args).value)
             /\ phase' = "request"
    <3>1. args # <<>> /\ IsText(args[1].data) /\ wire' = Binary(Command(args))
      BY <1>2, <2>4, EncodesCommand, Zenon DEF Command
    <3>2. harm'.request = "none" /\ harm'.request \notin {"cut", "longer"}
      BY <1>1, <2>2
    <3>3. RequestIs'
      BY <2>1, <3>1, <3>2, Zenon DEF RequestIs
    <3> QED BY <1>1, <1>2, <2>1, <2>2, <2>4, <3>3, PhasesDiffer, Zenon DEF CodecInv
  <2> QED BY <2>1, <2>3, <2>4, Zenon
<1>4. CASE SendLegacy
  <2>1. PICK args \in Commands :
          args # <<>> /\ sent' = args /\ wire' = Document(LegacyCommand(args))
    BY <1>4, Zenon DEF SendLegacy
  <2>2. harm' = harm /\ phase' = "request"
    BY <1>4, Zenon DEF SendLegacy
  <2>3. harm'.request = "none" /\ harm'.request \notin {"cut", "longer"}
    BY <1>1, <2>2
  <2>4. RequestIs'
    BY <2>1, <2>3, Zenon DEF RequestIs
  <2> QED BY <1>1, <1>2, <2>1, <2>2, <2>4, PhasesDiffer, Zenon DEF CodecInv
<1>5. CASE SendDocument
  <2>1. harm' = [harm EXCEPT !.request = "foreign"] /\ phase' = "request" /\ sent' = sent
    BY <1>5, Zenon DEF SendDocument
  <2>2. /\ harm' \in [request : Harms, response : Harms]
        /\ harm'.request = "foreign" /\ harm'.response = "none"
    BY <1>1, <2>1 DEF Harms
  <2>3. harm'.request \notin {"none", "cut", "longer"}
    BY <2>2
  <2>4. RequestIs'
    BY <2>3, Zenon DEF RequestIs
  <2> QED BY <1>1, <2>1, <2>2, <2>4, PhasesDiffer, Zenon DEF CodecInv
<1> QED BY <1>3, <1>4, <1>5
LEMMA GarbleKeeps == CodecInv /\ Garble => CodecInv'
<1> SUFFICES ASSUME CodecInv, Garble PROVE CodecInv'
  OBVIOUS
<1>1. /\ sent \in Seq(Value) /\ harm \in [request : Harms, response : Harms]
      /\ phase \in {"request", "response"} /\ wire.format = "binary"
      /\ phase' = phase /\ sent' = sent /\ heard' = heard /\ answer' = answer
  BY Zenon DEF CodecInv, Garble
<1>2. harm.request = "none" /\ harm.response = "none"
  <2>1. \A payload \in DOMAIN harm : harm[payload] = "none"
    BY Zenon DEF Garble
  <2> QED BY <1>1, <2>1
<1>3. PICK p, what :
        /\ p = wire.data /\ harm' = [harm EXCEPT ![phase] = what]
        /\ \/ what = "cut" /\ \E n \in 0 .. Len(p) - 1 : wire' = Binary(SubSeq(p, 1, n))
           \/ what = "longer" /\ \E c \in Cells : wire' = Binary(Append(p, c))
           \/ what = "changed"
  BY Zenon DEF Garble
<1>4. what \in Harms /\ what # "none"
  BY <1>3 DEF Harms
<1>5. CASE phase = "request"
  <2>1. /\ harm' \in [request : Harms, response : Harms]
        /\ harm'.request = what /\ harm'.response = "none"
    BY <1>1, <1>2, <1>3, <1>4, <1>5
  <2>2. RequestIs
    BY <1>5, Zenon DEF CodecInv
  <2>3. sent # <<>> /\ p = Command(sent) /\ IsText(sent[1].data)
    <3>1. wire # Document(LegacyCommand(sent))
      <4>1. "binary" # "json"
        OBVIOUS
      <4> QED BY <1>1, <4>1, WiresAre, Zenon
    <3>2. wire = Binary(Command(sent)) /\ IsText(sent[1].data) /\ sent # <<>>
      BY <1>2, <2>2, <3>1, Zenon DEF RequestIs
    <3> QED BY <1>3, <3>2, WiresAre, Zenon
  <2>4. RequestIs'
    <3>1. CASE what = "cut" /\ \E n \in 0 .. Len(p) - 1 : wire' = Binary(SubSeq(p, 1, n))
      <4>1. harm'.request = "cut" /\ harm'.request # "none" /\ harm'.request # "longer"
        BY <2>1, <3>1
      <4> QED BY <1>1, <2>3, <3>1, <4>1, Zenon DEF RequestIs
    <3>2. CASE what = "longer" /\ \E c \in Cells : wire' = Binary(Append(p, c))
      <4>1. harm'.request = "longer" /\ harm'.request # "none" /\ harm'.request # "cut"
        BY <2>1, <3>2
      <4> QED BY <1>1, <2>3, <3>2, <4>1, Zenon DEF RequestIs
    <3>3. CASE what = "changed"
      <4>1. harm'.request \notin {"none", "cut", "longer"}
        BY <2>1, <3>3
      <4> QED BY <4>1, Zenon DEF RequestIs
    <3> QED BY <1>3, <3>1, <3>2, <3>3, Zenon
  <2> QED BY <1>1, <1>5, <2>1, <2>4, PhasesDiffer, Zenon DEF CodecInv
<1>6. CASE phase = "response"
  <2>1. /\ harm' \in [request : Harms, response : Harms]
        /\ harm'.request = "none" /\ harm'.response = what
    BY <1>1, <1>2, <1>3, <1>4, <1>6
  <2>2. ResponseIs /\ HeardIs
    BY <1>6, Zenon DEF CodecInv
  <2>3. p = EncodeResponse(answer)
    <3>1. wire # Document(LegacyResponse(answer))
      <4>1. "binary" # "json"
        OBVIOUS
      <4> QED BY <1>1, <4>1, WiresAre, Zenon
    <3>2. wire = Binary(EncodeResponse(answer))
      BY <1>2, <2>2, <3>1, Zenon DEF ResponseIs
    <3> QED BY <1>3, <3>2, WiresAre, Zenon
  <2>4. ResponseIs'
    <3>1. CASE what = "cut" /\ \E n \in 0 .. Len(p) - 1 : wire' = Binary(SubSeq(p, 1, n))
      <4>1. harm'.response = "cut" /\ harm'.response # "none" /\ harm'.response # "longer"
        BY <2>1, <3>1
      <4> QED BY <1>1, <2>2, <2>3, <3>1, <4>1, Zenon DEF ResponseIs
    <3>2. CASE what = "longer" /\ \E c \in Cells : wire' = Binary(Append(p, c))
      <4>1. harm'.response = "longer" /\ harm'.response # "none" /\ harm'.response # "cut"
        BY <2>1, <3>2
      <4> QED BY <1>1, <2>2, <2>3, <3>2, <4>1, Zenon DEF ResponseIs
    <3>3. CASE what = "changed"
      <4>1. harm'.response # "none" /\ harm'.response # "cut" /\ harm'.response # "longer"
        BY <2>1, <3>3
      <4> QED BY <1>1, <2>2, <4>1, Zenon DEF ResponseIs
    <3> QED BY <1>3, <3>1, <3>2, <3>3, Zenon
  <2>5. HeardIs'
    BY <1>1, <1>2, <2>1, <2>2, Zenon DEF HeardIs
  <2> QED BY <1>1, <1>6, <2>1, <2>4, <2>5, PhasesDiffer, Zenon DEF CodecInv
<1> QED BY <1>1, <1>5, <1>6

LEMMA ServeKeeps == CodecInv /\ Serve => CodecInv'
<1> SUFFICES ASSUME CodecInv, Serve PROVE CodecInv'
  OBVIOUS
<1>1. /\ sent \in Seq(Value) /\ harm \in [request : Harms, response : Harms]
      /\ phase = "request" /\ phase' = "response" /\ heard' = DecodeCommand(wire)
      /\ sent' = sent /\ harm' = harm /\ harm.response = "none" /\ RequestIs
  BY Zenon DEF CodecInv, Serve
<1>2. HeardIs'
  <2>1. ASSUME sent # <<>>, harm.request = "none" PROVE heard' = Expected(sent)
    BY <1>1, <2>1, RequestReads, Zenon DEF RequestIs
  <2>2. ASSUME harm.request = "cut" PROVE heard'.error # ""
    <3>1. PICK n \in 0 .. Len(Command(sent)) - 1 : wire = Binary(SubSeq(Command(sent), 1, n))
      BY <1>1, <2>2, Zenon DEF RequestIs
    <3>2. sent # <<>> /\ IsText(sent[1].data)
      BY <1>1, <2>2, Zenon DEF RequestIs
    <3> QED BY <1>1, <3>1, <3>2, RequestReads, Zenon
  <2>3. ASSUME harm.request = "longer" PROVE heard'.error # ""
    <3>1. PICK c \in Cells : wire = Binary(Append(Command(sent), c))
      BY <1>1, <2>3, Zenon DEF RequestIs
    <3>2. sent # <<>> /\ IsText(sent[1].data)
      BY <1>1, <2>3, Zenon DEF RequestIs
    <3>3. c \in Nat
      BY CellsAreNumbers, Zenon
    <3> QED BY <1>1, <3>1, <3>2, <3>3, RequestReads, Zenon
  <2> QED BY <1>1, <2>1, <2>2, <2>3, Zenon DEF HeardIs
<1>3. ResponseIs'
  <2>1. answer' \in Frame
    <3>1. CASE answer' \in Frames
      BY <3>1, ExchangeAssumption, Zenon
    <3>2. CASE answer' = ResponseFrame("error", None, <<Small>>)
      <4>1. <<Small>> \in Texts
        <5>1. Small \in Cells /\ Small # NotText
          BY CodecAssumption DEF Cells
        <5> QED BY <5>1 DEF Texts, IsText
      <4> QED BY <3>2, <4>1 DEF Frame, ResponseFrame
    <3> QED BY <3>1, <3>2, Zenon DEF Serve
  <2>2. wire' = Document(LegacyResponse(answer')) \/ wire' = Binary(EncodeResponse(answer'))
    BY Zenon DEF Serve
  <2>3. harm'.response = "none" /\ harm'.response # "cut" /\ harm'.response # "longer"
    BY <1>1
  <2> QED BY <2>1, <2>2, <2>3, Zenon DEF ResponseIs
<1> QED BY <1>1, <1>2, <1>3, PhasesDiffer, Zenon DEF CodecInv

LEMMA ReceiveKeeps == CodecInv /\ Receive => CodecInv'
<1> SUFFICES ASSUME CodecInv, Receive PROVE CodecInv'
  OBVIOUS
<1>1. /\ sent \in Seq(Value) /\ harm \in [request : Harms, response : Harms]
      /\ phase = "response" /\ phase' = "done" /\ got' = Received(wire)
      /\ sent' = sent /\ harm' = harm /\ heard' = heard /\ answer' = answer
      /\ HeardIs /\ ResponseIs
  BY Zenon DEF CodecInv, Receive, Received
<1>2. HeardIs'
  BY <1>1, Zenon DEF HeardIs
<1>3. GotIs'
  <2>1. ASSUME harm.response = "none" PROVE got' = RedisValue(answer)
    BY <1>1, <2>1, ReceivedIs, Zenon DEF ResponseIs
  <2>2. ASSUME harm.response = "cut" PROVE got'.error # ""
    <3>1. PICK n \in 0 .. Len(EncodeResponse(answer)) - 1 :
            wire = Binary(SubSeq(EncodeResponse(answer), 1, n))
      BY <1>1, <2>2, Zenon DEF ResponseIs
    <3> QED BY <1>1, <3>1, ReceivedIs, Zenon DEF ResponseIs
  <2>3. ASSUME harm.response = "longer" PROVE got'.error # ""
    <3>1. PICK c \in Cells : wire = Binary(Append(EncodeResponse(answer), c))
      BY <1>1, <2>3, Zenon DEF ResponseIs
    <3>2. c \in Nat
      BY CellsAreNumbers, Zenon
    <3> QED BY <1>1, <3>1, <3>2, ReceivedIs, Zenon DEF ResponseIs
  <2> QED BY <1>1, <2>1, <2>2, <2>3, Zenon DEF GotIs
<1> QED BY <1>1, <1>2, <1>3, PhasesDiffer, Zenon DEF CodecInv

LEMMA CodecNext == CodecInv /\ [AllNext]_<<subject, vars, globVars, argsVars>> => CodecInv'
<1>1. CodecInv /\ (Send \/ SendLegacy \/ SendDocument \/ Garble \/ Serve \/ Receive) => CodecInv'
  BY SendKeeps, GarbleKeeps, ServeKeeps, ReceiveKeeps, Zenon
<1>2. ASSUME CodecInv, UNCHANGED vars PROVE CodecInv'
  BY <1>2, Zenon DEF CodecInv, vars, RequestIs, HeardIs, ResponseIs, GotIs
<1>3. AllNext \/ UNCHANGED <<subject, vars, globVars, argsVars>> =>
        \/ Send \/ SendLegacy \/ SendDocument \/ Garble \/ Serve \/ Receive
        \/ UNCHANGED vars
  BY Zenon DEF AllNext, InGlob, InArgs
<1> QED BY <1>1, <1>2, <1>3, Zenon

LEMMA CodecAlways == AllSpec => []CodecInv
<1>1. AllInit => CodecInv
  BY CodecInit, Zenon DEF AllInit
<1> QED BY <1>1, CodecNext, PTL DEF AllSpec

(* In either format the server hears the command and the arguments that    *)
(* the client was given, and the reply reaches the caller as if there were *)
(* no wire in between.                                                     *)
THEOREM RoundTripHolds == AllSpec => []RoundTrip
<1>1. CodecInv => RoundTrip
  <2> SUFFICES ASSUME CodecInv PROVE RoundTrip
    OBVIOUS
  <2>1. ASSUME Served, sent # <<>>, harm.request = "none" PROVE heard = Expected(sent)
    BY <2>1, Zenon DEF CodecInv, Served, HeardIs
  <2>2. ASSUME phase = "done", harm.response = "none" PROVE got = RedisValue(answer)
    BY <2>2, Zenon DEF CodecInv, GotIs
  <2> QED BY <2>1, <2>2, Zenon DEF RoundTrip, Expected
<1> QED BY <1>1, CodecAlways, PTL

(* A payload that ends too early or too late is never taken for a frame,   *)
(* and none is taken for both a command and a response.                    *)
THEOREM GarbledRefusedHolds == AllSpec => []GarbledRefused
<1>1. CodecInv => GarbledRefused
  <2> SUFFICES ASSUME CodecInv PROVE GarbledRefused
    OBVIOUS
  <2>1. ASSUME Served, harm.request \in {"cut", "longer"} PROVE heard.error # ""
    BY <2>1, Zenon DEF CodecInv, Served, HeardIs
  <2>2. ASSUME phase = "done", harm.response \in {"cut", "longer"} PROVE got.error # ""
    BY <2>2, Zenon DEF CodecInv, GotIs
  <2>3. ASSUME wire.format = "binary", DecodeCommand(wire).error = "", DecodeResponse(wire).error = ""
        PROVE  FALSE
    <3>1. wire.format # "json"
      BY <2>3
    <3>2. DecodeCommand(wire) \in {DecodeBinaryCommand(wire.data), Malformed}
      BY <3>1, Zenon DEF DecodeCommand
    <3>3. DecodeResponse(wire) \in {DecodeBinaryResponse(wire.data), Malformed}
      BY <3>1, Zenon DEF DecodeResponse
    <3> QED BY <2>3, <3>2, <3>3, HeadersDiffer, OutcomesAre, Zenon
  <2> QED BY <2>1, <2>2, <2>3, Zenon DEF GarbledRefused
<1> QED BY <1>1, CodecAlways, PTL


=============================================================================
