------------------------ MODULE HotReloadLogProofs ------------------------
(***************************************************************************)
(* Proofs about the log of the hot-reloader: however the workers of all    *)
(* applications, and lists that are written late, overwrite one another,   *)
(* the list never has an application's records out of order or twice; and  *)
(* for a lone application append_log is as good as atomic, and loses no    *)
(* record silently until it is closed.                                     *)
(*                                                                         *)
(* The invariant is about every list there is: the one on the server,      *)
(* those in requests that may be executed late, and those workers have     *)
(* read.  In none of them is there a record that its application still     *)
(* has to write, and what is queued comes after all of them.               *)
(*                                                                         *)
(* Of the pages: a stream is where it is because of a record on its page,  *)
(* and passes over none that the page does not show.                       *)
(***************************************************************************)
EXTENDS HotReloadLog, FiniteSetTheorems, SequenceTheorems, WellFoundedInduction, TLAPS

Steps   == {"waiting", "getting", "reading", "writing", "ended"}
Writing(a) == worker[a].step \in {"reading", "writing"}

Typed ==
  /\ setup \in Setup /\ clock \in Nat
  /\ log \in Seq(Record) /\ late \subseteq Seq(Record) /\ IsFiniteSet(late)
  /\ logged \in [Apps -> 0..MaxRecords]
  /\ records \in [Apps -> Seq(Record)]
  /\ worker \in [Apps -> [step : Steps, record : Record \cup {<<>>}, seen : Seq(Record)]]
  /\ \A a \in Apps : Writing(a) => worker[a].record \in Record

(* All that is queued, or is on its way to the list, in the order of log().*)
Queued(a) ==
  /\ \A i \in DOMAIN records[a] : records[a][i].app = a /\ records[a][i].n <= logged[a]
  /\ \A i, j \in DOMAIN records[a] : i < j => records[a][i].n < records[a][j].n
  /\ Writing(a) =>
       /\ worker[a].record.app = a /\ worker[a].record.n <= logged[a]
       /\ \A i \in DOMAIN records[a] : worker[a].record.n < records[a][i].n
  /\ a \notin setup.apps => records[a] = <<>> /\ worker[a].step = "waiting"

(* A record that its worker has done with. *)
Past(r) ==
  /\ r.app \in setup.apps /\ r.n <= logged[r.app]
  /\ Writing(r.app) => r.n < worker[r.app].record.n
  /\ \A i \in DOMAIN records[r.app] : r.n < records[r.app][i].n

Sound(list) == InOrder(list) /\ \A i \in DOMAIN list : Past(list[i])

Lists == {log} \cup late \cup { worker[a].seen : a \in Apps }

(* Nobody changes the list between a lone application's read and write.   *)
Undisturbed ==
  /\ setup.late = 0 => late = {}
  /\ Alone => \A a \in setup.apps : worker[a].step = "writing" => worker[a].seen = log

(* What is past stays so. *)
PastStays == \A r \in Record : Past(r) => Past(r)'

LogInv ==
  /\ Typed
  /\ \A a \in Apps : Queued(a)
  /\ \A list \in Lists : Sound(list)
  /\ Undisturbed
-----------------------------------------------------------------------------
(* The lists. *)

(* s[-n:] is a suffix; nothing is cut off if n is zero or s is not longer, *)
(* and else n elements are left.                                           *)
LEMMA FromEndFacts ==
  ASSUME NEW S, NEW s \in Seq(S), NEW n \in Int
  PROVE  /\ FromEnd(s, n) \in Seq(S)
         /\ \E d \in Nat : \A i \in 1..Len(FromEnd(s, n)) : i + d \in 1..Len(s) /\ FromEnd(s, n)[i] = s[i + d]
         /\ n = 0 \/ (n > 0 /\ Len(s) <= n) => FromEnd(s, n) = s
         /\ n > 0 /\ Len(s) > n =>
              /\ Len(FromEnd(s, n)) = n
              /\ \A i \in 1..n : FromEnd(s, n)[i] = s[i + (Len(s) - n)]
<1>1. CASE n > 0 /\ Len(s) > n
  <2>1. FromEnd(s, n) = SubSeq(s, Len(s) - n + 1, Len(s))
    BY <1>1 DEF FromEnd
  <2>2. \A i \in (Len(s) - n + 1)..Len(s) : s[i] \in S
    BY <1>1
  <2>3. /\ SubSeq(s, Len(s) - n + 1, Len(s)) \in Seq(S)
        /\ Len(SubSeq(s, Len(s) - n + 1, Len(s))) = n
        /\ \A i \in 1..n : SubSeq(s, Len(s) - n + 1, Len(s))[i] = s[i + (Len(s) - n)]
    <3> DEFINE m == Len(s) - n + 1
    <3>1. m \in Int /\ Len(s) \in Int /\ Len(s) - m + 1 = n /\ m <= Len(s)
      BY <1>1
    <3>2. /\ SubSeq(s, m, Len(s)) \in Seq(S)
          /\ Len(SubSeq(s, m, Len(s))) = IF m <= Len(s) THEN Len(s) - m + 1 ELSE 0
          /\ \A i \in 1 .. Len(s) - m + 1 : SubSeq(s, m, Len(s))[i] = s[m + i - 1]
      <4> HIDE DEF m
      <4> QED BY <2>2, <3>1, SubSeqProperties DEF m
    <3>3. \A i \in 1..n : m + i - 1 = i + (Len(s) - n)
      OBVIOUS
    <3> QED BY <3>1, <3>2, <3>3
  <2>4. Len(s) - n \in Nat /\ \A i \in 1..n : i + (Len(s) - n) \in 1..Len(s)
    BY <1>1
  <2>5. FromEnd(s, n) \in Seq(S) /\ Len(FromEnd(s, n)) = n /\ \A i \in 1..n : FromEnd(s, n)[i] = s[i + (Len(s) - n)]
    BY <2>1, <2>3, Zenon
  <2>6. \E d \in Nat : \A i \in 1..Len(FromEnd(s, n)) : i + d \in 1..Len(s) /\ FromEnd(s, n)[i] = s[i + d]
    BY <2>4, <2>5
  <2>7. ~(n = 0 \/ (n > 0 /\ Len(s) <= n))
    BY <1>1
  <2> QED BY <2>5, <2>6, <2>7, Zenon
<1>2. CASE n = 0 \/ (n > 0 /\ Len(s) <= n)
  <2>1. FromEnd(s, n) = SubSeq(s, 1, Len(s))
    <3>1. CASE n = 0
      <4>1. ~(n > 0) /\ 1 - n = 1
        BY <3>1
      <4> QED BY <4>1, Zenon DEF FromEnd
    <3>2. CASE n > 0 /\ Len(s) <= n
      <4>1. n > 0 /\ ~(Len(s) > n)
        BY <3>2
      <4> QED BY <4>1, Zenon DEF FromEnd
    <3> QED BY <1>2, <3>1, <3>2
  <2>2. FromEnd(s, n) = s
    BY <2>1, SubSeqFull
  <2>3. \A i \in 1..Len(s) : i + 0 \in 1..Len(s) /\ s[i] = s[i + 0]
    OBVIOUS
  <2> QED BY <1>2, <2>2, <2>3
<1>3. CASE n < 0
  <2>1. FromEnd(s, n) = SubSeq(s, 1 - n, Len(s))
    <3>1. ~(n > 0)
      BY <1>3
    <3> QED BY <3>1, Zenon DEF FromEnd
  <2> DEFINE m == 1 - n
  <2>2. m \in Int /\ Len(s) \in Int /\ \A i \in m..Len(s) : s[i] \in S
    BY <1>3
  <2>3. /\ SubSeq(s, m, Len(s)) \in Seq(S)
        /\ Len(SubSeq(s, m, Len(s))) = IF m <= Len(s) THEN Len(s) - m + 1 ELSE 0
        /\ \A i \in 1 .. Len(s) - m + 1 : SubSeq(s, m, Len(s))[i] = s[m + i - 1]
    <3> HIDE DEF m
    <3> QED BY <2>2, SubSeqProperties
  <2>4. \A i \in 1..Len(FromEnd(s, n)) : i + (-n) \in 1..Len(s) /\ FromEnd(s, n)[i] = s[i + (-n)]
    <3>1. SUFFICES ASSUME NEW i \in 1..Len(SubSeq(s, m, Len(s)))
                   PROVE  i + (-n) \in 1..Len(s) /\ SubSeq(s, m, Len(s))[i] = s[i + (-n)]
      BY <2>1
    <3>2. i \in 1 .. Len(s) - m + 1 /\ m + i - 1 = i + (-n)
      BY <2>3
    <3> QED BY <1>3, <2>3, <3>2
  <2>5. -n \in Nat /\ ~(n > 0) /\ n # 0
    BY <1>3
  <2>6. \E d \in Nat : \A i \in 1..Len(FromEnd(s, n)) : i + d \in 1..Len(s) /\ FromEnd(s, n)[i] = s[i + d]
    BY <2>4, <2>5
  <2>7. FromEnd(s, n) \in Seq(S)
    BY <2>1, <2>3
  <2> QED BY <2>5, <2>6, <2>7, Zenon
<1> QED BY <1>1, <1>2, <1>3

(* append_log adds what is newer than all of its application's records.   *)
LEMMA AppendInOrder ==
  ASSUME NEW list \in Seq(Record), NEW r \in Record, NEW n \in Int, InOrder(list),
         \A i \in DOMAIN list : list[i].app = r.app => list[i].n < r.n
  PROVE  /\ FromEnd(Append(list, r), n) \in Seq(Record)
         /\ InOrder(FromEnd(Append(list, r), n))
         /\ \A i \in DOMAIN FromEnd(Append(list, r), n) :
              FromEnd(Append(list, r), n)[i] \in Elements(list) \cup {r}
<1> DEFINE long == Append(list, r)
<1>1. /\ long \in Seq(Record) /\ Len(long) = Len(list) + 1
      /\ \A i \in 1..Len(list) : long[i] = list[i]
      /\ long[Len(list) + 1] = r
  BY AppendProperties
<1>2. InOrder(long) /\ \A i \in DOMAIN long : long[i] \in Elements(list) \cup {r}
  BY <1>1 DEF InOrder, Elements
<1> HIDE DEF long
<1>3. PICK d \in Nat : \A i \in 1..Len(FromEnd(long, n)) :
                         i + d \in 1..Len(long) /\ FromEnd(long, n)[i] = long[i + d]
  BY <1>1, FromEndFacts, ZenonT(60)
<1>4. FromEnd(long, n) \in Seq(Record) /\ DOMAIN FromEnd(long, n) = 1..Len(FromEnd(long, n))
  <2>1. FromEnd(long, n) \in Seq(Record)
    BY <1>1, FromEndFacts
  <2> QED BY <2>1
<1>5. \A i \in DOMAIN FromEnd(long, n) : FromEnd(long, n)[i] \in Elements(list) \cup {r}
  BY <1>1, <1>2, <1>3, <1>4, SMTT(30)
<1>6. ASSUME NEW i \in DOMAIN FromEnd(long, n), NEW j \in DOMAIN FromEnd(long, n), i < j,
             FromEnd(long, n)[i].app = FromEnd(long, n)[j].app
      PROVE  FromEnd(long, n)[i].n < FromEnd(long, n)[j].n
  <2>1. i + d < j + d /\ i + d \in DOMAIN long /\ j + d \in DOMAIN long
    BY <1>1, <1>3, <1>4, <1>6
  <2>2. FromEnd(long, n)[i] = long[i + d] /\ FromEnd(long, n)[j] = long[j + d]
    BY <1>3, <1>4
  <2> QED BY <1>2, <1>6, <2>1, <2>2 DEF InOrder
<1> QED BY <1>4, <1>5, <1>6 DEF long, InOrder

-----------------------------------------------------------------------------
(* What the actions have in common. *)

LEMMA MoveFacts ==
  ASSUME Typed, NEW a \in Apps, NEW step \in Steps, NEW r \in Record \cup {<<>>}, NEW seen \in Seq(Record),
         Move(a, step, r, seen)
  PROVE  /\ worker' \in [Apps -> [step : Steps, record : Record \cup {<<>>}, seen : Seq(Record)]]
         /\ worker'[a].step = step /\ worker'[a].record = r /\ worker'[a].seen = seen
         /\ \A b \in Apps \ {a} : worker'[b] = worker[b]
         /\ { worker'[b].seen : b \in Apps } \subseteq { worker[b].seen : b \in Apps } \cup {seen}
<1> DEFINE w == [step |-> step, record |-> r, seen |-> seen]
<1>1. w \in [step : Steps, record : Record \cup {<<>>}, seen : Seq(Record)]
      /\ w.step = step /\ w.record = r /\ w.seen = seen
  OBVIOUS
<1>2. worker' = [worker EXCEPT ![a] = w]
  BY DEF Move
<1> HIDE DEF w
<1>3. /\ worker' \in [Apps -> [step : Steps, record : Record \cup {<<>>}, seen : Seq(Record)]]
      /\ worker'[a] = w /\ \A b \in Apps \ {a} : worker'[b] = worker[b]
  BY <1>1, <1>2 DEF Typed
<1> QED BY <1>1, <1>3

LEMMA SoundTypes ==
  ASSUME Typed
  PROVE  Lists \subseteq Seq(Record)
BY DEF Typed, Lists

LEMMA SoundEmpty == Sound(<<>>)
BY DEF Sound, InOrder

(* The lists stay sound if no record that is past ceases to be.           *)
LEMMA StaysSound ==
  ASSUME Typed, NEW list \in Lists, Sound(list), \A r \in Record : Past(r) => Past(r)'
  PROVE  Sound(list)'
<1>1. list \in Seq(Record)
  BY SoundTypes
<1>2. \A i \in DOMAIN list : list[i] \in Record
  BY <1>1
<1> QED BY <1>2 DEF Sound, InOrder

LEMMA ListsKeep ==
  ASSUME Typed, \A list \in Lists : Sound(list),
         NEW new, Sound(new)', Lists' \subseteq Lists \cup {new},
         \A r \in Record : Past(r) => Past(r)'
  PROVE  (\A list \in Lists : Sound(list))'
<1>1. \A list \in Lists : Sound(list)'
  BY StaysSound
<1>2. ASSUME NEW list \in Lists' PROVE Sound(list)'
  BY <1>1, <1>2
<1> QED BY <1>2

LEMMA ListsStay ==
  ASSUME Typed, \A list \in Lists : Sound(list), UNCHANGED <<log, late>>,
         { worker'[a].seen : a \in Apps } \subseteq { worker[a].seen : a \in Apps } \cup {<<>>},
         \A r \in Record : Past(r) => Past(r)'
  PROVE  (\A list \in Lists : Sound(list))'
<1>1. Sound(<<>>)'
  BY DEF Sound, InOrder
<1>2. Lists' \subseteq Lists \cup {<<>>}
  BY DEF Lists
<1> QED BY <1>1, <1>2, ListsKeep

(* Steps of pages, and whatever else leaves the lists and the queues.     *)
LEMMA OthersKeep ==
  ASSUME LogInv, UNCHANGED <<setup, log, late, clock, logged, records, worker>>
  PROVE  LogInv' /\ PastStays
<1>1. Typed'
  BY DEF LogInv, Typed, Writing
<1>2. \A a \in Apps : Queued(a)'
  BY DEF LogInv, Queued, Writing
<1>3. Lists' = Lists
  BY DEF Lists
<1>4. \A r \in Record : Past(r) => Past(r)'
  BY DEF Past, Writing
<1>5. Sound(<<>>)'
  BY DEF Sound, InOrder
<1>6. (\A list \in Lists : Sound(list))'
  BY <1>3, <1>4, <1>5, ListsKeep DEF LogInv
<1>7. Undisturbed'
  BY DEF LogInv, Undisturbed, Alone
<1> QED BY <1>1, <1>2, <1>4, <1>6, <1>7 DEF LogInv, PastStays

-----------------------------------------------------------------------------
(* Init, and each action. *)

LEMMA LogInit == Init => LogInv
<1> SUFFICES ASSUME Init PROVE LogInv
  OBVIOUS
<1>1. /\ Idle \in [step : Steps, record : Record \cup {<<>>}, seen : Seq(Record)]
      /\ Idle.step = "waiting" /\ Idle.seen = <<>>
  BY DEF Idle, Steps
<1>2. \A a \in Apps : worker[a] = Idle /\ records[a] = <<>> /\ ~Writing(a)
  BY <1>1 DEF Init, Writing
<1>3. Typed
  <2>1. IsFiniteSet(late)
    BY FS_EmptySet DEF Init
  <2>2. worker \in [Apps -> [step : Steps, record : Record \cup {<<>>}, seen : Seq(Record)]]
    BY <1>1 DEF Init
  <2>3. setup \in Setup /\ clock \in Nat /\ log \in Seq(Record) /\ late \subseteq Seq(Record)
    BY HotReloadLogAssumption DEF Init
  <2>4. logged \in [Apps -> 0..MaxRecords] /\ records \in [Apps -> Seq(Record)]
    BY HotReloadLogAssumption DEF Init
  <2> QED BY <1>2, <2>1, <2>2, <2>3, <2>4 DEF Typed
<1>4. \A a \in Apps : Queued(a)
  BY <1>1, <1>2 DEF Queued
<1>5. Lists \subseteq {<<>>}
  BY <1>1, <1>2 DEF Init, Lists
<1>6. Undisturbed
  <2>1. ASSUME Alone, NEW a \in setup.apps PROVE worker[a].step = "waiting"
    BY <1>1, <1>2, <2>1 DEF Alone
  <2> QED BY <2>1 DEF Undisturbed, Init
<1> QED BY <1>3, <1>4, <1>5, <1>6, SoundEmpty DEF LogInv

LEMMA LogKeeps ==
  ASSUME LogInv, NEW a \in Apps, Log(a)
  PROVE  LogInv' /\ PastStays
<1> USE DEF LogInv
<1>1. PICK ts \in {clock + 1} \cup (IF setup.strict THEN {} ELSE {clock}) :
        LET record == [app |-> a, n |-> logged[a] + 1, ts |-> ts]
        IN /\ clock' = ts
           /\ \/ /\ Len(records[a]) < QueueSize
                 /\ records' = [records EXCEPT ![a] = Append(@, record)]
                 /\ UNCHANGED reported
              \/ /\ Len(records[a]) = QueueSize
                 /\ reported' = reported \cup {record}
                 /\ UNCHANGED records
  BY DEF Log
<1> DEFINE record == [app |-> a, n |-> logged[a] + 1, ts |-> ts]
<1>2. /\ a \in setup.apps /\ logged[a] < setup.records[a] /\ logged' = [logged EXCEPT ![a] = @ + 1]
      /\ UNCHANGED <<setup, log, late, worker>>
  BY DEF Log, server
<1>3. logged[a] \in Nat /\ logged[a] + 1 \in 1..MaxRecords /\ ts \in Nat
  <2>1. logged[a] \in 0..MaxRecords /\ setup.records[a] \in 0..MaxRecords /\ clock \in Nat
    BY DEF Typed, Setup
  <2> QED BY <1>2, <2>1, HotReloadLogAssumption
<1>4. record \in Record /\ record.app = a /\ record.n = logged[a] + 1
  BY <1>3 DEF Record
<1>5. clock' = ts /\ (records' = [records EXCEPT ![a] = Append(@, record)] \/ UNCHANGED records)
  BY <1>1
<1> HIDE DEF record
<1>6. records[a] \in Seq(Record)
  BY DEF Typed
<1>7. /\ records' \in [Apps -> Seq(Record)]
      /\ \A b \in Apps \ {a} : records'[b] = records[b]
      /\ records'[a] = records[a] \/ records'[a] = Append(records[a], record)
  <2>1. CASE UNCHANGED records
    BY <2>1 DEF Typed
  <2>2. CASE records' = [records EXCEPT ![a] = Append(@, record)]
    <3>1. Append(records[a], record) \in Seq(Record)
      BY <1>4, <1>6, AppendProperties
    <3>2. records \in [Apps -> Seq(Record)]
      BY DEF Typed
    <3> QED BY <2>2, <3>1, <3>2
  <2> QED BY <1>5, <2>1, <2>2
<1>8. logged' \in [Apps -> 0..MaxRecords] /\ logged'[a] = logged[a] + 1
      /\ \A b \in Apps \ {a} : logged'[b] = logged[b]
  BY <1>2, <1>3, HotReloadLogAssumption DEF Typed
<1>9. \A i \in DOMAIN records'[a] :
        \/ i \in DOMAIN records[a] /\ records'[a][i] = records[a][i]
        \/ i = Len(records[a]) + 1 /\ records'[a][i] = record
  BY <1>4, <1>6, <1>7, AppendProperties
<1>10. Typed'
  BY <1>2, <1>3, <1>5, <1>7, <1>8 DEF Typed, Writing
<1>11. ASSUME NEW b \in Apps PROVE Queued(b)'
  <2>1. CASE b # a
    BY <1>2, <1>7, <1>8, <2>1 DEF Queued, Writing
  <2>2. CASE b = a
    <3>1. \A i \in DOMAIN records[a] : /\ records[a][i] \in Record /\ records[a][i].n \in Nat
                                       /\ records[a][i].app = a /\ records[a][i].n <= logged[a]
      <4>1. \A i \in DOMAIN records[a] : records[a][i] \in Record
        BY <1>6
      <4>2. \A r \in Record : r.n \in Nat
        BY DEF Record
      <4>3. Queued(a)
        OBVIOUS
      <4> QED BY <4>1, <4>2, <4>3 DEF Queued
    <3>2. \A i \in DOMAIN records'[a] : records'[a][i].app = a /\ records'[a][i].n <= logged'[a]
      BY <1>3, <1>4, <1>8, <1>9, <3>1
    <3>3. ASSUME NEW i \in DOMAIN records'[a], NEW j \in DOMAIN records'[a], i < j
          PROVE  records'[a][i].n < records'[a][j].n
      <4>1. i \in DOMAIN records[a] /\ records'[a][i] = records[a][i]
        BY <1>4, <1>6, <1>7, <1>9, <3>3
      <4>2. CASE j \in DOMAIN records[a] /\ records'[a][j] = records[a][j]
        BY <4>1, <4>2, <3>3 DEF Queued
      <4>3. CASE records'[a][j] = record
        BY <1>3, <1>4, <3>1, <4>1, <4>3
      <4> QED BY <1>9, <4>2, <4>3
    <3>4. Writing(a)' =>
            /\ worker'[a].record.app = a /\ worker'[a].record.n <= logged'[a]
            /\ \A i \in DOMAIN records'[a] : worker'[a].record.n < records'[a][i].n
      <4>1. ASSUME Writing(a)
            PROVE  worker[a].record.app = a /\ worker[a].record.n \in Nat /\ worker[a].record.n <= logged[a]
        BY <4>1 DEF Queued, Typed, Record
      <4> QED BY <1>2, <1>3, <1>4, <1>8, <1>9, <4>1 DEF Queued, Writing
    <3> QED BY <1>2, <2>2, <3>2, <3>3, <3>4 DEF Queued
  <2> QED BY <2>1, <2>2
<1>12. ASSUME NEW r \in Record, Past(r) PROVE Past(r)'
  <2>1. r.n \in Nat /\ r.app \in Apps /\ r.n <= logged[r.app]
    BY <1>12 DEF Past, Record
  <2>2. CASE r.app # a
    BY <1>2, <1>7, <1>8, <1>12, <2>1, <2>2 DEF Past, Writing
  <2>3. CASE r.app = a
    <3>1. r.n <= logged'[a] /\ r.n < record.n
      BY <1>3, <1>4, <1>8, <2>1, <2>3
    <3> QED BY <1>2, <1>9, <1>12, <2>3, <3>1 DEF Past, Writing
  <2> QED BY <2>2, <2>3
<1>13. (\A list \in Lists : Sound(list))'
  <2>1. Lists' = Lists /\ Sound(<<>>)'
    BY <1>2 DEF Lists, Sound, InOrder
  <2> QED BY <1>12, <2>1, ListsKeep
<1>14. Undisturbed'
  BY <1>2 DEF Undisturbed, Alone
<1> QED BY <1>10, <1>11, <1>12, <1>13, <1>14 DEF PastStays

LEMMA CheckStopKeeps ==
  ASSUME LogInv, NEW a \in Apps, CheckStop(a)
  PROVE  LogInv' /\ PastStays
<1> USE DEF LogInv
<1> DEFINE step == IF closed[a] THEN "ended" ELSE "getting"
<1>1. step \in Steps /\ <<>> \in Seq(Record) /\ Move(a, step, <<>>, <<>>) /\ ~Writing(a) /\ a \in setup.apps
      /\ step \notin {"reading", "writing"}
  BY DEF CheckStop, Steps, Writing
<1> HIDE DEF step
<1>2. /\ worker' \in [Apps -> [step : Steps, record : Record \cup {<<>>}, seen : Seq(Record)]]
      /\ worker'[a].step = step
      /\ \A b \in Apps \ {a} : worker'[b] = worker[b]
      /\ { worker'[b].seen : b \in Apps } \subseteq { worker[b].seen : b \in Apps } \cup {<<>>}
  BY <1>1, MoveFacts
<1>3. UNCHANGED <<setup, log, late, clock, logged, records>> /\ ~Writing(a)'
  BY <1>1, <1>2 DEF CheckStop, server, Writing
<1>4. \A b \in Apps : Writing(b)' => Writing(b) /\ worker'[b] = worker[b]
  BY <1>2, <1>3 DEF Writing
<1>5. Typed'
  BY <1>2, <1>3, <1>4 DEF Typed
<1>6. ASSUME NEW b \in Apps PROVE Queued(b)'
  <2>1. b \notin setup.apps => b # a
    BY <1>1
  <2> QED BY <1>2, <1>3, <1>4, <2>1 DEF Queued
<1>7. ASSUME NEW r \in Record, Past(r) PROVE Past(r)'
  <2>1. r.app \in Apps
    BY DEF Record
  <2> QED BY <1>3, <1>4, <1>7, <2>1 DEF Past
<1>8. (\A list \in Lists : Sound(list))'
  BY <1>2, <1>3, <1>7, ListsStay
<1>9. Undisturbed'
  <2>1. ASSUME Alone, NEW b \in setup.apps, worker'[b].step = "writing" PROVE worker'[b].seen = log'
    <3>1. b \in Apps
      BY <2>1 DEF Alone
    <3>2. worker'[b] = worker[b]
      BY <1>4, <2>1, <3>1 DEF Writing
    <3> QED BY <1>3, <2>1, <3>2 DEF Undisturbed
  <2> QED BY <1>3, <2>1 DEF Undisturbed, Alone
<1> QED BY <1>5, <1>6, <1>7, <1>8, <1>9 DEF PastStays

LEMMA TakeKeeps ==
  ASSUME LogInv, NEW a \in Apps, Take(a)
  PROVE  LogInv' /\ PastStays
<1> USE DEF LogInv
<1>1. worker[a].step = "getting" /\ a \in setup.apps /\ records[a] \in Seq(Record)
      /\ UNCHANGED <<setup, log, late, clock, logged>> /\ ~Writing(a)
  BY DEF Take, Queued, Typed, server, Writing
<1>2. CASE records[a] = <<>>
  <2>1. "waiting" \in Steps /\ <<>> \in Seq(Record) /\ Move(a, "waiting", <<>>, <<>>) /\ UNCHANGED records
    BY <1>2 DEF Take, Steps
  <2>2. /\ worker' \in [Apps -> [step : Steps, record : Record \cup {<<>>}, seen : Seq(Record)]]
        /\ worker'[a].step = "waiting"
        /\ \A b \in Apps \ {a} : worker'[b] = worker[b]
        /\ { worker'[b].seen : b \in Apps } \subseteq { worker[b].seen : b \in Apps } \cup {<<>>}
    BY <2>1, MoveFacts
  <2>3. \A b \in Apps : Writing(b)' => Writing(b) /\ worker'[b] = worker[b]
    BY <2>2 DEF Writing
  <2>4. Typed'
    BY <1>1, <2>1, <2>2, <2>3 DEF Typed
  <2>5. ASSUME NEW b \in Apps PROVE Queued(b)'
    BY <1>1, <2>1, <2>2, <2>3 DEF Queued
  <2>6. ASSUME NEW r \in Record, Past(r) PROVE Past(r)'
    <3>1. r.app \in Apps
      BY DEF Record
    <3> QED BY <1>1, <2>1, <2>3, <2>6, <3>1 DEF Past
  <2>7. (\A list \in Lists : Sound(list))'
    BY <1>1, <2>2, <2>6, ListsStay
  <2>8. Undisturbed'
    <3>1. ASSUME Alone, NEW b \in setup.apps, worker'[b].step = "writing" PROVE worker'[b].seen = log'
      <4>1. b \in Apps
        BY <3>1 DEF Alone
      <4>2. worker'[b] = worker[b]
        BY <2>3, <3>1, <4>1 DEF Writing
      <4> QED BY <1>1, <3>1, <4>2 DEF Undisturbed
    <3> QED BY <1>1, <3>1 DEF Undisturbed, Alone
  <2> QED BY <2>4, <2>5, <2>6, <2>7, <2>8 DEF PastStays
<1>3. CASE records[a] # <<>>
  <2> DEFINE head == Head(records[a])
  <2>1. /\ head \in Record /\ head = records[a][1] /\ 1 \in DOMAIN records[a]
        /\ Tail(records[a]) \in Seq(Record)
        /\ \A i \in DOMAIN Tail(records[a]) : i + 1 \in DOMAIN records[a] /\ Tail(records[a])[i] = records[a][i + 1]
    <3>1. /\ head \in Record /\ Tail(records[a]) \in Seq(Record)
          /\ Len(Tail(records[a])) = Len(records[a]) - 1
          /\ \A i \in 1..Len(Tail(records[a])) : Tail(records[a])[i] = records[a][i + 1]
      BY <1>1, <1>3, HeadTailProperties
    <3>2. Len(records[a]) \in Nat /\ Len(records[a]) > 0
      BY <1>1, <1>3
    <3> QED BY <1>1, <3>1, <3>2
  <2>2. "reading" \in Steps /\ <<>> \in Seq(Record) /\ Move(a, "reading", head, <<>>)
        /\ records' = [records EXCEPT ![a] = Tail(@)]
    BY <1>3 DEF Take, Steps
  <2>3. head.app = a /\ head.n \in Nat /\ head.n <= logged[a]
    <3>1. Queued(a)
      OBVIOUS
    <3> QED BY <2>1, <3>1 DEF Queued, Record
  <2> HIDE DEF head
  <2>4. /\ worker' \in [Apps -> [step : Steps, record : Record \cup {<<>>}, seen : Seq(Record)]]
        /\ worker'[a].step = "reading" /\ worker'[a].record = head
        /\ \A b \in Apps \ {a} : worker'[b] = worker[b]
        /\ { worker'[b].seen : b \in Apps } \subseteq { worker[b].seen : b \in Apps } \cup {<<>>}
    BY <2>1, <2>2, MoveFacts, ZenonT(60)
  <2>5. /\ records' \in [Apps -> Seq(Record)] /\ records'[a] = Tail(records[a])
        /\ \A b \in Apps \ {a} : records'[b] = records[b]
    BY <2>1, <2>2 DEF Typed
  <2>6. \A b \in Apps \ {a} : (Writing(b)' <=> Writing(b)) /\ worker'[b] = worker[b]
    BY <2>4 DEF Writing
  <2>7. \A i \in DOMAIN records'[a] : i + 1 \in DOMAIN records[a] /\ records'[a][i] = records[a][i + 1]
    BY <2>1, <2>5
  <2>8. Typed'
    BY <1>1, <2>1, <2>4, <2>5, <2>6 DEF Typed
  <2>9. \A i \in DOMAIN records'[a] : head.n < records'[a][i].n
    <3>1. ASSUME NEW i \in DOMAIN records'[a] PROVE 1 < i + 1
      BY <2>5, <2>1
    <3>2. Queued(a)
      OBVIOUS
    <3> QED BY <2>1, <2>7, <3>1, <3>2 DEF Queued
  <2>10. ASSUME NEW b \in Apps PROVE Queued(b)'
    <3>1. CASE b # a
      BY <1>1, <2>5, <2>6, <3>1 DEF Queued
    <3>2. CASE b = a
      <4>1. Queued(a)
        OBVIOUS
      <4>2. \A i \in DOMAIN records'[a] : records'[a][i].app = a /\ records'[a][i].n <= logged'[a]
        BY <1>1, <2>7, <4>1 DEF Queued
      <4>3. ASSUME NEW i \in DOMAIN records'[a], NEW j \in DOMAIN records'[a], i < j
            PROVE  records'[a][i].n < records'[a][j].n
        <5>1. i + 1 < j + 1
          BY <2>5, <2>1, <4>3
        <5> QED BY <2>7, <4>1, <5>1 DEF Queued
      <4> QED BY <1>1, <2>3, <2>4, <2>9, <3>2, <4>2, <4>3 DEF Queued
    <3> QED BY <3>1, <3>2
  <2>11. ASSUME NEW r \in Record, Past(r) PROVE Past(r)'
    <3>1. r.app \in Apps
      BY DEF Record
    <3>2. CASE r.app # a
      BY <1>1, <2>5, <2>6, <2>11, <3>1, <3>2 DEF Past
    <3>3. CASE r.app = a
      BY <1>1, <2>1, <2>4, <2>7, <2>11, <3>3 DEF Past
    <3> QED BY <3>2, <3>3
  <2>12. (\A list \in Lists : Sound(list))'
    BY <1>1, <2>4, <2>11, ListsStay
  <2>13. Undisturbed'
    <3>1. ASSUME Alone, NEW b \in setup.apps, worker'[b].step = "writing" PROVE worker'[b].seen = log'
      <4>1. b \in Apps
        BY <3>1 DEF Alone
      <4>2. worker'[b] = worker[b]
        BY <2>4, <3>1, <4>1
      <4> QED BY <1>1, <3>1, <4>2 DEF Undisturbed
    <3> QED BY <1>1, <3>1 DEF Undisturbed, Alone
  <2> QED BY <2>8, <2>10, <2>11, <2>12, <2>13 DEF PastStays
<1> QED BY <1>2, <1>3

LEMMA ReadLogKeeps ==
  ASSUME LogInv, NEW a \in Apps, ReadLog(a)
  PROVE  LogInv' /\ PastStays
<1> USE DEF LogInv
<1> DEFINE r == worker[a].record
<1>1. /\ worker[a].step = "reading" /\ Writing(a) /\ r \in Record /\ log \in Seq(Record) /\ "writing" \in Steps
      /\ Move(a, "writing", r, log) /\ UNCHANGED <<setup, log, late, clock, logged, records>>
  BY DEF ReadLog, Typed, Writing, Steps, server
<1>2. r \in Record \cup {<<>>}
  BY <1>1
<1> HIDE DEF r
<1>3. /\ worker' \in [Apps -> [step : Steps, record : Record \cup {<<>>}, seen : Seq(Record)]]
      /\ worker'[a].step = "writing" /\ worker'[a].record = r /\ worker'[a].seen = log
      /\ \A b \in Apps \ {a} : worker'[b] = worker[b]
      /\ { worker'[b].seen : b \in Apps } \subseteq { worker[b].seen : b \in Apps } \cup {log}
  BY <1>1, <1>2, MoveFacts
<1>4. \A b \in Apps : (Writing(b)' <=> Writing(b)) /\ worker'[b].record = worker[b].record
  BY <1>1, <1>3 DEF Writing, r
<1>5. Typed'
  BY <1>1, <1>3, <1>4 DEF Typed
<1>6. ASSUME NEW b \in Apps PROVE Queued(b)'
  <2>1. b \notin setup.apps => b # a
    BY <1>1 DEF Queued
  <2> QED BY <1>1, <1>3, <1>4, <2>1 DEF Queued
<1>7. ASSUME NEW e \in Record, Past(e) PROVE Past(e)'
  <2>1. e.app \in Apps
    BY DEF Record
  <2> QED BY <1>1, <1>4, <1>7, <2>1 DEF Past
<1>8. (\A list \in Lists : Sound(list))'
  <2>1. Sound(<<>>)'
    BY DEF Sound, InOrder
  <2>2. Lists' \subseteq Lists \cup {<<>>}
    BY <1>1, <1>3 DEF Lists
  <2> QED BY <1>7, <2>1, <2>2, ListsKeep
<1>9. Undisturbed'
  <2>1. ASSUME Alone, NEW b \in setup.apps, worker'[b].step = "writing" PROVE worker'[b].seen = log'
    <3>1. b \in Apps
      BY <2>1 DEF Alone
    <3> QED BY <1>1, <1>3, <2>1, <3>1 DEF Undisturbed
  <2> QED BY <1>1, <2>1 DEF Undisturbed, Alone
<1> QED BY <1>5, <1>6, <1>7, <1>8, <1>9 DEF PastStays

(* The list a worker writes back has what it has read, and its record.    *)
LEMMA NewListFacts ==
  ASSUME LogInv, NEW a \in Apps, Writing(a)
  PROVE  /\ NewList(a) \in Seq(Record) /\ InOrder(NewList(a))
         /\ Elements(NewList(a)) \subseteq Elements(worker[a].seen) \cup {worker[a].record}
         /\ \A i \in DOMAIN NewList(a) : /\ NewList(a)[i] \in Record
                                         /\ Past(NewList(a)[i]) \/ NewList(a)[i] = worker[a].record
<1> DEFINE r    == worker[a].record
           seen == worker[a].seen
<1>1. r \in Record /\ r.app = a /\ seen \in Seq(Record) /\ Sound(seen)
  BY DEF LogInv, Typed, Queued, Lists
<1>2. \A i \in DOMAIN seen : seen[i].app = r.app => seen[i].n < r.n
  BY <1>1 DEF Sound, Past
<1>3. NewList(a) = FromEnd(Append(seen, r), MaxLogs)
  BY DEF NewList
<1>4. InOrder(seen)
  BY <1>1 DEF Sound
<1> HIDE DEF r, seen
<1>5. /\ NewList(a) \in Seq(Record) /\ InOrder(NewList(a))
      /\ \A i \in DOMAIN NewList(a) : NewList(a)[i] \in Elements(seen) \cup {r}
  BY <1>1, <1>2, <1>3, <1>4, AppendInOrder, HotReloadLogAssumption
<1>6. ASSUME NEW e \in Elements(seen) PROVE e \in Record /\ Past(e)
  BY <1>1 DEF Elements, Sound
<1>7. Elements(NewList(a)) \subseteq Elements(seen) \cup {r}
  BY <1>5 DEF Elements
<1> QED BY <1>1, <1>5, <1>6, <1>7 DEF r, seen

LEMMA AppendKeeps ==
  ASSUME LogInv, NEW a \in Apps, WriteLog(a) \/ AppendFails(a) \/ Abandon(a)
  PROVE  LogInv' /\ PastStays
<1> USE DEF LogInv
<1>0. PICK step \in {"waiting", "ended"} : Move(a, step, <<>>, <<>>)
  BY DEF WriteLog, AppendFails, Abandon
<1>1. /\ Writing(a) /\ step \in Steps /\ <<>> \in Seq(Record) /\ Move(a, step, <<>>, <<>>)
      /\ UNCHANGED <<setup, clock, logged, records>>
  BY <1>0 DEF WriteLog, AppendFails, Abandon, Writing, Steps
<1>2. /\ log' \in {log, NewList(a)} /\ late' \in {late, late \cup {NewList(a)}}
      /\ late' = late \/ Cardinality(late') <= setup.late
  BY DEF WriteLog, AppendFails, Abandon, MayComeLate, server
<1>3. /\ worker' \in [Apps -> [step : Steps, record : Record \cup {<<>>}, seen : Seq(Record)]]
      /\ worker'[a].step = step
      /\ \A b \in Apps \ {a} : worker'[b] = worker[b]
      /\ { worker'[b].seen : b \in Apps } \subseteq { worker[b].seen : b \in Apps } \cup {<<>>}
  BY <1>1, MoveFacts
<1>4. ~Writing(a)' /\ \A b \in Apps : Writing(b)' => Writing(b) /\ worker'[b] = worker[b]
  BY <1>3 DEF Writing
<1>5. a \in setup.apps
  BY <1>1 DEF Queued, Writing
<1>6. Typed'
  <2>1. log' \in Seq(Record) /\ late' \subseteq Seq(Record)
    BY <1>1, <1>2, NewListFacts DEF Typed
  <2>2. IsFiniteSet(late')
    <3>1. IsFiniteSet(late)
      BY DEF Typed
    <3>2. IsFiniteSet(late \cup {NewList(a)})
      BY <3>1, FS_AddElement
    <3> QED BY <1>2, <3>1, <3>2
  <2> QED BY <1>1, <1>3, <1>4, <2>1, <2>2 DEF Typed
<1>7. ASSUME NEW b \in Apps PROVE Queued(b)'
  <2>1. b \notin setup.apps => b # a
    BY <1>5
  <2> QED BY <1>1, <1>3, <1>4, <2>1 DEF Queued
<1>8. ASSUME NEW r \in Record, Past(r) PROVE Past(r)'
  <2>1. r.app \in Apps
    BY DEF Record
  <2> QED BY <1>1, <1>4, <1>8, <2>1 DEF Past
<1>9. PICK own : own = worker[a].record
  OBVIOUS
<1>10. Past(own)'
  <2>1. Queued(a) /\ own.app = a
    BY <1>1, <1>9 DEF Queued
  <2> QED BY <1>1, <1>4, <1>5, <1>9, <2>1 DEF Queued, Past
<1>11. (\A list \in Lists : Sound(list))'
  <2>1. PICK new : new = NewList(a)
    OBVIOUS
  <2>2. /\ InOrder(new)
        /\ \A i \in DOMAIN new : new[i] \in Record /\ (Past(new[i]) \/ new[i] = own)
    BY <1>1, <1>9, <2>1, NewListFacts
  <2>3. Sound(new)'
    BY <1>8, <1>10, <2>2 DEF Sound, InOrder
  <2>4. Lists' \subseteq Lists \cup {new, <<>>}
    BY <1>2, <1>3, <2>1 DEF Lists
  <2>5. Sound(<<>>)'
    BY DEF Sound, InOrder
  <2>6. \A list \in Lists : Sound(list)'
    BY <1>8, StaysSound
  <2> QED BY <2>3, <2>4, <2>5, <2>6
<1>12. Undisturbed'
  <2>1. setup.late = 0 => late' = {}
    <3>1. ASSUME setup.late = 0, Cardinality(late') <= 0 PROVE late' = {}
      BY <1>6, <3>1, FS_EmptySet, FS_CardinalityType DEF Typed
    <3> QED BY <1>2, <3>1 DEF Undisturbed
  <2>2. ASSUME Alone, NEW b \in setup.apps PROVE worker'[b].step # "writing"
    BY <1>3, <1>5, <2>2 DEF Alone
  <2> QED BY <1>1, <2>1, <2>2 DEF Undisturbed, Alone
<1> QED BY <1>6, <1>7, <1>8, <1>11, <1>12 DEF PastStays

LEMMA LateWriteKeeps ==
  ASSUME LogInv, LateWrite
  PROVE  LogInv' /\ PastStays
<1> USE DEF LogInv
<1>1. PICK list \in late : log' = list /\ late' = late \ {list}
  BY DEF LateWrite
<1>2. UNCHANGED <<setup, clock, logged, records, worker>>
  BY DEF LateWrite
<1>3. Typed'
  <2>1. IsFiniteSet(late')
    BY <1>1, FS_RemoveElement DEF Typed
  <2> QED BY <1>1, <1>2, <2>1 DEF Typed, Writing
<1>4. \A a \in Apps : Queued(a)'
  BY <1>2 DEF Queued, Writing
<1>5. \A r \in Record : Past(r) => Past(r)'
  BY <1>2 DEF Past, Writing
<1>6. (\A l \in Lists : Sound(l))'
  <2>1. Sound(<<>>)'
    BY DEF Sound, InOrder
  <2>2. Lists' \subseteq Lists \cup {<<>>}
    BY <1>1, <1>2 DEF Lists
  <2> QED BY <1>5, <2>1, <2>2, ListsKeep
<1>7. Undisturbed'
  BY <1>1, <1>2 DEF Undisturbed, Alone
<1> QED BY <1>3, <1>4, <1>5, <1>6, <1>7 DEF PastStays

LEMMA LogNext == LogInv /\ [Next]_vars => LogInv' /\ PastStays
<1> SUFFICES ASSUME LogInv, [Next]_vars PROVE LogInv' /\ PastStays
  OBVIOUS
<1>1. ASSUME NEW a \in Apps, Log(a) \/ Close(a) \/ Work(a) \/ Abandon(a) PROVE LogInv' /\ PastStays
  <2>1. CASE Close(a)
    BY <2>1, OthersKeep DEF Close, server
  <2> QED BY <1>1, <2>1, LogKeeps, CheckStopKeeps, TakeKeeps, ReadLogKeeps, AppendKeeps DEF Work
<1>2. ASSUME NEW p \in Pages, Answer(p) \/ ShowAnswer(p) \/ Connect(p) \/ Round(p) \/ Break(p) PROVE LogInv' /\ PastStays
  <2>1. UNCHANGED <<setup, log, late, clock, logged, records, worker>>
    BY <1>2 DEF Answer, ShowAnswer, Connect, Round, Break, server
  <2> QED BY <2>1, OthersKeep
<1>3. CASE UNCHANGED vars
  BY <1>3, OthersKeep DEF vars, server
<1> QED BY <1>1, <1>2, <1>3, LateWriteKeeps DEF Next

(* The inductive invariant of the log. *)
THEOREM LogInvariant == Spec => []LogInv
BY LogInit, LogNext, PTL DEF Spec

(* Workers of several applications overwrite one another's lists, and     *)
(* lists are written late: still no list has two records of an            *)
(* application in the wrong order, or one twice.                          *)
THEOREM LogInOrderHolds == Spec => []LogInOrder
<1>1. LogInv => LogInOrder
  BY DEF LogInv, Lists, Sound, LogInOrder
<1> QED BY <1>1, LogInvariant, PTL

LEMMA LoneWriter ==
  ASSUME LogInv, Alone, NEW a \in Apps, worker[a].step = "writing"
  PROVE  a \in setup.apps /\ NewList(a) = FromEnd(Append(log, worker[a].record), MaxLogs)
BY DEF LogInv, Queued, Undisturbed, NewList

LEMMA LoneLogChanges ==
  ASSUME LogInv, [Next]_vars, Alone, log' # log
  PROVE  \E a \in setup.apps : log' = FromEnd(Append(log, worker[a].record), MaxLogs)
<1>1. late = {}
  BY DEF LogInv, Undisturbed, Alone
<1>2. PICK a \in Apps : WriteLog(a) \/ AppendFails(a) \/ Abandon(a)
  BY <1>1 DEF Next, vars, server, Log, Close, Work, CheckStop, Take, ReadLog, LateWrite,
              Answer, ShowAnswer, Connect, Round, Break
<1>3. worker[a].step = "writing" /\ log' = NewList(a)
  BY <1>2 DEF WriteLog, AppendFails, Abandon, server
<1> QED BY <1>3, LoneWriter

(* append_log reads the list and writes it back in two requests, but what *)
(* a lone application's worker writes is the list as it is, with a record *)
(* added: nothing comes between.                                          *)
THEOREM AppendsAtomicallyHolds == Spec => AppendsAtomically
<1>1. LogInv /\ [Next]_vars =>
        [Alone /\ log' # log =>
           \E a \in setup.apps : log' = FromEnd(Append(log, worker[a].record), MaxLogs)]_log
  BY LoneLogChanges
<1> QED BY <1>1, LogInvariant, PTL DEF Spec, AppendsAtomically

-----------------------------------------------------------------------------
(* No record of a lone application is lost silently. *)

Kept(a, n) ==
  \/ \E r \in reported \cup Elements(log) \cup Elements(records[a]) : r.n = n
  \/ Writing(a) /\ worker[a].record.n = n
  \/ log # <<>> /\ Len(log) = MaxLogs /\ n < Head(log).n

(* All but at most one are kept, and that one only when a worker was left *)
(* behind in a request.                                                   *)
AllBut(a, m) ==
  /\ worker[a].step = "ended" => closed[a]
  /\ worker[a].step # "ended" => m = 0
  /\ \A n \in 1..logged[a] : n = m \/ Kept(a, n)

NothingLost == Alone => \A a \in setup.apps : \E m \in 0..logged[a] : AllBut(a, m)

(* A record that is cut off is older than all that stay. *)
LEMMA TrimFacts ==
  ASSUME NEW list \in Seq(Record), NEW r \in Record, InOrder(list), MaxLogs \in Nat,
         \A i \in DOMAIN list : list[i].app = r.app /\ list[i].n < r.n,
         NEW new, new = FromEnd(Append(list, r), MaxLogs)
  PROVE  /\ r \in Elements(new)
         /\ \A e \in Elements(list) :
              e \in Elements(new) \/ (new # <<>> /\ Len(new) = MaxLogs /\ e.n < Head(new).n)
         /\ list # <<>> /\ Len(list) = MaxLogs =>
              new # <<>> /\ Len(new) = MaxLogs /\ Head(list).n < Head(new).n
<1> DEFINE long == Append(list, r)
<1>1. /\ long \in Seq(Record) /\ Len(long) = Len(list) + 1 /\ Len(list) \in Nat
      /\ \A i \in 1..Len(list) : long[i] = list[i]
      /\ long[Len(list) + 1] = r
  BY AppendProperties
<1>2. \A i, j \in 1..Len(long) : i < j => long[i].n < long[j].n
  BY <1>1 DEF InOrder
<1>3. new = FromEnd(long, MaxLogs)
  OBVIOUS
<1> HIDE DEF long
<1>4. CASE MaxLogs = 0 \/ Len(long) <= MaxLogs
  <2>1. new = long
    <3>1. MaxLogs = 0 \/ (MaxLogs > 0 /\ Len(long) <= MaxLogs)
      BY <1>1, <1>4
    <3> QED BY <1>1, <1>3, <3>1, FromEndFacts
  <2>2. r \in Elements(new) /\ \A e \in Elements(list) : e \in Elements(new)
    BY <1>1, <2>1 DEF Elements
  <2>3. ~(list # <<>> /\ Len(list) = MaxLogs)
    BY <1>1, <1>4
  <2> QED BY <2>2, <2>3
<1>5. CASE MaxLogs > 0 /\ Len(long) > MaxLogs
  <2> DEFINE d == Len(long) - MaxLogs
  <2>1. /\ new \in Seq(Record) /\ Len(new) = MaxLogs
        /\ \A i \in 1..MaxLogs : new[i] = long[i + d]
    <3>1. MaxLogs \in Int /\ long \in Seq(Record)
      BY <1>1
    <3>2. /\ FromEnd(long, MaxLogs) \in Seq(Record) /\ Len(FromEnd(long, MaxLogs)) = MaxLogs
          /\ \A i \in 1..MaxLogs : FromEnd(long, MaxLogs)[i] = long[i + (Len(long) - MaxLogs)]
      BY <1>5, <3>1, FromEndFacts
    <3> QED BY <1>3, <3>2
  <2>2. d \in Nat /\ d >= 1 /\ MaxLogs + d = Len(list) + 1 /\ \A i \in 1..MaxLogs : i + d \in 1..Len(long)
    BY <1>1, <1>5
  <2>3. DOMAIN new = 1..MaxLogs
    BY <2>1
  <2> HIDE DEF d
  <2>4. new # <<>> /\ Head(new) = long[1 + d]
    BY <1>5, <2>1
  <2>5. r \in Elements(new)
    <3>1. MaxLogs \in 1..MaxLogs /\ new[MaxLogs] = r
      BY <1>1, <1>5, <2>1, <2>2
    <3> QED BY <2>3, <3>1 DEF Elements
  <2>6. ASSUME NEW i \in 1..Len(list), i <= d PROVE list[i].n < Head(new).n
    <3>1. i < 1 + d /\ 1 + d \in 1..Len(long) /\ i \in 1..Len(long)
      BY <1>1, <1>5, <2>2, <2>6
    <3> QED BY <1>1, <1>2, <2>4, <3>1
  <2>7. ASSUME NEW i \in 1..Len(list), ~(i <= d) PROVE list[i] \in Elements(new)
    <3>1. i - d \in 1..MaxLogs /\ (i - d) + d = i
      BY <1>1, <2>2, <2>7
    <3>2. new[i - d] = list[i]
      BY <1>1, <2>1, <3>1
    <3> QED BY <2>3, <3>1, <3>2 DEF Elements
  <2>8. \A e \in Elements(list) : e \in Elements(new) \/ e.n < Head(new).n
    BY <2>6, <2>7 DEF Elements
  <2>9. ASSUME list # <<>> PROVE Head(list).n < Head(new).n
    <3>1. 1 \in 1..Len(list) /\ Head(list) = list[1]
      BY <1>1, <2>9
    <3> QED BY <2>2, <2>6, <3>1
  <2> QED BY <2>1, <2>4, <2>5, <2>8, <2>9
<1> QED BY <1>1, <1>4, <1>5

(* In the steps of an append every record keeps its excuse, except the one *)
(* whose worker is left behind.                                            *)
LEMMA AppendLosesNothing ==
  ASSUME LogInv, MaxLogs \in Nat, Alone, NEW a \in setup.apps, a \in Apps, setup.apps = {a},
         WriteLog(a) \/ AppendFails(a) \/ Abandon(a),
         NEW n \in Nat, Kept(a, n), Abandon(a) => worker[a].record.n # n
  PROVE  Kept(a, n)'
<1> DEFINE own == worker[a].record
<1>1. Writing(a) /\ UNCHANGED records /\ reported \subseteq reported'
  BY DEF WriteLog, AppendFails, Abandon, Writing
<1>2. own \in Record /\ own.app = a /\ log \in Seq(Record)
  BY <1>1 DEF LogInv, Typed, Queued
<1>3. InOrder(log) /\ \A i \in DOMAIN log : log[i].app = own.app /\ log[i].n < own.n
  BY <1>1, <1>2 DEF LogInv, Lists, Sound, Past
<1>4. CASE worker[a].step = "writing" /\ log' = NewList(a)
  <2>1. log' = FromEnd(Append(log, own), MaxLogs)
    BY <1>4, LoneWriter
  <2> HIDE DEF own
  <2>2. /\ own \in Elements(log')
        /\ \A e \in Elements(log) :
             e \in Elements(log') \/ (log' # <<>> /\ Len(log') = MaxLogs /\ e.n < Head(log').n)
        /\ log # <<>> /\ Len(log) = MaxLogs =>
             log' # <<>> /\ Len(log') = MaxLogs /\ Head(log).n < Head(log').n
    BY <1>2, <1>3, <2>1, TrimFacts
  <2>3. CASE \E r \in reported \cup Elements(log) \cup Elements(records[a]) : r.n = n
    BY <1>1, <2>2, <2>3 DEF Kept
  <2>4. CASE Writing(a) /\ own.n = n
    BY <2>2, <2>4 DEF Kept
  <2>5. CASE log # <<>> /\ Len(log) = MaxLogs /\ n < Head(log).n
    <3>1. Head(log) \in Record /\ log' \in Seq(Record) /\ log' # <<>> /\ Head(log').n > Head(log).n
      BY <1>2, <2>1, <2>2, <2>5, HeadTailProperties, AppendProperties, FromEndFacts, HotReloadLogAssumption
    <3>2. Head(log').n \in Nat /\ Head(log).n \in Nat
      <4>1. Head(log)' \in Record
        BY <3>1, HeadTailProperties
      <4>2. \A r \in Record : r.n \in Nat
        BY DEF Record
      <4> QED BY <3>1, <4>1, <4>2
    <3> QED BY <2>2, <2>5, <3>1, <3>2 DEF Kept
  <2> QED BY <2>3, <2>4, <2>5 DEF Kept, own
<1>5. CASE log' = log /\ (own \in reported' \/ own.n # n)
  BY <1>1, <1>5 DEF Kept
<1> QED BY <1>4, <1>5 DEF WriteLog, AppendFails, Abandon, server

LEMMA NothingLostInit == Init => NothingLost
<1> SUFFICES ASSUME Init, Alone, NEW a \in setup.apps PROVE \E m \in 0..logged[a] : AllBut(a, m)
  BY DEF NothingLost
<1>1. a \in Apps
  BY DEF Alone
<1>2. logged[a] = 0 /\ worker[a] = Idle
  BY <1>1 DEF Init
<1>3. Idle.step # "ended"
  BY DEF Idle
<1>4. AllBut(a, 0)
  BY <1>2, <1>3 DEF AllBut
<1> QED BY <1>2, <1>4

(* What is kept stays so while the worker of a lone application runs.      *)
LEMMA StepsLoseNothing ==
  ASSUME MaxLogs \in Nat, LogInv, [Next]_vars, Alone, NEW a \in Apps, setup.apps = {a}, ~Abandon(a),
         \A n \in 1..logged[a] : Kept(a, n), NEW n \in 1..logged'[a]
  PROVE  Kept(a, n)'
<1>1. \A k \in 1..logged[a] : Kept(a, k)
  OBVIOUS
<1>2. Alone /\ a \in Apps /\ setup.apps = {a} /\ a \in setup.apps /\ late = {}
  BY DEF Alone, LogInv, Undisturbed
<1>3. logged[a] \in Nat /\ records[a] \in Seq(Record) /\ (n \in 1..logged[a] => Kept(a, n))
  BY <1>1, <1>2 DEF LogInv, Typed
<1>4. CASE Log(a)
  <2> DEFINE record(ts) == [app |-> a, n |-> logged[a] + 1, ts |-> ts]
  <2>1. /\ logged' = [logged EXCEPT ![a] = @ + 1] /\ UNCHANGED <<log, late, worker>>
        /\ \E ts : \/ records' = [records EXCEPT ![a] = Append(@, record(ts))] /\ UNCHANGED reported
                   \/ reported' = reported \cup {record(ts)} /\ UNCHANGED records
    BY <1>4 DEF Log, server
  <2>2. PICK ts : \/ records' = [records EXCEPT ![a] = Append(@, record(ts))] /\ UNCHANGED reported
                  \/ reported' = reported \cup {record(ts)} /\ UNCHANGED records
    BY <2>1
  <2>3. record(ts).n = logged[a] + 1
    OBVIOUS
  <2>4. logged'[a] = logged[a] + 1 /\ (n \in 1..logged[a] \/ n = logged[a] + 1)
    BY <1>2, <1>3, <2>1 DEF LogInv, Typed
  <2> DEFINE r == record(ts)
  <2>5. /\ Elements(records[a]) \subseteq Elements(records'[a]) /\ reported \subseteq reported'
        /\ r \in Elements(records'[a]) \cup reported'
    <3> HIDE DEF record
    <3>1. CASE records' = [records EXCEPT ![a] = Append(@, r)] /\ UNCHANGED reported
      <4>1. records'[a] = Append(records[a], r)
        BY <1>2, <3>1 DEF LogInv, Typed
      <4>2. /\ DOMAIN records[a] \subseteq DOMAIN records'[a] /\ Len(records[a]) + 1 \in DOMAIN records'[a]
            /\ \A i \in DOMAIN records[a] : records'[a][i] = records[a][i]
            /\ records'[a][Len(records[a]) + 1] = r
        BY <1>3, <4>1
      <4> QED BY <3>1, <4>2 DEF Elements
    <3>2. CASE reported' = reported \cup {r} /\ UNCHANGED records
      BY <3>2
    <3> QED BY <2>2, <3>1, <3>2
  <2> HIDE DEF record
  <2> QED BY <1>3, <2>1, <2>3, <2>4, <2>5 DEF Kept, Writing
<1>5. CASE CheckStop(a)
  BY <1>3, <1>5 DEF CheckStop, Kept, Writing, server
<1>6. CASE Take(a)
  <2>1. worker[a].step = "getting" /\ UNCHANGED <<log, late, logged, reported>>
    BY <1>6 DEF Take, server
  <2>2. CASE records[a] = <<>> /\ UNCHANGED records
    BY <1>3, <2>1, <2>2 DEF Kept, Writing
  <2>3. CASE records[a] # <<>> /\ Move(a, "reading", Head(records[a]), <<>>) /\ records' = [records EXCEPT ![a] = Tail(@)]
    <3> DEFINE head == Head(records[a])
    <3>1. head = records[a][1] /\ worker'[a].step = "reading" /\ worker'[a].record = head
          /\ records'[a] = Tail(records[a])
      <4>1. worker'[a] = [step |-> "reading", record |-> head, seen |-> <<>>] /\ records'[a] = Tail(records[a])
        BY <1>2, <2>3 DEF LogInv, Typed, Move
      <4> QED BY <1>3, <2>3, <4>1
    <3>2. ASSUME NEW i \in DOMAIN records[a], i # 1 PROVE records[a][i] \in Elements(records'[a])
      <4>1. i - 1 \in 1..Len(Tail(records[a])) /\ (i - 1) + 1 = i
        BY <1>3, <2>3, <3>2
      <4>2. Tail(records[a])[i - 1] = records[a][i] /\ Tail(records[a]) \in Seq(Record)
        BY <1>3, <2>3, <4>1, HeadTailProperties
      <4> QED BY <3>1, <4>1, <4>2 DEF Elements
    <3>3. \A r \in Elements(records[a]) : r = head \/ r \in Elements(records'[a])
      BY <3>1, <3>2 DEF Elements
    <3> HIDE DEF head
    <3>4. Writing(a)'
      BY <3>1 DEF Writing
    <3>5. n \in 1..logged[a] /\ Kept(a, n) /\ ~Writing(a)
      BY <1>3, <2>1 DEF Writing
    <3> QED BY <2>1, <3>1, <3>3, <3>4, <3>5 DEF Kept
  <2> QED BY <1>6, <2>2, <2>3 DEF Take
<1>7. CASE ReadLog(a)
  <2>1. Writing(a) /\ Move(a, "writing", worker[a].record, log)
        /\ UNCHANGED <<log, late, logged, reported, records>>
    BY <1>7 DEF ReadLog, Writing, server
  <2>2. worker'[a] = [step |-> "writing", record |-> worker[a].record, seen |-> log]
    BY <1>2, <2>1 DEF LogInv, Typed, Move
  <2>3. Writing(a)' /\ worker'[a].record = worker[a].record
    BY <2>2 DEF Writing
  <2> QED BY <1>3, <2>1, <2>3 DEF Kept
<1>8. CASE WriteLog(a) \/ AppendFails(a)
  <2>1. logged' = logged
    BY <1>8 DEF WriteLog, AppendFails
  <2>2. n \in Nat /\ Kept(a, n)
    BY <1>3, <2>1
  <2> QED BY <1>2, <1>8, <2>2, AppendLosesNothing
<1>9. CASE UNCHANGED <<log, late, logged, records, worker, reported>>
  BY <1>3, <1>9 DEF Kept, Writing
<1>10. \A b \in Apps \ {a} : ~Log(b) /\ ~Work(b) /\ ~Abandon(b)
  BY <1>2 DEF LogInv, Queued, Log, Work, CheckStop, Take, ReadLog, WriteLog, AppendFails, Abandon
<1>11. \A b \in Apps : Close(b) => UNCHANGED <<log, late, logged, records, worker, reported>>
  BY DEF Close, server
<1>12. \A p \in Pages : Answer(p) \/ ShowAnswer(p) \/ Connect(p) \/ Round(p) \/ Break(p)
                          => UNCHANGED <<log, late, logged, records, worker, reported>>
  BY DEF Answer, ShowAnswer, Connect, Round, Break, server
<1>13. ~LateWrite
  BY <1>2 DEF LateWrite
<1> QED BY <1>4, <1>5, <1>6, <1>7, <1>8, <1>9, <1>10, <1>11, <1>12, <1>13 DEF Next, Work, vars, server

LEMMA NothingLostNext ==
  MaxLogs \in Nat /\ LogInv /\ NothingLost /\ [Next]_vars => NothingLost'
<1> SUFFICES ASSUME MaxLogs \in Nat, LogInv, NothingLost, [Next]_vars, Alone', NEW a \in setup'.apps
             PROVE  \E m \in 0..logged'[a] : AllBut(a, m)'
  BY DEF NothingLost
<1>1. setup' = setup
  BY DEF Next, vars, server, Log, Close, Work, CheckStop, Take, ReadLog, WriteLog, AppendFails, Abandon, LateWrite,
         Answer, ShowAnswer, Connect, Round, Break
<1>2. Alone /\ a \in Apps /\ setup.apps = {a} /\ late = {}
  BY <1>1 DEF Alone, LogInv, Undisturbed
<1>3. PICK m \in 0..logged[a] : AllBut(a, m)
  BY <1>2 DEF NothingLost
<1>4. logged[a] \in Nat /\ logged'[a] \in Nat
  <2>1. logged' \in [Apps -> 0..MaxRecords]
    BY LogNext DEF LogInv, Typed
  <2> QED BY <1>2, <2>1 DEF LogInv, Typed
<1>5. \A b \in Apps \ {a} : ~Log(b) /\ ~Work(b) /\ ~Abandon(b)
  BY <1>2 DEF LogInv, Queued, Log, Work, CheckStop, Take, ReadLog, WriteLog, AppendFails, Abandon
<1>6. ~LateWrite
  BY <1>2 DEF LateWrite
<1>7. CASE worker[a].step = "ended"
  <2>1. closed[a]
    BY <1>3, <1>7 DEF AllBut
  <2>2. ~Log(a) /\ ~Close(a) /\ ~Work(a) /\ ~Abandon(a)
    BY <1>7, <2>1 DEF Log, Close, Work, CheckStop, Take, ReadLog, WriteLog, AppendFails, Abandon
  <2>3. UNCHANGED <<log, logged, records, worker, reported, closed>> \/ \E b \in Apps \ {a} : Close(b)
    BY <1>5, <1>6, <2>2 DEF Next, vars, server, Answer, ShowAnswer, Connect, Round, Break
  <2>4. UNCHANGED <<log, logged, records, worker, reported>> /\ (closed[a] => closed'[a])
    BY <1>2, <2>1, <2>3 DEF Close, server
  <2>5. AllBut(a, m)'
    BY <1>3, <1>7, <2>1, <2>4 DEF AllBut, Kept, Writing
  <2> QED BY <2>4, <2>5
<1>8. CASE worker[a].step # "ended" /\ ~Abandon(a)
  <2>1. \A n \in 1..logged[a] : Kept(a, n)
    BY <1>3, <1>4, <1>8 DEF AllBut
  <2>2. \A n \in 1..logged'[a] : Kept(a, n)'
    BY <1>2, <1>8, <2>1, StepsLoseNothing
  <2>3. worker'[a].step = "ended" => closed'[a]
    <3>1. CASE UNCHANGED worker
      BY <1>8, <3>1
    <3>2. ASSUME Work(a) PROVE worker'[a].step = "ended" => closed'[a]
      BY <1>2, <3>2 DEF LogInv, Typed, Move, Work, CheckStop, Take, ReadLog, WriteLog, AppendFails
    <3>3. UNCHANGED worker \/ Work(a)
      BY <1>5, <1>6, <1>8 DEF Next, vars, Log, Close, Answer, ShowAnswer, Connect, Round, Break
    <3> QED BY <3>1, <3>2, <3>3
  <2>4. 0 \in 0..logged'[a]
    BY <1>4
  <2>5. AllBut(a, 0)'
    BY <2>2, <2>3 DEF AllBut
  <2> QED BY <2>4, <2>5
<1>9. CASE Abandon(a)
  <2>1. /\ Writing(a) /\ closed[a] /\ UNCHANGED <<closed, logged>> /\ worker[a].step # "ended"
        /\ Move(a, "ended", <<>>, <<>>)
    BY <1>9 DEF Abandon, Writing
  <2>2. PICK own : own = worker[a].record.n
    OBVIOUS
  <2>3. own \in 0..logged'[a]
    <3>1. worker[a].record \in Record /\ worker[a].record.n <= logged[a]
      BY <1>2, <2>1 DEF LogInv, Typed, Queued
    <3>2. worker[a].record.n \in Nat
      BY <3>1 DEF Record
    <3> QED BY <1>4, <2>1, <2>2, <3>1, <3>2
  <2>4. ASSUME NEW n \in 1..logged'[a], n # own PROVE Kept(a, n)'
    <3>1. n \in 1..logged[a] /\ n \in Nat
      BY <1>4, <2>1
    <3>2. Kept(a, n)
      BY <1>3, <1>4, <2>1, <3>1 DEF AllBut
    <3> QED BY <1>2, <1>9, <2>2, <2>4, <3>1, <3>2, AppendLosesNothing
  <2>5. AllBut(a, own)'
    <3>1. worker'[a].step = "ended"
      BY <1>2, <2>1 DEF LogInv, Typed, Move
    <3> QED BY <2>1, <2>4, <3>1 DEF AllBut
  <2> QED BY <2>3, <2>5
<1> QED BY <1>7, <1>8, <1>9

(* While the worker of a lone application runs, every record is queued,   *)
(* being written, in the list, older than a full list, or was reported.   *)
(* When it has ended the application has been closed, and all but one of  *)
(* those that are nowhere were left in the queue.  For a negative         *)
(* --max-logs this is false: the slice then drops the first records of    *)
(* any list.                                                              *)
THEOREM NoSilentLossHolds ==
  ASSUME MaxLogs \in Nat
  PROVE  Spec => []NoSilentLoss
<1>1. LogInv /\ NothingLost => NoSilentLoss
  <2> SUFFICES ASSUME LogInv, NothingLost, Alone, NEW a \in setup.apps
               PROVE  IF worker[a].step # "ended"
                      THEN \A n \in Missing(a) \ InQueue(a) :
                             worker[a].record # <<>> /\ worker[a].record.n = n
                      ELSE closed[a] /\ \E n \in 0..logged[a] : Missing(a) \subseteq InQueue(a) \cup {n}
    BY Zenon DEF NoSilentLoss
  <2>1. a \in Apps
    BY DEF Alone
  <2>2. PICK m \in 0..logged[a] : AllBut(a, m)
    BY DEF NothingLost
  <2>3. \A r \in Record : r # <<>>
    <3>1. \A r \in Record : DOMAIN r = {"app", "n", "ts"}
      BY DEF Record
    <3>2. DOMAIN <<>> = {}
      OBVIOUS
    <3> QED BY <3>1, <3>2
  <2>4. Writing(a) => worker[a].record # <<>>
    BY <2>1, <2>3 DEF LogInv, Typed
  <2>5. ASSUME NEW n \in Missing(a), n \notin InQueue(a), n # m
        PROVE  Writing(a) /\ worker[a].record.n = n
    <3>1. n \in 1..logged[a] /\ Kept(a, n)
      BY <2>2, <2>5 DEF Missing, AllBut
    <3> QED BY <2>5, <3>1 DEF Kept, Missing, InQueue
  <2>6. CASE worker[a].step # "ended"
    <3>1. m = 0 /\ logged[a] \in Nat
      BY <2>1, <2>2, <2>6 DEF AllBut, LogInv, Typed
    <3>2. \A n \in Missing(a) : n # m
      BY <3>1 DEF Missing
    <3> QED BY <2>4, <2>5, <2>6, <3>2
  <2>7. CASE worker[a].step = "ended"
    <3>1. closed[a] /\ ~Writing(a)
      BY <2>2, <2>7 DEF AllBut, Writing
    <3> QED BY <2>2, <2>5, <2>7, <3>1
  <2> QED BY <2>6, <2>7
<1>2. Init => NothingLost
  BY NothingLostInit
<1>3. LogInv /\ NothingLost /\ [Next]_vars => NothingLost'
  BY NothingLostNext
<1> QED BY <1>1, <1>2, <1>3, LogInvariant, PTL DEF Spec

-----------------------------------------------------------------------------
(* What a page shows, and what a stream sends. *)

LEMMA Smallest ==
  ASSUME NEW T \in SUBSET Nat, T # {}
  PROVE  \E x \in T : \A y \in T : x <= y
<1>1. PICK x \in T : \A y \in T : ~(<<y, x>> \in OpToRel(<, Nat))
  BY NatLessThanWellFounded, WFMin
<1>2. ASSUME NEW y \in T, y < x PROVE FALSE
  <2>1. <<y, x>> \in OpToRel(<, Nat)
    BY <1>2 DEF OpToRel
  <2> QED BY <1>1, <2>1
<1>3. \A y \in T : x <= y
  BY <1>2
<1> QED BY <1>3

LEMMA Induction ==
  ASSUME NEW n \in Nat, NEW P, 0 \in P, \A i \in 1..n : i - 1 \in P => i \in P
  PROVE  \A i \in 0..n : i \in P
<1> DEFINE T == { i \in 0..n : i \notin P }
<1> SUFFICES ASSUME T # {} PROVE FALSE
  OBVIOUS
<1>1. PICK i \in T : \A j \in T : i <= j
  <2>1. T \in SUBSET Nat
    OBVIOUS
  <2> HIDE DEF T
  <2> QED BY <2>1, Smallest
<1>2. i \in 1..n
  BY <1>1
<1>3. i - 1 \in 0..n /\ i - 1 \notin T
  BY <1>1, <1>2
<1> QED BY <1>1, <1>2, <1>3

(* A list can be gone through step by step.                               *)
Follows(f, n, start, next) == f = [i \in 0..n |-> IF i = 0 THEN start ELSE next[<<f[i - 1], i>>]]

LEMMA Stepwise ==
  ASSUME NEW S, NEW n \in Nat, NEW start \in S, NEW next \in [S \X (1..n) -> S]
  PROVE  \E f \in [0..n -> S] : Follows(f, n, start, next)
<1> DEFINE Table(f, k) ==
             /\ f \in [0..k -> S]
             /\ \A i \in 0..k : f[i] = IF i = 0 THEN start ELSE next[<<f[i - 1], i>>]
           P == { k \in Nat : \E f : Table(f, k) }
<1>1. Table([i \in 0..0 |-> start], 0)
  OBVIOUS
<1>2. ASSUME NEW k \in 1..n, NEW g, Table(g, k - 1) PROVE \E f : Table(f, k)
  <2> DEFINE f == [i \in 0..k |-> IF i = k THEN next[<<g[k - 1], k>>] ELSE g[i]]
  <2>1. /\ k - 1 \in 0..k - 1 /\ k \in 0..k /\ k # 0
        /\ \A i \in 0..k : i # k => i \in 0..k - 1
        /\ \A i \in 0..k : i # 0 => i - 1 \in 0..k - 1 /\ i - 1 \in 0..k /\ i - 1 # k
    OBVIOUS
  <2>2. g[k - 1] \in S /\ next[<<g[k - 1], k>>] \in S
    BY <1>2, <2>1
  <2>3. f \in [0..k -> S]
    BY <1>2, <2>1, <2>2
  <2>4. ASSUME NEW i \in 0..k PROVE f[i] = IF i = 0 THEN start ELSE next[<<f[i - 1], i>>]
    <3>1. i # 0 => f[i - 1] = g[i - 1]
      BY <2>1
    <3>2. CASE i = k
      <4>1. f[i] = next[<<g[k - 1], k>>]
        BY <3>2
      <4> QED BY <2>1, <3>1, <3>2, <4>1
    <3>3. CASE i # k
      <4>1. f[i] = g[i] /\ i \in 0..k - 1
        BY <2>1, <3>3
      <4>2. g[i] = IF i = 0 THEN start ELSE next[<<g[i - 1], i>>]
        BY <1>2, <4>1
      <4> QED BY <3>1, <4>1, <4>2
    <3> QED BY <3>2, <3>3
  <2>5. Table(f, k)
    BY <2>3, <2>4
  <2> HIDE DEF f, Table
  <2> QED BY <2>5
<1> HIDE DEF Table
<1>3. \A k \in 0..n : k \in P
  <2>1. 0 \in P
    BY <1>1
  <2>2. \A k \in 1..n : k - 1 \in P => k \in P
    BY <1>2
  <2> HIDE DEF P
  <2> QED BY <2>1, <2>2, Induction
<1>4. PICK f : Table(f, n)
  <2>1. n \in P
    BY <1>3
  <2> QED BY <2>1
<1> USE DEF Table
<1>5. f \in [0..n -> S] /\ f = [i \in 0..n |-> f[i]]
  BY <1>4
<1>6. Follows(f, n, start, next)
  BY <1>4, <1>5 DEF Follows
<1> QED BY <1>5, <1>6, Zenon

LEMMA ElementsOf ==
  ASSUME NEW s \in Seq(Record), NEW r \in Record
  PROVE  /\ Elements(s) \subseteq Record
         /\ Append(s, r) \in Seq(Record)
         /\ Elements(Append(s, r)) = Elements(s) \cup {r}
<1>1. /\ Append(s, r) \in Seq(Record) /\ Len(Append(s, r)) = Len(s) + 1
      /\ \A i \in 1..Len(s) : Append(s, r)[i] = s[i]
      /\ Append(s, r)[Len(s) + 1] = r
  BY AppendProperties
<1>2. Elements(s) \subseteq Record
  BY DEF Elements
<1>3. \A x : x \in Elements(Append(s, r)) => x \in Elements(s) \cup {r}
  BY <1>1 DEF Elements
<1>4. \A x : x \in Elements(s) \cup {r} => x \in Elements(Append(s, r))
  BY <1>1 DEF Elements
<1> QED BY <1>1, <1>2, <1>3, <1>4

(* A page keeps what it shows, and then shows the like of all it is given. *)
Like(s, r) == s.ts = r.ts /\ s.n = r.n

LEMMA RenderFacts ==
  ASSUME NEW shown \in Seq(Record), NEW r \in Record
  PROVE  /\ Render(shown, r) \in Seq(Record)
         /\ Elements(shown) \subseteq Elements(Render(shown, r))
         /\ Elements(Render(shown, r)) \subseteq Elements(shown) \cup {r}
         /\ \E s \in Elements(Render(shown, r)) : Like(s, r)
<1>1. CASE \E i \in DOMAIN shown : shown[i].ts = r.ts /\ shown[i].n = r.n
  <2>1. Render(shown, r) = shown
    BY <1>1 DEF Render
  <2>2. \E s \in Elements(shown) : Like(s, r)
    BY <1>1, Zenon DEF Elements, Like
  <2> QED BY <2>1, <2>2
<1>2. CASE ~\E i \in DOMAIN shown : shown[i].ts = r.ts /\ shown[i].n = r.n
  <2>1. Render(shown, r) = Append(shown, r)
    BY <1>2, Zenon DEF Render
  <2>2. Like(r, r)
    BY DEF Like
  <2> QED BY <2>1, <2>2, ElementsOf
<1> QED BY <1>1, <1>2

LEMMA RenderedIs ==
  ASSUME NEW shown \in Seq(Record), NEW rs \in Seq(Record)
  PROVE  \E f : /\ f[0] = shown /\ Rendered(shown, rs) = f[Len(rs)]
               /\ \A i \in 1..Len(rs) : f[i] = Render(f[i - 1], rs[i])
<1> DEFINE n == Len(rs)
           S == Seq(Record)
           Is(f) == f = [i \in 0..n |-> IF i = 0 THEN shown ELSE Render(f[i - 1], rs[i])]
           next == [x \in S \X (1..n) |-> Render(x[1], rs[x[2]])]
<1>1. n \in Nat /\ 0 \in 0..n /\ n \in 0..n
  OBVIOUS
<1>2. next \in [S \X (1..n) -> S]
  <2>1. ASSUME NEW x \in S \X (1..n) PROVE Render(x[1], rs[x[2]]) \in S
    <3>1. x[1] \in Seq(Record) /\ rs[x[2]] \in Record
      OBVIOUS
    <3> QED BY <3>1, RenderFacts
  <2> QED BY <2>1
<1>3. PICK g \in [0..n -> S] : Follows(g, n, shown, next)
  <2>1. shown \in S
    OBVIOUS
  <2> HIDE DEF next, n, S, Is
  <2> QED BY <1>1, <1>2, <2>1, Stepwise
<1>4. Is(g)
  <2>1. ASSUME NEW i \in 0..n, i # 0 PROVE next[<<g[i - 1], i>>] = Render(g[i - 1], rs[i])
    <3>1. i \in 1..n /\ i - 1 \in 0..n
      BY <1>1, <2>1
    <3>2. <<g[i - 1], i>> \in S \X (1..n)
      BY <3>1
    <3> QED BY <3>2
  <2> HIDE DEF next
  <2> QED BY <1>3, <2>1, Zenon DEF Follows
<1> DEFINE f == CHOOSE h : Is(h)
<1>5. Is(f)
  <2> HIDE DEF Is
  <2> QED BY <1>4
<1>6. Rendered(shown, rs) = f[n]
  BY DEF Rendered
<1> HIDE DEF f
<1>7. \A i \in 1..n : i \in 0..n /\ i # 0
  BY <1>1
<1>8. f[0] = shown /\ \A i \in 1..n : f[i] = Render(f[i - 1], rs[i])
  BY <1>1, <1>5, <1>7
<1> QED BY <1>6, <1>8

LEMMA RenderedFacts ==
  ASSUME NEW shown \in Seq(Record), NEW rs \in Seq(Record)
  PROVE  /\ Rendered(shown, rs) \in Seq(Record)
         /\ Elements(shown) \subseteq Elements(Rendered(shown, rs))
         /\ Elements(Rendered(shown, rs)) \subseteq Elements(shown) \cup Elements(rs)
         /\ \A r \in Elements(rs) : \E s \in Elements(Rendered(shown, rs)) : Like(s, r)
<1> DEFINE n == Len(rs)
<1>1. PICK f :
        /\ f[0] = shown /\ Rendered(shown, rs) = f[n]
        /\ \A i \in 1..n : f[i] = Render(f[i - 1], rs[i])
  BY RenderedIs
<1>2. n \in Nat /\ 0 \in 0..n /\ n \in 0..n /\ DOMAIN rs = 1..n
  OBVIOUS
<1> HIDE DEF n
<1> DEFINE P == { k \in 0..n :
             /\ f[k] \in Seq(Record)
             /\ Elements(shown) \subseteq Elements(f[k])
             /\ Elements(f[k]) \subseteq Elements(shown) \cup Elements(rs)
             /\ \A j \in 1..k : \E s \in Elements(f[k]) : Like(s, rs[j]) }
<1>3. 0 \in P
  <2>1. 1..0 = {}
    OBVIOUS
  <2> QED BY <1>1, <1>2, <2>1
<1>4. ASSUME NEW k \in 1..n, k - 1 \in P PROVE k \in P
  <2>1. k - 1 \in 0..n /\ k \in 0..n /\ k \in DOMAIN rs
    BY <1>2
  <2>2. f[k - 1] \in Seq(Record) /\ rs[k] \in Record /\ rs[k] \in Elements(rs)
    BY <1>4, <2>1 DEF Elements
  <2>3. f[k] = Render(f[k - 1], rs[k])
    BY <1>1
  <2>4. /\ f[k] \in Seq(Record)
        /\ Elements(f[k - 1]) \subseteq Elements(f[k])
        /\ Elements(f[k]) \subseteq Elements(f[k - 1]) \cup {rs[k]}
        /\ \E s \in Elements(f[k]) : Like(s, rs[k])
    <3> HIDE DEF P
    <3>1. PICK new : new = Render(f[k - 1], rs[k])
      OBVIOUS
    <3>2. /\ new \in Seq(Record) /\ Elements(f[k - 1]) \subseteq Elements(new)
          /\ Elements(new) \subseteq Elements(f[k - 1]) \cup {rs[k]}
          /\ \E s \in Elements(new) : Like(s, rs[k])
      BY <2>2, <3>1, RenderFacts, Zenon
    <3> QED BY <2>3, <3>1, <3>2, Zenon
  <2>5. /\ Elements(shown) \subseteq Elements(f[k - 1])
        /\ Elements(f[k - 1]) \subseteq Elements(shown) \cup Elements(rs)
        /\ \A j \in 1..k - 1 : \E s \in Elements(f[k - 1]) : Like(s, rs[j])
    BY <1>4
  <2>6. ASSUME NEW j \in 1..k PROVE \E s \in Elements(f[k]) : Like(s, rs[j])
    <3>1. CASE j = k
      BY <2>4, <3>1
    <3>2. CASE j # k
      <4>1. j \in 1..k - 1
        BY <3>2
      <4> QED BY <2>4, <2>5, <4>1
    <3> QED BY <3>1, <3>2
  <2> QED BY <2>1, <2>2, <2>4, <2>5, <2>6
<1>5. n \in P
  <2> HIDE DEF P
  <2> QED BY <1>2, <1>3, <1>4, Induction
<1>6. ASSUME NEW r \in Elements(rs) PROVE \E s \in Elements(f[n]) : Like(s, r)
  <2>1. PICK j \in 1..n : r = rs[j]
    BY <1>2 DEF Elements
  <2> QED BY <1>5, <2>1
<1> QED BY <1>1, <1>5, <1>6

(* The time a stream has reached is one of a record, and the latest.       *)
Latest(t, rs, from) ==
  /\ t \in {from} \cup { r.ts : r \in Elements(rs) }
  /\ from <= t /\ \A r \in Elements(rs) : r.ts <= t

LEMMA LastTimeIs ==
  ASSUME NEW rs \in Seq(Record), NEW from \in Nat, NEW bound \in Nat,
         from <= bound, \A r \in Elements(rs) : r.ts <= bound
  PROVE  LastTime(rs, from) \in Nat /\ Latest(LastTime(rs, from), rs, from)
<1> DEFINE S == {from} \cup { rs[i].ts : i \in DOMAIN rs }
           T == { t \in Nat : from <= t /\ \A i \in DOMAIN rs : rs[i].ts <= t }
<1>1. S = {from} \cup { r.ts : r \in Elements(rs) }
  BY DEF Elements
<1>2. \A i \in DOMAIN rs : rs[i] \in Elements(rs) /\ rs[i] \in Record /\ rs[i].ts \in Nat
  <2>1. \A r \in Record : r.ts \in Nat
    BY DEF Record
  <2>2. \A i \in DOMAIN rs : rs[i] \in Record
    OBVIOUS
  <2>3. \A i \in DOMAIN rs : rs[i] \in Elements(rs)
    BY Zenon DEF Elements
  <2> QED BY <2>1, <2>2, <2>3, Zenon
<1>3. S \subseteq Nat
  BY <1>2
<1>4. PICK t \in T : \A u \in T : t <= u
  <2>1. bound \in T
    BY <1>2
  <2>2. T \in SUBSET Nat /\ T # {}
    BY <2>1
  <2> HIDE DEF T
  <2> QED BY <2>2, Smallest
<1>5. t \in S
  <2> SUFFICES ASSUME t \notin S PROVE FALSE
    OBVIOUS
  <2>1. t # from /\ \A i \in DOMAIN rs : rs[i].ts # t
    OBVIOUS
  <2>2. t \in Nat /\ t # 0 /\ t - 1 \in Nat /\ from <= t - 1
    BY <1>4, <2>1
  <2>3. \A i \in DOMAIN rs : rs[i].ts <= t - 1
    BY <1>2, <1>4, <2>1
  <2>4. t - 1 \in T
    BY <2>2, <2>3
  <2>5. t <= t - 1
    BY <1>4, <2>4
  <2> QED BY <2>2, <2>5
<1> DEFINE Best(x) == from <= x /\ \A i \in DOMAIN rs : rs[i].ts <= x
<1>6. LastTime(rs, from) \in S /\ Best(LastTime(rs, from))
  <2>1. t \in S /\ Best(t)
    BY <1>4, <1>5
  <2>2. LastTime(rs, from) = CHOOSE x \in S : Best(x)
    BY DEF LastTime
  <2> HIDE DEF S, Best
  <2> QED BY <2>1, <2>2
<1>7. \A r \in Elements(rs) : r.ts <= LastTime(rs, from)
  <2> HIDE DEF S
  <2> QED BY <1>6 DEF Elements
<1> QED BY <1>1, <1>3, <1>6, <1>7 DEF Latest

LEMMA NewsIs ==
  ASSUME NEW last, NEW rs \in Seq(Record)
  PROVE  \E f : /\ f[0] = <<>> /\ News(rs, last) = f[Len(rs)]
               /\ \A i \in 1..Len(rs) : f[i] = Newer(f[i - 1], rs[i], last)
<1> DEFINE n == Len(rs)
           S == Seq(Record)
           Is(f) == f = [i \in 0..n |-> IF i = 0 THEN <<>> ELSE Newer(f[i - 1], rs[i], last)]
           next == [x \in S \X (1..n) |-> Newer(x[1], rs[x[2]], last)]
<1>1. n \in Nat /\ 0 \in 0..n /\ n \in 0..n
  OBVIOUS
<1>2. next \in [S \X (1..n) -> S]
  <2>1. ASSUME NEW x \in S \X (1..n) PROVE Newer(x[1], rs[x[2]], last) \in S
    <3>1. x[1] \in Seq(Record) /\ rs[x[2]] \in Record
      OBVIOUS
    <3> QED BY <3>1, ElementsOf DEF Newer
  <2> QED BY <2>1
<1>3. PICK g \in [0..n -> S] : Follows(g, n, <<>>, next)
  <2>1. <<>> \in S
    OBVIOUS
  <2> HIDE DEF next, n, S, Is
  <2> QED BY <1>1, <1>2, <2>1, Stepwise
<1>4. Is(g)
  <2>1. ASSUME NEW i \in 0..n, i # 0 PROVE next[<<g[i - 1], i>>] = Newer(g[i - 1], rs[i], last)
    <3>1. i \in 1..n /\ i - 1 \in 0..n
      BY <1>1, <2>1
    <3>2. <<g[i - 1], i>> \in S \X (1..n)
      BY <3>1
    <3> QED BY <3>2
  <2> HIDE DEF next
  <2> QED BY <1>3, <2>1, Zenon DEF Follows
<1> DEFINE f == CHOOSE h : Is(h)
<1>5. Is(f)
  <2> HIDE DEF Is
  <2> QED BY <1>4
<1>6. News(rs, last) = f[n]
  BY DEF News
<1> HIDE DEF f
<1>7. \A i \in 1..n : i \in 0..n /\ i # 0
  BY <1>1
<1>8. f[0] = <<>> /\ \A i \in 1..n : f[i] = Newer(f[i - 1], rs[i], last)
  BY <1>1, <1>5, <1>7
<1> QED BY <1>6, <1>8

(* A stream sends a record of the latest time there is, if that is new; and *)
(* all that is new, if the times in the list are rising.                    *)
Rising(rs) == \A i, j \in DOMAIN rs : i < j => rs[i].ts < rs[j].ts

LEMMA NewsFacts ==
  ASSUME NEW rs \in Seq(Record), NEW last \in Nat, NEW bound \in Nat,
         last <= bound, \A r \in Elements(rs) : r.ts <= bound
  PROVE  /\ News(rs, last) \in Seq(Record)
         /\ Elements(News(rs, last)) \subseteq Elements(rs)
         /\ \/ LastTime(rs, last) = last
            \/ \E r \in Elements(News(rs, last)) : r.ts = LastTime(rs, last)
         /\ Rising(rs) => \A r \in Elements(rs) : r.ts > last => r \in Elements(News(rs, last))
<1> DEFINE n == Len(rs)
<1>1. PICK f : /\ f[0] = <<>> /\ News(rs, last) = f[n]
               /\ \A i \in 1..n : f[i] = Newer(f[i - 1], rs[i], last)
  BY NewsIs
<1>2. n \in Nat /\ 0 \in 0..n /\ n \in 0..n /\ DOMAIN rs = 1..n
  OBVIOUS
<1>3. \A i \in 1..n : rs[i] \in Record /\ rs[i] \in Elements(rs) /\ rs[i].ts \in Nat
  <2>1. \A r \in Record : r.ts \in Nat
    BY DEF Record
  <2>2. \A i \in 1..n : rs[i] \in Record
    OBVIOUS
  <2>3. \A i \in DOMAIN rs : rs[i] \in Elements(rs)
    BY Zenon DEF Elements
  <2> HIDE DEF n
  <2> QED BY <1>2, <2>1, <2>2, <2>3, Zenon
<1>4. ASSUME NEW s \in Seq(Record), Elements(s) \subseteq Elements(rs)
      PROVE  LastTime(s, last) \in Nat /\ Latest(LastTime(s, last), s, last)
  <2>1. \A r \in Elements(s) : r.ts <= bound
    BY <1>4
  <2> QED BY <2>1, LastTimeIs
<1> HIDE DEF n
<1> DEFINE Sent(k) == f[k] \in Seq(Record) /\ Elements(f[k]) \subseteq { rs[j] : j \in 1..k }
           Level(k) == \A j \in 1..k : rs[j].ts <= LastTime(f[k], last)
           All(k) == Rising(rs) => \A j \in 1..k : rs[j].ts > last => rs[j] \in Elements(f[k])
           P == { k \in 0..n : Sent(k) /\ Level(k) /\ All(k) }
<1>5. 0 \in P
  <2>1. 1..0 = {} /\ Elements(<<>>) = {} /\ <<>> \in Seq(Record)
    BY DEF Elements
  <2> QED BY <1>1, <1>2, <2>1
<1>6. ASSUME NEW k \in 1..n, k - 1 \in P PROVE k \in P
  <2>1. Sent(k - 1) /\ Level(k - 1) /\ All(k - 1) /\ k \in 0..n
    BY <1>2, <1>6
  <2> DEFINE t == LastTime(f[k - 1], last)
             u == LastTime(f[k], last)
  <2>2. \A j \in 1..k : j # k => j \in 1..k - 1
    OBVIOUS
  <2>3. \A j \in 1..k - 1 : j \in 1..n /\ j \in 1..k /\ j < k
    BY <1>2
  <2>4. { rs[j] : j \in 1..k - 1 } \subseteq Elements(rs) /\ { rs[j] : j \in 1..k } \subseteq Elements(rs)
    BY <1>2, <1>3
  <2>5. t \in Nat /\ Latest(t, f[k - 1], last)
    BY <1>4, <2>1, <2>4
  <2>6. f[k] = IF rs[k].ts > t THEN Append(f[k - 1], rs[k]) ELSE f[k - 1]
    BY <1>1 DEF Newer
  <2>7. CASE rs[k].ts > t
    <3>1. f[k] = Append(f[k - 1], rs[k])
      BY <2>6, <2>7
    <3>2. f[k] \in Seq(Record) /\ Elements(f[k]) = Elements(f[k - 1]) \cup {rs[k]}
      BY <1>3, <2>1, <3>1, ElementsOf
    <3>3. Sent(k)
      BY <2>1, <2>3, <3>2
    <3>4. u \in Nat /\ Latest(u, f[k], last)
      BY <1>4, <2>4, <3>2, <3>3
    <3>5. rs[k].ts <= u /\ t <= u
      BY <2>7, <3>2, <3>4, <2>5, <1>3 DEF Latest
    <3>6. Level(k)
      <4>1. ASSUME NEW j \in 1..k, j # k PROVE rs[j].ts <= u
        <5>1. j \in 1..n /\ rs[j].ts <= t /\ rs[j].ts \in Nat
          BY <1>3, <2>1, <2>2, <2>3, <4>1
        <5> QED BY <2>5, <3>4, <3>5, <5>1
      <4> QED BY <3>5, <4>1
    <3>7. All(k)
      BY <2>1, <2>2, <3>2
    <3> QED BY <2>1, <3>3, <3>6, <3>7
  <2>8. CASE ~(rs[k].ts > t)
    <3>1. f[k] = f[k - 1]
      BY <2>6, <2>8
    <3>2. Sent(k)
      BY <2>1, <2>3, <3>1
    <3>3. rs[k].ts <= t
      BY <1>3, <2>5, <2>8
    <3>4. Level(k)
      BY <2>1, <2>2, <3>1, <3>3
    <3>5. All(k)
      <4> SUFFICES ASSUME Rising(rs), rs[k].ts > last PROVE FALSE
        BY <2>1, <2>2, <3>1
      <4>1. t # last
        BY <1>3, <2>8
      <4>2. PICK r \in Elements(f[k - 1]) : t = r.ts
        BY <2>5, <4>1 DEF Latest
      <4>3. PICK j \in 1..k - 1 : r = rs[j]
        BY <2>1, <4>2
      <4>4. rs[j].ts < rs[k].ts
        BY <1>2, <2>3, <4>3 DEF Rising
      <4> QED BY <2>8, <4>2, <4>3, <4>4
    <3> QED BY <2>1, <3>2, <3>4, <3>5
  <2> QED BY <2>7, <2>8
<1>7. n \in P
  <2> HIDE DEF P
  <2> QED BY <1>2, <1>5, <1>6, Induction
<1>8. f[n] \in Seq(Record) /\ Elements(f[n]) \subseteq Elements(rs)
  BY <1>3, <1>7
<1>9. \A r \in Elements(rs) : \E j \in 1..n : r = rs[j]
  BY <1>2 DEF Elements
<1>10. Rising(rs) => \A r \in Elements(rs) : r.ts > last => r \in Elements(f[n])
  BY <1>7, <1>9
<1>11. LastTime(rs, last) = last \/ \E r \in Elements(f[n]) : r.ts = LastTime(rs, last)
  <2> DEFINE t == LastTime(f[n], last)
             u == LastTime(rs, last)
  <2>1. t \in Nat /\ Latest(t, f[n], last) /\ u \in Nat /\ Latest(u, rs, last)
    BY <1>4, <1>8
  <2>2. t <= u
    BY <1>8, <2>1 DEF Latest
  <2>3. u <= t
    <3>1. \A r \in Elements(rs) : r.ts <= t
      BY <1>7, <1>9
    <3> QED BY <2>1, <3>1 DEF Latest
  <2>4. t = u
    BY <2>1, <2>2, <2>3
  <2> QED BY <2>1, <2>4 DEF Latest
<1> QED BY <1>1, <1>8, <1>10, <1>11

-----------------------------------------------------------------------------
(* The pages. *)

OnPage(p) == Elements(page[p]) \cup (IF Len(fetched[p]) = 2 THEN Elements(fetched[p][2]) ELSE {})

(* Records that somebody has. *)
Around ==
  (UNION ({ Elements(list) : list \in Lists } \cup { Elements(records[a]) : a \in Apps }
          \cup { OnPage(p) : p \in Pages }))
  \cup { worker[a].record : a \in { b \in Apps : Writing(b) } }

PageTyped ==
  /\ page \in [Pages -> Seq(Record)]
  /\ stream \in [Pages -> [open : BOOLEAN, last : Nat]]
  /\ DOMAIN fetched = Pages
  /\ \A p \in Pages : Len(fetched[p]) = 2 => fetched[p][2] \in Seq(Record)

(* Where no two records have the same time, the times of an application's  *)
(* records are in the order of log().                                      *)
InTime ==
  /\ clock >= 1
  /\ \A r \in Around : r.ts \in 1..clock
  /\ setup.strict =>
       \A r, s \in Around : r.app = s.app /\ r.n < s.n => r.ts < s.ts

(* A stream is where it is because of a record on its page, ...            *)
Reached(p) ==
  stream[p].open => stream[p].last = 0 \/ \E s \in Elements(page[p]) : s.ts = stream[p].last

(* ... and it leaves nothing behind.                                       *)
PassedOver(p) == { r \in Elements(log) : r.ts <= stream[p].last }

Complete(p) ==
  stream[p].open /\ Alone /\ setup.strict => PassedOver(p) \subseteq Elements(page[p])

PageInv ==
  /\ PageTyped /\ InTime
  /\ \A p \in Pages : (\A r \in OnPage(p) : Past(r)) /\ Reached(p) /\ Complete(p)

LEMMA InAround ==
  ASSUME NEW r
  PROVE  r \in Around <=> \/ \E list \in Lists : r \in Elements(list)
                          \/ \E a \in Apps : r \in Elements(records[a])
                          \/ \E a \in Apps : Writing(a) /\ r = worker[a].record
                          \/ \E p \in Pages : r \in OnPage(p)
BY DEF Around

LEMMA AroundFacts ==
  ASSUME LogInv, PageInv
  PROVE  \A r \in Around : r \in Record /\ r.app \in setup.apps /\ r.n \in Nat /\ r.n <= logged[r.app]
<1> SUFFICES ASSUME NEW r \in Around
             PROVE  r \in Record /\ r.app \in setup.apps /\ r.n \in Nat /\ r.n <= logged[r.app]
  OBVIOUS
<1>1. \A e \in Record : e.n \in Nat
  BY DEF Record
<1>2. CASE \E list \in Lists : r \in Elements(list)
  <2>1. PICK list \in Lists : r \in Elements(list)
    BY <1>2
  <2>2. list \in Seq(Record) /\ Sound(list)
    BY SoundTypes DEF LogInv
  <2>3. PICK i \in DOMAIN list : r = list[i]
    BY <2>1 DEF Elements
  <2> QED BY <1>1, <2>2, <2>3 DEF Sound, Past
<1>3. CASE \E a \in Apps : r \in Elements(records[a])
  <2>1. PICK a \in Apps : r \in Elements(records[a])
    BY <1>3
  <2>2. PICK i \in DOMAIN records[a] : r = records[a][i]
    BY <2>1 DEF Elements
  <2>3. records[a] \in Seq(Record) /\ Queued(a) /\ records[a] # <<>>
    BY <2>2 DEF LogInv, Typed
  <2> QED BY <1>1, <2>2, <2>3 DEF Queued
<1>4. CASE \E a \in Apps : Writing(a) /\ r = worker[a].record
  <2>1. PICK a \in Apps : Writing(a) /\ r = worker[a].record
    BY <1>4
  <2>2. Queued(a) /\ r \in Record /\ a \in setup.apps
    BY <2>1 DEF LogInv, Typed, Queued, Writing
  <2> QED BY <1>1, <2>1, <2>2 DEF Queued
<1>5. CASE \E p \in Pages : r \in OnPage(p)
  <2>1. PICK p \in Pages : r \in OnPage(p)
    BY <1>5
  <2>2. r \in Record
    BY <2>1 DEF PageInv, PageTyped, OnPage, Elements
  <2> QED BY <1>1, <2>1, <2>2 DEF PageInv, Past
<1> QED BY <1>2, <1>3, <1>4, <1>5, InAround

(* Where there is one application, a page's copy of a record is the record.*)
LEMMA LikeIsSame ==
  ASSUME LogInv, PageInv, Alone, NEW r \in Around, NEW s \in Around, Like(s, r)
  PROVE  s = r
<1>1. r \in Record /\ s \in Record /\ r.app = s.app
  BY AroundFacts DEF Alone
<1>2. r = [app |-> r.app, n |-> r.n, ts |-> r.ts] /\ s = [app |-> s.app, n |-> s.n, ts |-> s.ts]
  BY <1>1 DEF Record
<1> QED BY <1>1, <1>2, Zenon DEF Like

LEMMA LogRising ==
  ASSUME LogInv, PageInv, Alone, setup.strict
  PROVE  Rising(log)
<1> SUFFICES ASSUME NEW i \in DOMAIN log, NEW j \in DOMAIN log, i < j PROVE log[i].ts < log[j].ts
  BY DEF Rising
<1>1. log[i] \in Around /\ log[j] \in Around
  BY InAround DEF Lists, Elements
<1>2. log[i].app = log[j].app
  BY <1>1, AroundFacts DEF Alone
<1>3. log[i].n < log[j].n
  BY <1>2 DEF LogInv, Lists, Sound, InOrder
<1> QED BY <1>1, <1>2, <1>3 DEF PageInv, InTime

LEMMA PagesInit == Init => PageInv
<1> SUFFICES ASSUME Init PROVE PageInv
  OBVIOUS
<1>1. /\ Idle.step = "waiting" /\ Idle.seen = <<>>
  BY DEF Idle
<1>2. Elements(<<>>) = {} /\ Len(<<"asked">>) = 1
  BY DEF Elements
<1>3. \A p \in Pages : fetched[p] = <<"asked">> /\ page[p] = <<>> /\ ~stream[p].open
  BY DEF Init
<1>4. \A p \in Pages : Len(fetched[p]) # 2
  BY <1>2, <1>3
<1>5. \A p \in Pages : OnPage(p) = {}
  BY <1>2, <1>3, <1>4 DEF OnPage
<1>6. \A a \in Apps : worker[a] = Idle /\ records[a] = <<>> /\ ~Writing(a)
  BY <1>1 DEF Init, Writing
<1>7. Lists \subseteq {<<>>}
  BY <1>1, <1>6 DEF Init, Lists
<1>8. \A r : r \notin Around
  BY <1>2, <1>5, <1>6, <1>7, InAround
<1>9. PageTyped
  BY <1>4 DEF Init, PageTyped
<1>10. InTime
  <2>1. clock = 1
    BY DEF Init
  <2> QED BY <1>8, <2>1 DEF InTime
<1> QED BY <1>3, <1>5, <1>9, <1>10 DEF PageInv, Reached, Complete

LEMMA AroundKeeps ==
  ASSUME \A list \in Lists' : Elements(list) \subseteq Around,
         \A a \in Apps : Elements(records'[a]) \subseteq Around,
         \A a \in Apps : Writing(a)' => worker'[a].record \in Around,
         \A p \in Pages : OnPage(p)' \subseteq Around
  PROVE  Around' \subseteq Around
<1> SUFFICES ASSUME NEW r \in Around' PROVE r \in Around
  OBVIOUS
<1>1. \/ \E list \in Lists' : r \in Elements(list)
      \/ \E a \in Apps : r \in Elements(records'[a])
      \/ \E a \in Apps : Writing(a)' /\ r = worker'[a].record
      \/ \E p \in Pages : r \in OnPage(p)'
  BY DEF Around
<1> QED BY <1>1

LEMMA TimeKeeps ==
  ASSUME InTime, Around' \subseteq Around, UNCHANGED <<setup, clock>>
  PROVE  InTime'
BY DEF InTime

(* What the steps of a page and its stream have in common: they bring      *)
(* nothing to the page but records of the list.                            *)
LEMMA ViewKeeps ==
  ASSUME LogInv, PageInv, UNCHANGED <<setup, log, late, clock, logged, records, worker>>,
         NEW p \in Pages, NEW shown \in Seq(Record), NEW s \in [open : BOOLEAN, last : Nat],
         page' = [page EXCEPT ![p] = shown], stream' = [stream EXCEPT ![p] = s],
         DOMAIN fetched' = Pages, \A q \in Pages \ {p} : fetched'[q] = fetched[q],
         Len(fetched'[p]) = 2 =>
           /\ fetched'[p][2] \in Seq(Record)
           /\ Elements(fetched'[p][2]) \subseteq OnPage(p) \cup Elements(log),
         Elements(shown) \subseteq OnPage(p) \cup Elements(log),
         s.open => s.last = 0 \/ \E r \in Elements(shown) : r.ts = s.last,
         s.open /\ Alone /\ setup.strict =>
           \A r \in Elements(log) : r.ts <= s.last => r \in Elements(shown)
  PROVE  PageInv'
<1>1. /\ page'[p] = shown /\ \A q \in Pages \ {p} : page'[q] = page[q]
      /\ stream'[p] = s /\ \A q \in Pages \ {p} : stream'[q] = stream[q]
      /\ page' \in [Pages -> Seq(Record)]
      /\ stream' \in [Pages -> [open : BOOLEAN, last : Nat]]
  BY DEF PageInv, PageTyped
<1>2. ASSUME NEW q \in Pages, Len(fetched'[q]) = 2 PROVE fetched'[q][2] \in Seq(Record)
  BY <1>2 DEF PageInv, PageTyped
<1>3. PageTyped'
  BY <1>1, <1>2 DEF PageTyped
<1>4. \A q \in Pages \ {p} : OnPage(q)' = OnPage(q)
  BY <1>1 DEF OnPage
<1>5. OnPage(p)' \subseteq OnPage(p) \cup Elements(log)
  BY <1>1 DEF OnPage
<1>6. /\ Elements(log) \subseteq Around /\ \A q \in Pages : OnPage(q) \subseteq Around
      /\ \A r \in Elements(log) : Past(r)
  <2>1. \A r \in Elements(log) : Past(r)
    BY DEF LogInv, Lists, Sound, Elements
  <2> QED BY <2>1, InAround DEF Lists
<1>7. \A q \in Pages : OnPage(q)' \subseteq Around
  BY <1>4, <1>5, <1>6
<1>8. Around' \subseteq Around
  <2>1. Lists' = Lists
    BY DEF Lists
  <2>2. \A list \in Lists' : Elements(list) \subseteq Around
    BY <2>1, InAround
  <2>3. \A a \in Apps : Elements(records'[a]) \subseteq Around
    BY InAround
  <2>4. \A a \in Apps : Writing(a)' => worker'[a].record \in Around
    BY InAround DEF Writing
  <2> QED BY <1>7, <2>2, <2>3, <2>4, AroundKeeps
<1>9. InTime'
  BY <1>8, TimeKeeps DEF PageInv
<1>10. ASSUME NEW q \in Pages, NEW r \in OnPage(q)' PROVE Past(r)'
  <2>1. Past(r)
    BY <1>4, <1>5, <1>6 DEF PageInv
  <2> QED BY <2>1 DEF Past, Writing
<1>11. ASSUME NEW q \in Pages PROVE Reached(q)'
  BY <1>1 DEF PageInv, Reached
<1>12. ASSUME NEW q \in Pages PROVE Complete(q)'
  BY <1>1 DEF PageInv, Complete, PassedOver, Alone
<1> QED BY <1>3, <1>9, <1>10, <1>11, <1>12 DEF PageInv

LEMMA PageTypes ==
  ASSUME PageInv, NEW p \in Pages
  PROVE  /\ page[p] \in Seq(Record) /\ Elements(page[p]) \subseteq OnPage(p)
         /\ stream[p] \in [open : BOOLEAN, last : Nat]
         /\ page = [page EXCEPT ![p] = page[p]] /\ stream = [stream EXCEPT ![p] = stream[p]]
         /\ DOMAIN fetched = Pages
         /\ Len(fetched[p]) = 2 => /\ fetched[p][2] \in Seq(Record)
                                   /\ Elements(fetched[p][2]) \subseteq OnPage(p)
BY DEF PageInv, PageTyped, OnPage

LEMMA AnswerKeeps ==
  ASSUME LogInv, PageInv, NEW p \in Pages, Answer(p) \/ ShowAnswer(p)
  PROVE  PageInv'
<1>1. /\ page[p] \in Seq(Record) /\ Elements(page[p]) \subseteq OnPage(p)
      /\ stream[p] \in [open : BOOLEAN, last : Nat]
      /\ page = [page EXCEPT ![p] = page[p]] /\ stream = [stream EXCEPT ![p] = stream[p]]
      /\ DOMAIN fetched = Pages
  BY PageTypes
<1>2. /\ stream[p].open => stream[p].last = 0 \/ \E r \in Elements(page[p]) : r.ts = stream[p].last
      /\ stream[p].open /\ Alone /\ setup.strict =>
           \A r \in Elements(log) : r.ts <= stream[p].last => r \in Elements(page[p])
  BY DEF PageInv, Reached, Complete, PassedOver
<1>3. CASE Answer(p)
  <2> DEFINE list == FromEnd(log, PageLimit)
  <2>1. log \in Seq(Record) /\ PageLimit \in Int
    BY HotReloadLogAssumption DEF LogInv, Typed
  <2>2. list \in Seq(Record) /\ Elements(list) \subseteq Elements(log)
    <3>1. PICK d \in Nat : \A i \in 1..Len(list) : i + d \in 1..Len(log) /\ list[i] = log[i + d]
      BY <2>1, FromEndFacts
    <3>2. list \in Seq(Record)
      BY <2>1, FromEndFacts
    <3> HIDE DEF list
    <3> QED BY <2>1, <3>1, <3>2 DEF Elements
  <2> HIDE DEF list
  <2>3. /\ fetched' = [fetched EXCEPT ![p] = <<"answered", list>>]
        /\ UNCHANGED <<setup, log, late, clock, logged, records, worker, page, stream>>
    BY <1>3 DEF Answer, server, list
  <2>4. /\ DOMAIN fetched' = Pages /\ \A q \in Pages \ {p} : fetched'[q] = fetched[q]
        /\ fetched'[p][2] = list
    BY <1>1, <2>3
  <2> QED BY <1>1, <1>2, <2>2, <2>3, <2>4, ViewKeeps
<1>4. CASE ShowAnswer(p)
  <2>1. Len(fetched[p]) = 2 /\ page' = [page EXCEPT ![p] = Rendered(page[p], fetched[p][2])]
        /\ fetched' = [fetched EXCEPT ![p] = <<"shown">>]
        /\ UNCHANGED <<setup, log, late, clock, logged, records, worker, stream>>
    BY <1>4 DEF ShowAnswer, Show, server
  <2>2. fetched[p][2] \in Seq(Record) /\ Elements(fetched[p][2]) \subseteq OnPage(p)
    BY <2>1, PageTypes
  <2> DEFINE shown == Rendered(page[p], fetched[p][2])
  <2>3. /\ shown \in Seq(Record) /\ Elements(page[p]) \subseteq Elements(shown)
        /\ Elements(shown) \subseteq OnPage(p) \cup Elements(log)
    BY <1>1, <2>2, RenderedFacts
  <2>4. page' = [page EXCEPT ![p] = shown]
    BY <2>1
  <2> HIDE DEF shown
  <2>5. /\ DOMAIN fetched' = Pages /\ \A q \in Pages \ {p} : fetched'[q] = fetched[q]
        /\ Len(fetched'[p]) # 2
    <3>1. Len(<<"shown">>) = 1
      OBVIOUS
    <3> QED BY <1>1, <2>1, <3>1
  <2>6. stream[p].open => stream[p].last = 0 \/ \E r \in Elements(shown) : r.ts = stream[p].last
    BY <1>2, <2>3
  <2>7. stream[p].open /\ Alone /\ setup.strict =>
          \A r \in Elements(log) : r.ts <= stream[p].last => r \in Elements(shown)
    BY <1>2, <2>3
  <2>8. stream' = [stream EXCEPT ![p] = stream[p]]
    BY <1>1, <2>1
  <2> QED BY <1>1, <2>1, <2>3, <2>4, <2>5, <2>6, <2>7, <2>8, ViewKeeps
<1> QED BY <1>3, <1>4

(* A round of events(): what the stream has reached is on the page, and a  *)
(* lone application's page then has the whole list.                        *)
LEMMA RoundFacts ==
  ASSUME LogInv, PageInv, NEW p \in Pages, stream[p].open
  PROVE  /\ Rendered(page[p], News(log, stream[p].last)) \in Seq(Record)
         /\ Elements(page[p]) \subseteq Elements(Rendered(page[p], News(log, stream[p].last)))
         /\ Elements(Rendered(page[p], News(log, stream[p].last))) \subseteq OnPage(p) \cup Elements(log)
         /\ News(log, stream[p].last) \in Seq(Record)
         /\ Elements(News(log, stream[p].last)) \subseteq Elements(log)
         /\ LastTime(log, stream[p].last) \in Nat
         /\ \A r \in Elements(log) : r.ts <= LastTime(log, stream[p].last)
         /\ \/ LastTime(log, stream[p].last) = 0
            \/ \E r \in Elements(Rendered(page[p], News(log, stream[p].last))) :
                 r.ts = LastTime(log, stream[p].last)
         /\ Alone /\ setup.strict =>
              Elements(log) \subseteq Elements(Rendered(page[p], News(log, stream[p].last)))
<1> DEFINE last == stream[p].last
           news == News(log, last)
           shown == Rendered(page[p], news)
           reached == LastTime(log, last)
<1>1. /\ page[p] \in Seq(Record) /\ Elements(page[p]) \subseteq OnPage(p)
      /\ last \in Nat /\ log \in Seq(Record) /\ clock \in Nat
  BY PageTypes DEF LogInv, Typed
<1>2. Elements(log) \subseteq Around /\ OnPage(p) \subseteq Around
  BY InAround DEF Lists
<1>3. \A r \in Around : r.ts \in 1..clock
  BY DEF PageInv, InTime
<1>4. last = 0 \/ \E r \in Elements(page[p]) : r.ts = last
  BY DEF PageInv, Reached
<1>5. last <= clock /\ \A r \in Elements(log) : r.ts <= clock
  BY <1>1, <1>2, <1>3, <1>4
<1> HIDE DEF last
<1>6. /\ news \in Seq(Record) /\ Elements(news) \subseteq Elements(log)
      /\ reached = last \/ \E r \in Elements(news) : r.ts = reached
      /\ Rising(log) => \A r \in Elements(log) : r.ts > last => r \in Elements(news)
  BY <1>1, <1>5, NewsFacts
<1>7. reached \in Nat /\ \A r \in Elements(log) : r.ts <= reached
  BY <1>1, <1>5, LastTimeIs DEF Latest
<1> HIDE DEF news, reached
<1>8. /\ shown \in Seq(Record) /\ Elements(page[p]) \subseteq Elements(shown)
      /\ Elements(shown) \subseteq Elements(page[p]) \cup Elements(news)
      /\ \A r \in Elements(news) : \E s \in Elements(shown) : Like(s, r)
  BY <1>1, <1>6, RenderedFacts
<1> HIDE DEF shown
<1>9. reached = 0 \/ \E r \in Elements(shown) : r.ts = reached
  <2>1. CASE reached = last
    BY <1>4, <1>8, <2>1
  <2>2. CASE \E r \in Elements(news) : r.ts = reached
    BY <1>8, <2>2 DEF Like
  <2> QED BY <1>6, <2>1, <2>2
<1>10. ASSUME Alone, setup.strict, NEW r \in Elements(log) PROVE r \in Elements(shown)
  <2>1. CASE r.ts <= last
    <3>1. r \in Elements(page[p])
      BY <1>10, <2>1 DEF PageInv, Complete, PassedOver, last
    <3> QED BY <1>8, <3>1
  <2>2. CASE r.ts > last
    <3>1. r \in Elements(news)
      BY <1>6, <1>10, <2>2, LogRising
    <3>2. PICK s \in Elements(shown) : Like(s, r)
      BY <1>8, <3>1
    <3>3. s \in Around /\ r \in Around
      BY <1>1, <1>2, <1>6, <1>8, <1>10
    <3> QED BY <1>10, <3>2, <3>3, LikeIsSame
  <2>3. r.ts \in Nat
    BY <1>2, <1>3, <1>10
  <2> QED BY <1>1, <2>1, <2>2, <2>3
<1> QED BY <1>1, <1>6, <1>7, <1>8, <1>9, <1>10 DEF shown, reached, news, last

LEMMA ConnectKeeps ==
  ASSUME LogInv, PageInv, NEW p \in Pages, Connect(p)
  PROVE  PageInv'
<1>1. /\ page[p] \in Seq(Record) /\ Elements(page[p]) \subseteq OnPage(p)
      /\ page = [page EXCEPT ![p] = page[p]] /\ DOMAIN fetched = Pages
      /\ Len(fetched[p]) = 2 => /\ fetched[p][2] \in Seq(Record)
                                /\ Elements(fetched[p][2]) \subseteq OnPage(p)
  BY PageTypes
<1>2. UNCHANGED <<setup, log, late, clock, logged, records, worker, fetched>>
  BY DEF Connect, server
<1>3. /\ log \in Seq(Record) /\ clock \in Nat
      /\ Elements(log) \subseteq Around /\ OnPage(p) \subseteq Around
      /\ \A r \in Elements(log) : r.ts \in 1..clock
  BY InAround DEF LogInv, Typed, Lists, PageInv, InTime
<1>4. CASE stream' = [stream EXCEPT ![p] = [open |-> TRUE, last |-> 0]] /\ UNCHANGED page
  <2> DEFINE s == [open |-> TRUE, last |-> 0]
  <2>1. s \in [open : BOOLEAN, last : Nat] /\ s.last = 0 /\ \A r \in Elements(log) : ~(r.ts <= s.last)
    BY <1>3
  <2>2. stream' = [stream EXCEPT ![p] = s] /\ page' = [page EXCEPT ![p] = page[p]]
    BY <1>1, <1>4
  <2> HIDE DEF s
  <2> QED BY <1>1, <1>2, <2>1, <2>2, ViewKeeps
<1>5. CASE Show(p, log) /\ stream' = [stream EXCEPT ![p] = [open |-> TRUE, last |-> LastTime(log, 0)]]
  <2> DEFINE shown == Rendered(page[p], log)
             s == [open |-> TRUE, last |-> LastTime(log, 0)]
  <2>1. LastTime(log, 0) \in Nat /\ Latest(LastTime(log, 0), log, 0)
    BY <1>3, LastTimeIs
  <2>2. s \in [open : BOOLEAN, last : Nat] /\ s.last = LastTime(log, 0)
    BY <2>1
  <2>3. /\ shown \in Seq(Record) /\ Elements(shown) \subseteq Elements(page[p]) \cup Elements(log)
        /\ \A r \in Elements(log) : \E e \in Elements(shown) : Like(e, r)
    BY <1>1, <1>3, RenderedFacts
  <2>4. page' = [page EXCEPT ![p] = shown] /\ stream' = [stream EXCEPT ![p] = s]
    BY <1>5 DEF Show
  <2> HIDE DEF shown, s
  <2>5. s.last = 0 \/ \E r \in Elements(shown) : r.ts = s.last
    BY <2>1, <2>2, <2>3 DEF Latest, Like
  <2>6. ASSUME Alone, NEW r \in Elements(log) PROVE r \in Elements(shown)
    <3>1. PICK e \in Elements(shown) : Like(e, r)
      BY <2>3, <2>6
    <3>2. e \in Around /\ r \in Around
      BY <1>1, <1>3, <2>3, <2>6
    <3> QED BY <2>6, <3>1, <3>2, LikeIsSame
  <2>7. Elements(shown) \subseteq OnPage(p) \cup Elements(log)
    BY <1>1, <2>3
  <2>8. DOMAIN fetched' = Pages /\ \A q \in Pages \ {p} : fetched'[q] = fetched[q]
    BY <1>1, <1>2
  <2>9. Len(fetched'[p]) = 2 => /\ fetched'[p][2] \in Seq(Record)
                                /\ Elements(fetched'[p][2]) \subseteq OnPage(p) \cup Elements(log)
    BY <1>1, <1>2
  <2> QED BY <1>2, <2>2, <2>3, <2>4, <2>5, <2>6, <2>7, <2>8, <2>9, ViewKeeps
<1> QED BY <1>4, <1>5 DEF Connect

LEMMA RoundKeeps ==
  ASSUME LogInv, PageInv, NEW p \in Pages, Round(p)
  PROVE  PageInv'
<1> DEFINE shown == Rendered(page[p], News(log, stream[p].last))
           s == [stream[p] EXCEPT !.last = LastTime(log, @)]
<1>1. /\ DOMAIN fetched = Pages /\ stream[p] \in [open : BOOLEAN, last : Nat]
      /\ Len(fetched[p]) = 2 => /\ fetched[p][2] \in Seq(Record)
                                /\ Elements(fetched[p][2]) \subseteq OnPage(p)
  BY PageTypes
<1>2. /\ page' = [page EXCEPT ![p] = shown] /\ stream' = [stream EXCEPT ![p] = s] /\ stream[p].open
      /\ UNCHANGED <<setup, log, late, clock, logged, records, worker, fetched>>
  BY DEF Round, Show, server
<1>3. /\ shown \in Seq(Record) /\ Elements(shown) \subseteq OnPage(p) \cup Elements(log)
      /\ LastTime(log, stream[p].last) \in Nat
      /\ \/ LastTime(log, stream[p].last) = 0
         \/ \E r \in Elements(shown) : r.ts = LastTime(log, stream[p].last)
      /\ Alone /\ setup.strict => Elements(log) \subseteq Elements(shown)
  BY <1>2, RoundFacts
<1>4. s \in [open : BOOLEAN, last : Nat] /\ s.last = LastTime(log, stream[p].last)
  BY <1>1, <1>3
<1> HIDE DEF shown, s
<1>5. DOMAIN fetched' = Pages /\ \A q \in Pages \ {p} : fetched'[q] = fetched[q]
  BY <1>1, <1>2
<1>6. Len(fetched'[p]) = 2 => /\ fetched'[p][2] \in Seq(Record)
                              /\ Elements(fetched'[p][2]) \subseteq OnPage(p) \cup Elements(log)
  BY <1>1, <1>2
<1>7. s.last = 0 \/ \E r \in Elements(shown) : r.ts = s.last
  BY <1>3, <1>4
<1>8. Alone /\ setup.strict => \A r \in Elements(log) : r.ts <= s.last => r \in Elements(shown)
  BY <1>3
<1> QED BY <1>2, <1>3, <1>4, <1>5, <1>6, <1>7, <1>8, ViewKeeps

LEMMA BreakKeeps ==
  ASSUME LogInv, PageInv, NEW p \in Pages, Break(p)
  PROVE  PageInv'
<1> DEFINE news == News(log, stream[p].last)
           s == [open |-> FALSE, last |-> 0]
<1>1. /\ DOMAIN fetched = Pages
      /\ page[p] \in Seq(Record) /\ Elements(page[p]) \subseteq OnPage(p)
      /\ Len(fetched[p]) = 2 => /\ fetched[p][2] \in Seq(Record)
                                /\ Elements(fetched[p][2]) \subseteq OnPage(p)
  BY PageTypes
<1>2. /\ stream[p].open /\ stream' = [stream EXCEPT ![p] = s]
      /\ UNCHANGED <<setup, log, late, clock, logged, records, worker, fetched>>
  BY DEF Break, server
<1>3. news \in Seq(Record) /\ Elements(news) \subseteq Elements(log)
  BY <1>2, RoundFacts
<1>4. PICK n \in 0..Len(news) : page' = [page EXCEPT ![p] = Rendered(page[p], SubSeq(news, 1, n))]
  BY DEF Break, Show
<1> HIDE DEF news
<1> DEFINE sent == SubSeq(news, 1, n)
           shown == Rendered(page[p], sent)
<1>5. sent \in Seq(Record) /\ Elements(sent) \subseteq Elements(news)
  <2>1. \A i \in 1..n : news[i] \in Record
    BY <1>3
  <2>2. sent \in Seq(Record) /\ Len(sent) = n /\ \A i \in 1..n : sent[i] = news[i]
    BY <1>3, <2>1
  <2> HIDE DEF sent
  <2> QED BY <1>3, <2>2 DEF Elements
<1> HIDE DEF sent
<1>6. shown \in Seq(Record) /\ Elements(shown) \subseteq OnPage(p) \cup Elements(log)
  BY <1>1, <1>3, <1>5, RenderedFacts
<1>7. page' = [page EXCEPT ![p] = shown]
  BY <1>4 DEF sent
<1>8. s \in [open : BOOLEAN, last : Nat] /\ ~s.open
  OBVIOUS
<1> HIDE DEF shown, s
<1>9. DOMAIN fetched' = Pages /\ \A q \in Pages \ {p} : fetched'[q] = fetched[q]
  BY <1>1, <1>2
<1>10. Len(fetched'[p]) = 2 => /\ fetched'[p][2] \in Seq(Record)
                               /\ Elements(fetched'[p][2]) \subseteq OnPage(p) \cup Elements(log)
  BY <1>1, <1>2
<1> QED BY <1>2, <1>6, <1>7, <1>8, <1>9, <1>10, ViewKeeps

(* Steps of a worker, and of requests: they only pass records on.          *)
LEMMA WorkPassesOn ==
  ASSUME LogInv, NEW a \in Apps, Work(a) \/ Close(a) \/ Abandon(a)
  PROVE  /\ Around' \subseteq Around /\ UNCHANGED <<setup, clock, pages>>
         /\ Alone => \A r \in Elements(log') :
              r \in Elements(log) \/ \E b \in Apps : Writing(b) /\ r = worker[b].record
<1>1. UNCHANGED <<setup, clock, page, stream, fetched>> /\ worker \in [Apps -> [step : Steps, record : Record \cup {<<>>}, seen : Seq(Record)]]
  BY DEF Work, Close, CheckStop, Take, ReadLog, WriteLog, AppendFails, Abandon, pages, LogInv, Typed
<1>2. \A p \in Pages : OnPage(p)' \subseteq Around
  BY <1>1, InAround DEF OnPage
<1>3. /\ \A list \in Lists : Elements(list) \subseteq Around
      /\ \A b \in Apps : Elements(records[b]) \subseteq Around
      /\ \A b \in Apps : Writing(b) => worker[b].record \in Around
  BY InAround
<1>4. Elements(<<>>) = {}
  BY DEF Elements
<1>5. CASE Close(a)
  <2>1. UNCHANGED <<log, late, records, worker>>
    BY <1>5 DEF Close, server
  <2>2. Lists' = Lists /\ \A b \in Apps : Writing(b)' = Writing(b)
    BY <2>1 DEF Lists, Writing
  <2> QED BY <1>1, <1>2, <1>3, <2>1, <2>2, AroundKeeps DEF pages
<1>6. CASE CheckStop(a)
  <2>1. \E step \in {"ended", "getting"} : Move(a, step, <<>>, <<>>)
    BY <1>6 DEF CheckStop
  <2>2. /\ \A b \in Apps : b # a => worker'[b] = worker[b]
        /\ worker'[a].seen = <<>> /\ ~Writing(a)' /\ UNCHANGED <<log, late, records>>
    BY <1>1, <1>6, <2>1 DEF CheckStop, Move, Writing, server
  <2>3. \A b \in Apps : Writing(b)' => worker'[b].record \in Around
    BY <1>3, <2>2 DEF Writing
  <2>4. Lists' \subseteq Lists \cup {<<>>}
    BY <2>2 DEF Lists
  <2>5. \A list \in Lists' : Elements(list) \subseteq Around
    BY <1>3, <1>4, <2>4
  <2> QED BY <1>1, <1>2, <1>3, <2>2, <2>3, <2>5, AroundKeeps DEF pages
<1>7. CASE Take(a)
  <2>1. /\ worker[a].step = "getting" /\ UNCHANGED <<log, late>>
        /\ \/ Move(a, "waiting", <<>>, <<>>) /\ UNCHANGED records
           \/ /\ records[a] # <<>> /\ Move(a, "reading", Head(records[a]), <<>>)
              /\ records' = [records EXCEPT ![a] = Tail(@)]
    BY <1>7 DEF Take, server
  <2>2. worker'[a].seen = <<>> /\ \A b \in Apps : b # a => worker'[b] = worker[b]
    BY <1>1, <2>1 DEF Move
  <2>3. Lists' \subseteq Lists \cup {<<>>}
    BY <2>1, <2>2 DEF Lists
  <2>4. \A list \in Lists' : Elements(list) \subseteq Around
    BY <1>3, <1>4, <2>3
  <2>5. CASE Move(a, "waiting", <<>>, <<>>) /\ UNCHANGED records
    <3>1. ~Writing(a)'
      BY <1>1, <2>5 DEF Move, Writing
    <3>2. \A b \in Apps : Writing(b)' => worker'[b].record \in Around
      BY <1>3, <2>2, <3>1 DEF Writing
    <3> QED BY <1>1, <1>2, <1>3, <2>1, <2>4, <2>5, <3>2, AroundKeeps DEF pages
  <2>6. CASE /\ records[a] # <<>> /\ Move(a, "reading", Head(records[a]), <<>>)
             /\ records' = [records EXCEPT ![a] = Tail(@)]
    <3>1. records \in [Apps -> Seq(Record)] /\ records[a] \in Seq(Record)
      BY DEF LogInv, Typed
    <3>2. /\ Head(records[a]) = records[a][1] /\ Len(records[a]) \in Nat \ {0}
          /\ Tail(records[a]) \in Seq(Record) /\ Len(Tail(records[a])) = Len(records[a]) - 1
          /\ \A i \in 1..Len(Tail(records[a])) : Tail(records[a])[i] = records[a][i + 1]
      BY <2>6, <3>1, HeadTailProperties
    <3>3. Head(records[a]) \in Elements(records[a]) /\ Elements(Tail(records[a])) \subseteq Elements(records[a])
      BY <3>1, <3>2 DEF Elements
    <3>4. \A b \in Apps : Elements(records'[b]) \subseteq Around
      BY <1>3, <2>6, <3>1, <3>3
    <3>5. worker'[a].record = Head(records[a])
      BY <1>1, <2>6 DEF Move
    <3>6. \A b \in Apps : Writing(b)' => worker'[b].record \in Around
      BY <1>3, <2>2, <3>3, <3>5 DEF Writing
    <3> QED BY <1>1, <1>2, <2>1, <2>4, <3>4, <3>6, AroundKeeps DEF pages
  <2> QED BY <2>1, <2>5, <2>6
<1>8. CASE ReadLog(a)
  <2>1. /\ worker[a].step = "reading" /\ UNCHANGED <<log, late, records>>
        /\ Move(a, "writing", worker[a].record, log)
    BY <1>8 DEF ReadLog, server
  <2>2. /\ worker'[a].record = worker[a].record /\ worker'[a].seen = log
        /\ Writing(a) /\ \A b \in Apps : b # a => worker'[b] = worker[b]
    BY <1>1, <2>1 DEF Move, Writing
  <2>3. Lists' \subseteq Lists
    BY <2>1, <2>2 DEF Lists
  <2>4. \A list \in Lists' : Elements(list) \subseteq Around
    BY <1>3, <2>3
  <2>5. \A b \in Apps : Writing(b)' => worker'[b].record \in Around
    BY <1>3, <2>2 DEF Writing
  <2> QED BY <1>1, <1>2, <1>3, <2>1, <2>4, <2>5, AroundKeeps DEF pages
<1>9. CASE WriteLog(a) \/ AppendFails(a) \/ Abandon(a)
  <2>1. /\ Writing(a) /\ UNCHANGED records
        /\ Move(a, "waiting", <<>>, <<>>) \/ Move(a, "ended", <<>>, <<>>)
    BY <1>9 DEF WriteLog, AppendFails, Abandon, Writing
  <2>2. /\ log' \in {log, NewList(a)} /\ late' \in {late, late \cup {NewList(a)}}
    BY <1>9 DEF WriteLog, AppendFails, Abandon, MayComeLate, server
  <2>3. /\ worker'[a].seen = <<>> /\ ~Writing(a)' /\ \A b \in Apps : b # a => worker'[b] = worker[b]
    BY <1>1, <2>1 DEF Move, Writing
  <2>4. Elements(NewList(a)) \subseteq Elements(worker[a].seen) \cup {worker[a].record}
    BY <2>1, NewListFacts
  <2>5. Elements(NewList(a)) \subseteq Around
    BY <1>3, <2>1, <2>4 DEF Lists
  <2>6. Lists' \subseteq Lists \cup {<<>>, NewList(a)}
    BY <2>2, <2>3 DEF Lists
  <2>7. \A list \in Lists' : Elements(list) \subseteq Around
    BY <1>3, <1>4, <2>5, <2>6
  <2>8. \A b \in Apps : Writing(b)' => worker'[b].record \in Around
    BY <1>3, <2>3 DEF Writing
  <2>9. Around' \subseteq Around
    BY <1>2, <1>3, <2>1, <2>7, <2>8, AroundKeeps
  <2>10. ASSUME Alone, NEW r \in Elements(log')
         PROVE  r \in Elements(log) \/ \E b \in Apps : Writing(b) /\ r = worker[b].record
    <3>1. CASE log' = log
      BY <2>10, <3>1
    <3>2. CASE log' # log
      <4>1. worker[a].step = "writing" /\ log' = NewList(a)
        BY <1>9, <2>2, <3>2 DEF WriteLog, AppendFails, Abandon, server
      <4>2. worker[a].seen = log
        BY <2>10, <4>1 DEF LogInv, Undisturbed, Queued
      <4> QED BY <2>1, <2>4, <2>10, <4>1, <4>2
    <3> QED BY <3>1, <3>2
  <2> QED BY <1>1, <2>9, <2>10 DEF pages
<1> QED BY <1>5, <1>6, <1>7, <1>8, <1>9 DEF Work

LEMMA LatePassesOn ==
  ASSUME LogInv, LateWrite
  PROVE  /\ Around' \subseteq Around /\ UNCHANGED <<setup, clock, pages>>
         /\ Alone => \A r \in Elements(log') :
              r \in Elements(log) \/ \E b \in Apps : Writing(b) /\ r = worker[b].record
<1>1. PICK list \in late : log' = list /\ late' = late \ {list}
  BY DEF LateWrite
<1>2. UNCHANGED <<setup, clock, logged, records, worker, page, stream, fetched>>
  BY DEF LateWrite, pages
<1>3. Lists' \subseteq Lists
  BY <1>1, <1>2 DEF Lists
<1>4. \A l \in Lists' : Elements(l) \subseteq Around
  BY <1>3, InAround
<1>5. \A a \in Apps : Elements(records'[a]) \subseteq Around
  BY <1>2, InAround
<1>6. \A a \in Apps : Writing(a)' => worker'[a].record \in Around
  BY <1>2, InAround DEF Writing
<1>7. \A p \in Pages : OnPage(p)' \subseteq Around
  BY <1>2, InAround DEF OnPage
<1>8. Around' \subseteq Around
  BY <1>4, <1>5, <1>6, <1>7, AroundKeeps
<1>9. ~Alone
  BY <1>1 DEF LogInv, Undisturbed, Alone
<1> QED BY <1>2, <1>8, <1>9 DEF pages

(* A new record is later than all there are.                               *)
LEMMA LogInTime ==
  ASSUME LogInv, PageInv, NEW a \in Apps, Log(a)
  PROVE  InTime'
<1>1. PICK ts \in {clock + 1} \cup (IF setup.strict THEN {} ELSE {clock}) :
        LET record == [app |-> a, n |-> logged[a] + 1, ts |-> ts]
        IN /\ clock' = ts
           /\ \/ /\ Len(records[a]) < QueueSize
                 /\ records' = [records EXCEPT ![a] = Append(@, record)]
                 /\ UNCHANGED reported
              \/ /\ Len(records[a]) = QueueSize
                 /\ reported' = reported \cup {record}
                 /\ UNCHANGED records
  BY DEF Log
<1> DEFINE record == [app |-> a, n |-> logged[a] + 1, ts |-> ts]
<1>2. /\ a \in setup.apps /\ logged[a] < setup.records[a] /\ logged' = [logged EXCEPT ![a] = @ + 1]
      /\ UNCHANGED <<setup, log, late, worker, page, fetched>>
  BY DEF Log, server, pages
<1>3. logged[a] \in Nat /\ logged[a] + 1 \in 1..MaxRecords /\ clock \in Nat
  <2>1. logged[a] \in 0..MaxRecords /\ setup.records[a] \in 0..MaxRecords /\ clock \in Nat
    BY <1>2 DEF LogInv, Typed, Setup
  <2> QED BY <1>2, <2>1, HotReloadLogAssumption
<1>4. ts \in Nat /\ clock <= ts /\ (setup.strict => ts = clock + 1) /\ (clock >= 1 => ts >= 1)
  BY <1>3
<1>5. record \in Record /\ record.app = a /\ record.n = logged[a] + 1 /\ record.ts = ts
  BY <1>3, <1>4 DEF Record
<1>6. clock' = ts /\ (records' = [records EXCEPT ![a] = Append(@, record)] \/ UNCHANGED records)
  BY <1>1
<1> HIDE DEF record
<1>7. \A b \in Apps : Elements(records'[b]) \subseteq Elements(records[b]) \cup {record}
  <2>1. records \in [Apps -> Seq(Record)] /\ records[a] \in Seq(Record)
    BY DEF LogInv, Typed
  <2>2. Elements(Append(records[a], record)) = Elements(records[a]) \cup {record}
    BY <1>5, <2>1, ElementsOf
  <2> QED BY <1>6, <2>1, <2>2
<1>8. Around' \subseteq Around \cup {record}
  <2> SUFFICES ASSUME NEW r \in Around' PROVE r \in Around \cup {record}
    OBVIOUS
  <2>1. \/ \E list \in Lists' : r \in Elements(list)
        \/ \E b \in Apps : r \in Elements(records'[b])
        \/ \E b \in Apps : Writing(b)' /\ r = worker'[b].record
        \/ \E p \in Pages : r \in OnPage(p)'
    BY DEF Around
  <2>2. Lists' = Lists /\ (\A b \in Apps : Writing(b)' = Writing(b)) /\ \A p \in Pages : OnPage(p)' = OnPage(p)
    BY <1>2 DEF Lists, Writing, OnPage
  <2> QED BY <1>2, <1>7, <2>1, <2>2, InAround
<1>9. \A r \in Around : r \in Record /\ r.n \in Nat /\ r.n <= logged[r.app] /\ r.ts \in Nat /\ 1 <= r.ts /\ r.ts <= clock
  BY AroundFacts DEF PageInv, InTime
<1>10. clock >= 1
  BY DEF PageInv, InTime
<1>11. ASSUME NEW r \in Around' PROVE r.ts \in 1..clock'
  <2>1. CASE r \in Around
    BY <1>3, <1>4, <1>6, <1>9, <2>1
  <2>2. CASE r = record
    BY <1>4, <1>5, <1>6, <1>10, <2>2
  <2> QED BY <1>8, <2>1, <2>2
<1>12. ASSUME setup'.strict, NEW r \in Around', NEW s \in Around', r.app = s.app, r.n < s.n
       PROVE  r.ts < s.ts
  <2>1. CASE r \in Around /\ s \in Around
    BY <1>2, <1>12, <2>1 DEF PageInv, InTime
  <2>2. CASE r \in Around /\ s = record
    <3>1. r.ts \in Nat /\ r.ts <= clock /\ s.ts = clock + 1
      BY <1>2, <1>4, <1>5, <1>9, <1>12, <2>2
    <3> QED BY <1>3, <3>1
  <2>3. CASE r = record
    <3>1. s \in Around => s.n \in Nat /\ s.n <= logged[a]
      BY <1>5, <1>9, <1>12, <2>3
    <3>2. s = record => s.n = r.n
      BY <2>3
    <3> QED BY <1>3, <1>5, <1>8, <1>12, <2>3, <3>1, <3>2
  <2> QED BY <1>8, <2>1, <2>2, <2>3
<1>13. clock' >= 1
  BY <1>4, <1>6, <1>10
<1> QED BY <1>11, <1>12, <1>13 DEF InTime

(* What reaches the list when a stream is at rest is later than what the   *)
(* stream has reached.                                                     *)
LEMMA PagesKeep ==
  ASSUME LogInv, PageInv, PastStays, InTime', UNCHANGED <<setup, pages>>,
         Alone => \A r \in Elements(log') :
           r \in Elements(log) \/ \E b \in Apps : Writing(b) /\ r = worker[b].record
  PROVE  PageInv'
<1>1. UNCHANGED <<page, stream, fetched>> /\ \A p \in Pages : OnPage(p)' = OnPage(p)
  BY DEF pages, OnPage
<1>2. PageTyped'
  BY <1>1 DEF PageInv, PageTyped
<1>3. ASSUME NEW p \in Pages, NEW r \in OnPage(p)' PROVE Past(r)'
  <2>1. r \in Record /\ Past(r)
    BY <1>1, <1>3, InAround, AroundFacts DEF PageInv
  <2> QED BY <2>1 DEF PastStays
<1>4. ASSUME NEW p \in Pages PROVE Reached(p)'
  BY <1>1 DEF PageInv, Reached
<1>5. ASSUME NEW p \in Pages, stream[p].open, Alone, setup.strict, NEW r \in Elements(log'),
             r.ts <= stream[p].last
      PROVE  r \in Elements(page[p])
  <2>1. CASE r \in Elements(log)
    BY <1>5, <2>1 DEF PageInv, Complete, PassedOver
  <2>2. CASE \E b \in Apps : Writing(b) /\ r = worker[b].record
    <3>1. PICK b \in Apps : Writing(b) /\ r = worker[b].record
      BY <2>2
    <3>2. r \in Around /\ r.ts \in Nat /\ 1 <= r.ts /\ r.app = b
      BY <3>1, InAround DEF PageInv, InTime, LogInv, Queued
    <3>3. stream[p].last # 0
      BY <1>5, <3>2
    <3>4. PICK s \in Elements(page[p]) : s.ts = stream[p].last
      BY <1>5, <3>3 DEF PageInv, Reached
    <3>5. s \in Around /\ Past(s)
      BY InAround DEF PageInv, OnPage
    <3>6. s.app = b /\ s.n < r.n
      BY <1>5, <3>1, <3>2, <3>5, AroundFacts DEF Past, Alone
    <3>7. s.ts < r.ts /\ s.ts \in Nat
      BY <1>5, <3>2, <3>5, <3>6 DEF PageInv, InTime
    <3> QED BY <1>5, <3>2, <3>4, <3>7
  <2> QED BY <1>5, <2>1, <2>2
<1>6. ASSUME NEW p \in Pages PROVE Complete(p)'
  BY <1>1, <1>5 DEF Complete, PassedOver, Alone
<1> QED BY <1>2, <1>3, <1>4, <1>6 DEF PageInv

LEMMA PagesNext ==
  ASSUME LogInv, PageInv, [Next]_vars
  PROVE  PageInv'
<1>1. PastStays
  BY LogNext
<1>2. ASSUME Around' \subseteq Around, UNCHANGED <<setup, clock, pages>>,
             Alone => \A r \in Elements(log') :
               r \in Elements(log) \/ \E b \in Apps : Writing(b) /\ r = worker[b].record
      PROVE  PageInv'
  BY <1>1, <1>2, TimeKeeps, PagesKeep DEF PageInv
<1>3. ASSUME NEW a \in Apps, Log(a) PROVE PageInv'
  <2>1. InTime' /\ UNCHANGED <<setup, pages, log>>
    BY <1>3, LogInTime DEF Log, server
  <2> QED BY <1>1, <2>1, PagesKeep
<1>4. ASSUME NEW a \in Apps, Close(a) \/ Work(a) \/ Abandon(a) PROVE PageInv'
  BY <1>2, <1>4, WorkPassesOn
<1>5. CASE LateWrite
  BY <1>2, <1>5, LatePassesOn
<1>6. ASSUME NEW p \in Pages, Answer(p) \/ ShowAnswer(p) \/ Connect(p) \/ Round(p) \/ Break(p)
      PROVE  PageInv'
  BY <1>6, AnswerKeeps, ConnectKeeps, RoundKeeps, BreakKeeps
<1>7. CASE UNCHANGED vars
  <2>1. UNCHANGED <<setup, log, late, clock, records, worker, page, stream, fetched>>
    BY <1>7 DEF vars, server, pages
  <2>2. Around' = Around
    BY <2>1 DEF Around, Lists, Writing, OnPage
  <2> QED BY <1>2, <2>1, <2>2 DEF pages
<1> QED BY <1>3, <1>4, <1>5, <1>6, <1>7 DEF Next

(* The inductive invariant of the pages, together with that of the log.    *)
THEOREM PageInvariant == Spec => [](LogInv /\ PageInv)
<1>1. Init => LogInv /\ PageInv
  BY LogInit, PagesInit
<1>2. (LogInv /\ PageInv) /\ [Next]_vars => (LogInv /\ PageInv)'
  BY LogNext, PagesNext
<1> QED BY <1>1, <1>2, PTL DEF Spec

(* The comparison of times in events() passes nothing over for good: for   *)
(* whatever in the list is not later than what an open stream has reached, *)
(* the page shows a record that is as recent; and the record itself, if    *)
(* there is one application and no two records have the same time.         *)
THEOREM NothingPassedOver ==
  Spec => [](\A p \in Pages : \A r \in Elements(log) :
               stream[p].open /\ r.ts <= stream[p].last =>
                 /\ \E shown \in Elements(page[p]) : shown.ts >= r.ts
                 /\ Alone /\ setup.strict => r \in Elements(page[p]))
<1>1. ASSUME LogInv, PageInv, NEW p \in Pages, NEW r \in Elements(log),
             stream[p].open, r.ts <= stream[p].last
      PROVE  /\ \E shown \in Elements(page[p]) : shown.ts >= r.ts
             /\ Alone /\ setup.strict => r \in Elements(page[p])
  <2>1. r.ts \in Nat /\ 1 <= r.ts
    BY <1>1, InAround DEF PageInv, InTime, Lists
  <2>2. stream[p].last # 0
    BY <1>1, <2>1
  <2>3. \E shown \in Elements(page[p]) : shown.ts >= r.ts
    BY <1>1, <2>2 DEF PageInv, Reached
  <2> QED BY <1>1, <2>3 DEF PageInv, Complete, PassedOver
<1>2. LogInv /\ PageInv =>
        \A p \in Pages : \A r \in Elements(log) :
          stream[p].open /\ r.ts <= stream[p].last =>
            /\ \E shown \in Elements(page[p]) : shown.ts >= r.ts
            /\ Alone /\ setup.strict => r \in Elements(page[p])
  BY <1>1
<1> QED BY <1>2, PageInvariant, PTL

(* A round of the stream catches up: after it the page shows a record as   *)
(* recent as any in the list, and all of the list if there is one          *)
(* application and no two records have the same time.  This is the step    *)
(* that PageUpToDate and PageComplete need again and again.                *)
THEOREM RoundCatchesUp ==
  Spec => [][\A p \in Pages : Round(p) =>
               /\ \A r \in Elements(log') : \E shown \in Elements(page'[p]) : shown.ts >= r.ts
               /\ Alone /\ setup.strict => Elements(log') \subseteq Elements(page'[p])]_vars
<1>1. ASSUME LogInv, PageInv, NEW p \in Pages, Round(p)
      PROVE  /\ \A r \in Elements(log') : \E shown \in Elements(page'[p]) : shown.ts >= r.ts
             /\ Alone /\ setup.strict => Elements(log') \subseteq Elements(page'[p])
  <2> DEFINE shown == Rendered(page[p], News(log, stream[p].last))
             reached == LastTime(log, stream[p].last)
  <2>1. /\ reached \in Nat /\ \A r \in Elements(log) : r.ts <= reached
        /\ reached = 0 \/ \E r \in Elements(shown) : r.ts = reached
        /\ Alone /\ setup.strict => Elements(log) \subseteq Elements(shown)
    BY <1>1, RoundFacts DEF Round
  <2>2. log' = log /\ page'[p] = shown
    BY <1>1 DEF Round, Show, server, PageInv, PageTyped
  <2>3. \A r \in Elements(log) : r.ts \in Nat /\ 1 <= r.ts
    BY <1>1, InAround DEF PageInv, InTime, Lists
  <2> HIDE DEF shown, reached
  <2>4. ASSUME NEW r \in Elements(log) PROVE \E s \in Elements(shown) : s.ts >= r.ts
    BY <2>1, <2>3, <2>4
  <2> QED BY <2>1, <2>2, <2>4
<1>2. LogInv /\ PageInv =>
        [\A p \in Pages : Round(p) =>
           /\ \A r \in Elements(log') : \E shown \in Elements(page'[p]) : shown.ts >= r.ts
           /\ Alone /\ setup.strict => Elements(log') \subseteq Elements(page'[p])]_vars
  BY <1>1
<1> QED BY <1>2, PageInvariant, PTL DEF Spec

=============================================================================
