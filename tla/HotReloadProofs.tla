-------------------------- MODULE HotReloadProofs --------------------------
(***************************************************************************)
(* Proofs about the configuration path.  An object is stored, seen by the  *)
(* child, queued and applied: what is further on that way was stored       *)
(* earlier.                                                                *)
(***************************************************************************)
EXTENDS HotReload, SequenceTheorems, TLAPS

Stored  == [value : Objects, n : 0 .. MaxSets]
Message == Stored \cup {Failure}

(* The object before the first change has no fields. *)
FirstIsEmpty(o) == o.n = 0 => o = Object(Nothing, 0)

(* What the child has seen last is the object, or an older one, and what   *)
(* the algorithm has is not newer.                                         *)
Seen ==
  IF last = Unread THEN applied = Object(Nothing, 0)
  ELSE /\ last.n <= conf.n /\ (last.n = conf.n => last = conf)
       /\ applied.n <= last.n

(* A message carries an object that was seen, and is not applied yet,      *)
(* unless it is the one the application starts with.                       *)
Ahead(m, seen, done) ==
  m # Failure => /\ seen # Unread /\ m.n <= seen.n
                 /\ m.n > done.n \/ m = done

InOrder ==
  \A i, j \in 1 .. Len(updates) :
    i < j /\ updates[i] # Failure /\ updates[j] # Failure => updates[i].n < updates[j].n

ReloadInv ==
  /\ TypeOK /\ Seen /\ InOrder
  /\ FirstIsEmpty(conf)
  /\ \A i \in 1 .. Len(updates) : Ahead(updates[i], last, applied)

-----------------------------------------------------------------------------
(* Objects and messages *)

LEMMA Markers ==
  /\ Unread \notin Stored /\ Failure \notin Stored
  /\ \A o \in Stored : o.value \in Objects /\ o.n \in 0 .. MaxSets /\ o = Object(o.value, o.n)
  /\ \A v \in Objects, n \in 0 .. MaxSets : Object(v, n) \in Stored
  /\ Nothing \in Objects /\ Object(Nothing, 0) \in Stored
BY HotReloadAssumption DEF Unread, Failure, Stored, Object, Objects, Nothing

LEMMA MergedFacts ==
  ASSUME NEW v \in Objects, NEW w \in Objects
  PROVE  Merged(v, w) \in Objects /\ Merged(v, v) = v
BY DEF Merged, Objects

LEMMA TypeFacts ==
  ASSUME TypeOK
  PROVE  /\ conf \in Stored /\ applied \in Stored /\ last \in Stored \cup {Unread}
         /\ \A s \in Setters : setter[s] \in Stored \cup {Unread}
         /\ updates \in Seq(Message) /\ Len(updates) \in Nat
         /\ \A i \in 1 .. Len(updates) : updates[i] \in Message
BY DEF TypeOK, Stored, Message

LEMMA ReloadInit == Init => ReloadInv
<1> SUFFICES ASSUME Init PROVE ReloadInv
  OBVIOUS
<1>1. TypeOK
  <2>1. conf \in Stored /\ applied \in Stored
    BY Markers DEF Init
  <2>2. updates \in Seq(Message) /\ Len(updates) = 0
    BY DEF Init
  <2>3. Len(updates) <= MaxUpdates
    BY <2>2, HotReloadAssumption
  <2>4. \A s \in Setters : setter[s] = Unread
    BY DEF Init
  <2> QED BY <2>1, <2>2, <2>3, <2>4 DEF Init, TypeOK, Stored, Message
<1> QED BY <1>1 DEF Init, ReloadInv, Seen, InOrder, FirstIsEmpty, Object

(* An object that is stored has a number nobody has seen. *)
LEMMA StoreKeeps ==
  ASSUME ReloadInv, NEW v \in Objects, Store(v),
         UNCHANGED <<last, updates, applied, poller, main, handling, stop>>,
         \A s \in Setters : setter'[s] \in {setter[s], Unread}
  PROVE  ReloadInv'
<1>1. conf \in Stored /\ conf' \in Stored /\ conf'.n = conf.n + 1
  <2>1. conf \in Stored /\ conf.n \in 0 .. MaxSets /\ conf.n < MaxSets
        /\ conf' = Object(v, conf.n + 1)
    BY TypeFacts, Markers DEF ReloadInv, Store
  <2>2. conf.n + 1 \in 0 .. MaxSets
    BY <2>1, HotReloadAssumption
  <2> QED BY <2>1, <2>2, Markers DEF Object
<1>2. TypeOK'
  BY <1>1, TypeFacts DEF ReloadInv, TypeOK, Stored, poller
<1>3. FirstIsEmpty(conf)'
  BY <1>1, Markers DEF FirstIsEmpty
<1>4. Seen'
  BY <1>1, TypeFacts, Markers DEF ReloadInv, Seen, Unread
<1> QED BY <1>2, <1>3, <1>4 DEF ReloadInv, InOrder, Ahead

LEMMA SettersKeep ==
  ASSUME ReloadInv, NEW s \in Setters, ReadConfig(s) \/ WriteMerged(s) \/ WriteReplaced(s)
  PROVE  ReloadInv'
<1>1. CASE ReadConfig(s)
  <2>1. TypeOK'
    BY <1>1, TypeFacts DEF ReadConfig, ReloadInv, TypeOK, Stored, poller
  <2> QED BY <1>1, <2>1 DEF ReadConfig, ReloadInv, Seen, InOrder, Ahead, FirstIsEmpty, Unread
<1>2. CASE WriteMerged(s)
  <2>1. PICK update \in Objects : Store(Merged(setter[s].value, update))
    BY <1>2 DEF WriteMerged
  <2>2. Merged(setter[s].value, update) \in Objects
    BY <1>2, TypeFacts, Markers, MergedFacts DEF WriteMerged, ReloadInv
  <2>3. \A t \in Setters : setter'[t] \in {setter[t], Unread}
    BY <1>2 DEF WriteMerged
  <2> QED BY <1>2, <2>1, <2>2, <2>3, StoreKeeps DEF WriteMerged
<1>3. CASE WriteReplaced(s)
  BY <1>3, StoreKeeps DEF WriteReplaced
<1> QED BY <1>1, <1>2, <1>3

-----------------------------------------------------------------------------
(* The queue *)

LEMMA PutFacts ==
  ASSUME TypeOK, NEW m \in Message, Put(m)
  PROVE  /\ updates' \in Seq(Message) /\ Len(updates') = Len(updates) + 1
         /\ Len(updates') <= MaxUpdates
         /\ updates'[Len(updates')] = m
         /\ \A i \in 1 .. Len(updates) : updates'[i] = updates[i]
BY TypeFacts, HotReloadAssumption DEF TypeOK, Put

(* A message joins those that carry older objects. *)
LEMMA PutKeeps ==
  ASSUME ReloadInv, NEW m \in Message, Put(m), Ahead(m, last', applied'),
         \A i \in 1 .. Len(updates) :
           updates[i] # Failure => Ahead(updates[i], last', applied') /\ (m = Failure \/ updates[i].n < m.n)
  PROVE  InOrder' /\ \A i \in 1 .. Len(updates') : Ahead(updates'[i], last', applied')
<1> USE PutFacts, TypeFacts DEF ReloadInv
<1>1. InOrder'
  BY DEF InOrder
<1>2. ASSUME NEW i \in 1 .. Len(updates')
      PROVE  Ahead(updates'[i], last', applied')
  <2>1. CASE i = Len(updates')
    BY <2>1
  <2>2. CASE i \in 1 .. Len(updates)
    BY <2>2 DEF Ahead
  <2> QED BY <2>1, <2>2
<1> QED BY <1>1, <1>2

LEMMA PollKeeps ==
  ASSUME ReloadInv, Poll
  PROVE  ReloadInv'
<1>0. /\ last' = conf /\ conf \in Stored /\ conf' = conf /\ applied' = applied /\ Put(conf)
      /\ conf # Failure /\ conf # Unread /\ conf \in Message
  BY TypeFacts, Markers DEF Poll, ReloadInv, Message
<1>1. last = Unread \/ last.n < conf.n
  BY <1>0, TypeFacts, Markers DEF ReloadInv, Poll, Seen
<1>2. conf.n > applied.n \/ conf = applied
  BY <1>0, <1>1, TypeFacts, Markers DEF ReloadInv, Seen, FirstIsEmpty, Object
<1>3. Ahead(conf, last', applied') /\ Seen'
  <2>1. conf.n \in Nat /\ applied.n \in Nat
    BY <1>0, TypeFacts, Markers DEF ReloadInv
  <2>2. applied.n <= conf.n
    BY <1>2, <2>1
  <2> QED BY <1>0, <1>2, <2>1, <2>2 DEF Ahead, Seen
<1>4. ASSUME NEW i \in 1 .. Len(updates), updates[i] # Failure
      PROVE  Ahead(updates[i], last', applied') /\ updates[i].n < conf.n
  BY <1>0, <1>1, <1>4, TypeFacts, Markers DEF ReloadInv, Ahead, Message, Unread
<1>5. InOrder' /\ \A i \in 1 .. Len(updates') : Ahead(updates'[i], last', applied')
  BY <1>0, <1>3, <1>4, PutKeeps
<1>6. TypeOK'
  BY <1>0, PutFacts, TypeFacts DEF Poll, ReloadInv, TypeOK, Stored, Message, poller
<1> QED BY <1>0, <1>3, <1>5, <1>6 DEF ReloadInv, FirstIsEmpty

LEMMA PollFailsKeeps ==
  ASSUME ReloadInv, PollFails
  PROVE  ReloadInv'
<1>0. /\ last' = last /\ conf' = conf /\ applied' = applied /\ Put(Failure)
      /\ Failure \in Message
  BY DEF PollFails, Message
<1>1. Ahead(Failure, last', applied') /\ \A i \in 1 .. Len(updates) : Ahead(updates[i], last', applied')
  BY <1>0 DEF ReloadInv, Ahead, Unread, Failure, Object
<1>2. InOrder' /\ \A i \in 1 .. Len(updates') : Ahead(updates'[i], last', applied')
  BY <1>0, <1>1, PutKeeps
<1>3. TypeOK'
  BY <1>0, PutFacts, TypeFacts DEF PollFails, ReloadInv, TypeOK, Stored, Message, poller
<1> QED BY <1>0, <1>2, <1>3 DEF ReloadInv, Seen, FirstIsEmpty, Unread, Object

(* The rest of the queue is what it was, one place further on. *)
LEMMA TailFacts ==
  ASSUME TypeOK, updates # <<>>, updates' = Tail(updates)
  PROVE  /\ Head(updates) = updates[1] /\ updates[1] \in Message /\ 1 \in 1 .. Len(updates)
         /\ updates' \in Seq(Message) /\ Len(updates') = Len(updates) - 1
         /\ Len(updates') <= MaxUpdates
         /\ \A i \in 1 .. Len(updates') : i + 1 \in 1 .. Len(updates) /\ updates'[i] = updates[i + 1]
<1>1. updates \in Seq(Message) /\ Len(updates) \in Nat /\ Len(updates) # 0
  BY TypeFacts, EmptySeq
<1> QED BY <1>1, HotReloadAssumption DEF TypeOK

(* What an applied object does to the configuration. *)
LEMMA AppliedFacts ==
  ASSUME ReloadInv, Drain
  PROVE  /\ applied' \in Stored
         /\ IF updates[1] = Failure THEN applied' = applied
            ELSE applied'.n = updates[1].n /\ (applied' = applied \/ applied'.n > applied.n)
<1>1. Head(updates) = updates[1] /\ updates[1] \in Message /\ Ahead(updates[1], last, applied)
  BY TailFacts DEF ReloadInv, Drain
<1>2. applied \in Stored
  BY TypeFacts DEF ReloadInv
<1>3. CASE updates[1] = Failure
  BY <1>1, <1>2, <1>3 DEF Drain
<1>4. CASE updates[1] # Failure
  <2>1. updates[1] \in Stored /\ updates[1].value \in Objects /\ updates[1].n \in 0 .. MaxSets
    BY <1>1, <1>4, Markers DEF Message
  <2>2. applied' = Object(Merged(applied.value, updates[1].value), updates[1].n)
    BY <1>1, <1>4 DEF Drain
  <2>3. Merged(applied.value, updates[1].value) \in Objects
    BY <1>2, <2>1, Markers, MergedFacts
  <2>4. applied' \in Stored /\ applied'.n = updates[1].n
    BY <2>1, <2>2, <2>3, Markers DEF Object
  <2>5. CASE updates[1] = applied
    <3>1. applied' = Object(applied.value, applied.n)
      BY <1>2, <2>2, <2>5, Markers, MergedFacts
    <3> QED BY <1>2, <1>4, <2>4, <3>1, Markers
  <2>6. CASE updates[1].n > applied.n
    BY <1>4, <2>4, <2>6
  <2> QED BY <1>1, <1>4, <2>5, <2>6 DEF Ahead
<1> QED BY <1>3, <1>4

LEMMA DrainKeeps ==
  ASSUME ReloadInv, Drain
  PROVE  ReloadInv'
<1>0. /\ last' = last /\ conf' = conf /\ updates # <<>> /\ updates' = Tail(updates) /\ TypeOK
      /\ applied' \in Stored
  BY AppliedFacts DEF Drain, ReloadInv
<1>1. TypeOK'
  BY <1>0, TailFacts DEF Drain, TypeOK, Stored, Message, poller
<1>2. InOrder'
  BY <1>0, TailFacts, TypeFacts DEF ReloadInv, InOrder
<1>3. ASSUME NEW i \in 1 .. Len(updates'), updates'[i] # Failure
      PROVE  Ahead(updates'[i], last', applied')
  <2>1. /\ updates'[i] = updates[i + 1] /\ i + 1 \in 1 .. Len(updates) /\ 1 \in 1 .. Len(updates)
        /\ Ahead(updates[i + 1], last, applied) /\ updates[i + 1] # Failure
    BY <1>0, <1>3, TailFacts DEF ReloadInv
  <2>2. updates[1] # Failure => updates[1].n < updates[i + 1].n
    BY <2>1, TypeFacts DEF ReloadInv, InOrder
  <2>3. updates[i + 1].n > applied'.n \/ updates[i + 1] = applied'
    BY <2>1, <2>2, AppliedFacts DEF Ahead
  <2> QED BY <1>0, <2>1, <2>3 DEF Ahead, Unread
<1>4. Seen'
  <2>1. CASE last = Unread
    BY <1>0, <2>1, TailFacts, AppliedFacts DEF ReloadInv, Ahead, Seen, Unread, Object
  <2>2. CASE last # Unread
    BY <1>0, <2>2, TailFacts, AppliedFacts DEF ReloadInv, Ahead, Seen, Unread
  <2> QED BY <2>1, <2>2
<1>5. \A i \in 1 .. Len(updates') : Ahead(updates'[i], last', applied')
  BY <1>3 DEF Ahead
<1> QED BY <1>0, <1>1, <1>2, <1>4, <1>5 DEF ReloadInv, FirstIsEmpty, Object, Nothing

(* The steps that move child and main process and leave objects alone.    *)
Moves ==
  \/ Sleep \/ Wake \/ ChildEnds \/ ChildDies
  \/ Drained \/ Step \/ Test \/ Close \/ Join \/ Leave \/ Shutdown \/ HandleSignal

LEMMA MovesFacts ==
  ASSUME Moves
  PROVE  UNCHANGED <<conf, setter, last, updates, applied>>
BY DEF Moves, objects, Sleep, Wake, ChildEnds, ChildDies, Drained, Step, Test, Close, Join, Leave,
       Shutdown, HandleSignal

LEMMA MovesType ==
  ASSUME TypeOK, Moves
  PROVE  /\ child' \in {"awake", "asleep", "terminated", "ended"}
         /\ left' \in {"nothing", "lock", "sleeper", "message"}
         /\ main' \in {"testing", "draining", "stepping", "closing", "joining", "leaving", "done", "stuck"}
         /\ handling' \in BOOLEAN /\ stop' \in BOOLEAN
<1> USE DEF TypeOK
<1>1. CASE Sleep \/ Wake \/ ChildEnds \/ ChildDies
  BY <1>1 DEF Sleep, Wake, ChildEnds, ChildDies
<1>2. CASE Drained \/ Step \/ Test \/ Join \/ Leave
  BY <1>2 DEF Drained, Step, Test, Join, Leave, poller
<1>3. CASE Shutdown
  BY <1>3 DEF Shutdown, poller
<1>4. CASE Close \/ HandleSignal
  <2>1. PICK next \in {"testing", "draining", "stepping", "closing", "joining", "leaving", "done", "stuck"} :
          SetEvent(next)
    BY <1>4 DEF Close, HandleSignal
  <2>2. child' \in {"awake", "asleep", "terminated", "ended"} /\ stop' \in BOOLEAN
    BY <2>1 DEF SetEvent
  <2>3. main' \in {"testing", "draining", "stepping", "closing", "joining", "leaving", "done", "stuck"}
    BY <2>1 DEF SetEvent
  <2> QED BY <1>4, <2>2, <2>3 DEF Close, HandleSignal
<1> QED BY <1>1, <1>2, <1>3, <1>4 DEF Moves

LEMMA OthersKeep ==
  ASSUME ReloadInv, Moves \/ UNCHANGED vars
  PROVE  ReloadInv'
<1>1. UNCHANGED <<conf, setter, last, updates, applied>>
  BY MovesFacts DEF vars, objects
<1>2. TypeOK'
  <2>1. CASE Moves
    BY <1>1, <2>1, MovesType DEF ReloadInv, TypeOK
  <2>2. CASE UNCHANGED vars
    BY <1>1, <2>2 DEF ReloadInv, TypeOK, vars, poller
  <2> QED BY <2>1, <2>2
<1> QED BY <1>1, <1>2 DEF ReloadInv, Seen, InOrder, Ahead, FirstIsEmpty

(* Next, with the steps that only move something put together.            *)
LEMMA NextCases ==
  ASSUME Next
  PROVE  \/ \E s \in Setters : ReadConfig(s) \/ WriteMerged(s) \/ WriteReplaced(s)
         \/ Poll \/ PollFails \/ Drain \/ Moves
BY DEF Next, Main, Moves

LEMMA ReloadNext == ReloadInv /\ [Next]_vars => ReloadInv'
<1> SUFFICES ASSUME ReloadInv, [Next]_vars PROVE ReloadInv'
  OBVIOUS
<1> QED BY NextCases, SettersKeep, PollKeeps, PollFailsKeeps, DrainKeeps, OthersKeep

-----------------------------------------------------------------------------

(* The inductive invariant of the configuration path. *)
THEOREM ReloadInvariant == Spec => []ReloadInv
BY ReloadInit, ReloadNext, PTL DEF Spec

(* However long the queue, the objects, the messages and the loops of      *)
(* child and main process are what they are said to be.                    *)
THEOREM ReloadTypeCorrect == Spec => []TypeOK
BY ReloadInvariant, PTL DEF ReloadInv

(* For any number of "set" commands, failing polls and messages waiting,   *)
(* the algorithm is given objects in the order in which they were stored,  *)
(* and none of them twice.                                                 *)
THEOREM AppliedInOrderHolds == Spec => AppliedInOrder
<1>1. ReloadInv /\ [Next]_vars => [applied' # applied => applied'.n > applied.n]_vars
  <2> SUFFICES ASSUME ReloadInv, Next, applied' # applied PROVE applied'.n > applied.n
    OBVIOUS
  <2>1. Drain
    BY NextCases, MovesFacts DEF ReadConfig, WriteMerged, WriteReplaced, Poll, PollFails
  <2> QED BY <2>1, AppliedFacts
<1> QED BY <1>1, ReloadInvariant, PTL DEF Spec, AppliedInOrder

-----------------------------------------------------------------------------
(* What the child has seen is on its way, or the algorithm has all its     *)
(* fields.                                                                 *)
Has(object, settings) == \A f \in Fields : settings[f] # NoValue => object[f] = settings[f]

Delivered ==
  last # Unread =>
    \/ \E i \in 1 .. Len(updates) : updates[i] = last
    \/ applied.n = last.n /\ Has(applied.value, last.value)

LEMMA DrainDelivers ==
  ASSUME ReloadInv, Delivered, Drain
  PROVE  Delivered'
<1> SUFFICES ASSUME last # Unread PROVE Delivered'
  BY DEF Drain, Delivered
<1>1. /\ last' = last /\ updates # <<>> /\ updates' = Tail(updates) /\ TypeOK
      /\ last \in Stored /\ last # Failure /\ applied \in Stored
  BY TypeFacts, Markers DEF Drain, ReloadInv
<1>2. /\ Head(updates) = updates[1] /\ updates[1] \in Message /\ 1 \in 1 .. Len(updates)
      /\ Len(updates') = Len(updates) - 1 /\ Len(updates) \in Nat
      /\ \A i \in 1 .. Len(updates') : updates'[i] = updates[i + 1]
  BY <1>1, TailFacts, TypeFacts
<1>3. CASE updates[1] = last
  <2>1. applied' = Object(Merged(applied.value, last.value), last.n)
    BY <1>1, <1>2, <1>3 DEF Drain
  <2>2. Has(Merged(applied.value, last.value), last.value)
    BY DEF Has, Merged
  <2>3. applied'.n = last.n /\ applied'.value = Merged(applied.value, last.value)
    BY <2>1 DEF Object
  <2> QED BY <1>1, <2>2, <2>3 DEF Delivered
<1>4. CASE updates[1] # last /\ \E i \in 1 .. Len(updates) : updates[i] = last
  <2>1. PICK i \in 1 .. Len(updates) : updates[i] = last
    BY <1>4
  <2>2. i - 1 \in 1 .. Len(updates') /\ (i - 1) + 1 = i
    BY <1>2, <1>4, <2>1
  <2>3. updates'[i - 1] = last
    BY <1>2, <2>1, <2>2
  <2> QED BY <1>1, <2>2, <2>3 DEF Delivered
<1>5. CASE ~\E i \in 1 .. Len(updates) : updates[i] = last
  <2>1. applied.n = last.n /\ Has(applied.value, last.value)
    BY <1>5 DEF Delivered
  <2>2. CASE updates[1] = Failure
    <3>1. applied' = applied
      BY <1>2, <2>2 DEF Drain
    <3> QED BY <1>1, <2>1, <3>1 DEF Delivered
  <2>3. CASE updates[1] # Failure
    <3>1. Ahead(updates[1], last, applied)
      BY <1>2 DEF ReloadInv
    <3>2. updates[1].n \in Nat /\ last.n \in Nat
      BY <1>1, <1>2, <2>3, Markers DEF Message
    <3>3. updates[1] = applied
      BY <2>1, <2>3, <3>1, <3>2 DEF Ahead
    <3>4. applied' = Object(Merged(applied.value, applied.value), applied.n)
      BY <1>2, <2>3, <3>3 DEF Drain
    <3>5. applied' = applied
      BY <1>1, <3>4, Markers, MergedFacts
    <3> QED BY <1>1, <2>1, <3>5 DEF Delivered
  <2> QED BY <2>2, <2>3
<1> QED BY <1>3, <1>4, <1>5

LEMMA DeliveredNext == ReloadInv /\ Delivered /\ [Next]_vars => Delivered'
<1> SUFFICES ASSUME ReloadInv, Delivered, [Next]_vars PROVE Delivered'
  OBVIOUS
<1>1. TypeOK /\ conf \in Message /\ Failure \in Message
  BY TypeFacts DEF ReloadInv, Message
<1>2. CASE Poll
  <2>1. Put(conf) /\ last' = conf
    BY <1>2 DEF Poll
  <2>2. updates'[Len(updates')] = conf /\ Len(updates') \in 1 .. Len(updates')
    BY <1>1, <2>1, PutFacts, TypeFacts
  <2> QED BY <2>1, <2>2 DEF Delivered
<1>3. CASE PollFails
  <2>1. Put(Failure) /\ UNCHANGED <<last, applied>>
    BY <1>3 DEF PollFails
  <2>2. \A i \in 1 .. Len(updates) : i \in 1 .. Len(updates') /\ updates'[i] = updates[i]
    BY <1>1, <2>1, PutFacts, TypeFacts
  <2> QED BY <2>1, <2>2 DEF Delivered, Unread
<1>4. CASE UNCHANGED <<last, updates, applied>>
  BY <1>4 DEF Delivered, Unread
<1>5. \/ Poll \/ PollFails \/ Drain \/ UNCHANGED <<last, updates, applied>>
  BY NextCases, MovesFacts DEF vars, objects, ReadConfig, WriteMerged, WriteReplaced
<1> QED BY <1>2, <1>3, <1>4, <1>5, DrainDelivers

(* Nothing is lost between the child and the algorithm, and nothing that   *)
(* is waiting can undo it: once no object is in the queue, the algorithm   *)
(* has every setting of the object the child has seen last.  This is what  *)
(* SettingsReachAlgorithm needs besides that the loops go round.           *)
THEOREM SeenIsApplied ==
  Spec => [](last # Unread /\ (\A i \in 1 .. Len(updates) : updates[i] = Failure) =>
               \A f \in Fields : last.value[f] # NoValue => applied.value[f] = last.value[f])
<1>1. Init => Delivered
  BY DEF Init, Delivered
<1>2. ReloadInv /\ Delivered =>
        (last # Unread /\ (\A i \in 1 .. Len(updates) : updates[i] = Failure) =>
           \A f \in Fields : last.value[f] # NoValue => applied.value[f] = last.value[f])
  BY TypeFacts, Markers DEF ReloadInv, Delivered, Has
<1> QED BY <1>1, <1>2, DeliveredNext, ReloadInvariant, PTL DEF Spec

-----------------------------------------------------------------------------
(* What a dead child left behind stays, and a stuck main process stays in  *)
(* its handler, if it is stuck there.                                      *)
Blocked ==
  /\ left # "nothing" => child = "ended"
  /\ main = "stuck" => Deadlocked

LEMMA BlockedNext == Blocked /\ [Next]_vars => Blocked'
<1> SUFFICES ASSUME Blocked, [Next]_vars PROVE Blocked'
  OBVIOUS
<1> USE DEF Blocked, Deadlocked
<1>1. CASE UNCHANGED <<child, left, main, handling>>
  BY <1>1
<1>2. CASE Sleep \/ Wake \/ ChildEnds
  BY <1>2 DEF Sleep, Wake, ChildEnds, Awake
<1>3. CASE ChildDies
  BY <1>3 DEF ChildDies
<1>4. CASE Drained \/ Step \/ Test \/ Leave
  BY <1>4 DEF Drained, Step, Test, Leave, Runs, poller
<1>5. CASE Close \/ HandleSignal
  BY <1>5 DEF Close, HandleSignal, SetEvent, Runs
<1>6. CASE Join
  BY <1>6 DEF Join, Runs
<1>7. CASE Shutdown
  BY <1>7 DEF Shutdown, poller
<1>8. CASE \/ \E s \in Setters : ReadConfig(s) \/ WriteMerged(s) \/ WriteReplaced(s)
           \/ Poll \/ PollFails \/ Drain \/ UNCHANGED vars
  <2>1. UNCHANGED <<child, left, main, handling>>
    BY <1>8 DEF ReadConfig, WriteMerged, WriteReplaced, Poll, PollFails, Drain, vars, poller
  <2> QED BY <2>1
<1> QED BY <1>2, <1>3, <1>4, <1>5, <1>6, <1>7, <1>8, NextCases DEF Moves

(* The main process waits for ever only in the handler of a signal that   *)
(* interrupted a method of the event, or for what a child left behind     *)
(* that was killed in the middle: the two exceptions of ShutdownEnds are  *)
(* the only states it can be stuck in.                                    *)
THEOREM OnlyThenStuck == Spec => [](main = "stuck" => Deadlocked)
<1>1. Init => Blocked
  BY DEF Init, Blocked
<1>2. Blocked => (main = "stuck" => Deadlocked)
  BY DEF Blocked
<1> QED BY <1>1, <1>2, BlockedNext, PTL DEF Spec

=============================================================================
