-------------------------- MODULE JsonServerProofs --------------------------
(***************************************************************************)
(* Proofs about JsonStore, ConstJsonStore and the router, for every set of *)
(* keys, payloads and stores and every clock.  The lemmas about single     *)
(* commands are stated with their earliest instant as a parameter, so that *)
(* the constant store, which runs some of them after a look of its own,    *)
(* can use them too.                                                       *)
(*                                                                         *)
(* Of the router: the two stores stay apart, a constant is never changed   *)
(* by any command, and a command that fails has no effect.                 *)
(***************************************************************************)
EXTENDS JsonServer, FiniteSetTheorems, TLAPS, WellFoundedInduction

-----------------------------------------------------------------------------
(* Types of what the operators return *)

LEMMA TimeIsInteger == \A t \in Time : t \in Int /\ t <= MaxClock
BY TimeAssumption DEF Time

LEMMA FromType == ASSUME NEW t \in Time PROVE From(t) \subseteq Time
BY TimeAssumption DEF Time, From

LEMMA FromSelf == ASSUME NEW t \in Time PROVE t \in From(t)
BY TimeAssumption DEF Time, From

LEMMA AliveAtType ==
  ASSUME NEW x \in Item \cup {Absent}, NEW t
  PROVE  AliveAt(x, t) \in Item \cup {Absent}
BY DEF AliveAt

LEMMA PurgeType ==
  ASSUME NEW d \in Dictionary, NEW k \in Keys, NEW t
  PROVE  Purge(d, k, t) \in Dictionary
BY AliveAtType DEF Purge, Dictionary

LEMMA DeadlineAfterType ==
  ASSUME NEW ttl \in Ttls, NEW t \in Time
  PROVE  DeadlineAfter(ttl, t) \in Deadlines
BY TimeAssumption, SentinelAssumption DEF DeadlineAfter, Ttls, Deadlines, Time

LEMMA RoundToMsType ==
  ASSUME NEW d \in Int PROVE RoundToMs(d) \in Int
BY TimeAssumption DEF RoundToMs

LEMMA EncodeDumpType ==
  ASSUME NEW x \in Item, Dumpable(x), NEW t \in Time
  PROVE  EncodeDump(x, t) \in Blob
<1>1. x.exp \in Int \cup {NoDeadline}
  BY DEF Item, Deadlines, Dumpable
<1>2. CASE x.exp = NoDeadline
  BY <1>2 DEF EncodeDump, Blob, Item
<1>3. CASE x.exp \in Int
  <2>1. x.exp - t \in Int
    BY <1>3 DEF Time
  <2>2. TtlMs(x.exp, t) \in Nat
    BY <2>1, RoundToMsType DEF TtlMs
  <2> QED BY <2>2 DEF EncodeDump, Blob, Item
<1> QED BY <1>1, <1>2, <1>3

LEMMA DecodeDumpType ==
  ASSUME NEW b \in Blob, NEW t \in Time
  PROVE  DecodeDump(b, t) \in Item
<1>1. CASE b.ttl \in {NoDeadline, NotFinite}
  BY <1>1 DEF DecodeDump, StoredValue, Blob, Item, Deadlines
<1>2. CASE b.ttl \notin {NoDeadline, NotFinite}
  <2>1. b.ttl \in Nat
    BY <1>2 DEF Blob
  <2>2. t + b.ttl * TicksPerMs \in Int
    BY <2>1, TimeAssumption DEF Time
  <2> QED BY <1>2, <2>2 DEF DecodeDump, StoredValue, Blob, Item, Deadlines
<1> QED BY <1>1, <1>2

-----------------------------------------------------------------------------
(* Types of replies *)

LEMMA PlainReplies == {Ok, Nil, Error, Pong} \subseteq Replies
BY DEF Replies, Values

LEMMA CountType == ASSUME NEW n \in Nat PROVE Count(n) \in Replies
BY DEF Count, Replies

LEMMA GetReplyType ==
  ASSUME NEW x \in Item \cup {Absent} PROVE GetReply(x) \in Values
BY DEF GetReply, ValueOf, Values, Item, Nil

LEMMA ValuesAreReplies == Values \subseteq Replies
BY DEF Replies

LEMMA JsonGetReplyType ==
  ASSUME NEW x \in Item \cup {Absent} PROVE JsonGetReply(x) \in Replies
BY GetReplyType, ValuesAreReplies, PlainReplies DEF JsonGetReply

LEMMA OldReplyType ==
  ASSUME NEW x \in Item \cup {Absent} PROVE OldReply(x) \in Replies
<1>1. CASE x = Absent
  BY <1>1, PlainReplies DEF OldReply
<1>2. CASE x # Absent /\ x.json
  BY <1>2 DEF OldReply, Replies, Item
<1>3. CASE x # Absent /\ ~x.json
  <2>1. <<"raw", x.val>> \in Values
    BY <1>3 DEF Values, Item
  <2> QED BY <1>3, <2>1, ValuesAreReplies DEF OldReply
<1> QED BY <1>1, <1>2, <1>3

LEMMA DumpReplyType ==
  ASSUME NEW x \in Item \cup {Absent}, NEW t \in Time PROVE DumpReply(x, t) \in Replies
<1>1. CASE x # Absent /\ Dumpable(x)
  <2>1. EncodeDump(x, t) \in Blob
    BY <1>1, EncodeDumpType
  <2> QED BY <1>1, <2>1 DEF DumpReply, Replies
<1>2. CASE x = Absent \/ ~Dumpable(x)
  BY <1>2, PlainReplies DEF DumpReply
<1> QED BY <1>1, <1>2

-----------------------------------------------------------------------------
(* Type correctness, one lemma for each command *)

LEMMA AnswerType ==
  ASSUME NEW op \in Operations, NEW ks \in Seq(Keys), NEW reply \in Replies,
         Answer(op, ks, reply)
  PROVE  last' \in [op : Operations, keys : Seq(Keys), reply : Replies]
BY DEF Answer

LEMMA NoKeys == <<>> \in Seq(Keys)
OBVIOUS

LEMMA OneKey == \A k \in Keys : <<k>> \in Seq(Keys)
OBVIOUS

LEMMA SeenType ==
  ASSUME TypeOK, NEW s \in Stores, NEW k \in Keys, NEW t
  PROVE  /\ AliveAt(items[s][k], t) \in Item \cup {Absent}
         /\ Purge(items[s], k, t) \in Dictionary
         /\ Purge(items[s], k, t)[k] = AliveAt(items[s][k], t)
         /\ [items EXCEPT ![s] = Purge(items[s], k, t)] \in [Stores -> Dictionary]
<1>1. items[s] \in Dictionary /\ items[s][k] \in Item \cup {Absent}
  BY DEF TypeOK, Dictionary
<1>2. Purge(items[s], k, t) \in Dictionary
  BY <1>1, PurgeType
<1>3. Purge(items[s], k, t)[k] = AliveAt(items[s][k], t)
  BY <1>1 DEF Purge, Dictionary
<1> QED BY <1>1, <1>2, <1>3, AliveAtType DEF TypeOK

(* A store in which a new entry is put after its key has been purged. *)
LEMMA StoredType ==
  ASSUME TypeOK, NEW s \in Stores, NEW k \in Keys, NEW t, NEW x \in Item
  PROVE  [items EXCEPT ![s] = [Purge(items[s], k, t) EXCEPT ![k] = x]]
           \in [Stores -> Dictionary]
BY SeenType DEF TypeOK, Dictionary

LEMMA UpdateType ==
  ASSUME TypeOK, NEW s \in Stores, NEW k \in Keys, NEW t, NEW x,
         \/ items' = [items EXCEPT ![s] = Purge(items[s], k, t)]
         \/ x \in Item /\ items' = [items EXCEPT ![s] = [Purge(items[s], k, t) EXCEPT ![k] = x]]
  PROVE  items' \in [Stores -> Dictionary]
<1>1. CASE items' = [items EXCEPT ![s] = Purge(items[s], k, t)]
  BY <1>1, SeenType
<1>2. CASE x \in Item /\ items' = [items EXCEPT ![s] = [Purge(items[s], k, t) EXCEPT ![k] = x]]
  BY <1>2, StoredType
<1> QED BY <1>1, <1>2

LEMMA ReadTypes ==
  ASSUME TypeOK, NEW s \in Stores, NEW k \in Keys, Get(s, k) \/ JsonGet(s, k) \/ Dump(s, k)
  PROVE  TypeOK'
<1>0. clock \in Time /\ From(clock) \subseteq Time
  BY FromType DEF TypeOK
<1>1. CASE Get(s, k)
  <2>1. PICK t \in From(clock) :
          /\ clock' = t /\ items' = [items EXCEPT ![s] = Purge(@, k, t)]
          /\ Answer("GET", <<k>>, GetReply(AliveAt(items[s][k], t)))
    BY <1>1 DEF Get
  <2>2. GetReply(AliveAt(items[s][k], t)) \in Replies
    BY SeenType, GetReplyType, ValuesAreReplies
  <2>3. "GET" \in Operations
    BY DEF Operations, Commands
  <2>4. last' \in [op : Operations, keys : Seq(Keys), reply : Replies]
    BY <2>1, <2>2, <2>3, OneKey, AnswerType
  <2> QED BY <1>0, <2>1, <2>4, SeenType DEF TypeOK
<1>2. CASE JsonGet(s, k)
  <2>1. PICK t \in From(clock) :
          /\ clock' = t /\ items' = [items EXCEPT ![s] = Purge(@, k, t)]
          /\ Answer("JSON.GET", <<k>>, JsonGetReply(AliveAt(items[s][k], t)))
    BY <1>2 DEF JsonGet
  <2>2. JsonGetReply(AliveAt(items[s][k], t)) \in Replies
    BY SeenType, JsonGetReplyType
  <2>3. "JSON.GET" \in Operations
    BY DEF Operations, Commands
  <2>4. last' \in [op : Operations, keys : Seq(Keys), reply : Replies]
    BY <2>1, <2>2, <2>3, OneKey, AnswerType
  <2> QED BY <1>0, <2>1, <2>4, SeenType DEF TypeOK
<1>3. CASE Dump(s, k)
  <2>1. PICK t1 \in From(clock), t2 \in Time :
          /\ clock' = t2 /\ items' = [items EXCEPT ![s] = Purge(@, k, t1)]
          /\ Answer("DUMP", <<k>>, DumpReply(AliveAt(items[s][k], t1), t2))
    BY <1>0, <1>3, FromType DEF Dump
  <2>2. t2 \in Time
    BY <2>1
  <2>3. DumpReply(AliveAt(items[s][k], t1), t2) \in Replies
    BY <2>2, SeenType, DumpReplyType
  <2>4. "DUMP" \in Operations
    BY DEF Operations, Commands
  <2>5. last' \in [op : Operations, keys : Seq(Keys), reply : Replies]
    BY <2>1, <2>3, <2>4, OneKey, AnswerType
  <2> QED BY <2>1, <2>2, <2>5, SeenType DEF TypeOK
<1> QED BY <1>1, <1>2, <1>3

LEMMA SetType ==
  ASSUME TypeOK, NEW s \in Stores, NEW now \in Time, NEW k \in Keys, NEW v \in Payloads,
         NEW ttl \in Ttls, NEW cond, NEW get \in BOOLEAN, Set(s, now, k, v, ttl, cond, get)
  PROVE  TypeOK'
<1> DEFINE op == IF get THEN "SET GET" ELSE "SET"
<1>1. PICK t1 \in From(now), t2 \in Time :
        LET seen == Purge(items[s], k, t1)
        IN /\ clock' = t2
           /\ \/ /\ items' = [items EXCEPT ![s] = seen]
                 /\ Answer(op, <<k>>, Error) \/ Answer(op, <<k>>, Nil)
              \/ /\ items' = [items EXCEPT ![s] =
                                [seen EXCEPT ![k] = StoredValue(v, DeadlineAfter(ttl, t2), FALSE)]]
                 /\ Answer(op, <<k>>, IF get THEN OldReply(seen[k]) ELSE Ok)
  BY FromType DEF Set
<1>2. t2 \in Time
  BY <1>1
<1>3. StoredValue(v, DeadlineAfter(ttl, t2), FALSE) \in Item
  BY <1>2, DeadlineAfterType DEF StoredValue, Item
<1>4. items' \in [Stores -> Dictionary]
  BY <1>1, <1>3, UpdateType
<1>5. op \in Operations
  BY DEF Operations, Commands
<1>6. (IF get THEN OldReply(Purge(items[s], k, t1)[k]) ELSE Ok) \in Replies
  BY SeenType, OldReplyType, PlainReplies
<1>7. last' \in [op : Operations, keys : Seq(Keys), reply : Replies]
  BY <1>1, <1>5, <1>6, OneKey, PlainReplies, AnswerType
<1> QED BY <1>1, <1>2, <1>4, <1>7 DEF TypeOK

LEMMA JsonSetType ==
  ASSUME TypeOK, NEW s \in Stores, NEW now \in Time, NEW k \in Keys, NEW v \in Payloads,
         NEW cond, JsonSet(s, now, k, v, cond)
  PROVE  TypeOK'
<1>1. PICK t \in From(now) :
        LET seen == Purge(items[s], k, t)
        IN /\ clock' = t
           /\ \/ /\ items' = [items EXCEPT ![s] = seen]
                 /\ Answer("JSON.SET", <<k>>, Error) \/ Answer("JSON.SET", <<k>>, Nil)
              \/ /\ Parses(v)
                 /\ items' = [items EXCEPT ![s] =
                                [seen EXCEPT ![k] = StoredValue(v, NoDeadline, TRUE)]]
                 /\ Answer("JSON.SET", <<k>>, Ok)
  BY DEF JsonSet
<1>2. t \in Time
  BY <1>1, FromType
<1>3. Parses(v) => StoredValue(v, NoDeadline, TRUE) \in Item
  BY DEF Parses, StoredValue, Item, Deadlines
<1>4. items' \in [Stores -> Dictionary]
  BY <1>1, <1>3, UpdateType
<1>5. "JSON.SET" \in Operations
  BY DEF Operations, Commands
<1>6. last' \in [op : Operations, keys : Seq(Keys), reply : Replies]
  BY <1>1, <1>5, OneKey, PlainReplies, AnswerType
<1> QED BY <1>1, <1>2, <1>4, <1>6 DEF TypeOK

LEMMA LoadType ==
  ASSUME TypeOK, NEW s \in Stores, NEW k \in Keys, NEW b \in Blob \cup {BadBlob},
         NEW cond, Load(s, k, b, cond)
  PROVE  TypeOK'
<1>1. PICK t1 \in From(clock), t2 \in Time :
        LET seen == Purge(items[s], k, t1)
        IN /\ clock' = t2
           /\ \/ /\ items' = [items EXCEPT ![s] = seen]
                 /\ Answer("LOAD", <<k>>, Error) \/ Answer("LOAD", <<k>>, Nil)
              \/ /\ b # BadBlob
                 /\ items' = [items EXCEPT ![s] = [seen EXCEPT ![k] = DecodeDump(b, t2)]]
                 /\ Answer("LOAD", <<k>>, Ok)
  <2>1. clock \in Time
    BY DEF TypeOK
  <2> QED BY <2>1, FromType DEF Load
<1>2. t2 \in Time
  BY <1>1
<1>3. b # BadBlob => DecodeDump(b, t2) \in Item
  BY <1>2, DecodeDumpType, StoreAssumption
<1>4. items' \in [Stores -> Dictionary]
  BY <1>1, <1>3, UpdateType
<1>5. "LOAD" \in Operations
  BY DEF Operations, Commands
<1>6. last' \in [op : Operations, keys : Seq(Keys), reply : Replies]
  BY <1>1, <1>5, OneKey, PlainReplies, AnswerType
<1> QED BY <1>1, <1>2, <1>4, <1>6 DEF TypeOK

-----------------------------------------------------------------------------
(* Commands on several keys *)

LEMMA KeySeqsType ==
  ASSUME NEW ks \in KeySeqs
  PROVE  ks \in Seq(Keys) /\ Len(ks) \in Nat /\ DOMAIN ks = 1..Len(ks)
BY StoreAssumption DEF KeySeqs

LEMMA ReadingsType ==
  ASSUME clock \in Time, NEW n \in Nat, NEW ts \in Readings(n)
  PROVE  /\ ts \in [1..n -> From(clock)] /\ Latest(ts) \in From(clock)
         /\ \A i \in 1..n : ts[i] \in Time
<1>1. ts \in [1..n -> From(clock)]
  BY DEF Readings
<1>2. clock \in From(clock)
  BY TimeAssumption DEF Time, From
<1>3. Len(ts) = n /\ (n = 0 <=> ts = <<>>)
  BY <1>1
<1>4. Latest(ts) \in From(clock)
  BY <1>1, <1>2, <1>3 DEF Latest
<1> QED BY <1>1, <1>4, FromType

(* The last reading is the greatest. *)
LEMMA LatestIsLast ==
  ASSUME clock \in Time, NEW n \in Nat, NEW ts \in Readings(n), NEW i \in 1..n
  PROVE  ts[i] <= Latest(ts)
<1>1. ts \in [1..n -> From(clock)] /\ Len(ts) = n /\ ts # <<>>
  BY DEF Readings
<1>2. ts[i] <= ts[n]
  BY DEF Readings
<1> QED BY <1>1, <1>2 DEF Latest

LEMMA HomeType ==
  ASSUME NEW s \in Stores PROVE [k \in Keys |-> s] \in [Keys -> Stores]
OBVIOUS

LEMMA FoundType ==
  ASSUME TypeOK, NEW home \in [Keys -> Stores], NEW ks \in KeySeqs, NEW ts, NEW i \in DOMAIN ks
  PROVE  Found(home, ks, ts, i) \in Item \cup {Absent}
<1>1. ks[i] \in Keys
  BY KeySeqsType
<1>2. items[home[ks[i]]][ks[i]] \in Item \cup {Absent}
  BY <1>1 DEF TypeOK, Dictionary
<1> QED BY <1>2, AliveAtType DEF Found

LEMMA PurgeAllType ==
  ASSUME TypeOK, NEW home \in [Keys -> Stores], NEW ks \in KeySeqs, NEW ts,
         PurgeAll(home, ks, ts)
  PROVE  items' \in [Stores -> Dictionary]
BY DEF TypeOK, Dictionary, PurgeAll

(* Counting positions of a command. *)
LEMMA CountOf ==
  ASSUME NEW ks \in KeySeqs, NEW S \in SUBSET (DOMAIN ks)
  PROVE  IsFiniteSet(S) /\ Cardinality(S) \in Nat /\ Count(Cardinality(S)) \in Replies
<1>1. IsFiniteSet(DOMAIN ks)
  BY KeySeqsType, FS_Interval
<1>2. IsFiniteSet(S)
  BY <1>1, FS_Subset
<1> QED BY <1>2, FS_CardinalityType, CountType

LEMMA ExistsType ==
  ASSUME TypeOK, NEW home \in [Keys -> Stores], NEW ks \in KeySeqs, NEW bad \in BOOLEAN,
         Exists(home, ks, bad)
  PROVE  TypeOK'
<1> DEFINE live(ts) == { i \in DOMAIN ks : Found(home, ks, ts, i) # Absent }
<1>1. clock \in Time
  BY DEF TypeOK
<1>2. PICK ts \in Readings(Len(ks)) :
        /\ clock' = Latest(ts)
        /\ PurgeAll(home, ks, ts)
        /\ Answer("EXISTS", ks, IF bad THEN Error ELSE Count(Cardinality(live(ts))))
  BY DEF Exists
<1>3. (IF bad THEN Error ELSE Count(Cardinality(live(ts)))) \in Replies
  BY CountOf, PlainReplies
<1>4. clock' \in Time
  BY <1>1, <1>2, KeySeqsType, ReadingsType, FromType
<1>5. "EXISTS" \in Operations
  BY DEF Operations, Commands
<1>6. last' \in [op : Operations, keys : Seq(Keys), reply : Replies]
  BY <1>2, <1>3, <1>5, KeySeqsType, AnswerType
<1> QED BY <1>2, <1>4, <1>6, PurgeAllType DEF TypeOK

LEMMA MgetType ==
  ASSUME TypeOK, NEW home \in [Keys -> Stores], NEW ks \in KeySeqs, NEW bad \in BOOLEAN,
         Mget(home, ks, bad)
  PROVE  TypeOK'
<1> DEFINE values(ts) == [i \in DOMAIN ks |-> GetReply(Found(home, ks, ts, i))]
<1>1. clock \in Time
  BY DEF TypeOK
<1>2. PICK ts \in Readings(Len(ks)) :
        /\ clock' = Latest(ts)
        /\ PurgeAll(home, ks, ts)
        /\ Answer("MGET", ks, IF bad THEN Error ELSE Array(values(ts)))
  BY DEF Mget
<1>3. values(ts) \in Seq(Values)
  <2>1. \A i \in DOMAIN ks : GetReply(Found(home, ks, ts, i)) \in Values
    BY FoundType, GetReplyType
  <2> QED BY <2>1, KeySeqsType
<1>4. (IF bad THEN Error ELSE Array(values(ts))) \in Replies
  BY <1>3, PlainReplies DEF Array, Replies
<1>5. clock' \in Time
  BY <1>1, <1>2, KeySeqsType, ReadingsType, FromType
<1>6. "MGET" \in Operations
  BY DEF Operations, Commands
<1>7. last' \in [op : Operations, keys : Seq(Keys), reply : Replies]
  BY <1>2, <1>4, <1>6, KeySeqsType, AnswerType
<1> QED BY <1>2, <1>5, <1>7, PurgeAllType DEF TypeOK

LEMMA DelType ==
  ASSUME TypeOK, NEW s \in Stores, NEW ks \in KeySeqs, NEW bad \in BOOLEAN, Del(s, ks, bad)
  PROVE  TypeOK'
<1> DEFINE counted(ts) == { i \in DOMAIN ks :
                              /\ Found([k \in Keys |-> s], ks, ts, i) # Absent
                              /\ \A j \in 1..i-1 : ks[j] # ks[i] }
<1>1. clock \in Time
  BY DEF TypeOK
<1>2. PICK ts \in Readings(Len(ks)) :
        /\ clock' = Latest(ts)
        /\ items' = [items EXCEPT ![s] =
                       [k \in Keys |-> IF k \in Range(ks) THEN Absent ELSE @[k]]]
        /\ Answer("DEL", ks, IF bad THEN Error ELSE Count(Cardinality(counted(ts))))
  BY DEF Del
<1>3. (IF bad THEN Error ELSE Count(Cardinality(counted(ts)))) \in Replies
  BY CountOf, PlainReplies
<1>4. clock' \in Time
  BY <1>1, <1>2, KeySeqsType, ReadingsType, FromType
<1>5. "DEL" \in Operations
  BY DEF Operations, Commands
<1>6. last' \in [op : Operations, keys : Seq(Keys), reply : Replies]
  BY <1>2, <1>3, <1>5, KeySeqsType, AnswerType
<1>7. items' \in [Stores -> Dictionary]
  BY <1>2 DEF TypeOK, Dictionary
<1> QED BY <1>4, <1>6, <1>7 DEF TypeOK

LEMMA KeysType ==
  ASSUME TypeOK, NEW home \in [Keys -> Stores], NEW P \in Patterns, KeysCommand(home, P)
  PROVE  TypeOK'
<1> DEFINE names(at) == { k \in P : AliveAt(items[home[k]][k], at[k]) # Absent }
<1>1. PICK at \in [Keys -> From(clock)], t \in From(clock) :
        /\ clock' = t
        /\ items' = [s \in Stores |-> [k \in Keys |->
                       IF home[k] = s THEN AliveAt(items[s][k], at[k]) ELSE items[s][k]]]
        /\ Answer("KEYS", <<>>, Names(P, names(at)))
  BY DEF KeysCommand
<1>2. Names(P, names(at)) \in Replies
  BY StoreAssumption DEF Names, Replies
<1>3. "KEYS" \in Operations /\ <<>> \in Seq(Keys)
  BY DEF Operations, Commands
<1>4. last' \in [op : Operations, keys : Seq(Keys), reply : Replies]
  BY <1>1, <1>2, <1>3, AnswerType
<1>5. clock' \in Time
  BY <1>1, FromType DEF TypeOK
<1>6. items' \in [Stores -> Dictionary]
  BY <1>1, AliveAtType DEF TypeOK, Dictionary
<1> QED BY <1>4, <1>5, <1>6 DEF TypeOK

LEMMA RejectType ==
  ASSUME TypeOK, NEW op \in Commands, Reject(op)
  PROVE  TypeOK'
<1>1. op \in Operations
  BY DEF Operations
<1> QED BY <1>1, NoKeys, PlainReplies, AnswerType DEF TypeOK, Reject

LEMMA PingType ==
  ASSUME TypeOK, NEW reply \in PingReplies, Ping(reply)
  PROVE  TypeOK'
<1>1. reply \in Replies
  BY PlainReplies, ValuesAreReplies DEF PingReplies, Values
<1>2. "PING" \in Operations /\ <<>> \in Seq(Keys)
  BY DEF Operations
<1> QED BY <1>1, <1>2, AnswerType DEF TypeOK, Ping

-----------------------------------------------------------------------------
(* Type correctness *)

LEMMA InitType == Init => TypeOK
<1> SUFFICES ASSUME Init PROVE TypeOK
  OBVIOUS
<1>1. items \in [Stores -> Dictionary]
  BY DEF Init, Dictionary
<1>2. clock \in Time
  <2>1. 0 \in Time
    BY TimeAssumption DEF Time
  <2> QED BY <2>1 DEF Init
<1>3. "" \in Operations
  BY DEF Operations
<1>4. last \in [op : Operations, keys : Seq(Keys), reply : Replies]
  BY <1>3, NoKeys, PlainReplies DEF Init
<1> QED BY <1>1, <1>2, <1>4 DEF TypeOK

LEMMA NextType == TypeOK /\ [Next]_vars => TypeOK'
<1> SUFFICES ASSUME TypeOK, [Next]_vars PROVE TypeOK'
  OBVIOUS
<1>0. clock \in Time
  BY DEF TypeOK
<1>1. ASSUME NEW s \in Stores, NEW k \in Keys, Get(s, k) \/ JsonGet(s, k) \/ Dump(s, k)
      PROVE  TypeOK'
  BY <1>1, ReadTypes
<1>2. ASSUME NEW s \in Stores, NEW k \in Keys, NEW v \in Payloads, NEW ttl \in Ttls,
             NEW cond \in Conditions, NEW get \in BOOLEAN, Set(s, clock, k, v, ttl, cond, get)
      PROVE  TypeOK'
  BY <1>0, <1>2, SetType
<1>3. ASSUME NEW s \in Stores, NEW k \in Keys, NEW v \in Payloads, NEW cond \in Conditions,
             JsonSet(s, clock, k, v, cond)
      PROVE  TypeOK'
  BY <1>0, <1>3, JsonSetType
<1>4. ASSUME NEW s \in Stores, NEW k \in Keys, NEW b \in Blobs \cup {BadBlob},
             NEW cond \in Conditions, Load(s, k, b, cond)
      PROVE  TypeOK'
  BY <1>4, LoadType, StoreAssumption
<1>5. ASSUME NEW s \in Stores, NEW ks \in KeySeqs, NEW bad \in BOOLEAN,
             \/ Exists([k \in Keys |-> s], ks, bad) \/ Mget([k \in Keys |-> s], ks, bad)
             \/ Del(s, ks, bad)
      PROVE  TypeOK'
  BY <1>5, HomeType, ExistsType, MgetType, DelType
<1>6. ASSUME NEW s \in Stores, NEW P \in Patterns, KeysCommand([k \in Keys |-> s], P)
      PROVE  TypeOK'
  BY <1>6, HomeType, KeysType
<1>7. ASSUME NEW op \in Commands, Reject(op) PROVE TypeOK'
  BY <1>7, RejectType
<1>8. ASSUME NEW reply \in PingReplies, Ping(reply) PROVE TypeOK'
  BY <1>8, PingType
<1>9. CASE UNCHANGED vars
  BY <1>9 DEF TypeOK, vars
<1> QED BY <1>1, <1>2, <1>3, <1>4, <1>5, <1>6, <1>7, <1>8, <1>9 DEF Next

(* JsonStore only ever holds well-formed entries and sends well-formed     *)
(* replies, whatever commands, values, durations and payloads it is given. *)
THEOREM TypeCorrect == Spec => []TypeOK
BY InitType, NextType, PTL DEF Spec

-----------------------------------------------------------------------------
(* What a command may do to an entry.  Every step leaves it alone, purges  *)
(* it because its deadline has passed by the end of the command, deletes   *)
(* it, or is a write to its key that succeeds.                             *)

Kept(s, k) == items'[s][k] = items[s][k]

Purged(s, k) == items'[s][k] = Absent /\ Expired(items[s][k], clock')

WrittenTo(k) ==
  /\ last'.op \in Writes /\ last'.keys = <<k>>
  /\ last'.reply = Ok \/ (last'.op = "SET GET" /\ last'.reply # Error)

DeletedBy(k) == last'.op = "DEL" /\ k \in Range(last'.keys)

LEMMA ExpiredLater ==
  ASSUME NEW x \in Item \cup {Absent}, NEW t1 \in Int, NEW t2 \in Int, t1 <= t2, Expired(x, t1)
  PROVE  Expired(x, t2)
BY DEF Expired, HasDeadline, Item, Deadlines

LEMMA FromOrder ==
  ASSUME NEW t \in Time, NEW u \in From(t)
  PROVE  u \in Time /\ u \in Int /\ t \in Int /\ t <= u
BY TimeAssumption DEF Time, From

(* Looking at a key when the clock shows t, in a command that ends later.  *)
LEMMA PurgeKeeps ==
  ASSUME TypeOK, NEW s \in Stores, NEW k \in Keys, NEW t \in Int, clock' \in Int, t <= clock',
         items' = [items EXCEPT ![s] = Purge(items[s], k, t)]
  PROVE  \A s2 \in Stores, k2 \in Keys : Kept(s2, k2) \/ Purged(s2, k2)
<1> SUFFICES ASSUME NEW s2 \in Stores, NEW k2 \in Keys PROVE Kept(s2, k2) \/ Purged(s2, k2)
  OBVIOUS
<1>1. items[s2][k2] \in Item \cup {Absent}
  BY DEF TypeOK, Dictionary
<1>2. CASE s2 = s /\ k2 = k
  <2>1. items'[s][k] = AliveAt(items[s][k], t)
    BY DEF TypeOK, Dictionary, Purge
  <2> QED BY <1>1, <1>2, <2>1, ExpiredLater DEF AliveAt, Kept, Purged
<1>3. CASE ~(s2 = s /\ k2 = k)
  BY <1>3 DEF TypeOK, Dictionary, Purge, Kept
<1> QED BY <1>2, <1>3

LEMMA StoreKeeps ==
  ASSUME TypeOK, NEW s \in Stores, NEW k \in Keys, NEW t, NEW x,
         items' = [items EXCEPT ![s] = [Purge(items[s], k, t) EXCEPT ![k] = x]]
  PROVE  \A s2 \in Stores, k2 \in Keys :
           Kept(s2, k2) \/ (s2 = s /\ k2 = k /\ items'[s][k] = x)
BY DEF TypeOK, Dictionary, Purge, Kept

LEMMA ReadsKeep ==
  ASSUME TypeOK, NEW s \in Stores, NEW k \in Keys, Get(s, k) \/ JsonGet(s, k) \/ Dump(s, k)
  PROVE  \A s2 \in Stores, k2 \in Keys : Kept(s2, k2) \/ Purged(s2, k2)
<1>1. clock \in Time
  BY DEF TypeOK
<1>2. PICK t1 \in From(clock), t2 \in Time :
        /\ t2 \in From(t1) /\ clock' = t2
        /\ items' = [items EXCEPT ![s] = Purge(items[s], k, t1)]
  <2>1. \A t \in From(clock) : t \in Time /\ t \in From(t)
    BY <1>1, FromOrder DEF From, Time
  <2>2. CASE Get(s, k)
    BY <2>1, <2>2 DEF Get
  <2>3. CASE JsonGet(s, k)
    BY <2>1, <2>3 DEF JsonGet
  <2>4. CASE Dump(s, k)
    BY <1>1, <2>4, FromType DEF Dump
  <2> QED BY <2>2, <2>3, <2>4
<1>3. t1 \in Int /\ clock' \in Int /\ t1 <= clock'
  BY <1>1, <1>2, FromOrder
<1> QED BY <1>2, <1>3, PurgeKeeps

SetWrote(s, k, v, ttl) ==
  \E t \in Time : items'[s][k] = StoredValue(v, DeadlineAfter(ttl, t), FALSE)

LEMMA SetKeeps ==
  ASSUME TypeOK, NEW s \in Stores, NEW now \in Time, NEW k \in Keys, NEW v, NEW ttl, NEW cond,
         NEW get \in BOOLEAN, Set(s, now, k, v, ttl, cond, get)
  PROVE  \A s2 \in Stores, k2 \in Keys :
           \/ Kept(s2, k2) \/ Purged(s2, k2)
           \/ /\ s2 = s /\ k2 = k /\ WrittenTo(k)
              /\ SetWrote(s, k, v, ttl)
<1> DEFINE op == IF get THEN "SET GET" ELSE "SET"
<1>1. PICK t1 \in From(now), t2 \in Time :
        LET seen == Purge(items[s], k, t1)
        IN /\ t2 \in From(t1) /\ clock' = t2
           /\ \/ items' = [items EXCEPT ![s] = seen]
              \/ /\ items' = [items EXCEPT ![s] =
                                [seen EXCEPT ![k] = StoredValue(v, DeadlineAfter(ttl, t2), FALSE)]]
                 /\ Answer(op, <<k>>, IF get THEN OldReply(seen[k]) ELSE Ok)
  BY FromType DEF Set
<1>2. t1 \in Int /\ clock' \in Int /\ t1 <= clock'
  BY <1>1, FromOrder
<1>3. CASE items' = [items EXCEPT ![s] = Purge(items[s], k, t1)]
  BY <1>2, <1>3, PurgeKeeps
<1>4. CASE items' = [items EXCEPT ![s] = [Purge(items[s], k, t1) EXCEPT
                       ![k] = StoredValue(v, DeadlineAfter(ttl, t2), FALSE)]]
           /\ Answer(op, <<k>>, IF get THEN OldReply(Purge(items[s], k, t1)[k]) ELSE Ok)
  <2> DEFINE new == StoredValue(v, DeadlineAfter(ttl, t2), FALSE)
  <2>0. items' = [items EXCEPT ![s] = [Purge(items[s], k, t1) EXCEPT ![k] = new]]
    BY <1>4
  <2>1. \A s2 \in Stores, k2 \in Keys :
          Kept(s2, k2) \/ (s2 = s /\ k2 = k /\ items'[s][k] = new)
    <3> HIDE DEF new
    <3> QED BY <2>0, StoreKeeps
  <2>2. \A x : OldReply(x) # Error
    BY DEF OldReply, Error, Nil
  <2>3. WrittenTo(k)
    BY <1>4, <2>2 DEF Answer, WrittenTo, Writes
  <2> QED BY <2>1, <2>3 DEF SetWrote
<1> QED BY <1>1, <1>3, <1>4

LEMMA JsonSetKeeps ==
  ASSUME TypeOK, NEW s \in Stores, NEW now \in Time, NEW k \in Keys, NEW v, NEW cond,
         JsonSet(s, now, k, v, cond)
  PROVE  \A s2 \in Stores, k2 \in Keys :
           \/ Kept(s2, k2) \/ Purged(s2, k2)
           \/ /\ s2 = s /\ k2 = k /\ WrittenTo(k)
              /\ Parses(v) /\ items'[s][k] = StoredValue(v, NoDeadline, TRUE)
<1>1. PICK t \in From(now) :
        LET seen == Purge(items[s], k, t)
        IN /\ clock' = t
           /\ \/ items' = [items EXCEPT ![s] = seen]
              \/ /\ Parses(v)
                 /\ items' = [items EXCEPT ![s] =
                                [seen EXCEPT ![k] = StoredValue(v, NoDeadline, TRUE)]]
                 /\ Answer("JSON.SET", <<k>>, Ok)
  BY DEF JsonSet
<1>2. t \in Int /\ clock' \in Int /\ t <= clock'
  BY <1>1, FromOrder
<1>3. CASE items' = [items EXCEPT ![s] = Purge(items[s], k, t)]
  BY <1>2, <1>3, PurgeKeeps
<1>4. CASE items' = [items EXCEPT ![s] = [Purge(items[s], k, t) EXCEPT
                       ![k] = StoredValue(v, NoDeadline, TRUE)]]
           /\ Answer("JSON.SET", <<k>>, Ok) /\ Parses(v)
  <2>1. WrittenTo(k)
    BY <1>4 DEF Answer, WrittenTo, Writes
  <2>2. \A s2 \in Stores, k2 \in Keys :
          \/ Kept(s2, k2)
          \/ s2 = s /\ k2 = k /\ items'[s][k] = StoredValue(v, NoDeadline, TRUE)
    BY <1>4, StoreKeeps
  <2> QED BY <1>4, <2>1, <2>2
<1> QED BY <1>1, <1>3, <1>4

LEMMA LoadKeeps ==
  ASSUME TypeOK, NEW s \in Stores, NEW k \in Keys, NEW b, NEW cond, Load(s, k, b, cond)
  PROVE  \A s2 \in Stores, k2 \in Keys :
           \/ Kept(s2, k2) \/ Purged(s2, k2)
           \/ s2 = s /\ k2 = k /\ WrittenTo(k)
<1>0. clock \in Time
  BY DEF TypeOK
<1>1. PICK t1 \in From(clock), t2 \in Time :
        LET seen == Purge(items[s], k, t1)
        IN /\ t2 \in From(t1) /\ clock' = t2
           /\ \/ items' = [items EXCEPT ![s] = seen]
              \/ /\ items' = [items EXCEPT ![s] = [seen EXCEPT ![k] = DecodeDump(b, t2)]]
                 /\ Answer("LOAD", <<k>>, Ok)
  BY <1>0, FromType DEF Load
<1>2. t1 \in Int /\ clock' \in Int /\ t1 <= clock'
  BY <1>0, <1>1, FromOrder
<1>3. CASE items' = [items EXCEPT ![s] = Purge(items[s], k, t1)]
  BY <1>2, <1>3, PurgeKeeps
<1>4. CASE items' = [items EXCEPT ![s] = [Purge(items[s], k, t1) EXCEPT ![k] = DecodeDump(b, t2)]]
           /\ Answer("LOAD", <<k>>, Ok)
  <2>1. WrittenTo(k)
    BY <1>4 DEF Answer, WrittenTo, Writes
  <2> QED BY <1>4, <2>1, StoreKeeps
<1> QED BY <1>1, <1>3, <1>4

LEMMA PurgeAllKeeps ==
  ASSUME TypeOK, NEW home, NEW ks \in KeySeqs, NEW ts \in Readings(Len(ks)),
         PurgeAll(home, ks, ts), clock' = Latest(ts)
  PROVE  \A s \in Stores, k \in Keys : Kept(s, k) \/ Purged(s, k)
<1> SUFFICES ASSUME NEW s \in Stores, NEW k \in Keys PROVE Kept(s, k) \/ Purged(s, k)
  OBVIOUS
<1>1. clock \in Time /\ items[s][k] \in Item \cup {Absent}
  BY DEF TypeOK, Dictionary
<1>2. CASE \E i \in DOMAIN ks : ks[i] = k /\ home[k] = s /\ Expired(items[s][k], ts[i])
  <2>1. PICK i \in DOMAIN ks : Expired(items[s][k], ts[i])
    BY <1>2
  <2>2. i \in 1..Len(ks) /\ Len(ks) \in Nat
    BY KeySeqsType
  <2>3. ts[i] <= clock'
    BY <1>1, <2>2, LatestIsLast
  <2>4. ts[i] \in Int /\ clock' \in Int
    BY <1>1, <2>2, ReadingsType, FromOrder, TimeAssumption DEF Time
  <2>5. Expired(items[s][k], clock')
    BY <1>1, <2>1, <2>3, <2>4, ExpiredLater
  <2>6. items'[s][k] = Absent
    BY <1>2 DEF PurgeAll
  <2> QED BY <2>5, <2>6 DEF Purged
<1>3. CASE ~\E i \in DOMAIN ks : ks[i] = k /\ home[k] = s /\ Expired(items[s][k], ts[i])
  BY <1>3 DEF PurgeAll, Kept
<1> QED BY <1>2, <1>3

LEMMA ManyReadsKeep ==
  ASSUME TypeOK, NEW home, NEW ks \in KeySeqs, NEW bad,
         Exists(home, ks, bad) \/ Mget(home, ks, bad)
  PROVE  \A s \in Stores, k \in Keys : Kept(s, k) \/ Purged(s, k)
<1>1. PICK ts \in Readings(Len(ks)) : clock' = Latest(ts) /\ PurgeAll(home, ks, ts)
  BY DEF Exists, Mget
<1> QED BY <1>1, PurgeAllKeeps

LEMMA DelKeeps ==
  ASSUME TypeOK, NEW s \in Stores, NEW ks, NEW bad, Del(s, ks, bad)
  PROVE  /\ last'.op = "DEL" /\ last'.keys = ks
         /\ bad \/ (last'.reply # Error /\ last'.reply # Nil)
         /\ \A s2 \in Stores, k2 \in Keys :
              Kept(s2, k2) \/ (s2 = s /\ k2 \in Range(ks) /\ items'[s2][k2] = Absent)
<1>1. \A n : Count(n) # Error /\ Count(n) # Nil
  BY DEF Count, Error, Nil
<1>2. last'.op = "DEL" /\ last'.keys = ks /\ (bad \/ (last'.reply # Error /\ last'.reply # Nil))
  BY <1>1 DEF Del, Answer
<1>3. items' = [items EXCEPT ![s] = [k \in Keys |-> IF k \in Range(ks) THEN Absent ELSE @[k]]]
  BY DEF Del
<1> QED BY <1>2, <1>3 DEF TypeOK, Dictionary, Kept

LEMMA KeysKeep ==
  ASSUME TypeOK, NEW home, NEW P, KeysCommand(home, P)
  PROVE  \A s \in Stores, k \in Keys : Kept(s, k) \/ Purged(s, k)
<1> SUFFICES ASSUME NEW s \in Stores, NEW k \in Keys PROVE Kept(s, k) \/ Purged(s, k)
  OBVIOUS
<1>1. PICK at \in [Keys -> From(clock)], t \in From(clock) :
        /\ \A j \in Keys : at[j] <= t
        /\ clock' = t
        /\ items' = [r \in Stores |-> [j \in Keys |->
                       IF home[j] = r THEN AliveAt(items[r][j], at[j]) ELSE items[r][j]]]
  BY DEF KeysCommand
<1>2. clock \in Time /\ items[s][k] \in Item \cup {Absent}
  BY DEF TypeOK, Dictionary
<1>3. at[k] \in Int /\ clock' \in Int /\ at[k] <= clock'
  BY <1>1, <1>2, FromOrder
<1>4. items'[s][k] = IF home[k] = s THEN AliveAt(items[s][k], at[k]) ELSE items[s][k]
  BY <1>1
<1> QED BY <1>2, <1>3, <1>4, ExpiredLater DEF AliveAt, Kept, Purged

-----------------------------------------------------------------------------
(* A live entry, its deadline included, changes only by a write to its key *)
(* that succeeds or by DEL, whatever else is going on in the store.        *)
THEOREM OnlyOwnWritesHolds == Spec => OnlyOwnWrites
<1> DEFINE Fine(s, k) == Kept(s, k) \/ Purged(s, k) \/ WrittenTo(k)
                           \/ (items'[s][k] = Absent /\ DeletedBy(k))
           FineStep == \A s \in Stores, k \in Keys : Fine(s, k)
<1>1. ASSUME TypeOK, Next PROVE FineStep
  <2>0. clock \in Time
    BY <1>1 DEF TypeOK
  <2>1. ASSUME NEW s \in Stores, NEW k \in Keys, Get(s, k) \/ JsonGet(s, k) \/ Dump(s, k)
        PROVE  FineStep
    BY <1>1, <2>1, ReadsKeep
  <2>2. ASSUME NEW s \in Stores, NEW k \in Keys, NEW v \in Payloads, NEW ttl \in Ttls,
               NEW cond \in Conditions, NEW get \in BOOLEAN, Set(s, clock, k, v, ttl, cond, get)
        PROVE  FineStep
    BY <1>1, <2>0, <2>2, SetKeeps
  <2>3. ASSUME NEW s \in Stores, NEW k \in Keys, NEW v \in Payloads, NEW cond \in Conditions,
               JsonSet(s, clock, k, v, cond)
        PROVE  FineStep
    <3>1. \A r \in Stores, j \in Keys : Kept(r, j) \/ Purged(r, j) \/ (j = k /\ WrittenTo(k))
      BY <1>1, <2>0, <2>3, JsonSetKeeps
    <3> QED BY <3>1
  <2>4. ASSUME NEW s \in Stores, NEW k \in Keys, NEW b \in Blobs \cup {BadBlob},
               NEW cond \in Conditions, Load(s, k, b, cond)
        PROVE  FineStep
    BY <1>1, <2>4, LoadKeeps
  <2>5. ASSUME NEW s \in Stores, NEW ks \in KeySeqs, NEW bad \in BOOLEAN,
               Exists([k \in Keys |-> s], ks, bad) \/ Mget([k \in Keys |-> s], ks, bad)
        PROVE  FineStep
    BY <1>1, <2>5, ManyReadsKeep
  <2>6. ASSUME NEW s \in Stores, NEW ks \in KeySeqs, NEW bad \in BOOLEAN, Del(s, ks, bad)
        PROVE  FineStep
    BY <1>1, <2>6, DelKeeps DEF DeletedBy
  <2>7. ASSUME NEW s \in Stores, NEW P \in Patterns, KeysCommand([k \in Keys |-> s], P)
        PROVE  FineStep
    BY <1>1, <2>7, KeysKeep
  <2>8. ASSUME items' = items PROVE FineStep
    BY <2>8 DEF Kept
  <2>9. ASSUME NEW op \in Commands, Reject(op) PROVE FineStep
    BY <2>8, <2>9 DEF Reject
  <2>10. ASSUME NEW reply \in PingReplies, Ping(reply) PROVE FineStep
    BY <2>8, <2>10 DEF Ping
  <2> HIDE DEF FineStep
  <2> QED BY <1>1, <2>1, <2>2, <2>3, <2>4, <2>5, <2>6, <2>7, <2>9, <2>10 DEF Next
<1>2. TypeOK /\ [Next]_vars =>
        [ \A s \in Stores, k \in Keys :
            items'[s][k] # items[s][k] =>
              \/ items'[s][k] = Absent /\ Expired(items[s][k], clock')
              \/ items'[s][k] = Absent /\ last'.op = "DEL" /\ k \in Range(last'.keys)
              \/ /\ last'.op \in Writes /\ last'.keys = <<k>>
                 /\ last'.reply = Ok \/ (last'.op = "SET GET" /\ last'.reply # Error) ]_vars
  BY <1>1 DEF Kept, Purged, WrittenTo, DeletedBy
<1> QED BY <1>2, TypeCorrect, PTL DEF Spec, OnlyOwnWrites

-----------------------------------------------------------------------------
(* The constant store: entries of its namespace are written once, by       *)
(* whichever command, and never carry a deadline.                          *)

(* An entry that appears where there was none, and that never expires. *)
Founded(s, k) ==
  /\ k \in ConstKeys /\ WrittenTo(k)
  /\ items[s][k] = Absent \/ Expired(items[s][k], clock')
  /\ items'[s][k] # Absent /\ items'[s][k].exp = NoDeadline

ConstStep(s) ==
  \A s2 \in Stores, k \in Keys : Kept(s2, k) \/ Purged(s2, k) \/ (s2 = s /\ Founded(s2, k))

-----------------------------------------------------------------------------
(* Each overriding handler: its types, and what it does to the entries     *)

LEMMA PrefixErrorStep ==
  ASSUME TypeOK, NEW op \in Operations, NEW k \in Keys, PrefixError(op, k)
  PROVE  TypeOK' /\ \A s2 \in Stores, k2 \in Keys : Kept(s2, k2)
BY OneKey, PlainReplies, AnswerType DEF PrefixError, TypeOK, Kept

LEMMA RefusalStep ==
  ASSUME TypeOK, NEW op \in Operations, NEW s \in Stores, NEW k \in Keys, NEW t1 \in From(clock),
         NEW t2 \in From(t1), clock' = t2, Answer(op, <<k>>, Error) \/ Answer(op, <<k>>, Nil),
         items' = [items EXCEPT ![s] = Purge(items[s], k, t1)]
  PROVE  TypeOK' /\ \A s2 \in Stores, k2 \in Keys : Kept(s2, k2) \/ Purged(s2, k2)
<1>0. clock \in Time
  BY DEF TypeOK
<1>1. t1 \in Int /\ clock' \in Time /\ clock' \in Int /\ t1 <= clock'
  BY <1>0, FromOrder
<1>2. last' \in [op : Operations, keys : Seq(Keys), reply : Replies]
  BY OneKey, PlainReplies, AnswerType
<1>3. items' \in [Stores -> Dictionary]
  BY SeenType
<1> QED BY <1>1, <1>2, <1>3, PurgeKeeps DEF TypeOK

(* What was found absent at t is absent or expired at any later instant.   *)
LEMMA GoneLater ==
  ASSUME TypeOK, NEW s \in Stores, NEW k \in Keys, NEW t \in Int, clock' \in Int, t <= clock',
         Purge(items[s], k, t)[k] = Absent
  PROVE  items[s][k] = Absent \/ Expired(items[s][k], clock')
<1>1. items[s][k] \in Item \cup {Absent} /\ AliveAt(items[s][k], t) = Absent
  BY SeenType DEF TypeOK, Dictionary
<1> QED BY <1>1, ExpiredLater DEF AliveAt

LEMMA ConstSetStep ==
  ASSUME TypeOK, NEW s \in Stores, NEW k \in Keys, NEW v \in Payloads, NEW ttl \in Ttls,
         NEW cond, NEW get \in BOOLEAN, ConstSet(s, k, v, ttl, cond, get)
  PROVE  TypeOK' /\ ConstStep(s)
<1> DEFINE op == IF get THEN "SET GET" ELSE "SET"
<1>0. clock \in Time /\ op \in Operations
  BY DEF TypeOK, Operations, Commands
<1>1. CASE PrefixError(op, k)
  BY <1>0, <1>1, PrefixErrorStep DEF ConstStep
<1>2. ASSUME NEW t \in From(clock), clock' = t, Answer(op, <<k>>, Error),
             items' = [items EXCEPT ![s] = Purge(items[s], k, t)]
      PROVE  TypeOK' /\ ConstStep(s)
  <2>1. t \in From(t)
    BY <1>0, FromOrder, FromSelf
  <2> QED BY <1>0, <1>2, <2>1, RefusalStep DEF ConstStep
<1>3. ASSUME NEW t \in From(clock), k \in ConstKeys, Purge(items[s], k, t)[k] = Absent,
             Set(s, t, k, v, NoDeadline, cond, get)
      PROVE  TypeOK' /\ ConstStep(s)
  <2>1. t \in Time /\ t \in Int
    BY <1>0, FromOrder
  <2>2. TypeOK'
    BY <1>3, <2>1, SetType DEF Ttls
  <2>3. clock' \in Int /\ t <= clock'
    <3>1. PICK t1 \in From(t) : clock' \in From(t1)
      BY <1>3 DEF Set
    <3> QED BY <2>1, <3>1, FromOrder
  <2>4. items[s][k] = Absent \/ Expired(items[s][k], clock')
    BY <1>3, <2>1, <2>3, GoneLater
  <2>5. SetWrote(s, k, v, NoDeadline) =>
          items'[s][k] # Absent /\ items'[s][k].exp = NoDeadline
    <3>1. StoredValue(v, NoDeadline, FALSE) \in Item
      BY DEF StoredValue, Item, Deadlines
    <3>2. \A u : DeadlineAfter(NoDeadline, u) = NoDeadline
      BY DEF DeadlineAfter
    <3>3. SetWrote(s, k, v, NoDeadline) => items'[s][k] = StoredValue(v, NoDeadline, FALSE)
      BY <3>2 DEF SetWrote
    <3>4. StoredValue(v, NoDeadline, FALSE).exp = NoDeadline
      BY DEF StoredValue
    <3> QED BY <3>1, <3>3, <3>4, AbsentAssumption
  <2>6. \A s2 \in Stores, k2 \in Keys :
          \/ Kept(s2, k2) \/ Purged(s2, k2)
          \/ /\ s2 = s /\ k2 = k /\ WrittenTo(k)
             /\ SetWrote(s, k, v, NoDeadline)
    BY <1>3, <2>1, SetKeeps
  <2> QED BY <1>3, <2>2, <2>4, <2>5, <2>6 DEF ConstStep, Founded
<1> QED BY <1>1, <1>2, <1>3 DEF ConstSet

LEMMA ConstJsonSetStep ==
  ASSUME TypeOK, NEW s \in Stores, NEW k \in Keys, NEW v \in Payloads, NEW cond,
         ConstJsonSet(s, k, v, cond)
  PROVE  TypeOK' /\ ConstStep(s)
<1>0. clock \in Time /\ "JSON.SET" \in Operations
  BY DEF TypeOK, Operations, Commands
<1>1. CASE PrefixError("JSON.SET", k)
  BY <1>0, <1>1, PrefixErrorStep DEF ConstStep
<1>2. ASSUME NEW t \in From(clock), clock' = t, Answer("JSON.SET", <<k>>, Error),
             items' = [items EXCEPT ![s] = Purge(items[s], k, t)]
      PROVE  TypeOK' /\ ConstStep(s)
  <2>1. t \in From(t)
    BY <1>0, FromOrder, FromSelf
  <2> QED BY <1>0, <1>2, <2>1, RefusalStep DEF ConstStep
<1>3. ASSUME NEW t \in From(clock), k \in ConstKeys, Purge(items[s], k, t)[k] = Absent,
             JsonSet(s, t, k, v, cond)
      PROVE  TypeOK' /\ ConstStep(s)
  <2>1. t \in Time /\ t \in Int
    BY <1>0, FromOrder
  <2>2. TypeOK'
    BY <1>3, <2>1, JsonSetType
  <2>3. clock' \in Int /\ t <= clock'
    BY <1>3, <2>1, FromOrder DEF JsonSet
  <2>4. items[s][k] = Absent \/ Expired(items[s][k], clock')
    BY <1>3, <2>1, <2>3, GoneLater
  <2>5. StoredValue(v, NoDeadline, TRUE).exp = NoDeadline
    BY DEF StoredValue
  <2>6. Parses(v) => StoredValue(v, NoDeadline, TRUE) # Absent
    <3>1. Parses(v) => StoredValue(v, NoDeadline, TRUE) \in Item
      BY DEF Parses, StoredValue, Item, Deadlines
    <3> QED BY <3>1, AbsentAssumption
  <2>7. \A s2 \in Stores, k2 \in Keys :
          \/ Kept(s2, k2) \/ Purged(s2, k2)
          \/ /\ s2 = s /\ k2 = k /\ WrittenTo(k)
             /\ Parses(v) /\ items'[s][k] = StoredValue(v, NoDeadline, TRUE)
    BY <1>3, <2>1, JsonSetKeeps
  <2> QED BY <1>3, <2>2, <2>4, <2>5, <2>6, <2>7 DEF ConstStep, Founded
<1> QED BY <1>1, <1>2, <1>3 DEF ConstJsonSet

LEMMA ConstLoadStep ==
  ASSUME TypeOK, NEW s \in Stores, NEW k \in Keys, NEW b \in Blob \cup {BadBlob},
         NEW cond, ConstLoad(s, k, b, cond)
  PROVE  TypeOK' /\ ConstStep(s)
<1>0. clock \in Time /\ "LOAD" \in Operations
  BY DEF TypeOK, Operations, Commands
<1>1. CASE PrefixError("LOAD", k)
  BY <1>0, <1>1, PrefixErrorStep DEF ConstStep
<1>2. ASSUME NEW t1 \in From(clock), NEW t2 \in From(t1), clock' = t2,
             Answer("LOAD", <<k>>, Error) \/ Answer("LOAD", <<k>>, Nil),
             items' = [items EXCEPT ![s] = Purge(items[s], k, t1)]
      PROVE  TypeOK' /\ ConstStep(s)
  BY <1>0, <1>2, RefusalStep DEF ConstStep
<1>3. ASSUME NEW t1 \in From(clock), NEW t2 \in From(t1), k \in ConstKeys, clock' = t2,
             Purge(items[s], k, t1)[k] = Absent, ConstLoadable(b, t2),
             items' = [items EXCEPT ![s] = [Purge(items[s], k, t1) EXCEPT
                         ![k] = DecodeDump(b, t2)]],
             Answer("LOAD", <<k>>, Ok)
      PROVE  TypeOK' /\ ConstStep(s)
  <2>1. t1 \in Int /\ t2 \in Time /\ t2 \in Int /\ t1 <= t2
    BY <1>0, FromOrder
  <2>2. DecodeDump(b, t2) \in Item /\ DecodeDump(b, t2).exp = NoDeadline
    BY <1>3, <2>1, DecodeDumpType, StoreAssumption DEF ConstLoadable
  <2>3. items' \in [Stores -> Dictionary]
    BY <1>3, <2>2, UpdateType
  <2>4. last' \in [op : Operations, keys : Seq(Keys), reply : Replies]
    BY <1>0, <1>3, OneKey, PlainReplies, AnswerType
  <2>5. items[s][k] = Absent \/ Expired(items[s][k], clock')
    BY <1>3, <2>1, GoneLater
  <2>6. \A s2 \in Stores, k2 \in Keys :
          Kept(s2, k2) \/ (s2 = s /\ k2 = k /\ items'[s][k] = DecodeDump(b, t2))
    BY <1>3, StoreKeeps
  <2>7. WrittenTo(k)
    BY <1>3 DEF Answer, WrittenTo, Writes
  <2> QED BY <1>3, <2>1, <2>2, <2>3, <2>4, <2>5, <2>6, <2>7, AbsentAssumption
          DEF TypeOK, ConstStep, Founded
<1>4. PrefixError("LOAD", k) \/
        \E t1 \in From(clock) : \E t2 \in From(t1) :
          /\ clock' = t2
          /\ \/ /\ Answer("LOAD", <<k>>, Error) \/ Answer("LOAD", <<k>>, Nil)
                /\ items' = [items EXCEPT ![s] = Purge(items[s], k, t1)]
             \/ /\ k \in ConstKeys /\ Purge(items[s], k, t1)[k] = Absent /\ ConstLoadable(b, t2)
                /\ items' = [items EXCEPT ![s] = [Purge(items[s], k, t1) EXCEPT
                               ![k] = DecodeDump(b, t2)]]
                /\ Answer("LOAD", <<k>>, Ok)
  BY DEF ConstLoad
<1> QED BY <1>1, <1>2, <1>3, <1>4

LEMMA ConstDelStep ==
  ASSUME TypeOK, NEW ks \in KeySeqs, ConstDel(ks)
  PROVE  TypeOK' /\ \A s \in Stores, k \in Keys : Kept(s, k)
<1>1. "DEL" \in Operations /\ ks \in Seq(Keys)
  BY KeySeqsType DEF Operations, Commands
<1>2. last' \in [op : Operations, keys : Seq(Keys), reply : Replies]
  BY <1>1, PlainReplies, AnswerType DEF ConstDel
<1> QED BY <1>2 DEF ConstDel, TypeOK, Kept

-----------------------------------------------------------------------------
(* The two properties *)

ConstSteps == \A s \in Stores, k \in Keys : Kept(s, k) \/ Purged(s, k) \/ Founded(s, k)

LEMMA ConstNextStep == TypeOK /\ ConstNext => TypeOK' /\ ConstSteps
<1> SUFFICES ASSUME TypeOK, ConstNext PROVE TypeOK' /\ ConstSteps
  OBVIOUS
<1>1. ASSUME NEW s \in Stores, NEW k \in Keys, Get(s, k) \/ JsonGet(s, k) \/ Dump(s, k)
      PROVE  TypeOK' /\ ConstSteps
  BY <1>1, ReadTypes, ReadsKeep DEF ConstSteps
<1>2. ASSUME NEW s \in Stores, NEW k \in Keys, NEW v \in Payloads, NEW ttl \in Ttls,
             NEW cond \in Conditions, NEW get \in BOOLEAN, ConstSet(s, k, v, ttl, cond, get)
      PROVE  TypeOK' /\ ConstSteps
  BY <1>2, ConstSetStep DEF ConstStep, ConstSteps
<1>3. ASSUME NEW s \in Stores, NEW k \in Keys, NEW v \in Payloads, NEW cond \in Conditions,
             ConstJsonSet(s, k, v, cond)
      PROVE  TypeOK' /\ ConstSteps
  BY <1>3, ConstJsonSetStep DEF ConstStep, ConstSteps
<1>4. ASSUME NEW s \in Stores, NEW k \in Keys, NEW b \in Blobs \cup {BadBlob},
             NEW cond \in Conditions, ConstLoad(s, k, b, cond)
      PROVE  TypeOK' /\ ConstSteps
  BY <1>4, ConstLoadStep, StoreAssumption DEF ConstStep, ConstSteps
<1>5. ASSUME NEW s \in Stores, NEW ks \in KeySeqs, NEW bad \in BOOLEAN,
             Exists([k \in Keys |-> s], ks, bad) \/ Mget([k \in Keys |-> s], ks, bad)
      PROVE  TypeOK' /\ ConstSteps
  BY <1>5, HomeType, ExistsType, MgetType, ManyReadsKeep DEF ConstSteps
<1>6. ASSUME NEW s \in Stores, NEW P \in Patterns, KeysCommand([k \in Keys |-> s], P)
      PROVE  TypeOK' /\ ConstSteps
  BY <1>6, HomeType, KeysType, KeysKeep DEF ConstSteps
<1>7. ASSUME NEW ks \in KeySeqs, ConstDel(ks) PROVE TypeOK' /\ ConstSteps
  BY <1>7, ConstDelStep DEF ConstSteps
<1>8. ASSUME NEW op \in Commands, Reject(op) PROVE TypeOK' /\ ConstSteps
  BY <1>8, RejectType DEF Reject, ConstSteps, Kept
<1>9. ASSUME NEW reply \in PingReplies, Ping(reply) PROVE TypeOK' /\ ConstSteps
  BY <1>9, PingType DEF Ping, ConstSteps, Kept
<1> QED BY <1>1, <1>2, <1>3, <1>4, <1>5, <1>6, <1>7, <1>8, <1>9 DEF ConstNext

(* Entries without a deadline outlive every step, and new ones have none.  *)
LEMMA ConstStepKeeps ==
  ASSUME TypeOK, NEW s \in Stores, ConstEntries(items[s]),
         \A k \in Keys : Kept(s, k) \/ Purged(s, k) \/ Founded(s, k)
  PROVE  /\ ConstEntries(items'[s])
         /\ \A k \in Keys : items[s][k] # Absent => items'[s][k] = items[s][k]
<1> SUFFICES ASSUME NEW k \in Keys
             PROVE  /\ items'[s][k] # Absent => k \in ConstKeys /\ items'[s][k].exp = NoDeadline
                    /\ items[s][k] # Absent => items'[s][k] = items[s][k]
  BY DEF ConstEntries
<1>1. ~Expired(items[s][k], clock')
  BY DEF ConstEntries, Expired, HasDeadline
<1> QED BY <1>1 DEF Kept, Purged, Founded, ConstEntries

LEMMA ConstInit == Init => OnlyConstEntries
BY DEF Init, OnlyConstEntries, ConstEntries

LEMMA ConstNextKeeps ==
  ASSUME TypeOK, OnlyConstEntries, [ConstNext]_vars
  PROVE  /\ TypeOK' /\ OnlyConstEntries'
         /\ \A s \in Stores, k \in Keys : items[s][k] # Absent => items'[s][k] = items[s][k]
<1>1. CASE ConstNext
  <2>1. TypeOK' /\ ConstSteps
    BY <1>1, ConstNextStep
  <2>2. ASSUME NEW s \in Stores
        PROVE  /\ ConstEntries(items'[s])
               /\ \A k \in Keys : items[s][k] # Absent => items'[s][k] = items[s][k]
    BY <2>1, ConstStepKeeps DEF OnlyConstEntries, ConstSteps
  <2> QED BY <2>1, <2>2 DEF OnlyConstEntries
<1>2. CASE UNCHANGED vars
  BY <1>2 DEF vars, TypeOK, OnlyConstEntries, ConstEntries
<1> QED BY <1>1, <1>2

(* A constant store holds keys of its namespace only, and none expires.    *)
THEOREM OnlyConstEntriesHolds == ConstSpec => []OnlyConstEntries
<1>1. TypeOK /\ OnlyConstEntries /\ [ConstNext]_vars => (TypeOK /\ OnlyConstEntries)'
  BY ConstNextKeeps
<1> QED BY <1>1, InitType, ConstInit, PTL DEF ConstSpec

(* An entry of a constant store never changes once it is there.            *)
THEOREM WriteOnceHolds == ConstSpec => WriteOnce
<1>1. TypeOK /\ OnlyConstEntries /\ [ConstNext]_vars =>
        /\ (TypeOK /\ OnlyConstEntries)'
        /\ [ \A s \in Stores, k \in Keys :
               items[s][k] # Absent => items'[s][k] = items[s][k] ]_vars
  BY ConstNextKeeps
<1> QED BY <1>1, InitType, ConstInit, PTL DEF ConstSpec, WriteOnce

-----------------------------------------------------------------------------
(* The router *)

(* The inductive invariant. *)
IInv == TypeOK /\ Partitioned

LEMMA HomeIsTotal == Home \in [Keys -> Stores] /\ Plain \in Stores /\ Const \in Stores
BY ServerAssumption DEF Home

(* What a step of the server does to the entries.  On the constant side an *)
(* entry may be founded, on the plain side it may be written or deleted,   *)
(* and both only if the command does not fail.                             *)
Fails == last'.reply = Error \/ (last'.reply = Nil /\ last'.op # "SET GET")

PlainChange(k) == k \notin ConstKeys /\ ~Fails /\ (items'[Plain][k] = Absent \/ WrittenTo(k))

ServerStep ==
  /\ \A k \in Keys : Kept(Const, k) \/ Purged(Const, k) \/ Founded(Const, k)
  /\ \A k \in Keys : Kept(Plain, k) \/ Purged(Plain, k) \/ PlainChange(k)

LEMMA WritesDoNotFail == \A k : WrittenTo(k) => ~Fails
<1>1. Ok # Nil /\ Ok # Error
  BY DEF Ok, Nil, Error
<1> QED BY <1>1 DEF WrittenTo, Fails

(* A step that only purges is a step of the server. *)
LEMMA PurgingStep ==
  ASSUME \A s \in Stores, k \in Keys : Kept(s, k) \/ Purged(s, k)
  PROVE  ServerStep
BY HomeIsTotal DEF ServerStep

LEMMA ConstSideStep ==
  ASSUME ConstStep(Const)
  PROVE  ServerStep
BY HomeIsTotal, ServerAssumption DEF ConstStep, ServerStep

LEMMA PlainSideStep ==
  ASSUME NEW k \in Keys, k \notin ConstKeys,
         \A s2 \in Stores, k2 \in Keys :
           Kept(s2, k2) \/ Purged(s2, k2) \/ (s2 = Plain /\ k2 = k /\ WrittenTo(k))
  PROVE  ServerStep
BY HomeIsTotal, ServerAssumption, WritesDoNotFail DEF ServerStep, PlainChange

LEMMA SingleKeyStep ==
  ASSUME TypeOK, NEW k \in Keys, SingleKey(k)
  PROVE  TypeOK' /\ ServerStep
<1>0. /\ Home[k] \in Stores /\ clock \in Time /\ Plain \in Stores /\ Const \in Stores
      /\ Home[k] = Const => k \in ConstKeys
      /\ Home[k] = Plain => k \notin ConstKeys
  BY HomeIsTotal, ServerAssumption DEF Home, TypeOK
<1>1. CASE Get(Home[k], k) \/ JsonGet(Home[k], k) \/ Dump(Home[k], k)
  BY <1>0, <1>1, ReadTypes, ReadsKeep, PurgingStep
<1>2. ASSUME NEW v \in Payloads, NEW ttl \in Ttls, NEW cond \in Conditions, NEW get \in BOOLEAN,
             ConstSet(Const, k, v, ttl, cond, get)
      PROVE  TypeOK' /\ ServerStep
  BY <1>0, <1>2, ConstSetStep, ConstSideStep
<1>3. ASSUME NEW v \in Payloads, NEW ttl \in Ttls, NEW cond \in Conditions, NEW get \in BOOLEAN,
             Home[k] = Plain, Set(Plain, clock, k, v, ttl, cond, get)
      PROVE  TypeOK' /\ ServerStep
  <2>1. \A s2 \in Stores, k2 \in Keys :
          Kept(s2, k2) \/ Purged(s2, k2) \/ (s2 = Plain /\ k2 = k /\ WrittenTo(k))
    BY <1>0, <1>3, SetKeeps
  <2> QED BY <1>0, <1>3, <2>1, SetType, PlainSideStep
<1>4. ASSUME NEW v \in Payloads, NEW cond \in Conditions, ConstJsonSet(Const, k, v, cond)
      PROVE  TypeOK' /\ ServerStep
  BY <1>0, <1>4, ConstJsonSetStep, ConstSideStep
<1>5. ASSUME NEW v \in Payloads, NEW cond \in Conditions, Home[k] = Plain,
             JsonSet(Plain, clock, k, v, cond)
      PROVE  TypeOK' /\ ServerStep
  <2>1. \A s2 \in Stores, k2 \in Keys :
          Kept(s2, k2) \/ Purged(s2, k2) \/ (s2 = Plain /\ k2 = k /\ WrittenTo(k))
    BY <1>0, <1>5, JsonSetKeeps
  <2> QED BY <1>0, <1>5, <2>1, JsonSetType, PlainSideStep
<1>6. ASSUME NEW b \in Blobs \cup {BadBlob}, NEW cond \in Conditions, ConstLoad(Const, k, b, cond)
      PROVE  TypeOK' /\ ServerStep
  BY <1>0, <1>6, ConstLoadStep, StoreAssumption, ConstSideStep
<1>7. ASSUME NEW b \in Blobs \cup {BadBlob}, NEW cond \in Conditions, Home[k] = Plain,
             Load(Plain, k, b, cond)
      PROVE  TypeOK' /\ ServerStep
  <2>1. \A s2 \in Stores, k2 \in Keys :
          Kept(s2, k2) \/ Purged(s2, k2) \/ (s2 = Plain /\ k2 = k /\ WrittenTo(k))
    BY <1>0, <1>7, LoadKeeps
  <2> QED BY <1>0, <1>7, <2>1, LoadType, StoreAssumption, PlainSideStep
<1> QED BY <1>1, <1>2, <1>3, <1>4, <1>5, <1>6, <1>7
        DEF SingleKey, RoutedSet, RoutedJsonSet, RoutedLoad

(* DEL: every key of the command is looked at before any is deleted, so a  *)
(* constant or an undecodable key among them leaves all of them alone.     *)
LEMMA RoutedDelStep ==
  ASSUME TypeOK, NEW ks \in KeySeqs, NEW bad \in BOOLEAN, RoutedDel(ks, bad)
  PROVE  TypeOK' /\ ServerStep
<1>1. CASE Answer("DEL", ks, Error) /\ UNCHANGED <<items, clock>>
  <2>1. "DEL" \in Operations /\ ks \in Seq(Keys)
    BY KeySeqsType DEF Operations, Commands
  <2>2. last' \in [op : Operations, keys : Seq(Keys), reply : Replies]
    BY <1>1, <2>1, PlainReplies, AnswerType
  <2>3. \A s \in Stores, k \in Keys : Kept(s, k)
    BY <1>1 DEF Kept
  <2> QED BY <1>1, <2>2, <2>3, PurgingStep DEF TypeOK
<1>2. CASE (\A k \in Range(ks) : k \notin ConstKeys) /\ Del(Plain, ks, FALSE)
  <2>1. TypeOK'
    BY <1>2, HomeIsTotal, DelType
  <2>2. /\ last'.reply # Error /\ last'.reply # Nil
        /\ \A s2 \in Stores, k2 \in Keys :
             Kept(s2, k2) \/ (s2 = Plain /\ k2 \in Range(ks) /\ items'[s2][k2] = Absent)
    BY <1>2, HomeIsTotal, DelKeeps
  <2>3. ~Fails
    BY <2>2 DEF Fails
  <2>4. \A k \in Keys : Kept(Const, k)
    BY <2>2, HomeIsTotal, ServerAssumption
  <2>5. \A k \in Keys : Kept(Plain, k) \/ PlainChange(k)
    BY <1>2, <2>2, <2>3, HomeIsTotal DEF PlainChange
  <2> QED BY <2>1, <2>4, <2>5 DEF ServerStep
<1> QED BY <1>1, <1>2 DEF RoutedDel

LEMMA ServerNextStep == TypeOK /\ ServerNext => TypeOK' /\ ServerStep
<1> SUFFICES ASSUME TypeOK, ServerNext PROVE TypeOK' /\ ServerStep
  OBVIOUS
<1>1. ASSUME NEW k \in Keys, SingleKey(k) PROVE TypeOK' /\ ServerStep
  BY <1>1, SingleKeyStep
<1>2. ASSUME NEW ks \in KeySeqs, NEW bad \in BOOLEAN, RoutedDel(ks, bad)
      PROVE  TypeOK' /\ ServerStep
  BY <1>2, RoutedDelStep
<1>3. ASSUME NEW ks \in KeySeqs, NEW bad \in BOOLEAN, RoutedExists(ks, bad) \/ RoutedMget(ks, bad)
      PROVE  TypeOK' /\ ServerStep
  BY <1>3, HomeIsTotal, ExistsType, MgetType, ManyReadsKeep, PurgingStep
     DEF RoutedExists, RoutedMget
<1>4. ASSUME NEW P \in Patterns, RoutedKeys(P) PROVE TypeOK' /\ ServerStep
  BY <1>4, HomeIsTotal, KeysType, KeysKeep, PurgingStep DEF RoutedKeys
<1>5. ASSUME NEW op \in Commands, Reject(op) PROVE TypeOK' /\ ServerStep
  BY <1>5, RejectType, PurgingStep DEF Reject, Kept
<1>6. ASSUME NEW reply \in PingReplies, Ping(reply) PROVE TypeOK' /\ ServerStep
  BY <1>6, PingType, PurgingStep DEF Ping, Kept
<1> QED BY <1>1, <1>2, <1>3, <1>4, <1>5, <1>6 DEF ServerNext, ManyKeys

-----------------------------------------------------------------------------
(* The invariant is inductive *)

LEMMA ServerInitInv == ServerInit => IInv
<1> SUFFICES ASSUME ServerInit PROVE IInv
  OBVIOUS
<1>1. InfoItem \in Item /\ InfoItem.exp = NoDeadline
  BY ServerAssumption, PayloadsAssumption DEF InfoItem, StoredValue, Item, Deadlines
<1>2. items \in [Stores -> Dictionary]
  BY <1>1 DEF ServerInit, Dictionary
<1>3. 0 \in Time
  BY TimeAssumption DEF Time
<1>4. "" \in Operations
  BY DEF Operations
<1>5. last \in [op : Operations, keys : Seq(Keys), reply : Replies]
  BY <1>4, NoKeys, PlainReplies DEF ServerInit
<1>6. TypeOK
  BY <1>2, <1>3, <1>5 DEF ServerInit, TypeOK
<1>7. Partitioned
  BY <1>1, ServerAssumption, KeysAssumption, HomeIsTotal
     DEF ServerInit, Partitioned, ConstEntries
<1> QED BY <1>6, <1>7 DEF IInv

LEMMA StepInv ==
  ASSUME IInv, TypeOK', ServerStep
  PROVE  /\ IInv'
         /\ \A k \in ConstKeys : items[Const][k] # Absent => items'[Const][k] = items[Const][k]
<1>1. /\ ConstEntries(items'[Const])
      /\ \A k \in Keys : items[Const][k] # Absent => items'[Const][k] = items[Const][k]
  BY HomeIsTotal, ConstStepKeeps DEF IInv, Partitioned, ServerStep
<1>2. \A k \in ConstKeys : items'[Plain][k] = Absent
  BY KeysAssumption DEF IInv, Partitioned, ServerStep, Kept, Purged, PlainChange
<1> QED BY <1>1, <1>2, KeysAssumption DEF IInv, Partitioned

LEMMA ServerNextInv ==
  ASSUME IInv, ServerNext
  PROVE  /\ IInv' /\ ServerStep
         /\ \A k \in ConstKeys : items[Const][k] # Absent => items'[Const][k] = items[Const][k]
BY ServerNextStep, StepInv DEF IInv

LEMMA ServerInv == ServerSpec => []IInv
<1>1. IInv /\ [ServerNext]_vars => IInv'
  <2>1. IInv /\ ServerNext => IInv'
    BY ServerNextInv
  <2>2. IInv /\ UNCHANGED vars => IInv'
    BY DEF IInv, vars, TypeOK, Partitioned, ConstEntries
  <2> QED BY <2>1, <2>2
<1> QED BY <1>1, ServerInitInv, PTL DEF ServerSpec

(* The server only ever holds well-formed entries and sends well-formed    *)
(* replies.                                                                *)
THEOREM ServerTypeCorrect == ServerSpec => []TypeOK
BY ServerInv, PTL DEF IInv

(* A key is only ever kept by the store the router sends it to, and no     *)
(* constant has a deadline.                                                *)
THEOREM PartitionedHolds == ServerSpec => []Partitioned
BY ServerInv, PTL DEF IInv

(* No command of any client replaces or removes a constant.                *)
THEOREM ConstWriteOnceHolds == ServerSpec => ConstWriteOnce
<1>1. IInv /\ [ServerNext]_vars =>
        [ \A k \in ConstKeys :
            items[Const][k] # Absent => items'[Const][k] = items[Const][k] ]_vars
  BY ServerNextInv
<1> QED BY <1>1, ServerInv, PTL DEF ServerSpec, ConstWriteOnce

(* A command that is answered with an error, or with nil because it did    *)
(* nothing, leaves everything clients can see as time alone would leave it.*)
THEOREM NoEffectOnFailureHolds == ServerSpec => NoEffectOnFailure
<1>1. ASSUME IInv, ServerNext, Fails
      PROVE  LiveContents(clock)' = [k \in Keys |-> AliveAt(items[Home[k]][k], clock')]
  <2> SUFFICES ASSUME NEW k \in Keys
               PROVE  AliveAt(items'[Home[k]][k], clock') = AliveAt(items[Home[k]][k], clock')
    BY DEF LiveContents
  <2>1. ServerStep
    BY <1>1, ServerNextInv
  <2>2. Kept(Home[k], k) \/ Purged(Home[k], k)
    BY <1>1, <2>1, WritesDoNotFail DEF ServerStep, PlainChange, Founded, Home
  <2>3. ~Expired(Absent, clock')
    BY DEF Expired, HasDeadline
  <2> QED BY <2>2, <2>3 DEF Kept, Purged, AliveAt
<1>2. IInv /\ [ServerNext]_vars =>
        [ last'.reply = Error \/ (last'.reply = Nil /\ last'.op # "SET GET") =>
            LiveContents(clock)' = [k \in Keys |-> AliveAt(items[Home[k]][k], clock')] ]_vars
  BY <1>1 DEF Fails
<1> QED BY <1>2, ServerInv, PTL DEF ServerSpec, NoEffectOnFailure

-----------------------------------------------------------------------------
(* The two stores implement one map.  Its definitions are those of         *)
(* ExpiringMap, which uses the same data as the stores.                    *)

LEMMA SameValues ==
  /\ \A x, t : Eager!AliveAt(x, t) = AliveAt(x, t)
  /\ Eager!Item = Item
  /\ \A t : Eager!From(t) = From(t)
BY DEF Eager!AliveAt, Eager!Expired, Eager!HasDeadline, AliveAt, Expired, HasDeadline,
       Eager!Item, Item, Eager!Deadlines, Deadlines, Eager!From, From

LEMMA SameReplies ==
  /\ Eager!Ok = Ok /\ Eager!Nil = Nil /\ Eager!Error = Error
  /\ \A n : Eager!Count(n) = Count(n)
  /\ \A xs : Eager!Array(xs) = Array(xs)
  /\ \A P, S : Eager!Names(P, S) = Names(P, S)
  /\ \A x : Eager!GetReply(x) = GetReply(x)
  /\ \A x : Eager!JsonGetReply(x) = JsonGetReply(x)
  /\ \A x : Eager!OldReply(x) = OldReply(x)
  /\ \A x, t : Eager!DumpReply(x, t) = DumpReply(x, t)
BY DEF Eager!Ok, Eager!Nil, Eager!Error, Ok, Nil, Error, Eager!Count, Count, Eager!Array, Array, Eager!Names, Names,
       Eager!GetReply, GetReply, Eager!ValueOf, ValueOf, Eager!JsonGetReply, JsonGetReply, Eager!OldReply, OldReply,
       Eager!DumpReply, DumpReply, Eager!Dumpable, Dumpable, Eager!EncodeDump, EncodeDump, Eager!TtlMs, TtlMs,
       Eager!RoundToMs, RoundToMs

LEMMA SameSets ==
  /\ \A f : Eager!Range(f) = Range(f)
  /\ \A S : Eager!Cardinality(S) = Cardinality(S)
BY DEF Eager!Range, Range, Eager!Cardinality, Cardinality

LEMMA Smallest ==
  ASSUME NEW T \in SUBSET Nat, T # {}
  PROVE  \E x \in T : \A y \in T : x <= y
<1>1. PICK x \in T : \A y \in T : ~(<<y, x>> \in OpToRel(<, Nat))
  BY NatLessThanWellFounded, WFMin
<1>2. ASSUME NEW y \in T, y < x PROVE FALSE
  <2>1. <<y, x>> \in OpToRel(<, Nat)
    BY <1>2 DEF OpToRel
  <2> QED BY <1>1, <2>1
<1>3. \A y \in T : x <= y
  BY <1>2
<1> QED BY <1>3

LEMMA AliveLater ==
  ASSUME NEW x \in Item \cup {Absent}, NEW t1 \in Int, NEW t2 \in Int, t1 <= t2
  PROVE  /\ AliveAt(AliveAt(x, t1), t2) = AliveAt(x, t2)
         /\ AliveAt(x, t2) # Absent => AliveAt(x, t1) # Absent
<1>1. ~Expired(Absent, t2)
  BY DEF Expired, HasDeadline
<1> QED BY <1>1, ExpiredLater DEF AliveAt

LEMMA HomeItems ==
  ASSUME TypeOK, NEW k \in Keys
  PROVE  Home[k] \in Stores /\ items[Home[k]][k] \in Item \cup {Absent}
BY HomeIsTotal DEF TypeOK, Dictionary

(* What the map holds at an instant of the command. *)
LEMMA AgedIs ==
  ASSUME TypeOK, NEW t \in From(clock)
  PROVE  Eager!Aged(t) = [k \in Keys |-> AliveAt(items[Home[k]][k], t)]
<1>1. ASSUME NEW k \in Keys
      PROVE  AliveAt(LiveContents(clock)[k], t) = AliveAt(items[Home[k]][k], t)
  <2>1. clock \in Int /\ t \in Int /\ clock <= t
    BY FromOrder DEF TypeOK
  <2> QED BY <2>1, HomeItems, AliveLater DEF LiveContents
<1> QED BY <1>1, SameValues DEF Eager!Aged

(* A command that only purges leaves the map as time leaves it. *)
LEMMA PassesMaps ==
  ASSUME TypeOK, clock' \in From(clock), \A k \in Keys : Kept(Home[k], k) \/ Purged(Home[k], k)
  PROVE  Eager!Passes
<1>1. ASSUME NEW k \in Keys
      PROVE  AliveAt(items'[Home[k]][k], clock') = AliveAt(items[Home[k]][k], clock')
  <2>1. ~Expired(Absent, clock')
    BY DEF Expired, HasDeadline
  <2> QED BY <2>1 DEF Kept, Purged, AliveAt
<1>2. LiveContents(clock)' = [k \in Keys |-> AliveAt(items'[Home[k]][k], clock')]
  BY DEF LiveContents
<1>3. Eager!Aged(clock') = [k \in Keys |-> AliveAt(items[Home[k]][k], clock')]
  BY AgedIs
<1>4. LiveContents(clock)' = Eager!Aged(clock')
  BY <1>1, <1>2, <1>3
<1> QED BY <1>4, SameValues DEF Eager!Passes

LEMMA FailMaps ==
  ASSUME Eager!Passes,
         \/ last'.reply = Error
         \/ last'.reply = Nil /\ last'.op \in {"SET", "SET GET", "JSON.SET", "LOAD"}
  PROVE  Eager!MapNext
BY SameReplies DEF Eager!MapNext, Eager!Fail

LEMMA ReadMaps ==
  ASSUME TypeOK, NEW k \in Keys, Get(Home[k], k) \/ JsonGet(Home[k], k) \/ Dump(Home[k], k)
  PROVE  Eager!MapNext
<1> DEFINE x == items[Home[k]][k]
<1>1. PICK t1 \in From(clock), t2 \in Time :
        /\ t2 \in From(t1) /\ clock' = t2 /\ last'.keys = <<k>>
        /\ \/ last'.op = "GET" /\ last'.reply = GetReply(AliveAt(x, t1))
           \/ last'.op = "JSON.GET" /\ last'.reply = JsonGetReply(AliveAt(x, t1))
           \/ last'.op = "DUMP" /\ last'.reply = DumpReply(AliveAt(x, t1), t2)
  <2>0. /\ clock \in Time /\ \A t \in From(clock) : t \in Time /\ t \in From(t)
        /\ \A t \in Time : From(t) \subseteq Time
    BY FromType, FromSelf DEF TypeOK
  <2>1. CASE Get(Home[k], k)
    BY <2>0, <2>1 DEF Get, Answer
  <2>2. CASE JsonGet(Home[k], k)
    BY <2>0, <2>2 DEF JsonGet, Answer
  <2>3. CASE Dump(Home[k], k)
    BY <2>0, <2>3 DEF Dump, Answer
  <2> QED BY <2>1, <2>2, <2>3
<1>2. clock \in Int /\ t1 \in Int /\ t2 \in Int /\ clock <= t1 /\ t1 <= t2 /\ t2 <= MaxClock
  BY <1>1, TimeAssumption, FromOrder DEF TypeOK, From, Time
<1>3. clock' \in From(clock) /\ t1 \in Eager!During
  BY <1>1, <1>2, TimeAssumption DEF From, Eager!During
<1>4. Eager!Passes
  BY <1>3, HomeItems, ReadsKeep, PassesMaps
<1>5. Eager!Aged(t1)[k] = AliveAt(x, t1)
  BY AgedIs
<1>6. Eager!Read(k, t1)
  BY <1>1, <1>5, SameReplies DEF Eager!Read
<1> QED BY <1>1, <1>3, <1>4, <1>6 DEF Eager!MapNext, Eager!ReadOne

(* The clock is read once for every key, in the order of the keys. *)
LEMMA InstantsAre ==
  ASSUME clock \in Time, NEW n \in Nat, NEW ts \in Readings(n), clock' = Latest(ts)
  PROVE  clock' \in From(clock) /\ ts \in Eager!Instants(n)
<1>1. /\ ts \in [1..n -> From(clock)] /\ Latest(ts) \in From(clock)
      /\ \A i \in 1..n : ts[i] \in Time /\ ts[i] <= Latest(ts)
      /\ \A i, j \in 1..n : i <= j => ts[i] <= ts[j]
  BY ReadingsType, LatestIsLast DEF Readings
<1>2. \A i \in 1..n : ts[i] \in clock..clock'
  BY <1>1, FromOrder
<1> QED BY <1>1, <1>2 DEF Eager!Instants, Eager!During

LEMMA ManyReadsMap ==
  ASSUME TypeOK, NEW ks \in KeySeqs, NEW bad \in BOOLEAN, Exists(Home, ks, bad) \/ Mget(Home, ks, bad)
  PROVE  Eager!MapNext
<1> DEFINE count(ts) == Count(Cardinality({ i \in DOMAIN ks : Found(Home, ks, ts, i) # Absent }))
           array(ts) == Array([i \in DOMAIN ks |-> GetReply(Found(Home, ks, ts, i))])
<1>1. PICK ts \in Readings(Len(ks)) :
        /\ clock' = Latest(ts) /\ last'.keys = ks
        /\ \/ last'.reply = Error
           \/ last'.op = "EXISTS" /\ last'.reply = count(ts)
           \/ last'.op = "MGET" /\ last'.reply = array(ts)
  <2>1. CASE Exists(Home, ks, bad)
    <3>1. PICK ts \in Readings(Len(ks)) :
            clock' = Latest(ts) /\ last' = [op |-> "EXISTS", keys |-> ks, reply |-> IF bad THEN Error ELSE count(ts)]
      BY <2>1, Zenon DEF Exists, Answer
    <3> HIDE DEF count
    <3> QED BY <3>1
  <2>2. CASE Mget(Home, ks, bad)
    <3>1. PICK ts \in Readings(Len(ks)) :
            clock' = Latest(ts) /\ last' = [op |-> "MGET", keys |-> ks, reply |-> IF bad THEN Error ELSE array(ts)]
      BY <2>2, Zenon DEF Mget, Answer
    <3> HIDE DEF array
    <3> QED BY <3>1
  <2> QED BY <2>1, <2>2, Zenon
<1>2. clock \in Time /\ Len(ks) \in Nat /\ DOMAIN ks = 1..Len(ks) /\ \A i \in DOMAIN ks : ks[i] \in Keys
  BY KeySeqsType DEF TypeOK
<1>3. clock' \in From(clock) /\ ts \in Eager!Instants(Len(ks)) /\ \A i \in DOMAIN ks : ts[i] \in From(clock)
  BY <1>1, <1>2, InstantsAre, ReadingsType
<1>4. Eager!Passes
  BY <1>3, HomeItems, ManyReadsKeep, PassesMaps
<1>5. \A i \in DOMAIN ks : Eager!Aged(ts[i])[ks[i]] = Found(Home, ks, ts, i)
  BY <1>2, <1>3, AgedIs DEF Found
<1>6. /\ count(ts) = Eager!Count(Eager!Cardinality({ i \in DOMAIN ks : Eager!Aged(ts[i])[ks[i]] # Absent }))
      /\ array(ts) = Eager!Array([i \in DOMAIN ks |-> Eager!GetReply(Eager!Aged(ts[i])[ks[i]])])
  <2>1. { i \in DOMAIN ks : Found(Home, ks, ts, i) # Absent } = { i \in DOMAIN ks : Eager!Aged(ts[i])[ks[i]] # Absent }
    BY <1>5
  <2>2. [i \in DOMAIN ks |-> GetReply(Found(Home, ks, ts, i))]
          = [i \in DOMAIN ks |-> Eager!GetReply(Eager!Aged(ts[i])[ks[i]])]
    BY <1>5, SameReplies
  <2> QED BY <2>1, <2>2, SameReplies, SameSets
<1>7. CASE last'.reply = Error
  BY <1>4, <1>7, FailMaps
<1> HIDE DEF count, array
<1>8. CASE \/ last'.op = "EXISTS" /\ last'.reply = count(ts)
           \/ last'.op = "MGET" /\ last'.reply = array(ts)
  BY <1>1, <1>3, <1>4, <1>6, <1>8 DEF Eager!MapNext, Eager!ReadMany
<1> QED BY <1>1, <1>7, <1>8

LEMMA KeysMaps ==
  ASSUME TypeOK, NEW P \in Patterns, KeysCommand(Home, P)
  PROVE  Eager!MapNext
<1> DEFINE S(at) == { k \in P : AliveAt(items[Home[k]][k], at[k]) # Absent }
<1>1. PICK at \in [Keys -> From(clock)], t \in From(clock) :
        /\ \A k \in Keys : at[k] <= t
        /\ clock' = t
        /\ items' = [s \in Stores |-> [k \in Keys |->
                       IF Home[k] = s THEN AliveAt(items[s][k], at[k]) ELSE items[s][k]]]
        /\ Answer("KEYS", <<>>, Names(P, S(at)))
  BY DEF KeysCommand
<1>2. P \subseteq Keys /\ S(at) \subseteq Keys
  BY StoreAssumption
<1>3. Eager!Passes
  BY <1>1, HomeItems, KeysKeep, PassesMaps
<1>4. ASSUME NEW k \in Keys
      PROVE  /\ LiveContents(clock)'[k] # Absent => AliveAt(items[Home[k]][k], at[k]) # Absent
             /\ AliveAt(items[Home[k]][k], at[k]) # Absent => Eager!Aged(clock)[k] # Absent
  <2>1. /\ clock \in From(clock) /\ clock \in Int /\ at[k] \in Int /\ clock <= at[k] /\ at[k] <= clock'
        /\ clock' \in Int /\ clock' \in From(clock)
    BY <1>1, FromOrder, FromSelf DEF TypeOK
  <2>2. Eager!Aged(clock)[k] = AliveAt(items[Home[k]][k], clock)
    BY <2>1, AgedIs
  <2>3. LiveContents(clock)'[k] = AliveAt(items[Home[k]][k], clock')
    <3>1. LiveContents(clock)' = Eager!Aged(clock')
      BY <1>3 DEF Eager!Passes
    <3> QED BY <2>1, <3>1, AgedIs
  <2> QED BY <2>1, <2>2, <2>3, HomeItems, AliveLater
<1>5. /\ last'.op = "KEYS" /\ last'.reply = Eager!Names(P, S(at))
      /\ { k \in P : LiveContents(clock)'[k] # Absent } \subseteq S(at)
      /\ S(at) \subseteq { k \in P : Eager!Aged(clock)[k] # Absent }
  BY <1>1, <1>2, <1>4, SameReplies DEF Answer
<1> HIDE DEF S
<1> QED BY <1>2, <1>3, <1>5 DEF Eager!MapNext, Eager!List
(* A command that fails before it looks at a store, and one that only      *)
(* purges the key it was not allowed to write.                             *)
LEMMA ErrorMaps ==
  ASSUME TypeOK, UNCHANGED <<items, clock>>, last'.reply = Error
  PROVE  Eager!MapNext
<1>1. clock' \in From(clock) /\ \A k \in Keys : Kept(Home[k], k)
  BY FromSelf DEF TypeOK, Kept
<1> QED BY <1>1, PassesMaps, FailMaps

LEMMA FromLater ==
  ASSUME NEW c \in Time, NEW t \in From(c), NEW u \in From(t)
  PROVE  /\ c \in Int /\ t \in Time /\ t \in Int /\ u \in Time /\ u \in Int
         /\ c <= t /\ t <= u /\ u \in From(c) /\ t \in c..u
BY TimeAssumption DEF Time, From

LEMMA PurgeMaps ==
  ASSUME TypeOK, NEW s \in Stores, NEW k \in Keys, NEW t \in From(clock), clock' \in From(t),
         items' = [items EXCEPT ![s] = Purge(items[s], k, t)],
         \/ last'.reply = Error
         \/ last'.reply = Nil /\ last'.op \in {"SET", "SET GET", "JSON.SET", "LOAD"}
  PROVE  Eager!MapNext
<1>1. clock \in Time
  BY DEF TypeOK
<1>2. t \in Int /\ clock' \in Int /\ t <= clock' /\ clock' \in From(clock)
  BY <1>1, FromLater
<1>3. \A s2 \in Stores, k2 \in Keys : Kept(s2, k2) \/ Purged(s2, k2)
  BY <1>2, PurgeKeeps
<1>4. \A k2 \in Keys : Kept(Home[k2], k2) \/ Purged(Home[k2], k2)
  BY <1>3, HomeItems
<1> QED BY <1>2, <1>4, PassesMaps, FailMaps

(* A write that succeeds puts one entry into the store of its key. *)
LEMMA EntryPut ==
  ASSUME TypeOK, NEW s \in Stores, NEW k \in Keys, Home[k] = s, NEW t, NEW x,
         items' = [items EXCEPT ![s] = [Purge(items[s], k, t) EXCEPT ![k] = x]]
  PROVE  /\ items'[Home[k]][k] = x
         /\ \A k2 \in Keys : k2 # k => items'[Home[k2]][k2] = items[Home[k2]][k2]
<1>1. items'[s][k] = x
  <2>1. Purge(items[s], k, t) \in Dictionary
    BY SeenType
  <2>2. items'[s] = [Purge(items[s], k, t) EXCEPT ![k] = x]
    BY DEF TypeOK
  <2> QED BY <2>1, <2>2 DEF Dictionary
<1>2. \A s2 \in Stores, k2 \in Keys : k2 # k => items'[s2][k2] = items[s2][k2]
  BY DEF TypeOK, Dictionary, Purge
<1> QED BY <1>1, <1>2, HomeItems

LEMMA OneReplaced ==
  ASSUME NEW f, NEW g, f = [j \in Keys |-> f[j]], g = [j \in Keys |-> g[j]], NEW k \in Keys,
         \A j \in Keys : j # k => f[j] = g[j]
  PROVE  f = [g EXCEPT ![k] = f[k]]
OBVIOUS

(* The map gets the new item unless its deadline has passed already, and   *)
(* the old one was looked at at some instant.                              *)
LEMMA WriteMaps ==
  ASSUME TypeOK, NEW s \in Stores, NEW k \in Keys, Home[k] = s,
         NEW x \in Item, NEW t \in From(clock), clock' \in From(t),
         items' = [items EXCEPT ![s] = [Purge(items[s], k, t) EXCEPT ![k] = x]],
         last'.op \in {"SET", "SET GET", "JSON.SET", "LOAD"}, last'.keys = <<k>>,
         last'.reply = IF last'.op = "SET GET" THEN OldReply(AliveAt(items[s][k], t)) ELSE Ok,
         last'.op \in {"SET", "SET GET"} => ~x.json,
         last'.op = "JSON.SET" => x.json /\ x.exp = NoDeadline,
         k \in ConstKeys => LiveContents(clock)[k] = Absent /\ x.exp = NoDeadline
  PROVE  Eager!MapNext
<1> DEFINE new == LiveContents(clock)'
           y == AliveAt(x, clock')
<1>1. clock \in Time
  BY DEF TypeOK
<1>2. clock' \in From(clock) /\ t \in Eager!During
  BY <1>1, FromLater DEF Eager!During
<1>3. /\ items'[Home[k]][k] = x
      /\ \A k2 \in Keys : k2 # k => items'[Home[k2]][k2] = items[Home[k2]][k2]
  BY EntryPut
<1>4. new = [k2 \in Keys |-> AliveAt(items'[Home[k2]][k2], clock')]
  BY DEF LiveContents
<1>5. Eager!Aged(clock') = [k2 \in Keys |-> AliveAt(items[Home[k2]][k2], clock')]
  BY <1>2, AgedIs
<1>6. new[k] = y
  BY <1>3, <1>4
<1>7. new = [Eager!Aged(clock') EXCEPT ![k] = new[k]]
  <2>1. ASSUME NEW k2 \in Keys, k2 # k
        PROVE  new[k2] = Eager!Aged(clock')[k2]
    <3>1. new[k2] = AliveAt(items'[Home[k2]][k2], clock')
      BY <1>4
    <3>2. Eager!Aged(clock')[k2] = AliveAt(items[Home[k2]][k2], clock')
      BY <1>5
    <3>3. items'[Home[k2]][k2] = items[Home[k2]][k2]
      BY <2>1, <1>3
    <3> QED BY <3>1, <3>2, <3>3
  <2>2. /\ new = [k2 \in Keys |-> new[k2]]
        /\ Eager!Aged(clock') = [k2 \in Keys |-> Eager!Aged(clock')[k2]]
    BY <1>4, <1>5
  <2> HIDE DEF new
  <2> QED BY <2>1, <2>2, OneReplaced
<1>8. /\ y \in Item \cup {Absent}
      /\ y # Absent => y = x
      /\ x.exp = NoDeadline => y = x
  BY AliveAtType DEF AliveAt, Expired, HasDeadline
<1>9. x # Absent
  BY AbsentAssumption
<1> HIDE DEF new, y
<1>10. last'.reply = IF last'.op = "SET GET" THEN Eager!OldReply(Eager!Aged(t)[k]) ELSE Eager!Ok
  BY AgedIs, SameReplies
<1>11. /\ new[k] \in Item \cup {Absent}
       /\ last'.op \in {"SET", "SET GET"} /\ new[k] # Absent => ~new[k].json
       /\ last'.op = "JSON.SET" => new[k] \in Item /\ new[k].json /\ new[k].exp = NoDeadline
       /\ k \in ConstKeys => LiveContents(clock)[k] = Absent /\ new[k] # Absent /\ new[k].exp = NoDeadline
  BY <1>6, <1>8, <1>9
<1>12. Eager!Write
  BY <1>2, <1>7, <1>10, <1>11, SameValues DEF Eager!Write, new
<1> QED BY <1>12 DEF Eager!MapNext

LEMMA RefusalReply ==
  ASSUME NEW op \in {"SET", "SET GET", "JSON.SET", "LOAD"}, NEW k,
         Answer(op, <<k>>, Error) \/ Answer(op, <<k>>, Nil)
  PROVE  \/ last'.reply = Error
         \/ last'.reply = Nil /\ last'.op \in {"SET", "SET GET", "JSON.SET", "LOAD"}
<1>1. CASE Answer(op, <<k>>, Error)
  BY <1>1 DEF Answer
<1>2. CASE Answer(op, <<k>>, Nil)
  <2>1. last'.reply = Nil /\ last'.op = op
    BY <1>2 DEF Answer
  <2> QED BY <2>1
<1> QED BY <1>1, <1>2

LEMMA SetMaps ==
  ASSUME TypeOK, NEW s \in Stores, NEW k \in Keys, Home[k] = s, NEW now \in From(clock),
         NEW v \in Payloads, NEW ttl \in Ttls, NEW cond, NEW get \in BOOLEAN,
         k \in ConstKeys => LiveContents(clock)[k] = Absent /\ ttl = NoDeadline,
         Set(s, now, k, v, ttl, cond, get)
  PROVE  Eager!MapNext
<1> DEFINE op == IF get THEN "SET GET" ELSE "SET"
           new(t) == StoredValue(v, DeadlineAfter(ttl, t), FALSE)
<1>0. clock \in Time /\ now \in Time /\ op \in {"SET", "SET GET"} /\ (op = "SET GET" <=> get)
  BY FromLater, FromSelf DEF TypeOK
<1>1. PICK t1 \in From(now) : \E t2 \in From(t1) :
        LET seen == Purge(items[s], k, t1)
        IN /\ clock' = t2
           /\ \/ /\ items' = [items EXCEPT ![s] = seen]
                 /\ Answer(op, <<k>>, Error) \/ Answer(op, <<k>>, Nil)
              \/ /\ items' = [items EXCEPT ![s] = [seen EXCEPT ![k] = new(t2)]]
                 /\ Answer(op, <<k>>, IF get THEN OldReply(seen[k]) ELSE Ok)
  BY DEF Set
<1>2. clock' \in From(t1) /\ t1 \in From(clock) /\ clock' \in Time
  BY <1>0, <1>1, FromLater, ZenonT(60)
<1>3. CASE /\ items' = [items EXCEPT ![s] = Purge(items[s], k, t1)]
           /\ Answer(op, <<k>>, Error) \/ Answer(op, <<k>>, Nil)
  <2>1. \/ last'.reply = Error
        \/ last'.reply = Nil /\ last'.op \in {"SET", "SET GET", "JSON.SET", "LOAD"}
    BY <1>0, <1>3, RefusalReply
  <2> QED BY <1>2, <1>3, <2>1, PurgeMaps
<1>4. CASE /\ items' = [items EXCEPT ![s] = [Purge(items[s], k, t1) EXCEPT ![k] = new(clock')]]
           /\ Answer(op, <<k>>, IF get THEN OldReply(Purge(items[s], k, t1)[k]) ELSE Ok)
  <2>1. /\ new(clock') \in Item /\ ~new(clock').json
        /\ ttl = NoDeadline => new(clock').exp = NoDeadline
    <3>1. DeadlineAfter(ttl, clock') \in Deadlines /\ (ttl = NoDeadline => DeadlineAfter(ttl, clock') = NoDeadline)
      BY <1>2, DeadlineAfterType DEF DeadlineAfter
    <3> QED BY <3>1 DEF StoredValue, Item
  <2>2. /\ last'.op = op /\ last'.keys = <<k>>
        /\ last'.reply = IF last'.op = "SET GET" THEN OldReply(AliveAt(items[s][k], t1)) ELSE Ok
    BY <1>0, <1>4, SeenType DEF Answer
  <2> HIDE DEF op, new
  <2> QED BY <1>0, <1>2, <1>4, <2>1, <2>2, WriteMaps
<1> QED BY <1>1, <1>3, <1>4

LEMMA JsonSetMaps ==
  ASSUME TypeOK, NEW s \in Stores, NEW k \in Keys, Home[k] = s, NEW now \in From(clock),
         NEW v \in Payloads, NEW cond, k \in ConstKeys => LiveContents(clock)[k] = Absent,
         JsonSet(s, now, k, v, cond)
  PROVE  Eager!MapNext
<1> DEFINE new == StoredValue(v, NoDeadline, TRUE)
<1>0. clock \in Time /\ now \in Time
  BY FromLater, FromSelf DEF TypeOK
<1>1. PICK t \in From(now) :
        LET seen == Purge(items[s], k, t)
        IN /\ clock' = t
           /\ \/ /\ items' = [items EXCEPT ![s] = seen]
                 /\ Answer("JSON.SET", <<k>>, Error) \/ Answer("JSON.SET", <<k>>, Nil)
              \/ /\ Parses(v)
                 /\ items' = [items EXCEPT ![s] = [seen EXCEPT ![k] = new]]
                 /\ Answer("JSON.SET", <<k>>, Ok)
  BY DEF JsonSet
<1>2. t \in From(clock) /\ clock' \in From(t)
  BY <1>0, <1>1, FromLater, FromSelf
<1>3. CASE /\ items' = [items EXCEPT ![s] = Purge(items[s], k, t)]
           /\ Answer("JSON.SET", <<k>>, Error) \/ Answer("JSON.SET", <<k>>, Nil)
  <2>1. \/ last'.reply = Error
        \/ last'.reply = Nil /\ last'.op \in {"SET", "SET GET", "JSON.SET", "LOAD"}
    BY <1>3, RefusalReply
  <2> QED BY <1>2, <1>3, <2>1, PurgeMaps
<1>4. CASE /\ Parses(v)
           /\ items' = [items EXCEPT ![s] = [Purge(items[s], k, t) EXCEPT ![k] = new]]
           /\ Answer("JSON.SET", <<k>>, Ok)
  <2>1. new \in Item /\ new.json /\ new.exp = NoDeadline
    BY <1>4 DEF Parses, StoredValue, Item, Deadlines
  <2>2. last'.op = "JSON.SET" /\ last'.keys = <<k>> /\ last'.reply = Ok
    BY <1>4 DEF Answer
  <2> HIDE DEF new
  <2> QED BY <1>2, <1>4, <2>1, <2>2, WriteMaps
<1> QED BY <1>1, <1>3, <1>4

LEMMA LoadedMaps ==
  ASSUME TypeOK, NEW s \in Stores, NEW k \in Keys, Home[k] = s,
         NEW t1 \in From(clock), clock' \in From(t1),
         NEW b \in Blobs \cup {BadBlob},
         \/ /\ items' = [items EXCEPT ![s] = Purge(items[s], k, t1)]
            /\ Answer("LOAD", <<k>>, Error) \/ Answer("LOAD", <<k>>, Nil)
         \/ /\ b # BadBlob
            /\ k \in ConstKeys => LiveContents(clock)[k] = Absent /\ DecodeDump(b, clock').exp = NoDeadline
            /\ items' = [items EXCEPT ![s] = [Purge(items[s], k, t1) EXCEPT ![k] = DecodeDump(b, clock')]]
            /\ Answer("LOAD", <<k>>, Ok)
  PROVE  Eager!MapNext
<1>1. clock' \in Time
  BY FromLater DEF TypeOK
<1>2. CASE /\ items' = [items EXCEPT ![s] = Purge(items[s], k, t1)]
           /\ Answer("LOAD", <<k>>, Error) \/ Answer("LOAD", <<k>>, Nil)
  <2>1. \/ last'.reply = Error
        \/ last'.reply = Nil /\ last'.op \in {"SET", "SET GET", "JSON.SET", "LOAD"}
    BY <1>2, RefusalReply
  <2> QED BY <1>2, <2>1, PurgeMaps
<1>3. CASE /\ b # BadBlob
           /\ k \in ConstKeys => LiveContents(clock)[k] = Absent /\ DecodeDump(b, clock').exp = NoDeadline
           /\ items' = [items EXCEPT ![s] = [Purge(items[s], k, t1) EXCEPT ![k] = DecodeDump(b, clock')]]
           /\ Answer("LOAD", <<k>>, Ok)
  <2>1. DecodeDump(b, clock') \in Item
    BY <1>1, <1>3, DecodeDumpType, StoreAssumption
  <2>2. last'.op = "LOAD" /\ last'.keys = <<k>> /\ last'.reply = Ok
    BY <1>3 DEF Answer
  <2> QED BY <1>3, <2>1, <2>2, WriteMaps
<1> QED BY <1>2, <1>3

LEMMA LoadMaps ==
  ASSUME TypeOK, NEW s \in Stores, NEW k \in Keys, Home[k] = s, k \notin ConstKeys,
         NEW b \in Blobs \cup {BadBlob}, NEW cond, Load(s, k, b, cond)
  PROVE  Eager!MapNext
<1>1. PICK t1 \in From(clock) :
        /\ clock' \in From(t1)
        /\ \/ /\ items' = [items EXCEPT ![s] = Purge(items[s], k, t1)]
              /\ Answer("LOAD", <<k>>, Error) \/ Answer("LOAD", <<k>>, Nil)
           \/ /\ b # BadBlob
              /\ items' = [items EXCEPT ![s] = [Purge(items[s], k, t1) EXCEPT ![k] = DecodeDump(b, clock')]]
              /\ Answer("LOAD", <<k>>, Ok)
  BY DEF Load
<1> QED BY <1>1, LoadedMaps

(* A constant that was found missing was never written. *)
LEMMA ConstAbsent ==
  ASSUME IInv, NEW k \in ConstKeys, NEW t, Purge(items[Const], k, t)[k] = Absent
  PROVE  LiveContents(clock)[k] = Absent
<1>1. k \in Keys /\ Const \in Stores /\ Home[k] = Const
  BY KeysAssumption, HomeIsTotal DEF Home
<1>2. AliveAt(items[Const][k], t) = Absent
  BY <1>1, SeenType DEF IInv
<1>3. items[Const][k] # Absent => items[Const][k].exp = NoDeadline
  BY <1>1 DEF IInv, Partitioned, ConstEntries
<1>4. items[Const][k] = Absent
  BY <1>2, <1>3 DEF AliveAt, Expired, HasDeadline
<1> QED BY <1>1, <1>4 DEF LiveContents, AliveAt

LEMMA PrefixErrorMaps ==
  ASSUME TypeOK, NEW op, NEW k, PrefixError(op, k)
  PROVE  Eager!MapNext
BY ErrorMaps DEF PrefixError, Answer

LEMMA ConstSetMaps ==
  ASSUME IInv, NEW k \in Keys, Home[k] = Const, NEW v \in Payloads, NEW ttl \in Ttls,
         NEW cond, NEW get \in BOOLEAN, ConstSet(Const, k, v, ttl, cond, get)
  PROVE  Eager!MapNext
<1> DEFINE op == IF get THEN "SET GET" ELSE "SET"
<1>0. TypeOK /\ clock \in Time /\ Const \in Stores
  BY HomeIsTotal DEF IInv, TypeOK
<1>1. CASE PrefixError(op, k)
  BY <1>0, <1>1, PrefixErrorMaps
<1>2. ASSUME NEW t \in From(clock), clock' = t, Answer(op, <<k>>, Error),
             items' = [items EXCEPT ![Const] = Purge(items[Const], k, t)]
      PROVE  Eager!MapNext
  <2>1. clock' \in From(t) /\ last'.reply = Error
    BY <1>0, <1>2, FromOrder, FromSelf DEF Answer
  <2> QED BY <1>0, <1>2, <2>1, PurgeMaps
<1>3. ASSUME NEW t \in From(clock), k \in ConstKeys, ttl = NoDeadline,
             Purge(items[Const], k, t)[k] = Absent, Set(Const, t, k, v, ttl, cond, get)
      PROVE  Eager!MapNext
  BY <1>0, <1>3, ConstAbsent, SetMaps
<1> QED BY <1>1, <1>2, <1>3 DEF ConstSet

LEMMA ConstJsonSetMaps ==
  ASSUME IInv, NEW k \in Keys, Home[k] = Const, NEW v \in Payloads, NEW cond,
         ConstJsonSet(Const, k, v, cond)
  PROVE  Eager!MapNext
<1>0. TypeOK /\ clock \in Time /\ Const \in Stores
  BY HomeIsTotal DEF IInv, TypeOK
<1>1. CASE PrefixError("JSON.SET", k)
  BY <1>0, <1>1, PrefixErrorMaps
<1>2. ASSUME NEW t \in From(clock), clock' = t, Answer("JSON.SET", <<k>>, Error),
             items' = [items EXCEPT ![Const] = Purge(items[Const], k, t)]
      PROVE  Eager!MapNext
  <2>1. clock' \in From(t) /\ last'.reply = Error
    BY <1>0, <1>2, FromOrder, FromSelf DEF Answer
  <2> QED BY <1>0, <1>2, <2>1, PurgeMaps
<1>3. ASSUME NEW t \in From(clock), k \in ConstKeys, Purge(items[Const], k, t)[k] = Absent,
             JsonSet(Const, t, k, v, cond)
      PROVE  Eager!MapNext
  BY <1>0, <1>3, ConstAbsent, JsonSetMaps
<1> QED BY <1>1, <1>2, <1>3 DEF ConstJsonSet

LEMMA ConstLoadMaps ==
  ASSUME IInv, NEW k \in Keys, Home[k] = Const, NEW b \in Blobs \cup {BadBlob}, NEW cond,
         ConstLoad(Const, k, b, cond)
  PROVE  Eager!MapNext
<1>0. TypeOK /\ Const \in Stores
  BY HomeIsTotal DEF IInv
<1>1. CASE PrefixError("LOAD", k)
  BY <1>0, <1>1, PrefixErrorMaps
<1>2. CASE ~PrefixError("LOAD", k)
  <2>1. k \in ConstKeys
    BY <1>2 DEF ConstLoad
  <2>2. PICK t1 \in From(clock) :
          /\ clock' \in From(t1)
          /\ \/ /\ items' = [items EXCEPT ![Const] = Purge(items[Const], k, t1)]
                /\ Answer("LOAD", <<k>>, Error) \/ Answer("LOAD", <<k>>, Nil)
             \/ /\ Purge(items[Const], k, t1)[k] = Absent /\ ConstLoadable(b, clock')
                /\ items' = [items EXCEPT ![Const] = [Purge(items[Const], k, t1) EXCEPT
                               ![k] = DecodeDump(b, clock')]]
                /\ Answer("LOAD", <<k>>, Ok)
    BY <1>2 DEF ConstLoad
  <2>3. Purge(items[Const], k, t1)[k] = Absent => LiveContents(clock)[k] = Absent
    BY <2>1, ConstAbsent
  <2>4. \/ /\ items' = [items EXCEPT ![Const] = Purge(items[Const], k, t1)]
           /\ Answer("LOAD", <<k>>, Error) \/ Answer("LOAD", <<k>>, Nil)
        \/ /\ b # BadBlob
           /\ k \in ConstKeys => LiveContents(clock)[k] = Absent /\ DecodeDump(b, clock').exp = NoDeadline
           /\ items' = [items EXCEPT ![Const] = [Purge(items[Const], k, t1) EXCEPT ![k] = DecodeDump(b, clock')]]
           /\ Answer("LOAD", <<k>>, Ok)
    BY <2>2, <2>3 DEF ConstLoadable
  <2> QED BY <1>0, <2>2, <2>4, LoadedMaps
<1> QED BY <1>1, <1>2

(* DEL counts the positions at which a key that is there stands for the    *)
(* first time.                                                             *)
FirstPlacesOf(I, ks, A) == \A i \in I : ks[i] \in A /\ \A j \in 1..(i-1) : ks[j] # ks[i]

Covers(I, ks, B) == \A b \in B : \E i \in I : ks[i] = b

LEMMA FirstPlaces ==
  ASSUME NEW n \in Nat, NEW ks \in [1..n -> Keys], NEW I \in SUBSET (1..n),
         NEW A \in SUBSET Range(ks), NEW B \in SUBSET Range(ks),
         FirstPlacesOf(I, ks, A), Covers(I, ks, B)
  PROVE  Cardinality(I) \in 0..n /\ Cardinality(I) <= Cardinality(A) /\ Cardinality(I) >= Cardinality(B)
<1>1. IsFiniteSet(1..n) /\ Cardinality(1..n) = n
  BY FS_Interval
<1>2. IsFiniteSet(I) /\ Cardinality(I) <= n /\ Cardinality(I) \in Nat
  <2>1. IsFiniteSet(I) /\ Cardinality(I) <= Cardinality(1..n)
    BY <1>1, FS_Subset
  <2> QED BY <1>1, <2>1, FS_CardinalityType
<1>3. IsFiniteSet(A) /\ IsFiniteSet(B) /\ Cardinality(A) \in Nat /\ Cardinality(B) \in Nat
  <2>1. ks \in Surjection(1..n, Range(ks))
    BY DEF Surjection, Range
  <2>2. IsFiniteSet(Range(ks))
    BY <1>1, <2>1, FS_Surjection
  <2> QED BY <2>2, FS_Subset, FS_CardinalityType
<1>4. Cardinality(I) <= Cardinality(A)
  <2> DEFINE f == [i \in I |-> ks[i]]
  <2>1. ASSUME NEW i \in I, NEW j \in I, ks[i] = ks[j] PROVE i = j
    <3>1. i \in Nat /\ j \in Nat /\ i >= 1 /\ j >= 1
      OBVIOUS
    <3>2. ~(j \in 1..(i-1)) /\ ~(i \in 1..(j-1))
      BY <2>1 DEF FirstPlacesOf
    <3> QED BY <3>1, <3>2
  <2>2. f \in Injection(I, A)
    BY <2>1 DEF Injection, IsInjective, FirstPlacesOf
  <2> QED BY <1>3, <2>2, FS_Injection
<1>5. Cardinality(B) <= Cardinality(I)
  <2> DEFINE g == [b \in B |-> CHOOSE i \in I : ks[i] = b]
  <2>1. \A b \in B : g[b] \in I /\ ks[g[b]] = b
    BY DEF Covers
  <2>2. g \in [B -> I] /\ DOMAIN g = B
    BY <2>1
  <2> HIDE DEF g
  <2>3. g \in Injection(B, I)
    BY <2>1, <2>2 DEF Injection, IsInjective
  <2> QED BY <1>2, <2>3, FS_Injection
<1> QED BY <1>2, <1>3, <1>4, <1>5

LEMMA RemoveMaps ==
  ASSUME TypeOK, NEW ks \in KeySeqs, \A k \in Range(ks) : k \notin ConstKeys, Del(Plain, ks, FALSE)
  PROVE  Eager!MapNext
<1> DEFINE home == [k \in Keys |-> Plain]
           I(ts) == { i \in DOMAIN ks : /\ Found(home, ks, ts, i) # Absent
                                        /\ \A j \in 1..i-1 : ks[j] # ks[i] }
           A == { k \in Range(ks) : Eager!Aged(clock)[k] # Absent }
           B == { k \in Range(ks) : Eager!Aged(clock')[k] # Absent }
<1>1. PICK ts \in Readings(Len(ks)) :
        /\ clock' = Latest(ts)
        /\ items' = [items EXCEPT ![Plain] = [k \in Keys |-> IF k \in Range(ks) THEN Absent ELSE items[Plain][k]]]
        /\ last' = [op |-> "DEL", keys |-> ks, reply |-> Count(Cardinality(I(ts)))]
  BY Zenon DEF Del, Answer
<1>2. /\ clock \in Time /\ Len(ks) \in Nat /\ ks \in [1..Len(ks) -> Keys] /\ DOMAIN ks = 1..Len(ks)
      /\ Range(ks) \subseteq Keys /\ \A i \in 1..Len(ks) : ks[i] \in Range(ks)
  BY KeySeqsType DEF TypeOK, Range
<1>3. /\ clock' \in From(clock) /\ clock \in From(clock) /\ clock \in Int /\ clock' \in Int
      /\ \A i \in 1..Len(ks) : ts[i] \in Int /\ clock <= ts[i] /\ ts[i] <= clock'
  BY <1>1, <1>2, ReadingsType, LatestIsLast, FromOrder, FromSelf
<1>4. \A k \in Range(ks) : Home[k] = Plain /\ items[Plain][k] \in Item \cup {Absent}
  BY <1>2, HomeItems DEF Home
<1>5. /\ \A k \in Range(ks) : Eager!Aged(clock)[k] = AliveAt(items[Plain][k], clock)
      /\ \A k \in Range(ks) : Eager!Aged(clock')[k] = AliveAt(items[Plain][k], clock')
  BY <1>2, <1>3, <1>4, AgedIs
<1>6. \A i \in 1..Len(ks) : Found(home, ks, ts, i) = AliveAt(items[Plain][ks[i]], ts[i])
  BY <1>2 DEF Found
<1>7. ASSUME NEW i \in 1..Len(ks)
      PROVE  /\ Found(home, ks, ts, i) # Absent => Eager!Aged(clock)[ks[i]] # Absent
             /\ Eager!Aged(clock')[ks[i]] # Absent => Found(home, ks, ts, i) # Absent
  <2>1. items[Plain][ks[i]] \in Item \cup {Absent} /\ ks[i] \in Range(ks)
    BY <1>2, <1>4
  <2>2. /\ AliveAt(items[Plain][ks[i]], ts[i]) # Absent => AliveAt(items[Plain][ks[i]], clock) # Absent
        /\ AliveAt(items[Plain][ks[i]], clock') # Absent => AliveAt(items[Plain][ks[i]], ts[i]) # Absent
    BY <1>3, <2>1, AliveLater
  <2> QED BY <1>5, <1>6, <2>1, <2>2
<1>8. FirstPlacesOf(I(ts), ks, A)
  BY <1>2, <1>7 DEF FirstPlacesOf
<1>9. ASSUME NEW b \in B PROVE \E i \in I(ts) : ks[i] = b
  <2> DEFINE T == { i \in 1..Len(ks) : ks[i] = b }
  <2>1. T \subseteq Nat /\ T # {}
    BY <1>2 DEF Range
  <2>2. PICK i \in T : \A j \in T : i <= j
    BY <2>1, Smallest
  <2>3. i \in 1..Len(ks) /\ ks[i] = b /\ \A j \in 1..(i-1) : ks[j] # ks[i]
    <3>1. ASSUME NEW j \in 1..(i-1), ks[j] = ks[i] PROVE FALSE
      <4>1. j \in T
        BY <1>2, <2>2, <3>1
      <4> QED BY <2>1, <2>2, <4>1
    <3> QED BY <2>2, <3>1
  <2>4. Found(home, ks, ts, i) # Absent
    BY <1>7, <2>3
  <2> QED BY <1>2, <2>3, <2>4
<1>10. I(ts) \in SUBSET (1..Len(ks)) /\ A \in SUBSET Range(ks) /\ B \in SUBSET Range(ks)
  BY <1>2
<1> HIDE DEF I, A, B
<1>11. /\ Cardinality(I(ts)) \in 0..Len(ks)
       /\ Cardinality(I(ts)) <= Cardinality(A) /\ Cardinality(I(ts)) >= Cardinality(B)
  <2>1. Covers(I(ts), ks, B)
    BY <1>9 DEF Covers
  <2> QED BY <1>2, <1>8, <1>10, <2>1, FirstPlaces
<1>12. LiveContents(clock)' = [k \in Keys |-> IF k \in Range(ks) THEN Absent ELSE Eager!Aged(clock')[k]]
  <2>1. ASSUME NEW k \in Keys
        PROVE  AliveAt(items'[Home[k]][k], clock') = IF k \in Range(ks) THEN Absent ELSE Eager!Aged(clock')[k]
    <3>1. CASE k \in Range(ks)
      <4>1. items'[Plain][k] = Absent
        BY <1>1, <3>1, HomeIsTotal DEF TypeOK
      <4> QED BY <1>4, <3>1, <4>1 DEF AliveAt, Expired, HasDeadline
    <3>2. CASE k \notin Range(ks)
      <4>1. items'[Home[k]][k] = items[Home[k]][k]
        BY <1>1, <3>2, HomeItems, HomeIsTotal DEF TypeOK
      <4> QED BY <1>3, <3>2, <4>1, AgedIs
    <3> QED BY <3>1, <3>2
  <2> QED BY <2>1 DEF LiveContents
<1>13. Eager!Remove
  <2>1. Eager!Range(ks) = Range(ks) /\ Range(ks) \cap ConstKeys = {}
    BY SameSets
  <2>2. Eager!Cardinality(A) = Cardinality(A) /\ Eager!Cardinality(B) = Cardinality(B)
    BY SameSets
  <2>3. last'.op = "DEL" /\ last'.keys = ks /\ last'.reply = Eager!Count(Cardinality(I(ts)))
    BY <1>1, SameReplies
  <2> QED BY <1>3, <1>11, <1>12, <2>1, <2>2, <2>3, SameValues DEF Eager!Remove, A, B
<1> QED BY <1>13 DEF Eager!MapNext

LEMMA SingleKeyMaps ==
  ASSUME IInv, NEW k \in Keys, SingleKey(k)
  PROVE  Eager!MapNext
<1>0. /\ TypeOK /\ clock \in From(clock) /\ Plain \in Stores /\ Const \in Stores
      /\ Home[k] = Plain => k \notin ConstKeys
  BY HomeIsTotal, ServerAssumption, FromSelf DEF IInv, TypeOK, Home
<1>1. CASE Get(Home[k], k) \/ JsonGet(Home[k], k) \/ Dump(Home[k], k)
  BY <1>0, <1>1, ReadMaps
<1>2. ASSUME NEW v \in Payloads, NEW ttl \in Ttls, NEW cond \in Conditions, NEW get \in BOOLEAN,
             \/ Home[k] = Const /\ ConstSet(Const, k, v, ttl, cond, get)
             \/ Home[k] = Plain /\ Set(Plain, clock, k, v, ttl, cond, get)
      PROVE  Eager!MapNext
  <2>1. CASE Home[k] = Const /\ ConstSet(Const, k, v, ttl, cond, get)
    BY <2>1, ConstSetMaps
  <2>2. CASE Home[k] = Plain /\ Set(Plain, clock, k, v, ttl, cond, get)
    BY <1>0, <2>2, SetMaps
  <2> QED BY <1>2, <2>1, <2>2
<1>3. ASSUME NEW v \in Payloads, NEW cond \in Conditions,
             \/ Home[k] = Const /\ ConstJsonSet(Const, k, v, cond)
             \/ Home[k] = Plain /\ JsonSet(Plain, clock, k, v, cond)
      PROVE  Eager!MapNext
  <2>1. CASE Home[k] = Const /\ ConstJsonSet(Const, k, v, cond)
    BY <2>1, ConstJsonSetMaps
  <2>2. CASE Home[k] = Plain /\ JsonSet(Plain, clock, k, v, cond)
    BY <1>0, <2>2, JsonSetMaps
  <2> QED BY <1>3, <2>1, <2>2
<1>4. ASSUME NEW b \in Blobs \cup {BadBlob}, NEW cond \in Conditions,
             \/ Home[k] = Const /\ ConstLoad(Const, k, b, cond)
             \/ Home[k] = Plain /\ Load(Plain, k, b, cond)
      PROVE  Eager!MapNext
  <2>1. CASE Home[k] = Const /\ ConstLoad(Const, k, b, cond)
    BY <2>1, ConstLoadMaps
  <2>2. CASE Home[k] = Plain /\ Load(Plain, k, b, cond)
    BY <1>0, <2>2, LoadMaps
  <2> QED BY <1>4, <2>1, <2>2
<1> QED BY <1>1, <1>2, <1>3, <1>4 DEF SingleKey, RoutedSet, RoutedJsonSet, RoutedLoad

LEMMA ServerNextMaps ==
  ASSUME IInv, ServerNext
  PROVE  Eager!MapNext
<1>0. TypeOK
  BY DEF IInv
<1>1. ASSUME NEW k \in Keys, SingleKey(k) PROVE Eager!MapNext
  BY <1>1, SingleKeyMaps
<1>2. ASSUME NEW ks \in KeySeqs, NEW bad \in BOOLEAN, RoutedDel(ks, bad)
      PROVE  Eager!MapNext
  <2>1. CASE Answer("DEL", ks, Error) /\ UNCHANGED <<items, clock>>
    BY <1>0, <2>1, ErrorMaps DEF Answer
  <2>2. CASE (\A k \in Range(ks) : k \notin ConstKeys) /\ Del(Plain, ks, FALSE)
    BY <1>0, <2>2, RemoveMaps
  <2> QED BY <1>2, <2>1, <2>2 DEF RoutedDel
<1>3. ASSUME NEW ks \in KeySeqs, NEW bad \in BOOLEAN, RoutedExists(ks, bad) \/ RoutedMget(ks, bad)
      PROVE  Eager!MapNext
  BY <1>0, <1>3, ManyReadsMap DEF RoutedExists, RoutedMget
<1>4. ASSUME NEW P \in Patterns, RoutedKeys(P) PROVE Eager!MapNext
  BY <1>0, <1>4, KeysMaps DEF RoutedKeys
<1>5. ASSUME NEW op \in Commands, Reject(op) PROVE Eager!MapNext
  BY <1>0, <1>5, ErrorMaps DEF Reject, Answer
<1>6. ASSUME NEW reply \in PingReplies, Ping(reply) PROVE Eager!MapNext
  <2>1. last'.op = "PING" /\ UNCHANGED <<items, clock>>
    BY <1>6 DEF Ping, Answer
  <2>2. LiveContents(clock)' = LiveContents(clock)
    BY <2>1 DEF LiveContents
  <2> QED BY <2>1, <2>2 DEF Eager!MapNext, Eager!Ping
<1> QED BY <1>1, <1>2, <1>3, <1>4, <1>5, <1>6 DEF ServerNext, ManyKeys

LEMMA ServerInitMaps == ServerInit => Eager!MapInit
<1> SUFFICES ASSUME ServerInit PROVE Eager!MapInit
  OBVIOUS
<1>1. ASSUME NEW k \in Keys
      PROVE  AliveAt(items[Home[k]][k], clock) = IF k = InfoKey THEN InfoItem ELSE Absent
  <2>1. items[Home[k]][k] = IF k = InfoKey THEN InfoItem ELSE Absent
    BY ServerAssumption, HomeIsTotal DEF ServerInit, Home
  <2>2. ~Expired(InfoItem, clock) /\ ~Expired(Absent, clock)
    BY DEF Expired, HasDeadline, InfoItem, StoredValue
  <2> QED BY <2>1, <2>2 DEF AliveAt
<1>2. LiveContents(clock) = [k \in Keys |-> IF k \in DOMAIN [c \in {InfoKey} |-> InfoItem]
                                            THEN [c \in {InfoKey} |-> InfoItem][k] ELSE Absent]
  BY <1>1 DEF LiveContents
<1> QED BY <1>2, SameReplies DEF ServerInit, Eager!MapInit

(* The two stores, which purge lazily, while a command runs, and one key   *)
(* after the other, behave towards the clients as a single map in which an *)
(* entry is gone the moment its deadline passes: every command is a read,  *)
(* a write, a removal or a failure of that map, at instants the command    *)
(* itself spans.                                                           *)
THEOREM ExpiringMapImplemented == ServerSpec => ImplementsExpiringMap
<1>1. IInv /\ [ServerNext]_vars => [Eager!MapNext]_Eager!mapvars
  <2>1. IInv /\ ServerNext => Eager!MapNext
    BY ServerNextMaps
  <2>2. UNCHANGED vars => UNCHANGED Eager!mapvars
    BY DEF vars, Eager!mapvars, LiveContents
  <2> QED BY <2>1, <2>2
<1> QED BY <1>1, ServerInitMaps, ServerInv, PTL DEF ServerSpec, ImplementsExpiringMap, Eager!MapSpec

=============================================================================
