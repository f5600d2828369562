-------------------------- MODULE ServerClientsProofs --------------------------
(***************************************************************************)
(* Proofs about what uses the router: what clients are told is true of the *)
(* stores, and a dump that is loaded brings back what was dumped.          *)
(***************************************************************************)
EXTENDS ClientApi, DumpLoad, JsonServerProofs

-----------------------------------------------------------------------------
(* What the commands on one key do to the stores *)

Unwritten == \A s \in Stores, k \in Keys : Kept(s, k) \/ Purged(s, k)

Written(s, k) == \A s2 \in Stores, k2 \in Keys : (s2 = s /\ k2 = k) \/ Kept(s2, k2)

LEMMA UnwrittenShows ==
  ASSUME Unwritten
  PROVE  NothingChanges
<1>1. ASSUME NEW k \in Keys
      PROVE  AliveAt(items'[Home[k]][k], clock') = AliveAt(items[Home[k]][k], clock')
  <2>1. Kept(Home[k], k) \/ Purged(Home[k], k)
    BY HomeIsTotal DEF Unwritten
  <2>2. ~Expired(Absent, clock')
    BY DEF Expired, HasDeadline
  <2> QED BY <2>1, <2>2 DEF Kept, Purged, AliveAt
<1> QED BY <1>1 DEF LiveContents, NothingChanges

LEMMA WrittenShows ==
  ASSUME NEW k \in Keys, NEW k2 \in Keys \ {k}, NEW s, Written(s, k)
  PROVE  AliveAt(items[Home[k2]][k2], clock') = LiveContents(clock)'[k2]
<1>1. Kept(Home[k2], k2)
  BY HomeIsTotal DEF Written
<1> QED BY <1>1 DEF Kept, LiveContents

(* A command that was not allowed to write: it only purges its key. *)
LEMMA RefusalOutcome ==
  ASSUME TypeOK, NEW s \in Stores, NEW k \in Keys, NEW t \in From(clock), clock' \in From(t),
         items' = [items EXCEPT ![s] = Purge(items[s], k, t)]
  PROVE  clock' \in From(clock) /\ Unwritten
<1>1. t \in Int /\ clock' \in Int /\ t <= clock' /\ clock' \in From(clock)
  BY FromLater DEF TypeOK
<1> QED BY <1>1, PurgeKeeps DEF Unwritten

LEMMA WriteOutcome ==
  ASSUME TypeOK, NEW s \in Stores, NEW k \in Keys, NEW t \in From(clock), clock' \in From(t), NEW x \in Item,
         items' = [items EXCEPT ![s] = [Purge(items[s], k, t) EXCEPT ![k] = x]]
  PROVE  clock' \in From(clock) /\ Written(s, k) /\ items'[s][k] = x
<1>1. clock' \in From(clock)
  BY FromLater DEF TypeOK
<1>2. items'[s][k] = x
  <2>1. Purge(items[s], k, t) \in Dictionary
    BY SeenType
  <2>2. items'[s] = [Purge(items[s], k, t) EXCEPT ![k] = x]
    BY DEF TypeOK
  <2> QED BY <2>1, <2>2 DEF Dictionary
<1>3. \A s2 \in Stores, k2 \in Keys : (s2 = s /\ k2 = k) \/ items'[s2][k2] = items[s2][k2]
  BY DEF TypeOK, Dictionary, Purge
<1> QED BY <1>1, <1>2, <1>3 DEF Written, Kept

LEMMA SetOutcome ==
  ASSUME TypeOK, NEW s \in Stores, NEW k \in Keys, NEW now \in From(clock), NEW v \in Payloads,
         NEW cond, Set(s, now, k, v, NoDeadline, cond, FALSE)
  PROVE  /\ clock' \in From(clock)
         /\ \/ last'.reply \in {Error, Nil} /\ Unwritten
            \/ last'.reply = Ok /\ Written(s, k) /\ items'[s][k] = StoredValue(v, NoDeadline, FALSE)
<1> DEFINE new == StoredValue(v, NoDeadline, FALSE)
<1>1. PICK t1 \in From(now) : \E t2 \in From(t1) :
        LET seen == Purge(items[s], k, t1)
        IN /\ clock' = t2
           /\ \/ /\ items' = [items EXCEPT ![s] = seen]
                 /\ Answer("SET", <<k>>, Error) \/ Answer("SET", <<k>>, Nil)
              \/ /\ items' = [items EXCEPT ![s] = [seen EXCEPT ![k] = new]]
                 /\ Answer("SET", <<k>>, Ok)
  BY DEF Set, DeadlineAfter
<1>2. t1 \in From(clock) /\ clock' \in From(t1)
  BY <1>1, FromLater DEF TypeOK
<1>0. new \in Item
  BY DEF StoredValue, Item, Deadlines
<1>3. CASE /\ items' = [items EXCEPT ![s] = Purge(items[s], k, t1)]
           /\ Answer("SET", <<k>>, Error) \/ Answer("SET", <<k>>, Nil)
  <2>1. last'.reply \in {Error, Nil}
    BY <1>3, RefusalReply
  <2> QED BY <1>2, <1>3, <2>1, RefusalOutcome
<1>4. CASE /\ items' = [items EXCEPT ![s] = [Purge(items[s], k, t1) EXCEPT ![k] = new]]
           /\ Answer("SET", <<k>>, Ok)
  <2>1. last'.reply = Ok
    BY <1>4 DEF Answer
  <2> HIDE DEF new
  <2>2. clock' \in From(clock) /\ Written(s, k) /\ items'[s][k] = new
    BY <1>0, <1>2, <1>4, WriteOutcome, ZenonT(60)
  <2> QED BY <2>1, <2>2 DEF new
<1> QED BY <1>1, <1>3, <1>4

LEMMA JsonSetOutcome ==
  ASSUME TypeOK, NEW s \in Stores, NEW k \in Keys, NEW now \in From(clock), NEW v \in Payloads,
         NEW cond, JsonSet(s, now, k, v, cond)
  PROVE  /\ clock' \in From(clock)
         /\ \/ last'.reply \in {Error, Nil} /\ Unwritten
            \/ last'.reply = Ok /\ Written(s, k) /\ items'[s][k] = StoredValue(v, NoDeadline, TRUE)
<1> DEFINE new == StoredValue(v, NoDeadline, TRUE)
<1>1. PICK t \in From(now) :
        LET seen == Purge(items[s], k, t)
        IN /\ clock' = t
           /\ \/ /\ items' = [items EXCEPT ![s] = seen]
                 /\ Answer("JSON.SET", <<k>>, Error) \/ Answer("JSON.SET", <<k>>, Nil)
              \/ /\ Parses(v)
                 /\ items' = [items EXCEPT ![s] = [seen EXCEPT ![k] = new]]
                 /\ Answer("JSON.SET", <<k>>, Ok)
  BY DEF JsonSet
<1>2. t \in From(clock) /\ clock' \in From(t)
  BY <1>1, FromLater, FromSelf DEF TypeOK
<1>3. CASE /\ items' = [items EXCEPT ![s] = Purge(items[s], k, t)]
           /\ Answer("JSON.SET", <<k>>, Error) \/ Answer("JSON.SET", <<k>>, Nil)
  <2>1. last'.reply \in {Error, Nil}
    BY <1>3, RefusalReply
  <2> QED BY <1>2, <1>3, <2>1, RefusalOutcome
<1>4. CASE /\ Parses(v)
           /\ items' = [items EXCEPT ![s] = [Purge(items[s], k, t) EXCEPT ![k] = new]]
           /\ Answer("JSON.SET", <<k>>, Ok)
  <2>1. last'.reply = Ok
    BY <1>4 DEF Answer
  <2>2. new \in Item
    BY <1>4, PayloadsAssumption DEF StoredValue, Item, Deadlines, Parses
  <2>3. items' = [items EXCEPT ![s] = [Purge(items[s], k, t) EXCEPT ![k] = new]]
    BY <1>4
  <2> HIDE DEF new
  <2>4. clock' \in From(clock) /\ Written(s, k) /\ items'[s][k] = new
    BY <1>2, <2>2, <2>3, WriteOutcome, ZenonT(60)
  <2> QED BY <2>1, <2>4 DEF new
<1> QED BY <1>1, <1>3, <1>4

(* LOAD answers nil only for a key that is there, unless it was given XX.  *)
LoadOutcome(s, k, b, cond) ==
  /\ clock' \in From(clock)
  /\ \/ /\ last'.reply \in {Error, Nil} /\ Unwritten
        /\ last'.reply = Nil /\ cond # "XX" => items[s][k] # Absent
     \/ last'.reply = Ok /\ Written(s, k) /\ items'[s][k] = DecodeDump(b, clock')

LEMMA LoadWritten ==
  ASSUME TypeOK, NEW s \in Stores, NEW k \in Keys, NEW b, NEW cond, NEW t \in From(clock),
         clock' \in From(t), NEW x \in Item, x = DecodeDump(b, clock'), last'.reply = Ok,
         items' = [items EXCEPT ![s] = [Purge(items[s], k, t) EXCEPT ![k] = x]]
  PROVE  LoadOutcome(s, k, b, cond)
<1>1. clock' \in From(clock) /\ Written(s, k) /\ items'[s][k] = x
  BY WriteOutcome, ZenonT(60)
<1> QED BY <1>1 DEF LoadOutcome

LEMMA LoadedOutcome ==
  ASSUME TypeOK, NEW s \in Stores, NEW k \in Keys, NEW b \in Blob \cup {BadBlob}, NEW cond, NEW t \in From(clock),
         clock' \in From(t),
         \/ /\ items' = [items EXCEPT ![s] = Purge(items[s], k, t)]
            /\ \/ Answer("LOAD", <<k>>, Error)
               \/ Answer("LOAD", <<k>>, Nil) /\ (cond # "XX" => Purge(items[s], k, t)[k] # Absent)
         \/ /\ b # BadBlob
            /\ items' = [items EXCEPT ![s] = [Purge(items[s], k, t) EXCEPT ![k] = DecodeDump(b, clock')]]
            /\ Answer("LOAD", <<k>>, Ok)
  PROVE  LoadOutcome(s, k, b, cond)
<1>1. CASE /\ items' = [items EXCEPT ![s] = Purge(items[s], k, t)]
           /\ Answer("LOAD", <<k>>, Error)
  <2>1. last'.reply = Error /\ Error # Nil
    BY <1>1 DEF Answer, Error, Nil
  <2> QED BY <1>1, <2>1, RefusalOutcome DEF LoadOutcome
<1>2. CASE /\ items' = [items EXCEPT ![s] = Purge(items[s], k, t)]
           /\ Answer("LOAD", <<k>>, Nil) /\ (cond # "XX" => Purge(items[s], k, t)[k] # Absent)
  <2>1. last'.reply = Nil
    BY <1>2 DEF Answer
  <2>2. cond # "XX" => items[s][k] # Absent
    <3>1. Purge(items[s], k, t)[k] = AliveAt(items[s][k], t)
      BY SeenType
    <3> QED BY <1>2, <3>1 DEF AliveAt
  <2> QED BY <1>2, <2>1, <2>2, RefusalOutcome DEF LoadOutcome
<1>3. CASE /\ b # BadBlob
           /\ items' = [items EXCEPT ![s] = [Purge(items[s], k, t) EXCEPT ![k] = DecodeDump(b, clock')]]
           /\ Answer("LOAD", <<k>>, Ok)
  <2>1. last'.reply = Ok
    BY <1>3 DEF Answer
  <2>2. PICK x \in Item : x = DecodeDump(b, clock')
    BY <1>3, FromLater, DecodeDumpType, StoreAssumption DEF TypeOK
  <2>3. items' = [items EXCEPT ![s] = [Purge(items[s], k, t) EXCEPT ![k] = x]]
    BY <1>3, <2>2
  <2> QED BY <2>1, <2>2, <2>3, LoadWritten
<1> QED BY <1>1, <1>2, <1>3

-----------------------------------------------------------------------------
(* What the reply to each command of a call says is true of the stores     *)

Found1(k, t) == AliveAt(items[Home[k]][k], t)

Truly(op, x, was, now, body) ==
  /\ op \in {"GET", "JSON.GET"} => was # Absent /\ was.val = body
  /\ op = "DUMP" => was # Absent /\ was.val = body.val /\ was.json = body.json
  /\ op = "DEL" => now = Absent /\ body = (IF was = Absent THEN 0 ELSE 1)
  /\ op = "SET" => now = StoredValue(x, NoDeadline, FALSE)
  /\ op = "JSON.SET" => now.json /\ now.val = x
  /\ op = "LOAD" => now.val = x.val /\ now.json = x.json

Reported(op, k, x) ==
  /\ clock' \in From(clock)
  /\ \A k2 \in Keys \ {k} : AliveAt(items[Home[k2]][k2], clock') = LiveContents(clock)'[k2]
  /\ op \in Reads \/ last'.reply \in {Error, Nil} => NothingChanges
  /\ \E t \in clock..clock' :
       \/ last'.reply = Error
       \/ last'.reply = Nil /\ (op \in Reads => Found1(k, t) = Absent)
       \/ /\ last'.reply \notin {Error, Nil}
          /\ Truly(op, x, Found1(k, t), items'[Home[k]][k], last'.reply[2])

LEMMA UnwrittenOthers ==
  ASSUME Unwritten, NEW k \in Keys
  PROVE  AliveAt(items[Home[k]][k], clock') = LiveContents(clock)'[k]
<1>1. NothingChanges
  BY UnwrittenShows
<1> QED BY <1>1 DEF NothingChanges

(* A command that only purges reports what it found at an instant.         *)
LEMMA ReadReported ==
  ASSUME TypeOK, NEW op, NEW k \in Keys, NEW x, NEW t \in From(clock), clock' \in From(t),
         items' = [items EXCEPT ![Home[k]] = Purge(items[Home[k]], k, t)],
         \/ last'.reply = Error
         \/ last'.reply = Nil /\ (op \in Reads => Found1(k, t) = Absent)
         \/ /\ op \in Reads /\ last'.reply \notin {Error, Nil}
            /\ Truly(op, x, Found1(k, t), items'[Home[k]][k], last'.reply[2])
  PROVE  Reported(op, k, x)
<1>1. clock' \in From(clock) /\ Unwritten
  BY RefusalOutcome, HomeIsTotal
<1>2. t \in clock..clock'
  BY FromLater DEF TypeOK
<1> QED BY <1>1, <1>2, UnwrittenShows, UnwrittenOthers DEF Reported

LEMMA PairParts ==
  \A a, b : /\ <<a, b>>[2] = b
            /\ a # "error" => <<a, b>> # Error
            /\ a # "nil" => <<a, b>> # Nil
BY DEF Error, Nil

LEMMA ValueReply ==
  ASSUME NEW y
  PROVE  ValueOf(y) # Error /\ ValueOf(y) # Nil /\ ValueOf(y)[2] = y.val
<1>1. CASE y.json
  BY <1>1, PairParts DEF ValueOf
<1>2. CASE ~y.json
  BY <1>2, PairParts DEF ValueOf
<1> QED BY <1>1, <1>2

LEMMA GetReported ==
  ASSUME TypeOK, NEW k \in Keys, NEW x, Get(Home[k], k)
  PROVE  Reported("GET", k, x)
<1>1. PICK t \in From(clock) :
        /\ clock' = t
        /\ items' = [items EXCEPT ![Home[k]] = Purge(items[Home[k]], k, t)]
        /\ Answer("GET", <<k>>, GetReply(Found1(k, t)))
  BY DEF Get, Found1
<1>2. clock' \in From(t)
  BY <1>1, FromLater, FromSelf DEF TypeOK
<1>3. last'.reply = GetReply(Found1(k, t))
  BY <1>1 DEF Answer
<1>4. CASE Found1(k, t) = Absent
  BY <1>1, <1>2, <1>3, <1>4, ReadReported DEF GetReply
<1>5. CASE Found1(k, t) # Absent
  <2>1. last'.reply \notin {Error, Nil} /\ last'.reply[2] = Found1(k, t).val
    BY <1>3, <1>5, ValueReply DEF GetReply
  <2>2. Truly("GET", x, Found1(k, t), items'[Home[k]][k], last'.reply[2])
    BY <1>5, <2>1 DEF Truly
  <2> QED BY <1>1, <1>2, <2>1, <2>2, ReadReported DEF Reads
<1> QED BY <1>4, <1>5

LEMMA JsonGetReported ==
  ASSUME TypeOK, NEW k \in Keys, NEW x, JsonGet(Home[k], k)
  PROVE  Reported("JSON.GET", k, x)
<1>1. PICK t \in From(clock) :
        /\ clock' = t
        /\ items' = [items EXCEPT ![Home[k]] = Purge(items[Home[k]], k, t)]
        /\ Answer("JSON.GET", <<k>>, JsonGetReply(Found1(k, t)))
  BY DEF JsonGet, Found1
<1>2. clock' \in From(t)
  BY <1>1, FromLater, FromSelf DEF TypeOK
<1>3. last'.reply = JsonGetReply(Found1(k, t))
  BY <1>1 DEF Answer
<1>4. CASE Found1(k, t) = Absent
  BY <1>1, <1>2, <1>3, <1>4, ReadReported DEF GetReply, JsonGetReply
<1>5. CASE Found1(k, t) # Absent
  <2>1. \/ last'.reply = Error
        \/ last'.reply \notin {Error, Nil} /\ last'.reply[2] = Found1(k, t).val
    BY <1>3, <1>5, ValueReply DEF JsonGetReply, GetReply
  <2>2. CASE last'.reply = Error
    BY <1>1, <1>2, <2>2, ReadReported
  <2>3. CASE last'.reply \notin {Error, Nil} /\ last'.reply[2] = Found1(k, t).val
    <3>1. Truly("JSON.GET", x, Found1(k, t), items'[Home[k]][k], last'.reply[2])
      BY <1>5, <2>3 DEF Truly
    <3> QED BY <1>1, <1>2, <2>3, <3>1, ReadReported DEF Reads
  <2> QED BY <2>1, <2>2, <2>3
<1> QED BY <1>4, <1>5

LEMMA DumpReported ==
  ASSUME TypeOK, NEW k \in Keys, NEW x, Dump(Home[k], k)
  PROVE  Reported("DUMP", k, x)
<1>1. PICK t \in From(clock), t2 \in Time :
        /\ t2 \in From(t) /\ clock' = t2
        /\ items' = [items EXCEPT ![Home[k]] = Purge(items[Home[k]], k, t)]
        /\ Answer("DUMP", <<k>>, DumpReply(Found1(k, t), t2))
  BY FromLater DEF Dump, Found1, TypeOK
<1>3. last'.reply = DumpReply(Found1(k, t), t2)
  BY <1>1 DEF Answer
<1>4. CASE Found1(k, t) = Absent
  BY <1>1, <1>3, <1>4, ReadReported DEF DumpReply
<1>5. CASE Found1(k, t) # Absent
  <2>1. \/ last'.reply = Error
        \/ last'.reply \notin {Error, Nil} /\ last'.reply[2] = EncodeDump(Found1(k, t), t2)
    BY <1>3, <1>5, PairParts DEF DumpReply
  <2>2. CASE last'.reply = Error
    BY <1>1, <2>2, ReadReported
  <2>3. CASE last'.reply \notin {Error, Nil} /\ last'.reply[2] = EncodeDump(Found1(k, t), t2)
    <3>1. Truly("DUMP", x, Found1(k, t), items'[Home[k]][k], last'.reply[2])
      BY <1>5, <2>3 DEF Truly, EncodeDump
    <3> QED BY <1>1, <2>3, <3>1, ReadReported DEF Reads
  <2> QED BY <2>1, <2>2, <2>3
<1> QED BY <1>4, <1>5

(* A command that writes: refused, or its entry is there now.              *)
LEMMA RefusedReported ==
  ASSUME TypeOK, NEW op, op \notin Reads, NEW k \in Keys, NEW x, clock' \in From(clock),
         Unwritten, last'.reply \in {Error, Nil}
  PROVE  Reported(op, k, x)
<1>1. clock \in clock..clock'
  BY FromLater, FromSelf DEF TypeOK
<1> QED BY <1>1, UnwrittenShows, UnwrittenOthers DEF Reported

LEMMA StoredReported ==
  ASSUME TypeOK, NEW op, op \notin Reads, NEW k \in Keys, NEW x, clock' \in From(clock),
         Written(Home[k], k), last'.reply = Ok, op # "DEL",
         \A was : Truly(op, x, was, items'[Home[k]][k], last'.reply[2])
  PROVE  Reported(op, k, x)
<1>1. clock \in clock..clock'
  BY FromLater, FromSelf DEF TypeOK
<1>2. Ok # Error /\ Ok # Nil
  BY DEF Ok, Error, Nil
<1>3. \A k2 \in Keys \ {k} : AliveAt(items[Home[k2]][k2], clock') = LiveContents(clock)'[k2]
  BY WrittenShows
<1> QED BY <1>1, <1>2, <1>3 DEF Reported

LEMMA SetReported ==
  ASSUME TypeOK, NEW k \in Keys, NEW v \in Payloads, NEW now \in From(clock), NEW cond,
         Set(Home[k], now, k, v, NoDeadline, cond, FALSE)
  PROVE  Reported("SET", k, v)
<1>1. /\ clock' \in From(clock)
      /\ \/ last'.reply \in {Error, Nil} /\ Unwritten
         \/ /\ last'.reply = Ok /\ Written(Home[k], k)
            /\ items'[Home[k]][k] = StoredValue(v, NoDeadline, FALSE)
  BY SetOutcome, HomeIsTotal
<1>2. "SET" \notin Reads
  BY DEF Reads
<1>3. CASE last'.reply \in {Error, Nil} /\ Unwritten
  BY <1>1, <1>2, <1>3, RefusedReported
<1>4. CASE /\ last'.reply = Ok /\ Written(Home[k], k)
           /\ items'[Home[k]][k] = StoredValue(v, NoDeadline, FALSE)
  <2>1. \A was : Truly("SET", v, was, items'[Home[k]][k], last'.reply[2])
    BY <1>4 DEF Truly
  <2> QED BY <1>1, <1>2, <1>4, <2>1, StoredReported
<1> QED BY <1>1, <1>3, <1>4

LEMMA JsonSetReported ==
  ASSUME TypeOK, NEW k \in Keys, NEW v \in Payloads, NEW now \in From(clock), NEW cond,
         JsonSet(Home[k], now, k, v, cond)
  PROVE  Reported("JSON.SET", k, v)
<1>1. /\ clock' \in From(clock)
      /\ \/ last'.reply \in {Error, Nil} /\ Unwritten
         \/ /\ last'.reply = Ok /\ Written(Home[k], k)
            /\ items'[Home[k]][k] = StoredValue(v, NoDeadline, TRUE)
  BY JsonSetOutcome, HomeIsTotal
<1>2. "JSON.SET" \notin Reads
  BY DEF Reads
<1>3. CASE last'.reply \in {Error, Nil} /\ Unwritten
  BY <1>1, <1>2, <1>3, RefusedReported
<1>4. CASE /\ last'.reply = Ok /\ Written(Home[k], k)
           /\ items'[Home[k]][k] = StoredValue(v, NoDeadline, TRUE)
  <2>1. \A was : Truly("JSON.SET", v, was, items'[Home[k]][k], last'.reply[2])
    BY <1>4 DEF Truly, StoredValue
  <2> QED BY <1>1, <1>2, <1>4, <2>1, StoredReported
<1> QED BY <1>1, <1>3, <1>4

LEMMA LoadOutcomeReported ==
  ASSUME TypeOK, NEW k \in Keys, NEW b, NEW cond, LoadOutcome(Home[k], k, b, cond)
  PROVE  Reported("LOAD", k, b)
<1>1. clock' \in From(clock) /\ "LOAD" \notin Reads
  BY DEF LoadOutcome, Reads
<1>2. CASE last'.reply \in {Error, Nil} /\ Unwritten
  BY <1>1, <1>2, RefusedReported
<1>3. CASE last'.reply = Ok /\ Written(Home[k], k) /\ items'[Home[k]][k] = DecodeDump(b, clock')
  <2>1. \A was : Truly("LOAD", b, was, items'[Home[k]][k], last'.reply[2])
    BY <1>3 DEF Truly, DecodeDump, StoredValue
  <2> QED BY <1>1, <1>3, <2>1, StoredReported
<1> QED BY <1>2, <1>3 DEF LoadOutcome

LEMMA LoadFound ==
  ASSUME TypeOK, NEW s \in Stores, NEW k \in Keys, NEW b \in Blob \cup {BadBlob}, NEW cond,
         Load(s, k, b, cond)
  PROVE  LoadOutcome(s, k, b, cond)
<1>1. PICK t \in From(clock) :
        /\ clock' \in From(t)
        /\ \/ /\ items' = [items EXCEPT ![s] = Purge(items[s], k, t)]
              /\ \/ Answer("LOAD", <<k>>, Error)
                 \/ Answer("LOAD", <<k>>, Nil) /\ (cond # "XX" => Purge(items[s], k, t)[k] # Absent)
           \/ /\ b # BadBlob
              /\ items' = [items EXCEPT ![s] = [Purge(items[s], k, t) EXCEPT ![k] = DecodeDump(b, clock')]]
              /\ Answer("LOAD", <<k>>, Ok)
  BY DEF Load, Blocked
<1> QED BY <1>1, LoadedOutcome

LEMMA ConstLoadFound ==
  ASSUME TypeOK, NEW s \in Stores, NEW k \in ConstKeys, NEW b \in Blob \cup {BadBlob}, NEW cond,
         ConstLoad(s, k, b, cond)
  PROVE  LoadOutcome(s, k, b, cond)
<1>0. k \in Keys
  BY KeysAssumption
<1>1. PICK t \in From(clock) :
        /\ clock' \in From(t)
        /\ \/ /\ items' = [items EXCEPT ![s] = Purge(items[s], k, t)]
              /\ \/ Answer("LOAD", <<k>>, Error)
                 \/ Answer("LOAD", <<k>>, Nil) /\ (cond # "XX" => Purge(items[s], k, t)[k] # Absent)
           \/ /\ b # BadBlob
              /\ items' = [items EXCEPT ![s] = [Purge(items[s], k, t) EXCEPT ![k] = DecodeDump(b, clock')]]
              /\ Answer("LOAD", <<k>>, Ok)
  BY DEF ConstLoad, PrefixError, ConstLoadable
<1> QED BY <1>0, <1>1, LoadedOutcome

LEMMA ConstSetReported ==
  ASSUME TypeOK, NEW k \in ConstKeys, NEW v \in Payloads, NEW cond,
         ConstSet(Const, k, v, NoDeadline, cond, FALSE)
  PROVE  Reported("SET", k, v)
<1>0. k \in Keys /\ Home[k] = Const /\ Const \in Stores /\ "SET" \notin Reads
  BY KeysAssumption, HomeIsTotal DEF Home, Reads
<1>1. PICK t \in From(clock) :
        \/ /\ clock' = t
           /\ items' = [items EXCEPT ![Const] = Purge(items[Const], k, t)]
           /\ Answer("SET", <<k>>, Error)
        \/ Set(Const, t, k, v, NoDeadline, cond, FALSE)
  BY DEF ConstSet, PrefixError
<1>2. CASE Set(Const, t, k, v, NoDeadline, cond, FALSE)
  BY <1>0, <1>2, SetReported
<1>3. CASE /\ clock' = t
           /\ items' = [items EXCEPT ![Const] = Purge(items[Const], k, t)]
           /\ Answer("SET", <<k>>, Error)
  <2>1. clock' \in From(t)
    BY <1>3, FromLater, FromSelf DEF TypeOK
  <2>2. last'.reply = Error
    BY <1>3 DEF Answer
  <2> QED BY <1>0, <1>3, <2>1, <2>2, ReadReported
<1> QED BY <1>1, <1>2, <1>3

LEMMA ConstJsonSetReported ==
  ASSUME TypeOK, NEW k \in ConstKeys, NEW v \in Payloads, NEW cond,
         ConstJsonSet(Const, k, v, cond)
  PROVE  Reported("JSON.SET", k, v)
<1>0. k \in Keys /\ Home[k] = Const /\ Const \in Stores /\ "JSON.SET" \notin Reads
  BY KeysAssumption, HomeIsTotal DEF Home, Reads
<1>1. PICK t \in From(clock) :
        \/ /\ clock' = t
           /\ items' = [items EXCEPT ![Const] = Purge(items[Const], k, t)]
           /\ Answer("JSON.SET", <<k>>, Error)
        \/ JsonSet(Const, t, k, v, cond)
  BY DEF ConstJsonSet, PrefixError
<1>2. CASE JsonSet(Const, t, k, v, cond)
  BY <1>0, <1>2, JsonSetReported
<1>3. CASE /\ clock' = t
           /\ items' = [items EXCEPT ![Const] = Purge(items[Const], k, t)]
           /\ Answer("JSON.SET", <<k>>, Error)
  <2>1. clock' \in From(t)
    BY <1>3, FromLater, FromSelf DEF TypeOK
  <2>2. last'.reply = Error
    BY <1>3 DEF Answer
  <2> QED BY <1>0, <1>3, <2>1, <2>2, ReadReported
<1> QED BY <1>1, <1>2, <1>3

LEMMA LatestIs ==
  ASSUME NEW n \in Nat \ {0}, NEW ts \in Readings(n)
  PROVE  Latest(ts) = ts[n]
<1>1. ts \in [1..n -> From(clock)] /\ Len(ts) = n /\ ts # <<>>
  BY DEF Readings
<1> QED BY <1>1 DEF Latest

(* DEL of one key counts 1 if it found the key and 0 if it did not.        *)
LEMMA DelReported ==
  ASSUME TypeOK, NEW k \in Keys, NEW x, RoutedDel(<<k>>, FALSE)
  PROVE  Reported("DEL", k, x)
<1>0. /\ "DEL" \notin Reads
      /\ Range(<<k>>) = {k} /\ DOMAIN <<k>> = {1} /\ <<k>>[1] = k /\ Len(<<k>>) = 1
  BY DEF Reads, Range
<1>1. CASE Answer("DEL", <<k>>, Error) /\ UNCHANGED <<items, clock>>
  <2>1. Unwritten
    BY <1>1 DEF Unwritten, Kept
  <2>2. last'.reply = Error /\ clock' \in From(clock)
    BY <1>1, FromSelf DEF Answer, TypeOK
  <2> QED BY <1>0, <2>1, <2>2, RefusedReported
<1>2. CASE k \notin ConstKeys /\ Del(Plain, <<k>>, FALSE)
  <2>0. Home[k] = Plain /\ Plain \in Stores
    BY <1>2, HomeIsTotal DEF Home
  <2>1. PICK ts \in Readings(Len(<<k>>)) :
          /\ clock' = Latest(ts)
          /\ Answer("DEL", <<k>>,
               Count(Cardinality({ i \in DOMAIN <<k>> :
                       /\ Found([j \in Keys |-> Plain], <<k>>, ts, i) # Absent
                       /\ \A j \in 1..i-1 : <<k>>[j] # <<k>>[i] })))
    BY <1>2 DEF Del
  <2>2. ts \in [1..1 -> From(clock)]
    BY <1>0, <2>1 DEF Readings
  <2>3. clock' = ts[1] /\ ts[1] \in From(clock)
    <3>1. Latest(ts) = ts[1]
      BY <1>0, <2>1, LatestIs DEF TypeOK
    <3> QED BY <2>1, <2>2, <3>1
  <2>4. ts[1] \in clock..clock'
    BY <2>3, FromLater, FromSelf DEF TypeOK
  <2>5. Found([j \in Keys |-> Plain], <<k>>, ts, 1) = Found1(k, ts[1])
    BY <1>0, <2>0 DEF Found, Found1
  <2> DEFINE n == IF Found1(k, ts[1]) = Absent THEN 0 ELSE 1
             found == { i \in DOMAIN <<k>> :
                          /\ Found([j \in Keys |-> Plain], <<k>>, ts, i) # Absent
                          /\ \A j \in 1..i-1 : <<k>>[j] # <<k>>[i] }
  <2>6. found = IF Found1(k, ts[1]) = Absent THEN {} ELSE {1}
    BY <1>0, <2>5
  <2>7. Cardinality(found) = n
    BY <2>6, FS_EmptySet, FS_Singleton
  <2>8. last'.reply = Count(n)
    BY <2>1, <2>7 DEF Answer
  <2>9. /\ last'.reply \notin {Error, Nil} /\ last'.reply[2] = n
    BY <2>8, PairParts DEF Count
  <2>10. \A s2 \in Stores, k2 \in Keys :
           Kept(s2, k2) \/ (s2 = Plain /\ k2 \in Range(<<k>>) /\ items'[s2][k2] = Absent)
    BY <1>2, <2>0, DelKeeps
  <2>11. items'[Plain][k] = Absent
    BY <1>0, <1>2, <2>0 DEF Del, TypeOK, Dictionary
  <2>12. Written(Home[k], k)
    BY <1>0, <2>0, <2>10 DEF Written
  <2>13. \A k2 \in Keys \ {k} : AliveAt(items[Home[k2]][k2], clock') = LiveContents(clock)'[k2]
    BY <2>12, WrittenShows
  <2>14. Truly("DEL", x, Found1(k, ts[1]), items'[Home[k]][k], last'.reply[2])
    BY <2>0, <2>9, <2>11 DEF Truly
  <2> QED BY <1>0, <2>3, <2>4, <2>9, <2>13, <2>14 DEF Reported
<1> QED BY <1>0, <1>1, <1>2 DEF RoutedDel

(* What a command of a call is given. *)
Given(op, x, cond) ==
  \/ op \in {"GET", "JSON.GET", "DUMP", "DEL"}
  \/ op \in {"SET", "JSON.SET"} /\ x \in Payloads
  \/ op = "LOAD" /\ x \in Blobs \cup {BadBlob}

LEMMA RedisReported ==
  ASSUME TypeOK, NEW op, NEW k \in Keys, NEW x, NEW cond, Given(op, x, cond),
         Redis(op, k, x, cond)
  PROVE  Reported(op, k, x)
<1>0. /\ Home[k] = Const <=> k \in ConstKeys
      /\ Home[k] \in Stores /\ clock \in From(clock)
  BY HomeIsTotal, ServerAssumption, FromSelf DEF Home, TypeOK
<1>1. CASE op = "GET"
  BY <1>1, GetReported DEF Redis
<1>2. CASE op = "JSON.GET"
  BY <1>2, JsonGetReported DEF Redis
<1>3. CASE op = "DUMP"
  BY <1>3, DumpReported DEF Redis
<1>4. CASE op = "DEL"
  BY <1>4, DelReported DEF Redis
<1>5. CASE op = "SET"
  BY <1>0, <1>5, SetReported, ConstSetReported DEF Redis, Given
<1>6. CASE op = "JSON.SET"
  BY <1>0, <1>6, JsonSetReported, ConstJsonSetReported DEF Redis, Given
<1>7. CASE op = "LOAD"
  BY <1>0, <1>7, StoreAssumption, LoadFound, ConstLoadFound, LoadOutcomeReported
     DEF Redis, Given
<1> QED BY <1>1, <1>2, <1>3, <1>4, <1>5, <1>6, <1>7 DEF Given

-----------------------------------------------------------------------------
(* What becomes of the reply in each interface                             *)

(* An answer that says no more than the reply does, or is one of those that *)
(* a route gets wrong.                                                      *)
Fair(by, op, reply, answer) ==
  LET data == reply \notin {Error, Nil}
  IN \/ answer.kind = "returned" /\ data /\ answer.body = reply[2]
     \/ answer.kind \in {"none", "404"} /\ reply = Nil
     \/ answer = None /\ op = "JSON.GET" /\ data /\ reply[2] = NullText
     \/ answer.kind = "404" /\ by = "HTTP" /\ op = "JSON.GET" /\ data /\ reply[2] = NullText
     \/ answer.kind \notin {"returned", "none", "404"} /\ (reply = Error \/ op \in Reads)
     \/ answer.kind = "500" /\ by = "HTTP" /\ op = "LOAD" /\ data

CallOps == {"GET", "JSON.GET", "DUMP", "DEL", "SET", "JSON.SET", "LOAD"}

LEMMA FairIsTrue ==
  ASSUME NEW by, NEW op \in CallOps, NEW k \in Keys, NEW x, NEW y, NEW answer,
         Reported(op, k, x), Fair(by, op, last'.reply, answer), Called(by, op, k, y, answer),
         y = x \/ (by = "HTTP" /\ op = "JSON.SET" /\ x = NullText /\ y = Malformed)
  PROVE  TrueOfStores
<1>1. call'.by = by /\ call'.op = op /\ call'.key = k /\ call'.value = y /\ call'.answer = answer
  BY DEF Called
<1>2. OtherKeysUntouched
  BY <1>1 DEF Reported, OtherKeysUntouched
<1>3. PICK t \in clock..clock' :
        \/ last'.reply = Error
        \/ last'.reply = Nil /\ (op \in Reads => Found1(k, t) = Absent)
        \/ /\ last'.reply \notin {Error, Nil}
           /\ Truly(op, x, Found1(k, t), items'[Home[k]][k], last'.reply[2])
  BY DEF Reported
<1> DEFINE was == AliveAt(items[Home[k]][k], t)
           now == items'[Home[k]][k]
<1>4. was = Found1(k, t)
  BY DEF Found1
<1>5. Error # Nil
  BY DEF Error, Nil
<1>6. op \in Reads \/ last'.reply \in {Error, Nil} => NothingChanges
  BY DEF Reported
<1>0. Truthful(was, now) \/ Misleading(was, now) => TrueOfStores
  BY <1>1, <1>2 DEF TrueOfStores
<1> HIDE DEF was, now
<1>7. CASE answer.kind = "returned"
  <2>1. Truly(op, x, was, now, answer.body)
    BY <1>3, <1>4, <1>7 DEF Fair, now, None
  <2>2. CASE y = x
    <3>0. SUFFICES Success(was, now, answer.body)
      BY <1>0, <1>1, <1>7 DEF Truthful
    <3>1. CASE op \in {"GET", "JSON.GET"}
      BY <1>1, <2>1, <3>1 DEF Truly, Success
    <3>2. CASE op = "DUMP"
      BY <1>1, <2>1, <3>2 DEF Truly, Success
    <3>3. CASE op = "DEL"
      BY <1>1, <2>1, <3>3 DEF Truly, Success
    <3>4. CASE op = "SET"
      BY <1>1, <2>1, <2>2, <3>4 DEF Truly, Success
    <3>5. CASE op = "JSON.SET"
      BY <1>1, <2>1, <2>2, <3>5 DEF Truly, Success
    <3>6. CASE op = "LOAD"
      BY <1>1, <2>1, <2>2, <3>6 DEF Truly, Success
    <3> QED BY <3>1, <3>2, <3>3, <3>4, <3>5, <3>6 DEF CallOps
  <2>3. CASE by = "HTTP" /\ op = "JSON.SET" /\ x = NullText /\ y = Malformed
    <3>1. now.json /\ now.val = NullText
      BY <2>1, <2>3 DEF Truly
    <3>2. Misleading(was, now)
      BY <1>1, <1>7, <2>3, <3>1 DEF Misleading
    <3> QED BY <1>0, <3>2
  <2> QED BY <2>2, <2>3
<1>8. CASE answer.kind \in {"none", "404"}
  <2>1. CASE last'.reply = Nil
    <3>1. Nothing(was)
      BY <1>1, <1>3, <1>4, <1>5, <1>6, <2>1 DEF Nothing
    <3> QED BY <1>0, <1>1, <1>8, <3>1 DEF Truthful
  <2>2. CASE last'.reply # Nil
    <3>1. /\ op = "JSON.GET" /\ last'.reply \notin {Error, Nil} /\ last'.reply[2] = NullText
          /\ answer = None \/ (answer.kind = "404" /\ by = "HTTP")
      BY <1>8, <2>2 DEF Fair
    <3>2. was # Absent /\ was.val = NullText
      BY <1>3, <1>4, <3>1 DEF Truly
    <3>3. CASE answer = None
      <4>1. Nothing(was)
        BY <1>1, <3>1, <3>2, <3>3 DEF Nothing, Reads
      <4> QED BY <1>0, <1>1, <1>8, <4>1 DEF Truthful
    <3>4. CASE answer.kind = "404" /\ by = "HTTP"
      <4>1. Misleading(was, now)
        BY <1>1, <3>1, <3>2, <3>4 DEF Misleading
      <4> QED BY <1>0, <4>1
    <3> QED BY <3>1, <3>3, <3>4
  <2> QED BY <2>1, <2>2
<1>9. CASE answer.kind \notin {"returned", "none", "404"}
  <2>1. CASE last'.reply = Error \/ op \in Reads
    BY <1>0, <1>1, <1>6, <1>9, <2>1 DEF Truthful
  <2>2. CASE ~(last'.reply = Error \/ op \in Reads)
    <3>1. answer.kind = "500" /\ by = "HTTP" /\ op = "LOAD" /\ last'.reply \notin {Error, Nil}
      BY <1>9, <2>2 DEF Fair, None
    <3>2. y = x
      BY <3>1
    <3>3. now.val = y.val /\ now.json = y.json
      BY <1>3, <3>1, <3>2 DEF Truly, now
    <3>4. Misleading(was, now)
      BY <1>1, <3>1, <3>3 DEF Misleading
    <3> QED BY <1>0, <3>4
  <2> QED BY <2>1, <2>2
<1> QED BY <1>7, <1>8, <1>9

LEMMA HelperIsFair ==
  ASSUME NEW by, NEW op, NEW reply, NEW error \in {"ResponseError", "CodecError"}, NEW text
  PROVE  /\ Fair(by, op, reply, Helper(op, reply, error, text))
         /\ Helper(op, reply, error, text).kind
              \in {"returned", "none", error, "ValueError"}
<1> DEFINE answer == Helper(op, reply, error, text)
<1>0. Error # Nil
  BY DEF Error, Nil
<1>1. CASE reply = Error
  <2>1. answer = Raised(error)
    BY <1>1 DEF Helper
  <2> QED BY <1>1, <2>1 DEF Raised, Fair
<1>2. CASE reply = Nil
  <2>1. answer = None
    BY <1>0, <1>2 DEF Helper
  <2> QED BY <1>2, <2>1 DEF None, Fair
<1>3. CASE reply \notin {Error, Nil}
  <2>1. \/ answer = Returned(reply[2])
        \/ op \in Reads /\ answer = Raised("ValueError")
        \/ op = "JSON.GET" /\ reply[2] = NullText /\ answer = None
    BY <1>3 DEF Helper, Loads, Reads
  <2> HIDE DEF answer
  <2>2. CASE answer = Returned(reply[2])
    BY <1>3, <2>2 DEF Returned, Fair, answer
  <2>3. CASE op \in Reads /\ answer = Raised("ValueError")
    BY <1>3, <2>3 DEF Raised, Fair, answer
  <2>4. CASE op = "JSON.GET" /\ reply[2] = NullText /\ answer = None
    BY <1>3, <2>4 DEF None, Fair, answer
  <2> QED BY <2>1, <2>2, <2>3, <2>4
<1> QED BY <1>1, <1>2, <1>3

LEMMA HttpIsFair ==
  ASSUME NEW op, NEW reply, NEW result, Fair("HTTP", op, reply, result),
         result.kind \in {"returned", "none", "ResponseError", "ValueError"}
  PROVE  Fair("HTTP", op, reply, Http(op, result))
<1>1. CASE result.kind = "ResponseError"
  BY <1>1 DEF Http, Fair, Raised, None
<1>2. CASE result.kind = "ValueError"
  BY <1>2 DEF Http, Fair, Raised, None
<1>3. CASE result.kind = "none"
  <2>1. CASE op \in Reads
    BY <1>3, <2>1 DEF Http, Fair, Raised
  <2>2. CASE op \notin Reads
    BY <1>3, <2>2 DEF Http
  <2> QED BY <2>1, <2>2
<1>4. CASE result.kind = "returned"
  <2>1. CASE op = "LOAD"
    BY <1>4, <2>1 DEF Http, Fair, Raised, None
  <2>2. CASE op # "LOAD"
    BY <1>4, <2>2 DEF Http
  <2> QED BY <2>1, <2>2
<1> QED BY <1>1, <1>2, <1>3, <1>4

-----------------------------------------------------------------------------
(* Every call is one command of the server at most                         *)

LEMMA RedisStep ==
  ASSUME NEW op, NEW k \in Keys, NEW x, NEW cond \in Conditions, Given(op, x, cond),
         Redis(op, k, x, cond)
  PROVE  ServerNext
<1>1. CASE op \in Reads
  BY <1>1 DEF Reads, Redis, ServerNext, SingleKey
<1>2. CASE op = "DEL"
  <2>1. <<k>> \in KeySeqs
    <3>1. <<k>> \in [1..1 -> Keys] /\ 1 \in 0..MaxArgs
      BY StoreAssumption
    <3> QED BY <3>1 DEF KeySeqs
  <2>2. RoutedDel(<<k>>, FALSE)
    BY <1>2 DEF Redis
  <2> QED BY <2>1, <2>2 DEF ServerNext, ManyKeys
<1>3. CASE op = "SET"
  <2>1. x \in Payloads /\ NoDeadline \in Ttls
    BY <1>3 DEF Given, Ttls
  <2>2. RoutedSet(k)
    BY <1>3, <2>1 DEF Redis, RoutedSet
  <2> QED BY <2>2 DEF ServerNext, SingleKey
<1>4. CASE op = "JSON.SET"
  <2>1. RoutedJsonSet(k)
    BY <1>4 DEF Redis, RoutedJsonSet, Given
  <2> QED BY <2>1 DEF ServerNext, SingleKey
<1>5. CASE op = "LOAD"
  <2>1. RoutedLoad(k)
    BY <1>5 DEF Redis, RoutedLoad, Given
  <2> QED BY <2>1 DEF ServerNext, SingleKey
<1> QED BY <1>1, <1>2, <1>3, <1>4, <1>5 DEF Given, Reads

CallStep == [ServerNext]_vars /\ (call' = NoCall \/ TrueOfStores)

LEMMA GivenOps ==
  ASSUME NEW op, NEW x, NEW cond, Given(op, x, cond)
  PROVE  op \in CallOps
BY DEF Given, CallOps

LEMMA HelperStep ==
  ASSUME TypeOK, NEW op, NEW k \in Keys, NEW x, NEW cond \in Options, Given(op, x, cond),
         CallHelper(op, k, x, cond) \/ CallDirect(op, k, x, cond)
  PROVE  CallStep
<1>1. Redis(op, k, x, cond)
  BY DEF CallHelper, CallDirect
<1>2. cond \in Conditions
  BY DEF Options, Conditions
<1>3. ServerNext /\ Reported(op, k, x) /\ op \in CallOps
  BY <1>1, <1>2, RedisStep, RedisReported, GivenOps
<1>4. CASE CallHelper(op, k, x, cond)
  <2> DEFINE answer == Helper(op, last'.reply, "ResponseError", TRUE)
  <2>1. Called("redis-py", op, k, x, answer)
    BY <1>4 DEF CallHelper
  <2>2. Fair("redis-py", op, last'.reply, answer)
    BY HelperIsFair
  <2> HIDE DEF answer
  <2> QED BY <1>3, <2>1, <2>2, FairIsTrue DEF CallStep
<1>5. CASE CallDirect(op, k, x, cond)
  <2> DEFINE answer == Helper(op, last'.reply, "CodecError", FALSE)
  <2>1. Called("direct", op, k, x, answer)
    BY <1>5 DEF CallDirect
  <2>2. Fair("direct", op, last'.reply, answer)
    BY HelperIsFair
  <2> HIDE DEF answer
  <2> QED BY <1>3, <2>1, <2>2, FairIsTrue DEF CallStep
<1> QED BY <1>4, <1>5

(* Over HTTP a body that is no JSON is stored as null. *)
LEMMA HttpStep ==
  ASSUME TypeOK, NEW op, NEW k \in Keys, NEW y, NEW x, NEW cond \in Options, Given(op, x, cond),
         x = IF y = Malformed THEN NullText ELSE y,
         op = "JSON.SET" \/ y # Malformed,
         CallHttp(op, k, y, cond)
  PROVE  CallStep
<1>1. Redis(op, k, x, cond)
  BY DEF CallHttp
<1>2. cond \in Conditions
  BY DEF Options, Conditions
<1>3. ServerNext /\ Reported(op, k, x) /\ op \in CallOps
  BY <1>1, <1>2, RedisStep, RedisReported, GivenOps
<1> DEFINE result == Helper(op, last'.reply, "ResponseError", op \notin {"DUMP", "LOAD"})
           answer == Http(op, result)
<1>4. Called("HTTP", op, k, y, answer)
  BY DEF CallHttp
<1>5. Fair("HTTP", op, last'.reply, answer)
  <2>1. /\ Fair("HTTP", op, last'.reply, result)
        /\ result.kind \in {"returned", "none", "ResponseError", "ValueError"}
    BY HelperIsFair
  <2> HIDE DEF result
  <2> QED BY <2>1, HttpIsFair
<1>6. y = x \/ (op = "JSON.SET" /\ x = NullText /\ y = Malformed)
  OBVIOUS
<1> HIDE DEF answer
<1> QED BY <1>3, <1>4, <1>5, <1>6, FairIsTrue DEF CallStep

LEMMA HttpRefusesStep ==
  ASSUME TypeOK, NEW k \in Keys, NEW op, HttpRefuses(op, k)
  PROVE  CallStep
<1>1. UNCHANGED vars /\ call'.answer.kind = "400"
  BY DEF HttpRefuses, Called, Raised
<1>2. Unwritten
  BY <1>1 DEF Unwritten, Kept, vars
<1>3. NothingChanges
  BY <1>2, UnwrittenShows
<1>4. OtherKeysUntouched
  BY <1>2, UnwrittenOthers DEF OtherKeysUntouched
<1>5. clock \in clock..clock'
  BY <1>1, FromLater, FromSelf DEF TypeOK, vars
<1> QED BY <1>1, <1>3, <1>4, <1>5 DEF CallStep, TrueOfStores, Truthful

LEMMA ClientNextStep == TypeOK /\ ClientNext => CallStep
<1> SUFFICES ASSUME TypeOK, ClientNext PROVE CallStep
  OBVIOUS
<1>0. /\ "none" \in Options
      /\ JsonTexts \subseteq Payloads /\ Malformed \notin Payloads \cup Blobs \cup {BadBlob}
      /\ NoArg # Malformed /\ NullText \in Payloads
  BY PayloadsAssumption, ClientAssumption DEF Options
<1>1. CASE OtherCommand
  BY <1>1 DEF OtherCommand, CallStep
<1>2. CASE ClientCall
  <2>1. PICK k \in Keys :
    \/ \E op \in Reads \cup {"DEL"} :
         \/ CallHelper(op, k, NoArg, "none") \/ CallHttp(op, k, NoArg, "none")
         \/ CallDirect(op, k, NoArg, "none")
    \/ \E v \in Payloads :
         \/ CallHelper("SET", k, v, "none") \/ CallHttp("SET", k, v, "none")
         \/ CallDirect("SET", k, v, "none") \/ CallDirect("JSON.SET", k, v, "none")
    \/ \E v \in JsonTexts, cond \in Options : CallHelper("JSON.SET", k, v, cond)
    \/ \E v \in JsonTexts \cup {Malformed} : CallHttp("JSON.SET", k, v, "none")
    \/ \E b \in Blobs \cup {BadBlob}, cond \in Options :
         CallHelper("LOAD", k, b, cond) \/ CallDirect("LOAD", k, b, cond)
           \/ CallHttp("LOAD", k, b, cond)
    \/ \E op \in {"SET", "JSON.SET", "LOAD"} : HttpRefuses(op, k)
    BY <1>2 DEF ClientCall
  <2>2. ASSUME NEW op \in Reads \cup {"DEL"},
               \/ CallHelper(op, k, NoArg, "none") \/ CallHttp(op, k, NoArg, "none")
               \/ CallDirect(op, k, NoArg, "none")
        PROVE  CallStep
    <3>1. Given(op, NoArg, "none")
      BY DEF Given, Reads
    <3> QED BY <1>0, <2>2, <3>1, HelperStep, HttpStep
  <2>3. ASSUME NEW v \in Payloads,
               \/ CallHelper("SET", k, v, "none") \/ CallHttp("SET", k, v, "none")
               \/ CallDirect("SET", k, v, "none") \/ CallDirect("JSON.SET", k, v, "none")
        PROVE  CallStep
    <3>1. Given("SET", v, "none") /\ Given("JSON.SET", v, "none") /\ v # Malformed
      BY <1>0 DEF Given
    <3> QED BY <1>0, <2>3, <3>1, HelperStep, HttpStep
  <2>4. ASSUME NEW v \in JsonTexts, NEW cond \in Options, CallHelper("JSON.SET", k, v, cond)
        PROVE  CallStep
    <3>1. Given("JSON.SET", v, cond)
      BY <1>0 DEF Given
    <3> QED BY <2>4, <3>1, HelperStep
  <2>5. ASSUME NEW v \in JsonTexts \cup {Malformed}, CallHttp("JSON.SET", k, v, "none")
        PROVE  CallStep
    <3> DEFINE x == IF v = Malformed THEN NullText ELSE v
    <3>1. Given("JSON.SET", x, "none")
      BY <1>0 DEF Given
    <3> QED BY <1>0, <2>5, <3>1, HttpStep
  <2>6. ASSUME NEW b \in Blobs \cup {BadBlob}, NEW cond \in Options,
               CallHelper("LOAD", k, b, cond) \/ CallDirect("LOAD", k, b, cond)
                 \/ CallHttp("LOAD", k, b, cond)
        PROVE  CallStep
    <3>1. Given("LOAD", b, cond) /\ b # Malformed
      BY <1>0 DEF Given
    <3> QED BY <2>6, <3>1, HelperStep, HttpStep
  <2>7. ASSUME NEW op \in {"SET", "JSON.SET", "LOAD"}, HttpRefuses(op, k)
        PROVE  CallStep
    BY <2>7, HttpRefusesStep
  <2> QED BY <2>1, <2>2, <2>3, <2>4, <2>5, <2>6, <2>7
<1> QED BY <1>1, <1>2 DEF ClientNext

(* Whatever helpers and routes clients use, the server sees its ordinary   *)
(* commands: everything proved of the router holds under them.             *)
THEOREM ClientsUseTheServer == ClientSpec => ServerSpec
<1>1. ClientInit => ServerInit
  BY DEF ClientInit
<1>2. IInv /\ [ServerNext]_vars => IInv'
  BY ServerNextInv DEF IInv, vars, TypeOK, Partitioned, ConstEntries
<1>3. IInv /\ [ClientNext]_callVars => [ServerNext]_vars
  BY ClientNextStep DEF IInv, CallStep, callVars
<1> QED BY <1>1, <1>2, <1>3, ServerInitInv, PTL DEF ClientSpec, ServerSpec

(* Whichever interface a call is made through, and whoever else uses which *)
(* one on the same key, its answer is true of the stores at an instant     *)
(* during the call, no other key changes, and a call that fails changes    *)
(* nothing; but for three answers of HTTP routes, of which it says what    *)
(* they stand for: a body that is no JSON was stored as null, null is not  *)
(* found, and a payload was stored though the answer is 500.               *)
THEOREM AnswersTrueHolds == ClientSpec => AnswersTrue
<1>1. ClientSpec => []IInv
  BY ClientsUseTheServer, ServerInv, PTL
<1>2. IInv /\ [ClientNext]_callVars => [call' = NoCall \/ TrueOfStores]_callVars
  BY ClientNextStep DEF IInv, CallStep
<1>3. ClientSpec => [][call' = NoCall \/ TrueOfStores]_callVars
  BY <1>1, <1>2, PTL DEF ClientSpec
<1> QED BY <1>3 DEF AnswersTrue

-----------------------------------------------------------------------------
(* Saving a dump and loading it                                            *)

Steps == {"idle", "dumping", "raised in save", "saved", "loading", "raised", "loaded",
          "timed out"}

DumpConds == {"none", "NX", "XX", "NX and XX"}

Files == [Keys -> Blob \cup {Absent}]

ConstFile(f) == \A k \in ConstKeys : f[k] # Absent => f[k].ttl = NoDeadline

(* What the program holds, and what is in the file. *)
FileInv ==
  /\ script \in [step : Steps, asked : SUBSET Keys, cond : DumpConds, todo : SUBSET Keys,
                 dumped : Files]
  /\ file \in Files /\ origin \in Dictionary
  /\ ConstFile(script.dumped) /\ ConstFile(file)
  /\ script.step = "idle" => script.dumped = NoPayloads
  /\ script.step = "loading" => \A k \in script.todo : file[k] # Absent
  /\ script.step = "loaded" => script.todo = {}
  /\ LoadSucceeds

(* b is what was written for an entry x, at c or before: its payload, or   *)
(* nothing because it was not there any more.                              *)
Saved(x, b, c) ==
  \/ x # Absent /\ Dumpable(x) /\ \E t \in 0..c : b = EncodeDump(x, t)
  \/ b = Absent /\ (x = Absent \/ Expired(x, c))

(* y is x again, or x with a deadline at most half a millisecond early. *)
Near(x, y) ==
  /\ x # Absent /\ y # Absent /\ y.val = x.val /\ y.json = x.json
  /\ HasDeadline(y) <=> HasDeadline(x)
  /\ HasDeadline(x) => 2 * (x.exp - y.exp) <= TicksPerMs

Gone(x, c) == x = Absent \/ (HasDeadline(x) /\ 2 * (x.exp - c) <= TicksPerMs)

Restored(x, y, c) == Near(x, y) \/ (y = Absent /\ Gone(x, c))

(* How far a key nobody else has changed is on its way into the file and   *)
(* back.                                                                   *)
Held(k) ==
  LET x == origin[k]
      y == items[Home[k]][k]
  IN /\ script.step = "dumping" =>
          /\ y = x \/ (y = Absent /\ Expired(x, clock))
          /\ IF k \in script.todo THEN script.dumped[k] = Absent
             ELSE Saved(x, script.dumped[k], clock)
     /\ script.step = "saved" => y \in {x, Absent} /\ Saved(x, file[k], clock)
     /\ script.step \in {"loading", "loaded"} /\ script.cond \in {"none", "NX"} =>
          IF k \in script.todo THEN y \in {x, Absent} /\ Saved(x, file[k], clock)
          ELSE Restored(x, y, clock)

AllHeld == \A k \in script.asked \ (touched \cup {InfoKey}) : Held(k)

DumpInv == IInv /\ FileInv /\ AllHeld

-----------------------------------------------------------------------------
(* Deadlines on their way through a payload                                *)

(* Rounding to milliseconds loses half a millisecond at most. *)
LEMMA RoundsNear ==
  ASSUME NEW d \in Int
  PROVE  /\ RoundToMs(d) \in Int
         /\ 2 * (d - RoundToMs(d) * TicksPerMs) <= TicksPerMs
<1> DEFINE q == d \div TicksPerMs
           r == d % TicksPerMs
<1>1. TicksPerMs \in Nat \ {0}
  BY TimeAssumption
<1>2. q \in Int /\ r \in Int /\ 0 <= r /\ r < TicksPerMs /\ d = TicksPerMs * q + r
  BY <1>1
<1>3. RoundToMs(d) = IF 2 * r < TicksPerMs \/ (2 * r = TicksPerMs /\ q % 2 = 0) THEN q ELSE q + 1
  BY DEF RoundToMs
<1> HIDE DEF q, r
<1>4. CASE RoundToMs(d) = q /\ 2 * r <= TicksPerMs
  <2>1. d - q * TicksPerMs = r
    BY <1>1, <1>2
  <2> QED BY <1>1, <1>2, <1>4, <2>1
<1>5. CASE RoundToMs(d) = q + 1
  <2>1. d - (q + 1) * TicksPerMs = r - TicksPerMs
    BY <1>1, <1>2
  <2> QED BY <1>1, <1>2, <1>5, <2>1
<1>6. (RoundToMs(d) = q /\ 2 * r <= TicksPerMs) \/ RoundToMs(d) = q + 1
  BY <1>1, <1>2, <1>3
<1> QED BY <1>4, <1>5, <1>6

LEMMA TtlNear ==
  ASSUME NEW exp \in Int, NEW t \in Int
  PROVE  TtlMs(exp, t) \in Nat /\ 2 * (exp - t - TtlMs(exp, t) * TicksPerMs) <= TicksPerMs
<1> DEFINE left == RoundToMs(exp - t)
<1>1. exp - t \in Int /\ TicksPerMs \in Nat \ {0}
  BY TimeAssumption
<1>2. left \in Int /\ 2 * (exp - t - left * TicksPerMs) <= TicksPerMs
  BY <1>1, RoundsNear
<1>3. TtlMs(exp, t) = IF left < 0 THEN 0 ELSE left
  BY DEF TtlMs
<1> HIDE DEF left
<1>4. CASE left < 0
  <2>1. left * TicksPerMs <= 0 * TicksPerMs
    BY <1>1, <1>2, <1>4
  <2>2. 2 * (exp - t) <= TicksPerMs
    <3>1. left * TicksPerMs \in Int
      BY <1>1, <1>2
    <3> QED BY <1>1, <1>2, <2>1, <3>1
  <2> QED BY <1>1, <1>3, <1>4, <2>2
<1>5. CASE ~(left < 0)
  BY <1>2, <1>3, <1>5
<1> QED BY <1>4, <1>5

(* Decoded at any later instant, the payload of an entry gives it back.    *)
LEMMA ComesBack ==
  ASSUME NEW x \in Item, Dumpable(x), NEW t \in Int, NEW u \in Int, t <= u
  PROVE  Near(x, DecodeDump(EncodeDump(x, t), u))
<1> DEFINE y == DecodeDump(EncodeDump(x, t), u)
<1>0. x # Absent
  BY AbsentAssumption
<1>1. CASE x.exp = NoDeadline
  <2>1. y = StoredValue(x.val, NoDeadline, x.json)
    BY <1>1 DEF EncodeDump, DecodeDump
  <2>2. y \in Item
    BY <1>1, <2>1 DEF StoredValue, Item, Deadlines
  <2> HIDE DEF y
  <2>3. y # Absent
    BY <2>2, AbsentAssumption
  <2>4. ~HasDeadline(x) /\ ~HasDeadline(y)
    BY <1>1, <2>1 DEF HasDeadline, StoredValue
  <2>5. Near(x, y)
    BY <1>0, <2>1, <2>3, <2>4 DEF Near, StoredValue
  <2> QED BY <2>5 DEF y
<1>2. CASE x.exp # NoDeadline
  <2>1. x.exp \in Int
    BY <1>2 DEF Item, Deadlines, Dumpable
  <2> DEFINE ttl == TtlMs(x.exp, t)
  <2>2. ttl \in Nat /\ 2 * (x.exp - t - ttl * TicksPerMs) <= TicksPerMs
    BY <2>1, TtlNear
  <2>3. EncodeDump(x, t) = [val |-> x.val, ttl |-> ttl, json |-> x.json]
    BY <1>2 DEF EncodeDump
  <2> HIDE DEF ttl
  <2>4. ttl \notin {NoDeadline, NotFinite}
    BY <2>2, SentinelAssumption
  <2>5. y = StoredValue(x.val, u + ttl * TicksPerMs, x.json)
    BY <2>3, <2>4 DEF DecodeDump
  <2> DEFINE e == u + ttl * TicksPerMs
  <2>6. e \in Int /\ 2 * (x.exp - e) <= TicksPerMs
    <3>1. ttl * TicksPerMs \in Int /\ TicksPerMs \in Int
      BY <2>2, TimeAssumption
    <3> QED BY <2>1, <2>2, <3>1
  <2> HIDE DEF e
  <2>7. y = StoredValue(x.val, e, x.json)
    BY <2>5 DEF e
  <2>8. y \in Item
    BY <2>6, <2>7 DEF StoredValue, Item, Deadlines
  <2> HIDE DEF y
  <2>9. y # Absent
    BY <2>8, AbsentAssumption
  <2>10. HasDeadline(x) /\ HasDeadline(y) /\ y.exp = e
    BY <1>0, <2>1, <2>6, <2>7, <2>9, SentinelAssumption DEF HasDeadline, StoredValue
  <2>11. Near(x, y)
    BY <1>0, <2>6, <2>7, <2>9, <2>10 DEF Near, StoredValue
  <2> QED BY <2>11 DEF y
<1> QED BY <1>1, <1>2

LEMMA NearItself ==
  ASSUME NEW x \in Item
  PROVE  Near(x, x)
<1>1. HasDeadline(x) => x.exp \in Int
  BY DEF HasDeadline, Item, Deadlines
<1> QED BY <1>1, AbsentAssumption, TimeAssumption DEF Near

-----------------------------------------------------------------------------
(* Time passing changes none of it *)

LEMMA GoneLonger ==
  ASSUME NEW x \in Item \cup {Absent}, NEW t \in Int, NEW u \in Int, t <= u, Gone(x, t)
  PROVE  Gone(x, u)
<1>1. HasDeadline(x) => x.exp \in Int
  BY DEF HasDeadline, Item, Deadlines
<1> QED BY <1>1, TimeAssumption DEF Gone

LEMMA ExpiredIsGone ==
  ASSUME NEW x \in Item \cup {Absent}, NEW u \in Int, x = Absent \/ Expired(x, u)
  PROVE  Gone(x, u)
<1>1. HasDeadline(x) => x.exp \in Int
  BY DEF HasDeadline, Item, Deadlines
<1> QED BY <1>1, TimeAssumption DEF Gone, Expired

(* An entry that came back early is gone when its deadline passes. *)
LEMMA NearIsGone ==
  ASSUME NEW x \in Item \cup {Absent}, NEW y \in Item \cup {Absent}, NEW u \in Int, Near(x, y),
         Expired(y, u)
  PROVE  Gone(x, u)
<1>1. (HasDeadline(x) => x.exp \in Int) /\ (HasDeadline(y) => y.exp \in Int)
  BY DEF HasDeadline, Item, Deadlines
<1> QED BY <1>1, TimeAssumption DEF Gone, Expired, Near

LEMMA RestoredLater ==
  ASSUME NEW x \in Item \cup {Absent}, NEW y \in Item \cup {Absent}, NEW t \in Int, NEW u \in Int,
         t <= u, Restored(x, y, t)
  PROVE  Restored(x, y, u) /\ (Expired(y, u) => Restored(x, Absent, u))
BY GoneLonger, NearIsGone DEF Restored, Expired, HasDeadline

LEMMA OriginRestored ==
  ASSUME NEW x \in Item \cup {Absent}, NEW y, NEW u \in Int, y = x \/ (y = Absent /\ Expired(x, u))
  PROVE  Restored(x, y, u)
<1>1. CASE y = x /\ x # Absent
  BY <1>1, NearItself DEF Restored
<1>2. CASE y = Absent /\ (x = Absent \/ Expired(x, u))
  BY <1>2, ExpiredIsGone DEF Restored
<1> QED BY <1>1, <1>2

LEMMA SavedLater ==
  ASSUME NEW x \in Item \cup {Absent}, NEW b, NEW t \in Time, NEW u \in Time, t <= u, Saved(x, b, t)
  PROVE  Saved(x, b, u)
<1>0. t \in Nat /\ u \in Nat
  BY TimeAssumption DEF Time
<1>1. ASSUME NEW v \in 0..t PROVE v \in 0..u
  BY <1>0
<1>2. Expired(x, t) => Expired(x, u)
  BY <1>0, ExpiredLater
<1> QED BY <1>1, <1>2 DEF Saved

-----------------------------------------------------------------------------
(* What each step does to the keys *)

Quiet(k) == Kept(Home[k], k) \/ Purged(Home[k], k)

LEMMA ClockForward ==
  ASSUME IInv, ServerNext
  PROVE  clock' \in From(clock)
<1>1. Eager!MapNext
  BY ServerNextMaps
<1>2. clock \in From(clock)
  BY FromSelf DEF IInv, TypeOK
<1> QED BY <1>1, <1>2, SameValues
        DEF Eager!MapNext, Eager!ReadOne, Eager!ReadMany, Eager!List, Eager!Write, Eager!Remove,
            Eager!Fail, Eager!Ping, Eager!Passes

LEMMA DumpFound ==
  ASSUME TypeOK, NEW k \in Keys, Dump(Home[k], k)
  PROVE  /\ clock' \in From(clock)
         /\ \A k2 \in Keys : Quiet(k2)
         /\ \E t \in From(clock) :
              /\ clock' \in From(t)
              /\ \/ last'.reply = Error
                 \/ last'.reply = Nil /\ Found1(k, t) = Absent
                 \/ /\ last'.reply \notin {Error, Nil}
                    /\ Found1(k, t) # Absent /\ Dumpable(Found1(k, t))
                    /\ last'.reply[2] = EncodeDump(Found1(k, t), clock')
<1>1. PICK t \in From(clock), t2 \in Time :
        /\ t2 \in From(t) /\ clock' = t2
        /\ items' = [items EXCEPT ![Home[k]] = Purge(items[Home[k]], k, t)]
        /\ Answer("DUMP", <<k>>, DumpReply(Found1(k, t), t2))
  BY FromLater DEF Dump, Found1, TypeOK
<1>2. clock' \in From(clock) /\ Unwritten
  BY <1>1, RefusalOutcome, HomeIsTotal
<1>3. \A k2 \in Keys : Quiet(k2)
  BY <1>2, HomeIsTotal DEF Unwritten, Quiet
<1>4. last'.reply = DumpReply(Found1(k, t), t2)
  BY <1>1 DEF Answer
<1>5. \/ last'.reply = Error
      \/ last'.reply = Nil /\ Found1(k, t) = Absent
      \/ /\ last'.reply \notin {Error, Nil}
         /\ Found1(k, t) # Absent /\ Dumpable(Found1(k, t))
         /\ last'.reply[2] = EncodeDump(Found1(k, t), t2)
  BY <1>4, PairParts DEF DumpReply
<1> QED BY <1>1, <1>2, <1>3, <1>5

LEMMA OthersQuiet ==
  ASSUME NEW k \in Keys, Unwritten \/ Written(Home[k], k)
  PROVE  \A k2 \in Keys \ {k} : Quiet(k2)
BY HomeIsTotal DEF Unwritten, Written, Quiet

(* A load of the program: it fails only if the options exclude each other. *)
LEMMA LoadCommandDoes ==
  ASSUME IInv, FileInv, NEW k \in Keys, file[k] # Absent, LoadCommand(k)
  PROVE  /\ IInv'
         /\ \E cond \in {"NX", script.cond} : LoadOutcome(Home[k], k, file[k], cond)
         /\ last'.reply = Error => script.cond = "NX and XX"
<1> DEFINE b == file[k]
<1>0. /\ b \in Blob /\ b # BadBlob /\ script.cond \in DumpConds /\ TypeOK
      /\ k \in ConstKeys => b.ttl = NoDeadline
      /\ Ok # Error /\ Nil # Error
  BY StoreAssumption DEF FileInv, Files, ConstFile, IInv, Ok, Nil, Error
<1>1. /\ k \in ConstKeys => Home[k] = Const
      /\ k \notin ConstKeys => Home[k] = Plain
      /\ Const \in Stores /\ Plain \in Stores
  BY HomeIsTotal DEF Home
<1> HIDE DEF b
<1>2. CASE k \in ConstKeys /\ ConstLoad(Const, k, b, "NX")
  <2>1. TypeOK' /\ ServerStep
    BY <1>0, <1>1, <1>2, ConstLoadStep, ConstSideStep
  <2>2. LoadOutcome(Home[k], k, b, "NX")
    BY <1>0, <1>1, <1>2, ConstLoadFound
  <2>3. \A t : ConstLoadable(b, t)
    BY <1>0, <1>2 DEF ConstLoadable, DecodeDump, StoredValue
  <2>4. last'.reply # Error
    <3>1. Answer("LOAD", <<k>>, Nil) \/ Answer("LOAD", <<k>>, Ok)
      BY <1>2, <2>3 DEF ConstLoad, PrefixError, Refused
    <3>2. CASE Answer("LOAD", <<k>>, Nil)
      BY <1>0, <3>2 DEF Answer
    <3>3. CASE Answer("LOAD", <<k>>, Ok)
      BY <1>0, <3>3 DEF Answer
    <3> QED BY <3>1, <3>2, <3>3
  <2> QED BY <2>1, <2>2, <2>4, StepInv DEF b
<1>3. CASE k \notin ConstKeys /\ Load(Plain, k, b, script.cond)
  <2>1. \A s2 \in Stores, k2 \in Keys :
          Kept(s2, k2) \/ Purged(s2, k2) \/ (s2 = Plain /\ k2 = k /\ WrittenTo(k))
    BY <1>0, <1>1, <1>3, LoadKeeps
  <2>2. TypeOK' /\ ServerStep
    BY <1>0, <1>1, <1>3, <2>1, LoadType, PlainSideStep
  <2>3. LoadOutcome(Home[k], k, b, script.cond)
    BY <1>0, <1>1, <1>3, LoadFound
  <2>4. last'.reply = Error => script.cond = "NX and XX"
    <3>1. CASE Refused(script.cond)
      BY <1>0, <3>1 DEF Refused, DumpConds
    <3>2. CASE ~Refused(script.cond)
      <4>1. Answer("LOAD", <<k>>, Nil) \/ Answer("LOAD", <<k>>, Ok)
        BY <1>0, <1>3, <3>2 DEF Load
      <4>2. CASE Answer("LOAD", <<k>>, Nil)
        BY <1>0, <4>2 DEF Answer
      <4>3. CASE Answer("LOAD", <<k>>, Ok)
        BY <1>0, <4>3 DEF Answer
      <4> QED BY <4>1, <4>2, <4>3
    <3> QED BY <3>1, <3>2
  <2> QED BY <2>2, <2>3, <2>4, StepInv DEF b
<1> QED BY <1>2, <1>3 DEF LoadCommand, b

LEMMA AnswerNames == \A op, ks, reply : Answer(op, ks, reply) => last'.keys = ks
BY DEF Answer

LEMMA ConstWritesName ==
  ASSUME NEW s, NEW k, NEW v, NEW ttl, NEW cond,
         ConstSet(s, k, v, ttl, cond, FALSE) \/ ConstJsonSet(s, k, v, cond)
  PROVE  last'.keys = <<k>>
<1>1. ASSUME NEW t, Set(s, t, k, v, ttl, cond, FALSE) PROVE last'.keys = <<k>>
  BY <1>1, AnswerNames DEF Set
<1>2. ASSUME NEW t, JsonSet(s, t, k, v, cond) PROVE last'.keys = <<k>>
  BY <1>2, AnswerNames DEF JsonSet
<1>3. CASE ConstSet(s, k, v, ttl, cond, FALSE)
  BY <1>1, <1>3, AnswerNames DEF ConstSet, PrefixError
<1>4. CASE ConstJsonSet(s, k, v, cond)
  BY <1>2, <1>4, AnswerNames DEF ConstJsonSet, PrefixError
<1> QED BY <1>3, <1>4

(* Other clients change the key they name and no other. *)
LEMMA OtherClientDoes ==
  ASSUME IInv, NEW k \in Keys, OtherClient(k)
  PROVE  IInv' /\ clock' \in From(clock) /\ \A k2 \in Keys \ {k} : Quiet(k2)
<1>0. /\ "none" \in Conditions /\ NoDeadline \in Ttls /\ FALSE \in BOOLEAN
      /\ JsonTexts \subseteq Payloads /\ Plain \in Stores /\ Const \in Stores
      /\ TypeOK /\ clock \in Time
      /\ \A k2 \in Keys \ {k} : <<k2>> # <<k>> /\ Home[k2] \in Stores
  BY HomeIsTotal, PayloadsAssumption DEF Conditions, Ttls, IInv, TypeOK
<1>1. CASE RoutedDel(<<k>>, FALSE)
  <2>1. ServerNext
    <3>1. Redis("DEL", k, NoArg, "none") /\ Given("DEL", NoArg, "none")
      BY <1>1 DEF Redis, Given
    <3> QED BY <1>0, <3>1, RedisStep
  <2>2. \A k2 \in Keys \ {k} : Quiet(k2)
    <3>1. CASE UNCHANGED <<items, clock>>
      BY <3>1 DEF Quiet, Kept
    <3>2. CASE Del(Plain, <<k>>, FALSE)
      <4>1. \A s2 \in Stores, k2 \in Keys : Kept(s2, k2) \/ k2 \in Range(<<k>>)
        BY <1>0, <3>2, DelKeeps
      <4>2. Range(<<k>>) = {k}
        BY DEF Range
      <4> QED BY <1>0, <4>1, <4>2 DEF Quiet
    <3> QED BY <1>1, <3>1, <3>2 DEF RoutedDel
  <2> QED BY <2>1, <2>2, ServerNextInv, ClockForward
<1>2. ASSUME NEW v \in Payloads, NEW ttl \in Ttls, Home[k] = Plain,
             Set(Plain, clock, k, v, ttl, "none", FALSE)
      PROVE  IInv' /\ clock' \in From(clock) /\ \A k2 \in Keys \ {k} : Quiet(k2)
  <2>1. ServerNext
    BY <1>0, <1>2 DEF ServerNext, SingleKey, RoutedSet
  <2>2. \A s2 \in Stores, k2 \in Keys : Kept(s2, k2) \/ Purged(s2, k2) \/ k2 = k
    BY <1>0, <1>2, SetKeeps
  <2> QED BY <1>0, <2>1, <2>2, ServerNextInv, ClockForward DEF Quiet
<1>3. ASSUME NEW v \in Payloads, Home[k] = Plain, JsonSet(Plain, clock, k, v, "none")
      PROVE  IInv' /\ clock' \in From(clock) /\ \A k2 \in Keys \ {k} : Quiet(k2)
  <2>1. ServerNext
    BY <1>0, <1>3 DEF ServerNext, SingleKey, RoutedJsonSet
  <2>2. \A s2 \in Stores, k2 \in Keys : Kept(s2, k2) \/ Purged(s2, k2) \/ k2 = k
    BY <1>0, <1>3, JsonSetKeeps
  <2> QED BY <1>0, <2>1, <2>2, ServerNextInv, ClockForward DEF Quiet
<1>4. ASSUME NEW v \in Payloads, NEW ttl \in Ttls, Home[k] = Const,
             ConstSet(Const, k, v, ttl, "none", FALSE)
      PROVE  IInv' /\ clock' \in From(clock) /\ \A k2 \in Keys \ {k} : Quiet(k2)
  <2>1. ServerNext
    BY <1>0, <1>4 DEF ServerNext, SingleKey, RoutedSet
  <2>2. ConstStep(Const)
    BY <1>0, <1>4, ConstSetStep
  <2>3. last'.keys = <<k>>
    BY <1>4, ConstWritesName
  <2> QED BY <1>0, <2>1, <2>2, <2>3, ServerNextInv, ClockForward
          DEF Quiet, ConstStep, Founded, WrittenTo
<1>5. ASSUME NEW v \in Payloads, Home[k] = Const, ConstJsonSet(Const, k, v, "none")
      PROVE  IInv' /\ clock' \in From(clock) /\ \A k2 \in Keys \ {k} : Quiet(k2)
  <2>1. ServerNext
    BY <1>0, <1>5 DEF ServerNext, SingleKey, RoutedJsonSet
  <2>2. ConstStep(Const)
    BY <1>0, <1>5, ConstJsonSetStep
  <2>3. last'.keys = <<k>>
    BY <1>5, ConstWritesName
  <2> QED BY <1>0, <2>1, <2>2, <2>3, ServerNextInv, ClockForward
          DEF Quiet, ConstStep, Founded, WrittenTo
<1> QED BY <1>0, <1>1, <1>2, <1>3, <1>4, <1>5 DEF OtherClient

(* A key whose place in the program's work is as it was. *)
SameFor(k) ==
  \/ script'.step \in {"raised in save", "raised", "timed out"}
  \/ /\ script'.step = script.step /\ script'.cond = script.cond
     /\ k \in script'.todo <=> k \in script.todo
     /\ script'.dumped[k] = script.dumped[k]

LEMMA Drift ==
  ASSUME TypeOK, TypeOK', FileInv, NEW k \in Keys, Held(k), Quiet(k), clock' \in From(clock),
         origin' = origin, file' = file, SameFor(k)
  PROVE  Held(k)'
<1> DEFINE x == origin[k]
           y == items[Home[k]][k]
           y2 == items'[Home[k]][k]
<1>1. x \in Item \cup {Absent} /\ y \in Item \cup {Absent}
  BY HomeItems DEF FileInv, Dictionary
<1>2. /\ clock \in Time /\ clock' \in Time /\ clock \in Int /\ clock' \in Int /\ clock <= clock'
  BY FromOrder DEF TypeOK
<1>3. y2 = y \/ (y2 = Absent /\ Expired(y, clock'))
  BY DEF Quiet, Kept, Purged
<1>4. origin'[k] = x /\ file'[k] = file[k]
  OBVIOUS
<1>5. CASE script'.step \in {"raised in save", "raised", "timed out"}
  BY <1>5 DEF Held
<1>6. CASE /\ script'.step = script.step /\ script'.cond = script.cond
           /\ k \in script'.todo <=> k \in script.todo
           /\ script'.dumped[k] = script.dumped[k]
  <2>1. ~Expired(Absent, clock')
    BY DEF Expired, HasDeadline
  <2>2. CASE script.step = "dumping"
    <3>1. y = x \/ (y = Absent /\ Expired(x, clock))
      BY <2>2 DEF Held
    <3>2. y2 = x \/ (y2 = Absent /\ Expired(x, clock'))
      BY <1>1, <1>2, <1>3, <2>1, <3>1, ExpiredLater
    <3>3. IF k \in script.todo THEN script.dumped[k] = Absent
          ELSE Saved(x, script.dumped[k], clock)
      BY <2>2 DEF Held
    <3>4. IF k \in script'.todo THEN script'.dumped[k] = Absent
          ELSE Saved(x, script'.dumped[k], clock')
      BY <1>1, <1>2, <1>6, <3>3, SavedLater
    <3> QED BY <1>4, <1>6, <2>2, <3>2, <3>4 DEF Held
  <2>3. CASE script.step = "saved"
    <3>1. y \in {x, Absent} /\ Saved(x, file[k], clock)
      BY <2>3 DEF Held
    <3>2. y2 \in {x, Absent} /\ Saved(x, file[k], clock')
      BY <1>1, <1>2, <1>3, <3>1, SavedLater
    <3> QED BY <1>4, <1>6, <2>3, <3>2 DEF Held
  <2>4. CASE script.step \in {"loading", "loaded"} /\ script.cond \in {"none", "NX"}
    <3>1. IF k \in script.todo THEN y \in {x, Absent} /\ Saved(x, file[k], clock)
          ELSE Restored(x, y, clock)
      BY <2>4 DEF Held
    <3>2. CASE k \in script.todo
      <4>1. y2 \in {x, Absent} /\ Saved(x, file[k], clock')
        BY <1>1, <1>2, <1>3, <3>1, <3>2, SavedLater
      <4> QED BY <1>4, <1>6, <2>4, <3>2, <4>1 DEF Held
    <3>3. CASE k \notin script.todo
      <4>1. Restored(x, y2, clock')
        BY <1>1, <1>2, <1>3, <3>1, <3>3, RestoredLater
      <4> QED BY <1>4, <1>6, <2>4, <3>3, <4>1 DEF Held
    <3> QED BY <3>2, <3>3
  <2>5. CASE /\ script.step \notin {"dumping", "saved"}
             /\ ~(script.step \in {"loading", "loaded"} /\ script.cond \in {"none", "NX"})
    BY <1>6, <2>5 DEF Held
  <2> QED BY <2>2, <2>3, <2>4, <2>5
<1> QED BY <1>5, <1>6 DEF SameFor

-----------------------------------------------------------------------------
(* The invariant of the program is inductive *)

LEMMA DumpInitInv == DumpInit => DumpInv
<1> SUFFICES ASSUME DumpInit PROVE DumpInv
  OBVIOUS
<1>1. IInv
  BY ServerInitInv DEF DumpInit
<1>2. NoPayloads \in Files /\ NoPayloads \in Dictionary /\ ConstFile(NoPayloads)
  BY KeysAssumption DEF NoPayloads, Files, Dictionary, ConstFile
<1>3. /\ script \in [step : Steps, asked : SUBSET Keys, cond : DumpConds, todo : SUBSET Keys,
                     dumped : Files]
      /\ script.step = "idle" /\ script.asked = {} /\ script.dumped = NoPayloads
  BY <1>2 DEF DumpInit, Steps, DumpConds
<1>4. FileInv
  BY <1>2, <1>3 DEF DumpInit, FileInv, LoadSucceeds
<1> QED BY <1>1, <1>3, <1>4 DEF DumpInv, AllHeld

LEMMA ScriptParts ==
  ASSUME FileInv
  PROVE  /\ script.step \in Steps /\ script.asked \in SUBSET Keys /\ script.cond \in DumpConds
         /\ script.todo \in SUBSET Keys /\ script.dumped \in Files
         /\ script = [step |-> script.step, asked |-> script.asked, cond |-> script.cond,
                      todo |-> script.todo, dumped |-> script.dumped]
BY DEF FileInv

LEMMA BeginDumpInv ==
  ASSUME DumpInv, NEW P \in Patterns, NEW consts \in BOOLEAN, BeginDump(P, consts)
  PROVE  DumpInv'
<1> DEFINE asked == IF consts THEN P ELSE P \ ConstKeys
<1>0. IInv /\ FileInv /\ TypeOK
  BY DEF DumpInv, IInv
<1>1. RoutedKeys(P)
  BY DEF BeginDump
<1>2. IInv' /\ TypeOK'
  <2>1. ServerNext
    BY <1>1 DEF ServerNext, ManyKeys
  <2> QED BY <1>0, <2>1, ServerNextInv DEF IInv
<1>3. PICK at \in [Keys -> From(clock)] :
        /\ items' = [s \in Stores |-> [k \in Keys |->
                       IF Home[k] = s THEN AliveAt(items[s][k], at[k]) ELSE items[s][k]]]
        /\ Answer("KEYS", <<>>, Names(P, { k \in P : AliveAt(items[Home[k]][k], at[k]) # Absent }))
  BY <1>1 DEF RoutedKeys, KeysCommand
<1> DEFINE S == { k \in P : AliveAt(items[Home[k]][k], at[k]) # Absent }
<1>4. last'.reply[2][2] = S
  <2>1. last'.reply = <<"keys", <<P, S>>>>
    BY <1>3 DEF Answer, Names
  <2> HIDE DEF S
  <2> QED BY <2>1, PairParts
<1>5. P \subseteq Keys /\ asked \subseteq Keys /\ asked \subseteq P
  BY StoreAssumption
<1> HIDE DEF asked, S
<1>6. /\ script' = [step |-> "dumping", asked |-> asked, cond |-> script.cond,
                    todo |-> asked \cap S, dumped |-> NoPayloads]
      /\ file' = file
      /\ \A k \in Keys : origin'[k] = items'[Home[k]][k]
      /\ origin' = [k \in Keys |-> items'[Home[k]][k]]
  <2>1. script.dumped = NoPayloads
    BY <1>0 DEF FileInv, BeginDump
  <2>2. script' = [script EXCEPT !.step = "dumping", !.asked = asked, !.todo = asked \cap S]
    BY <1>4 DEF BeginDump, asked
  <2>3. script' = [step |-> "dumping", asked |-> asked, cond |-> script.cond,
                   todo |-> asked \cap S, dumped |-> script.dumped]
    BY <1>0, <2>2, ScriptParts
  <2> QED BY <2>1, <2>3 DEF BeginDump
<1>7. FileInv'
  <2>1. origin' \in Dictionary
    BY <1>2, <1>6, HomeIsTotal DEF TypeOK, Dictionary
  <2>2. NoPayloads \in Files /\ ConstFile(NoPayloads) /\ file \in Files /\ ConstFile(file)
    BY <1>0, KeysAssumption DEF NoPayloads, Files, ConstFile, FileInv
  <2>3. script'.step = "dumping" /\ script'.dumped = NoPayloads
    BY <1>6
  <2>4. script' \in [step : Steps, asked : SUBSET Keys, cond : DumpConds, todo : SUBSET Keys,
                     dumped : Files]
    BY <1>0, <1>5, <1>6, <2>2, ScriptParts DEF Steps
  <2> QED BY <1>6, <2>1, <2>2, <2>3, <2>4 DEF FileInv, LoadSucceeds
<1>8. ASSUME NEW k \in asked PROVE Held(k)'
  <2>1. script'.step = "dumping" /\ script'.todo = asked \cap S /\ script'.dumped[k] = Absent
    BY <1>5, <1>6, <1>8 DEF NoPayloads
  <2>2. CASE k \in S
    BY <1>5, <1>6, <1>8, <2>1, <2>2 DEF Held
  <2>3. CASE k \notin S
    <3>1. AliveAt(items[Home[k]][k], at[k]) = Absent
      BY <1>5, <1>8, <2>3 DEF S
    <3>2. origin'[k] = Absent
      BY <1>3, <1>5, <1>6, <1>8, <3>1, HomeIsTotal
    <3> QED BY <1>5, <1>6, <1>8, <2>1, <2>3, <3>2 DEF Held, Saved
  <2> QED BY <2>2, <2>3
<1>9. AllHeld'
  BY <1>6, <1>8 DEF AllHeld
<1> QED BY <1>2, <1>7, <1>9 DEF DumpInv

LEMMA WriteFileInv ==
  ASSUME DumpInv, WriteFile
  PROVE  DumpInv'
<1>0. /\ IInv /\ FileInv /\ UNCHANGED vars /\ UNCHANGED <<origin, touched>>
      /\ script.step = "dumping" /\ script.todo = {} /\ file' = script.dumped
  BY DEF DumpInv, WriteFile
<1>1. IInv'
  BY <1>0 DEF IInv, vars, TypeOK, Partitioned, ConstEntries
<1>2. script' = [step |-> "saved", asked |-> script.asked, cond |-> script.cond,
                 todo |-> script.todo, dumped |-> NoPayloads]
  <2>1. script' = [script EXCEPT !.step = "saved", !.dumped = NoPayloads]
    BY DEF WriteFile
  <2> QED BY <1>0, <2>1, ScriptParts
<1>3. FileInv'
  <2>1. NoPayloads \in Files /\ ConstFile(NoPayloads)
    BY KeysAssumption DEF NoPayloads, Files, ConstFile
  <2>2. script' \in [step : Steps, asked : SUBSET Keys, cond : DumpConds, todo : SUBSET Keys,
                     dumped : Files]
    BY <1>0, <1>2, <2>1, ScriptParts DEF Steps
  <2> QED BY <1>0, <1>2, <2>1, <2>2 DEF FileInv, LoadSucceeds, ConstFile
<1>4. ASSUME NEW k \in script.asked \ (touched \cup {InfoKey}) PROVE Held(k)'
  <2>1. Held(k)
    BY <1>4 DEF DumpInv, AllHeld
  <2>2. items' = items /\ clock' = clock
    BY <1>0 DEF vars
  <2> QED BY <1>0, <1>2, <2>1, <2>2 DEF Held
<1>5. AllHeld'
  BY <1>0, <1>2, <1>4 DEF AllHeld
<1> QED BY <1>1, <1>3, <1>5 DEF DumpInv

LEMMA BeginLoadInv ==
  ASSUME DumpInv, NEW cond \in DumpConds, NEW consts \in BOOLEAN, BeginLoad(cond, consts)
  PROVE  DumpInv'
<1> DEFINE asked == IF consts THEN script.asked ELSE script.asked \ ConstKeys
           todo == { k \in asked : file[k] # Absent }
<1>0. /\ IInv /\ FileInv /\ UNCHANGED vars /\ UNCHANGED <<file, origin, touched>>
      /\ script.step = "saved"
  BY DEF DumpInv, BeginLoad
<1>1. IInv'
  BY <1>0 DEF IInv, vars, TypeOK, Partitioned, ConstEntries
<1>2. script' = [step |-> "loading", asked |-> asked, cond |-> cond, todo |-> todo,
                 dumped |-> script.dumped]
  <2>1. script' = [script EXCEPT !.step = "loading", !.cond = cond, !.asked = asked, !.todo = todo]
    BY DEF BeginLoad
  <2> HIDE DEF asked, todo
  <2> QED BY <1>0, <2>1, ScriptParts
<1>3. asked \subseteq script.asked /\ todo \subseteq asked /\ \A k \in todo : file[k] # Absent
  OBVIOUS
<1>4. \A k \in asked \ todo : file[k] = Absent
  OBVIOUS
<1> HIDE DEF asked, todo
<1>5. FileInv'
  <2>1. script' \in [step : Steps, asked : SUBSET Keys, cond : DumpConds, todo : SUBSET Keys,
                     dumped : Files]
    BY <1>0, <1>2, <1>3, ScriptParts DEF Steps
  <2> QED BY <1>0, <1>2, <1>3, <2>1 DEF FileInv, LoadSucceeds, ConstFile
<1>6. ASSUME NEW k \in asked \ (touched \cup {InfoKey}) PROVE Held(k)'
  <2> DEFINE x == origin[k]
             y == items[Home[k]][k]
  <2>1. k \in Keys /\ x \in Item \cup {Absent} /\ clock \in Int /\ clock \in Time
    BY <1>0, <1>3, <1>6, ScriptParts, TimeAssumption DEF FileInv, Dictionary, IInv, TypeOK, Time
  <2>2. y \in {x, Absent} /\ Saved(x, file[k], clock)
    BY <1>0, <1>3, <1>6 DEF DumpInv, AllHeld, Held
  <2>3. items' = items /\ clock' = clock
    BY <1>0 DEF vars
  <2>4. CASE k \in todo
    BY <1>0, <1>2, <2>2, <2>3, <2>4 DEF Held
  <2>5. CASE k \notin todo
    <3>1. file[k] = Absent
      BY <1>4, <1>6, <2>5
    <3>2. x = Absent \/ Expired(x, clock)
      <4>1. ASSUME x # Absent, Dumpable(x), NEW t \in 0..clock, file[k] = EncodeDump(x, t)
            PROVE  FALSE
        <5>1. t \in Time /\ x \in Item
          BY <2>1, <4>1, TimeAssumption DEF Time
        <5>2. EncodeDump(x, t) \in Blob
          BY <4>1, <5>1, EncodeDumpType
        <5> QED BY <3>1, <4>1, <5>2, DumpLoadAssumption
      <4> QED BY <2>2, <4>1 DEF Saved
    <3>3. Restored(x, y, clock)
      BY <2>1, <2>2, <3>2, OriginRestored
    <3> QED BY <1>0, <1>2, <2>3, <2>5, <3>3 DEF Held
  <2> QED BY <2>4, <2>5
<1>7. AllHeld'
  BY <1>0, <1>2, <1>6 DEF AllHeld
<1> QED BY <1>1, <1>5, <1>7 DEF DumpInv

(* A step after which the program is where it was, or has given up.        *)
LEMMA ScriptKept ==
  ASSUME FileInv, file' = file, origin' = origin,
         \/ script' = script
         \/ \E step \in {"raised in save", "timed out"} : script' = [script EXCEPT !.step = step]
  PROVE  FileInv' /\ \A k \in Keys : SameFor(k)
<1>1. CASE script' = script
  BY <1>1 DEF FileInv, LoadSucceeds, ConstFile, SameFor
<1>2. ASSUME NEW step \in {"raised in save", "timed out"}, script' = [script EXCEPT !.step = step]
      PROVE  FileInv' /\ \A k \in Keys : SameFor(k)
  <2>1. script' = [step |-> step, asked |-> script.asked, cond |-> script.cond,
                   todo |-> script.todo, dumped |-> script.dumped]
    BY <1>2, ScriptParts
  <2>2. script' \in [step : Steps, asked : SUBSET Keys, cond : DumpConds, todo : SUBSET Keys,
                     dumped : Files]
    BY <2>1, ScriptParts DEF Steps
  <2>3. script'.step = step /\ script'.dumped = script.dumped
    BY <2>1
  <2> QED BY <2>2, <2>3 DEF FileInv, LoadSucceeds, ConstFile, SameFor
<1> QED BY <1>1, <1>2

LEMMA DumpOneInv ==
  ASSUME DumpInv, NEW k \in Keys, DumpOne(k)
  PROVE  DumpInv'
<1>0. /\ IInv /\ FileInv /\ TypeOK /\ UNCHANGED <<file, origin, touched>>
      /\ script.step = "dumping" /\ k \in script.todo /\ Dump(Home[k], k)
      /\ Error # Nil
  BY DEF DumpInv, DumpOne, IInv, Error, Nil
<1>1. IInv' /\ TypeOK'
  <2>1. ServerNext
    BY <1>0 DEF ServerNext, SingleKey
  <2> QED BY <1>0, <2>1, ServerNextInv DEF IInv
<1>2. clock' \in From(clock) /\ \A k2 \in Keys : Quiet(k2)
  BY <1>0, DumpFound
<1>3. PICK t \in From(clock) :
        /\ clock' \in From(t)
        /\ \/ last'.reply = Error
           \/ last'.reply = Nil /\ Found1(k, t) = Absent
           \/ /\ last'.reply \notin {Error, Nil}
              /\ Found1(k, t) # Absent /\ Dumpable(Found1(k, t))
              /\ last'.reply[2] = EncodeDump(Found1(k, t), clock')
  BY <1>0, DumpFound
<1>4. CASE last'.reply = Error
  <2>1. script' = [script EXCEPT !.step = "raised in save"]
    BY <1>0, <1>4 DEF DumpOne
  <2>2. FileInv' /\ \A k2 \in Keys : SameFor(k2)
    BY <1>0, <2>1, ScriptKept
  <2>3. script'.asked = script.asked
    BY <1>0, <2>1, ScriptParts
  <2>4. ASSUME NEW k2 \in script.asked \ (touched \cup {InfoKey}) PROVE Held(k2)'
    BY <1>0, <1>1, <1>2, <2>2, <2>4, Drift, ScriptParts DEF DumpInv, AllHeld
  <2> QED BY <1>0, <1>1, <2>2, <2>3, <2>4 DEF DumpInv, AllHeld
<1>5. CASE last'.reply # Error
  <2> DEFINE b == IF last'.reply = Nil THEN script.dumped[k] ELSE last'.reply[2]
             x == origin[k]
             y == items[Home[k]][k]
  <2>1. script' = [step |-> "dumping", asked |-> script.asked, cond |-> script.cond,
                   todo |-> script.todo \ {k}, dumped |-> [script.dumped EXCEPT ![k] = b]]
    <3>1. CASE last'.reply = Nil
      <4>1. script' = [script EXCEPT !.todo = @ \ {k}]
        BY <1>0, <1>5, <3>1 DEF DumpOne
      <4>2. [script.dumped EXCEPT ![k] = b] = script.dumped
        BY <1>0, <3>1, ScriptParts DEF Files
      <4> QED BY <1>0, <4>1, <4>2, ScriptParts
    <3>2. CASE last'.reply # Nil
      <4>1. script' = [script EXCEPT !.todo = @ \ {k}, !.dumped[k] = last'.reply[2]]
        BY <1>0, <1>5, <3>2 DEF DumpOne
      <4>2. script' = [script EXCEPT !.todo = @ \ {k},
                                     !.dumped = [script.dumped EXCEPT ![k] = last'.reply[2]]]
        BY <4>1
      <4> QED BY <1>0, <3>2, <4>2, ScriptParts
    <3> QED BY <3>1, <3>2
  <2>2. /\ x \in Item \cup {Absent} /\ y \in Item \cup {Absent}
        /\ clock \in Time /\ t \in Time /\ clock' \in Time /\ t \in Int /\ clock' \in Int
        /\ clock \in Int /\ clock <= clock' /\ t <= clock'
    BY <1>0, <1>1, <1>2, <1>3, HomeItems, FromLater DEF FileInv, Dictionary, TypeOK
  <2>3. last'.reply # Nil =>
          /\ y # Absent /\ Dumpable(y) /\ b = EncodeDump(y, clock')
    BY <1>3, <1>5 DEF Found1, AliveAt
  <2>4. last'.reply = Nil => y = Absent \/ Expired(y, clock')
    BY <1>0, <1>3, <1>5, <2>2, ExpiredLater DEF Found1, AliveAt
  <2>5. b \in Blob \cup {Absent}
    <3>1. CASE last'.reply = Nil
      BY <1>0, <3>1, ScriptParts DEF Files
    <3>2. CASE last'.reply # Nil
      BY <2>2, <2>3, <3>2, EncodeDumpType
    <3> QED BY <3>1, <3>2
  <2>6. k \in ConstKeys /\ b # Absent => b.ttl = NoDeadline
    <3>1. CASE last'.reply = Nil
      BY <1>0, <3>1 DEF FileInv, ConstFile
    <3>2. CASE last'.reply # Nil
      <4>1. k \in ConstKeys => y.exp = NoDeadline
        BY <1>0, <2>3, <3>2 DEF IInv, Partitioned, ConstEntries, Home
      <4> QED BY <2>3, <3>2, <4>1 DEF EncodeDump
    <3> QED BY <3>1, <3>2
  <2>7. k \in script.asked \ (touched \cup {InfoKey}) => Saved(x, b, clock')
    <3> SUFFICES ASSUME k \in script.asked \ (touched \cup {InfoKey}) PROVE Saved(x, b, clock')
      OBVIOUS
    <3>1. (y = x \/ (y = Absent /\ Expired(x, clock))) /\ script.dumped[k] = Absent
      BY <1>0 DEF DumpInv, AllHeld, Held
    <3>2. CASE last'.reply = Nil
      <4>1. x = Absent \/ Expired(x, clock')
        BY <2>2, <2>4, <3>1, <3>2, ExpiredLater
      <4> QED BY <3>1, <3>2, <4>1 DEF Saved
    <3>3. CASE last'.reply # Nil
      <4>1. clock' \in 0..clock'
        BY <2>2, TimeAssumption DEF Time
      <4> QED BY <2>3, <3>1, <3>3, <4>1 DEF Saved
    <3> QED BY <3>2, <3>3
  <2> HIDE DEF b, x, y
  <2>8. /\ script'.step = "dumping" /\ script'.asked = script.asked /\ script'.cond = script.cond
        /\ script'.todo = script.todo \ {k} /\ script'.dumped[k] = b
        /\ \A k2 \in Keys \ {k} : script'.dumped[k2] = script.dumped[k2]
    BY <1>0, <2>1, ScriptParts DEF Files
  <2>9. FileInv'
    <3>1. script'.dumped \in Files
      BY <1>0, <2>1, <2>5, ScriptParts DEF Files
    <3>2. script' \in [step : Steps, asked : SUBSET Keys, cond : DumpConds, todo : SUBSET Keys,
                       dumped : Files]
      BY <1>0, <2>1, <3>1, ScriptParts DEF Steps
    <3>3. ConstFile(script'.dumped)
      BY <1>0, <2>6, <2>8, KeysAssumption DEF FileInv, ConstFile
    <3> QED BY <1>0, <2>8, <3>2, <3>3 DEF FileInv, LoadSucceeds, ConstFile
  <2>10. ASSUME NEW k2 \in script.asked \ (touched \cup {InfoKey}) PROVE Held(k2)'
    <3>1. CASE k2 = k
      <4>1. items'[Home[k]][k] = y \/ (items'[Home[k]][k] = Absent /\ Expired(y, clock'))
        BY <1>2 DEF Quiet, Kept, Purged, y
      <4>2. y = x \/ (y = Absent /\ Expired(x, clock))
        BY <1>0, <2>10, <3>1 DEF DumpInv, AllHeld, Held, x, y
      <4>3. ~Expired(Absent, clock')
        BY DEF Expired, HasDeadline
      <4>4. items'[Home[k]][k] = x \/ (items'[Home[k]][k] = Absent /\ Expired(x, clock'))
        BY <2>2, <4>1, <4>2, <4>3, ExpiredLater
      <4>5. Saved(x, script'.dumped[k], clock')
        BY <2>7, <2>8, <2>10, <3>1
      <4> QED BY <1>0, <2>8, <3>1, <4>4, <4>5 DEF Held, x
    <3>2. CASE k2 # k
      <4>1. SameFor(k2) /\ k2 \in Keys
        BY <1>0, <2>8, <2>10, <3>2, ScriptParts DEF SameFor
      <4> QED BY <1>0, <1>1, <1>2, <2>10, <4>1, Drift DEF DumpInv, AllHeld
    <3> QED BY <3>1, <3>2
  <2> QED BY <1>0, <1>1, <2>8, <2>9, <2>10 DEF DumpInv, AllHeld
<1> QED BY <1>4, <1>5

(* The key being loaded: put back, or left alone because it is there.      *)
LEMMA LoadedKey ==
  ASSUME DumpInv, TypeOK', NEW k \in Keys, NEW cond \in {"none", "NX"},
         k \in script.todo, script.step = "loading", script.cond \in {"none", "NX"},
         k \in script.asked \ (touched \cup {InfoKey}),
         LoadOutcome(Home[k], k, file[k], cond), last'.reply # Error
  PROVE  Restored(origin[k], items'[Home[k]][k], clock')
<1> DEFINE x == origin[k]
           y == items[Home[k]][k]
           y2 == items'[Home[k]][k]
<1>0. /\ FileInv /\ TypeOK /\ clock' \in From(clock) /\ file[k] # Absent /\ cond # "XX"
  BY DEF DumpInv, IInv, LoadOutcome, FileInv
<1>1. /\ x \in Item \cup {Absent} /\ y \in Item \cup {Absent}
      /\ clock \in Time /\ clock' \in Time /\ clock \in Int /\ clock' \in Int /\ clock <= clock'
  BY <1>0, HomeItems, FromOrder DEF FileInv, Dictionary, TypeOK
<1>2. y \in {x, Absent} /\ Saved(x, file[k], clock)
  BY DEF DumpInv, AllHeld, Held
<1>3. CASE last'.reply \in {Error, Nil} /\ Unwritten /\ y # Absent
  <2>1. y2 = y \/ (y2 = Absent /\ Expired(y, clock'))
    BY <1>3, HomeIsTotal DEF Unwritten, Kept, Purged
  <2>2. y2 = x \/ (y2 = Absent /\ Expired(x, clock'))
    BY <1>2, <1>3, <2>1
  <2> HIDE DEF x, y, y2
  <2>3. Restored(x, y2, clock')
    BY <1>1, <2>2, OriginRestored
  <2> QED BY <2>3 DEF x, y2
<1>4. CASE y2 = DecodeDump(file[k], clock')
  <2>1. PICK t \in 0..clock : x # Absent /\ Dumpable(x) /\ file[k] = EncodeDump(x, t)
    BY <1>0, <1>2 DEF Saved
  <2>2. t \in Int /\ t <= clock' /\ x \in Item
    BY <1>1, <2>1
  <2>3. Near(x, DecodeDump(EncodeDump(x, t), clock'))
    BY <1>1, <2>1, <2>2, ComesBack
  <2> QED BY <1>4, <2>1, <2>3 DEF Restored
<1> QED BY <1>0, <1>3, <1>4 DEF LoadOutcome

LEMMA LoadOneInv ==
  ASSUME DumpInv, NEW k \in Keys, LoadOne(k)
  PROVE  DumpInv'
<1>0. /\ IInv /\ FileInv /\ TypeOK /\ UNCHANGED <<file, origin, touched>>
      /\ script.step = "loading" /\ k \in script.todo /\ LoadCommand(k) /\ file[k] # Absent
  BY DEF DumpInv, LoadOne, IInv, FileInv
<1>1. /\ IInv' /\ TypeOK'
      /\ last'.reply = Error => script.cond = "NX and XX"
  BY <1>0, LoadCommandDoes DEF IInv
<1>2. PICK cond \in {"NX", script.cond} : LoadOutcome(Home[k], k, file[k], cond)
  BY <1>0, LoadCommandDoes
<1>3. clock' \in From(clock) /\ \A k2 \in Keys \ {k} : Quiet(k2)
  BY <1>2, OthersQuiet DEF LoadOutcome
<1>4. CASE last'.reply = Error
  <2>1. script' = [step |-> "raised", asked |-> script.asked, cond |-> "NX and XX",
                   todo |-> script.todo, dumped |-> script.dumped]
    <3>1. script' = [script EXCEPT !.step = "raised"]
      BY <1>4 DEF LoadOne
    <3> QED BY <1>0, <1>1, <1>4, <3>1, ScriptParts
  <2>2. script' \in [step : Steps, asked : SUBSET Keys, cond : DumpConds, todo : SUBSET Keys,
                     dumped : Files]
    BY <1>0, <2>1, ScriptParts DEF Steps, DumpConds
  <2>3. FileInv'
    BY <1>0, <2>1, <2>2 DEF FileInv, LoadSucceeds, ConstFile
  <2>4. \A k2 \in Keys : Held(k2)'
    BY <2>1 DEF Held
  <2>5. AllHeld'
    BY <1>0, <2>1, <2>4, ScriptParts DEF AllHeld
  <2> QED BY <1>1, <2>3, <2>5 DEF DumpInv
<1>5. CASE last'.reply # Error
  <2>1. script' = [step |-> "loading", asked |-> script.asked, cond |-> script.cond,
                   todo |-> script.todo \ {k}, dumped |-> script.dumped]
    <3>1. script' = [script EXCEPT !.todo = @ \ {k}]
      BY <1>5 DEF LoadOne
    <3> QED BY <1>0, <3>1, ScriptParts
  <2>2. script' \in [step : Steps, asked : SUBSET Keys, cond : DumpConds, todo : SUBSET Keys,
                     dumped : Files]
    BY <1>0, <2>1, ScriptParts DEF Steps
  <2>3. FileInv'
    BY <1>0, <2>1, <2>2 DEF FileInv, LoadSucceeds, ConstFile
  <2>4. ASSUME NEW k2 \in script.asked \ (touched \cup {InfoKey}) PROVE Held(k2)'
    <3>1. CASE k2 # k
      <4>1. SameFor(k2) /\ k2 \in Keys /\ Quiet(k2)
        BY <1>0, <1>3, <2>1, <2>4, <3>1, ScriptParts DEF SameFor
      <4> QED BY <1>0, <1>1, <1>3, <2>4, <4>1, Drift DEF DumpInv, AllHeld
    <3>2. CASE k2 = k
      <4>1. CASE script.cond \in {"none", "NX"}
        <5>1. Restored(origin[k], items'[Home[k]][k], clock')
          BY <1>0, <1>1, <1>2, <1>5, <2>4, <3>2, <4>1, LoadedKey
        <5> QED BY <1>0, <2>1, <3>2, <5>1 DEF Held
      <4>2. CASE script.cond \notin {"none", "NX"}
        BY <2>1, <4>2 DEF Held
      <4> QED BY <4>1, <4>2
    <3> QED BY <3>1, <3>2
  <2>5. AllHeld'
    BY <1>0, <2>1, <2>4 DEF AllHeld
  <2> QED BY <1>1, <2>3, <2>5 DEF DumpInv
<1> QED BY <1>4, <1>5

LEMMA FinishInv ==
  ASSUME DumpInv, Finish
  PROVE  DumpInv'
<1>0. /\ IInv /\ FileInv /\ UNCHANGED vars /\ UNCHANGED <<file, origin, touched>>
      /\ script.step = "loading" /\ script.todo = {}
  BY DEF DumpInv, Finish
<1>1. IInv'
  BY <1>0 DEF IInv, vars, TypeOK, Partitioned, ConstEntries
<1>2. script' = [step |-> "loaded", asked |-> script.asked, cond |-> script.cond,
                 todo |-> script.todo, dumped |-> script.dumped]
  <2>1. script' = [script EXCEPT !.step = "loaded"]
    BY DEF Finish
  <2> QED BY <1>0, <2>1, ScriptParts
<1>3. script' \in [step : Steps, asked : SUBSET Keys, cond : DumpConds, todo : SUBSET Keys,
                   dumped : Files]
  BY <1>0, <1>2, ScriptParts DEF Steps
<1>4. FileInv'
  BY <1>0, <1>2, <1>3 DEF FileInv, LoadSucceeds, ConstFile
<1>5. ASSUME NEW k \in script.asked \ (touched \cup {InfoKey}) PROVE Held(k)'
  <2>1. Held(k) /\ items' = items /\ clock' = clock
    BY <1>0, <1>5 DEF DumpInv, AllHeld, vars
  <2> QED BY <1>0, <1>2, <2>1 DEF Held
<1>6. AllHeld'
  BY <1>0, <1>2, <1>5 DEF AllHeld
<1> QED BY <1>1, <1>4, <1>6 DEF DumpInv

(* After a timeout nothing is promised, whether or not the command came    *)
(* through.                                                                *)
LEMMA GiveUpInv ==
  ASSUME DumpInv, GiveUp
  PROVE  DumpInv'
<1>0. IInv /\ FileInv /\ file' = file /\ origin' = origin
  BY DEF DumpInv, GiveUp
<1>1. IInv'
  <2>1. CASE UNCHANGED vars
    BY <1>0, <2>1 DEF IInv, vars, TypeOK, Partitioned, ConstEntries
  <2>2. CASE script.step = "loading" /\ \E k \in script.todo : LoadCommand(k)
    BY <1>0, <2>2, LoadCommandDoes, ScriptParts DEF FileInv
  <2> QED BY <2>1, <2>2 DEF GiveUp
<1>2. script' = [script EXCEPT !.step = "timed out"]
  BY DEF GiveUp
<1>3. FileInv'
  BY <1>0, <1>2, ScriptKept
<1>4. script'.step = "timed out" /\ script'.asked \subseteq Keys
  BY <1>0, <1>2, ScriptParts
<1>5. AllHeld'
  BY <1>4 DEF AllHeld, Held
<1> QED BY <1>1, <1>3, <1>5 DEF DumpInv

LEMMA OtherClientInv ==
  ASSUME DumpInv, NEW k \in Keys, OtherClient(k)
  PROVE  DumpInv'
<1>0. /\ IInv /\ FileInv /\ TypeOK /\ UNCHANGED <<script, file, origin>>
      /\ touched' = touched \cup {k}
  BY DEF DumpInv, OtherClient, IInv
<1>1. /\ IInv' /\ TypeOK' /\ clock' \in From(clock) /\ \A k2 \in Keys \ {k} : Quiet(k2)
  BY <1>0, OtherClientDoes DEF IInv
<1>2. FileInv' /\ \A k2 \in Keys : SameFor(k2)
  BY <1>0, ScriptKept
<1>3. ASSUME NEW k2 \in script.asked \ (touched' \cup {InfoKey}) PROVE Held(k2)'
  <2>1. k2 \in Keys \ {k} /\ Held(k2)
    BY <1>0, <1>3, ScriptParts DEF DumpInv, AllHeld
  <2> QED BY <1>0, <1>1, <1>2, <2>1, Drift
<1>4. AllHeld'
  BY <1>0, <1>3 DEF AllHeld
<1> QED BY <1>1, <1>2, <1>4 DEF DumpInv

(* A new server has only its own description, and everything is untouched  *)
(* only if the file was already written.                                   *)
LEMMA NewServerInv ==
  ASSUME DumpInv, NewServer
  PROVE  DumpInv'
<1>0. /\ IInv /\ FileInv /\ TypeOK /\ UNCHANGED <<clock, last, script, file, origin>>
      /\ touched' = IF script.step = "saved" THEN touched ELSE Keys
  BY DEF DumpInv, NewServer, IInv
<1>1. PICK doc \in JsonTexts :
        items' = [s \in Stores |-> [k \in Keys |->
                    IF s = Const /\ k = InfoKey THEN StoredValue(doc, NoDeadline, TRUE)
                    ELSE Absent]]
  BY DEF NewServer
<1> DEFINE new == StoredValue(doc, NoDeadline, TRUE)
<1>2. new \in Item /\ new.exp = NoDeadline
  BY PayloadsAssumption DEF StoredValue, Item, Deadlines
<1> HIDE DEF new
<1>3. \A s \in Stores, k \in Keys :
        items'[s][k] = IF s = Const /\ k = InfoKey THEN new ELSE Absent
  BY <1>1 DEF new
<1>4. IInv'
  <2>1. items' \in [Stores -> Dictionary]
    BY <1>1, <1>2 DEF Dictionary, new
  <2>2. TypeOK'
    BY <1>0, <2>1 DEF TypeOK
  <2>3. Partitioned'
    BY <1>2, <1>3, HomeIsTotal, ServerAssumption, KeysAssumption DEF Partitioned, ConstEntries
  <2> QED BY <2>2, <2>3 DEF IInv
<1>5. FileInv'
  BY <1>0, ScriptKept
<1>6. ASSUME NEW k \in script.asked \ (touched' \cup {InfoKey}) PROVE Held(k)'
  <2>1. k \in Keys /\ script.step = "saved" /\ Held(k)
    BY <1>0, <1>6, ScriptParts DEF DumpInv, AllHeld
  <2>2. items'[Home[k]][k] = Absent
    BY <1>3, <1>6, <2>1, HomeIsTotal
  <2> QED BY <1>0, <2>1, <2>2 DEF Held
<1>7. AllHeld'
  BY <1>0, <1>6 DEF AllHeld
<1> QED BY <1>4, <1>5, <1>7 DEF DumpInv

LEMMA DumpInvHolds == DumpSpec => []DumpInv
<1>1. DumpInv /\ [DumpNext]_dumpVars => DumpInv'
  <2>1. ASSUME DumpInv, DumpNext PROVE DumpInv'
    <3>1. \A cond \in {"none", "NX", "XX", "NX and XX"} : cond \in DumpConds
      BY DEF DumpConds
    <3> QED BY <2>1, <3>1, BeginDumpInv, DumpOneInv, LoadOneInv, OtherClientInv, BeginLoadInv,
               WriteFileInv, FinishInv, GiveUpInv, NewServerInv DEF DumpNext
  <2>2. ASSUME DumpInv, UNCHANGED dumpVars PROVE DumpInv'
    <3>1. UNCHANGED vars /\ UNCHANGED <<script, file, origin, touched>>
      BY <2>2 DEF dumpVars
    <3>2. IInv'
      BY <2>2, <3>1 DEF DumpInv, IInv, vars, TypeOK, Partitioned, ConstEntries
    <3>3. FileInv'
      BY <2>2, <3>1, ScriptKept DEF DumpInv
    <3>4. AllHeld'
      BY <2>2, <3>1 DEF DumpInv, AllHeld, Held, vars
    <3> QED BY <3>2, <3>3, <3>4 DEF DumpInv
  <2> QED BY <2>1, <2>2
<1> QED BY <1>1, DumpInitInv, PTL DEF DumpSpec

(* Whatever other clients did to the server a dump was taken of, and in    *)
(* whatever state the one is that it is loaded into, no command of the     *)
(* load fails, unless the options exclude each other.                      *)
THEOREM LoadSucceedsHolds == DumpSpec => []LoadSucceeds
BY DumpInvHolds, PTL DEF DumpInv, FileInv

(* A load brings back what the save found, for any number of keys, any     *)
(* deadlines and any resolution of the clock, also into a new server.      *)
THEOREM RestoresContentsHolds == DumpSpec => []RestoresContents
<1>1. DumpInv => RestoresContents
  <2> SUFFICES ASSUME DumpInv, script.step = "loaded", script.cond \in {"none", "NX"},
                      NEW k \in script.asked \ (touched \cup {InfoKey})
               PROVE  LET was == origin[k]
                          now == AliveAt(items[Home[k]][k], clock)
                          Early(exp) == 2 * (was.exp - exp) <= TicksPerMs
                      IN /\ was = Absent => now = Absent
                         /\ was # Absent /\ now = Absent => HasDeadline(was) /\ Early(clock)
                         /\ now # Absent =>
                              /\ was # Absent /\ now.val = was.val /\ now.json = was.json
                              /\ HasDeadline(now) <=> HasDeadline(was)
                              /\ HasDeadline(was) => Early(now.exp)
    BY DEF RestoresContents
  <2> DEFINE x == origin[k]
             y == items[Home[k]][k]
             now == AliveAt(y, clock)
  <2>1. k \in Keys /\ k \notin script.todo /\ TypeOK /\ FileInv
    BY ScriptParts DEF DumpInv, FileInv, IInv
  <2>2. x \in Item \cup {Absent} /\ y \in Item \cup {Absent} /\ clock \in Int
    BY <2>1, HomeItems, TimeIsInteger DEF FileInv, Dictionary, TypeOK
  <2>3. Restored(x, y, clock)
    BY <2>1 DEF DumpInv, AllHeld, Held
  <2>4. now = y \/ (now = Absent /\ Restored(x, Absent, clock))
    BY <2>2, <2>3, RestoredLater DEF AliveAt
  <2>5. Near(x, now) \/ (now = Absent /\ Gone(x, clock))
    BY <2>3, <2>4 DEF Restored, Near
  <2> HIDE DEF now
  <2> QED BY <2>5 DEF Near, Gone, now
<1> QED BY <1>1, DumpInvHolds, PTL

=============================================================================
