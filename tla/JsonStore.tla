------------------------------ MODULE JsonStore ------------------------------
(***************************************************************************)
(* JsonStore of src/iox2redis/server.py: an in-memory dictionary whose     *)
(* entries may carry a deadline.  Nothing removes an entry when its        *)
(* deadline passes; every handler purges the keys it is about to look at.  *)
(*                                                                         *)
(* The clock is read anew each time a handler needs it, so time may pass   *)
(* inside a command.  An action is one whole command: it picks the         *)
(* instants its readings return and leaves the clock at the last of them.  *)
(* The server process handles one command at a time.                       *)
(***************************************************************************)
EXTENDS StoredValues, FiniteSets, Functions

CONSTANTS
  Stores,    \* the JsonStore objects of the process
  Blobs,     \* the DUMP payloads clients hold
  BadBlob,   \* a LOAD argument that is not a DUMP payload
  Patterns,  \* for every glob clients give KEYS, the keys it matches
  MaxArgs    \* bound on the number of keys of one command

ASSUME StoreAssumption ==
  /\ Blobs \subseteq Blob /\ BadBlob \notin Blob
  /\ Patterns \subseteq SUBSET Keys
  /\ MaxArgs \in Nat \ {0}

VARIABLES
  items,   \* _items of every store
  clock,   \* the last instant self._clock() returned
  last     \* the command handled last: its name, its keys and its reply

vars == <<items, clock, last>>

Answer(op, ks, reply) == last' = [op |-> op, keys |-> ks, reply |-> reply]

KeySeqs == UNION { [1..n -> Keys] : n \in 0..MaxArgs }

(* _purge_if_expired(key) when the clock shows t. *)
PurgeEarly(d, k, t) ==   \* a mutant: any entry with a deadline is dropped
  [d EXCEPT ![k] = IF HasDeadline(@) THEN Absent ELSE @]

Purge(d, k, t) == [d EXCEPT ![k] = AliveAt(@, t)]

Init ==
  /\ items = [s \in Stores |-> [k \in Keys |-> Absent]]
  /\ clock = 0
  /\ last = [op |-> "", keys |-> <<>>, reply |-> Nil]

-----------------------------------------------------------------------------
(* Commands on one key.  now is the earliest the first reading can be.     *)

Get(s, k) ==
  \E t \in From(clock) :
    /\ clock' = t
    /\ items' = [items EXCEPT ![s] = Purge(@, k, t)]
    /\ Answer("GET", <<k>>, GetReply(AliveAt(items[s][k], t)))

JsonGet(s, k) ==
  \E t \in From(clock) :
    /\ clock' = t
    /\ items' = [items EXCEPT ![s] = Purge(@, k, t)]
    /\ Answer("JSON.GET", <<k>>, JsonGetReply(AliveAt(items[s][k], t)))

(* The remaining time is measured by a second reading of the clock. *)
Dump(s, k) ==
  \E t1 \in From(clock) : \E t2 \in From(t1) :
    /\ clock' = t2
    /\ items' = [items EXCEPT ![s] = Purge(@, k, t1)]
    /\ Answer("DUMP", <<k>>, DumpReply(AliveAt(items[s][k], t1), t2))

(* The old item is looked up before the options are parsed; EX and PX read *)
(* the clock again.  SET with GET is a name of its own in last.            *)
Set(s, now, k, v, ttl, cond, get) ==
  \E t1 \in From(now) : \E t2 \in From(t1) :
    LET seen == Purge(items[s], k, t1)
        op   == IF get THEN "SET GET" ELSE "SET"
    IN /\ clock' = t2
       /\ \/ /\ Refused(cond)
             /\ items' = [items EXCEPT ![s] = seen]
             /\ Answer(op, <<k>>, Error)
          \/ /\ Blocked(cond, seen[k])
             /\ items' = [items EXCEPT ![s] = seen]
             /\ Answer(op, <<k>>, Nil)
          \/ /\ Allowed(cond, seen[k])
             /\ items' = [items EXCEPT ![s] =
                            [seen EXCEPT ![k] = StoredValue(v, DeadlineAfter(ttl, t2), FALSE)]]
             /\ Answer(op, <<k>>, IF get THEN OldReply(seen[k]) ELSE Ok)

JsonSet(s, now, k, v, cond) ==
  \E t \in From(now) :
    LET seen == Purge(items[s], k, t)
    IN /\ clock' = t
       /\ \/ /\ Refused(cond) \/ (Allowed(cond, seen[k]) /\ ~Parses(v))
             /\ items' = [items EXCEPT ![s] = seen]
             /\ Answer("JSON.SET", <<k>>, Error)
          \/ /\ Blocked(cond, seen[k])
             /\ items' = [items EXCEPT ![s] = seen]
             /\ Answer("JSON.SET", <<k>>, Nil)
          \/ /\ Allowed(cond, seen[k]) /\ Parses(v)
             /\ items' = [items EXCEPT ![s] =
                            [seen EXCEPT ![k] = StoredValue(v, NoDeadline, TRUE)]]
             /\ Answer("JSON.SET", <<k>>, Ok)

(* The time to live in the payload counts from the moment it is decoded. *)
Load(s, k, b, cond) ==
  \E t1 \in From(clock) : \E t2 \in From(t1) :
    LET seen == Purge(items[s], k, t1)
    IN /\ clock' = t2
       /\ \/ /\ Refused(cond) \/ (Allowed(cond, seen[k]) /\ b = BadBlob)
             /\ items' = [items EXCEPT ![s] = seen]
             /\ Answer("LOAD", <<k>>, Error)
          \/ /\ Blocked(cond, seen[k])
             /\ items' = [items EXCEPT ![s] = seen]
             /\ Answer("LOAD", <<k>>, Nil)
          \/ /\ Allowed(cond, seen[k]) /\ b # BadBlob
             /\ items' = [items EXCEPT ![s] = [seen EXCEPT ![k] = DecodeDump(b, t2)]]
             /\ Answer("LOAD", <<k>>, Ok)

-----------------------------------------------------------------------------
(* Commands on several keys.  ks holds the keys up to the first one that   *)
(* key_to_str cannot decode, and bad tells whether there is one: by then   *)
(* the keys before it have been dealt with.  The clock is read for every   *)
(* key.  home says which store keeps a key, so that the router shares the  *)
(* definitions of EXISTS, MGET and KEYS.                                   *)

(* n readings of the clock in a row. *)
Readings(n) == { ts \in [1..n -> From(clock)] : \A i, j \in 1..n : i <= j => ts[i] <= ts[j] }

Latest(ts) == IF ts = <<>> THEN clock ELSE ts[Len(ts)]

(* What the handler finds under its i-th key. *)
FoundUnpurged(home, ks, ts, i) ==   \* a mutant: looks without purging
  items[home[ks[i]]][ks[i]]

Found(home, ks, ts, i) == AliveAt(items[home[ks[i]]][ks[i]], ts[i])

(* The keys of ks are purged, the i-th one when the clock shows ts[i]. *)
PurgeAll(home, ks, ts) ==
  items' = [s \in Stores |-> [k \in Keys |->
             IF \E i \in DOMAIN ks : ks[i] = k /\ home[k] = s /\ Expired(items[s][k], ts[i])
             THEN Absent ELSE items[s][k]]]

Exists(home, ks, bad) ==
  \E ts \in Readings(Len(ks)) :
    /\ clock' = Latest(ts)
    /\ PurgeAll(home, ks, ts)
    /\ Answer("EXISTS", ks,
              IF bad THEN Error
              ELSE Count(Cardinality({ i \in DOMAIN ks : Found(home, ks, ts, i) # Absent })))

Mget(home, ks, bad) ==
  \E ts \in Readings(Len(ks)) :
    /\ clock' = Latest(ts)
    /\ PurgeAll(home, ks, ts)
    /\ Answer("MGET", ks,
              IF bad THEN Error
              ELSE Array([i \in DOMAIN ks |-> GetReply(Found(home, ks, ts, i))]))

(* A key counts once, and the ones before an undecodable key are gone when *)
(* the command answers with an error.                                      *)
DelCountsTwice(s, ks, bad) ==   \* a mutant: counts before it deletes
  \E ts \in Readings(Len(ks)) :
    /\ clock' = Latest(ts)
    /\ items' = [items EXCEPT ![s] =
                   [k \in Keys |-> IF k \in Range(ks) THEN Absent ELSE @[k]]]
    /\ Answer("DEL", ks,
              IF bad THEN Error
              ELSE Count(Cardinality({ i \in DOMAIN ks :
                           Found([k \in Keys |-> s], ks, ts, i) # Absent })))

Del(s, ks, bad) ==
  \E ts \in Readings(Len(ks)) :
    /\ clock' = Latest(ts)
    /\ items' = [items EXCEPT ![s] =
                   [k \in Keys |-> IF k \in Range(ks) THEN Absent ELSE @[k]]]
    /\ Answer("DEL", ks,
              IF bad THEN Error
              ELSE Count(Cardinality({ i \in DOMAIN ks :
                           /\ Found([k \in Keys |-> s], ks, ts, i) # Absent
                           /\ \A j \in 1..i-1 : ks[j] # ks[i] })))

(* Every key is purged, then the ones the pattern matches are listed.  The *)
(* keys are visited in the order of the dictionary, which is not modelled: *)
(* the instants at which they are visited are independent of each other.   *)
KeysCommand(home, P) ==
  \E at \in [Keys -> From(clock)] : \E t \in From(clock) :
    /\ \A k \in Keys : at[k] <= t
    /\ clock' = t
    /\ items' = [s \in Stores |-> [k \in Keys |->
                   IF home[k] = s THEN AliveAt(items[s][k], at[k]) ELSE items[s][k]]]
    /\ Answer("KEYS", <<>>,
              Names(P, { k \in P : AliveAt(items[home[k]][k], at[k]) # Absent }))

(* PING answers its argument, if it has one. *)
Ping(reply) == Answer("PING", <<>>, reply) /\ UNCHANGED <<items, clock>>

PingReplies == {Pong} \cup ({"raw"} \X Payloads)

(* A command that fails before it looks at the store: a wrong number of    *)
(* arguments, a key or a path that is not accepted, an unknown command.    *)
Commands == {"SET", "GET", "DEL", "EXISTS", "MGET", "KEYS", "DUMP", "LOAD",
             "JSON.SET", "JSON.GET", "unknown"}

Reject(op) == Answer(op, <<>>, Error) /\ UNCHANGED <<items, clock>>

Next ==
  \/ \E s \in Stores, k \in Keys :
       \/ Get(s, k) \/ JsonGet(s, k) \/ Dump(s, k)
       \/ \E v \in Payloads, ttl \in Ttls, cond \in Conditions, get \in BOOLEAN :
            Set(s, clock, k, v, ttl, cond, get)
       \/ \E v \in Payloads, cond \in Conditions : JsonSet(s, clock, k, v, cond)
       \/ \E b \in Blobs \cup {BadBlob}, cond \in Conditions : Load(s, k, b, cond)
  \/ \E s \in Stores :
       LET home == [k \in Keys |-> s]
       IN \/ \E ks \in KeySeqs, bad \in BOOLEAN :
               Exists(home, ks, bad) \/ Mget(home, ks, bad) \/ Del(s, ks, bad)
          \/ \E P \in Patterns : KeysCommand(home, P)
  \/ \E op \in Commands : Reject(op)
  \/ \E reply \in PingReplies : Ping(reply)

Spec == Init /\ [][Next]_vars

-----------------------------------------------------------------------------
(* Properties *)

Operations == Commands \cup {"", "PING", "SET GET"}

(* The stores hold well-formed items, the clock stays in range and replies *)
(* are of the kinds ResponseFrame has.                                     *)
TypeOK ==
  /\ items \in [Stores -> Dictionary]
  /\ clock \in Time
  /\ last \in [op : Operations, keys : Seq(Keys), reply : Replies]

Reads == {"GET", "JSON.GET", "DUMP"}

Writes == {"SET", "SET GET", "JSON.SET", "LOAD"}

(* The entry of a key is replaced only by a write to that key which        *)
(* succeeds, and removed only by DEL or once its deadline has passed: a    *)
(* command that answers with an error or whose NX or XX condition fails    *)
(* leaves every live entry, its deadline included, as it was.  DEL is the  *)
(* exception: it may have removed keys before it fails on a later one.     *)
OnlyOwnWrites ==
  [][ \A s \in Stores, k \in Keys :
        items'[s][k] # items[s][k] =>
          \/ items'[s][k] = Absent /\ Expired(items[s][k], clock')
          \/ items'[s][k] = Absent /\ last'.op = "DEL" /\ k \in Range(last'.keys)
          \/ /\ last'.op \in Writes /\ last'.keys = <<k>>
             /\ last'.reply = Ok \/ (last'.op = "SET GET" /\ last'.reply # Error) ]_vars
=============================================================================
