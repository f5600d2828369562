----------------------------- MODULE JsonServer -----------------------------
(***************************************************************************)
(* The command router of Iox2JsonServer in src/iox2redis/server.py: a      *)
(* plain store and a constant store behind one set of commands.  The       *)
(* prefix of a key decides which store keeps it.                           *)
(***************************************************************************)
EXTENDS ConstJsonStore

CONSTANTS
  Plain,     \* self.store
  Const,     \* self.const_store
  InfoKey,   \* "const:server_info"
  InfoDoc    \* the document describing the server

ASSUME ServerAssumption ==
  /\ Stores = {Plain, Const} /\ Plain # Const
  /\ InfoKey \in ConstKeys /\ InfoDoc \in JsonTexts

InfoItem == StoredValue(InfoDoc, NoDeadline, TRUE)

(* The constructor puts the description of the server into a constant. *)
ServerInit ==
  /\ items = [s \in Stores |-> [k \in Keys |->
                IF s = Const /\ k = InfoKey THEN InfoItem ELSE Absent]]
  /\ clock = 0
  /\ last = [op |-> "", keys |-> <<>>, reply |-> Nil]

(* _store_for_key *)
Home == [k \in Keys |-> IF k \in ConstKeys THEN Const ELSE Plain]

RoutedDelUndecoded(ks, bad) ==   \* a mutant: keys are decoded one by one
  (\A k \in Range(ks) : k \notin ConstKeys) /\ Del(Plain, ks, bad)

RoutedDelEverywhere(ks, bad) ==   \* a mutant: each key's own store deletes it
  /\ clock' \in From(clock)
  /\ items' = [s \in Stores |-> [k \in Keys |->
                 IF k \in Range(ks) /\ Home[k] = s THEN Absent ELSE items[s][k]]]
  /\ Answer("DEL", ks, Count(Cardinality(Range(ks))))

(* All keys are decoded and looked at before any of them is deleted. *)
RoutedDel(ks, bad) ==
  \/ /\ bad \/ \E k \in Range(ks) : k \in ConstKeys
     /\ Answer("DEL", ks, Error)
     /\ UNCHANGED <<items, clock>>
  \/ /\ ~bad /\ \A k \in Range(ks) : k \notin ConstKeys
     /\ Del(Plain, ks, FALSE)

RoutedExists(ks, bad) == Exists(Home, ks, bad)

RoutedMget(ks, bad) == Mget(Home, ks, bad)

RoutedKeys(P) == KeysCommand(Home, P)

RoutedSet(k) ==
  \E v \in Payloads, ttl \in Ttls, cond \in Conditions, get \in BOOLEAN :
    \/ Home[k] = Const /\ ConstSet(Const, k, v, ttl, cond, get)
    \/ Home[k] = Plain /\ Set(Plain, clock, k, v, ttl, cond, get)

RoutedJsonSet(k) ==
  \E v \in Payloads, cond \in Conditions :
    \/ Home[k] = Const /\ ConstJsonSet(Const, k, v, cond)
    \/ Home[k] = Plain /\ JsonSet(Plain, clock, k, v, cond)

RoutedLoadPlain(k) ==   \* a mutant: LOAD is missing from the routed commands
  \E b \in Blobs \cup {BadBlob}, cond \in Conditions : Load(Plain, k, b, cond)

RoutedLoad(k) ==
  \E b \in Blobs \cup {BadBlob}, cond \in Conditions :
    \/ Home[k] = Const /\ ConstLoad(Const, k, b, cond)
    \/ Home[k] = Plain /\ Load(Plain, k, b, cond)

SingleKey(k) ==
  \/ Get(Home[k], k) \/ JsonGet(Home[k], k) \/ Dump(Home[k], k)
  \/ RoutedSet(k) \/ RoutedJsonSet(k) \/ RoutedLoad(k)

ManyKeys ==
  \/ \E ks \in KeySeqs, bad \in BOOLEAN :
       RoutedDel(ks, bad) \/ RoutedExists(ks, bad) \/ RoutedMget(ks, bad)
  \/ \E P \in Patterns : RoutedKeys(P)

ServerNext ==
  \/ \E k \in Keys : SingleKey(k)
  \/ ManyKeys
  \/ \E op \in Commands : Reject(op)
  \/ \E reply \in PingReplies : Ping(reply)

ServerSpec == ServerInit /\ [][ServerNext]_vars

-----------------------------------------------------------------------------
(* Properties *)

(* No key is ever kept by the store that the router does not send it to:   *)
(* otherwise KEYS and GET would disagree about it.  Nor does a constant    *)
(* ever get a deadline.                                                    *)
Partitioned ==
  /\ \A k \in ConstKeys : items[Plain][k] = Absent
  /\ ConstEntries(items[Const])

(* Whatever commands clients send, an entry of the constant namespace,     *)
(* the description of the server included, is never replaced or removed.   *)
ConstWriteOnce ==
  [][ \A k \in ConstKeys :
        items[Const][k] # Absent => items'[Const][k] = items[Const][k] ]_vars

(* What clients can see of the stores. *)
LiveContents(t) == [k \in Keys |-> AliveAt(items[Home[k]][k], t)]

(* A command answered with an error, or with nil because its condition     *)
(* does not hold or its key is missing, changes nothing a client can see,  *)
(* even when it names several keys and only one of them is at fault.  (SET *)
(* with GET answers nil when it stores the first value of a key.)          *)
NoEffectOnFailure ==
  [][ last'.reply = Error \/ (last'.reply = Nil /\ last'.op # "SET GET") =>
        LiveContents(clock)' = [k \in Keys |-> AliveAt(items[Home[k]][k], clock')] ]_vars

Eager == INSTANCE ExpiringMap WITH contents  <- LiveContents(clock),
                                   Constants <- [k \in {InfoKey} |-> InfoItem]

(* The two stores with their lazy expiry behave as one map in which an     *)
(* entry disappears when its deadline passes.                              *)
ImplementsExpiringMap == Eager!MapSpec
=============================================================================
