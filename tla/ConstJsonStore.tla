--------------------------- MODULE ConstJsonStore ---------------------------
(***************************************************************************)
(* ConstJsonStore of src/iox2redis/server.py: the store of the "const:"    *)
(* namespace, whose entries are written once and neither deleted nor       *)
(* given a deadline.  It overrides the writing handlers of JsonStore and   *)
(* inherits the reading ones.                                              *)
(***************************************************************************)
EXTENDS JsonStore

(* The key is not in the namespace: the store is not even looked at. *)
PrefixError(op, k) ==
  k \notin ConstKeys /\ Answer(op, <<k>>, Error) /\ UNCHANGED <<items, clock>>

(* An EX or PX option is refused before the other options are parsed. *)
ConstSet(s, k, v, ttl, cond, get) ==
  LET op == IF get THEN "SET GET" ELSE "SET"
  IN \/ PrefixError(op, k)
     \/ /\ k \in ConstKeys
        /\ \E t \in From(clock) :
             LET seen == Purge(items[s], k, t)
             IN \/ /\ seen[k] # Absent \/ ttl # NoDeadline
                   /\ clock' = t
                   /\ items' = [items EXCEPT ![s] = seen]
                   /\ Answer(op, <<k>>, Error)
                \/ /\ seen[k] = Absent /\ ttl = NoDeadline
                   /\ Set(s, t, k, v, ttl, cond, get)

ConstJsonSetBlindly(s, k, v, cond) ==   \* a mutant: key_exists is not asked
  k \in ConstKeys /\ JsonSet(s, clock, k, v, cond)

ConstJsonSet(s, k, v, cond) ==
  \/ PrefixError("JSON.SET", k)
  \/ /\ k \in ConstKeys
     /\ \E t \in From(clock) :
          LET seen == Purge(items[s], k, t)
          IN \/ /\ seen[k] # Absent
                /\ clock' = t
                /\ items' = [items EXCEPT ![s] = seen]
                /\ Answer("JSON.SET", <<k>>, Error)
             \/ seen[k] = Absent /\ JsonSet(s, t, k, v, cond)

(* Whether a payload decodes, and to an entry that never expires. *)
ConstLoadableAny(b, t) == b # BadBlob   \* a mutant: a deadline is let in

ConstLoadable(b, t) == b # BadBlob /\ DecodeDump(b, t).exp = NoDeadline

(* NX turns the error for a constant that exists into nil. *)
ConstLoad(s, k, b, cond) ==
  \/ PrefixError("LOAD", k)
  \/ /\ k \in ConstKeys
     /\ \E t1 \in From(clock) : \E t2 \in From(t1) :
          LET seen == Purge(items[s], k, t1)
              taken == seen[k] # Absent
              loads == ~Refused(cond) /\ ~taken /\ cond # "XX"
              valid == ConstLoadable(b, t2)
          IN /\ clock' = t2
             /\ \/ /\ \/ Refused(cond)
                      \/ taken /\ cond # "NX"
                      \/ loads /\ ~valid
                   /\ items' = [items EXCEPT ![s] = seen]
                   /\ Answer("LOAD", <<k>>, Error)
                \/ /\ (taken /\ cond = "NX") \/ (~taken /\ cond = "XX")
                   /\ items' = [items EXCEPT ![s] = seen]
                   /\ Answer("LOAD", <<k>>, Nil)
                \/ /\ loads /\ valid
                   /\ items' = [items EXCEPT ![s] = [seen EXCEPT ![k] = DecodeDump(b, t2)]]
                   /\ Answer("LOAD", <<k>>, Ok)

ConstDel(ks) == Answer("DEL", ks, Error) /\ UNCHANGED <<items, clock>>

ConstNext ==
  \/ \E s \in Stores, k \in Keys :
       \/ Get(s, k) \/ JsonGet(s, k) \/ Dump(s, k)
       \/ \E v \in Payloads, ttl \in Ttls, cond \in Conditions, get \in BOOLEAN :
            ConstSet(s, k, v, ttl, cond, get)
       \/ \E v \in Payloads, cond \in Conditions : ConstJsonSet(s, k, v, cond)
       \/ \E b \in Blobs \cup {BadBlob}, cond \in Conditions : ConstLoad(s, k, b, cond)
  \/ \E ks \in KeySeqs : ConstDel(ks)
  \/ \E s \in Stores :
       LET home == [k \in Keys |-> s]
       IN \/ \E ks \in KeySeqs, bad \in BOOLEAN : Exists(home, ks, bad) \/ Mget(home, ks, bad)
          \/ \E P \in Patterns : KeysCommand(home, P)
  \/ \E op \in Commands : Reject(op)
  \/ \E reply \in PingReplies : Ping(reply)

ConstSpec == Init /\ [][ConstNext]_vars

-----------------------------------------------------------------------------
(* Properties *)

ConstEntries(d) ==
  \A k \in Keys : d[k] # Absent => k \in ConstKeys /\ d[k].exp = NoDeadline

(* A constant store holds keys of its namespace only and none of them ever *)
(* expires, whichever of SET, JSON.SET and LOAD made the entry: one path   *)
(* that lets a deadline in would make a constant writable again.           *)
OnlyConstEntries == \A s \in Stores : ConstEntries(items[s])

(* An entry that a client has been told is stored never changes: an        *)
(* override that forgets to look for the key before it calls super() or    *)
(* decodes the payload would replace it.                                   *)
WriteOnce ==
  [][ \A s \in Stores, k \in Keys :
        items[s][k] # Absent => items'[s][k] = items[s][k] ]_vars
=============================================================================
