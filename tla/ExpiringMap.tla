----------------------------- MODULE ExpiringMap -----------------------------
(***************************************************************************)
(* What the server promises its clients: one map from keys to entries, in  *)
(* which an entry is gone the moment its deadline passes, a command either *)
(* succeeds or leaves the map as time leaves it, and a constant is written *)
(* at most once.  There are no stores, no purges and no routing here.      *)
(***************************************************************************)
EXTENDS StoredValues, FiniteSets, Functions

CONSTANT Constants   \* what the map holds at the start: a function on some keys

VARIABLES
  contents,   \* the live entries
  clock,      \* the time the last command ended
  last        \* that command: its name, its keys and its reply

mapvars == <<contents, clock, last>>

(* The entries that are still alive at t. *)
Aged(t) == [k \in Keys |-> AliveAt(contents[k], t)]

MapInit ==
  /\ contents = [k \in Keys |-> IF k \in DOMAIN Constants THEN Constants[k] ELSE Absent]
  /\ clock = 0
  /\ last = [op |-> "", keys |-> <<>>, reply |-> Nil]

(* Instants a command that ends at clock' may look at the map. *)
During == clock..clock'

Instants(n) == { ts \in [1..n -> During] : \A i, j \in 1..n : i <= j => ts[i] <= ts[j] }

Passes == clock' \in From(clock) /\ contents' = Aged(clock')

(* A read answers with what the map holds at some instant of the command. *)
Read(k, t) ==
  \/ last'.op = "GET" /\ last'.reply = GetReply(Aged(t)[k])
  \/ last'.op = "JSON.GET" /\ last'.reply = JsonGetReply(Aged(t)[k])
  \/ last'.op = "DUMP" /\ last'.reply = DumpReply(Aged(t)[k], clock')

ReadOne == Passes /\ \E k \in Keys, t \in During : last'.keys = <<k>> /\ Read(k, t)

ReadMany ==
  /\ last'.op \in {"EXISTS", "MGET"}
  /\ Passes
  /\ LET ks == last'.keys
     IN \E ts \in Instants(Len(ks)) :
          \/ /\ last'.op = "MGET"
             /\ last'.reply = Array([i \in DOMAIN ks |-> GetReply(Aged(ts[i])[ks[i]])])
          \/ /\ last'.op = "EXISTS"
             /\ last'.reply =
                  Count(Cardinality({ i \in DOMAIN ks : Aged(ts[i])[ks[i]] # Absent }))

(* KEYS lists every matching key that lives through the command, and none  *)
(* that was dead when it began.                                            *)
List ==
  /\ last'.op = "KEYS"
  /\ Passes
  /\ \E P, S \in SUBSET Keys :
       /\ last'.reply = Names(P, S)
       /\ { k \in P : contents'[k] # Absent } \subseteq S
       /\ S \subseteq { k \in P : Aged(clock)[k] # Absent }

(* A write puts one entry in place of what was there at some instant t; it *)
(* concerns one key, and a constant only if it is new and has no deadline. *)
Write ==
  /\ last'.op \in {"SET", "SET GET", "JSON.SET", "LOAD"}
  /\ clock' \in From(clock)
  /\ \E k \in Keys :
       /\ last'.keys = <<k>>
       /\ \E t \in During :
            last'.reply = IF last'.op = "SET GET" THEN OldReply(Aged(t)[k]) ELSE Ok
       /\ contents' = [Aged(clock') EXCEPT ![k] = contents'[k]]
       /\ contents'[k] \in Item \cup {Absent}
       /\ last'.op \in {"SET", "SET GET"} /\ contents'[k] # Absent => ~contents'[k].json
       /\ last'.op = "JSON.SET" => contents'[k] \in Item /\ contents'[k].json
                                     /\ contents'[k].exp = NoDeadline
       /\ k \in ConstKeys => /\ contents[k] = Absent
                             /\ contents'[k] # Absent /\ contents'[k].exp = NoDeadline

(* DEL removes all of its keys, constants excepted, and counts those that  *)
(* were there.                                                             *)
Remove ==
  /\ last'.op = "DEL"
  /\ clock' \in From(clock)
  /\ LET ks == last'.keys
     IN /\ Range(ks) \cap ConstKeys = {}
        /\ contents' = [k \in Keys |-> IF k \in Range(ks) THEN Absent ELSE Aged(clock')[k]]
        /\ \E n \in 0..Len(ks) :
             /\ last'.reply = Count(n)
             /\ n <= Cardinality({ k \in Range(ks) : Aged(clock)[k] # Absent })
             /\ n >= Cardinality({ k \in Range(ks) : Aged(clock')[k] # Absent })

(* A command that fails, or whose NX or XX condition does not hold.        *)
Fail ==
  /\ \/ last'.reply = Error
     \/ last'.reply = Nil /\ last'.op \in {"SET", "SET GET", "JSON.SET", "LOAD"}
  /\ Passes

Ping == last'.op = "PING" /\ UNCHANGED <<contents, clock>>

MapNext == ReadOne \/ ReadMany \/ List \/ Write \/ Remove \/ Fail \/ Ping

MapSpec == MapInit /\ [][MapNext]_mapvars
=============================================================================
