---------------------------- MODULE StoredValues ----------------------------
(***************************************************************************)
(* The data the stores of iox2redis keep and answer with: keys, stored     *)
(* values with their deadlines, DUMP payloads and replies.                 *)
(*                                                                         *)
(* A payload stands for the bytes of a command argument.  Only two facts   *)
(* about it matter to the stores: whether json.loads accepts it and        *)
(* whether it is UTF-8 at all.  A JSON item keeps the parsed document,     *)
(* identified here with the payload it was parsed from.                    *)
(*                                                                         *)
(* Time is counted in ticks, TicksPerMs of them in a millisecond, because  *)
(* time.monotonic is finer than the milliseconds a DUMP payload carries.   *)
(***************************************************************************)
EXTENDS Integers, Sequences

CONSTANTS
  Keys,         \* the keys clients use
  ConstKeys,    \* those that start with "const:"
  Payloads,     \* the values clients send
  JsonTexts,    \* the payloads json.loads accepts
  Binaries,     \* the payloads that are not UTF-8
  Durations,    \* the finite durations given to EX and PX, in ticks
  TicksPerMs,   \* clock ticks in one millisecond
  MaxClock,     \* the last instant modelled: a bound, not part of the code
  Absent,       \* no item under a key (dict.get returns None)
  NoDeadline,   \* expires_at is None, or no EX and PX option
  NotFinite     \* float("nan") and float("inf") as a duration or deadline

ASSUME KeysAssumption == ConstKeys \subseteq Keys
ASSUME PayloadsAssumption == JsonTexts \subseteq Payloads /\ Binaries \subseteq Payloads
ASSUME TimeAssumption ==
  Durations \subseteq Int /\ TicksPerMs \in Nat \ {0} /\ MaxClock \in Nat
ASSUME SentinelAssumption == NoDeadline \notin Int /\ NotFinite \notin Int /\ NoDeadline # NotFinite

Time == 0..MaxClock

(* Every instant the clock may show when it is read at or after t. *)
From(t) == t..MaxClock

-----------------------------------------------------------------------------
(* Stored items *)

Deadlines == Int \cup {NoDeadline, NotFinite}

(* A stored value: val, its deadline exp, and whether it is a document. *)
Item == { x \in [val : Payloads, exp : Deadlines, json : BOOLEAN] : x.json => x.val \in JsonTexts }

ASSUME AbsentAssumption == Absent \notin Item

StoredValue(v, exp, json) == [val |-> v, exp |-> exp, json |-> json]

(* What a store keeps: an item or nothing under every key. *)
Dictionary == [Keys -> Item \cup {Absent}]

(* The deadline of an item: a comparison with nan is false and inf is      *)
(* never reached, so an item whose deadline is not finite does not expire. *)
HasDeadline(x) == x # Absent /\ x.exp \notin {NoDeadline, NotFinite}

Expired(x, t) == HasDeadline(x) /\ x.exp <= t

(* What is left of an entry at t once it is purged if expired. *)
AliveAt(x, t) == IF Expired(x, t) THEN Absent ELSE x

(* expires_at computed from an EX or PX duration when the clock shows t. *)
DeadlineAfter(ttl, t) == IF ttl \in {NoDeadline, NotFinite} THEN ttl ELSE t + ttl

Ttls == Durations \cup {NoDeadline, NotFinite}

-----------------------------------------------------------------------------
(* DUMP payloads *)

(* Python's round() of d ticks to milliseconds: ties go to the even one. *)
RoundToMs(d) ==
  LET floor == d \div TicksPerMs
      twice == 2 * (d % TicksPerMs)
  IN IF twice < TicksPerMs \/ (twice = TicksPerMs /\ floor % 2 = 0) THEN floor ELSE floor + 1

TtlMs(exp, t) ==
  LET left == RoundToMs(exp - t) IN IF left < 0 THEN 0 ELSE left

(* A payload DUMP makes never has an infinite ttl; LOAD accepts one. *)
Blob == { b \in [val : Payloads, ttl : Nat \cup {NoDeadline, NotFinite}, json : BOOLEAN] :
            b.json => b.val \in JsonTexts }

(* round() raises on nan and inf, so such an item cannot be dumped. *)
Dumpable(x) == x.exp # NotFinite

EncodeDump(x, t) ==
  [val  |-> x.val,
   ttl  |-> IF x.exp = NoDeadline THEN NoDeadline ELSE TtlMs(x.exp, t),
   json |-> x.json]

(* A mutant: a time to live of zero is taken for none. *)
DecodeDumpTruthy(b, t) ==
  StoredValue(b.val,
              IF b.ttl \in {NoDeadline, NotFinite, 0} THEN NoDeadline ELSE t + b.ttl * TicksPerMs,
              b.json)

DecodeDump(b, t) ==
  StoredValue(b.val,
              IF b.ttl \in {NoDeadline, NotFinite} THEN b.ttl ELSE t + b.ttl * TicksPerMs,
              b.json)

-----------------------------------------------------------------------------
(* Replies: the kind of the ResponseFrame and what it carries.  The answer *)
(* of KEYS is recorded with the set of keys its pattern matches.           *)

Ok == <<"ok", "">>
Nil == <<"nil", "">>
Error == <<"error", "">>
Pong == <<"pong", "">>
Count(n) == <<"count", n>>
Array(xs) == <<"array", xs>>
Names(P, S) == <<"keys", <<P, S>>>>

(* json.loads of what JSON.SET is given. *)
ParsesAnything(v) == TRUE   \* a mutant: the text is stored unchecked

Parses(v) == v \in JsonTexts

(* What GET and MGET return for an item: the text of a document. *)
ValueOf(x) == IF x.json THEN <<"json text", x.val>> ELSE <<"raw", x.val>>

GetReply(x) == IF x = Absent THEN Nil ELSE ValueOf(x)

(* JSON.GET returns a plain value as text, and raises if it is not UTF-8. *)
JsonGetReply(x) ==
  IF x # Absent /\ ~x.json /\ x.val \in Binaries THEN Error ELSE GetReply(x)

(* SET ... GET returns the stored object: the document, not its text. *)
OldReply(x) ==
  IF x = Absent THEN Nil ELSE IF x.json THEN <<"document", x.val>> ELSE <<"raw", x.val>>

DumpReply(x, t) ==
  IF x = Absent THEN Nil ELSE IF Dumpable(x) THEN <<"dump", EncodeDump(x, t)>> ELSE Error

Values == {Nil} \cup ({"raw", "json text"} \X Payloads)

Replies ==
  {Ok, Error, Pong} \cup Values \cup ({"document"} \X Payloads) \cup ({"count"} \X Nat)
    \cup ({"array"} \X Seq(Values)) \cup ({"keys"} \X ((SUBSET Keys) \X (SUBSET Keys)))
    \cup ({"dump"} \X Blob)

-----------------------------------------------------------------------------
(* The NX and XX options of SET, JSON.SET and LOAD. *)

Conditions == {"none", "NX", "XX", "NX and XX", "unsupported"}

(* Answered by an error: the options exclude each other or do not parse. *)
Refused(cond) == cond \in {"NX and XX", "unsupported"}

(* Answered by nil: the condition does not hold of the old item. *)
Blocked(cond, old) == (cond = "NX" /\ old # Absent) \/ (cond = "XX" /\ old = Absent)

Allowed(cond, old) == ~Refused(cond) /\ ~Blocked(cond, old)
=============================================================================
