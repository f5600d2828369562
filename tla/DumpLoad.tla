------------------------------ MODULE DumpLoad ------------------------------
(***************************************************************************)
(* dump_all_keys, save_server_dump and load_server_dump of                 *)
(* examples/dump_load_all.py (and, but for how the file is written, of     *)
(* examples/server.py): a program dumps what a pattern matches, key by     *)
(* key, into a file, and loads the file into the same server or another    *)
(* one, while other clients are at work.  One save and one load are        *)
(* modelled; Persistence has what becomes of a file over many.             *)
(***************************************************************************)
EXTENDS JsonServer

CONSTANT MaxOthers   \* bound: commands of other clients

ASSUME DumpLoadAssumption == MaxOthers \in Nat /\ Absent \notin Blob

VARIABLES
  script,    \* the program: its step, its options and what it still has to do
  file,      \* the payloads in the dump file
  origin,    \* history: the entries of the server when the save began
  touched,   \* history: the keys that others have changed since then
  others     \* number of commands of other clients so far

dumpVars == <<vars, script, file, origin, touched, others>>

NoPayloads == [k \in Keys |-> Absent]

DumpInit ==
  /\ ServerInit
  /\ script = [step |-> "idle", asked |-> {}, cond |-> "none", todo |-> {}, dumped |-> NoPayloads]
  /\ file = NoPayloads /\ origin = NoPayloads /\ touched = {} /\ others = 0

-----------------------------------------------------------------------------
(* Saving *)

(* KEYS; without include_const the constants among its answers are skipped. *)
BeginDump(P, includeConst) ==
  /\ script.step = "idle"
  /\ RoutedKeys(P)
  /\ LET asked == IF includeConst THEN P ELSE P \ ConstKeys
     IN script' = [script EXCEPT !.step = "dumping", !.asked = asked,
                                 !.todo = asked \cap last'.reply[2][2]]
  /\ origin' = [k \in Keys |-> items'[Home[k]][k]]
  /\ touched' = {}
  /\ UNCHANGED <<file, others>>

DumpOneUnchecked(k) ==   \* a mutant: None is written as if it were a payload
  /\ script.step = "dumping" /\ k \in script.todo
  /\ Dump(Home[k], k)
  /\ script' = IF last'.reply = Error THEN [script EXCEPT !.step = "raised in save"]
               ELSE [script EXCEPT !.todo = @ \ {k},
                                   !.dumped[k] = IF last'.reply = Nil THEN BadBlob
                                                 ELSE last'.reply[2]]
  /\ UNCHANGED <<file, origin, touched, others>>

(* A key may be gone by now; one that cannot be dumped ends the save. *)
DumpOne(k) ==
  /\ script.step = "dumping" /\ k \in script.todo
  /\ Dump(Home[k], k)
  /\ script' = CASE last'.reply = Error -> [script EXCEPT !.step = "raised in save"]
                 [] last'.reply = Nil   -> [script EXCEPT !.todo = @ \ {k}]
                 [] OTHER -> [script EXCEPT !.todo = @ \ {k}, !.dumped[k] = last'.reply[2]]
  /\ UNCHANGED <<file, origin, touched, others>>

WriteFile ==
  /\ script.step = "dumping" /\ script.todo = {}
  /\ file' = script.dumped
  /\ script' = [script EXCEPT !.step = "saved", !.dumped = NoPayloads]
  /\ UNCHANGED <<vars, origin, touched, others>>

-----------------------------------------------------------------------------
(* Loading *)

(* Without load_const the constants in the file are skipped. *)
BeginLoad(cond, loadConst) ==
  /\ script.step = "saved"
  /\ LET asked == IF loadConst THEN script.asked ELSE script.asked \ ConstKeys
     IN script' = [script EXCEPT !.step = "loading", !.cond = cond, !.asked = asked,
                                 !.todo = { k \in asked : file[k] # Absent }]
  /\ UNCHANGED <<vars, file, origin, touched, others>>

LoadCommandXX(k) ==   \* a mutant: nx and xx are passed on in the wrong order
  \/ k \in ConstKeys /\ ConstLoad(Const, k, file[k], "NX")
  \/ /\ k \notin ConstKeys
     /\ Load(Plain, k, file[k], CASE script.cond = "NX" -> "XX"
                                  [] script.cond = "XX" -> "NX" [] OTHER -> script.cond)

(* Constants are created only, whatever the options are.  (With NX this    *)
(* server never gives the errors load_server_dump takes for an answer.)    *)
LoadCommand(k) ==
  \/ k \in ConstKeys /\ ConstLoad(Const, k, file[k], "NX")
  \/ k \notin ConstKeys /\ Load(Plain, k, file[k], script.cond)

(* One round of load_server_dump, in any order of the keys.  Sizes are not  *)
(* modelled: a payload that just fits a reply of DUMP and not a request of  *)
(* LOAD is refused by the client's transport.                               *)
LoadOne(k) ==
  /\ script.step = "loading" /\ k \in script.todo
  /\ LoadCommand(k)
  /\ script' = IF last'.reply = Error THEN [script EXCEPT !.step = "raised"]
               ELSE [script EXCEPT !.todo = @ \ {k}]
  /\ UNCHANGED <<file, origin, touched, others>>

Finish ==
  /\ script.step = "loading" /\ script.todo = {}
  /\ script' = [script EXCEPT !.step = "loaded"]
  /\ UNCHANGED <<vars, file, origin, touched, others>>

(* No answer comes in time: the command may have been carried out. *)
GiveUp ==
  /\ script.step \in {"dumping", "loading"}
  /\ \/ UNCHANGED vars
     \/ script.step = "loading" /\ \E k \in script.todo : LoadCommand(k)
  /\ script' = [script EXCEPT !.step = "timed out"]
  /\ UNCHANGED <<file, origin, touched, others>>

-----------------------------------------------------------------------------
(* Everybody else *)

(* Any client: of the ways to give a key another entry, one for each kind. *)
OtherClient(k) ==
  /\ others < MaxOthers
  /\ \/ RoutedDel(<<k>>, FALSE)
     \/ \E v \in Payloads, ttl \in Ttls :
          \/ Home[k] = Plain /\ Set(Plain, clock, k, v, ttl, "none", FALSE)
          \/ Home[k] = Const /\ ConstSet(Const, k, v, ttl, "none", FALSE)
     \/ \E v \in JsonTexts :
          \/ Home[k] = Plain /\ JsonSet(Plain, clock, k, v, "none")
          \/ Home[k] = Const /\ ConstJsonSet(Const, k, v, "none")
  /\ touched' = touched \cup {k} /\ others' = others + 1
  /\ UNCHANGED <<script, file, origin>>

(* The server is started again, or the file is taken to another one, with  *)
(* a description of its own.                                               *)
NewServer ==
  /\ \E doc \in JsonTexts :
       items' = [s \in Stores |-> [k \in Keys |->
                   IF s = Const /\ k = InfoKey THEN StoredValue(doc, NoDeadline, TRUE)
                   ELSE Absent]]
  /\ touched' = IF script.step = "saved" THEN touched ELSE Keys
  /\ UNCHANGED <<clock, last, script, file, origin, others>>

DumpNext ==
  \/ \E P \in Patterns, consts \in BOOLEAN : BeginDump(P, consts)
  \/ \E k \in Keys : DumpOne(k) \/ LoadOne(k) \/ OtherClient(k)
  \/ \E cond \in {"none", "NX", "XX", "NX and XX"}, consts \in BOOLEAN : BeginLoad(cond, consts)
  \/ WriteFile \/ Finish \/ GiveUp \/ NewServer

DumpSpec == DumpInit /\ [][DumpNext]_dumpVars

-----------------------------------------------------------------------------
(* Properties *)

(* Whatever a save has put into the file is loaded without an error by any *)
(* server, in whatever state it is, under any options that are not         *)
(* contradictory: constants that exist are passed over, a key that went    *)
(* away during the save is not in the file, and no constant has a deadline *)
(* in it.                                                                  *)
LoadSucceeds == script.step = "raised" => script.cond = "NX and XX"

(* A load brings back what the save found: each key nobody touched has the *)
(* value it had, is a document if it was one, expires if and only if it    *)
(* would have, and keys that were not there are not there now.  A payload  *)
(* carries whole milliseconds, so a deadline may come half a millisecond   *)
(* early, but an entry with less than that left must not become one that   *)
(* stays.  The new server's description of itself stays.                   *)
RestoresContents ==
  script.step = "loaded" /\ script.cond \in {"none", "NX"} =>
    \A k \in script.asked \ (touched \cup {InfoKey}) :
      LET was == origin[k]
          now == AliveAt(items[Home[k]][k], clock)
          Early(exp) == 2 * (was.exp - exp) <= TicksPerMs
      IN /\ was = Absent => now = Absent
         /\ was # Absent /\ now = Absent => HasDeadline(was) /\ Early(clock)
         /\ now # Absent =>
              /\ was # Absent /\ now.val = was.val /\ now.json = was.json
              /\ HasDeadline(now) <=> HasDeadline(was)
              /\ HasDeadline(was) => Early(now.exp)
=============================================================================
