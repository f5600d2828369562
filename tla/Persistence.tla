---------------------------- MODULE Persistence ----------------------------
(***************************************************************************)
(* The persistence wrapper of examples/server.py: a parent process starts  *)
(* a server as its child, loads the store file into it, saves the store    *)
(* now and then, and once more before it stops the child.  All of that are *)
(* ordinary requests, interleaved with those of other clients.             *)
(*                                                                         *)
(* The contents of a key are the number of the write that put them there.  *)
(* An entry that expires or is deleted is gone either way: Absent.         *)
(***************************************************************************)
EXTENDS Naturals, FiniteSets

CONSTANTS
  PlainKeys, ConstKeys,   \* keys outside and inside the namespace "const:"
  InfoKey,                \* the constant every new server holds
  Absent, Broken,         \* no such key; what of the file cannot be read
  OptionSets,             \* the command lines the wrapper is started with
  MaxWrites,              \* bound: writes of clients
  MaxStarts               \* bound: how often the wrapper is started

Keys  == PlainKeys \cup ConstKeys

(* Which keys of the file are loaded (none with --persist-no-load, no      *)
(* constants with --no-persist-load-const), which keys are saved           *)
(* (--persist-pattern, --persist-skip-const), and whether there is a       *)
(* shutdown dump at all (none with --persist-no-dump).                     *)
Options == [load : {{}, PlainKeys, Keys}, save : SUBSET Keys, dump : BOOLEAN]

ASSUME PersistenceAssumption ==
  /\ OptionSets \subseteq Options /\ OptionSets # {}
  /\ InfoKey \in ConstKeys /\ PlainKeys \cap ConstKeys = {}
  /\ MaxWrites \in Nat /\ MaxStarts \in Nat \ {0}
  /\ Absent \notin Nat /\ Broken \notin Nat \cup {Absent}

Empty      == [k \in Keys |-> Absent]
Unreadable == [k \in Keys |-> Broken]   \* cut short, or not written at all

VARIABLES
  options,   \* those of the wrapper that runs
  file,      \* the store file as processes see it; Empty if there is none
  onDisk,    \* what it may be after a power failure
  store,     \* what the child holds
  child,     \* "booting", "serving", "closing", "killed" or "dead"
  parent,    \* where run_persistent_server is
  stop,      \* stop_requested
  exitCode,
  todo,      \* keys still to be loaded or dumped
  dumped,    \* the payloads dump_all_keys has collected
  writes,    \* number of writes so far
  starts,    \* number of starts so far
  touched,   \* history: keys clients wrote or removed since the child began
  seen,      \* history: per key, what it held since the last KEYS
  failed     \* history: the file could not be loaded completely

vars == <<options, file, onDisk, store, child, parent, stop, exitCode, todo, dumped, writes, starts,
          touched, seen, failed>>
(* What the functions of a save and a load hold is gone when they return.  *)
Forget  == todo' = {} /\ dumped' = Empty /\ UNCHANGED seen

saving  == <<todo, dumped, seen>>
setting == <<options, onDisk>>

(* A new server holds nothing but its own description.                     *)
NewStore(n) == [Empty EXCEPT ![InfoKey] = n]

Init ==
  /\ options \in OptionSets
  /\ file = Empty /\ onDisk = {Empty} /\ store = NewStore(0) /\ child = "booting" /\ parent = "waiting"
  /\ stop = FALSE /\ exitCode = 0 /\ todo = {} /\ dumped = Empty
  /\ writes = 0 /\ starts = 1 /\ touched = {} /\ failed = FALSE
  /\ seen = [k \in Keys |-> {}]

-----------------------------------------------------------------------------
(* The child, and the clients that use it *)

Boot ==   \* the server is open and has installed its signal handlers
  /\ child = "booting" /\ child' = "serving"
  /\ UNCHANGED <<setting, file, store, parent, stop, exitCode, saving, writes, starts, touched, failed>>

Becomes(k, v) ==
  /\ store' = [store EXCEPT ![k] = v]
  /\ seen' = [seen EXCEPT ![k] = @ \cup {v}]

Write(k) ==
  /\ child = "serving" /\ writes < MaxWrites
  /\ k \in ConstKeys => store[k] = Absent
  /\ writes' = writes + 1 /\ Becomes(k, MaxStarts + writes + 1)
  /\ touched' = touched \cup {k}
  /\ UNCHANGED <<setting, file, child, parent, stop, exitCode, todo, dumped, starts, failed>>

Remove(k) ==
  /\ child = "serving" /\ k \in PlainKeys /\ store[k] # Absent
  /\ Becomes(k, Absent) /\ touched' = touched \cup {k}
  /\ UNCHANGED <<setting, file, child, parent, stop, exitCode, todo, dumped, writes, starts, failed>>

ChildDies ==   \* it is closed, fails to start or is killed
  /\ child # "dead" /\ child' = "dead"
  /\ UNCHANGED <<setting, file, store, parent, stop, exitCode, saving, writes, starts, touched, failed>>

-----------------------------------------------------------------------------
(* The parent *)

Proceed(p) == parent' = p
Fail       == exitCode' = 1

(* _wait_for_server: a PING is answered, or no one answers until the       *)
(* timeout.  Without a client there is nothing to dump in the end.         *)
Connect ==
  /\ parent = "waiting" /\ child = "serving"
  /\ Proceed("loading") /\ todo' = {k \in options.load : file[k] # Absent}
  /\ UNCHANGED <<setting, file, store, child, stop, exitCode, dumped, writes, starts, touched, seen, failed>>

ConnectFails ==
  /\ parent = "waiting" /\ Proceed("stopping") /\ Fail
  /\ UNCHANGED <<setting, file, store, child, stop, saving, writes, starts, touched, failed>>

(* Constants are only created, other keys are overwritten.                 *)
Restore(k) ==
  \/ (k \in PlainKeys \/ store[k] = Absent) /\ Becomes(k, file[k])
  \/ k \in ConstKeys /\ store[k] # Absent /\ UNCHANGED <<store, seen>>

LoadConstOnly(k) ==   \* a mutant: the wrong keys are skipped
  /\ parent = "loading" /\ child = "serving" /\ k \in todo /\ file # Unreadable
  /\ \/ k \in ConstKeys /\ store[k] = Absent /\ Becomes(k, file[k])
     \/ (k \in PlainKeys \/ store[k] # Absent) /\ UNCHANGED <<store, seen>>
  /\ todo' = todo \ {k}
  /\ UNCHANGED <<setting, file, child, parent, stop, exitCode, dumped, writes, starts, touched, failed>>

(* One LOAD of load_server_dump.                                           *)
LoadKey(k) ==
  /\ parent = "loading" /\ child = "serving" /\ k \in todo /\ file # Unreadable
  /\ Restore(k)
  /\ todo' = todo \ {k}
  /\ UNCHANGED <<setting, file, child, parent, stop, exitCode, dumped, writes, starts, touched, failed>>

LoadFailureIgnored ==   \* a mutant: the rest of the file is skipped
  /\ parent = "loading" /\ Proceed("watching")
  /\ UNCHANGED <<setting, file, store, child, stop, exitCode, saving, writes, starts, touched, failed>>

(* The file cannot be read or has another format, or a LOAD is not         *)
(* answered in time, whether it was carried out or not.                    *)
LoadFails ==
  /\ parent = "loading" /\ options.load # {} /\ Proceed("final") /\ Fail
  /\ \/ UNCHANGED <<store, seen>>
     \/ child = "serving" /\ file # Unreadable /\ \E k \in todo : Restore(k)
  /\ failed' = TRUE /\ todo' = {}
  /\ UNCHANGED <<setting, file, child, stop, dumped, writes, starts, touched>>

Loaded ==
  /\ parent = "loading" /\ todo = {} /\ Proceed("watching")
  /\ UNCHANGED <<setting, file, store, child, stop, exitCode, saving, writes, starts, touched, failed>>

(* KEYS: dump_all_keys begins.  Constants may be skipped.                  *)
BeginSave(next) ==
  /\ child = "serving" /\ Proceed(next)
  /\ todo' = {k \in options.save : store[k] # Absent} /\ dumped' = Empty
  /\ seen' = [k \in Keys |-> {store[k]}]
  /\ UNCHANGED <<setting, file, store, child, stop, exitCode, writes, starts, touched, failed>>

PeriodicSave == parent = "joining" /\ BeginSave("saving")
ShutdownSave == parent = "final" /\ options.dump /\ BeginSave("finalSaving")

NoDump ==   \* --persist-no-dump
  /\ parent = "final" /\ ~options.dump /\ Proceed("stopping")
  /\ UNCHANGED <<setting, file, store, child, stop, exitCode, saving, writes, starts, touched, failed>>

Saving == parent \in {"saving", "finalSaving"}

DumpKeyOfFile(k) ==   \* a mutant: a payload that was saved before is reused
  /\ Saving /\ child = "serving" /\ k \in todo
  /\ dumped' = [dumped EXCEPT ![k] = IF file[k] # Absent THEN file[k] ELSE store[k]]
  /\ todo' = todo \ {k}
  /\ UNCHANGED <<setting, file, store, child, parent, stop, exitCode, writes, starts, touched, seen, failed>>

(* One DUMP; the key may be gone by now.                                   *)
DumpKey(k) ==
  /\ Saving /\ child = "serving" /\ k \in todo
  /\ dumped' = [dumped EXCEPT ![k] = store[k]]
  /\ todo' = todo \ {k}
  /\ UNCHANGED <<setting, file, store, child, parent, stop, exitCode, writes, starts, touched, seen, failed>>

(* The temporary file replaces the store file at once for every process.   *)
(* Neither its data nor its name is flushed: until the system does that,   *)
(* a power failure may leave an older file, the new one, or one without    *)
(* its data.                                                               *)
ReplaceFile ==
  /\ Saving /\ todo = {}
  /\ file' = dumped /\ onDisk' = onDisk \cup {dumped, Unreadable}
  /\ Proceed(IF parent = "saving" THEN "watching" ELSE "stopping") /\ Forget
  /\ UNCHANGED <<options, store, child, stop, exitCode, writes, starts, touched, failed>>

SaveFailureIgnored ==   \* a mutant: the exit code does not tell
  /\ parent = "joining" \/ (parent = "final" /\ options.dump) \/ Saving
  /\ Proceed(IF parent \in {"joining", "saving"} THEN "final" ELSE "stopping") /\ Forget
  /\ UNCHANGED <<setting, file, store, child, stop, exitCode, writes, starts, touched, failed>>

Flush ==   \* the system has written what it had to
  /\ onDisk # {file} /\ onDisk' = {file}
  /\ UNCHANGED <<options, file, store, child, parent, stop, exitCode, saving, writes, starts, touched, failed>>

(* A request of a save is not answered or answered with an error, or the   *)
(* file cannot be written: the wrapper ends, with a last try to save.      *)
SaveFails ==
  /\ parent = "joining" \/ (parent = "final" /\ options.dump) \/ Saving
  /\ Proceed(IF parent \in {"joining", "saving"} THEN "final" ELSE "stopping")
  /\ Forget /\ Fail
  /\ UNCHANGED <<setting, file, store, child, stop, writes, starts, touched, failed>>

(* A round of the loop: child.join() takes 0.25 s, and a save may be due.  *)
Join ==
  /\ parent = "watching" /\ ~stop /\ child # "dead" /\ Proceed("joining")
  /\ UNCHANGED <<setting, file, store, child, stop, exitCode, saving, writes, starts, touched, failed>>

NothingDue ==
  /\ parent = "joining" /\ Proceed("watching")
  /\ UNCHANGED <<setting, file, store, child, stop, exitCode, saving, writes, starts, touched, failed>>

StopWithChild ==   \* a mutant: only the end of the child is looked for
  /\ parent = "watching" /\ child = "dead"
  /\ Proceed("final")
  /\ exitCode' \in {0, 1}
  /\ UNCHANGED <<setting, file, store, child, stop, saving, writes, starts, touched, failed>>

(* The loop ends; the exit code of a child that is dead is passed on.      *)
StopWatching ==
  /\ parent = "watching" /\ (stop \/ child = "dead")
  /\ Proceed("final")
  /\ exitCode' \in IF child = "dead" THEN {0, 1} ELSE {0}
  /\ UNCHANGED <<setting, file, store, child, stop, saving, writes, starts, touched, failed>>

(* is_alive() and terminate().  A child that is still starting has the     *)
(* parent's handler, which only takes note of the signal, or the default,  *)
(* which ends it; a server that has its own closes, or hangs.              *)
TerminateChild ==
  /\ parent = "stopping"
  /\ IF child = "dead" THEN Proceed("ending") ELSE Proceed("terminating")
  /\ child' \in CASE child = "booting" -> {"booting", "closing", "dead"}
                   [] child = "serving" -> {"closing"}
                   [] OTHER -> {child}
  /\ UNCHANGED <<setting, file, store, stop, exitCode, saving, writes, starts, touched, failed>>

TrustTerminate ==   \* a mutant: nobody looks whether the signal was of use
  /\ parent = "terminating" /\ Proceed("ending")
  /\ UNCHANGED <<setting, file, store, child, stop, exitCode, saving, writes, starts, touched, failed>>

(* After join(2.0): kill() if that has not helped, join(2.0), and return.  *)
KillChild ==
  /\ parent = "terminating" /\ Proceed("ending")
  /\ child' = IF child = "dead" THEN "dead" ELSE "killed"
  /\ UNCHANGED <<setting, file, store, stop, exitCode, saving, writes, starts, touched, failed>>

(* The interpreter joins its children before it ends.                      *)
Exit ==
  /\ parent = "ending" /\ child = "dead" /\ Proceed("done")
  /\ UNCHANGED <<setting, file, store, child, stop, exitCode, saving, writes, starts, touched, failed>>

-----------------------------------------------------------------------------
(* Signals, power failures and new starts *)

Running == parent \notin {"done", "killed"}

Terminate ==   \* SIGTERM is sent to the parent
  /\ Running /\ ~stop /\ stop' = TRUE
  /\ UNCHANGED <<setting, file, store, child, parent, exitCode, saving, writes, starts, touched, failed>>

(* SIGINT goes to both processes.  The child ignores it at first, but      *)
(* server_main() has its own handler for it.                               *)
CtrlC ==
  /\ Running /\ (stop => child = "serving") /\ stop' = TRUE
  /\ child' = IF child = "serving" THEN "closing" ELSE child
  /\ UNCHANGED <<setting, file, store, parent, exitCode, saving, writes, starts, touched, failed>>

ParentKilled ==   \* SIGKILL: the child is left as it is
  /\ Running /\ parent' = "killed" /\ exitCode' = 1 /\ Forget
  /\ UNCHANGED <<setting, file, store, child, stop, writes, starts, touched, failed>>

PowerOff ==
  /\ child = "dead" /\ onDisk = {file} => Running
  /\ parent' = "killed" /\ child' = "dead" /\ exitCode' = 1
  /\ file' \in onDisk /\ onDisk' = {file'} /\ store' = Empty /\ Forget
  /\ UNCHANGED <<options, stop, writes, starts, touched, failed>>

StartAgain ==   \* when nothing is left of the wrapper before
  /\ ~Running /\ child = "dead" /\ starts < MaxStarts
  /\ options' \in OptionSets
  /\ starts' = starts + 1 /\ store' = NewStore(starts)
  /\ child' = "booting" /\ parent' = "waiting" /\ stop' = FALSE /\ exitCode' = 0
  /\ todo' = {} /\ dumped' = Empty /\ touched' = {} /\ failed' = FALSE
  /\ seen' = [k \in Keys |-> {}]
  /\ UNCHANGED <<file, onDisk, writes>>

Parent ==
  \/ Connect \/ ConnectFails \/ (\E k \in Keys : LoadKey(k)) \/ LoadFails \/ Loaded
  \/ ShutdownSave \/ NoDump \/ (\E k \in Keys : DumpKey(k)) \/ ReplaceFile
  \/ SaveFails \/ Join \/ PeriodicSave \/ NothingDue \/ StopWatching
  \/ TerminateChild \/ KillChild \/ Exit

Next ==
  \/ Parent \/ Boot \/ ChildDies
  \/ \E k \in Keys : Write(k) \/ Remove(k)
  \/ Terminate \/ CtrlC \/ ParentKilled \/ PowerOff \/ Flush \/ StartAgain

(* The parent goes on: its requests are answered or time out.  A process   *)
(* that was killed dies.                                                   *)
Spec ==
  /\ Init /\ [][Next]_vars
  /\ WF_vars(Parent) /\ WF_vars(child = "killed" /\ ChildDies)

-----------------------------------------------------------------------------
(* Properties *)

Contents == Nat \cup {Absent}
Files    == [Keys -> Contents] \cup {Unreadable}

TypeOK ==
  /\ options \in Options
  /\ file \in Files /\ onDisk \subseteq Files
  /\ store \in [Keys -> Contents] /\ dumped \in [Keys -> Contents]
  /\ child \in {"booting", "serving", "closing", "killed", "dead"}
  /\ parent \in {"waiting", "loading", "watching", "joining", "saving", "final", "finalSaving",
                 "stopping", "terminating", "ending", "done", "killed"}
  /\ stop \in BOOLEAN /\ exitCode \in {0, 1} /\ failed \in BOOLEAN
  /\ todo \subseteq Keys /\ touched \subseteq Keys
  /\ writes \in 0 .. MaxWrites /\ starts \in 1 .. MaxStarts
  /\ seen \in [Keys -> SUBSET Contents]

(* What a save leaves in the file is, key by key, something the store held *)
(* while the save was going on: clients may write between KEYS and DUMP,   *)
(* but nothing older is saved, no key the options ask for that was there   *)
(* all the time is left out, and no other key gets in.  Nothing but a save *)
(* changes the file, and a power failure.                                  *)
SavesWhatWasLive ==
  [][ file' # file /\ parent' # "killed" =>
        \A k \in Keys : file'[k] \in IF k \in options.save THEN seen[k] ELSE {Absent} ]_vars

(* When run_persistent_server returns, the child is dead or killed, also   *)
(* one that was still starting and had no use for SIGTERM, or hangs; and   *)
(* it is dead when the wrapper ends.  (A wrapper that is killed itself     *)
(* leaves its child behind.)                                               *)
NoOrphan ==
  /\ parent = "ending" => child \in {"killed", "dead"}
  /\ parent = "done" => child = "dead"

(* If a wrapper that dumps on shutdown reports success, whatever clients   *)
(* had stored under the keys to save when it began to shut down is in the  *)
(* file, or was changed later.                                             *)
ExitZeroMeansSaved ==
  parent = "done" /\ exitCode = 0 /\ options.dump =>
    \A k \in options.save : file[k] \in seen[k]

(* The keys the wrapper both loads and saves.                              *)
Kept == PlainKeys \cap options.load \cap options.save

(* Once the wrapper has started up, the store has what the file had when   *)
(* the wrapper before ended, however it ended, except where clients have   *)
(* been at work.                                                           *)
RestoredAfterRestart ==
  parent \in {"watching", "joining"} => \A k \in Kept \ touched : store[k] = file[k]

(* What was saved stays in the file until a client changes the key, over   *)
(* restarts, crashes and failing saves.  There are three exceptions: after *)
(* a load that failed the shutdown save puts a part of the store in its    *)
(* place; a wrapper told not to load the key, or not to save it, writes    *)
(* a file without it; and a power failure may undo or destroy a save that  *)
(* the system has not yet written to the disk.                             *)
SavedSurvives ==
  [][ \A k \in PlainKeys : file[k] \in Nat /\ file'[k] # file[k] =>
        \/ k \in touched \/ failed \/ k \notin Kept
        \/ parent' = "killed" /\ onDisk # {file} ]_vars

(* A wrapper that is asked to stop ends, even if its child hangs.          *)
StopEnds == stop ~> ~Running

=============================================================================
