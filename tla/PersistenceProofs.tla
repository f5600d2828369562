------------------------- MODULE PersistenceProofs -------------------------
(***************************************************************************)
(* Proofs about the persistence wrapper: what a save leaves in the file    *)
(* was in the store meanwhile, what was saved survives restarts, crashes   *)
(* and failing saves, a success is only reported after a save, and a       *)
(* wrapper that ends by itself leaves no child behind.                     *)
(*                                                                         *)
(* The invariant follows two things through the wrapper's phases: what a   *)
(* save has collected, key by key, and a key no client has touched since   *)
(* the child began, whose contents in the store are those in the file from *)
(* the moment it is loaded.                                                *)
(***************************************************************************)
EXTENDS Persistence, TLAPS

(* What a save has collected so far was in the store since KEYS.          *)
Collected ==
  Saving => \A k \in Keys :
    /\ store[k] \in seen[k]
    /\ k \in options.save /\ k \notin todo => dumped[k] \in seen[k]
    /\ k \notin options.save => k \notin todo /\ dumped[k] = Absent

(* A key that no client has written or removed since the child began.     *)
LeftAlone(k) ==
  /\ parent = "waiting" => store[k] = Absent
  /\ parent = "loading" /\ k \in options.load /\ k \notin todo => store[k] = file[k]
  /\ parent \in {"watching", "joining", "saving"} /\ k \in Kept => store[k] = file[k]
  /\ parent \in {"final", "finalSaving"} /\ ~failed /\ k \in Kept => store[k] = file[k]
  /\ Saving => seen[k] = {store[k]}

(* Once the wrapper has nothing left to save.                             *)
Reported ==
  parent \in {"stopping", "terminating", "ending", "done"} /\ exitCode = 0 /\ options.dump =>
    \A k \in options.save : file[k] \in seen[k]

PersistenceInv ==
  /\ TypeOK
  /\ NoOrphan
  /\ Collected
  /\ \A k \in PlainKeys \ touched : LeftAlone(k)
  /\ Reported
-----------------------------------------------------------------------------
(* The contents of keys. *)

LEMMA KeyFacts ==
  /\ InfoKey \in Keys /\ InfoKey \notin PlainKeys
  /\ PlainKeys \subseteq Keys /\ ConstKeys \subseteq Keys
  /\ Empty \in [Keys -> Contents] /\ \A k \in Keys : Empty[k] = Absent
  /\ Empty \in Files
  /\ OptionSets \subseteq Options
  /\ \A o \in Options : o.load \subseteq Keys /\ o.save \subseteq Keys
<1>1. PlainKeys \subseteq Keys /\ ConstKeys \subseteq Keys
  BY DEF Keys
<1>2. \A o \in Options : o.load \subseteq Keys /\ o.save \subseteq Keys
  BY <1>1 DEF Options
<1> QED BY <1>1, <1>2, PersistenceAssumption DEF Empty, Contents, Files

LEMMA KeptFacts ==
  ASSUME TypeOK, NEW k \in Kept
  PROVE  k \in PlainKeys /\ k \in Keys /\ k \in options.load /\ k \in options.save
BY KeyFacts DEF Kept

LEMMA NewStoreFacts ==
  ASSUME NEW n \in Nat
  PROVE  /\ NewStore(n) \in [Keys -> Contents]
         /\ \A k \in PlainKeys : NewStore(n)[k] = Absent
BY KeyFacts DEF NewStore, Contents

LEMMA BecomesFacts ==
  ASSUME TypeOK, NEW k \in Keys, NEW v \in Contents, Becomes(k, v)
  PROVE  /\ store' \in [Keys -> Contents] /\ seen' \in [Keys -> SUBSET Contents]
         /\ store'[k] = v /\ seen'[k] = seen[k] \cup {v}
         /\ \A l \in Keys \ {k} : store'[l] = store[l] /\ seen'[l] = seen[l]
BY DEF TypeOK, Becomes

-----------------------------------------------------------------------------
(* Init, and each action, one conjunct of the invariant after the other. *)

LEMMA PersistenceInit == Init => PersistenceInv
<1> SUFFICES ASSUME Init PROVE PersistenceInv
  OBVIOUS
<1>1. TypeOK
  <2>1. file \in Files /\ onDisk \subseteq Files /\ dumped \in [Keys -> Contents] /\ options \in Options
    BY KeyFacts DEF Init
  <2>2. store \in [Keys -> Contents]
    BY NewStoreFacts DEF Init
  <2>3. writes \in 0 .. MaxWrites /\ starts \in 1 .. MaxStarts
    BY PersistenceAssumption DEF Init
  <2>4. seen \in [Keys -> SUBSET Contents]
    BY DEF Init
  <2> QED BY <2>1, <2>2, <2>3, <2>4 DEF Init, TypeOK
<1>2. NoOrphan /\ Collected /\ Reported
  BY DEF Init, NoOrphan, Collected, Saving, Reported
<1>3. ASSUME NEW k \in PlainKeys PROVE LeftAlone(k)
  BY NewStoreFacts DEF Init, LeftAlone, Saving
<1> QED BY <1>1, <1>2, <1>3 DEF PersistenceInv

(* A client changes a key, whatever the wrapper is doing meanwhile.       *)
LEMMA ClientsKeep ==
  ASSUME PersistenceInv, NEW k \in Keys, Write(k) \/ Remove(k)
  PROVE  PersistenceInv'
<1> USE DEF PersistenceInv
<1>1. PICK v \in Contents : Becomes(k, v)
  <2>1. MaxStarts + writes + 1 \in Contents /\ Absent \in Contents
    BY PersistenceAssumption DEF TypeOK, Contents
  <2> QED BY <2>1 DEF Write, Remove
<1>2. touched' = touched \cup {k} /\ UNCHANGED <<options, file, onDisk, child, parent, stop, exitCode, todo, dumped, starts, failed>>
  BY DEF Write, Remove, setting
<1>3. /\ store' \in [Keys -> Contents] /\ seen' \in [Keys -> SUBSET Contents]
      /\ store'[k] = v /\ seen'[k] = seen[k] \cup {v}
      /\ \A l \in Keys \ {k} : store'[l] = store[l] /\ seen'[l] = seen[l]
  BY <1>1, BecomesFacts
<1>4. writes' \in 0 .. MaxWrites
  BY PersistenceAssumption DEF TypeOK, Write, Remove
<1>5. TypeOK'
  BY <1>2, <1>3, <1>4 DEF TypeOK
<1>6. NoOrphan'
  BY <1>2 DEF NoOrphan
<1>7. \A l \in Keys : seen[l] \subseteq seen'[l]
  BY <1>3
<1>8. Collected'
  BY <1>2, <1>3, <1>7 DEF Collected, Saving
<1>9. (\A l \in PlainKeys \ touched : LeftAlone(l))'
  <2> SUFFICES ASSUME NEW l \in PlainKeys, l \notin touched' PROVE LeftAlone(l)'
    BY DEF LeftAlone
  <2>1. l \in Keys \ {k} /\ LeftAlone(l)
    BY <1>2, KeyFacts
  <2> QED BY <2>1, <1>2, <1>3 DEF LeftAlone, Saving, Kept
<1>10. Reported'
  BY <1>2, <1>7, KeyFacts DEF Reported, TypeOK
<1> QED BY <1>5, <1>6, <1>8, <1>9, <1>10

(* A step that moves the wrapper or the child and leaves keys alone.      *)
LEMMA PhasesKeep ==
  ASSUME PersistenceInv, TypeOK',
         UNCHANGED <<options, file, store, seen, touched, failed>>,
         \/ UNCHANGED <<parent, exitCode, todo, dumped>>
         \/ parent' = "stopping" /\ exitCode' = 1
         \/ parent' = "stopping" /\ ~options.dump
         \/ parent = "loading" /\ todo = {} /\ parent' = "watching"
         \/ parent \in {"watching", "joining", "saving"} /\ parent' \in {"watching", "joining", "final"}
         \/ /\ parent \in {"stopping", "terminating", "ending"} /\ exitCode' = exitCode
            /\ parent' \in {"terminating", "ending", "done"}
         \/ parent' = "killed",
         NoOrphan'
  PROVE  PersistenceInv'
<1> USE DEF PersistenceInv
<1>1. Collected'
  BY DEF Collected, Saving
<1>2. ASSUME NEW l \in PlainKeys, l \notin touched' PROVE LeftAlone(l)'
  BY <1>2, KeptFacts DEF LeftAlone, Saving, Kept
<1>3. (\A l \in PlainKeys \ touched : LeftAlone(l))'
  BY <1>2 DEF LeftAlone
<1>4. Reported'
  BY DEF Reported
<1> QED BY <1>1, <1>3, <1>4

LEMMA ChildKeeps ==
  ASSUME PersistenceInv, Boot \/ ChildDies \/ Terminate \/ CtrlC \/ Flush
  PROVE  PersistenceInv'
<1>1. UNCHANGED <<options, file, store, todo, dumped, seen, touched, failed, parent, exitCode>>
  BY DEF Boot, ChildDies, Terminate, CtrlC, Flush, saving, setting
<1>2. /\ child' \in {"booting", "serving", "closing", "killed", "dead"}
      /\ stop' \in BOOLEAN /\ onDisk' \subseteq Files
      /\ writes' = writes /\ starts' = starts
  BY DEF PersistenceInv, TypeOK, Boot, ChildDies, Terminate, CtrlC, Flush, saving, setting
<1>3. TypeOK'
  BY <1>1, <1>2 DEF PersistenceInv, TypeOK
<1>4. NoOrphan'
  BY <1>1 DEF PersistenceInv, NoOrphan, Boot, ChildDies, Terminate, CtrlC, Flush
<1> QED BY <1>1, <1>3, <1>4, PhasesKeep

(* The steps that stop the child: whichever way the wrapper gets past     *)
(* them, the child has no way to go on.                                   *)
LEMMA StoppingKeeps ==
  ASSUME PersistenceInv, TerminateChild \/ KillChild \/ Exit
  PROVE  PersistenceInv'
<1>1. /\ UNCHANGED <<options, onDisk, file, store, todo, dumped, seen, touched, failed, exitCode, stop>>
      /\ UNCHANGED <<writes, starts>>
      /\ parent \in {"stopping", "terminating", "ending"} /\ parent' \in {"terminating", "ending", "done"}
  BY DEF TerminateChild, KillChild, Exit, Proceed, saving, setting
<1>2. child' \in {"booting", "serving", "closing", "killed", "dead"} /\ NoOrphan'
  <2>1. CASE TerminateChild
    BY <2>1 DEF TerminateChild, Proceed, PersistenceInv, TypeOK, NoOrphan
  <2>2. CASE KillChild
    BY <2>2 DEF KillChild, Proceed, NoOrphan
  <2>3. CASE Exit
    BY <2>3 DEF Exit, Proceed, NoOrphan
  <2> QED BY <2>1, <2>2, <2>3
<1>3. TypeOK'
  BY <1>1, <1>2 DEF PersistenceInv, TypeOK
<1> QED BY <1>1, <1>2, <1>3, PhasesKeep

LEMMA ParentKeeps ==
  ASSUME PersistenceInv,
         ConnectFails \/ Loaded \/ NoDump \/ Join \/ NothingDue \/ StopWatching \/ SaveFails \/ ParentKilled
  PROVE  PersistenceInv'
<1>1. UNCHANGED <<options, onDisk, file, store, seen, touched, failed, child, writes, starts, stop>>
  BY DEF ConnectFails, Loaded, NoDump, Join, NothingDue, StopWatching, SaveFails, ParentKilled,
         Forget, saving, setting
<1>2. todo' \subseteq Keys /\ dumped' \in [Keys -> Contents] /\ exitCode' \in {0, 1}
  BY KeyFacts DEF PersistenceInv, TypeOK, ConnectFails, Loaded, NoDump, Join, NothingDue, StopWatching,
     SaveFails, ParentKilled, Forget, Fail, saving
<1>3. \/ parent' = "stopping" /\ exitCode' = 1
      \/ parent' = "stopping" /\ ~options.dump
      \/ parent = "loading" /\ todo = {} /\ parent' = "watching"
      \/ parent \in {"watching", "joining", "saving"} /\ parent' \in {"watching", "joining", "final"}
      \/ parent' = "killed"
  BY DEF ConnectFails, Loaded, NoDump, Join, NothingDue, StopWatching, SaveFails, ParentKilled,
         Proceed, Fail, Saving
<1>4. TypeOK' /\ NoOrphan'
  BY <1>1, <1>2, <1>3 DEF PersistenceInv, TypeOK, NoOrphan
<1> QED BY <1>1, <1>3, <1>4, PhasesKeep

(* The power fails: what is left is one of the files there may be on the  *)
(* disk.                                                                  *)
LEMMA PowerOffKeeps ==
  ASSUME PersistenceInv, PowerOff
  PROVE  PersistenceInv'
<1> USE DEF PersistenceInv
<1>1. /\ parent' = "killed" /\ child' = "dead" /\ exitCode' = 1 /\ file' \in onDisk /\ onDisk' = {file'}
      /\ store' = Empty /\ todo' = {} /\ dumped' = Empty
      /\ UNCHANGED <<options, stop, writes, starts, touched, failed, seen>>
  BY DEF PowerOff, Forget
<1>2. TypeOK' /\ NoOrphan' /\ Collected' /\ Reported'
  BY <1>1, KeyFacts DEF TypeOK, NoOrphan, Collected, Saving, Reported
<1>3. ASSUME NEW l \in PlainKeys PROVE LeftAlone(l)'
  BY <1>1 DEF LeftAlone, Saving
<1> QED BY <1>2, <1>3 DEF LeftAlone

(* The wrapper reads the file, loads its keys and may fail at any of them. *)

LEMMA ConnectKeeps ==
  ASSUME PersistenceInv, Connect
  PROVE  PersistenceInv'
<1> USE DEF PersistenceInv
<1>1. /\ parent = "waiting" /\ parent' = "loading" /\ todo' = {k \in options.load : file[k] # Absent}
      /\ UNCHANGED <<options, onDisk, file, store, child, stop, exitCode, dumped, writes, starts, touched, seen, failed>>
  BY DEF Connect, Proceed, setting
<1>2. TypeOK' /\ NoOrphan' /\ Collected' /\ Reported'
  BY <1>1, KeyFacts DEF TypeOK, NoOrphan, Collected, Saving, Reported
<1>3. ASSUME NEW l \in PlainKeys, l \notin touched' PROVE LeftAlone(l)'
  BY <1>1, <1>3, KeyFacts DEF LeftAlone, Saving
<1> QED BY <1>2, <1>3 DEF LeftAlone

LEMMA RestoreFacts ==
  ASSUME TypeOK, NEW k \in Keys, Restore(k), file # Unreadable
  PROVE  /\ store' \in [Keys -> Contents] /\ seen' \in [Keys -> SUBSET Contents]
         /\ k \in PlainKeys => store'[k] = file[k]
         /\ \A l \in Keys \ {k} : store'[l] = store[l]
<1>1. file[k] \in Contents
  BY DEF TypeOK, Files
<1>2. CASE Becomes(k, file[k])
  BY <1>1, <1>2, BecomesFacts
<1>3. CASE k \in ConstKeys /\ UNCHANGED <<store, seen>>
  BY <1>3, PersistenceAssumption DEF TypeOK
<1> QED BY <1>2, <1>3 DEF Restore

LEMMA LoadKeyKeeps ==
  ASSUME PersistenceInv, NEW k \in Keys, LoadKey(k)
  PROVE  PersistenceInv'
<1> USE DEF PersistenceInv
<1>1. /\ parent = "loading" /\ todo' = todo \ {k} /\ Restore(k) /\ file # Unreadable
      /\ UNCHANGED <<options, onDisk, file, child, parent, stop, exitCode, dumped, writes, starts, touched, failed>>
  BY DEF LoadKey, setting
<1>2. /\ store' \in [Keys -> Contents] /\ seen' \in [Keys -> SUBSET Contents]
      /\ k \in PlainKeys => store'[k] = file[k]
      /\ \A l \in Keys \ {k} : store'[l] = store[l]
  BY <1>1, RestoreFacts
<1>3. TypeOK' /\ NoOrphan' /\ Collected' /\ Reported'
  BY <1>1, <1>2 DEF TypeOK, NoOrphan, Collected, Saving, Reported
<1>4. ASSUME NEW l \in PlainKeys, l \notin touched' PROVE LeftAlone(l)'
  BY <1>1, <1>2, <1>4, KeyFacts DEF LeftAlone, Saving
<1> QED BY <1>3, <1>4 DEF LeftAlone

LEMMA LoadFailsKeeps ==
  ASSUME PersistenceInv, LoadFails
  PROVE  PersistenceInv'
<1> USE DEF PersistenceInv
<1>1. /\ parent' = "final" /\ exitCode' = 1 /\ failed' /\ todo' = {}
      /\ UNCHANGED <<options, onDisk, file, child, stop, dumped, writes, starts, touched>>
  BY DEF LoadFails, Proceed, Fail, setting
<1>2. store' \in [Keys -> Contents] /\ seen' \in [Keys -> SUBSET Contents]
  <2>1. CASE UNCHANGED <<store, seen>>
    BY <2>1 DEF TypeOK
  <2>2. CASE file # Unreadable /\ \E k \in todo : Restore(k)
    BY <2>2, RestoreFacts DEF TypeOK
  <2> QED BY <2>1, <2>2 DEF LoadFails
<1>3. TypeOK' /\ NoOrphan' /\ Collected' /\ Reported'
  BY <1>1, <1>2 DEF TypeOK, NoOrphan, Collected, Saving, Reported, LoadFails
<1>4. ASSUME NEW l \in PlainKeys PROVE LeftAlone(l)'
  BY <1>1 DEF LeftAlone, Saving
<1> QED BY <1>3, <1>4 DEF LeftAlone

-----------------------------------------------------------------------------
(* A save: KEYS, one DUMP after the other, and the file. *)

LEMMA BeginSaveKeeps ==
  ASSUME PersistenceInv, PeriodicSave \/ ShutdownSave
  PROVE  PersistenceInv'
<1> USE DEF PersistenceInv
<1>1. /\ todo' = {k \in options.save : store[k] # Absent} /\ dumped' = Empty
      /\ seen' = [k \in Keys |-> {store[k]}] /\ child = "serving"
      /\ UNCHANGED <<options, onDisk, file, store, child, stop, exitCode, writes, starts, touched, failed>>
      /\ \/ parent = "joining" /\ parent' = "saving"
         \/ parent = "final" /\ parent' = "finalSaving"
  BY DEF PeriodicSave, ShutdownSave, BeginSave, Proceed, setting
<1>2. \A k \in Keys : seen'[k] = {store[k]}
  BY <1>1
<1>3. TypeOK'
  <2>1. seen' \in [Keys -> SUBSET Contents]
    BY <1>1 DEF TypeOK
  <2> QED BY <1>1, <2>1, KeyFacts DEF TypeOK
<1>4. NoOrphan' /\ Reported'
  BY <1>1 DEF NoOrphan, Reported
<1>5. Collected'
  BY <1>1, <1>2, KeyFacts DEF Collected
<1>6. ASSUME NEW l \in PlainKeys, l \notin touched' PROVE LeftAlone(l)'
  BY <1>1, <1>2, <1>6, KeyFacts DEF LeftAlone, Kept
<1> QED BY <1>3, <1>4, <1>5, <1>6 DEF LeftAlone

LEMMA DumpKeyKeeps ==
  ASSUME PersistenceInv, NEW k \in Keys, DumpKey(k)
  PROVE  PersistenceInv'
<1> USE DEF PersistenceInv
<1>1. /\ Saving /\ k \in todo /\ dumped' = [dumped EXCEPT ![k] = store[k]] /\ todo' = todo \ {k}
      /\ UNCHANGED <<options, onDisk, file, store, child, parent, stop, exitCode, writes, starts, touched, seen, failed>>
  BY DEF DumpKey, setting
<1>2. /\ dumped' \in [Keys -> Contents] /\ dumped'[k] = store[k]
      /\ \A l \in Keys \ {k} : dumped'[l] = dumped[l]
  BY <1>1 DEF TypeOK
<1>3. TypeOK' /\ NoOrphan' /\ Reported'
  BY <1>1, <1>2 DEF TypeOK, NoOrphan, Reported
<1>4. Collected'
  BY <1>1, <1>2 DEF Collected, Saving
<1>5. ASSUME NEW l \in PlainKeys, l \notin touched' PROVE LeftAlone(l)'
  BY <1>1, <1>5 DEF LeftAlone, Saving, Kept
<1> QED BY <1>3, <1>4, <1>5 DEF LeftAlone

(* All that is in the new file was seen in the store, and what was left   *)
(* alone is what the old file had.                                        *)
LEMMA ReplaceFileFacts ==
  ASSUME PersistenceInv, ReplaceFile
  PROVE  /\ \A k \in Keys : file'[k] \in IF k \in options.save THEN seen[k] ELSE {Absent}
         /\ \A k \in PlainKeys \ touched :
              k \in Kept => /\ file'[k] = store[k]
                            /\ ~failed \/ parent = "saving" => file'[k] = file[k]
<1>1. \A k \in Keys : file'[k] \in IF k \in options.save THEN seen[k] ELSE {Absent}
  BY DEF ReplaceFile, PersistenceInv, Collected
<1>2. ASSUME NEW k \in PlainKeys \ touched, k \in Kept
      PROVE  /\ file'[k] = store[k]
             /\ ~failed \/ parent = "saving" => file'[k] = file[k]
  <2>1. k \in Keys /\ k \in options.save /\ LeftAlone(k)
    BY <1>2, KeptFacts DEF PersistenceInv
  <2>2. seen[k] = {store[k]}
    BY <2>1 DEF LeftAlone, ReplaceFile
  <2>3. file'[k] = store[k]
    BY <1>1, <2>1, <2>2
  <2>4. ~failed \/ parent = "saving" => store[k] = file[k]
    BY <2>1, <1>2 DEF LeftAlone, ReplaceFile, Saving
  <2> QED BY <2>3, <2>4
<1> QED BY <1>1, <1>2

LEMMA ReplaceFileKeepsSaved ==
  ASSUME PersistenceInv, ReplaceFile, NEW k \in PlainKeys, k \notin touched, ~failed, k \in Kept
  PROVE  file'[k] = file[k]
BY ReplaceFileFacts

LEMMA ReplaceFileKeeps ==
  ASSUME PersistenceInv, ReplaceFile
  PROVE  PersistenceInv'
<1> USE DEF PersistenceInv
<1>1. /\ file' = dumped /\ onDisk' = onDisk \cup {dumped, Unreadable}
      /\ todo' = {} /\ dumped' = Empty /\ seen' = seen
      /\ \/ parent = "saving" /\ parent' = "watching"
         \/ parent = "finalSaving" /\ parent' = "stopping"
      /\ UNCHANGED <<options, store, child, stop, exitCode, writes, starts, touched, failed>>
  BY DEF ReplaceFile, Proceed, Saving, Forget
<1>2. TypeOK' /\ NoOrphan' /\ Collected'
  BY <1>1, KeyFacts DEF TypeOK, Files, NoOrphan, Collected, Saving
<1>3. Reported'
  BY <1>1, ReplaceFileFacts, KeyFacts DEF Reported, TypeOK
<1>4. ASSUME NEW l \in PlainKeys, l \notin touched' PROVE LeftAlone(l)'
  BY <1>1, <1>4, ReplaceFileFacts DEF LeftAlone, Saving, Kept
<1> QED BY <1>2, <1>3, <1>4 DEF LeftAlone

LEMMA StartAgainKeeps ==
  ASSUME PersistenceInv, StartAgain
  PROVE  PersistenceInv'
<1> USE DEF PersistenceInv
<1>1. NewStore(starts) \in [Keys -> Contents] /\ \A k \in PlainKeys : NewStore(starts)[k] = Absent
  BY NewStoreFacts, PersistenceAssumption DEF TypeOK
<1>2. TypeOK'
  <2>1. store' \in [Keys -> Contents] /\ dumped' \in [Keys -> Contents]
    BY <1>1, KeyFacts DEF StartAgain
  <2>2. starts' \in 1 .. MaxStarts /\ seen' \in [Keys -> SUBSET Contents] /\ options' \in Options
    BY PersistenceAssumption DEF StartAgain, TypeOK
  <2> QED BY <2>1, <2>2 DEF StartAgain, TypeOK
<1>3. NoOrphan' /\ Collected' /\ Reported'
  BY DEF StartAgain, NoOrphan, Collected, Saving, Reported
<1>4. ASSUME NEW l \in PlainKeys PROVE LeftAlone(l)'
  BY <1>1 DEF StartAgain, LeftAlone, Saving
<1> QED BY <1>2, <1>3, <1>4 DEF LeftAlone

LEMMA PersistenceStutters ==
  ASSUME PersistenceInv, UNCHANGED vars
  PROVE  PersistenceInv'
<1>1. UNCHANGED <<options, file, store, todo, dumped, seen, touched, failed, parent, exitCode>>
  BY DEF vars
<1>2. TypeOK' /\ NoOrphan'
  BY DEF vars, PersistenceInv, TypeOK, NoOrphan
<1> QED BY <1>1, <1>2, PhasesKeep

LEMMA PersistenceNext == PersistenceInv /\ [Next]_vars => PersistenceInv'
<1> SUFFICES ASSUME PersistenceInv, [Next]_vars PROVE PersistenceInv'
  OBVIOUS
<1>1. CASE Parent
  BY <1>1, ConnectKeeps, ParentKeeps, StoppingKeeps, LoadKeyKeeps, LoadFailsKeeps, BeginSaveKeeps,
     DumpKeyKeeps, ReplaceFileKeeps DEF Parent
<1> QED BY <1>1, ChildKeeps, ParentKeeps, PowerOffKeeps, ClientsKeep, StartAgainKeeps,
           PersistenceStutters DEF Next

(* The inductive invariant of the wrapper. *)
THEOREM PersistenceInvariant == Spec => []PersistenceInv
BY PersistenceInit, PersistenceNext, PTL DEF Spec

-----------------------------------------------------------------------------
(* What follows from it. *)

(* The state keeps its types: what the file has of a key is the number of *)
(* a write or of a start.                                                 *)
THEOREM PersistenceTypeCorrect == Spec => []TypeOK
<1>1. PersistenceInv => TypeOK
  BY DEF PersistenceInv
<1> QED BY <1>1, PersistenceInvariant, PTL

(* run_persistent_server returns only when its child is dead or killed,   *)
(* whatever the child was doing and whatever SIGTERM did to it.           *)
THEOREM NoOrphanHolds == Spec => []NoOrphan
<1>1. PersistenceInv => NoOrphan
  BY DEF PersistenceInv
<1> QED BY <1>1, PersistenceInvariant, PTL

(* Exit code 0 means that the shutdown save has replaced the file, with   *)
(* nothing older than what was stored when it began, unless the wrapper   *)
(* was told not to save.                                                  *)
THEOREM ExitZeroMeansSavedHolds == Spec => []ExitZeroMeansSaved
<1>1. PersistenceInv => ExitZeroMeansSaved
  BY DEF PersistenceInv, Reported, ExitZeroMeansSaved
<1> QED BY <1>1, PersistenceInvariant, PTL

(* A wrapper that has loaded the file has restored every key that clients *)
(* have not changed since, if it is one that is loaded and saved.         *)
THEOREM RestoredAfterRestartHolds == Spec => []RestoredAfterRestart
<1>1. PersistenceInv => RestoredAfterRestart
  BY KeptFacts DEF PersistenceInv, LeftAlone, RestoredAfterRestart
<1> QED BY <1>1, PersistenceInvariant, PTL

(* Only a save changes the file, and a power failure. *)
LEMMA FileChanges ==
  ASSUME [Next]_vars, file' # file
  PROVE  ReplaceFile \/ PowerOff
BY DEF Next, Parent, vars, setting, Write, Remove, Boot, ChildDies, Terminate, CtrlC, ParentKilled, Flush,
       StartAgain, Connect, ConnectFails, LoadKey, LoadFails, Loaded, ShutdownSave, PeriodicSave,
       BeginSave, NoDump, DumpKey, SaveFails, Join, NothingDue, StopWatching, TerminateChild,
       KillChild, Exit

(* The file a save leaves has, of every key to be saved, something the    *)
(* store held between KEYS and the end of the save, and no other key.     *)
THEOREM SavesWhatWasLiveHolds == Spec => SavesWhatWasLive
<1>1. PersistenceInv /\ [Next]_vars =>
        [file' # file /\ parent' # "killed" =>
           \A k \in Keys : file'[k] \in IF k \in options.save THEN seen[k] ELSE {Absent}]_vars
  BY FileChanges, ReplaceFileFacts DEF PowerOff
<1> QED BY <1>1, PersistenceInvariant, PTL DEF Spec, SavesWhatWasLive

(* A saved key stays in the file, over restarts, crashes and failing      *)
(* saves, until a client changes it, a load fails, the wrapper is told    *)
(* not to load or save the key, or the power fails before the system has  *)
(* written the file.                                                      *)
THEOREM SavedSurvivesHolds == Spec => SavedSurvives
<1>1. ASSUME PersistenceInv, [Next]_vars, NEW k \in PlainKeys, file'[k] # file[k]
      PROVE  \/ k \in touched \/ failed \/ k \notin Kept
             \/ parent' = "killed" /\ onDisk # {file}
  <2>1. CASE ReplaceFile
    BY <2>1, <1>1, ReplaceFileKeepsSaved
  <2>2. CASE PowerOff
    BY <2>2, <1>1 DEF PowerOff
  <2> QED BY <1>1, <2>1, <2>2, FileChanges
<1>2. PersistenceInv /\ [Next]_vars =>
        [\A k \in PlainKeys : file[k] \in Nat /\ file'[k] # file[k] =>
           \/ k \in touched \/ failed \/ k \notin Kept
           \/ parent' = "killed" /\ onDisk # {file}]_vars
  BY <1>1
<1> QED BY <1>2, PersistenceInvariant, PTL DEF Spec, SavedSurvives

=============================================================================
