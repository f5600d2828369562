----------------------------- MODULE HotReload -----------------------------
(***************************************************************************)
(* The configuration path of examples/hot_reload_app.py.  "set" commands   *)
(* change a JSON object on the server; a child process polls it and puts   *)
(* what is new into a queue; the main loop applies what it finds in the    *)
(* queue before each step of the algorithm.                                *)
(*                                                                         *)
(* stop_event is a multiprocessing.Event, which both processes and the     *)
(* signal handler use: each of its methods holds one lock, which the       *)
(* process that holds it cannot take again, and set() wakes the processes  *)
(* in wait() and waits until they are awake.  A process that is killed in  *)
(* the middle of a method, or of put(), leaves it as it is.                *)
(***************************************************************************)
EXTENDS Naturals, Sequences

CONSTANTS
  Fields, Values,
  NoValue,     \* a field the object does not have
  Setters,     \* processes that run a "set" command
  MaxSets,     \* bound: changes of the object on the server
  MaxUpdates   \* bound: messages in the queue

ASSUME HotReloadAssumption ==
  /\ NoValue \notin Values
  /\ MaxSets \in Nat /\ MaxUpdates \in Nat \ {0}

VARIABLES
  conf,      \* the object on the server, with the number of its last change
  setter,    \* per "set" command: the object it has read, or Nobody
  last,      \* what the child compares the object with
  updates,   \* the queue between child and main process
  applied,   \* DemoAlgorithm.conf, with the number of the last object applied
  child,     \* "awake", "asleep" in stop_event.wait, "terminated" or "ended"
  left,      \* what a child that was killed left behind: "nothing", "lock"
             \*   (it held that of the event), "sleeper" (it was asleep), or
             \*   "message" (a part of one is in the pipe of the queue)
  main,      \* "testing" the event, "draining", "stepping", "closing",
             \*   "joining", "leaving", "done", or "stuck" for good
  handling,  \* its signal handler runs
  stop       \* stop_event is set

objects  == <<conf, setter, last, updates, applied>>
poller   == <<child, left>>
vars     == <<objects, poller, main, handling, stop>>

Objects == [Fields -> Values \cup {NoValue}]
Nothing == [f \in Fields |-> NoValue]

(* {**current, **update}, and dict.update: fields of the second one win.   *)
Merged(current, update) ==
  [f \in Fields |-> IF update[f] # NoValue THEN update[f] ELSE current[f]]

Object(value, n) == [value |-> value, n |-> n]
Unread  == Object(Nothing, MaxSets + 1)   \* no object: nothing was read yet
Failure == Object(Nothing, MaxSets + 2)   \* the message that a poll failed

Init ==
  /\ conf = Object(Nothing, 0) /\ applied = Object(Nothing, 0)
  /\ setter = [s \in Setters |-> Unread]
  /\ last = Unread /\ updates = <<>>
  /\ child = "awake" /\ left = "nothing"
  /\ main = "testing" /\ handling = FALSE /\ stop = FALSE

-----------------------------------------------------------------------------
(* set_config: reading and writing are two requests *)

Store(value) ==
  /\ conf.n < MaxSets
  /\ conf' = Object(value, conf.n + 1)

ReadConfig(s) ==
  /\ setter[s] = Unread
  /\ setter' = [setter EXCEPT ![s] = conf]
  /\ UNCHANGED <<conf, last, updates, applied, poller, main, handling, stop>>

WriteMerged(s) ==
  /\ setter[s] # Unread
  /\ \E update \in Objects \ {Nothing} : Store(Merged(setter[s].value, update))
  /\ setter' = [setter EXCEPT ![s] = Unread]
  /\ UNCHANGED <<last, updates, applied, poller, main, handling, stop>>

(* --replace: the object on the server is not looked at.                   *)
WriteReplaced(s) ==
  /\ setter[s] = Unread
  /\ \E update \in Objects \ {Nothing} : Store(update)
  /\ UNCHANGED <<setter, last, updates, applied, poller, main, handling, stop>>

-----------------------------------------------------------------------------
(* run_config_poller_child *)

Put(message) ==
  /\ Len(updates) < MaxUpdates
  /\ updates' = Append(updates, message)

(* A main process that is stuck has the event's lock, or the child has     *)
(* ended.                                                                  *)
Awake == child = "awake" /\ main # "stuck"

(* A poll finds an object it did not see last time.  The queue belongs to  *)
(* this process alone, so that nothing can come between GET and put().     *)
Poll ==
  /\ Awake /\ ~stop
  /\ last = Unread \/ conf.value # last.value
  /\ Put(conf) /\ last' = conf
  /\ UNCHANGED <<conf, setter, applied, poller, main, handling, stop>>

PollFailsAndForgets ==   \* a mutant: last is set before the request is made
  /\ Awake /\ ~stop
  /\ Put(Failure) /\ last' = conf
  /\ UNCHANGED <<conf, setter, applied, poller, main, handling, stop>>

PollFails ==   \* the server does not answer, or the value is not an object
  /\ Awake /\ ~stop
  /\ Put(Failure)
  /\ UNCHANGED <<conf, setter, last, applied, poller, main, handling, stop>>

Sleep ==   \* stop_event.wait
  /\ Awake /\ ~stop /\ child' = "asleep"
  /\ UNCHANGED <<objects, left, main, handling, stop>>

Wake ==   \* its timeout
  /\ child = "asleep" /\ main # "stuck" /\ child' = "awake"
  /\ UNCHANGED <<objects, left, main, handling, stop>>

ChildEnds ==
  /\ Awake /\ stop /\ child' = "ended"
  /\ UNCHANGED <<objects, left, main, handling, stop>>

(* A signal to the process group, or any other, ends the child wherever it *)
(* is: it is started before there are handlers.                            *)
ChildDies ==
  /\ child # "ended" /\ child' = "ended"
  /\ left' \in {"nothing"} \cup IF child = "asleep" THEN {"sleeper"} ELSE {"lock", "message"}
  /\ UNCHANGED <<objects, main, handling, stop>>

-----------------------------------------------------------------------------
(* HotReloadApp.run *)

Runs(phase) == main = phase /\ ~handling

DrainNewest ==   \* a mutant: the queue is emptied from its other end
  /\ Runs("draining") /\ updates # <<>>
  /\ LET message == updates[Len(updates)]
     IN IF message = Failure THEN UNCHANGED applied
        ELSE applied' = Object(Merged(applied.value, message.value), message.n)
  /\ updates' = SubSeq(updates, 1, Len(updates) - 1)
  /\ UNCHANGED <<conf, setter, last, poller, main, handling, stop>>

(* drain_updates: an object is applied, a failure is only reported.        *)
Drain ==
  /\ Runs("draining") /\ updates # <<>>
  /\ \/ Head(updates) = Failure /\ UNCHANGED applied
     \/ /\ Head(updates) # Failure
        /\ applied' = Object(Merged(applied.value, Head(updates).value), Head(updates).n)
  /\ updates' = Tail(updates)
  /\ UNCHANGED <<conf, setter, last, poller, main, handling, stop>>

Drained ==   \* get_nowait waits for the rest of a message there is a part of
  /\ Runs("draining") /\ updates = <<>>
  /\ main' = IF left = "message" THEN "stuck" ELSE "stepping"
  /\ UNCHANGED <<objects, poller, handling, stop>>

(* A step of the algorithm.  An exception, as of a multiplier that is no   *)
(* number, ends the loop.                                                  *)
Step ==
  /\ Runs("stepping") /\ main' \in {"testing", "closing"}
  /\ UNCHANGED <<objects, poller, handling, stop>>

(* stop_event.is_set() at the head of the loop.                            *)
Test ==
  /\ Runs("testing")
  /\ main' = IF left = "lock" THEN "stuck" ELSE IF stop THEN "closing" ELSE "draining"
  /\ UNCHANGED <<objects, poller, handling, stop>>

(* stop_event.set(), after which the main process is in the given phase.   *)
SetEvent(next) ==
  /\ stop' = (stop \/ left # "lock")
  /\ main' = IF left \in {"lock", "sleeper"} THEN "stuck" ELSE next
  /\ child' = IF child = "asleep" THEN "awake" ELSE child

(* ConfigPoller.stop: the event is set, ...                                *)
Close ==
  /\ Runs("closing") /\ SetEvent("joining")
  /\ UNCHANGED <<objects, left, handling>>

JoinPatiently ==   \* a mutant: join() without a timeout
  /\ Runs("joining") /\ child = "ended" /\ main' = "leaving"
  /\ UNCHANGED <<objects, poller, handling, stop>>

(* ... and the child joined, or terminated if it takes too long.           *)
Join ==
  /\ Runs("joining") /\ main' = "leaving"
  /\ child' = IF child = "ended" THEN "ended" ELSE "terminated"
  /\ UNCHANGED <<objects, left, handling, stop>>

Leave ==   \* the interpreter joins its children before it ends
  /\ Runs("leaving") /\ child = "ended" /\ main' = "done"
  /\ UNCHANGED <<objects, poller, handling, stop>>

(* SIGINT or SIGTERM.  A handler that interrupts one of the event's        *)
(* methods, of the main loop or of an earlier handler, may find its lock   *)
(* taken by its own process: it waits for ever.  One that comes when the   *)
(* event is set changes nothing, unless it waits for a child that died.    *)
Shutdown ==
  /\ main \notin {"done", "stuck"} /\ handling' = TRUE
  /\ \/ ~handling /\ ~stop /\ UNCHANGED main
     \/ (handling \/ main \in {"testing", "closing"}) /\ main' = "stuck"
     \/ stop /\ left \in {"lock", "sleeper"} /\ main' = "stuck"
  /\ UNCHANGED <<objects, poller, stop>>

HandleSignal ==
  /\ handling /\ main # "stuck" /\ SetEvent(main) /\ handling' = FALSE
  /\ UNCHANGED <<objects, left>>

Main == Drain \/ Drained \/ Step \/ Test \/ Close \/ Join \/ Leave \/ HandleSignal

Next ==
  \/ \E s \in Setters : ReadConfig(s) \/ WriteMerged(s) \/ WriteReplaced(s)
  \/ Poll \/ PollFails \/ Sleep \/ Wake \/ ChildEnds \/ ChildDies
  \/ Main \/ Shutdown

(* The main loop goes round, a child in wait() wakes up, and one that was  *)
(* terminated dies.  A poll need not succeed every time, but does so again *)
(* and again.  A child that runs need not end, however.                    *)
Spec ==
  /\ Init /\ [][Next]_vars
  /\ WF_vars(Main) /\ SF_vars(Poll) /\ WF_vars(Wake) /\ WF_vars(child = "terminated" /\ ChildDies)

-----------------------------------------------------------------------------
(* Properties *)

TypeOK ==
  /\ conf \in [value : Objects, n : 0 .. MaxSets]
  /\ applied \in [value : Objects, n : 0 .. MaxSets]
  /\ \A s \in Setters : setter[s] \in [value : Objects, n : 0 .. MaxSets] \cup {Unread}
  /\ last \in [value : Objects, n : 0 .. MaxSets] \cup {Unread}
  /\ updates \in Seq([value : Objects, n : 0 .. MaxSets] \cup {Failure})
  /\ Len(updates) <= MaxUpdates
  /\ child \in {"awake", "asleep", "terminated", "ended"}
  /\ left \in {"nothing", "lock", "sleeper", "message"}
  /\ main \in {"testing", "draining", "stepping", "closing", "joining", "leaving", "done", "stuck"}
  /\ handling \in BOOLEAN /\ stop \in BOOLEAN

(* However polls, failures and steps are interleaved, objects are applied  *)
(* in the order in which they were stored, and none of them twice.         *)
AppliedInOrder ==
  [][ applied' # applied => applied'.n > applied.n ]_vars

(* Nobody has stopped the application or killed its child. *)
Working == ~stop /\ main # "stuck" /\ child # "ended"

(* A setting that stays on the server reaches the algorithm and stays      *)
(* there, while the application runs.                                      *)
SettingsReachAlgorithm ==
  \A f \in Fields, v \in Values :
    <>[](conf.value[f] = v /\ Working) => <>[](applied.value[f] = v)

(* The code does not end in two cases: a signal interrupts a method of the *)
(* event, so that its handler waits for a lock this process holds; or the  *)
(* child was killed while it held the lock, slept or wrote a message, so   *)
(* that set(), is_set() or get_nowait() waits for it for ever.             *)
Deadlocked == main = "stuck" /\ (handling \/ left # "nothing")

(* Except for these, the application ends when it is told to, and its      *)
(* child with it: whatever either is doing, also if a step fails, the      *)
(* child hangs, sleeps or was killed elsewhere, and signals come again.    *)
ShutdownEnds ==
  handling \/ stop ~> (main = "done" /\ child = "ended") \/ Deadlocked

(* "--replace: replace instead of merge", and "main process hot-applies    *)
(* it": a configuration that stays on the server is what the algorithm     *)
(* ends up with.                                                           *)
ConfigReplaced ==
  \A c \in Objects : <>[](conf.value = c /\ Working) => <>[](applied.value = c)
=============================================================================
