-------------------------- MODULE ServerLifecycle --------------------------
(***************************************************************************)
(* Starting, serving and closing an Iox2JsonServer (server.py) and the     *)
(* Iox2RpcServer it owns (transport.py).  close() races with the serving   *)
(* thread: main() calls it from a signal handler, which Python runs on the *)
(* serving thread between two of its steps, and the tests call it from     *)
(* another thread.  Nothing locks the attributes both sides use.           *)
(*                                                                         *)
(* A step is what runs between two points where CPython may switch threads *)
(* or run a signal handler: the entry of a function, the end of a call     *)
(* into native code, and the next round of a loop.                         *)
(***************************************************************************)
EXTENDS Naturals, Sequences

CONSTANTS
  Drivers,       \* the values of bySignal
  MaxRequests    \* bound: requests the clients send

ASSUME LifecycleAssumption == Drivers \subseteq BOOLEAN /\ MaxRequests \in Nat

Attrs   == <<"server", "service", "node">>   \* in the order close() takes them
Kinds   == {Attrs[i] : i \in DOMAIN Attrs}
Callers == {"main", "other"}   \* who calls close(): main()'s finally, and the stop request
None    == 0

VARIABLES
  bySignal,    \* TRUE: main() stopped by a signal; FALSE: serve_forever in a thread
  closed,      \* Iox2JsonServer._closed
  published,   \* Iox2JsonServer._transport is not None
  attr,        \* _server, _service and _node of the transport: None or a generation
  gen,         \* how often the transport was opened
  alive,       \* native objects that were created and not yet deleted
  pc,          \* where the serving thread is
  ref,         \* the node drain_requests waits on
  error,       \* the exception that ended serving
  closing,     \* per caller: its position in close()
  budget       \* requests the clients may still send

vars == <<bySignal, closed, published, attr, gen, alive, pc, ref, error, closing, budget>>
objects == <<attr, gen, alive>>

(* A closing caller visits the attributes one after another: it gets the   *)
(* object, deletes it and clears the attribute.                            *)
Idle     == [step |-> "idle", k |-> 1, held |-> None]
Finished == [step |-> "finished", k |-> 1, held |-> None]
Busy(c)  == closing[c].step \notin {"idle", "finished"}

Init ==
  /\ bySignal \in Drivers
  /\ closed = FALSE /\ published = ~bySignal
  /\ gen = IF bySignal THEN 0 ELSE 1
  /\ attr = [k \in Kinds |-> gen]
  /\ alive = IF bySignal THEN {} ELSE Kinds \X {1}
  /\ pc = IF bySignal THEN "open" ELSE "loop"
  /\ ref = None /\ error = "none" /\ budget = MaxRequests
  /\ closing = [c \in Callers |-> Idle]

-----------------------------------------------------------------------------
(* The serving thread *)

(* A signal handler runs to its end before the interrupted code goes on.   *)
At(point) == pc = point /\ ~(bySignal /\ Busy("other"))

(* main() closes the server in its finally; a plain thread just ends.      *)
Leave == IF bySignal THEN "finally" ELSE "done"

Raise(e) == error' = e /\ pc' = Leave

(* Any call into iceoryx2 may fail.  Whether an object that close() has    *)
(* deleted can still be used is not known: both are possible.              *)
Usable(k, g) == <<k, g>> \in alive
Failing(k, g) == Raise(IF Usable(k, g) THEN "NativeError" ELSE "Released")

(* The transport is open for the first time: it is not being reopened.     *)
Opening == gen = 0 \/ (gen = 1 /\ pc # "node")

(* Iox2JsonServer.open *)
Open ==
  /\ At("open")
  /\ pc' = IF closed \/ published THEN "loop" ELSE "node"
  /\ UNCHANGED <<bySignal, closed, published, objects, ref, error, closing, budget>>

Created(k, g) ==
  /\ attr' = [attr EXCEPT ![k] = g]
  /\ alive' = alive \cup {<<k, g>>}

NodePublished ==   \* a mutant: the transport is published before it is open
  /\ At("node")
  /\ gen' = gen + 1 /\ Created("node", gen + 1)
  /\ pc' = "service" /\ published' = TRUE
  /\ UNCHANGED <<bySignal, closed, ref, error, closing, budget>>

(* Iox2RpcServer.open: the node, then its service, then the server.        *)
OpenNode ==
  /\ At("node")
  /\ gen' = gen + 1 /\ Created("node", gen + 1)
  /\ pc' = "service"
  /\ UNCHANGED <<bySignal, closed, published, ref, error, closing, budget>>

OpenService ==
  /\ At("service")
  /\ \/ attr["node"] = None /\ Raise("NoneAttribute") /\ UNCHANGED objects
     \/ /\ attr["node"] # None /\ Created("service", gen)
        /\ pc' = "server" /\ UNCHANGED <<gen, error>>
  /\ UNCHANGED <<bySignal, closed, published, ref, closing, budget>>

OpenServer ==
  /\ At("server")
  /\ \/ attr["service"] = None /\ Raise("NoneAttribute") /\ UNCHANGED objects
     \/ /\ attr["service"] # None /\ Created("server", gen)
        /\ pc' = IF Opening THEN "publish" ELSE "asserts"
        /\ UNCHANGED <<gen, error>>
  /\ UNCHANGED <<bySignal, closed, published, ref, closing, budget>>

(* iceoryx2 refuses the node, the service or the server.  Iox2JsonServer   *)
(* closes a transport it could not open; drain_requests does not.          *)
OpenFails ==
  /\ \E k \in Kinds : At(k)
  /\ \/ /\ Opening
        /\ attr' = [k \in Kinds |-> None] /\ UNCHANGED gen
        /\ alive' = alive \ {<<k, attr[k]>> : k \in Kinds}
     \/ ~Opening /\ UNCHANGED objects
  /\ Raise("NativeError")
  /\ UNCHANGED <<bySignal, closed, published, ref, closing, budget>>

Publish ==
  /\ At("publish")
  /\ published' = TRUE /\ pc' = "loop"
  /\ UNCHANGED <<bySignal, closed, objects, ref, error, closing, budget>>

LoopForever ==   \* a mutant: the flag is not looked at
  /\ At("loop")
  /\ pc' = "drain"
  /\ UNCHANGED <<bySignal, closed, published, objects, ref, error, closing, budget>>

(* The loop of serve_forever and the tests at the start of serve_once.     *)
Loop ==
  /\ At("loop")
  /\ pc' = IF closed THEN Leave ELSE "drain"
  /\ UNCHANGED <<bySignal, closed, published, objects, ref, error, closing, budget>>

(* The asserts of drain_requests, after which it looks up the node.        *)
Proceed ==
  \/ /\ attr["node"] = None \/ attr["server"] = None
     /\ Raise("AssertionError") /\ UNCHANGED ref
  \/ /\ attr["node"] # None /\ attr["server"] # None
     /\ ref' = attr["node"] /\ pc' = "wait" /\ UNCHANGED error

(* drain_requests opens its transport again if that was closed meanwhile.  *)
Drain ==
  /\ At("drain")
  /\ \/ attr["server"] = None /\ pc' = "node" /\ UNCHANGED <<ref, error>>
     \/ attr["server"] # None /\ Proceed
  /\ UNCHANGED <<bySignal, closed, published, objects, closing, budget>>

Asserts ==
  /\ At("asserts") /\ Proceed
  /\ UNCHANGED <<bySignal, closed, published, objects, closing, budget>>

Wait ==
  /\ At("wait")
  /\ \/ pc' = "receive" /\ UNCHANGED error
     \/ Failing("node", ref)
  /\ ref' = None
  /\ UNCHANGED <<bySignal, closed, published, objects, closing, budget>>

(* receive() takes a request some client has sent, or finds none.          *)
Receive ==
  /\ At("receive")
  /\ \/ attr["server"] = None /\ Raise("NoneReceive") /\ UNCHANGED budget
     \/ attr["server"] # None /\ pc' = "loop" /\ UNCHANGED <<error, budget>>
     \/ /\ Usable("server", attr["server"]) /\ budget > 0
        /\ budget' = budget - 1 /\ pc' = "handle" /\ UNCHANGED error
     \/ attr["server"] # None /\ Failing("server", attr["server"]) /\ UNCHANGED budget
  /\ UNCHANGED <<bySignal, closed, published, objects, ref, closing>>

(* A request is answered, or its reply cannot be encoded or is too large.  *)
Handle ==
  /\ At("handle")
  /\ \/ pc' = "receive" /\ UNCHANGED error
     \/ Raise("Unserviceable")
     \/ Failing("server", attr["server"])
  /\ UNCHANGED <<bySignal, closed, published, objects, ref, closing, budget>>

Serving ==
  \/ Open \/ OpenNode \/ OpenService \/ OpenServer \/ OpenFails \/ Publish
  \/ Loop \/ Drain \/ Asserts \/ Wait \/ Receive \/ Handle

-----------------------------------------------------------------------------
(* close(), by main() itself or by whoever asks the server to stop *)

Requested(c) == c = "other" /\ pc # "done"   \* _stop, or the test that is over
Finally(c)   == c = "main" /\ At("finally")
MayClose(c)  == closing[c] = Idle /\ (Requested(c) \/ Finally(c))

(* The handler interrupts main(), which closes only when it runs again.    *)
Turn(c) == c = "main" => At("finally")

CloseOnce(c) ==   \* a mutant: a server that is closed already is left alone
  /\ MayClose(c)
  /\ closed' = TRUE
  /\ closing' = [closing EXCEPT ![c] = IF published /\ ~closed
                                       THEN [@ EXCEPT !.step = "get"] ELSE Finished]
  /\ UNCHANGED <<bySignal, published, objects, pc, ref, error, budget>>

CloseForgetsFlag(c) ==   \* a mutant: the flag is not set when there is a transport to close
  /\ MayClose(c)
  /\ closed' = (closed \/ ~published)
  /\ closing' = [closing EXCEPT ![c] = IF published THEN [@ EXCEPT !.step = "get"] ELSE Finished]
  /\ UNCHANGED <<bySignal, published, objects, pc, ref, error, budget>>

Close(c) ==
  /\ MayClose(c)
  /\ closed' = TRUE
  /\ closing' = [closing EXCEPT ![c] = IF published THEN [@ EXCEPT !.step = "get"] ELSE Finished]
  /\ UNCHANGED <<bySignal, published, objects, pc, ref, error, budget>>

(* obj = getattr(self, attr) *)
GetAttr(c) ==
  /\ closing[c].step = "get" /\ Turn(c)
  /\ LET obj == attr[Attrs[closing[c].k]]
     IN closing' = [closing EXCEPT ![c].held = obj,
                                   ![c].step = IF obj = None THEN "clear" ELSE "delete"]
  /\ UNCHANGED <<bySignal, closed, published, objects, pc, ref, error, budget>>

DeleteObject(c) ==
  /\ closing[c].step = "delete" /\ Turn(c)
  /\ alive' = alive \ {<<Attrs[closing[c].k], closing[c].held>>}
  /\ closing' = [closing EXCEPT ![c].step = "clear", ![c].held = None]
  /\ UNCHANGED <<bySignal, closed, published, attr, gen, pc, ref, error, budget>>

(* setattr(self, attr, None), whatever the attribute holds by now.         *)
ClearAttr(c) ==
  /\ closing[c].step = "clear" /\ Turn(c)
  /\ attr' = [attr EXCEPT ![Attrs[closing[c].k]] = None]
  /\ closing' = [closing EXCEPT ![c] =
       IF @.k < Len(Attrs) THEN [step |-> "get", k |-> @.k + 1, held |-> None]
                           ELSE [@ EXCEPT !.step = "unpublish"]]
  /\ UNCHANGED <<bySignal, closed, published, gen, alive, pc, ref, error, budget>>

Unpublish(c) ==
  /\ closing[c].step = "unpublish" /\ Turn(c)
  /\ published' = FALSE
  /\ closing' = [closing EXCEPT ![c] = Finished]
  /\ UNCHANGED <<bySignal, closed, objects, pc, ref, error, budget>>

Return ==
  /\ At("finally") /\ closing["main"] = Finished
  /\ pc' = "done"
  /\ UNCHANGED <<bySignal, closed, published, objects, ref, error, closing, budget>>

Closing(c) == GetAttr(c) \/ DeleteObject(c) \/ ClearAttr(c) \/ Unpublish(c)

MainThread  == Serving \/ Close("main") \/ Closing("main") \/ Return
StopRequest == Close("other")

Next == MainThread \/ StopRequest \/ Closing("other")

(* Threads that can run do run, and waiting for requests times out after   *)
(* poll_ns; nobody has to ask the server to stop.                          *)
Fairness == WF_vars(MainThread) /\ WF_vars(Closing("other"))

Spec == Init /\ [][Next]_vars /\ Fairness

-----------------------------------------------------------------------------
(* Properties *)

Gens   == 0 .. 2
Errors == {"none", "NoneAttribute", "Released", "NativeError", "AssertionError",
           "NoneReceive", "Unserviceable"}

TypeOK ==
  /\ bySignal \in BOOLEAN /\ closed \in BOOLEAN /\ published \in BOOLEAN
  /\ attr \in [Kinds -> Gens] /\ gen \in Gens /\ ref \in Gens
  /\ alive \subseteq Kinds \X Gens
  /\ pc \in Kinds \cup {"open", "publish", "loop", "drain", "asserts", "wait",
                        "receive", "handle", "finally", "done"}
  /\ error \in Errors
  /\ closing \in [Callers -> [step : {"idle", "get", "delete", "clear", "unpublish", "finished"},
                              k : DOMAIN Attrs, held : Gens]]
  /\ budget \in 0 .. MaxRequests

(* A transport others can see through the server is complete: all three of *)
(* its native objects exist, unless someone is closing it.                 *)
PublishedWhole ==
  published /\ ~closed => \A k \in Kinds : attr[k] # None /\ <<k, attr[k]>> \in alive

(* Whenever the signal arrives at main(), in the middle of open() or of    *)
(* main()'s own close() too, everything opened before it is deleted when   *)
(* main() ends.  Only a transport that drain_requests opens again after    *)
(* close() is left to the garbage collector.                               *)
ReleasedAtEnd ==
  bySignal /\ pc = "done" => \A k \in Kinds : <<k, 1>> \notin alive

(* Serving fails over missing or deleted objects only once the server is   *)
(* told to stop: the flag is up before anything is taken away.             *)
NoFailureWhileServing ==
  error \notin {"none", "NativeError", "Unserviceable"} => closed

(* A server that is told to stop does stop, even if drain_requests opens   *)
(* its transport again, when clients do not send requests for ever.        *)
StopCompletes == closed ~> pc = "done"

(* What the fixture in tests/test_multi_client.py expects of a server      *)
(* thread that close() disturbs: of the attributes close() clears, only    *)
(* the receiver is ever missed by it.                                      *)
OnlyReceiveRace == closed => error \notin {"NoneAttribute", "AssertionError"}
=============================================================================
