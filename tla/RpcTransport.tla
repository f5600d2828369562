---------------------------- MODULE RpcTransport ----------------------------
(***************************************************************************)
(* Requests from several clients to one server: Iox2RpcClient.request and  *)
(* Iox2RpcServer.drain_requests in src/iox2redis/transport.py, with the    *)
(* handler of server.py reduced to its place in the order of execution.    *)
(* What a command does and answers is a function of the commands executed  *)
(* before it, so its position in that order stands for its reply.          *)
(*                                                                         *)
(* iceoryx2 is external: it carries a request to the server that is up,    *)
(* if there is one, keeps the requests of one client in order, and hands a *)
(* response to the pending request it answers.  A request whose client has *)
(* given up may still be carried out.  The server may be killed between    *)
(* any two steps and started again; its stores are lost then.              *)
(***************************************************************************)
EXTENDS Naturals, Sequences, FiniteSets, Functions

CONSTANTS
  Clients,      \* each used by one thread at a time
  NoRequest,    \* nothing is being served
  Restarted,    \* marks a new server, with empty stores, in the log
  MaxCalls,     \* bound: requests a client sends
  MaxRestarts   \* bound: how often the server is started again

ASSUME RpcAssumption ==
  /\ MaxCalls \in Nat /\ MaxRestarts \in Nat
  /\ NoRequest # Restarted /\ Restarted \notin Clients
  /\ {NoRequest, Restarted} \cap [client : Clients, port : Nat, n : Nat] = {}

VARIABLES
  call,     \* per client: the request it made last and what became of it
  inbox,    \* per client: responses to its pending request
  queue,    \* requests that wait to be received
  up,       \* the server process is serving
  taken,    \* the active request of drain_requests, or NoRequest
  done,     \* the position the active request was executed at, or 0
  log       \* requests in the order of their execution

vars == <<call, inbox, queue, up, taken, done, log>>
serverVars == <<queue, up, taken, done, log>>

(* Requests of a client are numbered; port tells the connection of the     *)
(* client that the request was sent on.                                    *)
Request(c, port, n) == [client |-> c, port |-> port, n |-> n]

NeverCalled == [status |-> "idle", port |-> 1, n |-> 0, after |-> 0, late |-> FALSE, at |-> 0]

Current(c) == Request(c, call[c].port, call[c].n)
Waiting(c) == call[c].status = "waiting"

Positions(r) == {i \in DOMAIN log : log[i] = r}
Restarts     == Cardinality(Positions(Restarted))

Init ==
  /\ call = [c \in Clients |-> NeverCalled]
  /\ inbox = [c \in Clients |-> {}]
  /\ queue = {} /\ up = TRUE /\ taken = NoRequest /\ done = 0 /\ log = <<>>

-----------------------------------------------------------------------------
(* Iox2RpcClient.request *)

(* The request is sent and the deadline set.  Without a server it reaches  *)
(* nobody, which the client is not told.                                   *)
Send(c) ==
  /\ ~Waiting(c) /\ call[c].n < MaxCalls
  /\ call' = [call EXCEPT ![c].status = "waiting", ![c].n = @ + 1,
                          ![c].after = Len(log), ![c].late = FALSE]
  /\ queue' = IF up THEN queue \cup {Request(c, call[c].port, call[c].n + 1)} ELSE queue
  /\ UNCHANGED <<inbox, up, taken, done, log>>

(* The transport cannot be opened, or the payload is too large.            *)
Refuse(c) ==
  /\ ~Waiting(c) /\ call[c].n < MaxCalls
  /\ call' = [call EXCEPT ![c].status = "refused", ![c].n = @ + 1]
  /\ UNCHANGED <<inbox, serverVars>>

(* One round of the loop: the response is looked for before the deadline.  *)
ReceiveResponse(c) ==
  /\ Waiting(c) /\ ~call[c].late
  /\ \E reply \in inbox[c] :
       /\ call' = [call EXCEPT ![c].status = "replied", ![c].at = reply.at]
       /\ inbox' = [inbox EXCEPT ![c] = {}]
  /\ UNCHANGED serverVars

(* The deadline passes, perhaps while the client waits with an answer on   *)
(* its way.                                                                *)
PassDeadline(c) ==
  /\ Waiting(c) /\ ~call[c].late
  /\ call' = [call EXCEPT ![c].late = TRUE]
  /\ UNCHANGED <<inbox, serverVars>>

GiveUpNever(c) ==   \* a mutant: the loop starts over
  /\ Waiting(c) /\ call[c].late
  /\ call' = [call EXCEPT ![c].late = FALSE]
  /\ UNCHANGED <<inbox, serverVars>>

(* The TimeoutError.  Deleting the pending request drops a response that   *)
(* came too late; the request itself may be executed all the same.         *)
GiveUp(c) ==
  /\ Waiting(c) /\ call[c].late
  /\ call' = [call EXCEPT ![c].status = "timeout"]
  /\ inbox' = [inbox EXCEPT ![c] = {}]
  /\ queue' \in {queue, queue \ {Current(c)}}
  /\ UNCHANGED <<up, taken, done, log>>

-----------------------------------------------------------------------------
(* Iox2RpcServer.drain_requests *)

(* Requests of one client arrive in the order they were sent on one port.  *)
First(r) == \A q \in queue : q.client = r.client /\ q.port = r.port => r.n <= q.n

PeekRequest ==   \* a mutant: a request is looked at but stays in the queue
  /\ up /\ taken = NoRequest
  /\ \E r \in queue : First(r) /\ taken' = r
  /\ UNCHANGED <<call, inbox, queue, up, done, log>>

ReceiveRequest ==
  /\ up /\ taken = NoRequest
  /\ \E r \in queue : First(r) /\ taken' = r /\ queue' = queue \ {r}
  /\ UNCHANGED <<call, inbox, up, done, log>>

(* handler(request_bytes): the command is carried out and its reply known. *)
HandleRequest ==
  /\ taken # NoRequest /\ done = 0
  /\ log' = Append(log, taken) /\ done' = Len(log) + 1
  /\ UNCHANGED <<call, inbox, queue, up, taken>>

RespondToClient ==   \* a mutant: the response goes to the client, not to its request
  LET c == taken.client IN
  /\ done # 0
  /\ inbox' = [inbox EXCEPT ![c] = IF Waiting(c)
                                   THEN @ \cup {[to |-> taken, at |-> done]} ELSE @]
  /\ taken' = NoRequest /\ done' = 0
  /\ UNCHANGED <<call, queue, up, log>>

(* active_request's response: lost if nobody waits for it any more.        *)
Respond ==
  LET c == taken.client IN
  /\ done # 0
  /\ inbox' = [inbox EXCEPT ![c] = IF Waiting(c) /\ Current(c) = taken
                                   THEN @ \cup {[to |-> taken, at |-> done]} ELSE @]
  /\ taken' = NoRequest /\ done' = 0
  /\ UNCHANGED <<call, queue, up, log>>

Down ==
  /\ up' = FALSE /\ queue' = {} /\ taken' = NoRequest /\ done' = 0
  /\ UNCHANGED <<call, inbox, log>>

(* The reply of an executed command cannot be encoded or is larger than a  *)
(* payload may be: the exception ends serve_forever and the server.        *)
Unserviceable == done # 0 /\ Down

Kill == up /\ Down

Restart ==
  /\ ~up /\ Restarts < MaxRestarts
  /\ up' = TRUE /\ log' = Append(log, Restarted)
  /\ UNCHANGED <<call, inbox, queue, taken, done>>

Serve == ReceiveRequest \/ HandleRequest \/ Respond

Await(c) == ReceiveResponse(c) \/ PassDeadline(c) \/ GiveUp(c)

Next ==
  \/ \E c \in Clients : Send(c) \/ Refuse(c) \/ Await(c)
  \/ Serve \/ Unserviceable \/ Kill \/ Restart

(* A client that waits looks again after poll_ns and its deadline passes;  *)
(* a server that is up polls for requests.  Nobody has to send or restart. *)
Fairness == WF_vars(Serve) /\ \A c \in Clients : WF_vars(Await(c))

Spec == Init /\ [][Next]_vars /\ Fairness

-----------------------------------------------------------------------------
(* Properties *)

Requests == { Request(c, p, n) : c \in Clients, p \in 1 .. MaxCalls + 1, n \in 1 .. MaxCalls }

TypeOK ==
  /\ call \in [Clients -> [status : {"idle", "waiting", "replied", "timeout", "refused"},
                           port : 1 .. MaxCalls + 1, n : 0 .. MaxCalls,
                           after : Nat, late : BOOLEAN, at : Nat]]
  /\ \A c \in Clients : inbox[c] \subseteq [to : Requests, at : Nat] /\ Cardinality(inbox[c]) <= 1
  /\ queue \subseteq Requests /\ up \in BOOLEAN
  /\ taken \in Requests \cup {NoRequest} /\ done \in 0 .. Len(log)
  /\ log \in Seq(Requests \cup {Restarted})

(* Each request is carried out at most once, whatever becomes of clients,  *)
(* and only requests that were sent are.                                   *)
AtMostOnce ==
  \A r \in Range(log) \ {Restarted} : Cardinality(Positions(r)) = 1 /\ r.n <= call[r.client].n

(* "Concurrent clients must receive only their own request responses": the *)
(* reply that request() returns is that of the very request it sent, which *)
(* was carried out after the call began; never one that answers an earlier *)
(* request of the client that timed out.                                   *)
OwnResponse ==
  \A c \in Clients : call[c].status = "replied" =>
    Positions(Current(c)) = {call[c].at} /\ call[c].at > call[c].after

(* Each client is given calls in order, at most once, and never a reply    *)
(* that is not its own, although requests, responses and deadlines cross   *)
(* each other and the server may die at any step.                          *)
Service == INSTANCE RpcService
             WITH calls    <- [c \in Clients |-> call[c].n],
                  status   <- [c \in Clients |-> call[c].status],
                  reply    <- [c \in Clients |-> call[c].at],
                  executed <- [i \in DOMAIN log |->
                                 IF log[i] = Restarted THEN <<Restarted>>
                                 ELSE <<log[i].client, log[i].n>>]

ImplementsRpcService == Service!ServiceSpec

(* request() returns or raises, whether there is a server or not.          *)
CallsEnd == \A c \in Clients : Waiting(c) ~> ~Waiting(c)
=============================================================================
