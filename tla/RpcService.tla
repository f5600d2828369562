------------------------------ MODULE RpcService ------------------------------
(***************************************************************************)
(* What request() of src/iox2redis/transport.py promises a client with one *)
(* connection: its calls are carried out in the order it made them, each   *)
(* at most once, perhaps after the client has given up; and a call returns *)
(* the reply to itself or fails.  RpcTransport implements this with        *)
(* queues, deadlines and a server that dies.                               *)
(***************************************************************************)
EXTENDS Naturals, Sequences

CONSTANTS Clients, Restarted

VARIABLES
  calls,     \* per client: how many calls it has made
  status,    \*   what became of the last one
  reply,     \*   the position its reply is from
  executed   \* <<client, number of the call>> in order, and the restarts

serviceVars == <<calls, status, reply, executed>>

ServiceInit ==
  /\ calls = [c \in Clients |-> 0] /\ reply = [c \in Clients |-> 0]
  /\ status = [c \in Clients |-> "idle"] /\ executed = <<>>

Call(c) ==
  /\ status[c] # "waiting"
  /\ calls' = [calls EXCEPT ![c] = @ + 1]
  /\ status' = [status EXCEPT ![c] = "waiting"]
  /\ UNCHANGED <<reply, executed>>

(* A call that is not even made: nobody will carry it out. *)
Decline(c) ==
  /\ status[c] # "waiting"
  /\ calls' = [calls EXCEPT ![c] = @ + 1]
  /\ status' = [status EXCEPT ![c] = "refused"]
  /\ UNCHANGED <<reply, executed>>

Execute(c, n) ==
  /\ ~(n = calls[c] /\ status[c] = "refused")
  /\ \A i \in DOMAIN executed : executed[i][1] = c => executed[i][2] < n
  /\ executed' = Append(executed, <<c, n>>)
  /\ UNCHANGED <<calls, status, reply>>

Return(c) ==
  /\ status[c] = "waiting"
  /\ \E i \in DOMAIN executed :
       executed[i] = <<c, calls[c]>> /\ reply' = [reply EXCEPT ![c] = i]
  /\ status' = [status EXCEPT ![c] = "replied"]
  /\ UNCHANGED <<calls, executed>>

Fail(c) ==
  /\ status[c] = "waiting" /\ status' = [status EXCEPT ![c] = "timeout"]
  /\ UNCHANGED <<calls, reply, executed>>

LoseStores == executed' = Append(executed, <<Restarted>>) /\ UNCHANGED <<calls, status, reply>>

ServiceNext ==
  \/ \E c \in Clients :
       \/ Call(c) \/ Decline(c) \/ Return(c) \/ Fail(c)
       \/ \E n \in 1..calls[c] : Execute(c, n)
  \/ LoseStores

ServiceSafety == ServiceInit /\ [][ServiceNext]_serviceVars

ServiceSpec ==
  /\ ServiceSafety
  /\ \A c \in Clients : WF_serviceVars(Return(c) \/ Fail(c))
=============================================================================
