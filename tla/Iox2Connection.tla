--------------------------- MODULE Iox2Connection ---------------------------
(***************************************************************************)
(* redis-py clients on top of RpcTransport: Iox2Connection in              *)
(* src/iox2redis/connection.py keeps the reply of a command in             *)
(* _pending_response or _pending_error from send_command until             *)
(* read_response collects it.                                              *)
(*                                                                         *)
(* redis-py is external.  Its client takes a connection from the pool,     *)
(* which reconnects one that has something to read, and calls              *)
(* send_command and read_response.  After a timeout or a connection error  *)
(* it disconnects and tries again, Retries times.  An exception in the     *)
(* calling thread (KeyboardInterrupt, say) may interrupt it anywhere and   *)
(* leaves the connection to the next command.                              *)
(***************************************************************************)
EXTENDS RpcTransport

CONSTANT Retries   \* of redis-py's Retry object

ASSUME RetriesAssumption == Retries \in Nat

VARIABLES
  phase,            \* per client: where execute_command is
  pendingResponse,  \* _pending_response: NoReply or a reply
  pendingError,     \* _pending_error: NoReply or an error
  received,         \* the reply request() returned to the last send_command
  failures,         \* of call_with_retry
  result            \* what the last command returned or raised

connection == <<pendingResponse, pendingError>>
connVars == <<phase, pendingResponse, pendingError, received, failures, result>>
allVars  == <<vars, connVars>>

NoReply         == [kind |-> "none", at |-> 0]
Nil(i)          == [kind |-> "nil", at |-> i]
Value(i)        == [kind |-> "value", at |-> i]
ResponseError(i) == [kind |-> "ResponseError", at |-> i]
ConnectionError == [kind |-> "ConnectionError", at |-> 0]
Interrupted     == [kind |-> "interrupted", at |-> 0]
TimedOut        == [kind |-> "TimeoutError", at |-> 0]

Frames(i) == {Nil(i), Value(i), ResponseError(i)}

ConnInit ==
  /\ Init
  /\ phase = [c \in Clients |-> "idle"]
  /\ pendingResponse = [c \in Clients |-> NoReply]
  /\ pendingError = [c \in Clients |-> NoReply]
  /\ received = [c \in Clients |-> NoReply]
  /\ failures = [c \in Clients |-> 0]
  /\ result = [c \in Clients |-> NoReply]

Goto(c, p) == phase' = [phase EXCEPT ![c] = p]

Pend(c, response, err) ==
  /\ pendingResponse' = [pendingResponse EXCEPT ![c] = response]
  /\ pendingError' = [pendingError EXCEPT ![c] = err]

CanReadResponse(c) == pendingResponse[c] # NoReply   \* a mutant: errors are forgotten

CanRead(c) == pendingResponse[c] # NoReply \/ pendingError[c] # NoReply

(* disconnect() closes the transport: the next request uses a new port.    *)
Disconnect(c) ==
  /\ call' = [call EXCEPT ![c].port = @ + 1]
  /\ Pend(c, NoReply, NoReply)

(* A command starts with a connection from the pool.                       *)
GetConnection(c) ==
  /\ phase[c] = "idle" /\ call[c].n < MaxCalls
  /\ \/ ~CanRead(c) /\ UNCHANGED <<call, connection>>
     \/ CanRead(c) /\ Disconnect(c)
  /\ Goto(c, IF CanRead(c)' THEN "idle" ELSE "ready")
  /\ failures' = [failures EXCEPT ![c] = 0]
  /\ result' = [result EXCEPT ![c] = NoReply]
  /\ UNCHANGED <<inbox, serverVars, received>>

(* send_command hands the request to the transport ...                     *)
SendCommand(c) ==
  /\ phase[c] = "ready" /\ Send(c)
  /\ Goto(c, "sending")
  /\ received' = [received EXCEPT ![c] = NoReply]
  /\ UNCHANGED <<connection, failures, result>>

(* ... which cannot be opened, or refuses the request: the error waits for *)
(* read_response.                                                          *)
SendRefused(c) ==
  /\ phase[c] = "ready" /\ Refuse(c)
  /\ Goto(c, "reading") /\ Pend(c, NoReply, ConnectionError)
  /\ received' = [received EXCEPT ![c] = NoReply]
  /\ UNCHANGED <<failures, result>>

(* ... or returns a response, which is decoded.  None stands for both nil  *)
(* and nothing pending.  (Responses of this server decode, or raise a      *)
(* CodecError: no other exception comes after one was received.)           *)
SendAnswered(c) ==
  /\ phase[c] = "sending" /\ ReceiveResponse(c)
  /\ \E reply \in Frames(call'[c].at) :
       /\ received' = [received EXCEPT ![c] = reply]
       /\ \/ reply.kind = "value" /\ Pend(c, reply, NoReply)
          \/ reply.kind = "nil" /\ Pend(c, NoReply, NoReply)
          \/ reply.kind = "ResponseError" /\ Pend(c, NoReply, reply)
  /\ Goto(c, "reading")
  /\ UNCHANGED <<failures, result>>

TimeoutSwallowed(c) ==   \* a mutant: the exception of the transport is not passed on
  /\ phase[c] = "sending" /\ GiveUp(c)
  /\ Goto(c, "reading")
  /\ UNCHANGED <<connection, received, failures, result>>

(* ... or times out, which send_command raises without touching anything.  *)
SendTimedOut(c) ==
  /\ phase[c] = "sending" /\ GiveUp(c)
  /\ Goto(c, "failing") /\ result' = [result EXCEPT ![c] = TimedOut]
  /\ UNCHANGED <<connection, received, failures>>

SendWaits(c) ==
  /\ phase[c] = "sending" /\ PassDeadline(c)
  /\ UNCHANGED connVars

Returned(c, outcome) == result' = [result EXCEPT ![c] = outcome]

(* read_response: an error goes first.                                     *)
ReadError(c) ==
  /\ phase[c] = "reading" /\ pendingError[c] # NoReply
  /\ Returned(c, pendingError[c]) /\ Pend(c, pendingResponse[c], NoReply)
  /\ Goto(c, IF pendingError[c] = ConnectionError THEN "failing" ELSE "idle")
  /\ UNCHANGED <<vars, received, failures>>

ReadAndKeep(c) ==   \* a mutant: the response stays pending
  /\ phase[c] = "reading" /\ pendingError[c] = NoReply
  /\ Returned(c, IF pendingResponse[c] = NoReply THEN Nil(received[c].at) ELSE pendingResponse[c])
  /\ Goto(c, "idle")
  /\ UNCHANGED <<vars, connection, received, failures>>

(* Without a response there is nothing but None to return: a nil.          *)
ReadValue(c) ==
  /\ phase[c] = "reading" /\ pendingError[c] = NoReply
  /\ Returned(c, IF pendingResponse[c] = NoReply THEN Nil(received[c].at) ELSE pendingResponse[c])
  /\ Pend(c, NoReply, NoReply)
  /\ Goto(c, "idle")
  /\ UNCHANGED <<vars, received, failures>>

(* redis-py closes a connection that failed and perhaps tries again.       *)
CallWithRetry(c) ==
  /\ phase[c] = "failing" /\ Disconnect(c)
  /\ failures' = [failures EXCEPT ![c] = @ + 1]
  /\ Goto(c, IF failures[c] < Retries /\ call[c].n < MaxCalls THEN "ready" ELSE "idle")
  /\ UNCHANGED <<inbox, serverVars, received, result>>

(* The exception passes through send_command, whose transport gives its    *)
(* pending request up, and the connection goes back to the pool as it is.  *)
Interrupt(c) ==
  /\ phase[c] # "idle"
  /\ \/ phase[c] = "sending"
        /\ call' = [call EXCEPT ![c].status = "timeout"]
        /\ inbox' = [inbox EXCEPT ![c] = {}]
        /\ queue' \in {queue, queue \ {Current(c)}}
        /\ UNCHANGED <<up, taken, done, log>>
     \/ phase[c] # "sending" /\ UNCHANGED vars
  /\ Goto(c, "idle") /\ Returned(c, Interrupted)
  /\ UNCHANGED <<connection, received, failures>>

SendProceeds(c) == SendAnswered(c) \/ SendWaits(c) \/ SendTimedOut(c)

Command(c) ==
  \/ SendCommand(c) \/ SendRefused(c) \/ SendProceeds(c)
  \/ ReadError(c) \/ ReadValue(c) \/ CallWithRetry(c)

Server == (Serve \/ Unserviceable \/ Kill \/ Restart) /\ UNCHANGED connVars

ConnNext ==
  \/ \E c \in Clients : GetConnection(c) \/ Command(c) \/ Interrupt(c)
  \/ Server

(* A command that was started is carried on, and so is the server's loop.  *)
ConnFairness ==
  /\ WF_allVars(Serve /\ UNCHANGED connVars)
  /\ \A c \in Clients : WF_allVars(Command(c))

ConnSpec == ConnInit /\ [][ConnNext]_allVars /\ ConnFairness

-----------------------------------------------------------------------------
(* Properties *)

(* What a command returns or raises as its reply is the very response to   *)
(* its last request, carried out after that was sent: never a reply left   *)
(* behind by an earlier command, an earlier try or an interrupted call.    *)
FreshReply ==
  \A c \in Clients : result[c].kind \in {"value", "nil", "ResponseError"} =>
    /\ result[c] = received[c]
    /\ log[result[c].at] = Current(c) /\ result[c].at > call[c].after

(* Whatever happened to the commands before, a connection is empty when    *)
(* the next command or try uses it: no reply can be taken for another's.   *)
EmptyWhenUsed ==
  \A c \in Clients : phase[c] \in {"ready", "sending", "failing"} =>
    pendingResponse[c] = NoReply /\ pendingError[c] = NoReply

(* A connection is given up only for a reason: a command failed or was     *)
(* interrupted.  Its replies were all collected otherwise.                 *)
ReconnectsWithReason ==
  [][ \A c \in Clients : call'[c].port # call[c].port =>
        result[c].kind \in {"TimeoutError", "ConnectionError", "interrupted"} ]_allVars

(* Every command comes to an end, even if the server never answers.        *)
CommandsEnd == \A c \in Clients : phase[c] # "idle" ~> phase[c] = "idle"
=============================================================================
