----------------------------- MODULE RpcProofs -----------------------------
(***************************************************************************)
(* Proofs about RpcTransport and Iox2Connection, for any number of         *)
(* clients, calls, retries and restarts: a request is carried out at most  *)
(* once, a client gets no reply but the one to the request it waits for,   *)
(* what a redis-py command returns is the reply to its own last request, a *)
(* connection is empty when a command uses it, and it is given up only for *)
(* a reason.                                                               *)
(*                                                                         *)
(* The transport's invariant says where a request can be (waiting, taken   *)
(* or executed, never in two of them), that only requests that were sent   *)
(* are anywhere, and that what lies in an inbox answers the request that   *)
(* client waits for.  It does not depend on the port: the same lemmas      *)
(* serve clients that reconnect.                                           *)
(***************************************************************************)
EXTENDS Iox2Connection, FiniteSetTheorems, SequenceTheorems, TLAPS

AnyRequest == [client : Clients, port : Nat, n : Nat]

Status == {"idle", "waiting", "replied", "timeout", "refused"}
Calls  == [status : Status, port : Nat, n : Nat, after : Nat, late : BOOLEAN, at : Nat]

Typed ==
  /\ call \in [Clients -> Calls]
  /\ inbox \in [Clients -> SUBSET [to : AnyRequest, at : Nat]]
  /\ queue \subseteq AnyRequest /\ up \in BOOLEAN
  /\ taken \in AnyRequest \cup {NoRequest} /\ done \in Nat
  /\ log \in Seq(AnyRequest \cup {Restarted})

Executed(r) == \E i \in 1 .. Len(log) : log[i] = r

(* A request is in one place only. *)
InOnePlace ==
  /\ \A r \in queue : r # taken /\ ~Executed(r)
  /\ done = 0 => ~Executed(taken)
  /\ done # 0 => taken # NoRequest /\ done \in 1 .. Len(log) /\ log[done] = taken
  /\ \A i, j \in 1 .. Len(log) : log[i] = log[j] => i = j \/ log[i] = Restarted

(* Requests do not come from nowhere. *)
WasSent(r) == r.n <= call[r.client].n /\ r.port <= call[r.client].port

OnlySent ==
  /\ \A r \in queue : WasSent(r)
  /\ taken # NoRequest => WasSent(taken)
  /\ \A i \in 1 .. Len(log) : log[i] # Restarted => WasSent(log[i])

(* A reply is to the request its client waits for, which was not executed  *)
(* before the call began.                                                  *)
Answers(reply, c) ==
  /\ Waiting(c) /\ reply.to = Current(c)
  /\ reply.at \in 1 .. Len(log) /\ log[reply.at] = Current(c)

OnlyAnswers ==
  \A c \in Clients :
    /\ call[c].after <= Len(log)
    /\ \A i \in 1 .. Len(log) : log[i] = Current(c) => i > call[c].after
    /\ \A reply \in inbox[c] : Answers(reply, c)

RpcInv == Typed /\ InOnePlace /\ OnlySent /\ OnlyAnswers

-----------------------------------------------------------------------------
(* The log: what is appended and what stays. *)

LEMMA CurrentTyped ==
  ASSUME Typed, NEW c \in Clients
  PROVE  /\ Current(c) \in AnyRequest
         /\ Current(c).client = c /\ Current(c).port = call[c].port /\ Current(c).n = call[c].n
         /\ call[c] \in Calls
BY DEF Typed, Calls, Current, Request, AnyRequest

LEMMA NotMarkers == NoRequest \notin AnyRequest /\ Restarted \notin AnyRequest /\ NoRequest # Restarted
BY RpcAssumption DEF AnyRequest

LEMMA LogTyped ==
  ASSUME Typed
  PROVE  /\ Len(log) \in Nat /\ DOMAIN log = 1 .. Len(log)
         /\ \A i \in 1 .. Len(log) : log[i] \in AnyRequest \cup {Restarted}
BY DEF Typed

LEMMA LogGrows ==
  ASSUME Typed, NEW r \in AnyRequest \cup {Restarted}, log' = Append(log, r)
  PROVE  /\ log' \in Seq(AnyRequest \cup {Restarted})
         /\ Len(log') = Len(log) + 1
         /\ \A i \in 1 .. Len(log) : log'[i] = log[i]
         /\ log'[Len(log) + 1] = r
BY DEF Typed

LEMMA RpcInit == Init => RpcInv
<1> SUFFICES ASSUME Init PROVE RpcInv
  OBVIOUS
<1>1. Typed
  BY DEF Init, Typed, NeverCalled, Calls, Status
<1>2. Len(log) = 0
  BY DEF Init
<1> QED BY <1>1, <1>2 DEF Init, RpcInv, InOnePlace, OnlySent, OnlyAnswers, Executed, NeverCalled

-----------------------------------------------------------------------------
(* Every action keeps the invariant.  The client's side first: only Send   *)
(* and Refuse give a client a new current request, and it was nowhere.     *)

LEMMA Fresh ==
  ASSUME RpcInv, NEW r \in AnyRequest, ~WasSent(r)
  PROVE  r \notin queue /\ r # taken /\ ~Executed(r)
BY NotMarkers DEF RpcInv, OnlySent, Executed

(* How a step of client c changes its call, field by field. *)
LEMMA CallFields ==
  ASSUME Typed, NEW c \in Clients
  PROVE  /\ call[c].status \in Status /\ call[c].port \in Nat /\ call[c].n \in Nat
         /\ call[c].after \in Nat /\ call[c].late \in BOOLEAN /\ call[c].at \in Nat
BY DEF Typed, Calls

LEMMA OneCallChanges ==
  ASSUME Typed, NEW c \in Clients, NEW x \in Calls,
         call'[c] = x, call' = [d \in Clients |-> call'[d]],
         \A d \in Clients : d # c => call'[d] = call[d]
  PROVE  /\ call' \in [Clients -> Calls] /\ call'[c] = x
         /\ \A d \in Clients : d # c => call'[d] = call[d]
BY DEF Typed

LEMMA CallAfterSend ==
  ASSUME Typed, NEW c \in Clients, Send(c)
  PROVE  /\ call' \in [Clients -> Calls]
         /\ \A d \in Clients : d # c => call'[d] = call[d]
         /\ call'[c].status = "waiting" /\ call'[c].port = call[c].port
         /\ call'[c].n = call[c].n + 1 /\ call'[c].after = Len(log)
         /\ call'[c].at = call[c].at
<1> DEFINE x == [status |-> "waiting", port |-> call[c].port, n |-> call[c].n + 1,
                 after |-> Len(log), late |-> FALSE, at |-> call[c].at]
<1>1. x \in Calls
  BY CallFields, LogTyped DEF Calls, Status
<1>2. call'[c] = x
  BY ZenonT(60) DEF Send, Typed, Calls
<1>4. call' = [d \in Clients |-> call'[d]] /\ \A d \in Clients : d # c => call'[d] = call[d]
  BY DEF Send, Typed
<1>3. x.status = "waiting" /\ x.port = call[c].port /\ x.n = call[c].n + 1 /\ x.after = Len(log)
      /\ x.at = call[c].at
  OBVIOUS
<1> HIDE DEF x
<1> QED BY <1>1, <1>2, <1>3, <1>4, OneCallChanges

LEMMA CallAfterRefuse ==
  ASSUME Typed, NEW c \in Clients, Refuse(c)
  PROVE  /\ call' \in [Clients -> Calls]
         /\ \A d \in Clients : d # c => call'[d] = call[d]
         /\ call'[c].status = "refused" /\ call'[c].port = call[c].port
         /\ call'[c].n = call[c].n + 1 /\ call'[c].after = call[c].after
         /\ call'[c].at = call[c].at
<1> DEFINE x == [status |-> "refused", port |-> call[c].port, n |-> call[c].n + 1,
                 after |-> call[c].after, late |-> call[c].late, at |-> call[c].at]
<1>1. x \in Calls
  BY CallFields DEF Calls, Status
<1>2. call'[c] = x
  BY DEF Refuse, Typed, Calls
<1>4. call' = [d \in Clients |-> call'[d]] /\ \A d \in Clients : d # c => call'[d] = call[d]
  BY DEF Refuse, Typed
<1>3. x.status = "refused" /\ x.port = call[c].port /\ x.n = call[c].n + 1
      /\ x.after = call[c].after /\ x.at = call[c].at
  OBVIOUS
<1> HIDE DEF x
<1> QED BY <1>1, <1>2, <1>3, <1>4, OneCallChanges

(* Client c goes on to a request r that is nowhere yet; at most the queue  *)
(* gets it.                                                                *)
LEMMA NewCall ==
  ASSUME RpcInv, NEW c \in Clients, ~Waiting(c),
         call' \in [Clients -> Calls],
         \A d \in Clients : d # c => call'[d] = call[d],
         call'[c].port >= call[c].port, call'[c].n >= call[c].n,
         call'[c].after <= Len(log),
         NEW r, r = Current(c)', ~WasSent(r),
         queue' \in {queue, queue \cup {r}},
         UNCHANGED <<inbox, up, taken, done, log>>
  PROVE  RpcInv'
<1>1. r \in AnyRequest /\ r.client = c /\ r.port = call'[c].port /\ r.n = call'[c].n
  BY DEF Current, Request, AnyRequest, Calls
<1>2. r \notin queue /\ r # taken /\ ~Executed(r)
  BY <1>1, Fresh
<1>3. \A d \in Clients : call'[d].n >= call[d].n /\ call'[d].port >= call[d].port
  BY SMTT(30) DEF RpcInv, Typed, Calls
<1>4. Typed'
  BY <1>1 DEF RpcInv, Typed
<1>5. InOnePlace'
  BY <1>2 DEF RpcInv, InOnePlace, Executed
<1>6. OnlySent'
  <2>1. \A q \in AnyRequest : WasSent(q) => WasSent(q)'
    <3> SUFFICES ASSUME NEW q \in AnyRequest, WasSent(q) PROVE WasSent(q)'
      OBVIOUS
    <3>1. q.client \in Clients /\ q.n \in Nat /\ q.port \in Nat
      BY DEF AnyRequest
    <3>2. /\ call[q.client].n \in Nat /\ call'[q.client].n \in Nat
          /\ call[q.client].port \in Nat /\ call'[q.client].port \in Nat
      BY <3>1 DEF RpcInv, Typed, Calls
    <3>3. call'[q.client].n >= call[q.client].n /\ call'[q.client].port >= call[q.client].port
      BY <3>1, <1>3
    <3>4. q.n <= call'[q.client].n /\ q.port <= call'[q.client].port
      BY <3>1, <3>2, <3>3 DEF WasSent
    <3> QED BY <3>4 DEF WasSent
  <2>2. WasSent(r)'
    BY <1>1 DEF WasSent, Calls
  <2> QED BY <2>1, <2>2, LogTyped DEF RpcInv, OnlySent, Typed
<1>7. OnlyAnswers'
  <2>1. \A d \in Clients : d # c => Current(d)' = Current(d) /\ Waiting(d)' = Waiting(d)
    BY DEF Current, Waiting
  <2>2. inbox[c] = {}
    BY DEF RpcInv, OnlyAnswers, Answers
  <2> QED BY <2>1, <2>2, <1>2 DEF RpcInv, OnlyAnswers, Answers, Executed
<1> QED BY <1>4, <1>5, <1>6, <1>7 DEF RpcInv

LEMMA SendKeeps ==
  ASSUME RpcInv, NEW c \in Clients, Send(c)
  PROVE  RpcInv'
<1>1. call[c] \in Calls /\ Len(log) \in Nat /\ Typed
  BY CurrentTyped, LogTyped DEF RpcInv
<1>2. Current(c)' = Request(c, call[c].port, call[c].n + 1)
  BY <1>1, CallAfterSend DEF Current
<1>3. ~WasSent(Request(c, call[c].port, call[c].n + 1))
  BY <1>1 DEF WasSent, Request, Calls
<1>4. /\ ~Waiting(c) /\ queue' \in {queue, queue \cup {Request(c, call[c].port, call[c].n + 1)}}
      /\ UNCHANGED <<inbox, up, taken, done, log>>
  BY DEF Send
<1>5. /\ call'[c].port >= call[c].port /\ call'[c].n >= call[c].n
      /\ call'[c].after <= Len(log)
  BY <1>1, CallAfterSend DEF Calls
<1> QED BY <1>1, <1>2, <1>3, <1>4, <1>5, CallAfterSend, NewCall

LEMMA RefuseKeeps ==
  ASSUME RpcInv, NEW c \in Clients, Refuse(c)
  PROVE  RpcInv'
<1>1. call[c] \in Calls /\ Typed /\ call[c].after <= Len(log)
  BY CurrentTyped DEF RpcInv, OnlyAnswers
<1>2. Current(c)' = Request(c, call[c].port, call[c].n + 1)
  BY <1>1, CallAfterRefuse DEF Current
<1>3. ~WasSent(Request(c, call[c].port, call[c].n + 1))
  BY <1>1 DEF WasSent, Request, Calls
<1>4. ~Waiting(c) /\ queue' = queue /\ UNCHANGED <<inbox, up, taken, done, log>>
  BY DEF Refuse, serverVars
<1>5. /\ call'[c].port >= call[c].port /\ call'[c].n >= call[c].n
      /\ call'[c].after <= Len(log)
  BY <1>1, CallAfterRefuse DEF Calls
<1> QED BY <1>1, <1>2, <1>3, <1>4, <1>5, CallAfterRefuse, NewCall

(* Client c keeps its request: it returns, gives up or goes on waiting.    *)
LEMMA SameCall ==
  ASSUME RpcInv, NEW c \in Clients,
         call' \in [Clients -> Calls],
         \A d \in Clients : d # c => call'[d] = call[d],
         call'[c].port = call[c].port, call'[c].n = call[c].n, call'[c].after = call[c].after,
         inbox' = [inbox EXCEPT ![c] = {}] \/ (inbox' = inbox /\ Waiting(c)'),
         queue' \subseteq queue,
         UNCHANGED <<up, taken, done, log>>
  PROVE  RpcInv'
<1>1. \A d \in Clients : Current(d)' = Current(d) /\ (d # c => Waiting(d)' = Waiting(d))
  BY DEF Current, Waiting
<1>2. \A d \in Clients : call'[d].n = call[d].n /\ call'[d].port = call[d].port
                          /\ call'[d].after = call[d].after
  OBVIOUS
<1>3. Typed'
  BY DEF RpcInv, Typed
<1>4. InOnePlace'
  BY DEF RpcInv, InOnePlace, Executed
<1>5. OnlySent'
  <2>1. \A q \in AnyRequest : WasSent(q)' = WasSent(q)
    BY <1>2 DEF WasSent, AnyRequest
  <2> QED BY <2>1, LogTyped, <1>3 DEF RpcInv, OnlySent, Typed
<1>6. OnlyAnswers'
  <2>1. \A d \in Clients : inbox'[d] = {} \/ (inbox'[d] = inbox[d] /\ Waiting(d)' /\ Waiting(d))
                           \/ (inbox'[d] = inbox[d] /\ inbox[d] = {})
    BY <1>1 DEF RpcInv, OnlyAnswers, Answers, Typed
  <2> QED BY <1>1, <1>2, <2>1 DEF RpcInv, OnlyAnswers, Answers
<1> QED BY <1>3, <1>4, <1>5, <1>6 DEF RpcInv

LEMMA CallAfterReceive ==
  ASSUME RpcInv, NEW c \in Clients, ReceiveResponse(c)
  PROVE  /\ call' \in [Clients -> Calls]
         /\ \A d \in Clients : d # c => call'[d] = call[d]
         /\ call'[c].status = "replied" /\ call'[c].port = call[c].port
         /\ call'[c].n = call[c].n /\ call'[c].after = call[c].after
         /\ call'[c].at \in 1 .. Len(log) /\ log[call'[c].at] = Current(c)
         /\ inbox' = [inbox EXCEPT ![c] = {}]
<1>1. PICK reply \in inbox[c] :
        /\ call' = [call EXCEPT ![c].status = "replied", ![c].at = reply.at]
        /\ inbox' = [inbox EXCEPT ![c] = {}]
  BY DEF ReceiveResponse
<1>2. reply.at \in 1 .. Len(log) /\ log[reply.at] = Current(c) /\ reply.at \in Nat
  BY DEF RpcInv, OnlyAnswers, Answers, Typed
<1> DEFINE x == [status |-> "replied", port |-> call[c].port, n |-> call[c].n,
                 after |-> call[c].after, late |-> call[c].late, at |-> reply.at]
<1>3. x \in Calls
  BY CallFields, <1>2 DEF Calls, Status, RpcInv
<1>4. call'[c] = x
  BY <1>1 DEF RpcInv, Typed, Calls
<1>5. call' = [d \in Clients |-> call'[d]] /\ \A d \in Clients : d # c => call'[d] = call[d]
  BY <1>1 DEF RpcInv, Typed
<1>6. /\ x.status = "replied" /\ x.port = call[c].port /\ x.n = call[c].n
      /\ x.after = call[c].after /\ x.at = reply.at
  OBVIOUS
<1> HIDE DEF x
<1> QED BY <1>1, <1>2, <1>3, <1>4, <1>5, <1>6, OneCallChanges DEF RpcInv

LEMMA ReceiveKeeps ==
  ASSUME RpcInv, NEW c \in Clients, ReceiveResponse(c)
  PROVE  RpcInv'
<1>1. queue' = queue /\ UNCHANGED <<up, taken, done, log>>
  BY DEF ReceiveResponse, serverVars
<1> QED BY <1>1, CallAfterReceive, SameCall

(* The call with another status, or past its deadline. *)
LEMMA CallAfterStatus ==
  ASSUME Typed, NEW c \in Clients, NEW s \in Status, call' = [call EXCEPT ![c].status = s]
  PROVE  /\ call' \in [Clients -> Calls]
         /\ \A d \in Clients : d # c => call'[d] = call[d]
         /\ call'[c].status = s /\ call'[c].port = call[c].port
         /\ call'[c].n = call[c].n /\ call'[c].after = call[c].after /\ call'[c].at = call[c].at
BY DEF Typed, Calls

LEMMA CallAfterDeadline ==
  ASSUME Typed, NEW c \in Clients, call' = [call EXCEPT ![c].late = TRUE]
  PROVE  /\ call' \in [Clients -> Calls]
         /\ \A d \in Clients : d # c => call'[d] = call[d]
         /\ call'[c].status = call[c].status /\ call'[c].port = call[c].port
         /\ call'[c].n = call[c].n /\ call'[c].after = call[c].after /\ call'[c].at = call[c].at
BY DEF Typed, Calls

LEMMA DeadlineKeeps ==
  ASSUME RpcInv, NEW c \in Clients, PassDeadline(c)
  PROVE  RpcInv'
<1>1. /\ queue' = queue /\ UNCHANGED <<up, taken, done, log>>
      /\ inbox' = inbox /\ Waiting(c) /\ call' = [call EXCEPT ![c].late = TRUE] /\ Typed
  BY DEF PassDeadline, serverVars, RpcInv
<1>2. Waiting(c)'
  BY <1>1, CallAfterDeadline DEF Waiting
<1> QED BY <1>1, <1>2, CallAfterDeadline, SameCall

(* Giving up is the same whether it was the deadline or an interrupt.      *)
LEMMA AbandonKeeps ==
  ASSUME RpcInv, NEW c \in Clients,
         call' = [call EXCEPT ![c].status = "timeout"],
         inbox' = [inbox EXCEPT ![c] = {}],
         queue' \in {queue, queue \ {Current(c)}},
         UNCHANGED <<up, taken, done, log>>
  PROVE  RpcInv'
<1>1. queue' \subseteq queue /\ "timeout" \in Status /\ Typed
  BY DEF Status, RpcInv
<1> QED BY <1>1, CallAfterStatus, SameCall

-----------------------------------------------------------------------------
(* The server's side moves a request from the queue to the log, or loses   *)
(* it; a response goes to the inbox of the client that waits for it.       *)

LEMMA TakeKeeps ==
  ASSUME RpcInv, ReceiveRequest
  PROVE  RpcInv'
<1>1. PICK r \in queue : taken' = r /\ queue' = queue \ {r}
  BY DEF ReceiveRequest
<1>2. UNCHANGED <<call, inbox, up, done, log>> /\ taken = NoRequest
  BY DEF ReceiveRequest
<1>3. r \in AnyRequest /\ r # NoRequest /\ ~Executed(r) /\ WasSent(r)
  BY NotMarkers DEF RpcInv, Typed, InOnePlace, OnlySent
<1>4. done = 0
  BY <1>2 DEF RpcInv, InOnePlace
<1>5. Typed'
  BY <1>1, <1>2, <1>3 DEF RpcInv, Typed
<1>6. InOnePlace'
  BY <1>1, <1>2, <1>3, <1>4 DEF RpcInv, InOnePlace, Executed
<1>7. OnlySent'
  BY <1>1, <1>2, <1>3 DEF RpcInv, OnlySent, WasSent
<1>8. OnlyAnswers'
  BY <1>2 DEF RpcInv, OnlyAnswers, Answers, Waiting, Current
<1> QED BY <1>5, <1>6, <1>7, <1>8 DEF RpcInv

(* What is appended to the log is a request that was sent and not yet      *)
(* executed, or the mark of a restart.                                     *)
LEMMA AppendKeeps ==
  ASSUME RpcInv, NEW r \in AnyRequest \cup {Restarted}, log' = Append(log, r),
         UNCHANGED <<call, inbox>>
  PROVE  /\ OnlyAnswers'
         /\ \A q : q # r => Executed(q)' = Executed(q)
         /\ (r = Restarted \/ WasSent(r)) =>
              (\A i \in 1 .. Len(log) : log[i] # Restarted => WasSent(log[i]))'
         /\ (r = Restarted \/ ~Executed(r)) =>
              \A i, j \in 1 .. Len(log') : log'[i] = log'[j] => i = j \/ log'[i] = Restarted
<1>1. /\ Len(log) \in Nat /\ Len(log') = Len(log) + 1 /\ log'[Len(log) + 1] = r
      /\ \A i \in 1 .. Len(log) : log'[i] = log[i]
  BY LogTyped, LogGrows DEF RpcInv
<1>2. \A i \in 1 .. Len(log') : i \in 1 .. Len(log) \/ i = Len(log) + 1
  BY <1>1
<1>3. \A i \in 1 .. Len(log) : i \in 1 .. Len(log')
  BY <1>1
<1>4. \A d \in Clients : Current(d)' = Current(d) /\ Waiting(d)' = Waiting(d)
  BY DEF Current, Waiting
<1>5. OnlyAnswers'
  <2> SUFFICES ASSUME NEW d \in Clients
               PROVE  /\ call[d].after <= Len(log')
                      /\ \A i \in 1 .. Len(log') : log'[i] = Current(d) => i > call[d].after
                      /\ \A reply \in inbox[d] : Answers(reply, d)'
    BY <1>4 DEF OnlyAnswers
  <2>1. call[d].after \in Nat /\ call[d].after <= Len(log) /\ Current(d) # Restarted
    BY CallFields, CurrentTyped, NotMarkers DEF RpcInv, OnlyAnswers
  <2>2. \A i \in 1 .. Len(log') : log'[i] = Current(d) => i > call[d].after
    BY <1>1, <1>2, <2>1 DEF RpcInv, OnlyAnswers
  <2>3. \A reply \in inbox[d] : Answers(reply, d)'
    BY <1>1, <1>3, <1>4 DEF RpcInv, OnlyAnswers, Answers
  <2> QED BY <1>1, <2>1, <2>2, <2>3
<1>6. \A q : q # r => Executed(q)' = Executed(q)
  BY <1>1, <1>2, <1>3 DEF Executed
<1>7. ASSUME r = Restarted \/ WasSent(r)
      PROVE  (\A i \in 1 .. Len(log) : log[i] # Restarted => WasSent(log[i]))'
  BY <1>1, <1>2, <1>7 DEF RpcInv, OnlySent, WasSent
<1>8. ASSUME r = Restarted \/ ~Executed(r)
      PROVE  \A i, j \in 1 .. Len(log') : log'[i] = log'[j] => i = j \/ log'[i] = Restarted
  BY <1>1, <1>2, <1>8 DEF RpcInv, InOnePlace, Executed
<1> QED BY <1>5, <1>6, <1>7, <1>8

LEMMA HandleKeeps ==
  ASSUME RpcInv, HandleRequest
  PROVE  RpcInv'
<1>1. /\ taken # NoRequest /\ done = 0 /\ log' = Append(log, taken) /\ done' = Len(log) + 1
      /\ UNCHANGED <<call, inbox, queue, up, taken>>
  BY DEF HandleRequest
<1>2. taken \in AnyRequest /\ ~Executed(taken) /\ WasSent(taken) /\ Len(log) \in Nat
  BY <1>1, LogTyped DEF RpcInv, Typed, InOnePlace, OnlySent
<1>3. Len(log') = Len(log) + 1 /\ log'[Len(log) + 1] = taken
      /\ log' \in Seq(AnyRequest \cup {Restarted})
  BY <1>1, <1>2, LogGrows DEF RpcInv
<1>4. Typed'
  BY <1>1, <1>2, <1>3 DEF RpcInv, Typed
<1>5. InOnePlace'
  <2>1. \A r \in queue : r # taken /\ ~Executed(r)'
    BY <1>1, <1>2, AppendKeeps DEF RpcInv, InOnePlace
  <2>2. Len(log) + 1 \in 1 .. Len(log')
    BY <1>2, <1>3
  <2> QED BY <1>1, <1>2, <1>3, <2>1, <2>2, AppendKeeps DEF InOnePlace
<1>6. OnlySent'
  BY <1>1, <1>2, AppendKeeps DEF RpcInv, OnlySent, WasSent
<1>7. OnlyAnswers'
  BY <1>1, <1>2, AppendKeeps
<1> QED BY <1>4, <1>5, <1>6, <1>7 DEF RpcInv

LEMMA RestartKeeps ==
  ASSUME RpcInv, Restart
  PROVE  RpcInv'
<1>1. /\ up' = TRUE /\ log' = Append(log, Restarted)
      /\ UNCHANGED <<call, inbox, queue, taken, done>>
  BY DEF Restart
<1>2. Len(log) \in Nat /\ Len(log') = Len(log) + 1
      /\ log' \in Seq(AnyRequest \cup {Restarted})
      /\ \A i \in 1 .. Len(log) : log'[i] = log[i]
  BY <1>1, LogTyped, LogGrows DEF RpcInv
<1>3. Typed'
  BY <1>1, <1>2 DEF RpcInv, Typed
<1>4. InOnePlace'
  <2>1. \A r \in queue : r # Restarted
    BY NotMarkers DEF RpcInv, Typed
  <2>2. taken # Restarted
    BY NotMarkers DEF RpcInv, Typed
  <2>3. \A i \in 1 .. Len(log) : i \in 1 .. Len(log')
    BY <1>2
  <2> QED BY <1>1, <1>2, <2>1, <2>2, <2>3, AppendKeeps DEF RpcInv, InOnePlace
<1>5. OnlySent'
  BY <1>1, AppendKeeps DEF RpcInv, OnlySent, WasSent
<1>6. OnlyAnswers'
  BY <1>1, AppendKeeps
<1> QED BY <1>3, <1>4, <1>5, <1>6 DEF RpcInv

LEMMA RespondKeeps ==
  ASSUME RpcInv, Respond
  PROVE  RpcInv'
<1> DEFINE c == taken.client
           reply == [to |-> taken, at |-> done]
<1>1. /\ done # 0 /\ taken' = NoRequest /\ done' = 0 /\ UNCHANGED <<call, queue, up, log>>
      /\ inbox' = [inbox EXCEPT ![c] = IF Waiting(c) /\ Current(c) = taken
                                       THEN @ \cup {reply} ELSE @]
  BY DEF Respond
<1>2. /\ taken \in AnyRequest /\ c \in Clients /\ reply \in [to : AnyRequest, at : Nat]
      /\ done \in 1 .. Len(log) /\ log[done] = taken
  BY <1>1 DEF RpcInv, Typed, InOnePlace, AnyRequest
<1>3. Typed'
  BY <1>1, <1>2 DEF RpcInv, Typed
<1>4. ~Executed(NoRequest) /\ \A r \in queue : r # NoRequest
  BY NotMarkers, LogTyped DEF RpcInv, Typed, Executed
<1>5. InOnePlace'
  BY <1>1, <1>4 DEF RpcInv, InOnePlace, Executed
<1>6. OnlySent'
  BY <1>1 DEF RpcInv, OnlySent, WasSent
<1>7. OnlyAnswers'
  <2>1. ASSUME NEW d \in Clients, NEW q \in inbox'[d]
        PROVE  Answers(q, d)
    <3>1. CASE q \in inbox[d]
      BY <3>1 DEF RpcInv, OnlyAnswers
    <3>2. CASE q \notin inbox[d]
      <4>1. d = c /\ Waiting(c) /\ Current(c) = taken /\ q = reply
        BY <1>1, <1>2, <2>1, <3>2 DEF RpcInv, Typed
      <4> QED BY <4>1, <1>2 DEF Answers
    <3> QED BY <3>1, <3>2
  <2>2. \A q, d : Answers(q, d)' = Answers(q, d)
    BY <1>1 DEF Answers, Waiting, Current
  <2> QED BY <1>1, <2>1, <2>2 DEF RpcInv, OnlyAnswers, Current
<1> QED BY <1>3, <1>5, <1>6, <1>7 DEF RpcInv

LEMMA DownKeeps ==
  ASSUME RpcInv, Down
  PROVE  RpcInv'
<1>1. /\ up' = FALSE /\ queue' = {} /\ taken' = NoRequest /\ done' = 0
      /\ UNCHANGED <<call, inbox, log>>
  BY DEF Down
<1>2. ~Executed(NoRequest)
  BY NotMarkers, LogTyped DEF RpcInv, Executed
<1>3. Typed' /\ InOnePlace'
  BY <1>1, <1>2 DEF RpcInv, Typed, InOnePlace, Executed
<1>4. OnlySent'
  BY <1>1 DEF RpcInv, OnlySent, WasSent
<1>5. OnlyAnswers'
  BY <1>1 DEF RpcInv, OnlyAnswers, Answers, Waiting, Current
<1> QED BY <1>3, <1>4, <1>5 DEF RpcInv

(* The steps of the server, which Iox2Connection shares. *)
LEMMA ServerKeeps ==
  ASSUME RpcInv, Serve \/ Unserviceable \/ Kill \/ Restart
  PROVE  RpcInv'
<1>1. CASE Serve
  BY <1>1, TakeKeeps, HandleKeeps, RespondKeeps DEF Serve
<1>2. CASE Unserviceable \/ Kill
  BY <1>2, DownKeeps DEF Unserviceable, Kill
<1>3. CASE Restart
  BY <1>3, RestartKeeps
<1> QED BY <1>1, <1>2, <1>3

LEMMA RpcStuttering ==
  ASSUME RpcInv, UNCHANGED vars
  PROVE  RpcInv'
BY DEF vars, RpcInv, Typed, InOnePlace, OnlySent, OnlyAnswers, Executed, WasSent, Answers,
       Waiting, Current

-----------------------------------------------------------------------------
(* With one connection per client, which never changes its port, requests  *)
(* are also carried out in the order they were made.                       *)

OneConnection ==
  /\ \A c \in Clients : call[c].port = 1 /\ call[c].n <= MaxCalls
  /\ \A r \in queue : r.port = 1 /\ r.n > 0
  /\ taken # NoRequest => taken.port = 1 /\ taken.n > 0
  /\ \A i \in 1 .. Len(log) : log[i] # Restarted => log[i].port = 1 /\ log[i].n > 0

Before(r, q) == r.client = q.client => r.n < q.n

InTurn ==
  /\ \A i \in 1 .. Len(log), q \in queue : log[i] # Restarted => Before(log[i], q)
  /\ taken # NoRequest /\ done = 0 =>
       \A i \in 1 .. Len(log) : log[i] # Restarted => Before(log[i], taken)
  /\ taken # NoRequest => \A q \in queue : Before(taken, q)

(* What is known of a call that is over. *)
Resolved ==
  \A c \in Clients :
    /\ call[c].status = "replied" =>
         call[c].at \in 1 .. Len(log) /\ log[call[c].at] = Current(c)
    /\ call[c].status = "refused" => Current(c) \notin queue /\ Current(c) # taken

SpecInv == RpcInv /\ OneConnection /\ InTurn /\ Resolved

LEMMA SpecInit == Init => SpecInv
<1> SUFFICES ASSUME Init PROVE SpecInv
  OBVIOUS
<1>1. RpcInv
  BY RpcInit
<1>2. Len(log) = 0
  BY DEF Init
<1> QED BY <1>1, <1>2, RpcAssumption DEF Init, SpecInv, OneConnection, InTurn, Resolved, NeverCalled

(* A request that client c has just numbered comes after all its others.   *)
LEMMA LatestInTurn ==
  ASSUME SpecInv, NEW c \in Clients, NEW r, r = Request(c, 1, call[c].n + 1)
  PROVE  /\ r \in AnyRequest /\ r.client = c /\ r.port = 1 /\ r.n = call[c].n + 1 /\ r.n > 0
         /\ r \notin queue /\ r # taken
         /\ \A i \in 1 .. Len(log) : log[i] # Restarted => Before(log[i], r)
         /\ taken # NoRequest => Before(taken, r)
<1>1. call[c].n \in Nat
  BY CallFields DEF SpecInv, RpcInv
<1>2. r \in AnyRequest /\ r.client = c /\ r.port = 1 /\ r.n = call[c].n + 1
  BY <1>1 DEF Request, AnyRequest
<1>3. \A q \in AnyRequest : WasSent(q) => Before(q, r) /\ q # r
  BY <1>1, <1>2 DEF WasSent, Before, AnyRequest
<1>4. /\ \A q \in queue : q \in AnyRequest /\ WasSent(q)
      /\ taken # NoRequest => taken \in AnyRequest /\ WasSent(taken)
      /\ \A i \in 1 .. Len(log) : log[i] # Restarted => log[i] \in AnyRequest /\ WasSent(log[i])
  BY LogTyped DEF SpecInv, RpcInv, Typed, OnlySent
<1>5. r # NoRequest
  BY <1>2, NotMarkers
<1> QED BY <1>1, <1>2, <1>3, <1>4, <1>5

LEMMA SendInTurn ==
  ASSUME SpecInv, NEW c \in Clients, Send(c)
  PROVE  SpecInv'
<1> DEFINE r == Request(c, 1, call[c].n + 1)
<1>1. Typed /\ call[c].port = 1 /\ call[c].n \in Nat /\ call[c].n < MaxCalls
  BY CallFields DEF SpecInv, RpcInv, OneConnection, Send
<1>2. queue' \in {queue, queue \cup {r}} /\ UNCHANGED <<inbox, up, taken, done, log>>
  BY <1>1 DEF Send
<1>3. RpcInv'
  BY SendKeeps DEF SpecInv
<1>4. /\ call'[c].port = 1 /\ call'[c].n = call[c].n + 1 /\ call'[c].status = "waiting"
      /\ \A d \in Clients : d # c => call'[d] = call[d]
  BY <1>1, CallAfterSend
<1> HIDE DEF r
<1>5. OneConnection'
  BY <1>1, <1>2, <1>4, RpcAssumption, LatestInTurn DEF SpecInv, OneConnection, r
<1>6. InTurn'
  BY <1>2, LatestInTurn DEF SpecInv, InTurn, r
<1>7. Resolved'
  <2>1. \A d \in Clients : d # c => Current(d)' = Current(d)
    BY <1>4 DEF Current
  <2>2. \A d \in Clients : d # c => Current(d) # r
    BY LatestInTurn, CurrentTyped, <1>1 DEF r
  <2> QED BY <1>2, <1>4, <2>1, <2>2 DEF SpecInv, Resolved
<1> QED BY <1>3, <1>5, <1>6, <1>7 DEF SpecInv

LEMMA RefuseInTurn ==
  ASSUME SpecInv, NEW c \in Clients, Refuse(c)
  PROVE  SpecInv'
<1>1. Typed /\ call[c].port = 1 /\ call[c].n \in Nat /\ call[c].n < MaxCalls
  BY CallFields DEF SpecInv, RpcInv, OneConnection, Refuse
<1>2. UNCHANGED <<inbox, queue, up, taken, done, log>>
  BY DEF Refuse, serverVars
<1>3. RpcInv'
  BY RefuseKeeps DEF SpecInv
<1>4. /\ call'[c].port = 1 /\ call'[c].n = call[c].n + 1 /\ call'[c].status = "refused"
      /\ \A d \in Clients : d # c => call'[d] = call[d]
  BY <1>1, CallAfterRefuse
<1>5. OneConnection'
  BY <1>1, <1>2, <1>4, RpcAssumption DEF SpecInv, OneConnection
<1>6. InTurn'
  BY <1>2 DEF SpecInv, InTurn
<1>7. Resolved'
  <2>1. \A d \in Clients : d # c => Current(d)' = Current(d)
    BY <1>4 DEF Current
  <2>2. Current(c)' \notin queue /\ Current(c)' # taken
    BY <1>4, LatestInTurn DEF Current
  <2> QED BY <1>2, <1>4, <2>1, <2>2 DEF SpecInv, Resolved
<1> QED BY <1>3, <1>5, <1>6, <1>7 DEF SpecInv

(* Client c keeps its request: it returns, gives up or goes on waiting.    *)
LEMMA SameCallInTurn ==
  ASSUME SpecInv, RpcInv', NEW c \in Clients,
         \A d \in Clients : d # c => call'[d] = call[d],
         call'[c].port = call[c].port, call'[c].n = call[c].n,
         queue' \subseteq queue, UNCHANGED <<taken, done, log>>,
         call'[c].status = "replied" =>
           call'[c].at \in 1 .. Len(log) /\ log[call'[c].at] = Current(c),
         call'[c].status # "refused"
  PROVE  SpecInv'
<1>1. \A d \in Clients : Current(d)' = Current(d)
  BY DEF Current
<1>2. OneConnection'
  BY DEF SpecInv, OneConnection
<1>3. InTurn'
  BY DEF SpecInv, InTurn
<1>4. Resolved'
  BY <1>1 DEF SpecInv, Resolved
<1> QED BY <1>2, <1>3, <1>4 DEF SpecInv

LEMMA AwaitInTurn ==
  ASSUME SpecInv, NEW c \in Clients, Await(c)
  PROVE  SpecInv'
<1>0. RpcInv /\ Typed
  BY DEF SpecInv, RpcInv
<1>1. CASE ReceiveResponse(c)
  <2>1. queue' = queue /\ UNCHANGED <<up, taken, done, log>>
    BY <1>1 DEF ReceiveResponse, serverVars
  <2> QED BY <1>0, <1>1, <2>1, ReceiveKeeps, CallAfterReceive, SameCallInTurn
<1>2. CASE PassDeadline(c)
  <2>1. /\ queue' = queue /\ UNCHANGED <<up, taken, done, log>>
        /\ call[c].status = "waiting" /\ call' = [call EXCEPT ![c].late = TRUE]
    BY <1>2 DEF PassDeadline, serverVars, Waiting
  <2> QED BY <1>0, <1>2, <2>1, DeadlineKeeps, CallAfterDeadline, SameCallInTurn
<1>3. CASE GiveUp(c)
  <2>1. /\ call' = [call EXCEPT ![c].status = "timeout"] /\ inbox' = [inbox EXCEPT ![c] = {}]
        /\ queue' \in {queue, queue \ {Current(c)}} /\ UNCHANGED <<up, taken, done, log>>
    BY <1>3 DEF GiveUp
  <2>2. "timeout" \in Status /\ queue' \subseteq queue
    BY <2>1 DEF Status
  <2>3. RpcInv'
    BY <1>0, <2>1, AbandonKeeps
  <2>4. /\ call'[c].status = "timeout" /\ call'[c].port = call[c].port /\ call'[c].n = call[c].n
        /\ \A d \in Clients : d # c => call'[d] = call[d]
    BY <1>0, <2>1, <2>2, CallAfterStatus
  <2> QED BY <2>1, <2>2, <2>3, <2>4, SameCallInTurn
<1> QED BY <1>1, <1>2, <1>3 DEF Await

LEMMA ReceiveInTurn ==
  ASSUME SpecInv, ReceiveRequest
  PROVE  SpecInv'
<1>1. PICK r \in queue : First(r) /\ taken' = r /\ queue' = queue \ {r}
  BY DEF ReceiveRequest
<1>2. UNCHANGED <<call, inbox, up, done, log>> /\ taken = NoRequest
  BY DEF ReceiveRequest
<1>3. RpcInv'
  BY TakeKeeps DEF SpecInv
<1>4. OneConnection'
  BY <1>1, <1>2 DEF SpecInv, OneConnection
<1>5. InTurn'
  <2>1. \A q \in queue' : Before(r, q)
    <3> SUFFICES ASSUME NEW q \in queue, q # r, q.client = r.client PROVE r.n < q.n
      BY <1>1 DEF Before
    <3>1. q \in AnyRequest /\ r \in AnyRequest
      BY DEF SpecInv, RpcInv, Typed
    <3>2. r.n <= q.n /\ q.port = r.port
      BY <1>1 DEF First, SpecInv, OneConnection
    <3>3. q.n # r.n
      BY <3>1, <3>2 DEF AnyRequest
    <3> QED BY <3>1, <3>2, <3>3 DEF AnyRequest
  <2> QED BY <1>1, <1>2, <2>1 DEF SpecInv, InTurn
<1>6. Resolved'
  BY <1>1, <1>2 DEF SpecInv, Resolved, Current
<1> QED BY <1>3, <1>4, <1>5, <1>6 DEF SpecInv

LEMMA HandleInTurn ==
  ASSUME SpecInv, HandleRequest
  PROVE  SpecInv'
<1>1. /\ taken # NoRequest /\ done = 0 /\ log' = Append(log, taken) /\ done' = Len(log) + 1
      /\ UNCHANGED <<call, inbox, queue, up, taken>>
  BY DEF HandleRequest
<1>2. Typed /\ taken \in AnyRequest /\ Len(log) \in Nat
  BY <1>1, LogTyped DEF SpecInv, RpcInv, Typed
<1>3. /\ Len(log') = Len(log) + 1 /\ log'[Len(log) + 1] = taken
      /\ \A i \in 1 .. Len(log) : log'[i] = log[i]
  BY <1>1, <1>2, LogGrows
<1>4. \A i \in 1 .. Len(log') : i \in 1 .. Len(log) \/ i = Len(log) + 1
  BY <1>2, <1>3
<1>5. RpcInv'
  BY HandleKeeps DEF SpecInv
<1>6. OneConnection'
  BY <1>1, <1>3, <1>4 DEF SpecInv, OneConnection
<1>7. InTurn'
  BY <1>1, <1>2, <1>3, <1>4 DEF SpecInv, InTurn
<1>8. Resolved'
  BY <1>1, <1>2, <1>3 DEF SpecInv, Resolved, Current
<1> QED BY <1>5, <1>6, <1>7, <1>8 DEF SpecInv

LEMMA RestartInTurn ==
  ASSUME SpecInv, Restart
  PROVE  SpecInv'
<1>1. /\ log' = Append(log, Restarted) /\ UNCHANGED <<call, inbox, queue, taken, done>>
  BY DEF Restart
<1>2. Typed /\ Len(log) \in Nat
  BY <1>1, LogTyped DEF SpecInv, RpcInv
<1>3. /\ Len(log') = Len(log) + 1 /\ log'[Len(log) + 1] = Restarted
      /\ \A i \in 1 .. Len(log) : log'[i] = log[i]
  BY <1>1, <1>2, LogGrows
<1>4. \A i \in 1 .. Len(log') : i \in 1 .. Len(log) \/ i = Len(log) + 1
  BY <1>2, <1>3
<1>5. RpcInv'
  BY RestartKeeps DEF SpecInv
<1>6. OneConnection'
  BY <1>1, <1>3, <1>4 DEF SpecInv, OneConnection
<1>7. InTurn'
  BY <1>1, <1>3, <1>4 DEF SpecInv, InTurn
<1>8. Resolved'
  BY <1>1, <1>2, <1>3 DEF SpecInv, Resolved, Current
<1> QED BY <1>5, <1>6, <1>7, <1>8 DEF SpecInv

(* What is taken is dropped, by an answer or with the server.              *)
LEMMA DroppedInTurn ==
  ASSUME SpecInv, RpcInv', taken' = NoRequest, queue' \in {queue, {}}, UNCHANGED <<call, log>>
  PROVE  SpecInv'
<1>1. \A c \in Clients : Current(c) # NoRequest
  BY CurrentTyped, NotMarkers DEF SpecInv, RpcInv
<1> QED BY <1>1 DEF SpecInv, OneConnection, InTurn, Resolved, Current

(* The inductive invariant of Spec. *)
LEMMA SpecStep == SpecInv /\ [Next]_vars => SpecInv'
<1> SUFFICES ASSUME SpecInv, [Next]_vars PROVE SpecInv'
  OBVIOUS
<1>0. RpcInv
  BY DEF SpecInv
<1>1. ASSUME NEW c \in Clients, Send(c) \/ Refuse(c) \/ Await(c)
      PROVE  SpecInv'
  BY <1>1, SendInTurn, RefuseInTurn, AwaitInTurn
<1>2. CASE ReceiveRequest
  BY <1>2, ReceiveInTurn
<1>3. CASE HandleRequest
  BY <1>3, HandleInTurn
<1>4. CASE Respond
  BY <1>0, <1>4, RespondKeeps, DroppedInTurn DEF Respond
<1>5. CASE Unserviceable \/ Kill
  BY <1>0, <1>5, DownKeeps, DroppedInTurn DEF Unserviceable, Kill, Down
<1>6. CASE Restart
  BY <1>6, RestartInTurn
<1>7. CASE UNCHANGED vars
  <2>1. RpcInv' /\ UNCHANGED <<call, queue, taken, done, log>>
    BY <1>0, <1>7, RpcStuttering DEF vars
  <2> QED BY <2>1 DEF SpecInv, OneConnection, InTurn, Resolved, Current
<1> QED BY <1>1, <1>2, <1>3, <1>4, <1>5, <1>6, <1>7 DEF Next, Serve

(* The inductive invariant of the transport as a whole.                   *)
THEOREM SpecInvariant == Spec => []SpecInv
BY SpecInit, SpecStep, PTL DEF Spec

-----------------------------------------------------------------------------
(* What follows from the invariant. *)

(* A request that was executed is at one position of the log.              *)
LEMMA OnePosition ==
  ASSUME RpcInv, NEW i \in 1 .. Len(log), log[i] # Restarted
  PROVE  Positions(log[i]) = {i}
BY LogTyped DEF RpcInv, InOnePlace, Positions

LEMMA ExecutedOnce == RpcInv => AtMostOnce
<1> SUFFICES ASSUME RpcInv, NEW r \in Range(log) \ {Restarted}
             PROVE  Cardinality(Positions(r)) = 1 /\ r.n <= call[r.client].n
  BY DEF AtMostOnce
<1>1. PICK i \in 1 .. Len(log) : log[i] = r
  BY LogTyped DEF RpcInv, Range
<1>2. Positions(r) = {i} /\ WasSent(r)
  BY <1>1, OnePosition DEF RpcInv, OnlySent
<1> QED BY <1>2, FS_Singleton DEF WasSent

LEMMA AtMostOneReply ==
  ASSUME RpcInv, NEW c \in Clients
  PROVE  Cardinality(inbox[c]) \in {0, 1}
<1>1. CASE inbox[c] = {}
  BY <1>1, FS_EmptySet
<1>2. ASSUME NEW q \in inbox[c]
      PROVE  inbox[c] = {q}
  <2> SUFFICES ASSUME NEW p \in inbox[c] PROVE p = q
    OBVIOUS
  <2>1. p \in [to : AnyRequest, at : Nat] /\ q \in [to : AnyRequest, at : Nat]
    BY DEF RpcInv, Typed
  <2>2. /\ p.to = Current(c) /\ q.to = Current(c) /\ p.at \in 1 .. Len(log) /\ q.at \in 1 .. Len(log)
        /\ log[p.at] = Current(c) /\ log[q.at] = Current(c)
    BY DEF RpcInv, OnlyAnswers, Answers
  <2>3. p.at = q.at
    BY <2>2, CurrentTyped, NotMarkers DEF RpcInv, InOnePlace
  <2> QED BY <2>1, <2>2, <2>3
<1> QED BY <1>1, <1>2, FS_Singleton

LEMMA RequestTyped ==
  ASSUME SpecInv, NEW r \in AnyRequest, r.port = 1, r.n > 0, WasSent(r)
  PROVE  r \in Requests
<1>1. /\ r.client \in Clients /\ r.n \in Nat /\ r = Request(r.client, r.port, r.n)
  BY DEF AnyRequest, Request
<1>2. call[r.client].n \in Nat /\ call[r.client].n <= MaxCalls
  BY <1>1, CallFields DEF SpecInv, RpcInv, OneConnection
<1>3. r.n \in 1 .. MaxCalls /\ 1 \in 1 .. MaxCalls + 1
  BY <1>1, <1>2, RpcAssumption DEF WasSent
<1> QED BY <1>1, <1>3 DEF Requests

LEMMA InvariantTyped == SpecInv => TypeOK
<1> SUFFICES ASSUME SpecInv PROVE TypeOK
  OBVIOUS
<1>0. Typed /\ RpcInv /\ Len(log) \in Nat
  BY LogTyped DEF SpecInv, RpcInv
<1>1. call \in [Clients -> [status : {"idle", "waiting", "replied", "timeout", "refused"},
                           port : 1 .. MaxCalls + 1, n : 0 .. MaxCalls,
                           after : Nat, late : BOOLEAN, at : Nat]]
  <2>1. \A c \in Clients : call[c].port \in 1 .. MaxCalls + 1 /\ call[c].n \in 0 .. MaxCalls
    BY <1>0, CallFields, RpcAssumption DEF SpecInv, OneConnection
  <2> QED BY <1>0, <2>1 DEF Typed, Calls, Status
<1>2. /\ queue \subseteq Requests /\ taken \in Requests \cup {NoRequest}
      /\ \A i \in 1 .. Len(log) : log[i] \in Requests \cup {Restarted}
  BY <1>0, LogTyped, RequestTyped DEF SpecInv, OneConnection, RpcInv, Typed, OnlySent
<1>3. log \in Seq(Requests \cup {Restarted})
  BY <1>0, <1>2 DEF Typed
<1>4. done \in 0 .. Len(log)
  BY <1>0 DEF RpcInv, Typed, InOnePlace
<1>5. \A c \in Clients : inbox[c] \subseteq [to : Requests, at : Nat] /\ Cardinality(inbox[c]) <= 1
  <2> SUFFICES ASSUME NEW c \in Clients
               PROVE  inbox[c] \subseteq [to : Requests, at : Nat] /\ Cardinality(inbox[c]) <= 1
    OBVIOUS
  <2>1. ASSUME NEW q \in inbox[c] PROVE q \in [to : Requests, at : Nat]
    <3>1. q \in [to : AnyRequest, at : Nat] /\ q.at \in 1 .. Len(log) /\ log[q.at] = q.to
      BY <1>0 DEF RpcInv, Typed, OnlyAnswers, Answers
    <3>2. q.to \in Requests
      BY <1>2, <3>1, NotMarkers
    <3> QED BY <3>1, <3>2
  <2> QED BY <1>0, <2>1, AtMostOneReply
<1> QED BY <1>0, <1>1, <1>2, <1>3, <1>4, <1>5 DEF TypeOK, Typed

LEMMA RepliesAreOwn == SpecInv => OwnResponse
<1> SUFFICES ASSUME SpecInv, NEW c \in Clients, call[c].status = "replied"
             PROVE  Positions(Current(c)) = {call[c].at} /\ call[c].at > call[c].after
  BY DEF OwnResponse
<1>1. /\ RpcInv /\ call[c].at \in 1 .. Len(log) /\ log[call[c].at] = Current(c)
  BY DEF SpecInv, Resolved
<1>2. Current(c) # Restarted
  BY <1>1, CurrentTyped, NotMarkers DEF RpcInv
<1> QED BY <1>1, <1>2, OnePosition DEF RpcInv, OnlyAnswers

(* The state of the transport keeps its types: at most one reply waits in  *)
(* an inbox, and what is logged was a request or a restart.                *)
THEOREM TransportTypeCorrect == Spec => []TypeOK
BY SpecInvariant, InvariantTyped, PTL

(* drain_requests carries a request out at most once, and none that was    *)
(* not sent, however deadlines, kills and restarts fall.                   *)
THEOREM AtMostOnceHolds == Spec => []AtMostOnce
<1>1. SpecInv => AtMostOnce
  BY ExecutedOnce DEF SpecInv
<1> QED BY <1>1, SpecInvariant, PTL

(* What Iox2RpcClient.request returns is the reply to that very request,   *)
(* carried out after the call began.                                       *)
THEOREM OwnResponseHolds == Spec => []OwnResponse
BY SpecInvariant, RepliesAreOwn, PTL

-----------------------------------------------------------------------------
(* Every step of the transport is a step of RpcService, or none.           *)

(* The log as RpcService sees it. *)
Entry(r)   == IF r = Restarted THEN <<Restarted>> ELSE <<r.client, r.n>>
ServiceLog == [i \in DOMAIN log |-> IF log[i] = Restarted THEN <<Restarted>>
                                    ELSE <<log[i].client, log[i].n>>]

LEMMA LogAppends ==
  ASSUME Typed, NEW r \in AnyRequest \cup {Restarted}, log' = Append(log, r)
  PROVE  ServiceLog' = Append(ServiceLog, Entry(r))
<1> DEFINE E == {Entry(q) : q \in AnyRequest \cup {Restarted}}
<1>1. /\ Len(log) \in Nat /\ DOMAIN log = 1 .. Len(log) /\ DOMAIN log' = 1 .. Len(log) + 1
      /\ \A i \in 1 .. Len(log) : log'[i] = log[i]
      /\ log'[Len(log) + 1] = r
  BY LogTyped, LogGrows
<1>2. /\ ServiceLog = [i \in 1 .. Len(log) |-> Entry(log[i])]
      /\ ServiceLog' = [i \in 1 .. Len(log) + 1 |-> Entry(log'[i])]
  BY <1>1 DEF ServiceLog, Entry
<1>3. \A q \in AnyRequest \cup {Restarted} : Entry(q) \in E
  OBVIOUS
<1> HIDE DEF E
<1>4. ServiceLog \in Seq(E) /\ Len(ServiceLog) = Len(log)
  BY <1>1, <1>2, <1>3, LogTyped
<1>5. Entry(r) \in E
  BY <1>3
<1> HIDE DEF Entry, E
<1>6. /\ Append(ServiceLog, Entry(r)) \in Seq(E)
      /\ Len(Append(ServiceLog, Entry(r))) = Len(log) + 1
      /\ \A i \in 1 .. Len(log) : Append(ServiceLog, Entry(r))[i] = ServiceLog[i]
      /\ Append(ServiceLog, Entry(r))[Len(log) + 1] = Entry(r)
  BY <1>4, <1>5, AppendProperties
<1>7. /\ ServiceLog' \in Seq(E) /\ Len(ServiceLog') = Len(log) + 1
      /\ \A i \in 1 .. Len(log) + 1 : ServiceLog'[i] = Append(ServiceLog, Entry(r))[i]
  <2>1. \A i \in 1 .. Len(log) + 1 : i \in 1 .. Len(log) \/ i = Len(log) + 1
    BY <1>1
  <2>2. \A i \in 1 .. Len(log) + 1 : Entry(log'[i]) \in E
    BY <1>1, <1>3, <1>5, <2>1, LogTyped
  <2>3. ServiceLog' \in Seq(E) /\ Len(ServiceLog') = Len(log) + 1
    BY <1>1, <1>2, <2>2
  <2> QED BY <1>1, <1>2, <1>6, <2>1, <2>3
<1> QED BY <1>6, <1>7, SeqEqual

LEMMA InitRefines == Init => Service!ServiceInit
<1> SUFFICES ASSUME Init PROVE Service!ServiceInit
  OBVIOUS
<1>1. DOMAIN log = {}
  BY DEF Init
<1> QED BY <1>1 DEF Init, Service!ServiceInit, NeverCalled

LEMMA SendRefines ==
  ASSUME SpecInv, NEW c \in Clients, Send(c)
  PROVE  Service!Call(c)
<1>1. /\ call[c].status # "waiting" /\ log' = log
      /\ call'[c].status = "waiting" /\ call'[c].n = call[c].n + 1 /\ call'[c].at = call[c].at
      /\ \A d \in Clients : d # c => call'[d] = call[d]
  BY CallAfterSend DEF SpecInv, RpcInv, Send, Waiting
<1> QED BY <1>1 DEF Service!Call

LEMMA RefuseRefines ==
  ASSUME SpecInv, NEW c \in Clients, Refuse(c)
  PROVE  Service!Decline(c)
<1>1. /\ call[c].status # "waiting" /\ log' = log
      /\ call'[c].status = "refused" /\ call'[c].n = call[c].n + 1 /\ call'[c].at = call[c].at
      /\ \A d \in Clients : d # c => call'[d] = call[d]
  BY CallAfterRefuse DEF SpecInv, RpcInv, Refuse, Waiting, serverVars
<1> QED BY <1>1 DEF Service!Decline

LEMMA ReceiveRefines ==
  ASSUME SpecInv, NEW c \in Clients, ReceiveResponse(c)
  PROVE  Service!Return(c)
<1>1. call[c].status = "waiting" /\ log' = log
  BY DEF ReceiveResponse, Waiting, serverVars
<1>2. /\ call'[c].status = "replied" /\ call'[c].n = call[c].n
      /\ call'[c].at \in 1 .. Len(log) /\ log[call'[c].at] = Current(c)
      /\ \A d \in Clients : d # c => call'[d] = call[d]
  BY CallAfterReceive DEF SpecInv
<1>3. call'[c].at \in DOMAIN log /\ Current(c) # Restarted
      /\ Current(c).client = c /\ Current(c).n = call[c].n
  BY <1>2, LogTyped, CurrentTyped, NotMarkers DEF SpecInv, RpcInv
<1> QED BY <1>1, <1>2, <1>3 DEF Service!Return

LEMMA GiveUpRefines ==
  ASSUME SpecInv, NEW c \in Clients, GiveUp(c)
  PROVE  Service!Fail(c)
<1>1. call[c].status = "waiting" /\ log' = log /\ call' = [call EXCEPT ![c].status = "timeout"]
  BY DEF GiveUp, Waiting
<1>2. /\ call'[c].status = "timeout" /\ call'[c].n = call[c].n /\ call'[c].at = call[c].at
      /\ \A d \in Clients : d # c => call'[d] = call[d]
  BY <1>1, CallAfterStatus DEF SpecInv, RpcInv, Status
<1>3. [d \in Clients |-> call[d].status]' = [[d \in Clients |-> call[d].status] EXCEPT ![c] = "timeout"]
  BY <1>2
<1>4. UNCHANGED <<[d \in Clients |-> call[d].n], [d \in Clients |-> call[d].at]>>
  BY <1>2
<1> QED BY <1>1, <1>3, <1>4 DEF Service!Fail

LEMMA DeadlineRefines ==
  ASSUME SpecInv, NEW c \in Clients, PassDeadline(c)
  PROVE  UNCHANGED Service!serviceVars
<1>1. log' = log /\ call' = [call EXCEPT ![c].late = TRUE]
  BY DEF PassDeadline, serverVars
<1>2. /\ call'[c].status = call[c].status /\ call'[c].n = call[c].n /\ call'[c].at = call[c].at
      /\ \A d \in Clients : d # c => call'[d] = call[d]
  BY <1>1, CallAfterDeadline DEF SpecInv, RpcInv
<1> QED BY <1>1, <1>2 DEF Service!serviceVars

LEMMA HandleRefines ==
  ASSUME SpecInv, HandleRequest
  PROVE  \E c \in Clients : \E n \in 1 .. call[c].n : Service!Execute(c, n)
<1> DEFINE c == taken.client
           n == taken.n
<1>1. /\ taken # NoRequest /\ done = 0 /\ log' = Append(log, taken) /\ call' = call
  BY DEF HandleRequest
<1>2. /\ Typed /\ taken \in AnyRequest /\ taken # Restarted /\ WasSent(taken)
      /\ taken.port = 1 /\ n > 0 /\ DOMAIN log = 1 .. Len(log)
  BY <1>1, LogTyped, NotMarkers DEF SpecInv, RpcInv, Typed, OnlySent, OneConnection
<1>3. c \in Clients /\ n \in Nat /\ taken = Request(c, taken.port, n)
  BY <1>2 DEF AnyRequest, Request
<1>4. n \in 1 .. call[c].n
  BY <1>2, <1>3, CallFields DEF WasSent
<1>5. ~(n = call[c].n /\ call[c].status = "refused")
  BY <1>2, <1>3 DEF SpecInv, Resolved, OneConnection, Current
<1>6. ServiceLog' = Append(ServiceLog, <<c, n>>)
  BY <1>1, <1>2, LogAppends DEF Entry
<1>7. \A i \in DOMAIN ServiceLog : ServiceLog[i][1] = c => ServiceLog[i][2] < n
  <2> SUFFICES ASSUME NEW i \in 1 .. Len(log), ServiceLog[i][1] = c
               PROVE  ServiceLog[i][2] < n
    BY <1>2 DEF ServiceLog
  <2>1. CASE log[i] = Restarted
    BY <1>2, <1>3, <2>1, RpcAssumption DEF ServiceLog
  <2>2. CASE log[i] # Restarted
    <3>1. log[i].client = c /\ ServiceLog[i][2] = log[i].n
      BY <1>2, <2>2 DEF ServiceLog
    <3> QED BY <1>1, <2>2, <3>1 DEF SpecInv, InTurn, Before
  <2> QED BY <2>1, <2>2
<1> QED BY <1>1, <1>3, <1>4, <1>5, <1>6, <1>7 DEF Service!Execute, ServiceLog

LEMMA RestartRefines ==
  ASSUME SpecInv, Restart
  PROVE  Service!LoseStores
<1>1. log' = Append(log, Restarted) /\ call' = call
  BY DEF Restart
<1>2. ServiceLog' = Append(ServiceLog, <<Restarted>>)
  BY <1>1, LogAppends DEF Entry, SpecInv, RpcInv
<1> QED BY <1>1, <1>2 DEF Service!LoseStores, ServiceLog

LEMMA StepRefines == SpecInv /\ [Next]_vars => [Service!ServiceNext]_(Service!serviceVars)
<1> SUFFICES ASSUME SpecInv, [Next]_vars
             PROVE  Service!ServiceNext \/ UNCHANGED Service!serviceVars
  OBVIOUS
<1>1. ASSUME NEW c \in Clients, Send(c) \/ Refuse(c) \/ ReceiveResponse(c) \/ GiveUp(c)
      PROVE  Service!ServiceNext
  BY <1>1, SendRefines, RefuseRefines, ReceiveRefines, GiveUpRefines DEF Service!ServiceNext
<1>2. ASSUME NEW c \in Clients, PassDeadline(c)
      PROVE  UNCHANGED Service!serviceVars
  BY <1>2, DeadlineRefines
<1>3. CASE HandleRequest
  <2>1. PICK c \in Clients : \E n \in 1 .. call[c].n : Service!Execute(c, n)
    BY <1>3, HandleRefines
  <2>2. call[c].n = [d \in Clients |-> call[d].n][c]
    OBVIOUS
  <2> QED BY <2>1, <2>2 DEF Service!ServiceNext
<1>4. CASE Restart
  BY <1>4, RestartRefines DEF Service!ServiceNext
<1>5. CASE ReceiveRequest \/ Respond \/ Down \/ UNCHANGED vars
  <2>1. UNCHANGED <<call, log>>
    BY <1>5 DEF ReceiveRequest, Respond, Down, vars
  <2> QED BY <2>1 DEF Service!serviceVars
<1> QED BY <1>1, <1>2, <1>3, <1>4, <1>5 DEF Next, Await, Serve, Unserviceable, Kill

(* The transport implements RpcService: the safety part of                 *)
(* ImplementsRpcService.  Calls are carried out in the order they were     *)
(* made, at most once, a refused one never, and a call returns the reply   *)
(* to itself or fails.                                                     *)
THEOREM ServiceImplemented == Spec => Service!ServiceSafety
BY InitRefines, SpecInvariant, StepRefines, PTL DEF Spec, Service!ServiceSafety

-----------------------------------------------------------------------------
(***************************************************************************)
(* redis-py connections.  The transport keeps its invariant under their    *)
(* reconnects and interrupts too.  The rest of the invariant follows a     *)
(* reply through the connection: from request() into one of the two        *)
(* pending fields, and from there into the result of the command.          *)
(***************************************************************************)

Phases     == {"idle", "ready", "sending", "reading", "failing"}
ReplyKinds == {"value", "nil", "ResponseError"}
Reasons    == {"TimeoutError", "ConnectionError", "interrupted"}
Replies    == [kind : ReplyKinds \cup Reasons \cup {"none"}, at : Nat]

ConnTyped ==
  /\ phase \in [Clients -> Phases]
  /\ pendingResponse \in [Clients -> Replies] /\ pendingError \in [Clients -> Replies]
  /\ received \in [Clients -> Replies] /\ result \in [Clients -> Replies]

Empty(c) == pendingResponse[c] = NoReply /\ pendingError[c] = NoReply

(* The reply that the transport returned is to the last request.           *)
FreshlyReceived(c) ==
  /\ received[c] \in Frames(received[c].at)
  /\ received[c].at \in 1 .. Len(log) /\ log[received[c].at] = Current(c)
  /\ received[c].at > call[c].after

(* What read_response finds: an error of the transport, or that reply,     *)
(* which is pending unless it is nil.                                      *)
Collectable(c) ==
  \/ pendingError[c] = ConnectionError /\ pendingResponse[c] = NoReply
  \/ /\ FreshlyReceived(c)
     /\ pendingResponse[c] = IF received[c].kind = "value" THEN received[c] ELSE NoReply
     /\ pendingError[c] = IF received[c].kind = "ResponseError" THEN received[c] ELSE NoReply

Consistent(c) ==
  /\ Waiting(c) <=> phase[c] = "sending"
  /\ phase[c] \in {"ready", "sending", "failing"} => Empty(c)
  /\ phase[c] = "reading" => Collectable(c)
  /\ phase[c] = "failing" => result[c].kind \in Reasons
  /\ phase[c] = "idle" => Empty(c) \/ result[c] = Interrupted
  /\ result[c].kind \in ReplyKinds =>
       phase[c] = "idle" /\ result[c] = received[c] /\ FreshlyReceived(c)

ConnInv == RpcInv /\ ConnTyped /\ \A c \in Clients : Consistent(c)

-----------------------------------------------------------------------------
(* Replies are told apart by their kinds. *)

LEMMA ReplyFacts ==
  /\ {NoReply, ConnectionError, Interrupted, TimedOut} \subseteq Replies
  /\ ConnectionError # NoReply /\ Interrupted # NoReply
  /\ NoReply.kind \notin ReplyKinds \cup Reasons
  /\ Interrupted.kind \in Reasons /\ Interrupted.kind \notin ReplyKinds
  /\ ConnectionError.kind \in Reasons /\ ConnectionError.kind \notin ReplyKinds
  /\ TimedOut.kind \in Reasons /\ TimedOut.kind \notin ReplyKinds
BY DEF Replies, ReplyKinds, Reasons, NoReply, ConnectionError, Interrupted, TimedOut

LEMMA FrameFacts ==
  ASSUME NEW i \in Nat, NEW r \in Frames(i)
  PROVE  /\ r \in Replies /\ r.at = i /\ r.kind \in ReplyKinds /\ r \in Frames(r.at)
         /\ r # NoReply /\ r # ConnectionError
         /\ r.kind = "nil" <=> r = Nil(i)
BY DEF Frames, Nil, Value, ResponseError, Replies, ReplyKinds, Reasons, NoReply, ConnectionError

LEMMA ConnInitHolds == ConnInit => ConnInv
<1> SUFFICES ASSUME ConnInit PROVE ConnInv
  OBVIOUS
<1>1. RpcInv
  BY RpcInit DEF ConnInit
<1>2. ConnTyped
  BY ReplyFacts DEF ConnInit, ConnTyped, Phases
<1>3. ASSUME NEW c \in Clients PROVE Consistent(c)
  BY ReplyFacts DEF ConnInit, Init, NeverCalled, Waiting, Consistent, Empty
<1> QED BY <1>1, <1>2, <1>3 DEF ConnInv

-----------------------------------------------------------------------------
(* The steps of a client. *)

(* A step of client c leaves the other clients as they are.                *)
OnlyTouches(c) ==
  /\ log' = log
  /\ \A d \in Clients : d # c =>
       /\ call'[d] = call[d] /\ phase'[d] = phase[d]
       /\ pendingResponse'[d] = pendingResponse[d] /\ pendingError'[d] = pendingError[d]
       /\ received'[d] = received[d] /\ result'[d] = result[d]

LEMMA ClientStep ==
  ASSUME ConnInv, NEW c \in Clients, OnlyTouches(c), RpcInv', ConnTyped', Consistent(c)'
  PROVE  ConnInv'
<1>1. ASSUME NEW d \in Clients, d # c
      PROVE  Consistent(d)'
  BY <1>1 DEF ConnInv, OnlyTouches, Consistent, Empty, Collectable, FreshlyReceived,
              Waiting, Current
<1> QED BY <1>1 DEF ConnInv

(* disconnect() between two calls: the current request gets a port that    *)
(* nothing was sent on.                                                    *)
LEMMA DisconnectKeeps ==
  ASSUME ConnInv, NEW c \in Clients, phase[c] # "sending", Disconnect(c),
         UNCHANGED <<inbox, serverVars>>
  PROVE  /\ RpcInv' /\ call'[c].port = call[c].port + 1 /\ call'[c].status = call[c].status
         /\ Empty(c)'
         /\ \A d \in Clients : d # c =>
              call'[d] = call[d] /\ pendingResponse'[d] = pendingResponse[d]
                                 /\ pendingError'[d] = pendingError[d]
         /\ pendingResponse' \in [Clients -> Replies] /\ pendingError' \in [Clients -> Replies]
<1>1. Typed /\ call[c].n \in Nat /\ call[c].port \in Nat /\ call[c].after <= Len(log)
  BY CallFields DEF ConnInv, RpcInv, OnlyAnswers
<1>2. /\ call' \in [Clients -> Calls]
      /\ \A d \in Clients : d # c => call'[d] = call[d]
      /\ call'[c].port = call[c].port + 1 /\ call'[c].n = call[c].n
      /\ call'[c].after = call[c].after /\ call'[c].status = call[c].status
  <2>1. call' = [call EXCEPT ![c].port = call[c].port + 1] /\ call[c].port + 1 \in Nat
    BY <1>1 DEF Disconnect
  <2>2. /\ call'[c].port = call[c].port + 1 /\ call'[c].n = call[c].n
        /\ call'[c].after = call[c].after /\ call'[c].status = call[c].status
        /\ \A d \in Clients : d # c => call'[d] = call[d]
    BY <1>1, <2>1 DEF Typed, Calls
  <2>3. call' \in [Clients -> Calls]
    BY <1>1, <2>1 DEF Typed, Calls
  <2> QED BY <2>2, <2>3
<1>3. Current(c)' = Request(c, call[c].port + 1, call[c].n)
  BY <1>2 DEF Current
<1>4. ~WasSent(Request(c, call[c].port + 1, call[c].n))
  BY <1>1 DEF WasSent, Request
<1>5. ~Waiting(c)
  BY DEF ConnInv, Consistent
<1>6. RpcInv'
  BY <1>1, <1>2, <1>3, <1>4, <1>5, NewCall DEF ConnInv, serverVars
<1>7. /\ Empty(c)'
      /\ \A d \in Clients : d # c => pendingResponse'[d] = pendingResponse[d]
                                     /\ pendingError'[d] = pendingError[d]
      /\ pendingResponse' \in [Clients -> Replies] /\ pendingError' \in [Clients -> Replies]
  BY ReplyFacts DEF Disconnect, Pend, Empty, ConnInv, ConnTyped
<1> QED BY <1>2, <1>6, <1>7

LEMMA GetConnectionKeeps ==
  ASSUME ConnInv, NEW c \in Clients, GetConnection(c)
  PROVE  ConnInv'
<1>1. /\ phase[c] = "idle" /\ result' = [result EXCEPT ![c] = NoReply] /\ received' = received
      /\ UNCHANGED <<inbox, serverVars>> /\ log' = log
      /\ Goto(c, IF CanRead(c)' THEN "idle" ELSE "ready")
  BY DEF GetConnection, serverVars
<1>2. /\ RpcInv' /\ call'[c].status = call[c].status /\ Empty(c)'
      /\ \A d \in Clients : d # c =>
           call'[d] = call[d] /\ pendingResponse'[d] = pendingResponse[d]
                              /\ pendingError'[d] = pendingError[d]
      /\ pendingResponse' \in [Clients -> Replies] /\ pendingError' \in [Clients -> Replies]
  <2>1. CASE ~CanRead(c) /\ UNCHANGED <<call, connection>>
    <3>1. RpcInv'
      BY <1>1, <2>1, RpcStuttering DEF ConnInv, vars, serverVars
    <3> QED BY <2>1, <3>1 DEF connection, CanRead, Empty, ConnInv, ConnTyped
  <2>2. CASE Disconnect(c)
    BY <1>1, <2>2, DisconnectKeeps
  <2> QED BY <2>1, <2>2 DEF GetConnection
<1>3. ~CanRead(c)'
  BY <1>2 DEF CanRead, Empty
<1>4. phase' = [phase EXCEPT ![c] = "ready"]
  BY <1>1, <1>3 DEF Goto
<1>5. ConnTyped'
  BY <1>1, <1>2, <1>4, ReplyFacts DEF ConnInv, ConnTyped, Phases
<1>6. OnlyTouches(c)
  BY <1>1, <1>2, <1>4 DEF OnlyTouches, ConnInv, ConnTyped
<1>7. phase'[c] = "ready" /\ result'[c] = NoReply
  BY <1>1, <1>4 DEF ConnInv, ConnTyped
<1>8. ~Waiting(c)'
  BY <1>1, <1>2 DEF ConnInv, Consistent, Waiting
<1>9. Consistent(c)'
  BY <1>2, <1>7, <1>8, ReplyFacts DEF Consistent
<1> QED BY <1>2, <1>5, <1>6, <1>9, ClientStep

LEMMA SendCommandKeeps ==
  ASSUME ConnInv, NEW c \in Clients, SendCommand(c)
  PROVE  ConnInv'
<1>1. /\ phase[c] = "ready" /\ Send(c) /\ phase' = [phase EXCEPT ![c] = "sending"]
      /\ received' = [received EXCEPT ![c] = NoReply]
      /\ UNCHANGED <<pendingResponse, pendingError, result>>
  BY DEF SendCommand, Goto, connection
<1>2. RpcInv' /\ log' = log /\ call'[c].status = "waiting"
      /\ \A d \in Clients : d # c => call'[d] = call[d]
  BY <1>1, SendKeeps, CallAfterSend DEF ConnInv, RpcInv, Send
<1>3. ConnTyped'
  BY <1>1, ReplyFacts DEF ConnInv, ConnTyped, Phases
<1>4. OnlyTouches(c)
  BY <1>1, <1>2 DEF OnlyTouches, ConnInv, ConnTyped
<1>5. phase'[c] = "sending"
  BY <1>1 DEF ConnInv, ConnTyped
<1>6. Consistent(c)'
  BY <1>1, <1>2, <1>5 DEF ConnInv, Consistent, Waiting, Empty
<1> QED BY <1>2, <1>3, <1>4, <1>6, ClientStep

LEMMA SendRefusedKeeps ==
  ASSUME ConnInv, NEW c \in Clients, SendRefused(c)
  PROVE  ConnInv'
<1>1. /\ phase[c] = "ready" /\ Refuse(c) /\ phase' = [phase EXCEPT ![c] = "reading"]
      /\ received' = [received EXCEPT ![c] = NoReply]
      /\ pendingResponse' = [pendingResponse EXCEPT ![c] = NoReply]
      /\ pendingError' = [pendingError EXCEPT ![c] = ConnectionError]
      /\ result' = result
  BY DEF SendRefused, Goto, Pend
<1>2. RpcInv' /\ log' = log /\ call'[c].status = "refused"
      /\ \A d \in Clients : d # c => call'[d] = call[d]
  BY <1>1, RefuseKeeps, CallAfterRefuse DEF ConnInv, RpcInv, Refuse, serverVars
<1>3. ConnTyped'
  BY <1>1, ReplyFacts DEF ConnInv, ConnTyped, Phases
<1>4. OnlyTouches(c)
  BY <1>1, <1>2 DEF OnlyTouches, ConnInv, ConnTyped
<1>5. phase'[c] = "reading" /\ pendingResponse'[c] = NoReply /\ pendingError'[c] = ConnectionError
  BY <1>1 DEF ConnInv, ConnTyped
<1>6. Consistent(c)'
  BY <1>1, <1>2, <1>5 DEF ConnInv, Consistent, Waiting, Collectable
<1> QED BY <1>2, <1>3, <1>4, <1>6, ClientStep

LEMMA SendAnsweredKeeps ==
  ASSUME ConnInv, NEW c \in Clients, SendAnswered(c)
  PROVE  ConnInv'
<1>1. /\ phase[c] = "sending" /\ ReceiveResponse(c) /\ phase' = [phase EXCEPT ![c] = "reading"]
      /\ result' = result
  BY DEF SendAnswered, Goto
<1>2. /\ RpcInv' /\ log' = log /\ call'[c].status = "replied"
      /\ \A d \in Clients : d # c => call'[d] = call[d]
      /\ call'[c].at \in 1 .. Len(log) /\ log[call'[c].at] = Current(c) /\ Current(c)' = Current(c)
      /\ call'[c].after = call[c].after
  BY <1>1, ReceiveKeeps, CallAfterReceive DEF ConnInv, ReceiveResponse, serverVars, Current
<1>3. PICK reply \in Frames(call'[c].at) :
        /\ received' = [received EXCEPT ![c] = reply]
        /\ \/ reply.kind = "value" /\ Pend(c, reply, NoReply)
           \/ reply.kind = "nil" /\ Pend(c, NoReply, NoReply)
           \/ reply.kind = "ResponseError" /\ Pend(c, NoReply, reply)
  BY DEF SendAnswered
<1>4. call'[c].at \in Nat /\ reply \in Replies /\ reply.at = call'[c].at /\ reply \in Frames(reply.at)
      /\ reply.kind \in ReplyKinds
  BY <1>2, <1>3, LogTyped, FrameFacts DEF ConnInv, RpcInv
<1>5. Pend(c, IF reply.kind = "value" THEN reply ELSE NoReply,
              IF reply.kind = "ResponseError" THEN reply ELSE NoReply)
  BY <1>3
<1>6. ConnTyped'
  BY <1>1, <1>3, <1>4, <1>5, ReplyFacts DEF Pend, ConnInv, ConnTyped, Phases
<1>7. OnlyTouches(c)
  BY <1>1, <1>2, <1>3, <1>5 DEF OnlyTouches, Pend, ConnInv, ConnTyped
<1>8. /\ phase'[c] = "reading" /\ received'[c] = reply
      /\ pendingResponse'[c] = IF reply.kind = "value" THEN reply ELSE NoReply
      /\ pendingError'[c] = IF reply.kind = "ResponseError" THEN reply ELSE NoReply
  BY <1>1, <1>3, <1>5 DEF Pend, ConnInv, ConnTyped
<1>9. call[c].after < call'[c].at
  BY <1>2 DEF ConnInv, RpcInv, OnlyAnswers
<1>10. FreshlyReceived(c)'
  BY <1>2, <1>4, <1>8, <1>9 DEF FreshlyReceived
<1>11. Consistent(c)'
  BY <1>1, <1>2, <1>8, <1>10 DEF ConnInv, Consistent, Waiting, Collectable
<1> QED BY <1>2, <1>6, <1>7, <1>11, ClientStep

LEMMA SendTimedOutKeeps ==
  ASSUME ConnInv, NEW c \in Clients, SendTimedOut(c)
  PROVE  ConnInv'
<1>1. /\ phase[c] = "sending" /\ GiveUp(c) /\ phase' = [phase EXCEPT ![c] = "failing"]
      /\ result' = [result EXCEPT ![c] = TimedOut]
      /\ UNCHANGED <<pendingResponse, pendingError, received>>
  BY DEF SendTimedOut, Goto, connection
<1>2. RpcInv' /\ log' = log /\ call'[c].status = "timeout"
      /\ \A d \in Clients : d # c => call'[d] = call[d]
  BY <1>1, AbandonKeeps, CallAfterStatus DEF ConnInv, RpcInv, GiveUp, Status
<1>3. ConnTyped'
  BY <1>1, ReplyFacts DEF ConnInv, ConnTyped, Phases
<1>4. OnlyTouches(c)
  BY <1>1, <1>2 DEF OnlyTouches, ConnInv, ConnTyped
<1>5. phase'[c] = "failing" /\ result'[c] = TimedOut
  BY <1>1 DEF ConnInv, ConnTyped
<1>6. Consistent(c)'
  BY <1>1, <1>2, <1>5, ReplyFacts DEF ConnInv, Consistent, Waiting, Empty
<1> QED BY <1>2, <1>3, <1>4, <1>6, ClientStep

LEMMA SendWaitsKeeps ==
  ASSUME ConnInv, NEW c \in Clients, SendWaits(c)
  PROVE  ConnInv'
<1>1. /\ phase[c] = "sending" /\ PassDeadline(c)
      /\ UNCHANGED <<phase, pendingResponse, pendingError, received, result>>
  BY DEF SendWaits, connVars
<1>2. /\ RpcInv' /\ log' = log /\ call'[c].status = call[c].status
      /\ \A d \in Clients : d # c => call'[d] = call[d]
  BY <1>1, DeadlineKeeps, CallAfterDeadline DEF ConnInv, RpcInv, PassDeadline, serverVars
<1>3. ConnTyped' /\ OnlyTouches(c)
  BY <1>1, <1>2 DEF ConnInv, ConnTyped, OnlyTouches
<1>4. Consistent(c)'
  BY <1>1, <1>2 DEF ConnInv, Consistent, Waiting, Empty
<1> QED BY <1>2, <1>3, <1>4, ClientStep

LEMMA ReadErrorKeeps ==
  ASSUME ConnInv, NEW c \in Clients, ReadError(c)
  PROVE  ConnInv'
<1> DEFINE next == IF pendingError[c] = ConnectionError THEN "failing" ELSE "idle"
<1>1. /\ phase[c] = "reading" /\ pendingError[c] # NoReply /\ UNCHANGED vars
      /\ result' = [result EXCEPT ![c] = pendingError[c]] /\ received' = received
      /\ pendingResponse' = [pendingResponse EXCEPT ![c] = pendingResponse[c]]
      /\ pendingError' = [pendingError EXCEPT ![c] = NoReply]
      /\ phase' = [phase EXCEPT ![c] = next]
  BY DEF ReadError, Returned, Pend, Goto
<1>2. RpcInv' /\ log' = log /\ call' = call
  BY <1>1, RpcStuttering DEF ConnInv, vars
<1>3. ConnTyped'
  BY <1>1, ReplyFacts DEF ConnInv, ConnTyped, Phases
<1>4. OnlyTouches(c)
  BY <1>1, <1>2 DEF OnlyTouches, ConnInv, ConnTyped
<1>5. /\ phase'[c] = next /\ result'[c] = pendingError[c]
      /\ pendingResponse'[c] = pendingResponse[c] /\ pendingError'[c] = NoReply
  BY <1>1 DEF ConnInv, ConnTyped
<1>6. Collectable(c) /\ ~Waiting(c)
  BY <1>1 DEF ConnInv, Consistent
<1>7. Consistent(c)'
  <2>1. CASE pendingError[c] = ConnectionError /\ pendingResponse[c] = NoReply
    BY <1>2, <1>5, <1>6, <2>1, ReplyFacts DEF Consistent, Waiting, Empty
  <2>2. CASE /\ FreshlyReceived(c) /\ received[c].kind = "ResponseError"
             /\ pendingError[c] = received[c] /\ pendingResponse[c] = NoReply
    <3>1. received[c].at \in Nat /\ received[c] # ConnectionError
      BY <2>2, FrameFacts DEF FreshlyReceived, ConnInv, ConnTyped, Replies
    <3>2. FreshlyReceived(c)'
      BY <1>1, <1>2, <2>2 DEF FreshlyReceived, Current
    <3> QED BY <1>1, <1>2, <1>5, <1>6, <2>2, <3>1, <3>2 DEF Consistent, Waiting, Empty
  <2> QED BY <1>1, <1>6, <2>1, <2>2 DEF Collectable
<1> QED BY <1>2, <1>3, <1>4, <1>7, ClientStep

LEMMA ReadValueKeeps ==
  ASSUME ConnInv, NEW c \in Clients, ReadValue(c)
  PROVE  ConnInv'
<1> DEFINE outcome == IF pendingResponse[c] = NoReply THEN Nil(received[c].at)
                                                      ELSE pendingResponse[c]
<1>1. /\ phase[c] = "reading" /\ pendingError[c] = NoReply /\ UNCHANGED vars
      /\ result' = [result EXCEPT ![c] = outcome] /\ received' = received
      /\ pendingResponse' = [pendingResponse EXCEPT ![c] = NoReply]
      /\ pendingError' = [pendingError EXCEPT ![c] = NoReply]
      /\ phase' = [phase EXCEPT ![c] = "idle"]
  BY DEF ReadValue, Returned, Pend, Goto
<1>2. RpcInv' /\ log' = log /\ call' = call
  BY <1>1, RpcStuttering DEF ConnInv, vars
<1>3. Collectable(c) /\ ~Waiting(c)
  BY <1>1 DEF ConnInv, Consistent
<1>4. /\ FreshlyReceived(c)
      /\ pendingResponse[c] = IF received[c].kind = "value" THEN received[c] ELSE NoReply
      /\ received[c].kind # "ResponseError"
  BY <1>1, <1>3, ReplyFacts, FrameFacts DEF Collectable, FreshlyReceived, ConnInv, ConnTyped, Replies
<1>5. received[c].at \in Nat /\ received[c] \in Replies /\ received[c].kind \in ReplyKinds
      /\ (received[c].kind = "nil" <=> received[c] = Nil(received[c].at)) /\ received[c] # NoReply
  BY <1>4, FrameFacts DEF FreshlyReceived, ConnInv, ConnTyped, Replies
<1>6. outcome = received[c]
  BY <1>4, <1>5 DEF ReplyKinds
<1> HIDE DEF outcome
<1>7. ConnTyped'
  BY <1>1, <1>5, <1>6, ReplyFacts DEF ConnInv, ConnTyped, Phases
<1>8. OnlyTouches(c)
  BY <1>1, <1>2 DEF OnlyTouches, ConnInv, ConnTyped
<1>9. /\ phase'[c] = "idle" /\ result'[c] = received[c]
      /\ pendingResponse'[c] = NoReply /\ pendingError'[c] = NoReply
  BY <1>1, <1>6 DEF ConnInv, ConnTyped
<1>10. FreshlyReceived(c)'
  BY <1>1, <1>2, <1>4 DEF FreshlyReceived, Current
<1>11. Consistent(c)'
  BY <1>1, <1>2, <1>3, <1>9, <1>10 DEF Consistent, Waiting, Empty
<1> QED BY <1>2, <1>7, <1>8, <1>11, ClientStep

LEMMA CallWithRetryKeeps ==
  ASSUME ConnInv, NEW c \in Clients, CallWithRetry(c)
  PROVE  ConnInv'
<1>1. /\ phase[c] = "failing" /\ Disconnect(c) /\ UNCHANGED <<inbox, serverVars, received, result>>
      /\ \E next \in {"ready", "idle"} : phase' = [phase EXCEPT ![c] = next]
  BY DEF CallWithRetry, Goto
<1>2. /\ RpcInv' /\ call'[c].status = call[c].status /\ Empty(c)' /\ log' = log
      /\ \A d \in Clients : d # c =>
           call'[d] = call[d] /\ pendingResponse'[d] = pendingResponse[d]
                              /\ pendingError'[d] = pendingError[d]
      /\ pendingResponse' \in [Clients -> Replies] /\ pendingError' \in [Clients -> Replies]
  BY <1>1, DisconnectKeeps DEF serverVars
<1>3. phase' \in [Clients -> Phases] /\ phase'[c] \in {"ready", "idle"}
      /\ \A d \in Clients : d # c => phase'[d] = phase[d]
  BY <1>1 DEF ConnInv, ConnTyped, Phases
<1>4. ConnTyped' /\ OnlyTouches(c)
  BY <1>1, <1>2, <1>3 DEF ConnInv, ConnTyped, OnlyTouches
<1>5. /\ ~Waiting(c)' /\ result'[c].kind \in Reasons
  BY <1>1, <1>2 DEF ConnInv, Consistent, Waiting
<1>6. result'[c].kind \notin ReplyKinds
  BY <1>5 DEF Reasons, ReplyKinds
<1>7. Consistent(c)'
  BY <1>2, <1>3, <1>5, <1>6 DEF Consistent
<1> QED BY <1>2, <1>4, <1>7, ClientStep

LEMMA InterruptKeeps ==
  ASSUME ConnInv, NEW c \in Clients, Interrupt(c)
  PROVE  ConnInv'
<1>1. /\ phase' = [phase EXCEPT ![c] = "idle"] /\ result' = [result EXCEPT ![c] = Interrupted]
      /\ UNCHANGED <<pendingResponse, pendingError, received>>
  BY DEF Interrupt, Goto, Returned, connection
<1>2. /\ RpcInv' /\ log' = log /\ ~Waiting(c)'
      /\ \A d \in Clients : d # c => call'[d] = call[d]
  <2>1. CASE /\ phase[c] = "sending"
             /\ call' = [call EXCEPT ![c].status = "timeout"]
             /\ inbox' = [inbox EXCEPT ![c] = {}]
             /\ queue' \in {queue, queue \ {Current(c)}}
             /\ UNCHANGED <<up, taken, done, log>>
    BY <2>1, AbandonKeeps, CallAfterStatus DEF ConnInv, RpcInv, Status, Waiting
  <2>2. CASE phase[c] # "sending" /\ UNCHANGED vars
    BY <2>2, RpcStuttering DEF ConnInv, vars, Consistent, Waiting
  <2> QED BY <2>1, <2>2 DEF Interrupt
<1>3. ConnTyped'
  BY <1>1, ReplyFacts DEF ConnInv, ConnTyped, Phases
<1>4. OnlyTouches(c)
  BY <1>1, <1>2 DEF OnlyTouches, ConnInv, ConnTyped
<1>5. phase'[c] = "idle" /\ result'[c] = Interrupted
  BY <1>1 DEF ConnInv, ConnTyped
<1>6. Consistent(c)'
  BY <1>2, <1>5, ReplyFacts DEF Consistent
<1> QED BY <1>2, <1>3, <1>4, <1>6, ClientStep

-----------------------------------------------------------------------------
(* The server's steps only add to the log.                                 *)

LEMMA ServerLog ==
  ASSUME RpcInv, Serve \/ Unserviceable \/ Kill \/ Restart
  PROVE  /\ call' = call
         /\ \A i \in 1 .. Len(log) : i \in 1 .. Len(log') /\ log'[i] = log[i]
<1>1. CASE HandleRequest
  <2>1. taken \in AnyRequest /\ log' = Append(log, taken) /\ call' = call
    BY <1>1 DEF HandleRequest, RpcInv, Typed
  <2> QED BY <2>1, LogTyped, LogGrows DEF RpcInv
<1>2. CASE Restart
  <2>1. log' = Append(log, Restarted) /\ call' = call
    BY <1>2 DEF Restart
  <2> QED BY <2>1, LogTyped, LogGrows DEF RpcInv
<1>3. CASE ReceiveRequest \/ Respond \/ Down
  BY <1>3 DEF ReceiveRequest, Respond, Down
<1> QED BY <1>1, <1>2, <1>3 DEF Serve, Unserviceable, Kill

LEMMA ServerStepKeeps ==
  ASSUME ConnInv, Server
  PROVE  ConnInv'
<1>1. /\ Serve \/ Unserviceable \/ Kill \/ Restart
      /\ UNCHANGED <<phase, pendingResponse, pendingError, received, failures, result>>
  BY DEF Server, connVars
<1>2. /\ RpcInv' /\ call' = call
      /\ \A i \in 1 .. Len(log) : i \in 1 .. Len(log') /\ log'[i] = log[i]
  BY <1>1, ServerKeeps, ServerLog DEF ConnInv
<1>3. ConnTyped'
  BY <1>1 DEF ConnInv, ConnTyped
<1>4. ASSUME NEW c \in Clients PROVE Consistent(c)'
  <2>1. FreshlyReceived(c) => FreshlyReceived(c)'
    BY <1>1, <1>2 DEF FreshlyReceived, Current
  <2> QED BY <1>1, <1>2, <2>1 DEF ConnInv, Consistent, Waiting, Empty, Collectable
<1> QED BY <1>2, <1>3, <1>4 DEF ConnInv

LEMMA ConnStutters ==
  ASSUME ConnInv, UNCHANGED allVars
  PROVE  ConnInv'
<1>1. RpcInv' /\ UNCHANGED <<call, log, phase, pendingResponse, pendingError, received, result>>
  BY RpcStuttering DEF ConnInv, allVars, connVars, vars
<1> QED BY <1>1 DEF ConnInv, ConnTyped, Consistent, Empty, Collectable, FreshlyReceived,
                    Waiting, Current

LEMMA ConnStep == ConnInv /\ [ConnNext]_allVars => ConnInv'
<1> SUFFICES ASSUME ConnInv, [ConnNext]_allVars PROVE ConnInv'
  OBVIOUS
<1>1. ASSUME NEW c \in Clients, GetConnection(c) \/ Interrupt(c)
      PROVE  ConnInv'
  BY <1>1, GetConnectionKeeps, InterruptKeeps
<1>2. ASSUME NEW c \in Clients, SendCommand(c) \/ SendRefused(c) \/ SendProceeds(c)
      PROVE  ConnInv'
  BY <1>2, SendCommandKeeps, SendRefusedKeeps, SendAnsweredKeeps, SendWaitsKeeps,
     SendTimedOutKeeps DEF SendProceeds
<1>3. ASSUME NEW c \in Clients, ReadError(c) \/ ReadValue(c) \/ CallWithRetry(c)
      PROVE  ConnInv'
  BY <1>3, ReadErrorKeeps, ReadValueKeeps, CallWithRetryKeeps
<1> QED BY <1>1, <1>2, <1>3, ServerStepKeeps, ConnStutters DEF ConnNext, Command

(* The inductive invariant of the connections.                             *)
THEOREM ConnInvariant == ConnSpec => []ConnInv
BY ConnInitHolds, ConnStep, PTL DEF ConnSpec

-----------------------------------------------------------------------------
(* What follows from it. *)

(* What execute_command returns as a reply is the response to its own last *)
(* request, whatever was interrupted or timed out before.                  *)
THEOREM FreshReplyHolds == ConnSpec => []FreshReply
<1>1. ConnInv => FreshReply
  BY DEF ConnInv, Consistent, FreshlyReceived, ReplyKinds, FreshReply
<1> QED BY <1>1, ConnInvariant, PTL

(* _pending_response and _pending_error are clear whenever a command or a  *)
(* retry begins to send.                                                   *)
THEOREM EmptyWhenUsedHolds == ConnSpec => []EmptyWhenUsed
<1>1. ConnInv => EmptyWhenUsed
  BY DEF ConnInv, Consistent, Empty, EmptyWhenUsed
<1> QED BY <1>1, ConnInvariant, PTL

(* Connections in use that nothing happened to are never given up.         *)
THEOREM ReconnectsWithReasonHolds == ConnSpec => ReconnectsWithReason
<1> DEFINE P == \A c \in Clients : call'[c].port # call[c].port => result[c].kind \in Reasons
<1>1. ConnInv /\ [ConnNext]_allVars => [P]_allVars
  <2> SUFFICES ASSUME ConnInv, ConnNext, NEW d \in Clients, call'[d].port # call[d].port
               PROVE  result[d].kind \in Reasons
    OBVIOUS
  <2>0. RpcInv /\ Typed
    BY DEF ConnInv, RpcInv
  <2>1. ASSUME NEW c \in Clients, GetConnection(c)
        PROVE  result[d].kind \in Reasons
    <3>1. call' # call
      OBVIOUS
    <3>2. /\ phase[c] = "idle" /\ CanRead(c) /\ Disconnect(c)
      BY <2>1, <3>1 DEF GetConnection
    <3>3. d = c
      BY <3>2 DEF Disconnect, ConnInv, RpcInv, Typed
    <3> QED BY <3>2, <3>3, ReplyFacts DEF ConnInv, Consistent, CanRead, Empty
  <2>2. ASSUME NEW c \in Clients, CallWithRetry(c)
        PROVE  result[d].kind \in Reasons
    <3>1. d = c
      BY <2>2 DEF CallWithRetry, Disconnect, ConnInv, RpcInv, Typed
    <3> QED BY <2>2, <3>1 DEF CallWithRetry, ConnInv, Consistent
  <2>3. ASSUME NEW c \in Clients, SendCommand(c) \/ SendRefused(c) \/ SendProceeds(c)
        PROVE  call'[d].port = call[d].port
    <3>1. CASE Send(c)
      BY <2>0, <3>1, CallAfterSend
    <3>2. CASE Refuse(c)
      BY <2>0, <3>2, CallAfterRefuse
    <3>3. CASE ReceiveResponse(c)
      BY <2>0, <3>3, CallAfterReceive
    <3>4. CASE PassDeadline(c)
      BY <2>0, <3>4, CallAfterDeadline DEF PassDeadline
    <3>5. CASE GiveUp(c)
      BY <2>0, <3>5, CallAfterStatus DEF GiveUp, Status
    <3> QED BY <2>3, <3>1, <3>2, <3>3, <3>4, <3>5
            DEF SendCommand, SendRefused, SendProceeds, SendAnswered, SendWaits, SendTimedOut
  <2>4. ASSUME NEW c \in Clients, Interrupt(c)
        PROVE  call'[d].port = call[d].port
    <3>1. call' = call \/ call' = [call EXCEPT ![c].status = "timeout"]
      BY <2>4 DEF Interrupt, vars
    <3> QED BY <2>0, <3>1, CallAfterStatus DEF Status
  <2>5. ASSUME NEW c \in Clients, ReadError(c) \/ ReadValue(c)
        PROVE  call' = call
    BY <2>5 DEF ReadError, ReadValue, vars
  <2>6. ASSUME Server
        PROVE  call' = call
    BY <2>0, <2>6, ServerLog DEF Server
  <2> QED BY <2>1, <2>2, <2>3, <2>4, <2>5, <2>6 DEF ConnNext, Command
<1>2. [][P]_allVars => ReconnectsWithReason
  BY PTL DEF ReconnectsWithReason, Reasons
<1> QED BY <1>1, <1>2, ConnInvariant, PTL DEF ConnSpec
=============================================================================
