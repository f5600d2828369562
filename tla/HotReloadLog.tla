---------------------------- MODULE HotReloadLog ----------------------------
(***************************************************************************)
(* The log of examples/hot_reload_app.py.  Applications put records into   *)
(* a bounded queue; a worker thread of each appends them to one list on    *)
(* the server, which it reads and writes back in two requests.  A web      *)
(* server reads the list for pages in browsers: once when the page asks    *)
(* for it, and again and again for the page's event stream.                *)
(***************************************************************************)
EXTENDS Integers, Sequences, FiniteSets

CONSTANTS
  Apps, Pages,
  QueueSize,    \* of the queue between log() and the worker
  MaxLogs,      \* --max-logs: any integer
  PageLimit,    \* how many records /api/logs answers with at most
  Setups,       \* see below
  MaxRecords    \* bound: records each application logs

(* The applications and pages there are, whether time.time differs between *)
(* any two records, and two bounds: how many records each application      *)
(* logs, and how many requests given up may still have to be executed.     *)
Setup == [apps : SUBSET Apps, pages : SUBSET Pages, strict : BOOLEAN,
          records : [Apps -> 0..MaxRecords], late : Nat]

ASSUME HotReloadLogAssumption ==
  /\ QueueSize \in Nat \ {0} /\ MaxLogs \in Int /\ PageLimit \in Nat \ {0}
  /\ MaxRecords \in Nat /\ Setups \subseteq Setup

VARIABLES
  setup,      \* the setup of this behaviour
  log,        \* the list on the server
  late,       \* lists in requests that timed out and are not yet executed
  clock,      \* the time of the last record
  logged,     \* per application: how many records it has made
  records,    \*   RedisLogger.records
  worker,     \*   its worker thread: step, record and list it has read
  closed,     \*   RedisLogger.stop_event
  reported,   \* the records whose loss was printed
  stream,     \* per page: is its event stream open, and last_ts of events()
  fetched,    \*   the answer of /api/logs on its way to the page
  page        \*   the records it shows, in the order they came

server == <<log, late>>
pages  == <<stream, fetched, page>>
vars   == <<setup, server, clock, logged, records, worker, closed, reported, pages>>

Record == [app : Apps, n : 1..MaxRecords, ts : Nat]

Elements(s) == { s[i] : i \in DOMAIN s }

(* s[-n:] of a Python list s, for any integer n. *)
FromEnd(s, n) ==
  IF n > 0 THEN SubSeq(s, IF Len(s) > n THEN Len(s) - n + 1 ELSE 1, Len(s))
  ELSE SubSeq(s, 1 - n, Len(s))

Idle == [step |-> "waiting", record |-> <<>>, seen |-> <<>>]

Init ==
  /\ setup \in Setups
  /\ log = <<>> /\ late = {} /\ clock = 1 /\ reported = {}
  /\ logged = [a \in Apps |-> 0] /\ records = [a \in Apps |-> <<>>]
  /\ worker = [a \in Apps |-> Idle] /\ closed = [a \in Apps |-> FALSE]
  /\ stream = [p \in Pages |-> [open |-> FALSE, last |-> 0]]
  /\ fetched = [p \in Pages |-> <<"asked">>]
  /\ page = [p \in Pages |-> <<>>]

-----------------------------------------------------------------------------
(* RedisLogger *)

(* log(): put_nowait, or a printed line if the queue is full. *)
Log(a) ==
  /\ ~closed[a] /\ a \in setup.apps /\ logged[a] < setup.records[a]
  /\ \E ts \in {clock + 1} \cup (IF setup.strict THEN {} ELSE {clock}) :
       LET record == [app |-> a, n |-> logged[a] + 1, ts |-> ts]
       IN /\ clock' = ts
          /\ \/ /\ Len(records[a]) < QueueSize
                /\ records' = [records EXCEPT ![a] = Append(@, record)]
                /\ UNCHANGED reported
             \/ /\ Len(records[a]) = QueueSize
                /\ reported' = reported \cup {record}
                /\ UNCHANGED records
  /\ logged' = [logged EXCEPT ![a] = @ + 1]
  /\ UNCHANGED <<setup, server, worker, closed, pages>>

Close(a) ==
  /\ a \in setup.apps /\ ~closed[a]
  /\ closed' = [closed EXCEPT ![a] = TRUE]
  /\ UNCHANGED <<setup, server, clock, logged, records, worker, reported, pages>>

Move(a, step, record, seen) ==
  worker' = [worker EXCEPT ![a] = [step |-> step, record |-> record, seen |-> seen]]

(* The worker looks at the event first, and only then at the queue. *)
CheckStop(a) ==
  /\ a \in setup.apps /\ worker[a].step = "waiting"
  /\ Move(a, IF closed[a] THEN "ended" ELSE "getting", <<>>, <<>>)
  /\ UNCHANGED <<setup, server, clock, logged, records, closed, reported, pages>>

TakeBlocking(a) ==   \* a mutant: get() without a timeout
  /\ worker[a].step = "getting" /\ records[a] # <<>>
  /\ Move(a, "reading", Head(records[a]), <<>>)
  /\ records' = [records EXCEPT ![a] = Tail(@)]
  /\ UNCHANGED <<setup, server, clock, logged, closed, reported, pages>>

Take(a) ==   \* get(timeout=0.2) gives a record or raises queue.Empty
  /\ worker[a].step = "getting"
  /\ \/ /\ records[a] = <<>>
        /\ Move(a, "waiting", <<>>, <<>>)
        /\ UNCHANGED records
     \/ /\ records[a] # <<>>
        /\ Move(a, "reading", Head(records[a]), <<>>)
        /\ records' = [records EXCEPT ![a] = Tail(@)]
  /\ UNCHANGED <<setup, server, clock, logged, closed, reported, pages>>

(* append_log: the whole list is read, ... *)
ReadLog(a) ==
  /\ worker[a].step = "reading"
  /\ Move(a, "writing", worker[a].record, log)
  /\ UNCHANGED <<setup, server, clock, logged, records, closed, reported, pages>>

NewListTrimmedFirst(a) ==   \* a mutant: the old list is cut, not the new one
  Append(FromEnd(worker[a].seen, MaxLogs), worker[a].record)

NewList(a) == FromEnd(Append(worker[a].seen, worker[a].record), MaxLogs)

(* A try to write the list that timed out may be executed later. *)
MayComeLate(list) ==
  /\ late' \in {late, late \cup {list}}
  /\ Cardinality(late') <= setup.late

(* ... and written back, in the first try of redis-py or in another one.   *)
WriteLog(a) ==
  /\ worker[a].step = "writing"
  /\ log' = NewList(a) /\ MayComeLate(NewList(a))
  /\ Move(a, "waiting", <<>>, <<>>)
  /\ UNCHANGED <<setup, clock, logged, records, closed, reported, pages>>

AppendFailsQuietly(a) ==   \* a mutant: a list nobody could read is not reported
  /\ worker[a].step \in {"reading", "writing"}
  /\ IF worker[a].step = "writing" THEN MayComeLate(NewList(a)) ELSE UNCHANGED late
  /\ Move(a, "waiting", <<>>, <<>>)
  /\ UNCHANGED <<setup, log, clock, logged, records, closed, reported, pages>>

AppendRetried(a) ==   \* a mutant: a record that could not be written is queued again
  /\ worker[a].step \in {"reading", "writing"}
  /\ IF worker[a].step = "writing" THEN MayComeLate(NewList(a)) ELSE UNCHANGED late
  /\ records' = [records EXCEPT ![a] = Append(@, worker[a].record)]
  /\ Move(a, "waiting", <<>>, <<>>)
  /\ UNCHANGED <<setup, log, clock, logged, closed, reported, pages>>

(* Either request fails, though a write may have been executed: a line is  *)
(* printed and the worker goes on.                                         *)
AppendFails(a) ==
  /\ worker[a].step \in {"reading", "writing"}
  /\ IF worker[a].step = "writing"
     THEN log' \in {log, NewList(a)} /\ MayComeLate(NewList(a))
     ELSE UNCHANGED server
  /\ reported' = reported \cup {worker[a].record}
  /\ Move(a, "waiting", <<>>, <<>>)
  /\ UNCHANGED <<setup, clock, logged, records, closed, pages>>

(* close() waits 2 s for the worker, a daemon: the application may then    *)
(* end while the worker is in a request, and nobody prints anything.       *)
Abandon(a) ==
  /\ closed[a] /\ worker[a].step \in {"reading", "writing"}
  /\ IF worker[a].step = "writing"
     THEN log' \in {log, NewList(a)} /\ MayComeLate(NewList(a))
     ELSE UNCHANGED server
  /\ Move(a, "ended", <<>>, <<>>)
  /\ UNCHANGED <<setup, clock, logged, records, closed, reported, pages>>

LateWrite ==   \* the server takes a request whose client has given up
  /\ \E list \in late : log' = list /\ late' = late \ {list}
  /\ UNCHANGED <<setup, clock, logged, records, worker, closed, reported, pages>>

-----------------------------------------------------------------------------
(* LogsWebServer, and the script of its page *)

(* renderRecord: the page knows a record by its time and content. *)
Render(shown, r) ==
  IF \E i \in DOMAIN shown : shown[i].ts = r.ts /\ shown[i].n = r.n
  THEN shown ELSE Append(shown, r)

Rendered(shown, rs) ==
  LET upto[i \in 0..Len(rs)] == IF i = 0 THEN shown ELSE Render(upto[i - 1], rs[i])
  IN upto[Len(rs)]

Show(p, rs) == page' = [page EXCEPT ![p] = Rendered(@, rs)]

LastTime(rs, from) ==
  CHOOSE t \in {from} \cup { rs[i].ts : i \in DOMAIN rs } :
    from <= t /\ \A i \in DOMAIN rs : rs[i].ts <= t

NewsOfLast(rs, last) ==   \* a mutant: only the last record is compared
  IF rs # <<>> /\ rs[Len(rs)].ts > last THEN <<rs[Len(rs)]>> ELSE <<>>

(* What one round of events() sends: last grows along the way. *)
Newer(sent, r, last) == IF r.ts > LastTime(sent, last) THEN Append(sent, r) ELSE sent

News(rs, last) ==
  LET new[i \in 0..Len(rs)] == IF i = 0 THEN <<>> ELSE Newer(new[i - 1], rs[i], last)
  IN new[Len(rs)]

(* /api/logs is answered, and the page gets the answer some time later. *)
Answer(p) ==
  /\ p \in setup.pages /\ fetched[p] = <<"asked">>
  /\ fetched' = [fetched EXCEPT ![p] = <<"answered", FromEnd(log, PageLimit)>>]
  /\ UNCHANGED <<setup, server, clock, logged, records, worker, closed, reported, stream, page>>

ShowAnswer(p) ==
  /\ Len(fetched[p]) = 2
  /\ Show(p, fetched[p][2])
  /\ fetched' = [fetched EXCEPT ![p] = <<"shown">>]
  /\ UNCHANGED <<setup, server, clock, logged, records, worker, closed, reported, stream>>

ConnectAndForget(p) ==   \* a mutant: the first round is skipped after a reconnect
  /\ p \in setup.pages /\ ~stream[p].open
  /\ stream' = [stream EXCEPT ![p] = [open |-> TRUE, last |-> LastTime(log, 0)]]
  /\ UNCHANGED <<setup, server, clock, logged, records, worker, closed, reported, fetched, page>>

(* The page opens its stream, or the browser opens it again: a snapshot,   *)
(* or an error event if the list cannot be read.                           *)
Connect(p) ==
  /\ p \in setup.pages /\ ~stream[p].open
  /\ \/ /\ Show(p, log)
        /\ stream' = [stream EXCEPT ![p] = [open |-> TRUE, last |-> LastTime(log, 0)]]
     \/ /\ stream' = [stream EXCEPT ![p] = [open |-> TRUE, last |-> 0]]
        /\ UNCHANGED page
  /\ UNCHANGED <<setup, server, clock, logged, records, worker, closed, reported, fetched>>

(* One round of events(); a round in which the list cannot be read changes *)
(* nothing.                                                                *)
Round(p) ==
  /\ stream[p].open
  /\ Show(p, News(log, stream[p].last))
  /\ stream' = [stream EXCEPT ![p].last = LastTime(log, @)]
  /\ UNCHANGED <<setup, server, clock, logged, records, worker, closed, reported, fetched>>

(* The connection breaks during a round: the page gets some of its events. *)
Break(p) ==
  /\ stream[p].open
  /\ LET news == News(log, stream[p].last)
     IN \E i \in 0..Len(news) : Show(p, SubSeq(news, 1, i))
  /\ stream' = [stream EXCEPT ![p] = [open |-> FALSE, last |-> 0]]
  /\ UNCHANGED <<setup, server, clock, logged, records, worker, closed, reported, fetched>>

Work(a) == CheckStop(a) \/ Take(a) \/ ReadLog(a) \/ WriteLog(a) \/ AppendFails(a)

Next ==
  \/ \E a \in Apps : Log(a) \/ Close(a) \/ Work(a) \/ Abandon(a)
  \/ LateWrite
  \/ \E p \in Pages : Answer(p) \/ ShowAnswer(p) \/ Connect(p) \/ Round(p) \/ Break(p)

(* The worker's loop goes round: no request lasts for ever.  The browser   *)
(* connects again and again, and some connection lasts for a round.        *)
Spec ==
  /\ Init /\ [][Next]_vars
  /\ \A a \in Apps : WF_vars(Work(a))
  /\ \A p \in Pages : WF_vars(Connect(p)) /\ SF_vars(Round(p))

-----------------------------------------------------------------------------
(* Properties *)

(* Whoever writes the list, in whatever order, and however late: it never  *)
(* holds two records of one application out of order, nor one twice.       *)
InOrder(list) ==
  \A i, j \in DOMAIN list : i < j /\ list[i].app = list[j].app => list[i].n < list[j].n

LogInOrder == InOrder(log)

(* There is one application, and its requests are not executed late. *)
Alone == (\E a \in Apps : setup.apps = {a}) /\ setup.late = 0

(* A lone application has what an atomic append would give it: each change *)
(* adds a newer record at the end and drops what is then too much.         *)
AppendsAtomically ==
  [][ Alone /\ log' # log =>
        \E a \in setup.apps : log' = FromEnd(Append(log, worker[a].record), MaxLogs) ]_log

(* Records of a that are not in the list, had not to make room there for   *)
(* newer ones, and were not reported as lost; and those in its queue.      *)
Missing(a) ==
  { n \in 1..logged[a] :
      /\ ~\E r \in reported \cup Elements(log) : r.n = n
      /\ ~(log # <<>> /\ Len(log) = MaxLogs /\ n < Head(log).n) }

InQueue(a) == { r.n : r \in Elements(records[a]) }

(* While such an application's worker runs, it has yet to write what is    *)
(* missing: nothing is lost without a word.  Only close() loses records so *)
(* (no line tells of them): what is then in the queue, and at most one     *)
(* that the worker was about to write.                                     *)
NoSilentLoss ==
  Alone =>
    \A a \in setup.apps :
      IF worker[a].step # "ended"
      THEN \A n \in Missing(a) \ InQueue(a) : worker[a].record # <<>> /\ worker[a].record.n = n
      ELSE closed[a] /\ \E n \in 0..logged[a] : Missing(a) \subseteq InQueue(a) \cup {n}

(* Again and again, wherever its streams break, a page has every record in *)
(* the list of a lone application: one that stays there is not missed.     *)
PageComplete ==
  \A p \in Pages :
    []<>(Alone /\ setup.strict /\ p \in setup.pages => Elements(log) \subseteq Elements(page[p]))

(* With several applications, or records of the same time, the stream may  *)
(* pass over a record, but only for one on the page that is as recent.     *)
PageUpToDate ==
  \A p \in Pages :
    []<>(p \in setup.pages =>
           \A r \in Elements(log) : \E shown \in Elements(page[p]) : shown.ts >= r.ts)

(* A stopped application's worker ends, whatever is left in the queue.     *)
WorkerEnds == \A a \in Apps : closed[a] ~> worker[a].step = "ended"
=============================================================================
