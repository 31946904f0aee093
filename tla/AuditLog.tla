------------------------------ MODULE AuditLog ------------------------------
(***************************************************************************)
(* The audit trail: requests record events through record_or_log (and its *)
(* pair form), the journal delivers them to a file writer thread, to an    *)
(* in-process daemon or only to the trace, and the counters decide when    *)
(* the server halts (src/src/audit.rs, src/src/journal.rs, halt_check).    *)
(* One slot of Requests is one request being served.                       *)
(***************************************************************************)
EXTENDS Naturals, Sequences, FiniteSets, SequencesExt

CONSTANTS
    Requests,       \* slots of requests served at the same time
    MaxEvents,      \* audit_max_events
    AlarmThreshold, \* audit_alarm_threshold
    FileQueueCap,   \* FILE_QUEUE_CAP
    DaemonCap,      \* DAEMON_STORE_CAP
    DaemonDrain,    \* entries evicted from a full daemon store
    MaxQueryLines,  \* MAX_QUERY_LINES
    Policies,       \* the audit policies and sinks to consider
    Kinds,          \* requests to consider: route, violation, events
    MaxAdmitted,    \* bound: requests admitted in a behaviour
    MaxQueries      \* bound: audit queries in a behaviour

ASSUME AuditAssumption ==
    /\ {MaxEvents, AlarmThreshold, FileQueueCap, DaemonCap, DaemonDrain,
        MaxQueryLines} \subseteq Nat \ {0}
    /\ {MaxAdmitted, MaxQueries} \subseteq Nat
    /\ IsFiniteSet(Requests)
    /\ Policies \subseteq [overflow : {"halt", "drop_oldest"},
                           alarm : {"syslog", "halt"},
                           sink : {"file", "daemon", "trace"}]
    /\ Kinds \subseteq [route : {"acme", "admin", "webhook"},
                        violation : BOOLEAN, events : {1, 2}]

VARIABLES
    policy,      \* AuditPolicy and the journal's sink, fixed at start
    halt,        \* should_halt
    count,       \* event_count
    failures,    \* consecutive_insert_failures
    violations,  \* violation_times inside the five-minute window
    req,         \* the request of each slot
    queue,       \* commands in the file writer's channel
    queueLen,    \* file_queue_len
    socket,      \* datagrams the daemon has not received
    stored,      \* the lines of the file or the daemon's entries
    query,       \* the audit query in progress
    admitted,    \* requests admitted so far; gives events their identity
    lost,        \* ghost: events whose file write failed
    late         \* ghost: events counted while halted, exempt route apart, and their bound

auditVars == <<policy, halt, count, failures, violations, req, queue, queueLen,
               socket, stored, query, admitted, lost, late>>

IdleReq == [pc |-> "idle", route |-> "acme", violation |-> FALSE, left |-> 0,
            id |-> 0, n |-> 0, failed |-> FALSE]
IdleQuery == [pc |-> "idle", before |-> {}, rows |-> <<>>, file |-> 0, n |-> 0]
Event(r) == <<req[r].id, req[r].left>>

AuditInit ==
    /\ policy \in Policies
    /\ halt = FALSE /\ count = 0 /\ failures = 0 /\ violations = 0
    /\ req = [r \in Requests |-> IdleReq]
    /\ queue = <<>> /\ queueLen = 0 /\ socket = <<>> /\ stored = <<>>
    /\ query = IdleQuery /\ admitted = 0 /\ lost = {}
    /\ late = [n |-> 0, cap |-> 0]

-----------------------------------------------------------------------------
(* The halt of FAU_STG.4: halt_check for the ACME routes and the first     *)
(* test of resolve_operator_context for the admin routes; the e-mail       *)
(* webhook is exempt.                                                      *)
halt_check(route) == route = "webhook" \/ ~halt

(* A request passes the middleware; it will record one event or two.       *)
Admit(r, kind) ==
    /\ req[r].pc = "idle" /\ admitted < MaxAdmitted
    /\ halt_check(kind.route)
    /\ admitted' = admitted + 1
    /\ req' = [req EXCEPT ![r] = [IdleReq EXCEPT !.pc = "send", !.route = kind.route,
                  !.violation = kind.violation, !.left = kind.events, !.id = admitted + 1]]
    /\ UNCHANGED <<policy, halt, count, failures, violations, queue, queueLen,
                   socket, stored, query, lost, late>>

(* record has delivered the event, or has failed: the next event of the    *)
(* pair, or the tracking of the result.                                    *)
AfterRecord(r, failed) ==
    [req[r] EXCEPT !.left = @ - 1, !.failed = @ \/ failed, !.n = 0,
                   !.pc = IF req[r].left = 1 THEN "track" ELSE "send"]

(* JournalWriter::send over a datagram socket, or without any sink.        *)
SendSocket(r) ==
    /\ req[r].pc = "send" /\ policy.sink # "file"
    /\ \/ /\ req' = [req EXCEPT ![r].pc = "count"]
          /\ socket' = IF policy.sink = "daemon" THEN Append(socket, Event(r))
                       ELSE socket
       \/ /\ policy.sink = "daemon"
          /\ req' = [req EXCEPT ![r] = AfterRecord(r, TRUE)]
          /\ UNCHANGED socket
    /\ UNCHANGED <<policy, halt, count, failures, violations, queue, queueLen,
                   stored, query, admitted, lost, late>>

(* ... and over the file writer's channel: the counter is raised first and *)
(* lowered again when it already stood at the cap.                         *)
SendReserve(r) ==
    /\ req[r].pc = "send" /\ policy.sink = "file"
    /\ req' = [req EXCEPT ![r].pc = IF queueLen >= FileQueueCap THEN "undo"
                                    ELSE "enqueue"]
    /\ queueLen' = queueLen + 1
    /\ UNCHANGED <<policy, halt, count, failures, violations, queue, socket,
                   stored, query, admitted, lost, late>>

SendUndo(r) ==
    /\ req[r].pc = "undo"
    /\ queueLen' = queueLen - 1
    /\ req' = [req EXCEPT ![r] = AfterRecord(r, TRUE)]
    /\ UNCHANGED <<policy, halt, count, failures, violations, queue, socket,
                   stored, query, admitted, lost, late>>

SendEnqueue(r) ==
    /\ req[r].pc = "enqueue"
    /\ queue' = Append(queue, [cmd |-> "Write", ev |-> Event(r)])
    /\ req' = [req EXCEPT ![r].pc = "count"]
    /\ UNCHANGED <<policy, halt, count, failures, violations, queueLen, socket,
                   stored, query, admitted, lost, late>>

(* record: event_count is raised atomically; each caller keeps its own     *)
(* value for the overflow test.                                            *)
(* Mutant: the value tested is the one before the increment.               *)
MutCountEvent(r) ==
    /\ req[r].pc = "count"
    /\ count' = count + 1
    /\ req' = [req EXCEPT ![r].pc = "overflow", ![r].n = count]
    /\ late' = IF halt /\ req[r].route # "webhook" THEN [late EXCEPT !.n = @ + 1] ELSE late
    /\ UNCHANGED <<policy, halt, failures, violations, queue, queueLen, socket,
                   stored, query, admitted, lost>>
CountEvent(r) ==
    /\ req[r].pc = "count"
    /\ count' = count + 1
    /\ req' = [req EXCEPT ![r].pc = "overflow", ![r].n = count + 1]
    /\ late' = IF halt /\ req[r].route # "webhook" THEN [late EXCEPT !.n = @ + 1] ELSE late
    /\ UNCHANGED <<policy, halt, failures, violations, queue, queueLen, socket,
                   stored, query, admitted, lost>>

(* handle_alarm and check_violation: the window is five minutes; the       *)
(* syslog alarm only traces, so its count is not kept.                     *)
check_violation(r) ==
    IF req[r].violation /\ policy.alarm = "halt" THEN violations + 1 ELSE violations
handle_alarm(r) == req[r].violation /\ check_violation(r) >= AlarmThreshold
                   /\ policy.alarm = "halt"

(* Ghost: the events that requests in flight may still record when the     *)
(* flag goes up: two each, and one for the request that raises it.         *)
Halting == late' = IF halt' /\ ~halt
                   THEN [late EXCEPT !.cap = 2 * Cardinality({r \in Requests : req[r].pc # "idle"}) - 1]
                   ELSE late

Overflow(r) ==
    /\ req[r].pc = "overflow"
    /\ violations' = check_violation(r)
    /\ halt' = \/ halt
               \/ policy.overflow = "halt" /\ req[r].n >= MaxEvents
               \/ handle_alarm(r)
    /\ req' = [req EXCEPT ![r] = AfterRecord(r, FALSE)]
    /\ Halting
    /\ UNCHANGED <<policy, count, failures, queue, queueLen, socket, stored,
                   query, admitted, lost>>

(* track_record_result: consecutive failures stop the server as well; a    *)
(* pair counts once.                                                       *)
track_record_result(r) ==
    /\ req[r].pc = "track"
    /\ failures' = IF req[r].failed THEN failures + 1 ELSE 0
    /\ halt' = (halt \/ (req[r].failed /\ failures + 1 >= AlarmThreshold))
    /\ req' = [req EXCEPT ![r] = IdleReq]
    /\ Halting
    /\ UNCHANGED <<policy, count, violations, queue, queueLen, socket, stored,
                   query, admitted, lost>>

(* Five minutes pass without a violation.                                  *)
WindowPasses ==
    /\ violations > 0 /\ violations' = 0
    /\ UNCHANGED <<policy, halt, count, failures, req, queue, queueLen, socket,
                   stored, query, admitted, lost, late>>

-----------------------------------------------------------------------------
(* The writer thread: an event whose write fails is lost and only traced.  *)
file_writer_loop ==
    /\ queue # <<>>
    /\ queue' = Tail(queue)
    /\ IF Head(queue).cmd = "Write"
       THEN /\ queueLen' = queueLen - 1
            /\ UNCHANGED query
            /\ \/ stored' = Append(stored, Head(queue).ev) /\ UNCHANGED lost
               \/ lost' = lost \union {Head(queue).ev} /\ UNCHANGED stored
       ELSE /\ query' = [query EXCEPT !.pc = "read"]
            /\ UNCHANGED <<queueLen, stored, lost>>
    /\ UNCHANGED <<policy, halt, count, failures, violations, req, socket,
                   admitted, late>>

(* The daemon thread receives a datagram; a full store drops its oldest.   *)
DaemonReceive ==
    /\ socket # <<>>
    /\ socket' = Tail(socket)
    /\ stored' = Append(IF Len(stored) >= DaemonCap
                        THEN SubSeq(stored, DaemonDrain + 1, Len(stored))
                        ELSE stored, Head(socket))
    /\ UNCHANGED <<policy, halt, count, failures, violations, req, queue,
                   queueLen, query, admitted, lost, late>>

(* The events whose delivery has been reported as done.                    *)
Delivered ==
    {e \in (1..admitted) \X (1..2) :
        \/ \E j \in 1..Len(queue) : queue[j].cmd = "Write" /\ queue[j].ev = e
        \/ \E j \in 1..Len(stored) : stored[j] = e}

(* query_file asks the writer to flush and waits for the acknowledgement.  *)
QueryFlush ==
    /\ query.pc = "idle" /\ query.n < MaxQueries /\ policy.sink = "file"
    /\ queue' = Append(queue, [cmd |-> "Flush", ev |-> <<0, 0>>])
    /\ query' = [query EXCEPT !.pc = "wait", !.before = Delivered]
    /\ UNCHANGED <<policy, halt, count, failures, violations, req, queueLen,
                   socket, stored, admitted, lost, late>>

(* The rows of a query, newest first: a file is read from its start up to  *)
(* MAX_QUERY_LINES, a store from its end.                                  *)
query_file == Reverse(SubSeq(stored, 1, IF Len(stored) < MaxQueryLines
                                        THEN Len(stored) ELSE MaxQueryLines))
query_store == Reverse(stored)

QueryRead ==
    /\ \/ query.pc = "read"
       \/ query.pc = "idle" /\ query.n < MaxQueries /\ policy.sink = "daemon"
    /\ query' = [query EXCEPT !.pc = "done", !.file = Len(stored),
                   !.rows = IF policy.sink = "file" THEN query_file ELSE query_store]
    /\ UNCHANGED <<policy, halt, count, failures, violations, req, queue,
                   queueLen, socket, stored, admitted, lost, late>>

QueryDone ==
    /\ query.pc = "done" /\ query' = [IdleQuery EXCEPT !.n = query.n + 1]
    /\ UNCHANGED <<policy, halt, count, failures, violations, req, queue,
                   queueLen, socket, stored, admitted, lost, late>>

AuditNext ==
    \/ \E r \in Requests :
          \/ \E kind \in Kinds : Admit(r, kind)
          \/ SendSocket(r) \/ SendReserve(r) \/ SendUndo(r) \/ SendEnqueue(r)
          \/ CountEvent(r) \/ Overflow(r) \/ track_record_result(r)
    \/ WindowPasses \/ file_writer_loop \/ DaemonReceive
    \/ QueryFlush \/ QueryRead \/ QueryDone

AuditSpec == AuditInit /\ [][AuditNext]_auditVars

-----------------------------------------------------------------------------
Writes == {j \in 1..Len(queue) : queue[j].cmd = "Write"}

(* The queue counter is exactly the queued writes plus the senders between *)
(* reserving and finishing: it never wraps below zero, and the queue never *)
(* holds more than FILE_QUEUE_CAP events although a sender that finds it   *)
(* full raises it for a moment (send and file_writer_loop, journal.rs).    *)
QueueCounter ==
    /\ queueLen = Cardinality(Writes)
                  + Cardinality({r \in Requests : req[r].pc \in {"undo", "enqueue"}})
    /\ Cardinality(Writes) <= FileQueueCap

(* Whichever order concurrent recorders finish in, the server is halted    *)
(* once the events counted reach audit_max_events under the halt policy,   *)
(* or enough recordings failed in a row, unless the recorder that saw it   *)
(* is still about to set the flag (record, track_record_result).           *)
HaltsWhenDue ==
    /\ policy.overflow = "halt" /\ count >= MaxEvents
         => halt \/ (\E r \in Requests : req[r].pc = "overflow" /\ req[r].n >= MaxEvents)
    /\ failures >= AlarmThreshold => halt

(* After the halt only the requests that had already passed halt_check go  *)
(* on, each with at most its pair (halt_check, record_pair).                *)
LateEventsBounded == halt => late.n <= late.cap

(* An audit query returns every event whose recording had returned before  *)
(* it began, unless its write failed or the file has outgrown the scan:    *)
(* the Flush command travels behind them in the writer's channel           *)
(* (query_file, journal.rs).                                               *)
ReadYourWrites ==
    query.pc = "done" /\ policy.sink = "file" /\ query.file <= MaxQueryLines
        => query.before \ lost \subseteq ToSet(query.rows)

(* Recorders, the file writer, halts and queries that overlap: no event is   *)
(* lost unnoticed, and the server stops when it should.                     *)
AuditSound == QueueCounter /\ HaltsWhenDue /\ LateEventsBounded /\ ReadYourWrites
=============================================================================
