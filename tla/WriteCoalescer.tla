--------------------------- MODULE WriteCoalescer ---------------------------
(***************************************************************************)
(* The write coalescer (db/coalescer.rs): callers submit operations over a *)
(* bounded channel, coalesce_loop drains it into a batch, runs the batch   *)
(* in one BEGIN IMMEDIATE ... COMMIT with a savepoint per operation, and   *)
(* answers the callers after the commit.                                   *)
(*                                                                         *)
(* The loop owns the only connection that holds the write lock between     *)
(* BEGIN and COMMIT, so its view of the rows is `db` at BEGIN plus its own *)
(* writes.  Readers see `db`.                                              *)
(***************************************************************************)
EXTENDS CoalescerOps

CONSTANTS
  InitDbs,      \* rows at startup
  Cap,          \* capacity of the mpsc channel (256 in the code)
  MaxErrors,    \* bound: failed SQL statements, panics and restarts
  MaxFatal      \* bound: errors after which SQLite has rolled back by itself

(* The rows at startup are such as the transactions of earlier runs leave. *)
ASSUME CoalescerAssumption ==
  /\ InitDbs \subseteq {d \in Db : Whole(d) /\ InStep(d)}
  /\ Cap \in Nat \ {0} /\ MaxErrors \in Nat /\ MaxFatal \in Nat

VARIABLES
  db,         \* durable rows
  client,     \* what the caller of each operation is doing
  reply,      \* what was sent on its oneshot channel
  queue,      \* the mpsc channel
  pc,         \* where coalesce_loop is
  batch,      \* operations of the batch not executed yet
  inTx,       \* the connection is inside the BEGIN ... COMMIT of the batch
  tx,         \* the rows as the connection sees them
  deferred,   \* outcomes waiting for the commit
  commit_ok,
  wedged,     \* a transaction is left open that could not be rolled back
  errors, fatal,
  done        \* history: outcome of each operation whose rows are durable

vars == <<db, client, reply, queue, pc, batch, inTx, tx, deferred, commit_ok, wedged,
          errors, fatal, done>>
callers == <<client, reply, queue>>
loop == <<pc, batch, inTx, tx, deferred, commit_ok, wedged>>

Unset == [op \in Ops |-> "none"]

TypeOK ==
  /\ db \in Db /\ tx \in Db
  /\ client \in [Ops -> {"idle", "sending", "waiting", "answered", "gone"}]
  /\ reply \in [Ops -> Outcomes \cup {"none"}]
  /\ deferred \in [Ops -> Outcomes \cup {"none"}]
  /\ done \in [Ops -> Outcomes \cup {"none"}]
  /\ queue \in Seq(Ops) /\ Len(queue) <= Cap
  /\ batch \in Seq(Ops) /\ Len(batch) <= Cap
  /\ pc \in {"recv", "begin", "exec", "flush", "dead"}
  /\ inTx \in BOOLEAN /\ commit_ok \in BOOLEAN /\ wedged \in BOOLEAN
  /\ errors \in 0 .. MaxErrors /\ fatal \in 0 .. MaxFatal

Init ==
  /\ db \in InitDbs /\ tx = db
  /\ client = [op \in Ops |-> "idle"]
  /\ reply = Unset /\ deferred = Unset /\ done = Unset
  /\ queue = <<>> /\ batch = <<>>
  /\ pc = "recv"
  /\ inTx = FALSE /\ commit_ok = FALSE /\ wedged = FALSE
  /\ errors = 0 /\ fatal = 0

-----------------------------------------------------------------------------
(* Callers.                                                                *)

(* A handler or task reaches submit_*: what it read, or was told, before.  *)
Ready(op) ==
  CASE Kind[op] = "SetProcessing" -> db.chall = "pending"
    [] Kind[op] \in {"OnValid", "OnInvalid"} ->
         \E q \in Ops : Kind[q] = "SetProcessing" /\ client[q] = "answered" /\ reply[q] = "changed"
    [] Kind[op] = "Finalize" -> db.order = "ready"
    [] OTHER -> TRUE

Submit(op) ==
  /\ client[op] = "idle" /\ Ready(op)
  /\ client' = [client EXCEPT ![op] = "sending"]
  /\ UNCHANGED <<db, reply, queue, loop, errors, fatal, done>>

(* tx.send: waits for room, fails when the loop is gone. *)
Send(op) ==
  /\ client[op] = "sending"
  /\ IF pc = "dead"
     THEN /\ client' = [client EXCEPT ![op] = "answered"]
          /\ reply' = [reply EXCEPT ![op] = "error"]
          /\ UNCHANGED queue
     ELSE /\ Len(queue) < Cap
          /\ client' = [client EXCEPT ![op] = "waiting"]
          /\ queue' = Append(queue, op)
          /\ UNCHANGED reply
  /\ UNCHANGED <<db, loop, errors, fatal, done>>

(* The handler's future is dropped; an operation already sent still runs. *)
HangUp(op) ==
  /\ client[op] \in {"sending", "waiting"}
  /\ client' = [client EXCEPT ![op] = "gone"]
  /\ UNCHANGED <<db, reply, queue, loop, errors, fatal, done>>

(* Answer the operations of S; a receiver that is gone drops the answer. *)
SendReplies(S, value) ==
  /\ reply' = [op \in Ops |-> IF op \in S THEN value[op] ELSE reply[op]]
  /\ client' = [op \in Ops |-> IF op \in S /\ client[op] = "waiting" THEN "answered" ELSE client[op]]

Errors == [op \in Ops |-> "error"]

-----------------------------------------------------------------------------
(* The loop.                                                               *)

StatementFails == errors < MaxErrors /\ errors' = errors + 1

Elements(s) == {s[i] : i \in DOMAIN s}

(* recv, then try_recv until the channel is empty. *)
Drain ==
  /\ pc = "recv" /\ queue # <<>>
  /\ batch' = queue /\ queue' = <<>>
  /\ pc' = "begin"
  /\ UNCHANGED <<db, client, reply, inTx, tx, deferred, commit_ok, wedged, errors, fatal, done>>

BeginOk ==
  /\ pc = "begin" /\ ~ wedged
  /\ pc' = "exec" /\ inTx' = TRUE /\ tx' = db /\ deferred' = Unset
  /\ UNCHANGED <<db, callers, batch, commit_ok, wedged, errors, fatal, done>>

(* Mutant: the batch is dropped unanswered when BEGIN fails. *)
MutBeginFail ==
  /\ pc = "begin"
  /\ IF wedged THEN UNCHANGED errors ELSE StatementFails
  /\ pc' = "recv" /\ batch' = <<>>
  /\ UNCHANGED <<db, callers, inTx, tx, deferred, commit_ok, wedged, fatal, done>>

(* BEGIN fails, always so inside a transaction that was left open. *)
BeginFail ==
  /\ pc = "begin"
  /\ IF wedged THEN UNCHANGED errors ELSE StatementFails
  /\ SendReplies(Elements(batch), Errors)
  /\ pc' = "recv" /\ batch' = <<>>
  /\ UNCHANGED <<db, queue, inTx, tx, deferred, commit_ok, wedged, fatal, done>>

SavepointFail ==
  /\ pc = "exec" /\ batch # <<>>
  /\ StatementFails
  /\ SendReplies({Head(batch)}, Errors)
  /\ batch' = Tail(batch)
  /\ UNCHANGED <<db, queue, pc, inTx, tx, deferred, commit_ok, wedged, fatal, done>>

(* Mutant: a failed operation is released without ROLLBACK TO. *)
MutRollbackTo(saved, partial) == partial

(* ROLLBACK TO the savepoint. *)
RollbackTo(saved, partial) == saved

(* The rows and outcomes are durable from here on. *)
Durable(rows, outcomes) ==
  /\ db' = rows
  /\ done' = [op \in Ops |-> IF outcomes[op] \in {"changed", "unchanged"} THEN outcomes[op] ELSE done[op]]

(* execute_op and RELEASE or ROLLBACK TO.  Outside a transaction SAVEPOINT *)
(* opens one of its own and RELEASE commits it.                            *)
Finish(op, outcome, rows) ==
  /\ deferred' = [deferred EXCEPT ![op] = outcome]
  /\ tx' = rows
  /\ batch' = Tail(batch)
  /\ IF inTx THEN UNCHANGED <<db, done>> ELSE Durable(rows, [Unset EXCEPT ![op] = outcome])

ExecOp ==
  /\ pc = "exec" /\ batch # <<>>
  /\ LET op == Head(batch)  run == Exec(op, tx) IN
       Finish(op, run.outcome, IF run.outcome = "error" THEN RollbackTo(tx, run.db) ELSE run.db)
  /\ UNCHANGED <<callers, pc, inTx, commit_ok, wedged, errors, fatal>>

(* A statement of the operation fails after others have run. *)
ExecError ==
  /\ pc = "exec" /\ batch # <<>>
  /\ StatementFails
  /\ LET op == Head(batch) IN Finish(op, "error", RollbackTo(tx, Exec(op, tx).db))
  /\ UNCHANGED <<callers, pc, inTx, commit_ok, wedged, fatal>>

(* An error after which SQLite has rolled the whole transaction back (full *)
(* disk, I/O error): ROLLBACK TO and RELEASE fail and are logged.          *)
ExecFatal ==
  /\ pc = "exec" /\ batch # <<>> /\ inTx
  /\ fatal < MaxFatal /\ fatal' = fatal + 1
  /\ deferred' = [deferred EXCEPT ![Head(batch)] = "error"]
  /\ inTx' = FALSE /\ tx' = db
  /\ batch' = Tail(batch)
  /\ UNCHANGED <<db, callers, pc, commit_ok, wedged, errors, done>>

CommitOk ==
  /\ pc = "exec" /\ batch = <<>> /\ inTx
  /\ Durable(tx, deferred)
  /\ commit_ok' = TRUE /\ inTx' = FALSE /\ pc' = "flush"
  /\ UNCHANGED <<callers, batch, tx, deferred, wedged, errors, fatal>>

(* COMMIT fails, for certain without a transaction; ROLLBACK may fail too. *)
CommitFail ==
  /\ pc = "exec" /\ batch = <<>>
  /\ IF inTx THEN StatementFails ELSE UNCHANGED errors
  /\ wedged' \in {wedged, inTx}
  /\ commit_ok' = FALSE /\ inTx' = FALSE /\ tx' = db /\ pc' = "flush"
  /\ UNCHANGED <<db, callers, batch, deferred, fatal, done>>

(* Mutant: the deferred closure forgets commit_ok. *)
MutDeferredReply(op) == deferred[op]

(* The deferred closure of an operation. *)
DeferredReply(op) == IF ~ commit_ok THEN "error" ELSE deferred[op]

Flush ==
  /\ pc = "flush"
  /\ SendReplies({op \in Ops : deferred[op] # "none"}, [op \in Ops |-> DeferredReply(op)])
  /\ deferred' = Unset
  /\ pc' = "recv"
  /\ UNCHANGED <<db, queue, batch, inTx, tx, commit_ok, wedged, errors, fatal, done>>

(* The loop panics inside an operation: its connection, the channel and    *)
(* every oneshot sender in them are dropped, so the callers get an error.  *)
Panic ==
  /\ pc = "exec" /\ inTx /\ StatementFails
  /\ SendReplies({op \in Ops : client[op] = "waiting"}, Errors)
  /\ pc' = "dead" /\ queue' = <<>> /\ batch' = <<>> /\ inTx' = FALSE /\ tx' = db /\ deferred' = Unset
  /\ UNCHANGED <<db, commit_ok, wedged, fatal, done>>

(* The process restarts. *)
Restart ==
  /\ StatementFails
  /\ client' = [op \in Ops |-> IF client[op] \in {"sending", "waiting"} THEN "gone" ELSE client[op]]
  /\ queue' = <<>> /\ batch' = <<>> /\ inTx' = FALSE /\ tx' = db /\ deferred' = Unset
  /\ pc' = "recv" /\ wedged' = FALSE /\ commit_ok' = FALSE
  /\ UNCHANGED <<db, reply, fatal, done>>

LoopStep ==
  \/ Drain \/ BeginOk \/ BeginFail \/ SavepointFail \/ ExecOp \/ ExecError \/ ExecFatal
  \/ CommitOk \/ CommitFail \/ Flush

Next ==
  \/ \E op \in Ops : Submit(op) \/ Send(op) \/ HangUp(op)
  \/ LoopStep \/ Panic \/ Restart

Spec == Init /\ [][Next]_vars

FairSpec == Spec /\ WF_vars(LoopStep) /\ WF_vars(\E op \in Ops : Send(op))

-----------------------------------------------------------------------------
(* Properties.                                                             *)

(* Where rows d show that operation op happened. *)
AppliedIn(op, d) ==
  CASE Kind[op] = "NewOrder"      -> d.order # "none"
    [] Kind[op] = "SetProcessing" -> d.chall \notin {"none", "pending"}
    [] Kind[op] = "OnValid"       -> d.chall = "valid"
    [] Kind[op] = "OnInvalid"     -> d.chall = "invalid"
    [] Kind[op] = "Finalize"      -> op \in d.certs
    [] Kind[op] = "NewAccount"    -> op \in d.accounts

Applied(op) == AppliedIn(op, db)

(* The deferred replies of coalesce_loop: a caller that was told Ok finds  *)
(* its rows in the database, whatever happened to the rest of the batch,   *)
(* the commit and the connection.                                          *)
OkIsDurable == \A op \in Ops : reply[op] = "changed" => Applied(op)

(* execute_op with its savepoint: no half of exec_finalize and             *)
(* exec_new_account survives; one certificate for the order, one account   *)
(* for the EAB key, although requests race within and across batches.      *)
AllOrNothing == Whole(db)

(* respond_challenge spawns when its operation changed a row: of all that  *)
(* race on one challenge, one is told so.                                  *)
OneFlip ==
  \A p, q \in Ops : /\ Kind[p] = "SetProcessing" /\ reply[p] = "changed"
                    /\ Kind[q] = "SetProcessing" /\ reply[q] = "changed"
                    => p = q

(* What callers are told is so, for good, and only one of them is told it. *)
RepliesTrue == OkIsDurable /\ OneFlip

(* No caller waits for ever for room in the channel or on its oneshot      *)
(* channel; each operation is submitted once at most.                      *)
CallersAnswered == <>[](\A op \in Ops : client[op] \notin {"sending", "waiting"})

(* The coalescer implements atomic, exactly answered writes: what the      *)
(* caller is told is what happened to its rows, also when statements fail, *)
(* the loop panics or the process restarts (coalesce_loop, "its own        *)
(* SAVEPOINT for per-op isolation").                                       *)
Atomic == INSTANCE AtomicWrites WITH
  InitDbs <- InitDbs, db <- db, done <- done, reply <- reply, abandoned <- fatal > 0
AtomicSpec == Atomic!Spec
=============================================================================
