------------------------ MODULE WriteCoalescerProofs ------------------------
(***************************************************************************)
(* Proofs about WriteCoalescer, for every set of operations, every channel *)
(* capacity and every number of failures.                                  *)
(*                                                                         *)
(* The argument: an operation that does not fail keeps rows whole and      *)
(* keeps what earlier operations did (ExecRows); outside a transaction the *)
(* connection sees the durable rows, inside it what became durable before  *)
(* it is still there (View); and an outcome that may still be reported is  *)
(* in the connection's rows (Reported).                                    *)
(*                                                                         *)
(* It implements AtomicWrites: an operation is queued, executed and        *)
(* answered once (Once); what has happened to it and what its caller will  *)
(* be told agree (Settled); and inside a transaction the connection's rows *)
(* are the durable rows after the operations executed so far, in their     *)
(* order (History).  COMMIT is then one step in which exactly those        *)
(* happen.                                                                 *)
(***************************************************************************)
EXTENDS WriteCoalescer, FiniteSetTheorems, NaturalsInduction, WellFoundedInduction, TLAPS

-----------------------------------------------------------------------------
(* Operations.                                                             *)

GoodRows(d) == d \in Db /\ Whole(d) /\ InStep(d)

(* d2 still shows every operation that d1 shows. *)
Keeps(d1, d2) == \A op \in Ops : AppliedIn(op, d1) => AppliedIn(op, d2)

LEMMA KindCases ==
  ASSUME NEW op \in Ops
  PROVE  Kind[op] \in Kinds
  BY OpsAssumption

(* An operation that succeeds keeps the rows whole, keeps what was there,  *)
(* and shows in the rows when it says that it changed them.                *)
LEMMA ExecRows ==
  ASSUME NEW op \in Ops, NEW d, GoodRows(d)
  PROVE  LET run == Exec(op, d) IN
         /\ run.outcome \in Outcomes
         /\ run.outcome # "error" => /\ GoodRows(run.db)
                                     /\ Keeps(d, run.db)
                                     /\ run.outcome = "changed" => AppliedIn(op, run.db)
         /\ run.outcome = "changed" /\ Kind[op] = "SetProcessing" => d.chall = "pending"
<1> DEFINE Goal(run) ==
         /\ run.outcome \in Outcomes
         /\ run.outcome # "error" => /\ GoodRows(run.db)
                                     /\ Keeps(d, run.db)
                                     /\ run.outcome = "changed" => AppliedIn(op, run.db)
         /\ run.outcome = "changed" /\ Kind[op] = "SetProcessing" => d.chall = "pending"
<1> USE OpsAssumption DEF Outcomes, Ran, GoodRows
<1>0. Keeps(d, d)
  BY DEF Keeps
<1>1. CASE Kind[op] = "NewOrder"
  <2>1. Exec(op, d) = exec_new_order(d)
    BY <1>1 DEF Exec
  <2>2. CASE d.order # "none"
    BY <1>1, <2>1, <2>2 DEF exec_new_order
  <2>3. CASE d.order = "none"
    <3> DEFINE e == [d EXCEPT !.order = "pending", !.authz = "pending", !.chall = "pending"]
    <3>1. Exec(op, d) = [outcome |-> "changed", db |-> e]
      BY <2>1, <2>3 DEF exec_new_order
    <3>2. /\ e \in Db /\ e.order = "pending" /\ e.chall = "pending" /\ e.certs = d.certs
          /\ e.certificate_id = d.certificate_id /\ e.accounts = d.accounts /\ e.eabUsed = d.eabUsed
      BY DEF Db
    <3>3. Whole(e) /\ InStep(e)
      BY <2>3, <3>2 DEF Whole, InStep
    <3>4. Keeps(d, e) /\ AppliedIn(op, e)
      BY <1>1, <2>3, <3>2 DEF Keeps, AppliedIn, InStep, Kinds
    <3>5. QED
      BY <1>1, <3>1, <3>2, <3>3, <3>4
  <2>4. QED
    BY <2>2, <2>3
<1>2. CASE Kind[op] \in {"SetProcessing", "OnValid", "OnInvalid"}
  <2> DEFINE Changed(c, o, a) ==
               Exec(op, d) = [outcome |-> "changed", db |-> [d EXCEPT !.chall = c, !.order = o, !.authz = a]]
  <2>1. \/ Exec(op, d) = [outcome |-> "unchanged", db |-> d]
        \/ Kind[op] = "SetProcessing" /\ d.chall = "pending" /\ Changed("processing", d.order, d.authz)
        \/ Kind[op] = "OnValid" /\ d.chall = "processing" /\ Changed("valid", "ready", "valid")
        \/ Kind[op] = "OnInvalid" /\ d.chall = "processing" /\ Changed("invalid", "invalid", "invalid")
    <3>1. CASE Kind[op] = "SetProcessing"
      <4>1. Exec(op, d) = exec_set_processing(d)
        BY <3>1 DEF Exec
      <4>2. d.chall = "pending" => [d EXCEPT !.chall = "processing"]
                                   = [d EXCEPT !.chall = "processing", !.order = d.order, !.authz = d.authz]
        BY DEF Db
      <4>3. QED
        BY <3>1, <4>1, <4>2 DEF exec_set_processing
    <3>2. CASE Kind[op] = "OnValid"
      <4>1. Exec(op, d) = exec_on_valid(d)
        BY <3>2 DEF Exec
      <4>2. [d EXCEPT !.chall = "valid", !.authz = "valid", !.order = "ready"]
            = [d EXCEPT !.chall = "valid", !.order = "ready", !.authz = "valid"]
        BY DEF Db
      <4>3. QED
        BY <3>2, <4>1, <4>2 DEF exec_on_valid
    <3>3. CASE Kind[op] = "OnInvalid"
      <4>1. Exec(op, d) = exec_on_invalid(d)
        BY <3>3 DEF Exec
      <4>2. [d EXCEPT !.chall = "invalid", !.authz = "invalid", !.order = "invalid"]
            = [d EXCEPT !.chall = "invalid", !.order = "invalid", !.authz = "invalid"]
        BY DEF Db
      <4>3. QED
        BY <3>3, <4>1, <4>2 DEF exec_on_invalid
    <3>4. QED
      BY <1>2, <3>1, <3>2, <3>3
  <2>2. CASE Exec(op, d) = [outcome |-> "unchanged", db |-> d]
    BY <1>0, <2>2
  <2>3. ASSUME NEW c \in {"processing", "valid", "invalid"}, NEW o, NEW a, Changed(c, o, a),
               \/ /\ c = "processing" /\ d.chall = "pending" /\ o = d.order /\ a = d.authz
                  /\ Kind[op] = "SetProcessing"
               \/ /\ c = "valid" /\ d.chall = "processing" /\ o = "ready" /\ a = "valid"
                  /\ Kind[op] = "OnValid"
               \/ /\ c = "invalid" /\ d.chall = "processing" /\ o = "invalid" /\ a = "invalid"
                  /\ Kind[op] = "OnInvalid"
        PROVE  Goal(Exec(op, d))
    <3> DEFINE e == [d EXCEPT !.chall = c, !.order = o, !.authz = a]
    <3>1. /\ e.chall = c /\ e.order = o /\ e.certs = d.certs
          /\ e.certificate_id = d.certificate_id /\ e.accounts = d.accounts /\ e.eabUsed = d.eabUsed
      BY DEF Db
    <3>2. e \in Db
      BY <2>3 DEF Db
    <3>3. d.order = "pending" /\ d.certificate_id = Null
      BY <2>3 DEF InStep, Whole
    <3>4. Whole(e) /\ InStep(e)
      BY <2>3, <3>1, <3>3 DEF Whole, InStep
    <3>5. Keeps(d, e)
      BY <2>3, <3>1 DEF Keeps, AppliedIn, Kinds
    <3>6. AppliedIn(op, e)
      BY <2>3, <3>1 DEF AppliedIn
    <3>7. QED
      BY <2>3, <3>2, <3>4, <3>5, <3>6
  <2>4. QED
    BY <2>1, <2>2, <2>3
<1>3. CASE Kind[op] = "Finalize"
  <2>1. Exec(op, d) = exec_finalize(op, d)
    BY <1>3 DEF Exec
  <2>2. CASE d.order # "ready"
    BY <1>3, <2>1, <2>2 DEF exec_finalize
  <2>3. CASE d.order = "ready"
    <3> DEFINE e == [[d EXCEPT !.certs = @ \cup {op}] EXCEPT !.order = "valid", !.certificate_id = op]
    <3>1. Exec(op, d) = [outcome |-> "changed", db |-> e]
      BY <2>1, <2>3 DEF exec_finalize
    <3>2. /\ e \in Db /\ e.order = "valid" /\ e.chall = d.chall /\ e.certs = d.certs \cup {op}
          /\ e.certificate_id = op /\ e.accounts = d.accounts /\ e.eabUsed = d.eabUsed
      BY DEF Db
    <3>3. d.certs = {} /\ op # Null
      BY <2>3 DEF Whole
    <3>4. Whole(e) /\ InStep(e)
      BY <2>3, <3>2, <3>3 DEF Whole, InStep
    <3>5. Keeps(d, e) /\ AppliedIn(op, e)
      BY <1>3, <2>3, <3>2 DEF Keeps, AppliedIn, Kinds
    <3>6. QED
      BY <1>3, <3>1, <3>2, <3>4, <3>5
  <2>4. QED
    BY <2>2, <2>3
<1>4. CASE Kind[op] = "NewAccount"
  <2>1. Exec(op, d) = exec_new_account(op, d)
    BY <1>4 DEF Exec
  <2>2. CASE d.eabUsed
    BY <1>4, <2>1, <2>2 DEF exec_new_account
  <2>3. CASE ~ d.eabUsed
    <3> DEFINE e == [[d EXCEPT !.accounts = @ \cup {op}] EXCEPT !.eabUsed = TRUE]
    <3>1. Exec(op, d) = [outcome |-> "changed", db |-> e]
      BY <2>1, <2>3 DEF exec_new_account
    <3>2. /\ e \in Db /\ e.order = d.order /\ e.chall = d.chall /\ e.certs = d.certs
          /\ e.certificate_id = d.certificate_id /\ e.accounts = d.accounts \cup {op} /\ e.eabUsed
      BY DEF Db
    <3>3. d.accounts = {}
      BY <2>3 DEF Whole
    <3>4. Whole(e) /\ InStep(e)
      BY <3>2, <3>3 DEF Whole, InStep
    <3>5. Keeps(d, e) /\ AppliedIn(op, e)
      BY <1>4, <3>2 DEF Keeps, AppliedIn, Kinds
    <3>6. QED
      BY <1>4, <3>1, <3>2, <3>4, <3>5
  <2>4. QED
    BY <2>2, <2>3
<1>5. QED
  BY <1>1, <1>2, <1>3, <1>4, KindCases DEF Kinds

-----------------------------------------------------------------------------
(* The loop.                                                               *)

(* The caller of op has been told that its rows changed, or may yet be. *)
Told(op) ==
  \/ reply[op] = "changed"
  \/ deferred[op] = "changed" /\ (inTx \/ (pc = "flush" /\ commit_ok))

View ==
  /\ GoodRows(db) /\ GoodRows(tx)
  /\ ~ inTx => tx = db
  /\ inTx => pc = "exec"
  /\ Keeps(db, tx)

Reported ==
  /\ \A op \in Ops : Told(op) => AppliedIn(op, tx)
  /\ \A op \in Ops : reply[op] = "changed" => AppliedIn(op, db)
  /\ \A p, q \in Ops : /\ Kind[p] = "SetProcessing" /\ Told(p)
                       /\ Kind[q] = "SetProcessing" /\ Told(q)
                       => p = q

LoopInv == TypeOK /\ View /\ Reported

LEMMA SeqFacts ==
  ASSUME NEW s \in Seq(Ops), s # <<>>
  PROVE  /\ Head(s) \in Ops /\ Tail(s) \in Seq(Ops) /\ Len(Tail(s)) = Len(s) - 1 /\ Len(s) \in Nat
         /\ Len(s) > 0
  OBVIOUS

LEMMA AppendFacts ==
  ASSUME NEW s \in Seq(Ops), NEW op \in Ops
  PROVE  Append(s, op) \in Seq(Ops) /\ Len(Append(s, op)) = Len(s) + 1 /\ Len(s) \in Nat
  OBVIOUS

LEMMA EmptyFacts == <<>> \in Seq(Ops) /\ Len(<<>>) <= Cap
  BY CoalescerAssumption

(* What execution of an operation does to the connection's rows. *)
LEMMA FinishRows ==
  ASSUME LoopInv, pc = "exec", batch # <<>>, ExecOp \/ ExecError
  PROVE  \E outcome \in Outcomes :
           /\ deferred' = [deferred EXCEPT ![Head(batch)] = outcome]
           /\ GoodRows(tx') /\ Keeps(tx, tx')
           /\ outcome = "changed" => AppliedIn(Head(batch), tx')
           /\ outcome = "changed" /\ Kind[Head(batch)] = "SetProcessing" => tx.chall = "pending"
           /\ IF inTx THEN db' = db /\ done' = done
              ELSE db' = tx' /\ done' = [op \in Ops |-> IF op = Head(batch) /\ outcome # "error"
                                                        THEN outcome ELSE done[op]]
<1> DEFINE op == Head(batch)
           run == Exec(op, tx)
           rows == IF run.outcome = "error" THEN tx ELSE run.db
<1>1. op \in Ops /\ GoodRows(tx) /\ done \in [Ops -> Outcomes \cup {"none"}]
  BY SeqFacts DEF LoopInv, TypeOK, View
<1>2. /\ run.outcome \in Outcomes
      /\ run.outcome # "error" => /\ GoodRows(run.db)
                                  /\ Keeps(tx, run.db)
                                  /\ run.outcome = "changed" => AppliedIn(op, run.db)
      /\ run.outcome = "changed" /\ Kind[op] = "SetProcessing" => tx.chall = "pending"
  BY <1>1, ExecRows
<1>3. Keeps(tx, tx)
  BY DEF Keeps
<1>4. CASE ExecOp
  <2>1. Finish(op, run.outcome, rows)
    BY <1>4 DEF ExecOp, RollbackTo
  <2>2. GoodRows(rows) /\ Keeps(tx, rows)
    BY <1>1, <1>2, <1>3
  <2>3. run.outcome = "changed" => AppliedIn(op, rows)
    BY <1>2
  <2>4. deferred' = [deferred EXCEPT ![op] = run.outcome] /\ tx' = rows
    BY <2>1 DEF Finish
  <2>5. IF inTx THEN db' = db /\ done' = done
        ELSE db' = tx' /\ done' = [p \in Ops |-> IF p = op /\ run.outcome # "error"
                                                 THEN run.outcome ELSE done[p]]
    BY <1>1, <1>2, <2>1 DEF Finish, Durable, Unset, Outcomes
  <2>6. QED
    BY <1>2, <2>2, <2>3, <2>4, <2>5
<1>5. CASE ExecError
  <2>1. Finish(op, "error", tx)
    BY <1>5 DEF ExecError, RollbackTo
  <2>2. deferred' = [deferred EXCEPT ![op] = "error"] /\ tx' = tx
    BY <2>1 DEF Finish
  <2>3. IF inTx THEN db' = db /\ done' = done ELSE db' = tx' /\ done' = done
    BY <1>1, <2>1 DEF Finish, Durable, Unset
  <2>4. done = [p \in Ops |-> IF p = op /\ "error" # "error" THEN "error" ELSE done[p]]
    BY <1>1
  <2>5. QED
    BY <1>1, <1>3, <2>2, <2>3, <2>4 DEF Outcomes
<1>6. QED
  BY <1>4, <1>5

LEMMA TypeStep == LoopInv /\ [Next]_vars => TypeOK'
<1> SUFFICES ASSUME LoopInv, [Next]_vars PROVE TypeOK'
  OBVIOUS
<1> USE CoalescerAssumption DEF TypeOK, callers, loop
<1>0. TypeOK
  BY DEF LoopInv
<1>1. ASSUME NEW op \in Ops, Submit(op) \/ Send(op) \/ HangUp(op) PROVE TypeOK'
  <2>1. CASE Submit(op) \/ HangUp(op)
    BY <1>0, <2>1 DEF Submit, HangUp
  <2>2. CASE Send(op) /\ pc = "dead"
    BY <1>0, <2>2 DEF Send, Outcomes
  <2>3. CASE Send(op) /\ pc # "dead"
    <3>1. queue' \in Seq(Ops) /\ Len(queue') <= Cap
      <4>1. queue' = Append(queue, op) /\ Len(queue) < Cap
        BY <2>3 DEF Send
      <4>2. Append(queue, op) \in Seq(Ops) /\ Len(Append(queue, op)) = Len(queue) + 1 /\ Len(queue) \in Nat
        BY <1>0, AppendFacts
      <4>3. QED
        BY <4>1, <4>2
    <3>2. QED
      BY <1>0, <2>3, <3>1 DEF Send
  <2>4. QED
    BY <1>1, <2>1, <2>2, <2>3
<1>2. CASE Drain
  BY <1>0, <1>2 DEF Drain
<1>3. CASE BeginOk
  BY <1>0, <1>3 DEF BeginOk, Unset
<1>4. CASE BeginFail
  BY <1>0, <1>4 DEF BeginFail, SendReplies, Errors, StatementFails, Outcomes
<1>5. CASE SavepointFail
  BY <1>0, <1>5, SeqFacts DEF SavepointFail, SendReplies, Errors, StatementFails, Outcomes
<1>6. CASE ExecOp \/ ExecError
  <2>1. pc = "exec" /\ batch # <<>> /\ batch' = Tail(batch)
    BY <1>6 DEF ExecOp, ExecError, Finish
  <2>2. PICK outcome \in Outcomes :
           /\ deferred' = [deferred EXCEPT ![Head(batch)] = outcome]
           /\ GoodRows(tx')
           /\ IF inTx THEN db' = db /\ done' = done
              ELSE db' = tx' /\ done' = [op \in Ops |-> IF op = Head(batch) /\ outcome # "error"
                                                        THEN outcome ELSE done[op]]
    BY <1>6, <2>1, FinishRows
  <2>3. tx' \in Db /\ db' \in Db
    BY <1>0, <2>2 DEF GoodRows
  <2>4. deferred' \in [Ops -> Outcomes \cup {"none"}] /\ done' \in [Ops -> Outcomes \cup {"none"}]
    BY <1>0, <2>2
  <2>5. batch' \in Seq(Ops) /\ Len(batch') <= Cap
    BY <1>0, <2>1, SeqFacts
  <2>6. errors' \in 0 .. MaxErrors /\ UNCHANGED <<callers, pc, inTx, commit_ok, wedged, fatal>>
    BY <1>0, <1>6 DEF ExecOp, ExecError, StatementFails
  <2>7. QED
    BY <1>0, <2>3, <2>4, <2>5, <2>6
<1>7. CASE ExecFatal
  <2>1. batch' \in Seq(Ops) /\ Len(batch') <= Cap /\ Head(batch) \in Ops
    BY <1>0, <1>7, SeqFacts DEF ExecFatal
  <2>2. fatal' \in 0 .. MaxFatal /\ deferred' \in [Ops -> Outcomes \cup {"none"}]
    BY <1>0, <1>7, <2>1 DEF ExecFatal, Outcomes
  <2>3. QED
    BY <1>0, <1>7, <2>1, <2>2 DEF ExecFatal
<1>8. CASE CommitOk
  BY <1>0, <1>8 DEF CommitOk, Durable
<1>9. CASE CommitFail
  <2>1. errors' \in 0 .. MaxErrors
    BY <1>0, <1>9 DEF CommitFail, StatementFails
  <2>2. wedged' \in BOOLEAN /\ tx' \in Db
    BY <1>0, <1>9 DEF CommitFail
  <2>3. QED
    BY <1>0, <1>9, <2>1, <2>2 DEF CommitFail
<1>10. CASE Flush
  BY <1>0, <1>10 DEF Flush, SendReplies, DeferredReply, Unset, Outcomes
<1>11. CASE Panic
  <2>1. errors' \in 0 .. MaxErrors
    BY <1>0, <1>11 DEF Panic, StatementFails
  <2>2. /\ client' \in [Ops -> {"idle", "sending", "waiting", "answered", "gone"}]
        /\ reply' \in [Ops -> Outcomes \cup {"none"}]
        /\ deferred' \in [Ops -> Outcomes \cup {"none"}]
    BY <1>0, <1>11 DEF Panic, SendReplies, Errors, Unset, Outcomes
  <2>3. QED
    BY <1>0, <1>11, <2>1, <2>2, EmptyFacts DEF Panic
<1>12. CASE Restart
  <2>1. errors' \in 0 .. MaxErrors
    BY <1>0, <1>12 DEF Restart, StatementFails
  <2>2. /\ client' \in [Ops -> {"idle", "sending", "waiting", "answered", "gone"}]
        /\ deferred' \in [Ops -> Outcomes \cup {"none"}]
    BY <1>0, <1>12 DEF Restart, Unset
  <2>3. QED
    BY <1>0, <1>12, <2>1, <2>2, EmptyFacts DEF Restart
<1>13. CASE UNCHANGED vars
  BY <1>0, <1>13 DEF vars
<1>14. QED
  BY <1>1, <1>2, <1>3, <1>4, <1>5, <1>6, <1>7, <1>8, <1>9, <1>10, <1>11, <1>12, <1>13
  DEF Next, LoopStep

(* Every step of callers and loop preserves the invariant. *)
LEMMA LoopInvStep == LoopInv /\ [Next]_vars => LoopInv'
<1> SUFFICES ASSUME LoopInv, [Next]_vars PROVE View' /\ Reported'
  BY TypeStep DEF LoopInv
<1> USE DEF callers, loop
<1>0. TypeOK /\ TypeOK' /\ View /\ Reported
  BY TypeStep DEF LoopInv
<1>1. ASSUME UNCHANGED <<db, tx, inTx>>, inTx => pc' = "exec",
             \A op \in Ops : reply'[op] = "changed" => (Told(op) /\ ~ inTx) \/ reply[op] = "changed",
             \A op \in Ops : Told(op)' => Told(op)
      PROVE  View' /\ Reported'
  <2>1. View'
    BY <1>0, <1>1 DEF View, Keeps, AppliedIn, GoodRows
  <2>2. \A op \in Ops : Told(op)' => AppliedIn(op, tx')
    BY <1>0, <1>1 DEF Reported
  <2>3. \A op \in Ops : reply'[op] = "changed" => AppliedIn(op, db')
    BY <1>0, <1>1 DEF Reported, View
  <2>4. Reported'
    BY <1>0, <1>1, <2>2, <2>3 DEF Reported
  <2>5. QED
    BY <2>1, <2>4
<1>2. ASSUME NEW op \in Ops, Submit(op) \/ Send(op) \/ HangUp(op) PROVE View' /\ Reported'
  <2>1. UNCHANGED <<db, tx, inTx, pc, deferred, commit_ok>>
    BY <1>2 DEF Submit, Send, HangUp
  <2>2. \A p \in Ops : reply'[p] = "changed" => reply[p] = "changed"
    BY <1>0, <1>2 DEF Submit, Send, HangUp, TypeOK
  <2>3. QED
    BY <1>0, <1>1, <2>1, <2>2 DEF Told, View
<1>3. CASE Drain
  BY <1>0, <1>1, <1>3 DEF Drain, Told, View
<1>4. CASE BeginOk
  <2>1. /\ tx' = db /\ db' = db /\ pc' = "exec" /\ reply' = reply
        /\ \A op \in Ops : deferred'[op] = "none"
    BY <1>4 DEF BeginOk, Unset
  <2>2. View'
    BY <1>0, <1>4, <2>1 DEF BeginOk, View, Keeps
  <2>3. \A op \in Ops : Told(op)' => reply[op] = "changed"
    BY <2>1 DEF Told
  <2>4. Reported'
    BY <1>0, <2>1, <2>3 DEF Reported, Told
  <2>5. QED
    BY <2>2, <2>4
<1>5. CASE BeginFail
  <2>1. /\ UNCHANGED <<db, tx, inTx, deferred>> /\ pc' = "recv" /\ pc = "begin"
        /\ \A op \in Ops : reply'[op] = "changed" => reply[op] = "changed"
    BY <1>5 DEF BeginFail, SendReplies, Errors
  <2>2. QED
    BY <1>0, <1>1, <2>1 DEF Told, View
<1>6. CASE SavepointFail
  <2>1. /\ UNCHANGED <<db, tx, inTx, deferred, pc, commit_ok>>
        /\ \A op \in Ops : reply'[op] = "changed" => reply[op] = "changed"
    BY <1>6 DEF SavepointFail, SendReplies, Errors
  <2>2. QED
    BY <1>0, <1>1, <2>1 DEF Told, View
<1>7. CASE ExecOp \/ ExecError
  <2> DEFINE op == Head(batch)
  <2>1. pc = "exec" /\ batch # <<>> /\ UNCHANGED <<reply, pc, inTx, commit_ok>>
    BY <1>7 DEF ExecOp, ExecError, Finish
  <2>2. op \in Ops
    BY <1>0, <2>1, SeqFacts DEF TypeOK
  <2>3. PICK outcome \in Outcomes :
           /\ deferred' = [deferred EXCEPT ![op] = outcome]
           /\ GoodRows(tx') /\ Keeps(tx, tx')
           /\ outcome = "changed" => AppliedIn(op, tx')
           /\ outcome = "changed" /\ Kind[op] = "SetProcessing" => tx.chall = "pending"
           /\ IF inTx THEN db' = db ELSE db' = tx'
    BY <1>7, <2>1, FinishRows
  <2>4. Keeps(db, tx')
    BY <1>0, <2>3 DEF View, Keeps
  <2>5. Keeps(tx', tx') /\ Keeps(db, db)
    BY DEF Keeps
  <2>6. View'
    BY <1>0, <2>1, <2>3, <2>4, <2>5 DEF View
  <2>7. Keeps(db, db')
    BY <2>3, <2>4, <2>5
  <2>8. \A p \in Ops : Told(p)' => Told(p) \/ (inTx /\ p = op /\ outcome = "changed")
    BY <1>0, <2>1, <2>2, <2>3 DEF Told, TypeOK
  <2>9. \A p \in Ops : Told(p)' => AppliedIn(p, tx')
    BY <1>0, <2>2, <2>3, <2>8 DEF Reported, Keeps
  <2>10. \A p \in Ops : reply'[p] = "changed" => AppliedIn(p, db')
    BY <1>0, <2>1, <2>7 DEF Reported, Keeps
  <2>11. ASSUME NEW p \in Ops, NEW q \in Ops, Kind[p] = "SetProcessing", Told(p)',
                Kind[q] = "SetProcessing", Told(q)'
         PROVE  p = q
    <3>1. CASE Told(p) /\ Told(q)
      BY <1>0, <2>11, <3>1 DEF Reported
    <3>2. CASE outcome = "changed" /\ Kind[op] = "SetProcessing"
      <4>1. \A x \in Ops : Kind[x] = "SetProcessing" => ~ Told(x)
        BY <1>0, <2>3, <3>2 DEF Reported, AppliedIn
      <4>2. QED
        BY <2>8, <2>11, <4>1
    <3>3. QED
      BY <2>8, <2>11, <3>1, <3>2
  <2>12. QED
    BY <2>6, <2>9, <2>10, <2>11 DEF Reported
<1>8. CASE ExecFatal
  <2>1. /\ tx' = db /\ db' = db /\ pc' = "exec" /\ ~ inTx' /\ reply' = reply
    BY <1>8 DEF ExecFatal
  <2>2. View'
    BY <1>0, <2>1 DEF View, Keeps
  <2>3. \A op \in Ops : Told(op)' => reply[op] = "changed"
    BY <2>1 DEF Told
  <2>4. Reported'
    BY <1>0, <2>1, <2>3 DEF Reported, Told
  <2>5. QED
    BY <2>2, <2>4
<1>9. CASE CommitOk
  <2>1. /\ inTx /\ ~ inTx' /\ pc' = "flush" /\ commit_ok' /\ db' = tx /\ tx' = tx
        /\ reply' = reply /\ deferred' = deferred
    BY <1>9 DEF CommitOk, Durable
  <2>2. View'
    BY <1>0, <2>1 DEF View, Keeps
  <2>3. \A op \in Ops : Told(op)' => Told(op)
    BY <2>1 DEF Told
  <2>4. Reported'
    BY <1>0, <2>1, <2>3 DEF Reported, Told, View, Keeps
  <2>5. QED
    BY <2>2, <2>4
<1>10. CASE CommitFail
  <2>1. /\ tx' = db /\ db' = db /\ ~ inTx' /\ ~ commit_ok' /\ reply' = reply
    BY <1>10 DEF CommitFail
  <2>2. View'
    BY <1>0, <2>1 DEF View, Keeps
  <2>3. \A op \in Ops : Told(op)' => reply[op] = "changed"
    BY <2>1 DEF Told
  <2>4. Reported'
    BY <1>0, <2>1, <2>3 DEF Reported, Told
  <2>5. QED
    BY <2>2, <2>4
<1>11. CASE Flush
  <2>1. /\ UNCHANGED <<db, tx, inTx>> /\ pc = "flush" /\ pc' = "recv"
        /\ \A op \in Ops : deferred'[op] = "none"
    BY <1>11 DEF Flush, Unset
  <2>2. ~ inTx
    BY <1>0, <2>1 DEF View
  <2>3. \A op \in Ops : reply'[op] = "changed" => Told(op)
    BY <1>0, <1>11, <2>1 DEF Flush, SendReplies, DeferredReply, Told, TypeOK
  <2>4. \A op \in Ops : Told(op)' => Told(op)
    BY <2>1, <2>3 DEF Told
  <2>5. QED
    BY <1>1, <2>1, <2>2, <2>3, <2>4
<1>12. CASE Panic \/ Restart
  <2>1. /\ tx' = db /\ db' = db /\ ~ inTx' /\ \A op \in Ops : deferred'[op] = "none"
    BY <1>12 DEF Panic, Restart, Unset
  <2>2. \A op \in Ops : reply'[op] = "changed" => reply[op] = "changed"
    BY <1>12 DEF Panic, Restart, SendReplies, Errors
  <2>3. View'
    BY <1>0, <2>1 DEF View, Keeps
  <2>4. \A op \in Ops : Told(op)' => reply[op] = "changed"
    BY <2>1, <2>2 DEF Told
  <2>5. Reported'
    BY <1>0, <2>1, <2>2, <2>4 DEF Reported, Told
  <2>6. QED
    BY <2>3, <2>5
<1>13. CASE UNCHANGED vars
  BY <1>0, <1>1, <1>13 DEF vars, Told, View
<1>14. QED
  BY <1>2, <1>3, <1>4, <1>5, <1>6, <1>7, <1>8, <1>9, <1>10, <1>11, <1>12, <1>13
  DEF Next, LoopStep

LEMMA LoopInvInit == Init => LoopInv
<1> SUFFICES ASSUME Init PROVE LoopInv
  OBVIOUS
<1>1. GoodRows(db) /\ tx = db
  BY CoalescerAssumption DEF Init, GoodRows
<1>2. TypeOK
  <2>1. errors \in 0 .. MaxErrors /\ fatal \in 0 .. MaxFatal
    BY CoalescerAssumption DEF Init
  <2>2. db \in Db /\ tx \in Db
    BY <1>1 DEF GoodRows
  <2>3. /\ client \in [Ops -> {"idle", "sending", "waiting", "answered", "gone"}]
        /\ reply \in [Ops -> Outcomes \cup {"none"}]
        /\ deferred \in [Ops -> Outcomes \cup {"none"}]
        /\ done \in [Ops -> Outcomes \cup {"none"}]
    BY DEF Init, Unset
  <2>4. QED
    BY <2>1, <2>2, <2>3, EmptyFacts DEF Init, TypeOK
<1>3. View /\ Reported
  BY <1>1 DEF Init, View, Reported, Told, Keeps, Unset
<1>4. QED
  BY <1>2, <1>3 DEF LoopInv

(* The savepoints of coalesce_loop: whatever statements, commits and       *)
(* restarts fail, both halves of a finalization or of an account creation  *)
(* are in the database, or neither.                                        *)
THEOREM NothingHalf == Spec => []AllOrNothing
<1>1. LoopInv => AllOrNothing
  BY DEF LoopInv, View, GoodRows, AllOrNothing
<1>2. QED
  BY LoopInvInit, LoopInvStep, <1>1, PTL DEF Spec

(* The deferred replies of coalesce_loop: a caller that is told its rows   *)
(* changed finds them, and only one of several racing flips is told so.    *)
THEOREM RepliesAreTrue == Spec => []RepliesTrue
<1>1. LoopInv => RepliesTrue
  BY DEF LoopInv, Reported, RepliesTrue, OkIsDurable, OneFlip, Applied, Told
<1>2. QED
  BY LoopInvInit, LoopInvStep, <1>1, PTL DEF Spec

-----------------------------------------------------------------------------
(* Lemmas about sequences without repetition.                              *)

Distinct(s) == \A i, j \in 1 .. Len(s) : s[i] = s[j] => i = j

LEMMA ElementsAppend ==
  ASSUME NEW s \in Seq(Ops), NEW op \in Ops
  PROVE  /\ Elements(Append(s, op)) = Elements(s) \cup {op}
         /\ Distinct(s) /\ op \notin Elements(s) => Distinct(Append(s, op))
<1>1. /\ Len(Append(s, op)) = Len(s) + 1 /\ Len(s) \in Nat
      /\ DOMAIN s = 1 .. Len(s) /\ DOMAIN Append(s, op) = 1 .. (Len(s) + 1)
  OBVIOUS
<1>2. \A i \in 1 .. Len(s) : Append(s, op)[i] = s[i]
  OBVIOUS
<1>3. Append(s, op)[Len(s) + 1] = op
  OBVIOUS
<1>4. \A i \in 1 .. (Len(s) + 1) : i \in 1 .. Len(s) \/ i = Len(s) + 1
  BY <1>1
<1>5. 1 .. Len(s) \subseteq 1 .. (Len(s) + 1) /\ Len(s) + 1 \in 1 .. (Len(s) + 1)
  BY <1>1
<1>6. Elements(Append(s, op)) = Elements(s) \cup {op}
  BY <1>1, <1>2, <1>3, <1>4, <1>5 DEF Elements
<1>7. ASSUME Distinct(s), op \notin Elements(s) PROVE Distinct(Append(s, op))
  BY <1>1, <1>2, <1>3, <1>4, <1>7 DEF Distinct, Elements
<1>8. QED
  BY <1>6, <1>7

LEMMA ElementsTail ==
  ASSUME NEW s \in Seq(Ops), s # <<>>
  PROVE  /\ Elements(s) = {Head(s)} \cup Elements(Tail(s))
         /\ Distinct(s) => Distinct(Tail(s)) /\ Head(s) \notin Elements(Tail(s))
<1>1. /\ Len(s) \in Nat \ {0} /\ Len(Tail(s)) = Len(s) - 1 /\ Head(s) = s[1]
      /\ DOMAIN s = 1 .. Len(s) /\ DOMAIN Tail(s) = 1 .. (Len(s) - 1)
  OBVIOUS
<1>2. \A i \in 1 .. (Len(s) - 1) : Tail(s)[i] = s[i + 1] /\ i + 1 \in 1 .. Len(s)
  BY <1>1
<1>3. \A i \in 1 .. Len(s) : i = 1 \/ (i - 1 \in 1 .. (Len(s) - 1) /\ Tail(s)[i - 1] = s[i])
  BY <1>1
<1>4. 1 \in 1 .. Len(s)
  BY <1>1
<1>5. Elements(s) \subseteq {Head(s)} \cup Elements(Tail(s))
  <2> SUFFICES ASSUME NEW i \in 1 .. Len(s) PROVE s[i] \in {Head(s)} \cup Elements(Tail(s))
    BY <1>1 DEF Elements
  <2>1. CASE i = 1
    BY <1>1, <2>1
  <2>2. CASE i # 1
    BY <1>1, <1>3, <2>2 DEF Elements
  <2>3. QED
    BY <2>1, <2>2
<1>6. {Head(s)} \cup Elements(Tail(s)) \subseteq Elements(s)
  BY <1>1, <1>2, <1>4 DEF Elements
<1>7. ASSUME Distinct(s) PROVE Distinct(Tail(s)) /\ Head(s) \notin Elements(Tail(s))
  <2>1. Distinct(Tail(s))
    BY <1>1, <1>2, <1>7 DEF Distinct
  <2>2. Head(s) \notin Elements(Tail(s))
    BY <1>1, <1>2, <1>4, <1>7 DEF Distinct, Elements
  <2>3. QED
    BY <2>1, <2>2
<1>8. QED
  BY <1>5, <1>6, <1>7

LEMMA ElementsEmpty == Elements(<<>>) = {} /\ Distinct(<<>>)
  BY DEF Elements, Distinct

-----------------------------------------------------------------------------
(* The rows after a sequence of operations.                                *)

LEMMA SameExec == \A op, d : Atomic!Exec(op, d) = Exec(op, d)
  BY DEF Atomic!Exec, Exec, Atomic!exec_new_order, exec_new_order, Atomic!exec_set_processing,
     exec_set_processing, Atomic!exec_on_valid, exec_on_valid, Atomic!exec_on_invalid,
     exec_on_invalid, Atomic!exec_finalize, exec_finalize, Atomic!exec_new_account,
     exec_new_account, Atomic!Ran, Ran

(* A set of naturals has a least element. *)
LEMMA Least ==
  ASSUME NEW T, T \subseteq Nat, T # {}
  PROVE  \E x \in T : \A y \in T : ~ (y < x)
<1>1. \E x \in T : \A y \in T : ~ (<<y, x>> \in OpToRel(<, Nat))
  BY NatLessThanWellFounded, WFMin, Zenon
<1>2. QED
  BY <1>1 DEF OpToRel

(* f lists the rows before the first, and after each, operation of s. *)
Trace(s, n, f) == f = [i \in 0 .. n |-> IF i = 0 THEN db ELSE Exec(s[i], f[i - 1]).db]

(* After is what any such list ends in. *)
LEMMA AfterTrace ==
  ASSUME NEW n \in Nat, NEW s, NEW f, Trace(s, n, f)
  PROVE  Atomic!After(s, n) = f[n]
<1> DEFINE g == CHOOSE h : Trace(s, n, h)
<1>1. Trace(s, n, g)
  BY Zenon
<1>2. Atomic!After(s, n) = g[n]
  BY SameExec DEF Atomic!After, Trace
<1> HIDE DEF g
<1>3. /\ g[0] = db /\ f[0] = db
      /\ \A i \in 1 .. n : g[i] = Exec(s[i], g[i - 1]).db /\ f[i] = Exec(s[i], f[i - 1]).db
  BY <1>1 DEF Trace
<1> DEFINE T == {i \in 0 .. n : g[i] # f[i]}
<1>4. T = {}
  <2> SUFFICES ASSUME T # {} PROVE FALSE
    OBVIOUS
  <2>1. PICK x \in T : \A y \in T : ~ (y < x)
    <3>1. T \subseteq Nat
      OBVIOUS
    <3> HIDE DEF T
    <3>2. QED
      BY <3>1, Least
  <2>2. x \in 1 .. n /\ x - 1 \in 0 .. n /\ x - 1 < x
    BY <1>3
  <2>3. g[x - 1] = f[x - 1]
    BY <2>1, <2>2
  <2>4. QED
    BY <1>3, <2>2, <2>3
<1>5. QED
  BY <1>2, <1>4

(* A prefix of a list is a list. *)
LEMMA TracePrefix ==
  ASSUME NEW n \in Nat, NEW s, NEW f, Trace(s, n, f), NEW m \in 0 .. n
  PROVE  Atomic!After(s, m) = f[m]
<1> DEFINE h == [i \in 0 .. m |-> f[i]]
<1>1. \A i \in 0 .. m : i \in 0 .. n /\ (i # 0 => i - 1 \in 0 .. m)
  OBVIOUS
<1>2. \A i \in 0 .. n : f[i] = IF i = 0 THEN db ELSE Exec(s[i], f[i - 1]).db
  BY DEF Trace
<1>3. \A i \in 0 .. m : h[i] = IF i = 0 THEN db ELSE Exec(s[i], h[i - 1]).db
  BY <1>1, <1>2
<1>4. h = [i \in 0 .. m |-> IF i = 0 THEN db ELSE Exec(s[i], h[i - 1]).db]
  BY <1>3
<1>5. Trace(s, m, h)
  BY <1>4 DEF Trace
<1>6. m \in Nat /\ h[m] = f[m]
  OBVIOUS
<1>7. QED
  BY <1>5, <1>6, AfterTrace

-----------------------------------------------------------------------------
(* The inductive invariant.                                                *)

(* Nothing has happened to op, and nothing was said about it. *)
Untouched(op) == deferred[op] = "none" /\ done[op] = "none" /\ reply[op] = "none"

Once ==
  /\ Distinct(queue) /\ Distinct(batch)
  /\ Elements(queue) \cap Elements(batch) = {}
  /\ batch # <<>> => pc \in {"begin", "exec"}
  /\ \A op \in Elements(queue) \cup Elements(batch) :
       Untouched(op) /\ client[op] \in {"waiting", "gone"}
  /\ \A op \in Ops : client[op] \in {"idle", "sending"} => Untouched(op)

Settled ==
  /\ \A op \in Ops : deferred[op] # "none" => pc \in {"exec", "flush"} /\ reply[op] = "none"
  /\ \A op \in Ops : client[op] = "waiting" =>
       reply[op] = "none" /\ (done[op] # "none" => deferred[op] # "none")
  /\ inTx => \A op \in Ops : deferred[op] # "none" => done[op] = "none"
  /\ pc = "exec" /\ ~ inTx => fatal > 0
  /\ pc = "flush" => \A op \in Ops : deferred[op] # "none" =>
       IF commit_ok THEN done[op] = IF deferred[op] = "error" THEN "none" ELSE deferred[op]
       ELSE done[op] = "none" \/ fatal > 0

(* The operations executed in this transaction, none of which failed. *)
Executed == {op \in Ops : deferred[op] \in {"changed", "unchanged"}}

(* s is the order in which they were, f the rows in between. *)
Explains(s, f) ==
  LET n == Cardinality(Executed) IN
  /\ s \in [1 .. n -> Executed] /\ \A i, j \in 1 .. n : s[i] = s[j] => i = j
  /\ Trace(s, n, f)
  /\ f[n] = tx
  /\ \A i \in 1 .. n : /\ Exec(s[i], f[i - 1]).outcome # "error"
                       /\ deferred[s[i]] = Exec(s[i], f[i - 1]).outcome

History == inTx => IsFiniteSet(Executed) /\ \E s, f : Explains(s, f)

RefInv == LoopInv /\ Once /\ Settled /\ History

(* The head of the batch has not been touched, and the rest is a batch. *)
LEMMA HeadOfBatch ==
  ASSUME LoopInv, Once, batch # <<>>
  PROVE  /\ Head(batch) \in Ops /\ Untouched(Head(batch)) /\ Head(batch) \notin Elements(queue)
         /\ Head(batch) \notin Elements(Tail(batch)) /\ Distinct(Tail(batch))
         /\ Elements(Tail(batch)) \subseteq Elements(batch)
         /\ client[Head(batch)] \in {"waiting", "gone"}
<1>1. batch \in Seq(Ops)
  BY DEF LoopInv, TypeOK
<1>2. /\ Elements(batch) = {Head(batch)} \cup Elements(Tail(batch))
      /\ Distinct(Tail(batch)) /\ Head(batch) \notin Elements(Tail(batch))
  BY <1>1, ElementsTail DEF Once
<1>3. QED
  BY <1>1, <1>2, SeqFacts DEF Once

LEMMA ElementsInOps ==
  ASSUME NEW s \in Seq(Ops)
  PROVE  Elements(s) \subseteq Ops
  BY DEF Elements

(* Every operation is queued, executed and answered once. *)
LEMMA OnceStep == LoopInv /\ Once /\ Settled /\ [Next]_vars => Once' /\ Settled'
<1> SUFFICES ASSUME LoopInv, Once, Settled, [Next]_vars PROVE Once' /\ Settled'
  OBVIOUS
<1>0. TypeOK /\ Elements(queue) \subseteq Ops /\ Elements(batch) \subseteq Ops
  BY ElementsInOps DEF LoopInv, TypeOK
<1>00. fatal \in Nat
  BY <1>0, CoalescerAssumption DEF TypeOK
<1> USE DEF callers, loop
<1>1. ASSUME NEW op \in Ops, Submit(op) \/ HangUp(op) PROVE Once' /\ Settled'
  <2>1. /\ UNCHANGED <<queue, batch, pc, deferred, done, reply, inTx, commit_ok, fatal>>
        /\ \A p \in Ops : \/ client'[p] = client[p]
                          \/ client[p] = "idle" /\ client'[p] = "sending"
                          \/ client[p] \in {"sending", "waiting"} /\ client'[p] = "gone"
    BY <1>0, <1>1 DEF Submit, HangUp, TypeOK
  <2>2. Once'
    BY <1>0, <2>1 DEF Once, Untouched
  <2>3. Settled'
    BY <2>1 DEF Settled
  <2>4. QED
    BY <2>2, <2>3
<1>2. ASSUME NEW op \in Ops, Send(op) PROVE Once' /\ Settled'
  <2>1. /\ client[op] = "sending" /\ Untouched(op) /\ op \notin Elements(queue) \cup Elements(batch)
        /\ UNCHANGED <<batch, pc, deferred, done, inTx, commit_ok, fatal>>
    BY <1>2 DEF Once, Send
  <2>2. CASE pc = "dead"
    <3>1. /\ UNCHANGED queue
          /\ \A p \in Ops : /\ client'[p] = IF p = op THEN "answered" ELSE client[p]
                            /\ reply'[p] = IF p = op THEN "error" ELSE reply[p]
      BY <1>0, <1>2, <2>2 DEF Send, TypeOK
    <3>2. Once'
      BY <1>0, <2>1, <3>1 DEF Once, Untouched
    <3>3. Settled'
      BY <2>1, <2>2, <3>1 DEF Settled, Untouched
    <3>4. QED
      BY <3>2, <3>3
  <2>3. CASE pc # "dead"
    <3>1. /\ queue' = Append(queue, op) /\ reply' = reply
          /\ \A p \in Ops : client'[p] = IF p = op THEN "waiting" ELSE client[p]
      BY <1>0, <1>2, <2>3 DEF Send, TypeOK
    <3>2. Elements(queue') = Elements(queue) \cup {op} /\ Distinct(queue')
      BY <1>0, <2>1, <3>1, ElementsAppend DEF Once, TypeOK
    <3>3. Once'
      BY <1>0, <2>1, <3>1, <3>2 DEF Once, Untouched
    <3>4. Settled'
      BY <2>1, <3>1 DEF Settled, Untouched
    <3>5. QED
      BY <3>3, <3>4
  <2>4. QED
    BY <2>2, <2>3
<1>3. CASE Drain
  <2>1. /\ batch' = queue /\ queue' = <<>> /\ pc = "recv" /\ pc' = "begin"
        /\ UNCHANGED <<client, reply, deferred, done, inTx, commit_ok, fatal>>
    BY <1>3 DEF Drain
  <2>2. Once'
    BY <2>1, ElementsEmpty DEF Once, Untouched
  <2>3. Settled'
    BY <2>1 DEF Settled
  <2>4. QED
    BY <2>2, <2>3
<1>4. CASE BeginOk
  <2>1. /\ pc = "begin" /\ pc' = "exec" /\ inTx' /\ \A op \in Ops : deferred'[op] = "none"
        /\ UNCHANGED <<queue, batch, client, reply, done>>
    BY <1>4 DEF BeginOk, Unset
  <2>2. \A op \in Ops : deferred[op] = "none"
    BY <2>1 DEF Settled
  <2>3. Once'
    BY <1>0, <2>1 DEF Once, Untouched
  <2>4. Settled'
    BY <2>1, <2>2 DEF Settled
  <2>5. QED
    BY <2>3, <2>4
<1>5. CASE BeginFail
  <2>1. /\ pc = "begin" /\ pc' = "recv" /\ batch' = <<>> /\ UNCHANGED <<queue, deferred, done, inTx>>
        /\ \A op \in Ops : IF op \in Elements(batch)
             THEN client'[op] = IF client[op] = "waiting" THEN "answered" ELSE client[op]
             ELSE client'[op] = client[op] /\ reply'[op] = reply[op]
    BY <1>5 DEF BeginFail, SendReplies
  <2>2. \A op \in Ops : deferred[op] = "none"
    BY <2>1 DEF Settled
  <2>3. Once'
    BY <1>0, <2>1, ElementsEmpty DEF Once, Untouched
  <2>4. ~ inTx
    BY <2>1 DEF LoopInv, View
  <2>5. Settled'
    BY <2>1, <2>2, <2>4 DEF Settled
  <2>6. QED
    BY <2>3, <2>5
<1>6. CASE SavepointFail
  <2> DEFINE h == Head(batch)
  <2>1. /\ pc = "exec" /\ batch # <<>> /\ batch' = Tail(batch)
        /\ UNCHANGED <<queue, pc, inTx, deferred, done, commit_ok, fatal>>
        /\ \A op \in Ops : IF op = h
             THEN client'[op] = IF client[op] = "waiting" THEN "answered" ELSE client[op]
             ELSE client'[op] = client[op] /\ reply'[op] = reply[op]
    BY <1>6 DEF SavepointFail, SendReplies
  <2>2. /\ h \in Ops /\ Untouched(h) /\ h \notin Elements(queue) /\ h \notin Elements(Tail(batch))
        /\ Distinct(Tail(batch)) /\ Elements(Tail(batch)) \subseteq Elements(batch)
        /\ client[h] \in {"waiting", "gone"}
    BY <2>1, HeadOfBatch
  <2>3. Once'
    BY <1>0, <2>1, <2>2 DEF Once, Untouched
  <2>4. Settled'
    BY <2>1, <2>2 DEF Settled, Untouched
  <2>5. QED
    BY <2>3, <2>4
<1>7. CASE ExecOp \/ ExecError
  <2> DEFINE h == Head(batch)
  <2>1. /\ pc = "exec" /\ batch # <<>> /\ batch' = Tail(batch)
        /\ UNCHANGED <<queue, client, reply, pc, inTx, commit_ok, fatal>>
    BY <1>7 DEF ExecOp, ExecError, Finish
  <2>2. /\ h \in Ops /\ Untouched(h) /\ h \notin Elements(queue) /\ h \notin Elements(Tail(batch))
        /\ Distinct(Tail(batch)) /\ Elements(Tail(batch)) \subseteq Elements(batch)
        /\ client[h] \in {"waiting", "gone"}
    BY <2>1, HeadOfBatch
  <2>3. PICK outcome \in Outcomes :
           /\ deferred' = [deferred EXCEPT ![h] = outcome]
           /\ IF inTx THEN done' = done
              ELSE done' = [op \in Ops |-> IF op = h /\ outcome # "error" THEN outcome ELSE done[op]]
    BY <1>7, <2>1, FinishRows
  <2>4. \A op \in Ops : /\ op # h => deferred'[op] = deferred[op] /\ done'[op] = done[op]
                        /\ op = h => deferred'[op] # "none" /\ (inTx => done'[op] = "none")
    BY <1>0, <2>2, <2>3 DEF TypeOK, Outcomes, Untouched
  <2>5. Once'
    BY <1>0, <2>1, <2>2, <2>4 DEF Once, Untouched
  <2>6. Settled'
    BY <2>1, <2>2, <2>4 DEF Settled, Untouched
  <2>7. QED
    BY <2>5, <2>6
<1>8. CASE ExecFatal
  <2> DEFINE h == Head(batch)
  <2>1. /\ pc = "exec" /\ batch # <<>> /\ batch' = Tail(batch) /\ ~ inTx' /\ fatal' = fatal + 1
        /\ UNCHANGED <<queue, client, reply, pc, done, commit_ok>>
    BY <1>8 DEF ExecFatal
  <2>2. /\ h \in Ops /\ Untouched(h) /\ h \notin Elements(queue) /\ h \notin Elements(Tail(batch))
        /\ Distinct(Tail(batch)) /\ Elements(Tail(batch)) \subseteq Elements(batch)
        /\ client[h] \in {"waiting", "gone"}
    BY <2>1, HeadOfBatch
  <2>3. fatal' > 0
    BY <1>00, <2>1
  <2>4. \A op \in Ops : deferred'[op] = IF op = h THEN "error" ELSE deferred[op]
    BY <1>0, <1>8 DEF ExecFatal, TypeOK
  <2>5. Once'
    BY <1>0, <2>1, <2>2, <2>4 DEF Once, Untouched
  <2>6. Settled'
    BY <2>1, <2>2, <2>3, <2>4 DEF Settled, Untouched
  <2>7. QED
    BY <2>5, <2>6
<1>9. CASE CommitOk
  <2>1. /\ pc = "exec" /\ batch = <<>> /\ inTx /\ ~ inTx' /\ pc' = "flush" /\ commit_ok'
        /\ UNCHANGED <<queue, batch, client, reply, deferred, fatal>>
        /\ \A op \in Ops : done'[op] = IF deferred[op] \in {"changed", "unchanged"}
                                       THEN deferred[op] ELSE done[op]
    BY <1>9 DEF CommitOk, Durable
  <2>2. Once'
    BY <1>0, <2>1 DEF Once, Untouched
  <2>3. Settled'
    BY <1>0, <2>1 DEF Settled, TypeOK, Outcomes
  <2>4. QED
    BY <2>2, <2>3
<1>10. CASE CommitFail
  <2>1. /\ pc = "exec" /\ batch = <<>> /\ ~ inTx' /\ pc' = "flush" /\ ~ commit_ok'
        /\ UNCHANGED <<queue, batch, client, reply, deferred, done, fatal>>
    BY <1>10 DEF CommitFail
  <2>2. Once'
    BY <1>0, <2>1 DEF Once, Untouched
  <2>3. Settled'
    BY <2>1 DEF Settled
  <2>4. QED
    BY <2>2, <2>3
<1>11. CASE Flush
  <2>1. /\ pc = "flush" /\ pc' = "recv" /\ UNCHANGED <<queue, batch, inTx, done>>
        /\ \A op \in Ops : deferred'[op] = "none"
        /\ \A op \in Ops : IF deferred[op] # "none"
             THEN client'[op] = IF client[op] = "waiting" THEN "answered" ELSE client[op]
             ELSE client'[op] = client[op] /\ reply'[op] = reply[op]
    BY <1>11 DEF Flush, SendReplies, Unset
  <2>2. ~ inTx
    BY <2>1 DEF LoopInv, View
  <2>3. Once'
    BY <1>0, <2>1 DEF Once, Untouched
  <2>4. Settled'
    BY <2>1, <2>2 DEF Settled
  <2>5. QED
    BY <2>3, <2>4
<1>12. CASE Panic
  <2>1. /\ pc' = "dead" /\ queue' = <<>> /\ batch' = <<>> /\ ~ inTx' /\ done' = done
        /\ \A op \in Ops : deferred'[op] = "none"
        /\ \A op \in Ops : client'[op] # "waiting"
        /\ \A op \in Ops : client[op] \in {"idle", "sending"} => reply'[op] = reply[op]
        /\ \A op \in Ops : client'[op] \in {"idle", "sending"} => client[op] \in {"idle", "sending"}
    BY <1>12 DEF Panic, SendReplies, Unset
  <2>2. Once'
    BY <1>0, <2>1, ElementsEmpty DEF Once, Untouched
  <2>3. Settled'
    BY <2>1 DEF Settled
  <2>4. QED
    BY <2>2, <2>3
<1>13. CASE Restart
  <2>1. /\ pc' = "recv" /\ queue' = <<>> /\ batch' = <<>> /\ ~ inTx' /\ UNCHANGED <<done, reply>>
        /\ \A op \in Ops : deferred'[op] = "none"
        /\ \A op \in Ops : client'[op] # "waiting"
        /\ \A op \in Ops : client'[op] \in {"idle", "sending"} => client[op] \in {"idle", "sending"}
    BY <1>13 DEF Restart, Unset
  <2>2. Once'
    BY <1>0, <2>1, ElementsEmpty DEF Once, Untouched
  <2>3. Settled'
    BY <2>1 DEF Settled
  <2>4. QED
    BY <2>2, <2>3
<1>14. CASE UNCHANGED vars
  BY <1>14 DEF vars, Once, Settled, Untouched
<1>15. QED
  BY <1>1, <1>2, <1>3, <1>4, <1>5, <1>6, <1>7, <1>8, <1>9, <1>10, <1>11, <1>12, <1>13, <1>14
  DEF Next, LoopStep

(* Executing one more operation extends the list of rows by one. *)
LEMMA TraceExtends ==
  ASSUME NEW n \in Nat, NEW s, NEW f, Trace(s, n, f), NEW t, NEW g,
         \A i \in 1 .. n : t[i] = s[i],
         g = [i \in 0 .. (n + 1) |-> IF i = n + 1 THEN Exec(t[n + 1], f[n]).db ELSE f[i]]
  PROVE  Trace(t, n + 1, g)
<1>1. \A i \in 0 .. n : f[i] = IF i = 0 THEN db ELSE Exec(s[i], f[i - 1]).db
  BY DEF Trace
<1>2. \A i \in 0 .. (n + 1) : i = n + 1 \/ i \in 0 .. n
  OBVIOUS
<1>3. ASSUME NEW i \in 0 .. (n + 1)
      PROVE  g[i] = IF i = 0 THEN db ELSE Exec(t[i], g[i - 1]).db
  <2>1. CASE i = n + 1
    BY <2>1
  <2>2. CASE i # n + 1 /\ i # 0
    <3>1. i \in 1 .. n /\ i - 1 \in 0 .. n /\ i - 1 # n + 1 /\ i \in 0 .. n
      BY <2>2
    <3>2. g[i] = f[i] /\ g[i - 1] = f[i - 1] /\ t[i] = s[i]
      BY <2>2, <3>1
    <3>3. QED
      BY <1>1, <2>2, <3>1, <3>2
  <2>3. CASE i = 0
    BY <1>1, <2>3
  <2>4. QED
    BY <2>1, <2>2, <2>3
<1>4. g = [i \in 0 .. (n + 1) |-> IF i = 0 THEN db ELSE Exec(t[i], g[i - 1]).db]
  BY <1>3
<1>5. QED
  BY <1>4 DEF Trace

(* What execution does inside the transaction. *)
LEMMA HistoryExec ==
  ASSUME RefInv, inTx, ExecOp \/ ExecError
  PROVE  History'
<1>1. batch # <<>> /\ db' = db /\ UNCHANGED inTx
  BY DEF ExecOp, ExecError, Finish
<1>2. PICK h \in Ops : h = Head(batch)
  BY <1>1, HeadOfBatch DEF RefInv
<1> DEFINE run == Exec(h, tx)
<1>3. deferred[h] = "none" /\ GoodRows(tx) /\ deferred \in [Ops -> Outcomes \cup {"none"}]
  BY <1>1, <1>2, HeadOfBatch DEF RefInv, Untouched, LoopInv, View, TypeOK
<1>4. run.outcome \in Outcomes
  BY <1>3, ExecRows
<1>5. CASE tx' = tx /\ deferred' = [deferred EXCEPT ![h] = "error"]
  <2>1. \A op \in Ops : deferred'[op] = IF op = h THEN "error" ELSE deferred[op]
    BY <1>3, <1>5
  <2>2. Executed' = Executed
    BY <1>3, <2>1 DEF Executed
  <2>3. ASSUME NEW s, NEW f, Explains(s, f) PROVE Explains(s, f)'
    <3>1. Trace(s, Cardinality(Executed), f)' = Trace(s, Cardinality(Executed), f)
      BY <1>1, <2>2 DEF Trace
    <3>2. \A op \in Executed : deferred'[op] = deferred[op]
      BY <1>3, <2>1 DEF Executed
    <3>3. QED
      BY <1>5, <2>2, <2>3, <3>1, <3>2 DEF Explains
  <2>4. QED
    BY <2>2, <2>3 DEF RefInv, History
<1>6. CASE /\ run.outcome # "error" /\ tx' = run.db
           /\ deferred' = [deferred EXCEPT ![h] = run.outcome]
  <2>1. IsFiniteSet(Executed) /\ \E s, f : Explains(s, f)
    BY DEF RefInv, History
  <2>2. PICK s, f : Explains(s, f)
    BY <2>1
  <2>3. PICK n \in Nat : n = Cardinality(Executed)
    BY <2>1, FS_CardinalityType
  <2>4. \A op \in Ops : deferred'[op] = IF op = h THEN run.outcome ELSE deferred[op]
    BY <1>3, <1>6
  <2>5. h \notin Executed /\ Executed' = Executed \cup {h}
    BY <1>3, <1>4, <1>6, <2>4 DEF Executed, Outcomes
  <2>6. IsFiniteSet(Executed') /\ Cardinality(Executed') = n + 1
    BY <2>1, <2>3, <2>5, FS_AddElement
  <2>7. /\ s \in [1 .. n -> Executed] /\ \A i, j \in 1 .. n : s[i] = s[j] => i = j
        /\ Trace(s, n, f) /\ f[n] = tx
        /\ \A i \in 1 .. n : /\ Exec(s[i], f[i - 1]).outcome # "error"
                             /\ deferred[s[i]] = Exec(s[i], f[i - 1]).outcome
    BY <2>2, <2>3 DEF Explains
  <2>8. PICK t, g : /\ t = [i \in 1 .. (n + 1) |-> IF i = n + 1 THEN h ELSE s[i]]
                    /\ g = [i \in 0 .. (n + 1) |-> IF i = n + 1 THEN Exec(h, f[n]).db ELSE f[i]]
    OBVIOUS
  <2>9. Trace(t, n + 1, g)
    <3>1. /\ \A i \in 1 .. n : t[i] = s[i]
          /\ g = [i \in 0 .. (n + 1) |-> IF i = n + 1 THEN Exec(t[n + 1], f[n]).db ELSE f[i]]
      BY <2>8
    <3>2. QED
      BY <2>7, <3>1, TraceExtends
  <2>10. \A i \in 1 .. (n + 1) : (i = n + 1 /\ t[i] = h) \/ (i \in 1 .. n /\ t[i] = s[i] /\ s[i] \in Executed)
    BY <2>7, <2>8
  <2>11. t \in [1 .. (n + 1) -> Executed'] /\ \A i, j \in 1 .. (n + 1) : t[i] = t[j] => i = j
    BY <2>5, <2>7, <2>8, <2>10
  <2>12. g[n + 1] = tx'
    BY <1>6, <2>7, <2>8
  <2>13. ASSUME NEW i \in 1 .. (n + 1)
         PROVE  /\ Exec(t[i], g[i - 1]).outcome # "error"
                /\ deferred'[t[i]] = Exec(t[i], g[i - 1]).outcome
    <3>1. CASE i = n + 1
      <4>1. g[i - 1] = tx /\ t[i] = h
        BY <2>7, <2>8, <3>1
      <4>2. QED
        BY <1>6, <2>4, <4>1
    <3>2. CASE i \in 1 .. n
      <4>1. g[i - 1] = f[i - 1] /\ t[i] = s[i] /\ s[i] \in Executed
        BY <2>7, <2>8, <3>2
      <4>2. deferred'[s[i]] = deferred[s[i]]
        BY <2>4, <2>5, <4>1 DEF Executed
      <4>3. QED
        BY <2>7, <3>2, <4>1, <4>2
    <3>3. QED
      BY <3>1, <3>2
  <2>14. Explains(t, g)'
    <3>1. Trace(t, n + 1, g)'
      BY <1>1, <2>9 DEF Trace
    <3>2. QED
      BY <2>6, <2>11, <2>12, <2>13, <3>1 DEF Explains
  <2>15. QED
    BY <2>6, <2>14 DEF History
<1>7. QED
  <2>1. CASE ExecOp
    BY <1>2, <1>5, <1>6, <2>1 DEF ExecOp, Finish, RollbackTo
  <2>2. CASE ExecError
    BY <1>2, <1>5, <2>2 DEF ExecError, Finish, RollbackTo
  <2>3. QED
    BY <2>1, <2>2

LEMMA RefInvInit == Init => RefInv
<1> SUFFICES ASSUME Init PROVE RefInv
  OBVIOUS
<1>1. LoopInv
  BY LoopInvInit
<1>2. Once
  BY ElementsEmpty DEF Init, Once, Untouched, Unset
<1>3. Settled /\ History
  BY DEF Init, Settled, History, Unset
<1>4. QED
  BY <1>1, <1>2, <1>3 DEF RefInv

LEMMA RefInvStep == RefInv /\ [Next]_vars => RefInv'
<1> SUFFICES ASSUME RefInv, [Next]_vars PROVE RefInv'
  OBVIOUS
<1> USE DEF callers, loop
<1>1. LoopInv' /\ Once' /\ Settled'
  BY LoopInvStep, OnceStep DEF RefInv
<1>2. CASE ~ inTx'
  BY <1>1, <1>2 DEF RefInv, History
<1>3. CASE UNCHANGED <<db, tx, deferred, inTx>>
  <2>1. Executed' = Executed
    BY <1>3 DEF Executed
  <2>2. ASSUME NEW s, NEW f, Explains(s, f) PROVE Explains(s, f)'
    BY <1>3, <2>1, <2>2 DEF Explains, Trace
  <2>3. History'
    BY <1>3, <2>1, <2>2 DEF RefInv, History
  <2>4. QED
    BY <1>1, <2>3 DEF RefInv
<1>4. CASE BeginOk
  <2>1. tx' = db /\ db' = db /\ \A op \in Ops : deferred'[op] = "none"
    BY <1>4 DEF BeginOk, Unset
  <2>2. Executed' = {}
    BY <2>1 DEF Executed
  <2>3. IsFiniteSet({}) /\ Cardinality({}) = 0
    BY FS_EmptySet
  <2>4. PICK s, f : s = [i \in 1 .. 0 |-> 0] /\ f = [i \in 0 .. 0 |-> db']
    OBVIOUS
  <2>5. s \in [1 .. 0 -> {}] /\ f[0] = tx'
    BY <2>1, <2>4
  <2>6. Trace(s, 0, f)'
    BY <2>4 DEF Trace
  <2>7. Explains(s, f)'
    BY <2>2, <2>3, <2>5, <2>6 DEF Explains
  <2>8. History'
    BY <2>2, <2>3, <2>7 DEF History
  <2>9. QED
    BY <1>1, <2>8 DEF RefInv
<1>5. CASE (ExecOp \/ ExecError) /\ inTx
  BY <1>1, <1>5, HistoryExec DEF RefInv
<1>6. CASE (ExecOp \/ ExecError) /\ ~ inTx
  BY <1>2, <1>6 DEF ExecOp, ExecError
<1>7. CASE \E op \in Ops : Submit(op) \/ Send(op) \/ HangUp(op)
  <2>1. UNCHANGED <<db, tx, deferred, inTx>>
    BY <1>7 DEF Submit, Send, HangUp
  <2>2. QED
    BY <1>3, <2>1
<1>8. CASE Drain \/ BeginFail \/ SavepointFail \/ UNCHANGED vars
  <2>1. UNCHANGED <<db, tx, deferred, inTx>>
    BY <1>8 DEF Drain, BeginFail, SavepointFail, vars
  <2>2. QED
    BY <1>3, <2>1
<1>9. CASE ExecFatal \/ CommitOk \/ CommitFail \/ Panic \/ Restart
  <2>1. ~ inTx'
    BY <1>9 DEF ExecFatal, CommitOk, CommitFail, Panic, Restart
  <2>2. QED
    BY <1>2, <2>1
<1>10. CASE Flush
  <2>1. pc # "exec" => ~ inTx
    BY DEF RefInv, LoopInv, View
  <2>2. ~ inTx'
    BY <1>10, <2>1 DEF Flush
  <2>3. QED
    BY <1>2, <2>2
<1>11. QED
  BY <1>4, <1>5, <1>6, <1>7, <1>8, <1>9, <1>10 DEF Next, LoopStep

-----------------------------------------------------------------------------
(* The step simulation.                                                    *)

AtomicVars == <<db, done, reply, fatal > 0>>

LEMMA SameCardinality == ASSUME NEW S PROVE Atomic!Cardinality(S) = Cardinality(S)
  BY Zenon DEF Cardinality, Atomic!Cardinality

(* A step in which the operations of S happen in the order s. *)
LEMMA HappenIntro ==
  ASSUME NEW S, NEW s, NEW n \in Nat,
         S = {op \in Ops : done'[op] # done[op]}, n = Cardinality(S),
         s \in [1 .. n -> S], \A i, j \in 1 .. n : s[i] = s[j] => i = j,
         \A op \in S : done[op] = "none" /\ reply[op] = "none",
         \A i \in 1 .. n : /\ Atomic!Exec(s[i], Atomic!After(s, i - 1)).outcome # "error"
                           /\ done'[s[i]] = Atomic!Exec(s[i], Atomic!After(s, i - 1)).outcome,
         db' = Atomic!After(s, n),
         reply' = reply, fatal' = fatal
  PROVE  Atomic!Happen
<1>1. DOMAIN s = 1 .. n
  OBVIOUS
<1>2. s \in Atomic!Orderings(S)
  BY <1>1, SameCardinality DEF Atomic!Orderings
<1>3. (fatal' > 0) = (fatal > 0)
  OBVIOUS
<1>4. \E z \in Atomic!Orderings(S) :
        /\ \A i \in DOMAIN z : /\ Atomic!Exec(z[i], Atomic!After(z, i - 1)).outcome # "error"
                               /\ done'[z[i]] = Atomic!Exec(z[i], Atomic!After(z, i - 1)).outcome
        /\ db' = Atomic!After(z, Atomic!Cardinality(S))
  BY <1>1, <1>2, SameCardinality
<1>5. QED
  BY <1>3, <1>4, Zenon DEF Atomic!Happen

(* COMMIT: exactly the operations executed without error happen. *)
LEMMA CommitHappens == RefInv /\ CommitOk => Atomic!Happen
<1> SUFFICES ASSUME RefInv, CommitOk PROVE Atomic!Happen
  OBVIOUS
<1>1. /\ inTx /\ db' = tx /\ reply' = reply /\ fatal' = fatal
      /\ \A op \in Ops : done'[op] = IF op \in Executed THEN deferred[op] ELSE done[op]
  BY DEF CommitOk, Durable, callers, Executed
<1>2. \A op \in Executed : op \in Ops /\ done[op] = "none" /\ deferred[op] # "none" /\ reply[op] = "none"
  BY <1>1 DEF Executed, RefInv, Settled
<1>3. {op \in Ops : done'[op] # done[op]} = Executed
  BY <1>1, <1>2
<1>4. PICK s, f : Explains(s, f)
  BY <1>1 DEF RefInv, History
<1>5. IsFiniteSet(Executed)
  BY <1>1 DEF RefInv, History
<1>6. PICK n \in Nat : n = Cardinality(Executed)
  BY <1>5, FS_CardinalityType
<1>7. /\ s \in [1 .. n -> Executed] /\ \A i, j \in 1 .. n : s[i] = s[j] => i = j
      /\ Trace(s, n, f) /\ f[n] = tx
      /\ \A i \in 1 .. n : /\ Exec(s[i], f[i - 1]).outcome # "error"
                           /\ deferred[s[i]] = Exec(s[i], f[i - 1]).outcome
  BY <1>4, <1>6 DEF Explains
<1>8. PICK S : S = Executed /\ S = {op \in Ops : done'[op] # done[op]}
  BY <1>3
<1>9. \A i \in 1 .. n : i - 1 \in 0 .. n /\ Atomic!After(s, i - 1) = f[i - 1]
  <2>1. \A i \in 1 .. n : i - 1 \in 0 .. n
    OBVIOUS
  <2>2. QED
    BY <1>7, <2>1, TracePrefix
<1>10. ASSUME NEW i \in DOMAIN s
       PROVE  /\ Atomic!Exec(s[i], Atomic!After(s, i - 1)).outcome # "error"
              /\ done'[s[i]] = Atomic!Exec(s[i], Atomic!After(s, i - 1)).outcome
  <2>1. i \in 1 .. n /\ s[i] \in Executed /\ s[i] \in Ops
    BY <1>7 DEF Executed
  <2>2. Atomic!Exec(s[i], Atomic!After(s, i - 1)) = Exec(s[i], f[i - 1])
    BY <1>9, <2>1, SameExec
  <2>3. QED
    BY <1>1, <1>7, <2>1, <2>2
<1>11. db' = Atomic!After(s, n)
  <2>1. Atomic!After(s, n) = f[n]
    BY <1>7, AfterTrace
  <2>2. QED
    BY <1>1, <1>7, <2>1
<1>12. \A op \in S : done[op] = "none" /\ reply[op] = "none"
  BY <1>2, <1>8
<1>13. n = Cardinality(S) /\ s \in [1 .. n -> S] /\ DOMAIN s = 1 .. n
  BY <1>6, <1>7, <1>8
<1>14. \A i \in 1 .. n : /\ Atomic!Exec(s[i], Atomic!After(s, i - 1)).outcome # "error"
                         /\ done'[s[i]] = Atomic!Exec(s[i], Atomic!After(s, i - 1)).outcome
  BY <1>10, <1>13
<1>15. reply' = reply /\ fatal' = fatal /\ \A i, j \in 1 .. n : s[i] = s[j] => i = j
  BY <1>1, <1>7
<1>16. QED
  BY <1>8, <1>11, <1>12, <1>13, <1>14, <1>15, HappenIntro

(* Outside a transaction one operation happens by itself. *)
LEMMA LoneOperation ==
  RefInv /\ (ExecOp \/ ExecError) /\ ~ inTx => Atomic!Happen \/ UNCHANGED AtomicVars
<1> SUFFICES ASSUME RefInv, ExecOp \/ ExecError, ~ inTx PROVE Atomic!Happen \/ UNCHANGED AtomicVars
  OBVIOUS
<1>1. batch # <<>> /\ reply' = reply /\ fatal' = fatal /\ tx = db
  BY DEF ExecOp, ExecError, callers, RefInv, LoopInv, View
<1>2. PICK h \in Ops : h = Head(batch)
  BY <1>1, HeadOfBatch DEF RefInv
<1>3. Untouched(h) /\ GoodRows(db) /\ done \in [Ops -> Outcomes \cup {"none"}]
  BY <1>1, <1>2, HeadOfBatch DEF RefInv, LoopInv, View, TypeOK
<1> DEFINE run == Exec(h, db)
<1>4. run.outcome \in Outcomes
  BY <1>3, ExecRows
<1>5. \/ db' = db /\ done' = done
      \/ /\ run.outcome # "error" /\ db' = run.db
         /\ \A op \in Ops : done'[op] = IF op = h THEN run.outcome ELSE done[op]
  <2>1. CASE ExecOp /\ run.outcome # "error"
    BY <1>1, <1>2, <1>3, <1>4, <2>1 DEF ExecOp, Finish, Durable, Unset, Outcomes
  <2>2. CASE ExecOp /\ run.outcome = "error"
    <3>1. db' = db /\ done' = [op \in Ops |-> IF [Unset EXCEPT ![h] = "error"][op] \in {"changed", "unchanged"}
                                               THEN [Unset EXCEPT ![h] = "error"][op] ELSE done[op]]
      BY <1>1, <1>2, <2>2 DEF ExecOp, Finish, Durable, RollbackTo
    <3>2. done' = done
      BY <1>3, <3>1 DEF Unset
    <3>3. QED
      BY <3>1, <3>2
  <2>3. CASE ExecError
    <3>1. db' = db /\ done' = [op \in Ops |-> IF [Unset EXCEPT ![h] = "error"][op] \in {"changed", "unchanged"}
                                               THEN [Unset EXCEPT ![h] = "error"][op] ELSE done[op]]
      BY <1>1, <1>2, <2>3 DEF ExecError, Finish, Durable, RollbackTo
    <3>2. done' = done
      BY <1>3, <3>1 DEF Unset
    <3>3. QED
      BY <3>1, <3>2
  <2>4. QED
    BY <2>1, <2>2, <2>3
<1>6. CASE db' = db /\ done' = done
  BY <1>1, <1>6 DEF AtomicVars
<1>7. CASE /\ run.outcome # "error" /\ db' = run.db
           /\ \A op \in Ops : done'[op] = IF op = h THEN run.outcome ELSE done[op]
  <2>1. {op \in Ops : done'[op] # done[op]} = {h} /\ Cardinality({h}) = 1
    BY <1>3, <1>4, <1>7, FS_Singleton DEF Untouched, Outcomes
  <2>2. PICK s, f : s = [i \in 1 .. 1 |-> h] /\ f = [i \in 0 .. 1 |-> IF i = 0 THEN db ELSE run.db]
    OBVIOUS
  <2>3. Trace(s, 1, f)
    <3>1. \A i \in 0 .. 1 : f[i] = IF i = 0 THEN db ELSE Exec(s[i], f[i - 1]).db
      BY <2>2
    <3>2. f = [i \in 0 .. 1 |-> IF i = 0 THEN db ELSE Exec(s[i], f[i - 1]).db]
      BY <2>2, <3>1
    <3>3. QED
      BY <3>2 DEF Trace
  <2>4. Atomic!After(s, 0) = db /\ Atomic!After(s, 1) = run.db
    <3>1. Atomic!After(s, 0) = f[0] /\ Atomic!After(s, 1) = f[1]
      BY <2>3, TracePrefix
    <3>2. QED
      BY <2>2, <3>1
  <2>5. s \in [1 .. 1 -> {h}] /\ \A i, j \in 1 .. 1 : s[i] = s[j] => i = j
    BY <2>2
  <2>6. ASSUME NEW i \in 1 .. 1
        PROVE  /\ Atomic!Exec(s[i], Atomic!After(s, i - 1)).outcome # "error"
               /\ done'[s[i]] = Atomic!Exec(s[i], Atomic!After(s, i - 1)).outcome
    <3>1. i = 1 /\ s[i] = h
      BY <2>2
    <3>2. Atomic!After(s, i - 1) = db
      BY <2>4, <3>1
    <3>3. QED
      BY <1>7, <3>1, <3>2, SameExec
  <2>7. db' = Atomic!After(s, 1)
    BY <1>7, <2>4
  <2>8. \A op \in {h} : done[op] = "none" /\ reply[op] = "none"
    BY <1>3 DEF Untouched
  <2>9. Atomic!Happen
    BY <1>1, <2>1, <2>5, <2>6, <2>7, <2>8, HappenIntro
  <2>10. QED
    BY <2>9
<1>8. QED
  BY <1>5, <1>6, <1>7

(* Answering with an error operations that have not happened, or anything  *)
(* true at all, is a step of the abstract specification.                   *)
LEMMA AnswerIntro ==
  ASSUME UNCHANGED <<db, done, fatal>>,
         \A op \in Ops : \/ reply'[op] = reply[op]
                         \/ /\ reply[op] = "none"
                            /\ \/ reply'[op] = IF done[op] = "none" THEN "error" ELSE done[op]
                               \/ reply'[op] = "error" /\ fatal > 0
  PROVE  Atomic!Answer
<1>1. (fatal' > 0) = (fatal > 0)
  OBVIOUS
<1>2. QED
  BY <1>1, Zenon DEF Atomic!Answer

(* Every step of the coalescer is a step of the abstract specification, or *)
(* changes nothing it speaks of.                                           *)
LEMMA StepSimulation == RefInv /\ [Next]_vars => [Atomic!Next]_AtomicVars
<1> SUFFICES ASSUME RefInv, [Next]_vars PROVE Atomic!Next \/ UNCHANGED AtomicVars
  OBVIOUS
<1> USE DEF callers, loop
<1>0. Once /\ Settled /\ View /\ TypeOK
  BY DEF RefInv, LoopInv
<1>1. CASE \/ \E op \in Ops : Submit(op) \/ HangUp(op)
           \/ Drain \/ BeginOk \/ CommitFail \/ Restart \/ UNCHANGED vars
  BY <1>1 DEF Submit, HangUp, Drain, BeginOk, CommitFail, Restart, vars, AtomicVars
<1>2. CASE \E op \in Ops : Send(op)
  <2>1. PICK op \in Ops : Send(op)
    BY <1>2
  <2>2. CASE pc # "dead"
    BY <2>1, <2>2 DEF Send, AtomicVars
  <2>3. CASE pc = "dead"
    <3>1. /\ client[op] = "sending" /\ UNCHANGED <<db, done, fatal>>
          /\ reply' = [reply EXCEPT ![op] = "error"]
      BY <2>1, <2>3 DEF Send
    <3>2. reply[op] = "none" /\ done[op] = "none"
      BY <1>0, <3>1 DEF Once, Untouched
    <3>3. \A q \in Ops : reply'[q] = IF q = op THEN "error" ELSE reply[q]
      BY <1>0, <3>1 DEF TypeOK
    <3>4. Atomic!Answer
      BY <3>1, <3>2, <3>3, AnswerIntro
    <3>5. QED
      BY <3>4 DEF Atomic!Next
  <2>4. QED
    BY <2>2, <2>3
<1>3. CASE BeginFail
  <2>1. /\ UNCHANGED <<db, done, fatal>>
        /\ \A op \in Ops : reply'[op] = IF op \in Elements(batch) THEN "error" ELSE reply[op]
    BY <1>3 DEF BeginFail, SendReplies, Errors
  <2>2. \A op \in Elements(batch) : reply[op] = "none" /\ done[op] = "none"
    BY <1>0 DEF Once, Untouched
  <2>3. Atomic!Answer
    BY <2>1, <2>2, AnswerIntro
  <2>4. QED
    BY <2>3 DEF Atomic!Next
<1>4. CASE SavepointFail
  <2>1. /\ UNCHANGED <<db, done, fatal>> /\ batch # <<>>
        /\ \A op \in Ops : reply'[op] = IF op = Head(batch) THEN "error" ELSE reply[op]
    BY <1>4 DEF SavepointFail, SendReplies, Errors
  <2>2. Untouched(Head(batch))
    BY <1>0, <2>1, HeadOfBatch DEF RefInv
  <2>3. Atomic!Answer
    BY <2>1, <2>2, AnswerIntro DEF Untouched
  <2>4. QED
    BY <2>3 DEF Atomic!Next
<1>5. CASE (ExecOp \/ ExecError) /\ inTx
  BY <1>5 DEF ExecOp, ExecError, Finish, AtomicVars
<1>6. CASE (ExecOp \/ ExecError) /\ ~ inTx
  BY <1>6, LoneOperation DEF Atomic!Next
<1>7. CASE ExecFatal
  <2>1. UNCHANGED <<db, done, reply>> /\ fatal' = fatal + 1
    BY <1>7 DEF ExecFatal
  <2>2. (fatal' > 0) = TRUE
    BY <1>0, <2>1 DEF TypeOK
  <2>3. Atomic!Abandon
    BY <2>1, <2>2 DEF Atomic!Abandon
  <2>4. QED
    BY <2>3 DEF Atomic!Next
<1>8. CASE CommitOk
  BY <1>8, CommitHappens DEF Atomic!Next
<1>9. CASE Flush
  <2>1. /\ UNCHANGED <<db, done, fatal>> /\ pc = "flush"
        /\ \A op \in Ops : reply'[op] = IF deferred[op] = "none" THEN reply[op]
                                        ELSE IF commit_ok THEN deferred[op] ELSE "error"
    BY <1>9 DEF Flush, SendReplies, DeferredReply
  <2>2. ASSUME NEW op \in Ops, deferred[op] # "none"
        PROVE  /\ reply[op] = "none"
               /\ \/ reply'[op] = IF done[op] = "none" THEN "error" ELSE done[op]
                  \/ reply'[op] = "error" /\ fatal > 0
    BY <1>0, <2>1, <2>2 DEF Settled
  <2>3. Atomic!Answer
    BY <2>1, <2>2, AnswerIntro
  <2>4. QED
    BY <2>3 DEF Atomic!Next
<1>10. CASE Panic
  <2>1. /\ UNCHANGED <<db, done, fatal>> /\ inTx
        /\ \A op \in Ops : reply'[op] = IF client[op] = "waiting" THEN "error" ELSE reply[op]
    BY <1>10 DEF Panic, SendReplies, Errors
  <2>2. \A op \in Ops : client[op] = "waiting" => reply[op] = "none" /\ done[op] = "none"
    BY <1>0, <2>1 DEF Settled
  <2>3. Atomic!Answer
    BY <2>1, <2>2, AnswerIntro
  <2>4. QED
    BY <2>3 DEF Atomic!Next
<1>11. QED
  BY <1>1, <1>2, <1>3, <1>4, <1>5, <1>6, <1>7, <1>8, <1>9, <1>10 DEF Next, LoopStep

(* The write coalescer implements atomic, exactly answered writes          *)
(* (coalesce_loop): what a caller is told is what happened to its rows,    *)
(* whichever statements fail, wherever the loop panics and whenever the    *)
(* process restarts, for every set of operations and every capacity.       *)
THEOREM CoalescerIsAtomic == Spec => AtomicSpec
<1>1. Init => Atomic!Init
  <2> SUFFICES ASSUME Init PROVE Atomic!Init
    OBVIOUS
  <2>1. (fatal > 0) = FALSE
    BY DEF Init
  <2>2. QED
    BY <2>1 DEF Init, Atomic!Init, Unset
<1>2. QED
  BY <1>1, RefInvInit, RefInvStep, StepSimulation, PTL DEF Spec, AtomicSpec, Atomic!Spec, AtomicVars
=============================================================================
