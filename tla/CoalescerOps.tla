---------------------------- MODULE CoalescerOps ----------------------------
(***************************************************************************)
(* The write operations of db/coalescer.rs and the rows they touch: one    *)
(* order with one authorization and one challenge, the certificates of     *)
(* that order, and the accounts that present one EAB key.  A Finalize or   *)
(* NewAccount operation inserts a row of its own, named after it.          *)
(***************************************************************************)
EXTENDS Naturals, Sequences, FiniteSets

CONSTANTS
  Ops,      \* submitted operations
  Kind,     \* their WriteOp variant
  Null      \* SQL NULL

Kinds == {"NewOrder", "SetProcessing", "OnValid", "OnInvalid", "Finalize", "NewAccount"}

ASSUME OpsAssumption == Kind \in [Ops -> Kinds] /\ Null \notin Ops

Db == [order : {"none", "pending", "ready", "valid", "invalid"},
       authz : {"none", "pending", "valid", "invalid"},
       chall : {"none", "pending", "processing", "valid", "invalid"},
       certs : SUBSET Ops,
       certificate_id : Ops \cup {Null},
       accounts : SUBSET Ops,
       eabUsed : BOOLEAN]

EmptyDb == [order |-> "none", authz |-> "none", chall |-> "none", certs |-> {},
            certificate_id |-> Null, accounts |-> {}, eabUsed |-> FALSE]

(* Both halves of exec_finalize and of exec_new_account, or neither; one   *)
(* certificate for the order, one account for the EAB key.                 *)
Whole(d) ==
  /\ d.certs = IF d.certificate_id = Null THEN {} ELSE {d.certificate_id}
  /\ d.certificate_id # Null => d.order = "valid"
  /\ d.eabUsed <=> d.accounts # {}
  /\ \A p, q \in d.accounts : p = q

(* Order and challenge move together. *)
InStep(d) ==
  /\ d.order = "none" <=> d.chall = "none"
  /\ d.order = "pending" <=> d.chall \in {"pending", "processing"}
  /\ d.order = "invalid" <=> d.chall = "invalid"

(* What an operation returns: `error`, or Ok with whether rows changed.    *)
Outcomes == {"error", "unchanged", "changed"}

(* An execution: its outcome, and the rows after the statements that ran   *)
(* (those before the failing one, when it fails).                          *)
Ran(outcome, d) == [outcome |-> outcome, db |-> d]

(* The INSERT fails on an id that exists. *)
exec_new_order(d) ==
  IF d.order = "none"
  THEN Ran("changed", [d EXCEPT !.order = "pending", !.authz = "pending", !.chall = "pending"])
  ELSE Ran("error", d)

exec_set_processing(d) ==
  IF d.chall = "pending" THEN Ran("changed", [d EXCEPT !.chall = "processing"])
  ELSE Ran("unchanged", d)

exec_on_valid(d) ==
  IF d.chall = "processing"
  THEN Ran("changed", [d EXCEPT !.chall = "valid", !.authz = "valid", !.order = "ready"])
  ELSE Ran("unchanged", d)

exec_on_invalid(d) ==
  IF d.chall = "processing"
  THEN Ran("changed", [d EXCEPT !.chall = "invalid", !.authz = "invalid", !.order = "invalid"])
  ELSE Ran("unchanged", d)

(* Mutant: set_certificate without `AND status = 'ready'`. *)
MutExecFinalize(op, d) ==
  Ran("changed", [d EXCEPT !.certs = @ \cup {op}, !.order = "valid", !.certificate_id = op])

(* The certificate row is inserted before set_certificate tests the order. *)
exec_finalize(op, d) ==
  LET inserted == [d EXCEPT !.certs = @ \cup {op}] IN
  IF d.order = "ready"
  THEN Ran("changed", [inserted EXCEPT !.order = "valid", !.certificate_id = op])
  ELSE Ran("error", inserted)

(* The account row is inserted before mark_used tests the EAB key. *)
exec_new_account(op, d) ==
  LET inserted == [d EXCEPT !.accounts = @ \cup {op}] IN
  IF d.eabUsed THEN Ran("error", inserted)
  ELSE Ran("changed", [inserted EXCEPT !.eabUsed = TRUE])

Exec(op, d) ==
  CASE Kind[op] = "NewOrder"      -> exec_new_order(d)
    [] Kind[op] = "SetProcessing" -> exec_set_processing(d)
    [] Kind[op] = "OnValid"       -> exec_on_valid(d)
    [] Kind[op] = "OnInvalid"     -> exec_on_invalid(d)
    [] Kind[op] = "Finalize"      -> exec_finalize(op, d)
    [] Kind[op] = "NewAccount"    -> exec_new_account(op, d)
=============================================================================
