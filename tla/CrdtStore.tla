------------------------------ MODULE CrdtStore ------------------------------
(***************************************************************************)
(* The other tables of the replica and their rows                          *)
(* (crates/akamu-crdt/src/db.rs, lww_register.rs, src/src/crdt_hooks.rs).  *)
(* Handlers and validators write a row; some of them then call a hook that *)
(* changes the replica.  The gossip loop merges peers' replicas and writes *)
(* a clone of its own back over the rows; a restart loads it from them.    *)
(* A behaviour follows one row of one table on all nodes.  Deltas are      *)
(* Gossip's subject: here a peer's whole entry arrives.                    *)
(***************************************************************************)
EXTENDS Crdt, Integers, FiniteSets

CONSTANTS
    StoreTables,
    MaxRowWrites, MaxStoreClones, MaxStoreRestarts       \* bounds
ASSUME StoreAssumption == MaxRowWrites \in Nat /\ MaxStoreClones \in Nat /\ MaxStoreRestarts \in Nat

VARIABLES
    table,
    rows,           \* the row on each node; data is the columns without a part in the control flow
    entry,          \* the replica's entry, or register, on each node
    counter,        \* CRDT_GENERATION
    hooked,         \* a hook that is about to run
    clone,          \* what the loop of the node is writing
    clock, rowWrites, clones, reloads,
    takenBack       \* history: a handler, or an older clone, took a removal back
storeVars == <<table, rows, entry, counter, hooked, clone, clock, rowWrites, clones, reloads, takenBack>>
-----------------------------------------------------------------------------
StoreNodes == 1..2
Registers == {"challenges", "eab_keys", "mtc_checkpoints"}
NoRow == [status |-> "none", data |-> 0, created |-> 0, updated |-> 0, gen |-> 0]
NoHook == [call |-> "none", value |-> NoRow]
NoClone == [kind |-> "none"]
(* LwwRegister; by is node_id.                                             *)
Register(value, timestamp, by, gen) == [kind |-> "register", value |-> value, added |-> timestamp, by |-> by, gen |-> gen]
Empty == IF table \in Registers THEN Register(NoRow, 0, 0, 0) ELSE Absent

(* LwwRegister::set.                                                       *)
set(r, value, timestamp, by, gen) ==
    IF timestamp > r.added \/ (timestamp = r.added /\ by > r.by) THEN Register(value, timestamp, by, gen) ELSE r
(* Merge for LwwRegister; a register without a value and stamp is ignored. *)
merge(r, other, gen) == IF other.added = 0 THEN r ELSE set(r, other.value, other.added, other.by, gen)

-----------------------------------------------------------------------------
(* What happens to a row: the statuses it may have before, the one it gets *)
(* (or "same" and new data), and the hook that follows.                    *)
Change(from, to, call) == [from |-> from, to |-> to, call |-> call]
order_changes ==        \* new_order, the validators' verdicts, finalize_order
    {Change({"none"}, "pending", "upsert"), Change({"pending"}, "ready", "none"), Change({"pending"}, "invalid", "none"), Change({"ready"}, "valid", "upsert")}
authz_changes ==
    {Change({"none"}, "pending", "upsert"), Change({"pending"}, "valid", "none"), Change({"pending"}, "invalid", "none"), Change({"valid"}, "deactivated", "none")}
challenge_changes ==    \* new_order, respond_challenge, the verdict
    {Change({"none"}, "pending", "upsert"), Change({"pending"}, "processing", "upsert"), Change({"processing"}, "valid", "none"), Change({"processing"}, "invalid", "none")}
cert_changes == {Change({"none"}, "valid", "upsert"), Change({"valid"}, "revoked", "remove")}
eab_changes == {Change({"none"}, "unused", "upsert"), Change({"unused"}, "used", "none"), Change({"unused", "used"}, "none", "none")}
operator_changes == {Change({"none"}, "active", "upsert"), Change({"active", "inactive"}, "inactive", "remove"), Change({"active", "inactive"}, "active", "none")}
delegation_changes == {Change({"none"}, "live", "upsert"), Change({"live"}, "same", "none"), Change({"live"}, "none", "remove")}
policy_changes == {Change({"none"}, "live", "upsert"), Change({"live"}, "same", "upsert"), Change({"live"}, "deleted", "remove")}
checkpoint_changes == {Change({"none"}, "made", "none")}
changes ==
    CASE table = "orders" -> order_changes [] table = "authorizations" -> authz_changes [] table = "challenges" -> challenge_changes
      [] table = "certificates" -> cert_changes [] table = "eab_keys" -> eab_changes [] table = "operators" -> operator_changes
      [] table = "delegations" -> delegation_changes [] table = "policy_rules" -> policy_changes [] OTHER -> checkpoint_changes
(* Operators are numbered by each database for itself.                     *)
Unused(n) == IF table = "operators" THEN rows[n] = NoRow ELSE \A p \in StoreNodes : rows[p] = NoRow /\ entry[p] = Empty

WriteStored(n) ==
    /\ hooked[n] = NoHook /\ rowWrites < MaxRowWrites /\ rowWrites' = rowWrites + 1
    /\ clock' \in {clock, clock + 1} \ {0}
    /\ \E c \in changes :
        LET old == rows[n]
            new == IF c.to = "none" THEN NoRow
                   ELSE [status |-> IF c.to = "same" THEN old.status ELSE c.to, data |-> rowWrites', updated |-> clock', gen |-> old.gen,
                         created |-> IF old = NoRow THEN clock' ELSE old.created] IN
        /\ old.status \in c.from /\ (old = NoRow => Unused(n))
        /\ rows' = [rows EXCEPT ![n] = new]
        /\ hooked' = [hooked EXCEPT ![n] = IF c.call = "none" THEN NoHook ELSE [call |-> c.call, value |-> new]]
        /\ takenBack' = (takenBack \/ (old.status = "inactive" /\ c.to = "active"))
    /\ UNCHANGED <<table, entry, counter, clone, clones, reloads>>

(* The hooks: which time each of them gives to the entry it writes.        *)
on_order_upsert(v, gen) == Upsert(v, v.updated, gen)
on_authz_upsert(v, gen) == Upsert(v, v.updated, gen)
on_challenge_set(n, v, gen) == set(entry[n], v, v.updated, n, gen)
on_cert_upsert(v, gen) == Upsert(v, v.created, gen)
on_eab_key_set(n, v, gen) == set(entry[n], v, v.created, n, gen)         \* used_at is None
on_operator_upsert(v, gen) == Upsert(v, v.created, gen)
on_delegation_upsert(v, gen) == Upsert(v, v.created, gen)
on_policy_rule_upsert(v, gen) == Upsert(v, v.updated, gen)
on_upsert(n, v) ==
    LET gen == counter[n] + 1 IN
    CASE table = "orders" -> on_order_upsert(v, gen) [] table = "authorizations" -> on_authz_upsert(v, gen)
      [] table = "challenges" -> on_challenge_set(n, v, gen) [] table = "certificates" -> on_cert_upsert(v, gen)
      [] table = "eab_keys" -> on_eab_key_set(n, v, gen) [] table = "operators" -> on_operator_upsert(v, gen)
      [] table = "delegations" -> on_delegation_upsert(v, gen) [] table = "policy_rules" -> on_policy_rule_upsert(v, gen)
on_tombstone(n) == Remove(entry[n], clock, counter[n] + 1)
RunHook(n) ==
    /\ hooked[n] # NoHook
    /\ LET new == IF hooked[n].call = "upsert" THEN on_upsert(n, hooked[n].value) ELSE on_tombstone(n) IN
        /\ entry' = [entry EXCEPT ![n] = new]
        /\ counter' = [counter EXCEPT ![n] = IF new = entry[n] THEN @ ELSE @ + 1]
        /\ takenBack' = (takenBack \/ (entry[n].kind = "tomb" /\ new.kind = "live"))
    /\ hooked' = [hooked EXCEPT ![n] = NoHook]
    /\ UNCHANGED <<table, rows, clone, clock, rowWrites, clones, reloads>>
(* A peer's entry arrives.                                                 *)
MergePeer(n, p) ==
    LET new == IF table \in Registers THEN merge(entry[n], entry[p], counter[n] + 1) ELSE MergeEntry(entry[n], entry[p], counter[n] + 1) IN
    /\ new # entry[n]
    /\ entry' = [entry EXCEPT ![n] = new] /\ counter' = [counter EXCEPT ![n] = @ + 1]
    /\ UNCHANGED <<table, rows, hooked, clone, clock, rowWrites, clones, reloads, takenBack>>

-----------------------------------------------------------------------------
(* persist_crdt_acme.  Orders, authorizations and challenges are inserted  *)
(* or some of their columns updated, tombstones as well.                   *)
persist_orders(e, r) ==
    IF r = NoRow THEN [e.value EXCEPT !.gen = e.gen]
    ELSE [r EXCEPT !.status = e.value.status, !.data = e.value.data, !.updated = e.value.updated, !.gen = e.gen]
persist_authorizations(e, r) == persist_orders(e, r)
persist_challenges(e, r) == persist_orders(e, r)
(* Certificates lack their bytes, keys their secret, operators their       *)
(* credentials: only rows that exist are updated.                          *)
persist_certificates(e, r) == IF r = NoRow THEN r ELSE [r EXCEPT !.status = e.value.status, !.gen = e.gen]
persist_eab_keys(e, r) == IF r = NoRow THEN r ELSE [r EXCEPT !.status = e.value.status, !.gen = e.gen]
persist_operators(e, r) == IF r = NoRow THEN r ELSE [r EXCEPT !.status = IF e.kind = "tomb" THEN "inactive" ELSE "active", !.gen = e.gen]
persist_delegations(e, r) == IF r = NoRow THEN r ELSE [r EXCEPT !.gen = e.gen]
persist_checkpoints(e, r) == IF r = NoRow THEN r ELSE [r EXCEPT !.gen = e.gen]
(* Mutant: the rule's text is missing from the columns of the update.      *)
MutPersistPolicy(e, r) ==
    IF r = NoRow THEN [e.value EXCEPT !.gen = e.gen] ELSE [r EXCEPT !.status = IF e.kind = "tomb" THEN "deleted" ELSE e.value.status, !.gen = e.gen]
persist_policy_rules(e, r) ==
    [e.value EXCEPT !.status = IF e.kind = "tomb" THEN "deleted" ELSE @, !.created = IF r = NoRow THEN @ ELSE r.created, !.gen = e.gen]
persist_crdt_acme(e, r) ==
    IF e.kind = "absent" \/ (e.kind = "register" /\ e.added = 0) THEN r
    ELSE CASE table = "orders" -> persist_orders(e, r) [] table = "authorizations" -> persist_authorizations(e, r)
           [] table = "challenges" -> persist_challenges(e, r) [] table = "certificates" -> persist_certificates(e, r)
           [] table = "eab_keys" -> persist_eab_keys(e, r) [] table = "operators" -> persist_operators(e, r)
           [] table = "delegations" -> persist_delegations(e, r) [] table = "policy_rules" -> persist_policy_rules(e, r) [] OTHER -> persist_checkpoints(e, r)
(* The loop clones its replica; the write takes a while.                   *)
CloneReplica(n) ==
    /\ clone[n] = NoClone /\ clones < MaxStoreClones /\ clones' = clones + 1
    /\ clone' = [clone EXCEPT ![n] = entry[n]]
    /\ UNCHANGED <<table, rows, entry, counter, hooked, clock, rowWrites, reloads, takenBack>>
(* A hook or a merge overtook the clone that is written.                   *)
Revived(n, written) ==
    /\ rows[n].status \in {"inactive", "deleted"} /\ rows'[n].status \notin {"inactive", "deleted"}
    /\ hooked[n] # NoHook \/ written # entry[n]
WriteClone(n) ==
    /\ clone[n] # NoClone
    /\ rows' = [rows EXCEPT ![n] = persist_crdt_acme(clone[n], @)]
    /\ clone' = [clone EXCEPT ![n] = NoClone] /\ takenBack' = (takenBack \/ Revived(n, clone[n]))
    /\ UNCHANGED <<table, entry, counter, hooked, clock, rowWrites, clones, reloads>>
(* The same when nothing comes between clone and write.                    *)
PersistAll(n) ==
    /\ clone[n] = NoClone
    /\ persist_crdt_acme(entry[n], rows[n]) # rows[n]
    /\ rows' = [rows EXCEPT ![n] = persist_crdt_acme(entry[n], @)]
    /\ takenBack' = (takenBack \/ Revived(n, entry[n]))
    /\ UNCHANGED <<table, entry, counter, hooked, clone, clock, rowWrites, clones, reloads>>

(* load_from_db.                                                           *)
Entry(r, dead, gen) == [kind |-> IF dead THEN "tomb" ELSE "live", value |-> [r EXCEPT !.gen = 0], added |-> r.created, gen |-> gen]
load_orders(r) == Entry(r, r.status = "invalid", 0)
load_authorizations(r) == Entry(r, r.status \in {"invalid", "expired", "deactivated", "revoked"}, 0)
load_challenges(r, n) == Register([r EXCEPT !.gen = 0], r.updated, n, 0)
load_certificates(r) == Entry(r, r.status = "revoked", 0)
load_eab_keys(r, n) == Register([r EXCEPT !.gen = 0], r.created, n, 0)
load_operators(r) == Entry(r, r.status = "inactive", 0)
load_delegations(r) == Entry(r, FALSE, 0)
load_policy_rules(r) == Entry(r, r.status = "deleted", r.gen)
load_checkpoints(r, n) == Register([r EXCEPT !.gen = 0], r.created, n, 0)
load_from_db(r, n) ==
    IF r = NoRow THEN Empty
    ELSE CASE table = "orders" -> load_orders(r) [] table = "authorizations" -> load_authorizations(r) [] table = "challenges" -> load_challenges(r, n)
           [] table = "certificates" -> load_certificates(r) [] table = "eab_keys" -> load_eab_keys(r, n) [] table = "operators" -> load_operators(r)
           [] table = "delegations" -> load_delegations(r) [] table = "policy_rules" -> load_policy_rules(r) [] OTHER -> load_checkpoints(r, n)
max_gen(r) == IF table = "policy_rules" THEN r.gen ELSE 0
Reload(n) ==
    /\ reloads < MaxStoreRestarts /\ reloads' = reloads + 1
    /\ entry' = [entry EXCEPT ![n] = load_from_db(rows[n], n)]
    /\ counter' = [counter EXCEPT ![n] = max_gen(rows[n])]
    /\ hooked' = [hooked EXCEPT ![n] = NoHook] /\ clone' = [clone EXCEPT ![n] = NoClone]
    /\ UNCHANGED <<table, rows, clock, rowWrites, clones, takenBack>>

StoreInit ==
    /\ table \in StoreTables
    /\ rows = [n \in StoreNodes |-> NoRow] /\ entry = [n \in StoreNodes |-> Empty] /\ counter = [n \in StoreNodes |-> 0]
    /\ hooked = [n \in StoreNodes |-> NoHook] /\ clone = [n \in StoreNodes |-> NoClone]
    /\ clock = 0 /\ rowWrites = 0 /\ clones = 0 /\ reloads = 0 /\ takenBack = FALSE
StoreNext ==
    \E n \in StoreNodes :
        \/ WriteStored(n) \/ RunHook(n) \/ CloneReplica(n) \/ WriteClone(n) \/ PersistAll(n) \/ Reload(n)
        \/ \E p \in StoreNodes \ {n} : MergePeer(n, p)
-----------------------------------------------------------------------------

(* A policy rule's row ends up saying what the node's replica says, although*)
(* the loop may write an older clone over a newer row.                     *)
RowsCatchUp ==
    table = "policy_rules" =>
        <>[](\A n \in StoreNodes : entry[n] # Empty => rows[n].data = entry[n].value.data /\ (rows[n].status = "deleted") = (entry[n].kind = "tomb"))

(* An operator that was deactivated, or a rule that was deleted, ends up so*)
(* on every node, through restarts; unless a handler takes it back, or the *)
(* loop writes an older clone over the row before the hook has run.        *)
RemovalsSpread ==
    table \in {"operators", "policy_rules"} =>
        <>takenBack \/ [](\A n \in StoreNodes : entry[n].kind = "tomb" => <>[](\A p \in StoreNodes : entry[p].kind = "tomb"))

(* Rows and removals follow the cluster, through the periodic writes of    *)
(* stale clones and through restarts (persist_crdt_acme, load_from_db).    *)
RowsFollowCluster == RowsCatchUp /\ RemovalsSpread

(* crdt_hooks.rs: "Each function is called after a successful DB write to  *)
(* keep the in-memory `AppState::crdt` replica consistent": writing the    *)
(* replica to the database never takes back a verdict or the use of a key. *)
Decided == {"ready", "valid", "invalid", "deactivated", "revoked", "used"}
DecisionsKept ==
    [][\A n \in StoreNodes : clone[n] # NoClone /\ clone'[n] = NoClone /\ reloads' = reloads
        => (rows[n].status \in Decided => rows'[n].status \in Decided)]_storeVars
=============================================================================
