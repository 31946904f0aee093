------------------------------- MODULE Gossip -------------------------------
(***************************************************************************)
(* Replication of accounts between nodes: the hooks that follow a database *)
(* write (crdt_hooks.rs), the gossip loop and its handler (src/gossip),    *)
(* and the periodic write of the replica back into the node's database     *)
(* (akamu-crdt/src/db.rs).                                                 *)
(*                                                                         *)
(* The replica is guarded by one lock, so a merge or a hook is one step.   *)
(* A round is three: envelopes are built, peers answer, answers are        *)
(* merged.  A request may get lost, or arrive after its sender gave up;    *)
(* that it is not merged twice while the receiver runs, unless clocks      *)
(* differ, is module Envelope's subject.                                   *)
(***************************************************************************)
EXTENDS Crdt, FiniteSetsExt

CONSTANTS
  Nodes, Accounts, None,
  SameSecond,                \* whether two writes may carry the same timestamp
  MaxWrites, MaxPersists,    \* bounds
  MaxFaults                  \* bound: lost hooks, lost exchanges and restarts together

ASSUME GossipAssumption ==
  /\ MaxWrites \in Nat /\ MaxFaults \in Nat /\ MaxPersists \in Nat
  /\ SameSecond \in BOOLEAN
  /\ None \notin Nat

VARIABLES
  row,        \* the accounts table of each node; NoValue where there is no row
  hook,       \* a handler between its database write and its hook, per node
  crdt, gen,  \* AppState::crdt, CRDT_GENERATION
  lastGen,    \* peer_last_gen[n][p]; None without entry
  respGen,    \* peer_response_gen[n][p]
  round,      \* the exchange of n's current round with p
  late,       \* a request n gave up waiting for, that may still reach p
  snap,       \* the clone that n's loop is writing to the database
  now, writes, fails, restarts, persists,
  overlap,    \* history: a hook changed the replica of a node during its round
  undone     \* history: an upsert replaced a tombstone or a newer entry

hist == <<overlap, undone>>
vars == <<row, hook, crdt, gen, lastGen, respGen, round, late, snap, now, writes, fails, restarts,
          persists, hist>>

db == <<row, hook, now, writes>>
loop == <<lastGen, respGen, round, late, snap>>

Peers(n) == Nodes \ {n}

Value == [status : {"", "valid", "deactivated"}, contact : 0 .. MaxWrites, created : 0 .. MaxWrites,
          updated : 0 .. MaxWrites]
EntryType == [kind : {"absent", "live", "tomb"}, value : Value, added : 0 .. MaxWrites, gen : Nat]
Map == [Accounts -> EntryType]
Hooks == [op : {"upsert", "remove"}, account : Accounts, value : Value]

Idle == [st |-> "idle", map |-> None, since |-> None, my_gen |-> 0]

TypeOK ==
  /\ row \in [Nodes -> [Accounts -> Value]]
  /\ crdt \in [Nodes -> Map]
  /\ gen \in [Nodes -> Nat]
  /\ \A n \in Nodes : hook[n] = None \/ hook[n] \in Hooks
  /\ \A n \in Nodes : \A a \in Accounts : crdt[n][a].gen <= gen[n]
  /\ \A n \in Nodes : \A p \in Peers(n) :
       /\ lastGen[n][p] \in Nat \cup {None} /\ respGen[n][p] \in Nat \cup {None}
       /\ lastGen[n][p] # None => lastGen[n][p] <= gen[n]
       /\ round[n][p].st \in {"idle", "sent", "answered", "failed"}
       /\ round[n][p].st \in {"sent", "answered"} => round[n][p].map \in Map
       /\ late[n][p] = None \/ late[n][p] \in Map
  /\ \A n \in Nodes : snap[n] = None \/ snap[n] \in Map
  /\ now \in 0 .. MaxWrites /\ writes \in 0 .. MaxWrites
  /\ fails \in 0 .. MaxFaults /\ restarts \in 0 .. MaxFaults
  /\ persists \in 0 .. MaxPersists
  /\ overlap \in BOOLEAN /\ undone \in BOOLEAN

PerPeer(x) == [n \in Nodes |-> [p \in Peers(n) |-> x]]

Init ==
  /\ row = [n \in Nodes |-> [a \in Accounts |-> NoValue]]
  /\ hook = [n \in Nodes |-> None]
  /\ crdt = [n \in Nodes |-> [a \in Accounts |-> Absent]]
  /\ gen = [n \in Nodes |-> 0]
  /\ lastGen = PerPeer(None) /\ respGen = PerPeer(None)
  /\ round = PerPeer(Idle) /\ late = PerPeer(None)
  /\ snap = [n \in Nodes |-> None]
  /\ now = 0 /\ writes = 0 /\ fails = 0 /\ restarts = 0 /\ persists = 0
  /\ overlap = FALSE /\ undone = FALSE

-----------------------------------------------------------------------------
(* Handlers: a database write, then the hook.                              *)

(* A handler on node n writes account a's row at time now' and will call   *)
(* the hook.  One handler of a node is between the two at a time.          *)
WriteRow(n, a, op, value) ==
  /\ hook[n] = None /\ writes < MaxWrites
  /\ writes' = writes + 1
  /\ now' = now + 1 \/ (SameSecond /\ now > 0 /\ now' = now)
  /\ row' = [row EXCEPT ![n][a] = value]
  /\ hook' = [hook EXCEPT ![n] = [op |-> op, account |-> a, value |-> value]]
  /\ UNCHANGED <<crdt, gen, loop, fails, restarts, persists, hist>>

(* new_account. *)
Create(n, a) ==
  /\ \A p \in Nodes : row[p][a] = NoValue
  /\ WriteRow(n, a, "upsert",
              [status |-> "valid", contact |-> writes', created |-> now', updated |-> now'])

(* update_account: the contact changes if the account is valid; the row as *)
(* read back goes to the hook.                                             *)
Update(n, a) ==
  /\ row[n][a] # NoValue
  /\ WriteRow(n, a, "upsert",
              IF row[n][a].status = "valid"
              THEN [row[n][a] EXCEPT !.contact = writes', !.updated = now'] ELSE row[n][a])

(* Deactivation, by the owner or an operator. *)
Deactivate(n, a) ==
  /\ row[n][a] # NoValue
  /\ WriteRow(n, a, "remove", [row[n][a] EXCEPT !.status = "deactivated", !.updated = now'])

(* on_account_upsert, on_account_tombstone. *)
Hook(n) ==
  /\ hook[n] # None
  /\ LET a == hook[n].account
         e == crdt[n][a]
         f == IF hook[n].op = "upsert" THEN Upsert(hook[n].value, hook[n].value.updated, gen[n] + 1)
              ELSE Remove(e, now, gen[n] + 1) IN
     /\ crdt' = [crdt EXCEPT ![n][a] = f]
     /\ gen' = [gen EXCEPT ![n] = IF e = f THEN @ ELSE @ + 1]
     /\ overlap' = (overlap \/ (e # f /\ \E p \in Peers(n) : round[n][p].st # "idle"))
     /\ undone' = (undone \/ (f.kind = "live" /\ (e.kind = "tomb" \/ e.added > f.added)))
  /\ hook' = [hook EXCEPT ![n] = None]
  /\ UNCHANGED <<row, loop, now, writes, fails, restarts, persists>>

(* The hook is not reached: the client hung up, or the lock timed out. *)
HookLost(n) ==
  /\ hook[n] # None /\ fails + restarts < MaxFaults
  /\ fails' = fails + 1
  /\ hook' = [hook EXCEPT ![n] = None]
  /\ UNCHANGED <<row, crdt, gen, loop, now, writes, restarts, persists, hist>>

-----------------------------------------------------------------------------
(* The gossip loop.                                                        *)

(* Merge for AkaCrdt.  The entries changed by one merge share one          *)
(* generation: no delta is cut between them.                               *)
MergeMap(map, other, g) == [a \in Accounts |-> MergeEntry(map[a], other[a], g)]

SetReplica(n, map) ==
  /\ crdt' = [crdt EXCEPT ![n] = map]
  /\ gen' = [gen EXCEPT ![n] = IF map = crdt[n] THEN @ ELSE @ + 1]

(* Phase A: a peer is contacted if this node's generation moved since the  *)
(* last exchange.                                                          *)
RoundStart(n) ==
  /\ snap[n] = None
  /\ \A p \in Peers(n) : round[n][p].st = "idle"
  /\ \E p \in Peers(n) : lastGen[n][p] # gen[n]
  /\ round' = [round EXCEPT ![n] = [p \in Peers(n) |->
        CASE lastGen[n][p] = gen[n] -> Idle
          [] lastGen[n][p] = None -> [Idle EXCEPT !.st = "sent", !.map = Full(crdt[n]),
                                                  !.since = respGen[n][p]]
          [] OTHER -> [Idle EXCEPT !.st = "sent", !.map = DeltaRange(crdt[n], lastGen[n][p], gen[n]),
                                   !.since = respGen[n][p]]]]
  /\ UNCHANGED <<db, crdt, gen, lastGen, respGen, late, snap, fails, restarts, persists, hist>>

(* The handler's answer: everything, or what this node had from since to   *)
(* the merge.                                                              *)
Answer(map, since, pre) == IF since = None THEN Full(map) ELSE DeltaRange(map, since, pre)

(* gossip_sync on p: merge, then answer. *)
Receive(n, p) ==
  /\ round[n][p].st = "sent"
  /\ LET map == MergeMap(crdt[p], round[n][p].map, gen[p] + 1) IN
     /\ SetReplica(p, map)
     /\ round' = [round EXCEPT ![n][p] = [st |-> "answered",
                                          map |-> Answer(map, round[n][p].since, gen[p]),
                                          since |-> None, my_gen |-> gen'[p]]]
  /\ UNCHANGED <<db, lastGen, respGen, late, snap, fails, restarts, persists, hist>>

(* Mutant: a failed exchange is taken for a successful one. *)
MutForget(n, p, g) == IF round[n][p].st = "idle" THEN lastGen[n][p] ELSE g

(* peer_last_gen after the round. *)
Forget(n, p, g) == CASE round[n][p].st = "answered" -> g
                     [] round[n][p].st = "failed" -> None
                     [] OTHER -> lastGen[n][p]

NoEntries == [a \in Accounts |-> Absent]

(* Phase D: the answers are merged into a scratch replica, then into the   *)
(* live one.  Merging into the scratch replica moves CRDT_GENERATION too,  *)
(* whether the live one changes or not.  Then CRDT_GENERATION is read      *)
(* again.                                                                  *)
RoundEnd(n) ==
  /\ \E p \in Peers(n) : round[n][p].st # "idle"
  /\ \A p \in Peers(n) : round[n][p].st # "sent"
  /\ LET answers == {round[n][p].map : p \in {q \in Peers(n) : round[n][q].st = "answered"}}
         merge(other, map) == MergeMap(map, other, 0)
         combined == FoldSet(merge, NoEntries, answers) IN
     /\ crdt' = [crdt EXCEPT ![n] = MergeMap(crdt[n], combined, gen[n] + 1)]
     /\ gen' = [gen EXCEPT ![n] = IF combined = NoEntries THEN @ ELSE @ + 1]
  /\ lastGen' = [lastGen EXCEPT ![n] = [p \in Peers(n) |-> Forget(n, p, gen'[n])]]
  /\ respGen' = [respGen EXCEPT ![n] = [p \in Peers(n) |->
        CASE round[n][p].st = "answered" -> IF round[n][p].my_gen > 0 THEN round[n][p].my_gen
                                            ELSE respGen[n][p]
          [] round[n][p].st = "failed" -> None
          [] OTHER -> respGen[n][p]]]
  /\ round' = [round EXCEPT ![n] = [p \in Peers(n) |-> Idle]]
  /\ UNCHANGED <<db, late, snap, fails, restarts, persists, hist>>

(* The exchange fails: the request is lost or late, or the answer is lost. *)
Fail(n, p) ==
  /\ round[n][p].st \in {"sent", "answered"} /\ fails + restarts < MaxFaults
  /\ fails' = fails + 1
  /\ round' = [round EXCEPT ![n][p] = [Idle EXCEPT !.st = "failed"]]
  /\ late' = IF round[n][p].st = "sent" THEN [late EXCEPT ![n][p] = round[n][p].map] ELSE late
  /\ UNCHANGED <<db, crdt, gen, lastGen, respGen, snap, restarts, persists, hist>>

(* gossip_sync for a request whose sender no longer waits. *)
ReceiveLate(n, p) ==
  /\ late[n][p] # None
  /\ SetReplica(p, MergeMap(crdt[p], late[n][p], gen[p] + 1))
  /\ late' = [late EXCEPT ![n][p] = None]
  /\ UNCHANGED <<db, lastGen, respGen, round, snap, fails, restarts, persists, hist>>

-----------------------------------------------------------------------------
(* Persistence.                                                            *)

(* Between rounds, at most every 30 s: a clone of the replica ...          *)
PersistClone(n) ==
  /\ snap[n] = None /\ \A p \in Peers(n) : round[n][p].st = "idle"
  /\ persists < MaxPersists
  /\ persists' = persists + 1
  /\ snap' = [snap EXCEPT ![n] = crdt[n]]
  /\ UNCHANGED <<db, crdt, gen, lastGen, respGen, round, late, fails, restarts, hist>>

(* ... is written over the rows by persist_crdt_acme, tombstones included. *)
Persisted(e, r) ==
  CASE e.kind = "absent" -> r
    [] e.kind # "absent" /\ r = NoValue -> e.value
    [] OTHER -> [r EXCEPT !.status = e.value.status, !.contact = e.value.contact,
                          !.updated = e.value.updated]

(* CHECK(status IN ...): the value of a tombstone made from nothing fails  *)
(* it, and with it the whole transaction.                                  *)
Check(e) == e.kind = "absent" \/ e.value.status # ""

PersistWrite(n) ==
  /\ snap[n] # None
  /\ snap' = [snap EXCEPT ![n] = None]
  /\ row' = IF \A a \in Accounts : Check(snap[n][a])
            THEN [row EXCEPT ![n] = [a \in Accounts |-> Persisted(snap[n][a], row[n][a])]]
            ELSE row
  /\ UNCHANGED <<hook, now, writes, crdt, gen, lastGen, respGen, round, late, fails, restarts,
                 persists, hist>>

(* load_from_db: generations and update times are lost. *)
Loaded(r) ==
  CASE r = NoValue -> Absent
    [] OTHER -> [kind |-> IF r.status = "deactivated" THEN "tomb" ELSE "live",
                 value |-> r, added |-> r.created, gen |-> 0]

Restart(n) ==
  /\ fails + restarts < MaxFaults
  /\ restarts' = restarts + 1
  /\ crdt' = [crdt EXCEPT ![n] = [a \in Accounts |-> Loaded(row[n][a])]]
  /\ gen' = [gen EXCEPT ![n] = 0]
  /\ hook' = [hook EXCEPT ![n] = None]
  /\ snap' = [snap EXCEPT ![n] = None]
  /\ lastGen' = [lastGen EXCEPT ![n] = [p \in Peers(n) |-> None]]
  /\ respGen' = [respGen EXCEPT ![n] = [p \in Peers(n) |-> None]]
  /\ round' = [round EXCEPT ![n] = [p \in Peers(n) |-> Idle]]
  /\ UNCHANGED <<row, late, now, writes, fails, persists, hist>>

Next ==
  \E n \in Nodes :
    \/ \E a \in Accounts : Create(n, a) \/ Update(n, a) \/ Deactivate(n, a)
    \/ Hook(n) \/ HookLost(n)
    \/ RoundStart(n) \/ RoundEnd(n)
    \/ \E p \in Peers(n) : Receive(n, p) \/ Fail(n, p) \/ ReceiveLate(n, p)
    \/ PersistClone(n) \/ PersistWrite(n)
    \/ Restart(n)

Spec == Init /\ [][Next]_vars

(* The loop runs, and every iteration of it reaches phase A, whether it    *)
(* persists first or not; the HTTP client has a timeout, peers answer.     *)
FairSpec ==
  /\ Spec
  /\ \A n \in Nodes :
       /\ WF_vars(Hook(n)) /\ SF_vars(RoundStart(n)) /\ WF_vars(RoundEnd(n))
       /\ WF_vars(PersistWrite(n))
       /\ \A p \in Peers(n) : WF_vars(Receive(n, p))

-----------------------------------------------------------------------------
(* Properties.                                                             *)

(* What a node takes the account for: its contact, or 0 when it is gone. *)
View(e) == IF e.kind = "live" /\ e.value.status = "valid" THEN e.value.contact ELSE 0

Agree(n, p, a) == View(crdt[n][a]) = View(crdt[p][a])

(* Two live entries with one timestamp: neither replaces the other. *)
Tied(n, p, a) ==
  /\ crdt[n][a].kind = "live" /\ crdt[p][a].kind = "live"
  /\ crdt[n][a].added = crdt[p][a].added

(* Merge for OrMap: no merge replaces an entry by an older one or revives  *)
(* a tombstone, whatever order deltas and late requests arrive in; only a  *)
(* restart or a handler of the node itself may.                            *)
NewestKept ==
  [][\A n \in Nodes : \A a \in Accounts :
       restarts' = restarts /\ hook'[n] = hook[n]
         => /\ crdt[n][a].kind = "tomb" => crdt'[n][a].kind = "tomb"
            /\ crdt[n][a].kind = "live" => /\ crdt'[n][a].kind # "absent"
                                           /\ crdt'[n][a].added >= crdt[n][a].added]_vars

AgreeOrTied ==
  \A n \in Nodes : \A p \in Peers(n) : \A a \in Accounts : Agree(n, p, a) \/ Tied(n, p, a)

(* The delta protocol (gossip_loop.rs, handlers.rs): once writes cease the *)
(* nodes agree, through lost, late and failed exchanges and lost hooks;    *)
(* unless a node restarts, a hook writes during a round of its own node,   *)
(* two writes carry one timestamp, or an upsert replaces something newer.  *)
Converges == <>(restarts > 0 \/ overlap \/ undone) \/ <>[]AgreeOrTied
=============================================================================
