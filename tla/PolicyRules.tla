---------------------------- MODULE PolicyRules ----------------------------
(***************************************************************************)
(* The issuance policy's rules (src/src/routes/admin/policy.rs,            *)
(* src/src/policy.rs, src/src/db/policy_rules.rs): operators' requests     *)
(* change rows, the in-memory engine is rebuilt from the rows under a      *)
(* lock, and the gossip layer replicates the rules through the CRDT, whose *)
(* copy overwrites the rows.                                               *)
(***************************************************************************)
EXTENDS Integers, FiniteSets

CONSTANTS
    RuleIds,     \* identities of rules
    RuleNames,   \* their names, unique among live rules
    RuleCAs,     \* certificate authorities
    RuleTexts,   \* values of a rule's "ca" list: sets of CAs, or Anywhere
    PeerRules,   \* rules another node may send
    RuleSlots,   \* admin requests being served
    Scenarios,   \* settings: gossip on or off, enforcing or not, and the bounds
    Gossip       \* the gossip loop, as an actor that rebuilds

Anywhere == {"*"}
NoScope == ""
None == [row |-> "absent"]
Dead == [row |-> "tombstone"]
Nobody == "nobody"
Rule == [name : RuleNames, ca : RuleTexts, enabled : BOOLEAN, ok : BOOLEAN]

ASSUME PolicyRulesAssumption ==
    /\ Gossip \notin RuleSlots /\ Nobody \notin RuleSlots \union {Gossip}
    /\ RuleTexts \subseteq SUBSET (RuleCAs \union Anywhere)
    /\ PeerRules \subseteq Rule
    /\ Scenarios \subseteq [gossip : BOOLEAN, enforce : BOOLEAN, first : Rule,
                            requests : Nat, merges : Nat]

VARIABLES
    scenario,  \* this behaviour's settings and bounds
    rows,      \* policy_rules: the live rows
    mem,       \* the CRDT's entries
    engine,    \* the rules the engine was last built from
    needed,    \* policy_rebuild_needed
    holder,    \* who holds policy_rebuild_lock
    act,       \* what each request, and the gossip loop, is doing
    spent,     \* requests admitted and merges done
    foreign    \* ghost: scoped writes to a rule that was not their CA's

policyVars == <<scenario, rows, mem, engine, needed, holder, act, spent, foreign>>

Idle == [pc |-> "idle"]
Actors == RuleSlots \union {Gossip}

LiveRules(table) == {i \in RuleIds : table[i] \notin {None, Dead}}
parse_db_rules(table) == {table[i] : i \in {j \in LiveRules(table) : table[j].enabled /\ table[j].ok}}
Corrupt(table) == {i \in LiveRules(table) : table[i].enabled /\ ~table[i].ok}

(* A server started with one rule; the engine was built and the CRDT was   *)
(* loaded from the rows.                                                   *)
PolicyInit ==
    /\ scenario \in Scenarios
    /\ LET i == CHOOSE i \in RuleIds : TRUE
       IN  rows = [j \in RuleIds |-> IF j = i THEN scenario.first ELSE None]
    /\ mem = IF scenario.gossip THEN rows ELSE [i \in RuleIds |-> None]
    /\ engine = parse_db_rules(rows) /\ needed = FALSE /\ holder = Nobody
    /\ act = [x \in Actors |-> Idle]
    /\ spent = [requests |-> 0, merges |-> 0]
    /\ foreign = {}

-----------------------------------------------------------------------------
(* The scope tests.  An operator without a CA scope passes them all.       *)
ca_scope_visible(rule, scope) ==
    scope = NoScope \/ (rule.ok /\ (rule.ca = Anywhere \/ scope \in rule.ca))
ca_scope_mutable(rule, scope) ==
    scope = NoScope \/ (rule.ok /\ rule.ca # {} /\ rule.ca \subseteq {scope})
ca_scope_creatable(text, scope) ==
    scope = NoScope \/ (text # {} /\ text \subseteq {scope})

get_by_scope_and_name(name) == {i \in LiveRules(rows) : rows[i].name = name}

(* Requests.                                                               *)
AdmitRule(r, next) ==
    /\ act[r].pc = "idle" /\ spent.requests < scenario.requests
    /\ spent' = [spent EXCEPT !.requests = @ + 1]
    /\ act' = [act EXCEPT ![r] = next]
    /\ UNCHANGED <<scenario, rows, mem, engine, needed, holder, foreign>>

RulePostCheck(r, scope, name, text, enabled) ==
    /\ ca_scope_creatable(text, scope)
    /\ get_by_scope_and_name(name) = {}
    /\ AdmitRule(r, [pc |-> "insert", scope |-> scope,
                 rule |-> [name |-> name, ca |-> text, enabled |-> enabled, ok |-> TRUE]])

(* The row is read and tested; a new name must be free.                    *)
RulePutCheck(r, scope, i, name, text, enabled) ==
    /\ i \in LiveRules(rows)
    /\ ca_scope_mutable(rows[i], scope) /\ ca_scope_creatable(text, scope)
    /\ name # rows[i].name => get_by_scope_and_name(name) = {}
    /\ AdmitRule(r, [pc |-> "update", scope |-> scope, id |-> i, seen |-> rows[i],
                 rule |-> [name |-> name, ca |-> text, enabled |-> enabled, ok |-> TRUE]])

RuleDeleteCheck(r, scope, i) ==
    /\ i \in LiveRules(rows) /\ ca_scope_mutable(rows[i], scope)
    /\ AdmitRule(r, [pc |-> "delete", scope |-> scope, id |-> i, seen |-> rows[i]])

(* The statements.  The unique index on live names refuses a second row    *)
(* although both requests found the name free.                             *)
insert_rule(r) ==
    /\ act[r].pc = "insert"
    /\ IF get_by_scope_and_name(act[r].rule.name) = {}
       THEN \E i \in {j \in RuleIds : rows[j] = None /\ mem[j] = None} :
              /\ rows' = [rows EXCEPT ![i] = act[r].rule]
              /\ act' = [act EXCEPT ![r] = [pc |-> "hook", id |-> i, value |-> act[r].rule]]
       ELSE /\ act' = [act EXCEPT ![r] = Idle]
            /\ rows' = rows
    /\ UNCHANGED <<scenario, mem, engine, needed, holder, spent, foreign>>

(* A scoped operator's write to a row that is not wholly its CA's, and     *)
(* whether the row is still the one the request tested.                    *)
Trespass(r) ==
    IF act[r].scope = NoScope \/ rows[act[r].id].ca = {act[r].scope} THEN {}
    ELSE {[scope |-> act[r].scope, stale |-> rows[act[r].id] # act[r].seen]}

update_rule(r) ==
    LET i == act[r].id IN
    /\ act[r].pc = "update"
    /\ IF i \in LiveRules(rows) /\ get_by_scope_and_name(act[r].rule.name) \subseteq {i}
       THEN /\ rows' = [rows EXCEPT ![i] = act[r].rule]
            /\ foreign' = foreign \union Trespass(r)
            /\ act' = [act EXCEPT ![r] = [pc |-> "hook", id |-> i, value |-> act[r].rule]]
       ELSE act' = [act EXCEPT ![r] = Idle] /\ UNCHANGED <<rows, foreign>>
    /\ UNCHANGED <<scenario, mem, engine, needed, holder, spent>>

delete_rule(r) ==
    LET i == act[r].id IN
    /\ act[r].pc = "delete"
    /\ IF i \in LiveRules(rows)
       THEN /\ rows' = [rows EXCEPT ![i] = Dead]
            /\ foreign' = foreign \union Trespass(r)
            /\ act' = [act EXCEPT ![r] = [pc |-> "hook", id |-> i, value |-> Dead]]
       ELSE act' = [act EXCEPT ![r] = Idle] /\ UNCHANGED <<rows, foreign>>
    /\ UNCHANGED <<scenario, mem, engine, needed, holder, spent>>

(* on_policy_rule_upsert, on_policy_rule_remove: nothing without gossip.   *)
RuleHook(r) ==
    /\ act[r].pc = "hook"
    /\ mem' = IF scenario.gossip THEN [mem EXCEPT ![act[r].id] = act[r].value] ELSE mem
    /\ act' = [act EXCEPT ![r] = [pc |-> "rebuild"]]
    /\ UNCHANGED <<scenario, rows, engine, needed, holder, spent, foreign>>

-----------------------------------------------------------------------------
(* rebuild_or_defer, rebuild_issuance_policy.                              *)
(* Mutant: the rows are read before the lock is taken.                     *)
MutTakeRebuildLock(x) ==
    /\ act[x].pc = "rebuild"
    /\ IF holder = Nobody THEN holder' = x ELSE holder' = holder
    /\ act' = [act EXCEPT ![x] = [pc |-> "install", build |-> parse_db_rules(rows)]]
    /\ UNCHANGED <<scenario, rows, mem, engine, needed, spent, foreign>>
TakeRebuildLock(x) ==
    /\ act[x].pc = "rebuild" /\ holder = Nobody
    /\ holder' = x
    /\ act' = [act EXCEPT ![x] = [pc |-> "load"]]
    /\ UNCHANGED <<scenario, rows, mem, engine, needed, spent, foreign>>

LoadRules(x) ==
    /\ act[x].pc = "load"
    /\ ~(scenario.enforce /\ Corrupt(rows) # {})
    /\ act' = [act EXCEPT ![x] = [pc |-> "install", build |-> parse_db_rules(rows)]]
    /\ UNCHANGED <<scenario, rows, mem, engine, needed, holder, spent, foreign>>

(* A database error or, when enforcing, a corrupt rule: deferred.          *)
LoadFails(x) ==
    /\ act[x].pc = "load"
    /\ needed' = TRUE /\ holder' = Nobody
    /\ act' = [act EXCEPT ![x] = Idle]
    /\ UNCHANGED <<scenario, rows, mem, engine, spent, foreign>>

InstallRules(x) ==
    /\ act[x].pc = "install"
    /\ engine' = act[x].build
    /\ holder' = Nobody
    /\ act' = [act EXCEPT ![x] = Idle]
    /\ UNCHANGED <<scenario, rows, mem, needed, spent, foreign>>

-----------------------------------------------------------------------------
(* Gossip.  The loop retries a deferred rebuild, persists a clone of the   *)
(* CRDT now and then, and after a merge that changed rules persists and    *)
(* rebuilds.  A peer's push is merged by a handler that does neither.      *)
RetryRebuild ==
    /\ act[Gossip].pc = "idle" /\ needed
    /\ scenario.gossip
    /\ needed' = FALSE
    /\ act' = [act EXCEPT ![Gossip] = [pc |-> "rebuild"]]
    /\ UNCHANGED <<scenario, rows, mem, engine, holder, spent, foreign>>

Received(i, value) ==
    /\ scenario.gossip /\ spent.merges < scenario.merges
    /\ mem[i] # Dead /\ mem[i] # value
    /\ spent' = [spent EXCEPT !.merges = @ + 1]
    /\ mem' = [mem EXCEPT ![i] = value]

LoopMerge(i, value) ==
    /\ act[Gossip].pc = "idle" /\ Received(i, value)
    /\ act' = [act EXCEPT ![Gossip] = [pc |-> "clone", rebuild |-> TRUE]]
    /\ UNCHANGED <<scenario, rows, engine, needed, holder, foreign>>

post_gossip_sync(i, value) ==
    /\ Received(i, value)
    /\ UNCHANGED <<scenario, rows, engine, needed, holder, act, foreign>>

PeriodicPersist ==
    /\ act[Gossip].pc = "idle" /\ scenario.gossip
    /\ \E i \in RuleIds : mem[i] # None /\ mem[i] # rows[i]
    /\ act' = [act EXCEPT ![Gossip] = [pc |-> "clone", rebuild |-> FALSE]]
    /\ UNCHANGED <<scenario, rows, mem, engine, needed, holder, spent, foreign>>

CloneCrdt ==
    /\ act[Gossip].pc = "clone"
    /\ act' = [act EXCEPT ![Gossip] = [pc |-> "persist", rebuild |-> act[Gossip].rebuild,
                                       snap |-> mem]]
    /\ UNCHANGED <<scenario, rows, mem, engine, needed, holder, spent, foreign>>

(* persist_crdt_acme: every entry is written over its row; a live entry    *)
(* evicts rows of the same name, so of two that share one the last written *)
(* survives.  The order of the entries is not specified.                   *)
Persisted(snap, table, lost) ==
    [i \in RuleIds |->
        IF \/ i \in lost
           \/ snap[i] = None /\ i \in LiveRules(table)
              /\ \E j \in LiveRules(snap) : snap[j].name = table[i].name
        THEN None
        ELSE IF snap[i] = None THEN table[i] ELSE snap[i]]

Losers(snap) ==
    {lost \in SUBSET LiveRules(snap) :
        /\ \A i, j \in LiveRules(snap) \ lost : snap[i].name = snap[j].name => i = j
        /\ \A i \in lost : \E j \in LiveRules(snap) \ lost : snap[i].name = snap[j].name}

persist_crdt_acme ==
    LET g == act[Gossip] IN
    /\ g.pc = "persist"
    /\ \E lost \in Losers(g.snap) : rows' = Persisted(g.snap, rows, lost)
    /\ act' = [act EXCEPT ![Gossip] = IF g.rebuild THEN [pc |-> "rebuild"] ELSE Idle]
    /\ UNCHANGED <<scenario, mem, engine, needed, holder, spent, foreign>>

PersistFails ==
    /\ act[Gossip].pc = "persist"
    /\ act' = [act EXCEPT ![Gossip] = Idle]
    /\ UNCHANGED <<scenario, rows, mem, engine, needed, holder, spent, foreign>>

PolicyNext ==
    \/ \E r \in RuleSlots :
         \/ \E scope \in RuleCAs \union {NoScope} :
              \/ \E name \in RuleNames, text \in RuleTexts, en \in BOOLEAN :
                   \/ RulePostCheck(r, scope, name, text, en)
                   \/ \E i \in RuleIds : RulePutCheck(r, scope, i, name, text, en)
              \/ \E i \in RuleIds : RuleDeleteCheck(r, scope, i)
         \/ insert_rule(r) \/ update_rule(r) \/ delete_rule(r) \/ RuleHook(r)
    \/ \E x \in Actors : TakeRebuildLock(x) \/ LoadRules(x) \/ LoadFails(x) \/ InstallRules(x)
    \/ \E i \in RuleIds, value \in PeerRules \union {Dead} :
         LoopMerge(i, value) \/ post_gossip_sync(i, value)
    \/ RetryRebuild \/ PeriodicPersist \/ CloneCrdt \/ persist_crdt_acme \/ PersistFails

PolicySpec == PolicyInit /\ [][PolicyNext]_policyVars

-----------------------------------------------------------------------------
Rebuilding == {x \in Actors : act[x].pc \in {"hook", "rebuild", "load", "install"}}
EngineCurrent == engine = parse_db_rules(rows)

(* On a single node, once every request has been answered and no rebuild   *)
(* has been deferred the engine enforces exactly the enabled rows: a       *)
(* rebuild that read older rows never installs them over newer ones        *)
(* (policy_rebuild_lock, rebuild_or_defer).                                *)
EngineFollowsRules ==
    ~scenario.gossip => EngineCurrent \/ needed \/ Rebuilding # {}

(* No two live rules share a name, however creations, renamings and        *)
(* replicated rules interleave (post_policy_rule, put_policy_rule,         *)
(* persist_crdt_acme).                                                     *)
RuleNamesUnique ==
    \A i, j \in LiveRules(rows) : rows[i].name = rows[j].name => i = j

(* A request of a CA-scoped operator writes over or deletes a rule outside *)
(* its CA only if the rule changed between the test and the statement      *)
(* (put_policy_rule, delete_policy_rule).                                  *)
ScopedRuleWrites == \A w \in foreign : w.stale

(* The engine enforces the rules in the table, which were written within    *)
(* their writers' scopes, although changes and rebuilds overlap.            *)
RulesEnforced == EngineFollowsRules /\ RuleNamesUnique /\ ScopedRuleWrites
=============================================================================
