---------------------------- MODULE AdminProofs ----------------------------
(***************************************************************************)
(* The administration plane, for any number of rules, requests, accounts,  *)
(* delegations and operators.                                              *)
(*                                                                         *)
(* Policy rules: the rebuild lock is held by the one actor that has loaded *)
(* the rows and not installed them (LockHeld), so whoever changes the rows *)
(* after that load is still before its own rebuild when the older build is *)
(* installed (BuildsCurrent).  A request for an update or a deletion       *)
(* carries the row its scope was tested on (Tested).                       *)
(*                                                                         *)
(* Resource handlers, and the audit trail: see their sections below.       *)
(***************************************************************************)
EXTENDS PolicyRules, AdminApi, AuditLog, FiniteSetTheorems, SequenceTheorems, WellFoundedInduction, TLAPS

-----------------------------------------------------------------------------
(* Policy rules.                                                           *)
PolicyShape ==
    /\ rows = [i \in RuleIds |-> rows[i]]
    /\ act = [x \in Actors |-> act[x]]
LockHeld == \A x \in Actors : act[x].pc \in {"load", "install"} => holder = x
GossipOff == ~scenario.gossip => act[Gossip].pc = "idle"
Pending == {x \in Actors : act[x].pc \in {"hook", "rebuild"}}
BuildsCurrent ==
    ~scenario.gossip =>
        \A x \in Actors : act[x].pc = "install" => act[x].build = parse_db_rules(rows) \/ Pending # {}
Tested ==
    \A r \in RuleSlots : act[r].pc \in {"update", "delete"} =>
        act[r].id \in RuleIds /\ (act[r].scope = NoScope \/ act[r].seen.ca = {act[r].scope})
PolicyInv ==
    /\ PolicyShape /\ LockHeld /\ GossipOff /\ BuildsCurrent /\ Tested
    /\ EngineFollowsRules /\ RuleNamesUnique /\ ScopedRuleWrites

(* A step of actor x that leaves the rows, the engine and the lock alone,  *)
(* and does not take x out of a rebuild.                                   *)
LEMMA QuietStep ==
    ASSUME PolicyInv, NEW x \in Actors, NEW v,
           act' = [act EXCEPT ![x] = v],
           UNCHANGED <<scenario, rows, engine, holder, foreign>>,
           needed => needed' \/ scenario.gossip,
           v.pc \notin {"load", "install"},
           x = Gossip => v.pc = "idle" \/ scenario.gossip,
           x \in RuleSlots /\ v.pc \in {"update", "delete"} =>
               v.id \in RuleIds /\ (v.scope = NoScope \/ v.seen.ca = {v.scope}),
           \/ act[x].pc \notin {"hook", "rebuild", "load", "install"}
           \/ scenario.gossip
           \/ v.pc \in {"hook", "rebuild"}
    PROVE  PolicyInv'
<1> USE DEF PolicyInv, PolicyShape
<1>1. /\ act'[x] = v
      /\ \A y \in Actors : y # x => act'[y] = act[y]
      /\ act' = [y \in Actors |-> act'[y]]
  OBVIOUS
<1>2. PolicyShape'
  BY <1>1
<1>3. LockHeld'
  BY <1>1 DEF LockHeld
<1>4. GossipOff'
  BY <1>1 DEF GossipOff, Actors
<1>5. ~scenario.gossip => Pending \subseteq Pending' /\ Rebuilding \subseteq Rebuilding'
  <2> SUFFICES ASSUME ~scenario.gossip, NEW y \in Actors
               PROVE  /\ y \in Pending => y \in Pending'
                      /\ y \in Rebuilding => y \in Rebuilding'
    BY DEF Pending, Rebuilding
  <2>1. CASE y = x
    BY <2>1, <1>1 DEF Pending, Rebuilding
  <2>2. CASE y # x
    BY <2>2, <1>1 DEF Pending, Rebuilding
  <2> QED BY <2>1, <2>2
<1>6. parse_db_rules(rows)' = parse_db_rules(rows) /\ LiveRules(rows)' = LiveRules(rows)
  BY DEF parse_db_rules, LiveRules
<1>7. BuildsCurrent'
  <2> SUFFICES ASSUME ~scenario.gossip, NEW y \in Actors, act'[y].pc = "install"
               PROVE  act'[y].build = parse_db_rules(rows)' \/ Pending' # {}
    BY DEF BuildsCurrent
  <2>1. y # x
    BY <1>1
  <2> QED BY <2>1, <1>1, <1>5, <1>6 DEF BuildsCurrent
<1>8. EngineFollowsRules'
  BY <1>5, <1>6 DEF EngineFollowsRules, EngineCurrent
<1>9. Tested'
  <2> SUFFICES ASSUME NEW r \in RuleSlots, act'[r].pc \in {"update", "delete"}
               PROVE  act'[r].id \in RuleIds /\ (act'[r].scope = NoScope \/ act'[r].seen.ca = {act'[r].scope})
    BY DEF Tested
  <2>1. CASE r = x
    BY <2>1, <1>1
  <2>2. CASE r # x
    BY <2>2, <1>1 DEF Tested, Actors
  <2> QED BY <2>1, <2>2
<1>10. RuleNamesUnique' /\ ScopedRuleWrites'
  BY <1>6 DEF RuleNamesUnique, ScopedRuleWrites
<1> QED BY <1>2, <1>3, <1>4, <1>7, <1>8, <1>9, <1>10

(* A statement on the rows: the request goes on to its hook, so that       *)
(* whatever the rows are now, its own rebuild is to come.                  *)
LEMMA WriteStep ==
    ASSUME PolicyInv, NEW r \in RuleSlots, NEW v,
           act' = [act EXCEPT ![r] = v], v.pc = "hook",
           act[r].pc \in {"insert", "update", "delete"},
           rows' = [i \in RuleIds |-> rows'[i]],
           UNCHANGED <<scenario, engine, holder>>,
           RuleNamesUnique', ScopedRuleWrites'
    PROVE  PolicyInv'
<1> USE DEF PolicyInv, PolicyShape
<1>0. r \in Actors
  BY DEF Actors
<1>1. /\ act'[r] = v
      /\ \A y \in Actors : y # r => act'[y] = act[y]
      /\ act' = [y \in Actors |-> act'[y]]
  BY <1>0
<1>2. LockHeld'
  BY <1>1 DEF LockHeld
<1>3. GossipOff'
  BY <1>1, PolicyRulesAssumption DEF GossipOff, Actors
<1>4. r \in Pending' /\ r \in Rebuilding'
  BY <1>0, <1>1 DEF Pending, Rebuilding
<1>5. BuildsCurrent' /\ EngineFollowsRules'
  BY <1>4 DEF BuildsCurrent, EngineFollowsRules
<1>6. Tested'
  BY <1>1 DEF Tested, Actors
<1> QED BY <1>1, <1>2, <1>3, <1>5, <1>6

LEMMA PolicyInitInv == PolicyInit => PolicyInv
<1> SUFFICES ASSUME PolicyInit PROVE PolicyInv
  OBVIOUS
<1>1. PolicyShape /\ \A x \in Actors : act[x].pc = "idle"
  BY DEF PolicyInit, PolicyShape, Idle
<1>2. LockHeld /\ GossipOff /\ BuildsCurrent
  BY <1>1 DEF LockHeld, GossipOff, BuildsCurrent, Actors
<1>3. Tested
  BY <1>1 DEF Tested, Actors
<1>4. EngineFollowsRules /\ ScopedRuleWrites
  BY DEF PolicyInit, EngineFollowsRules, EngineCurrent, ScopedRuleWrites
<1>5. RuleNamesUnique
  BY DEF PolicyInit, RuleNamesUnique, LiveRules
<1> QED BY <1>1, <1>2, <1>3, <1>4, <1>5 DEF PolicyInv

(* The requests' tests.                                                    *)
LEMMA AdmitKeeps ==
    ASSUME PolicyInv, NEW r \in RuleSlots, NEW v, AdmitRule(r, v),
           v.pc \in {"insert", "update", "delete"},
           v.pc \in {"update", "delete"} =>
               v.id \in RuleIds /\ (v.scope = NoScope \/ v.seen.ca = {v.scope})
    PROVE  PolicyInv'
<1>1. /\ r \in Actors /\ r # Gossip
      /\ act[r].pc = "idle" /\ act' = [act EXCEPT ![r] = v]
      /\ UNCHANGED <<scenario, rows, mem, engine, needed, holder, foreign>>
  BY PolicyRulesAssumption DEF AdmitRule, Actors
<1> QED BY <1>1, QuietStep

LEMMA ChecksKeep ==
    ASSUME PolicyInv, NEW r \in RuleSlots, NEW scope,
           \/ \E name, text, enabled : RulePostCheck(r, scope, name, text, enabled)
           \/ \E i \in RuleIds : \E name, text, enabled : RulePutCheck(r, scope, i, name, text, enabled)
           \/ \E i \in RuleIds : RuleDeleteCheck(r, scope, i)
    PROVE  PolicyInv'
<1>1. CASE \E name, text, enabled : RulePostCheck(r, scope, name, text, enabled)
  <2> PICK name, text, enabled : RulePostCheck(r, scope, name, text, enabled)
    BY <1>1
  <2> DEFINE v == [pc |-> "insert", scope |-> scope,
                   rule |-> [name |-> name, ca |-> text, enabled |-> enabled, ok |-> TRUE]]
  <2>1. AdmitRule(r, v) /\ v.pc = "insert"
    BY DEF RulePostCheck
  <2> HIDE DEF v
  <2> QED BY <2>1, AdmitKeeps
<1>2. CASE \E i \in RuleIds : \E name, text, enabled : RulePutCheck(r, scope, i, name, text, enabled)
  <2> PICK i \in RuleIds : \E name, text, enabled : RulePutCheck(r, scope, i, name, text, enabled)
    BY <1>2
  <2> PICK name, text, enabled : RulePutCheck(r, scope, i, name, text, enabled)
    OBVIOUS
  <2> DEFINE v == [pc |-> "update", scope |-> scope, id |-> i, seen |-> rows[i],
                   rule |-> [name |-> name, ca |-> text, enabled |-> enabled, ok |-> TRUE]]
  <2>1. AdmitRule(r, v)
    BY DEF RulePutCheck
  <2>2. v.pc = "update" /\ v.id = i /\ v.scope = scope /\ v.seen = rows[i]
    OBVIOUS
  <2>3. scope = NoScope \/ rows[i].ca = {scope}
    BY DEF RulePutCheck, ca_scope_mutable
  <2> HIDE DEF v
  <2> QED BY <2>1, <2>2, <2>3, AdmitKeeps
<1>3. CASE \E i \in RuleIds : RuleDeleteCheck(r, scope, i)
  <2> PICK i \in RuleIds : RuleDeleteCheck(r, scope, i)
    BY <1>3
  <2> DEFINE v == [pc |-> "delete", scope |-> scope, id |-> i, seen |-> rows[i]]
  <2>1. AdmitRule(r, v)
    BY DEF RuleDeleteCheck
  <2>2. v.pc = "delete" /\ v.id = i /\ v.scope = scope /\ v.seen = rows[i]
    OBVIOUS
  <2>3. scope = NoScope \/ rows[i].ca = {scope}
    BY DEF RuleDeleteCheck, ca_scope_mutable
  <2> HIDE DEF v
  <2> QED BY <2>1, <2>2, <2>3, AdmitKeeps
<1> QED BY <1>1, <1>2, <1>3

(* The statements.  A request refused by the index or by a missing row is  *)
(* over.                                                                   *)
LEMMA RefusedKeeps ==
    ASSUME PolicyInv, NEW r \in RuleSlots,
           act[r].pc \in {"insert", "update", "delete"},
           act' = [act EXCEPT ![r] = Idle],
           UNCHANGED <<scenario, rows, engine, needed, holder, foreign>>
    PROVE  PolicyInv'
<1>1. r \in Actors /\ r # Gossip /\ Idle.pc = "idle"
  BY PolicyRulesAssumption DEF Actors, Idle
<1> QED BY <1>1, QuietStep

LEMMA InsertKeeps ==
    ASSUME PolicyInv, NEW r \in RuleSlots, insert_rule(r)
    PROVE  PolicyInv'
<1> DEFINE name == act[r].rule.name
<1>1. act[r].pc = "insert" /\ UNCHANGED <<scenario, mem, engine, needed, holder, spent, foreign>>
  BY DEF insert_rule
<1>2. CASE get_by_scope_and_name(name) = {}
  <2> PICK i \in RuleIds :
           /\ rows' = [rows EXCEPT ![i] = act[r].rule]
           /\ act' = [act EXCEPT ![r] = [pc |-> "hook", id |-> i, value |-> act[r].rule]]
    BY <1>2 DEF insert_rule
  <2>1. /\ rows' = [j \in RuleIds |-> rows'[j]] /\ rows'[i] = act[r].rule
        /\ \A j \in RuleIds : j # i => rows'[j] = rows[j]
    BY DEF PolicyInv, PolicyShape
  <2>2. RuleNamesUnique'
    <3> SUFFICES ASSUME NEW j \in LiveRules(rows'), NEW k \in LiveRules(rows'),
                        rows'[j].name = rows'[k].name
                 PROVE  j = k
      BY DEF RuleNamesUnique
    <3>1. \A l \in LiveRules(rows') : l \in RuleIds /\ (l # i => l \in LiveRules(rows))
      BY <2>1 DEF LiveRules
    <3>2. \A l \in LiveRules(rows') : l # i => rows'[l].name # name
      BY <3>1, <2>1, <1>2 DEF get_by_scope_and_name
    <3> QED BY <2>1, <3>1, <3>2 DEF PolicyInv, RuleNamesUnique
  <2>3. ScopedRuleWrites'
    BY <1>1 DEF PolicyInv, ScopedRuleWrites
  <2> DEFINE v == [pc |-> "hook", id |-> i, value |-> act[r].rule]
  <2>4. v.pc = "hook" /\ act' = [act EXCEPT ![r] = v]
    OBVIOUS
  <2> HIDE DEF v
  <2> QED BY <1>1, <2>1, <2>2, <2>3, <2>4, WriteStep
<1>3. CASE get_by_scope_and_name(name) # {}
  <2>1. act' = [act EXCEPT ![r] = Idle] /\ rows' = rows
    BY <1>3 DEF insert_rule
  <2> QED BY <1>1, <2>1, RefusedKeeps
<1> QED BY <1>2, <1>3

(* A write is out of its scope only if the row is not the one tested.      *)
LEMMA TrespassIsStale ==
    ASSUME PolicyInv, NEW r \in RuleSlots, act[r].pc \in {"update", "delete"},
           foreign' = foreign \union Trespass(r)
    PROVE  ScopedRuleWrites'
<1>1. act[r].scope = NoScope \/ act[r].seen.ca = {act[r].scope}
  BY DEF PolicyInv, Tested
<1>2. ASSUME NEW w \in Trespass(r) PROVE w.stale
  <2>1. act[r].scope # NoScope /\ rows[act[r].id].ca # {act[r].scope}
        /\ w = [scope |-> act[r].scope, stale |-> rows[act[r].id] # act[r].seen]
    BY DEF Trespass
  <2>2. rows[act[r].id] # act[r].seen
    BY <2>1, <1>1
  <2> QED BY <2>1, <2>2
<1> QED BY <1>2 DEF PolicyInv, ScopedRuleWrites

LEMMA UpdateKeeps ==
    ASSUME PolicyInv, NEW r \in RuleSlots, update_rule(r)
    PROVE  PolicyInv'
<1> DEFINE i == act[r].id
           written == i \in LiveRules(rows) /\ get_by_scope_and_name(act[r].rule.name) \subseteq {i}
<1>1. act[r].pc = "update" /\ UNCHANGED <<scenario, mem, engine, needed, holder, spent>>
  BY DEF update_rule
<1>2. CASE written
  <2> PICK k, x : k = i /\ x = act[r].rule
    OBVIOUS
  <2>1. /\ rows' = [rows EXCEPT ![k] = x] /\ foreign' = foreign \union Trespass(r)
        /\ act' = [act EXCEPT ![r] = [pc |-> "hook", id |-> k, value |-> x]]
        /\ k \in RuleIds /\ get_by_scope_and_name(x.name) \subseteq {k}
    BY <1>2 DEF update_rule, LiveRules
  <2>2. /\ rows' = [j \in RuleIds |-> rows'[j]] /\ rows'[k] = x
        /\ \A j \in RuleIds : j # k => rows'[j] = rows[j]
    BY <2>1 DEF PolicyInv, PolicyShape
  <2>3. RuleNamesUnique'
    <3> SUFFICES ASSUME NEW j \in LiveRules(rows'), NEW l \in LiveRules(rows'),
                        rows'[j].name = rows'[l].name
                 PROVE  j = l
      BY DEF RuleNamesUnique
    <3>1. \A m \in LiveRules(rows') : m \in RuleIds /\ (m # k => m \in LiveRules(rows))
      BY <2>2 DEF LiveRules
    <3>2. \A m \in LiveRules(rows') : m # k => rows'[m].name # x.name
      BY <3>1, <2>1, <2>2 DEF get_by_scope_and_name
    <3> QED BY <2>2, <3>1, <3>2 DEF PolicyInv, RuleNamesUnique
  <2>4. ScopedRuleWrites'
    BY <1>1, <2>1, TrespassIsStale
  <2> DEFINE v == [pc |-> "hook", id |-> k, value |-> x]
  <2>5. v.pc = "hook" /\ act' = [act EXCEPT ![r] = v]
    BY <2>1
  <2> HIDE DEF v
  <2> QED BY <1>1, <2>2, <2>3, <2>4, <2>5, WriteStep
<1>3. CASE ~written
  <2>1. act' = [act EXCEPT ![r] = Idle] /\ UNCHANGED <<rows, foreign>>
    BY <1>3 DEF update_rule
  <2> QED BY <1>1, <2>1, RefusedKeeps
<1> QED BY <1>2, <1>3

LEMMA DeleteKeeps ==
    ASSUME PolicyInv, NEW r \in RuleSlots, delete_rule(r)
    PROVE  PolicyInv'
<1>1. act[r].pc = "delete" /\ UNCHANGED <<scenario, mem, engine, needed, holder, spent>>
  BY DEF delete_rule
<1>2. CASE act[r].id \in LiveRules(rows)
  <2> PICK k : k = act[r].id
    OBVIOUS
  <2>1. /\ rows' = [rows EXCEPT ![k] = Dead] /\ foreign' = foreign \union Trespass(r)
        /\ act' = [act EXCEPT ![r] = [pc |-> "hook", id |-> k, value |-> Dead]]
        /\ k \in RuleIds
    BY <1>2 DEF delete_rule, LiveRules
  <2>2. /\ rows' = [j \in RuleIds |-> rows'[j]] /\ rows'[k] = Dead
        /\ \A j \in RuleIds : j # k => rows'[j] = rows[j]
    BY <2>1 DEF PolicyInv, PolicyShape
  <2>3. \A j \in LiveRules(rows') : j \in LiveRules(rows) /\ rows'[j] = rows[j]
    BY <2>2 DEF LiveRules
  <2>4. RuleNamesUnique'
    BY <2>3 DEF PolicyInv, RuleNamesUnique
  <2>5. ScopedRuleWrites'
    BY <1>1, <2>1, TrespassIsStale
  <2> DEFINE v == [pc |-> "hook", id |-> k, value |-> Dead]
  <2>6. v.pc = "hook" /\ act' = [act EXCEPT ![r] = v]
    BY <2>1
  <2> HIDE DEF v
  <2> QED BY <1>1, <2>2, <2>4, <2>5, <2>6, WriteStep
<1>3. CASE act[r].id \notin LiveRules(rows)
  <2>1. act' = [act EXCEPT ![r] = Idle] /\ UNCHANGED <<rows, foreign>>
    BY <1>3 DEF delete_rule
  <2> QED BY <1>1, <2>1, RefusedKeeps
<1> QED BY <1>2, <1>3

LEMMA HookKeeps ==
    ASSUME PolicyInv, NEW r \in RuleSlots, RuleHook(r)
    PROVE  PolicyInv'
<1> DEFINE v == [pc |-> "rebuild"]
<1>1. /\ r \in Actors /\ r # Gossip /\ v.pc = "rebuild"
      /\ act[r].pc = "hook" /\ act' = [act EXCEPT ![r] = v]
      /\ UNCHANGED <<scenario, rows, engine, needed, holder, foreign>>
  BY PolicyRulesAssumption DEF RuleHook, Actors
<1> HIDE DEF v
<1> QED BY <1>1, QuietStep

-----------------------------------------------------------------------------
(* A rebuild.  While its holder is between the load and the installation   *)
(* nobody else is.                                                         *)
LEMMA LockExcludes ==
    ASSUME PolicyInv, NEW x \in Actors, holder = x \/ holder = Nobody
    PROVE  \A y \in Actors \ {x} : act[y].pc \notin {"load", "install"}
BY PolicyRulesAssumption DEF PolicyInv, LockHeld, Actors

LEMMA RebuildKeeps ==
    ASSUME PolicyInv, NEW x \in Actors,
           TakeRebuildLock(x) \/ LoadRules(x) \/ LoadFails(x) \/ InstallRules(x)
    PROVE  PolicyInv'
<1> USE DEF PolicyInv, PolicyShape
<1>1. PICK v :
        /\ act' = [act EXCEPT ![x] = v]
        /\ UNCHANGED <<scenario, rows, mem, spent, foreign>>
        /\ v.pc \in {"idle", "load", "install"}
        /\ v.pc # "idle" => holder' = x
        /\ v.pc = "install" => v.build = parse_db_rules(rows)
        /\ act[x].pc \in {"rebuild", "load", "install"}
        /\ holder = x \/ holder = Nobody
        /\ v.pc = "idle" => \/ needed'
                            \/ act[x].pc = "install" /\ engine' = act[x].build
  <2>1. CASE TakeRebuildLock(x)
    <3> WITNESS [pc |-> "load"]
    <3> QED BY <2>1 DEF TakeRebuildLock
  <2>2. CASE LoadRules(x)
    <3>1. holder = x
      BY <2>2 DEF LoadRules, LockHeld
    <3> WITNESS [pc |-> "install", build |-> parse_db_rules(rows)]
    <3> QED BY <2>2, <3>1 DEF LoadRules
  <2>3. CASE LoadFails(x)
    <3>1. holder = x
      BY <2>3 DEF LoadFails, LockHeld
    <3> WITNESS Idle
    <3> QED BY <2>3, <3>1 DEF LoadFails, Idle
  <2>4. CASE InstallRules(x)
    <3>1. holder = x
      BY <2>4 DEF InstallRules, LockHeld
    <3> WITNESS Idle
    <3> QED BY <2>4, <3>1 DEF InstallRules, Idle
  <2> QED BY <2>1, <2>2, <2>3, <2>4
<1>2. /\ act'[x] = v
      /\ \A y \in Actors : y # x => act'[y] = act[y]
      /\ act' = [y \in Actors |-> act'[y]]
  BY <1>1
<1>3. \A y \in Actors \ {x} : act[y].pc \notin {"load", "install"}
  BY <1>1, LockExcludes
<1>4. PolicyShape' /\ LockHeld'
  BY <1>1, <1>2, <1>3 DEF LockHeld
<1>5. GossipOff'
  BY <1>1, <1>2 DEF GossipOff, Actors
<1>6. parse_db_rules(rows)' = parse_db_rules(rows) /\ LiveRules(rows)' = LiveRules(rows)
  BY <1>1 DEF parse_db_rules, LiveRules
<1>7. BuildsCurrent'
  BY <1>1, <1>2, <1>3, <1>6 DEF BuildsCurrent
<1>8. Tested'
  BY <1>1, <1>2 DEF Tested, Actors
<1>9. RuleNamesUnique' /\ ScopedRuleWrites'
  BY <1>1, <1>6 DEF RuleNamesUnique, ScopedRuleWrites
<1>10. EngineFollowsRules'
  <2> SUFFICES ASSUME ~scenario.gossip PROVE EngineCurrent' \/ needed' \/ Rebuilding' # {}
    BY <1>1 DEF EngineFollowsRules
  <2>1. CASE v.pc # "idle"
    <3>1. x \in Rebuilding'
      BY <2>1, <1>1, <1>2 DEF Rebuilding
    <3> QED BY <3>1
  <2>2. CASE v.pc = "idle" /\ act[x].pc = "install" /\ engine' = act[x].build
    <3>1. CASE act[x].build = parse_db_rules(rows)
      BY <2>2, <3>1, <1>6 DEF EngineCurrent
    <3>2. CASE Pending # {}
      <4> PICK y \in Actors : act[y].pc \in {"hook", "rebuild"}
        BY <3>2 DEF Pending
      <4>1. y \in Rebuilding'
        BY <2>2, <1>2 DEF Rebuilding
      <4> QED BY <4>1
    <3> QED BY <2>2, <3>1, <3>2 DEF BuildsCurrent
  <2> QED BY <1>1, <2>1, <2>2
<1> QED BY <1>4, <1>5, <1>7, <1>8, <1>9, <1>10

-----------------------------------------------------------------------------
(* The gossip loop.                                                        *)
LEMMA LoopKeeps ==
    ASSUME PolicyInv,
           \/ RetryRebuild \/ PeriodicPersist \/ CloneCrdt \/ PersistFails
           \/ \E i, value : LoopMerge(i, value)
    PROVE  PolicyInv'
<1>1. Gossip \in Actors /\ Gossip \notin RuleSlots
  BY PolicyRulesAssumption DEF Actors
<1>2. PICK v : /\ act' = [act EXCEPT ![Gossip] = v]
               /\ v.pc \in {"idle", "rebuild", "clone", "persist"}
               /\ scenario.gossip
               /\ UNCHANGED <<scenario, rows, engine, holder, foreign>>
  <2>1. CASE RetryRebuild
    <3> WITNESS [pc |-> "rebuild"]
    <3> QED BY <2>1 DEF RetryRebuild
  <2>2. CASE PeriodicPersist
    <3> WITNESS [pc |-> "clone", rebuild |-> FALSE]
    <3> QED BY <2>2 DEF PeriodicPersist
  <2>3. CASE CloneCrdt
    <3>1. scenario.gossip
      BY <2>3 DEF CloneCrdt, PolicyInv, GossipOff
    <3> WITNESS [pc |-> "persist", rebuild |-> act[Gossip].rebuild, snap |-> mem]
    <3> QED BY <2>3, <3>1 DEF CloneCrdt
  <2>4. CASE PersistFails
    <3>1. scenario.gossip
      BY <2>4 DEF PersistFails, PolicyInv, GossipOff
    <3> WITNESS Idle
    <3> QED BY <2>4, <3>1 DEF PersistFails, Idle
  <2>5. CASE \E i, value : LoopMerge(i, value)
    <3> WITNESS [pc |-> "clone", rebuild |-> TRUE]
    <3> QED BY <2>5 DEF LoopMerge, Received
  <2> QED BY <2>1, <2>2, <2>3, <2>4, <2>5
<1> QED BY <1>1, <1>2, QuietStep

LEMMA SyncKeeps ==
    ASSUME PolicyInv, UNCHANGED <<scenario, rows, engine, needed, holder, act, foreign>>
    PROVE  PolicyInv'
<1> USE DEF PolicyInv
<1>1. parse_db_rules(rows)' = parse_db_rules(rows) /\ LiveRules(rows)' = LiveRules(rows)
  BY DEF parse_db_rules, LiveRules
<1>2. PolicyShape' /\ LockHeld' /\ GossipOff' /\ Tested'
  BY DEF PolicyShape, LockHeld, GossipOff, Tested
<1>3. Pending' = Pending /\ Rebuilding' = Rebuilding
  BY DEF Pending, Rebuilding
<1>4. BuildsCurrent' /\ EngineFollowsRules'
  BY <1>1, <1>3 DEF BuildsCurrent, EngineFollowsRules, EngineCurrent
<1>5. RuleNamesUnique' /\ ScopedRuleWrites'
  BY <1>1 DEF RuleNamesUnique, ScopedRuleWrites
<1> QED BY <1>2, <1>4, <1>5

(* Writing a replicated set of rules over the table leaves one live row    *)
(* for each name, whichever of the entries that share one is written last. *)
LEMMA PersistedNamesUnique ==
    ASSUME NEW snap, NEW table, NEW gone \in Losers(snap),
           \A i, j \in LiveRules(table) : table[i].name = table[j].name => i = j
    PROVE  \A i, j \in LiveRules(Persisted(snap, table, gone)) :
             Persisted(snap, table, gone)[i].name = Persisted(snap, table, gone)[j].name => i = j
<1> PICK new : new = Persisted(snap, table, gone)
  OBVIOUS
<1> DEFINE Own(i) == i \in LiveRules(snap) \ gone /\ new[i] = snap[i]
           Kept(i) == /\ i \in LiveRules(table) /\ new[i] = table[i]
                      /\ \A j \in LiveRules(snap) : snap[j].name # table[i].name
<1>1. \A i \in LiveRules(new) : Own(i) \/ Kept(i)
  <2> SUFFICES ASSUME NEW i \in RuleIds, new[i] \notin {None, Dead} PROVE Own(i) \/ Kept(i)
    BY DEF LiveRules
  <2>1. i \notin gone /\ new[i] = (IF snap[i] = None THEN table[i] ELSE snap[i])
    BY DEF Persisted
  <2>2. CASE snap[i] = None
    <3>1. i \in LiveRules(table) /\ new[i] = table[i]
      BY <2>1, <2>2 DEF LiveRules
    <3>2. ~ \E j \in LiveRules(snap) : snap[j].name = table[i].name
      BY <3>1, <2>2 DEF Persisted
    <3> QED BY <3>1, <3>2
  <2>3. CASE snap[i] # None
    BY <2>1, <2>3 DEF LiveRules
  <2> QED BY <2>2, <2>3
<1>2. \A i, j \in LiveRules(snap) \ gone : snap[i].name = snap[j].name => i = j
  BY DEF Losers
<1> QED BY <1>1, <1>2

LEMMA PersistKeeps ==
    ASSUME PolicyInv, persist_crdt_acme
    PROVE  PolicyInv'
<1> USE DEF PolicyInv, PolicyShape
<1>1. Gossip \in Actors /\ Gossip \notin RuleSlots /\ scenario.gossip
  BY PolicyRulesAssumption DEF Actors, persist_crdt_acme, GossipOff
<1>2. PICK v : /\ act' = [act EXCEPT ![Gossip] = v]
               /\ v.pc \in {"idle", "rebuild"}
  <2>1. CASE act[Gossip].rebuild
    <3> WITNESS [pc |-> "rebuild"]
    <3> QED BY <2>1 DEF persist_crdt_acme
  <2>2. CASE ~act[Gossip].rebuild
    <3> WITNESS Idle
    <3> QED BY <2>2 DEF persist_crdt_acme, Idle
  <2> QED BY <2>1, <2>2
<1>3. /\ act'[Gossip] = v
      /\ \A y \in Actors : y # Gossip => act'[y] = act[y]
      /\ act' = [y \in Actors |-> act'[y]]
  BY <1>1, <1>2
<1>4. PICK gone \in Losers(act[Gossip].snap) : rows' = Persisted(act[Gossip].snap, rows, gone)
  BY DEF persist_crdt_acme
<1>5. RuleNamesUnique'
  BY <1>4, PersistedNamesUnique DEF RuleNamesUnique
<1>6. PolicyShape'
  BY <1>3, <1>4 DEF Persisted
<1>7. LockHeld' /\ ScopedRuleWrites'
  BY <1>2, <1>3 DEF LockHeld, ScopedRuleWrites, persist_crdt_acme
<1>8. GossipOff' /\ BuildsCurrent' /\ EngineFollowsRules'
  BY <1>1 DEF GossipOff, BuildsCurrent, EngineFollowsRules, persist_crdt_acme
<1>9. Tested'
  BY <1>1, <1>3 DEF Tested, Actors
<1> QED BY <1>5, <1>6, <1>7, <1>8, <1>9

(* The engine enforces the enabled rows once every request is answered and *)
(* none deferred (rebuild_or_defer under policy_rebuild_lock), names stay  *)
(* unique (post_policy_rule, put_policy_rule, persist_crdt_acme), and a    *)
(* CA-scoped operator writes outside its CA only over a row that changed   *)
(* since it was tested.                                                    *)
THEOREM RulesAreEnforced == PolicySpec => []RulesEnforced
<1>1. PolicyInv /\ [PolicyNext]_policyVars => PolicyInv'
  <2> SUFFICES ASSUME PolicyInv, [PolicyNext]_policyVars PROVE PolicyInv'
    OBVIOUS
  <2>1. CASE UNCHANGED policyVars
    BY <2>1, SyncKeeps DEF policyVars
  <2>2. ASSUME NEW r \in RuleSlots, NEW scope \in RuleCAs \union {NoScope},
               \/ \E name \in RuleNames, text \in RuleTexts, en \in BOOLEAN :
                    \/ RulePostCheck(r, scope, name, text, en)
                    \/ \E i \in RuleIds : RulePutCheck(r, scope, i, name, text, en)
               \/ \E i \in RuleIds : RuleDeleteCheck(r, scope, i)
        PROVE  PolicyInv'
    BY <2>2, ChecksKeep
  <2>3. ASSUME NEW r \in RuleSlots, insert_rule(r) \/ update_rule(r) \/ delete_rule(r) \/ RuleHook(r)
        PROVE  PolicyInv'
    BY <2>3, InsertKeeps, UpdateKeeps, DeleteKeeps, HookKeeps
  <2>4. CASE \E x \in Actors : TakeRebuildLock(x) \/ LoadRules(x) \/ LoadFails(x) \/ InstallRules(x)
    BY <2>4, RebuildKeeps
  <2>5. ASSUME NEW i \in RuleIds, NEW value \in PeerRules \union {Dead}, post_gossip_sync(i, value)
        PROVE  PolicyInv'
    BY <2>5, SyncKeeps DEF post_gossip_sync
  <2>6. ASSUME \/ RetryRebuild \/ PeriodicPersist \/ CloneCrdt \/ PersistFails
               \/ \E i \in RuleIds, value \in PeerRules \union {Dead} : LoopMerge(i, value)
        PROVE  PolicyInv'
    BY <2>6, LoopKeeps
  <2>7. CASE persist_crdt_acme
    BY <2>7, PersistKeeps
  <2> QED BY <2>1, <2>2, <2>3, <2>4, <2>5, <2>6, <2>7 DEF PolicyNext
<1>2. PolicyInv => RulesEnforced
  BY DEF PolicyInv, RulesEnforced
<1> QED BY PolicyInitInv, <1>1, <1>2, PTL DEF PolicySpec

-----------------------------------------------------------------------------
(* Accounts, delegations, EAB keys and profiles.                           *)
DelegationInv ==
    /\ delegs = [d \in Delegations |-> delegs[d]]
    /\ \A o \in apiOrders : o.deleg \in Delegations \union {Gone}
    /\ OrdersKeepDelegation
EabInv ==
    /\ eabKeys = [p \in Principals |-> eabKeys[p]]
    /\ consumed = [p \in Principals |-> consumed[p]]
    /\ \A p \in Principals : consumed[p] \in {0, 1} /\ (eabKeys[p] = "fresh" => consumed[p] = 0)
ProfileInv ==
    /\ \A n \in DOMAIN profiles : profiles[n] # CaParams
    /\ ProfileHonoured
ApiInv == DelegationInv /\ EabInv /\ ProfileInv /\ WritesStayHome

(* A write that passed a scope test is in scope.                           *)
LEMMA InScopeWrites ==
    ASSUME WritesStayHome, NEW ctx, NEW route, NEW ca, Touch(ctx, route, ca),
           \/ route \in {"grants.clear", "deactivate"}
           \/ ctx.ca = NoCa \/ ca \in {NoCa, ctx.ca}
    PROVE  WritesStayHome'
BY DEF WritesStayHome, Touch

LEMMA AccountsKeep ==
    ASSUME ApiInv, NEW ctx, NEW a,
           \/ \E g : put_account_profile_grants(ctx, a, g)
           \/ delete_account_profile_grants(ctx, a)
           \/ post_account_deactivate(ctx, a)
    PROVE  ApiInv'
<1>1. UNCHANGED <<delegs, apiOrders, eabKeys, consumed, profiles, issued>>
  BY DEF put_account_profile_grants, delete_account_profile_grants, post_account_deactivate
<1>2. DelegationInv' /\ EabInv' /\ ProfileInv'
  BY <1>1 DEF ApiInv, DelegationInv, EabInv, ProfileInv, OrdersKeepDelegation, ProfileHonoured
<1>3. WritesStayHome'
  <2>1. CASE \E g : put_account_profile_grants(ctx, a, g)
    BY <2>1, InScopeWrites DEF ApiInv, put_account_profile_grants, AccountInScope
  <2>2. CASE delete_account_profile_grants(ctx, a)
    BY <2>2, InScopeWrites DEF ApiInv, delete_account_profile_grants
  <2>3. CASE post_account_deactivate(ctx, a)
    BY <2>3, InScopeWrites DEF ApiInv, post_account_deactivate
  <2> QED BY <2>1, <2>2, <2>3
<1> QED BY <1>2, <1>3 DEF ApiInv

(* An order's delegation is neither deleted nor given away.                *)
LEMMA DelegationsKeep ==
    ASSUME ApiInv, NEW ctx, NEW d \in Delegations,
           \/ \E a : post_delegations(ctx, d, a)
           \/ put_delegation(ctx, d) \/ delete_delegation(ctx, d)
    PROVE  ApiInv'
<1>1. UNCHANGED <<apiOrders, eabKeys, consumed, profiles, issued>>
  BY DEF post_delegations, put_delegation, delete_delegation
<1>2. EabInv' /\ ProfileInv'
  BY <1>1 DEF ApiInv, EabInv, ProfileInv, ProfileHonoured
<1>3. DelegationInv'
  <2>1. CASE put_delegation(ctx, d)
    BY <2>1, <1>1 DEF ApiInv, DelegationInv, OrdersKeepDelegation, put_delegation
  <2>2. CASE \E a : post_delegations(ctx, d, a) \/ delete_delegation(ctx, d)
    <3>1. PICK a : delegs' = [delegs EXCEPT ![d] = a] /\ \A o \in apiOrders : o.deleg # d
      BY <2>2 DEF post_delegations, delete_delegation
    <3>2. /\ delegs' = [e \in Delegations |-> delegs'[e]]
          /\ \A e \in Delegations : e # d => delegs'[e] = delegs[e]
      BY <3>1 DEF ApiInv, DelegationInv
    <3>3. OrdersKeepDelegation'
      BY <1>1, <3>1, <3>2 DEF ApiInv, DelegationInv, OrdersKeepDelegation
    <3> QED BY <1>1, <3>2, <3>3 DEF ApiInv, DelegationInv
  <2> QED BY <2>1, <2>2
<1>4. WritesStayHome'
  <2>1. CASE \E a : post_delegations(ctx, d, a)
    BY <2>1, InScopeWrites DEF ApiInv, post_delegations, AccountInScope
  <2>2. CASE put_delegation(ctx, d)
    BY <2>2, InScopeWrites DEF ApiInv, put_delegation, AccountInScope
  <2>3. CASE delete_delegation(ctx, d)
    BY <2>3, InScopeWrites DEF ApiInv, delete_delegation, AccountInScope
  <2> QED BY <2>1, <2>2, <2>3
<1> QED BY <1>2, <1>3, <1>4 DEF ApiInv

(* A derived key that is there again after a deletion starts afresh.       *)
LEMMA EabKeeps ==
    ASSUME ApiInv, NEW p \in Principals,
           \/ \E ctx : delete_eab(ctx, p) \/ \E own : post_eab(ctx, p, own)
           \/ mark_used(p)
    PROVE  ApiInv'
<1>1. UNCHANGED <<delegs, apiOrders, profiles, issued, trespass>>
  BY DEF delete_eab, post_eab, mark_used
<1>2. DelegationInv' /\ ProfileInv' /\ WritesStayHome'
  BY <1>1 DEF ApiInv, DelegationInv, ProfileInv, OrdersKeepDelegation, ProfileHonoured, WritesStayHome
<1>3. PICK k, c : /\ eabKeys' = [eabKeys EXCEPT ![p] = k]
                  /\ consumed' = [consumed EXCEPT ![p] = c]
                  /\ c \in {0, 1} /\ (k = "fresh" => c = 0)
  <2>1. CASE \E ctx : delete_eab(ctx, p)
    <3>1. consumed' = [consumed EXCEPT ![p] = consumed[p]]
      BY <2>1 DEF ApiInv, EabInv, delete_eab
    <3> WITNESS "absent", consumed[p]
    <3> QED BY <2>1, <3>1 DEF ApiInv, EabInv, delete_eab
  <2>2. CASE \E ctx, own : post_eab(ctx, p, own)
    <3> WITNESS IF eabKeys[p] = "absent" THEN "fresh" ELSE eabKeys[p],
                IF eabKeys[p] = "absent" THEN 0 ELSE consumed[p]
    <3> QED BY <2>2 DEF ApiInv, EabInv, post_eab, insert_if_absent_with_grants
  <2>3. CASE mark_used(p)
    <3>1. consumed[p] = 0
      BY <2>3 DEF ApiInv, EabInv, mark_used
    <3> WITNESS "used", consumed[p] + 1
    <3> QED BY <2>3, <3>1 DEF mark_used
  <2> QED BY <2>1, <2>2, <2>3
<1>4. EabInv'
  BY <1>3 DEF ApiInv, EabInv
<1> QED BY <1>2, <1>4 DEF ApiInv

LEMMA ProfilesKeep ==
    ASSUME ApiInv, NEW name,
           \/ \E ctx : \/ post_profiles(ctx, name) \/ put_profile(ctx, name)
                       \/ delete_profile(ctx, name)
           \/ refresh
    PROVE  ApiInv'
<1>1. UNCHANGED <<delegs, apiOrders, eabKeys, consumed, issued, trespass>>
  BY DEF post_profiles, put_profile, delete_profile, ProfileStep, refresh
<1>2. DelegationInv' /\ EabInv' /\ WritesStayHome' /\ ProfileHonoured'
  BY <1>1 DEF ApiInv, DelegationInv, EabInv, ProfileInv, OrdersKeepDelegation, ProfileHonoured, WritesStayHome
<1>3. \A n \in DOMAIN profiles' : profiles'[n] # CaParams
  <2>1. CASE \E ctx : post_profiles(ctx, name)
    BY <2>1 DEF ApiInv, ProfileInv, post_profiles, ProfileStep, add_profile, CaParams
  <2>2. CASE \E ctx : put_profile(ctx, name)
    BY <2>2 DEF ApiInv, ProfileInv, put_profile, ProfileStep, update_profile, CaParams
  <2>3. CASE \E ctx : delete_profile(ctx, name)
    BY <2>3 DEF ApiInv, ProfileInv, delete_profile, ProfileStep, remove_profile
  <2>4. CASE refresh
    BY <2>4, AdminApiAssumption DEF refresh
  <2> QED BY <2>1, <2>2, <2>3, <2>4
<1> QED BY <1>2, <1>3 DEF ApiInv, ProfileInv

LEMMA NewOrderKeeps ==
    ASSUME ApiInv, NEW a, NEW ca, NEW asked, NEW d \in Delegations \union {Gone},
           new_order(a, ca, asked, d)
    PROVE  ApiInv'
<1>1. UNCHANGED <<delegs, eabKeys, consumed, profiles, issued, trespass>>
  BY DEF new_order
<1>2. EabInv' /\ ProfileInv' /\ WritesStayHome'
  BY <1>1 DEF ApiInv, EabInv, ProfileInv, ProfileHonoured, WritesStayHome
<1>3. PICK o : apiOrders' = apiOrders \union {o} /\ o.deleg = d /\ o.acct = a
  <2> WITNESS [acct |-> a, ca |-> ca, deleg |-> d, profile |-> order_profile(asked)]
  <2> QED BY DEF new_order
<1>4. d # Gone => delegs[d] = a
  BY DEF new_order
<1>5. DelegationInv'
  BY <1>1, <1>3, <1>4 DEF ApiInv, DelegationInv, OrdersKeepDelegation
<1> QED BY <1>2, <1>5 DEF ApiInv

LEMMA FinalizeKeeps ==
    ASSUME ApiInv, NEW o, finalize(o)
    PROVE  ApiInv'
<1>1. UNCHANGED <<delegs, apiOrders, eabKeys, consumed, profiles, trespass>>
  BY DEF finalize
<1>2. DelegationInv' /\ EabInv' /\ WritesStayHome'
  BY <1>1 DEF ApiInv, DelegationInv, EabInv, OrdersKeepDelegation, WritesStayHome
<1>3. PICK i : /\ issued' = issued \union {i} /\ i.profile = o.profile
               /\ i.params = resolve_cert_params(o.profile)
               /\ i.emptied = (DOMAIN profiles = {})
  <2> WITNESS [profile |-> o.profile, params |-> resolve_cert_params(o.profile),
               emptied |-> DOMAIN profiles = {}]
  <2> QED BY DEF finalize
<1>4. o.profile # NoProfile /\ resolve_cert_params(o.profile) = CaParams => DOMAIN profiles = {}
  BY DEF resolve_cert_params, Known, ApiInv, ProfileInv, Gone, CaParams
<1>5. ProfileInv'
  BY <1>1, <1>3, <1>4 DEF ApiInv, ProfileInv, ProfileHonoured
<1> QED BY <1>2, <1>5 DEF ApiInv

LEMMA AuthoritiesKeep ==
    ASSUME ApiInv, NEW ctx,
           \/ post_crl_force(ctx)
           \/ \E ca : \/ post_ca_crl_force(ctx, ca)
                      \/ \E s, ok : post_ca_cross_sign(ctx, ca, s, ok)
    PROVE  ApiInv'
<1>1. UNCHANGED <<delegs, apiOrders, eabKeys, consumed, profiles, issued>>
  BY DEF post_crl_force, post_ca_crl_force, post_ca_cross_sign
<1>2. DelegationInv' /\ EabInv' /\ ProfileInv'
  BY <1>1 DEF ApiInv, DelegationInv, EabInv, ProfileInv, OrdersKeepDelegation, ProfileHonoured
<1>3. WritesStayHome'
  <2>1. CASE post_crl_force(ctx)
    BY <2>1 DEF ApiInv, WritesStayHome, post_crl_force
  <2>2. CASE \E ca : post_ca_crl_force(ctx, ca)
    BY <2>2, InScopeWrites DEF ApiInv, post_ca_crl_force, InScope
  <2>3. CASE \E ca, s, ok : post_ca_cross_sign(ctx, ca, s, ok)
    BY <2>3, InScopeWrites DEF ApiInv, post_ca_cross_sign, InScope
  <2> QED BY <2>1, <2>2, <2>3
<1> QED BY <1>2, <1>3 DEF ApiInv

(* What a scoped operator is shown is its CA's, by the tests of the        *)
(* listings alone.                                                         *)
LEMMA ListingsInScope == ReadsStayHome
<1> SUFFICES ASSUME NEW ctx \in Contexts, ctx.ca # NoCa
             PROVE  /\ \A o \in get_orders(ctx) : o.ca = ctx.ca
                    /\ \A d \in get_delegations(ctx) : AccountCa[delegs[d]] = ctx.ca
                    /\ \A d \in get_delegation_admin(ctx) : AccountCa[delegs[d]] \in {NoCa, ctx.ca}
                    /\ get_cas(ctx) \subseteq {ctx.ca}
                    /\ \A x \in get_cross_certs(ctx) : x.issuer = ctx.ca
                    /\ \A a \in get_accounts(ctx) \ get_account(ctx) :
                          \E o \in get_orders(ctx) : o.acct = a
  BY DEF ReadsStayHome
<1>1. /\ \A o \in get_orders(ctx) : o.ca = ctx.ca
      /\ \A d \in get_delegations(ctx) : AccountCa[delegs[d]] = ctx.ca
      /\ get_cas(ctx) \subseteq {ctx.ca}
      /\ \A x \in get_cross_certs(ctx) : x.issuer = ctx.ca
  BY DEF get_orders, get_delegations, get_cas, get_cross_certs, InScope
<1>2. \A d \in get_delegation_admin(ctx) : AccountCa[delegs[d]] \in {NoCa, ctx.ca}
  BY DEF get_delegation_admin, AccountInScope
<1>3. \A a \in get_accounts(ctx) \ get_account(ctx) : \E o \in get_orders(ctx) : o.acct = a
  BY DEF get_accounts, get_account, get_orders, AccountInScope, InScope
<1> QED BY <1>1, <1>2, <1>3

LEMMA ApiInitInv == ApiInit => ApiInv
<1> SUFFICES ASSUME ApiInit PROVE ApiInv
  OBVIOUS
<1>1. DelegationInv /\ WritesStayHome
  BY DEF ApiInit, DelegationInv, OrdersKeepDelegation, WritesStayHome
<1>2. EabInv
  BY DEF ApiInit, EabInv
<1>3. ProfileInv
  BY AdminApiAssumption DEF ApiInit, ProfileInv, ProfileHonoured
<1> QED BY <1>1, <1>2, <1>3 DEF ApiInv

(* However operators' requests, clients' orders and profile reloads        *)
(* interleave: a scoped operator sees and changes only its CA's objects,   *)
(* save through the two account handlers without a scope test; an order's  *)
(* delegation outlives it; a derived EAB key binds one account; and a      *)
(* certificate has the parameters of the profile its order named.          *)
THEOREM ScopesAreKept == ApiSpec => []ScopesKept
<1>1. ApiInv /\ [ApiNext]_apiVars => ApiInv'
  <2> SUFFICES ASSUME ApiInv, [ApiNext]_apiVars PROVE ApiInv'
    OBVIOUS
  <2>1. CASE UNCHANGED apiVars
    BY <2>1 DEF apiVars, ApiInv, DelegationInv, EabInv, ProfileInv, OrdersKeepDelegation,
                ProfileHonoured, WritesStayHome
  <2>2. ASSUME NEW ctx \in Contexts, NEW a \in Accounts,
               \/ \E g \in BOOLEAN : put_account_profile_grants(ctx, a, g)
               \/ delete_account_profile_grants(ctx, a) \/ post_account_deactivate(ctx, a)
        PROVE  ApiInv'
    BY <2>2, AccountsKeep
  <2>3. ASSUME NEW ctx \in Contexts, NEW d \in Delegations,
               \/ \E a \in Accounts : post_delegations(ctx, d, a)
               \/ put_delegation(ctx, d) \/ delete_delegation(ctx, d)
        PROVE  ApiInv'
    BY <2>3, DelegationsKeep
  <2>4. ASSUME NEW ctx \in Contexts, NEW p \in Principals,
               delete_eab(ctx, p) \/ \E own \in BOOLEAN : post_eab(ctx, p, own)
        PROVE  ApiInv'
    BY <2>4, EabKeeps
  <2>5. ASSUME NEW ctx \in Contexts, NEW n \in Profiles,
               post_profiles(ctx, n) \/ put_profile(ctx, n) \/ delete_profile(ctx, n)
        PROVE  ApiInv'
    BY <2>5, ProfilesKeep
  <2>6. ASSUME NEW ctx \in Contexts,
               \/ post_crl_force(ctx)
               \/ \E ca \in ApiCAs : \/ post_ca_crl_force(ctx, ca)
                                     \/ \E s \in ApiCAs \union {External}, ok \in BOOLEAN :
                                           post_ca_cross_sign(ctx, ca, s, ok)
        PROVE  ApiInv'
    BY <2>6, AuthoritiesKeep
  <2>7. CASE \E p \in Principals : mark_used(p)
    BY <2>7, EabKeeps
  <2>8. CASE refresh
    BY <2>8, ProfilesKeep
  <2>9. CASE \E a \in Accounts, ca \in ApiCAs, n \in Profiles \union {NoProfile},
                d \in Delegations \union {Gone} : new_order(a, ca, n, d)
    BY <2>9, NewOrderKeeps
  <2>10. CASE \E o \in apiOrders : finalize(o)
    BY <2>10, FinalizeKeeps
  <2> QED BY <2>1, <2>2, <2>3, <2>4, <2>5, <2>6, <2>7, <2>8, <2>9, <2>10 DEF ApiNext
<1>2. ApiInv => DerivedEabOnce
  BY DEF ApiInv, EabInv, DerivedEabOnce
<1>3. ApiInv => ScopesKept
  BY <1>2, ListingsInScope DEF ApiInv, DelegationInv, ProfileInv, ScopesKept
<1> QED BY ApiInitInv, <1>1, <1>3, PTL DEF ApiSpec

-----------------------------------------------------------------------------
(* The audit trail.  What is counted is counted in sets: the queue's       *)
(* counter is the queued writes and the requests between reserving and     *)
(* finishing (CountInv), and after a halt the events still to come are     *)
(* those ahead of the requests in flight (LateInv).  A query's flush is    *)
(* the only one in the channel, and what was delivered before it is in     *)
(* front of it, stored or lost (QueryInv).                                 *)
Ev == Nat \X Nat
Cmd == [cmd : {"Write", "Flush"}, ev : Ev]
Recording == {"send", "undo", "enqueue", "count", "overflow"}
ReqRec == [pc : Recording \union {"idle", "track"}, route : {"acme", "admin", "webhook"},
           violation : BOOLEAN, left : 0..2, id : Nat, n : Nat, failed : BOOLEAN]
QueryRec == [pc : {"idle", "wait", "read", "done"}, before : SUBSET Ev, rows : Seq(Ev), file : Nat, n : Nat]
AuditTypes ==
    /\ policy \in Policies /\ halt \in BOOLEAN /\ count \in Nat /\ failures \in Nat
    /\ req \in [Requests -> ReqRec] /\ admitted \in Nat
    /\ \A r \in Requests : req[r].pc \in Recording => req[r].left \in {1, 2}
    /\ queue \in Seq(Cmd) /\ queueLen \in Int /\ socket \in Seq(Ev) /\ stored \in Seq(Ev)
    /\ policy.sink # "daemon" => socket = <<>>
    /\ query \in QueryRec /\ late \in [n : Nat, cap : Int]

Holders == {r \in Requests : req[r].pc \in {"undo", "enqueue"}}
Enqueuers == {r \in Requests : req[r].pc = "enqueue"}
CountInv ==
    /\ queueLen = Cardinality(Writes) + Cardinality(Holders)
    /\ Cardinality(Writes) + Cardinality(Enqueuers) <= FileQueueCap

(* The events a request may still count, unless its route is exempt.       *)
Ahead(x) == IF x.pc \in {"send", "enqueue", "count"} THEN x.left
            ELSE IF x.pc \in {"undo", "overflow"} THEN x.left - 1 ELSE 0
Behind(k) == {r \in Requests : req[r].route # "webhook" /\ Ahead(req[r]) >= k}
LateInv == IF halt THEN late.n + Cardinality(Behind(1)) + Cardinality(Behind(2)) <= late.cap
           ELSE late.n = 0

Kept(e) == e \in lost \/ \E j \in 1..Len(stored) : stored[j] = e
Flushes == {j \in 1..Len(queue) : queue[j].cmd = "Flush"}
QueryInv ==
    /\ \A i, j \in Flushes : i = j
    /\ query.pc # "wait" => Flushes = {}
    /\ policy.sink = "file" /\ query.pc = "wait" =>
          \E f \in Flushes : \A e \in query.before :
              Kept(e) \/ \E j \in 1..Len(queue) : j < f /\ queue[j].cmd = "Write" /\ queue[j].ev = e
    /\ policy.sink = "file" /\ query.pc = "read" => \A e \in query.before : Kept(e)
    /\ ReadYourWrites

-----------------------------------------------------------------------------
(* Sets that differ in one element.                                        *)
LEMMA OneLess ==
    ASSUME NEW S, NEW T, NEW r, IsFiniteSet(S), r \in S, T \subseteq S \ {r}
    PROVE  IsFiniteSet(T) /\ Cardinality(T) \in Nat /\ Cardinality(S) \in Nat
           /\ Cardinality(T) <= Cardinality(S) - 1
<1>1. IsFiniteSet(S \ {r}) /\ Cardinality(S \ {r}) = Cardinality(S) - 1
  BY FS_RemoveElement
<1>2. IsFiniteSet(T) /\ Cardinality(T) <= Cardinality(S \ {r})
  BY <1>1, FS_Subset
<1> QED BY <1>1, <1>2, FS_CardinalityType

LEMMA OneAdded ==
    ASSUME NEW S, NEW T, NEW r, IsFiniteSet(S), r \notin S, T = S \union {r}
    PROVE  IsFiniteSet(T) /\ Cardinality(T) = Cardinality(S) + 1 /\ Cardinality(S) \in Nat
BY FS_AddElement, FS_CardinalityType

LEMMA OneRemoved ==
    ASSUME NEW S, NEW T, NEW r, IsFiniteSet(S), r \in S, T = S \ {r}
    PROVE  IsFiniteSet(T) /\ Cardinality(T) = Cardinality(S) - 1 /\ Cardinality(S) \in Nat
BY FS_RemoveElement, FS_CardinalityType

LEMMA Countable ==
    ASSUME AuditTypes
    PROVE  /\ IsFiniteSet(Holders) /\ Cardinality(Holders) \in Nat
           /\ IsFiniteSet(Enqueuers) /\ Cardinality(Enqueuers) \in Nat
           /\ IsFiniteSet(Writes) /\ Cardinality(Writes) \in Nat
<1>1. IsFiniteSet(Requests) /\ Holders \subseteq Requests /\ Enqueuers \subseteq Requests
  BY AuditAssumption DEF Holders, Enqueuers
<1>2. Len(queue) \in Nat /\ Writes \subseteq 1..Len(queue)
  BY DEF AuditTypes, Writes
<1>3. IsFiniteSet(1..Len(queue))
  BY <1>2, FS_Interval
<1> QED BY <1>1, <1>2, <1>3, FS_Subset, FS_CardinalityType

LEMMA BehindCountable ==
    ASSUME NEW k
    PROVE  IsFiniteSet(Behind(k)) /\ Cardinality(Behind(k)) \in Nat
<1>1. IsFiniteSet(Requests) /\ Behind(k) \subseteq Requests
  BY AuditAssumption DEF Behind
<1> QED BY <1>1, FS_Subset, FS_CardinalityType

LEMMA BehindCountablePrimed ==
    ASSUME NEW k
    PROVE  IsFiniteSet(Behind(k)') /\ Cardinality(Behind(k)') \in Nat
<1>1. IsFiniteSet(Requests) /\ Behind(k)' \subseteq Requests
  BY AuditAssumption DEF Behind
<1> QED BY <1>1, FS_Subset, FS_CardinalityType

LEMMA IdleReqTyped == IdleReq \in ReqRec /\ IdleReq.pc = "idle"
BY DEF IdleReq, ReqRec

(* The request after record has returned.                                  *)
LEMMA AfterRecordTyped ==
    ASSUME AuditTypes, NEW r \in Requests, req[r].pc \in Recording, NEW failed \in BOOLEAN,
           NEW x, x = AfterRecord(r, failed)
    PROVE  /\ x \in ReqRec /\ x.pc \in {"send", "track"} /\ x.route = req[r].route
           /\ x.pc = "send" => x.left = 1 /\ req[r].left = 2
<1>1. PICK y \in ReqRec : y = req[r] /\ y.left \in {1, 2}
  BY DEF AuditTypes
<1>2. PICK l : l = y.left - 1 /\ l \in 0..2
  BY <1>1
<1>3. PICK p : p = (IF y.left = 1 THEN "track" ELSE "send") /\ p \in {"send", "track"}
  BY <1>1
<1>4. PICK f : f = (y.failed \/ failed) /\ f \in BOOLEAN
  BY <1>1 DEF ReqRec
<1>5. x = [y EXCEPT !.left = l, !.failed = f, !.n = 0, !.pc = p]
  BY <1>1, <1>2, <1>3, <1>4 DEF AfterRecord, ReqRec
<1>6. x \in ReqRec
  <2>1. l \in 0..2 /\ f \in BOOLEAN /\ p \in Recording \union {"idle", "track"}
    BY <1>2, <1>3, <1>4 DEF Recording
  <2>2. PICK z \in ReqRec : z = [y EXCEPT !.left = l, !.n = 0]
    BY <2>1 DEF ReqRec
  <2>3. PICK w \in ReqRec : w = [z EXCEPT !.failed = f]
    BY <2>1 DEF ReqRec
  <2>4. x = [w EXCEPT !.pc = p]
    BY <1>5, <2>2, <2>3 DEF ReqRec
  <2> QED BY <2>1, <2>4 DEF ReqRec
<1>7. x.pc = p /\ x.route = y.route /\ x.left = l
  BY <1>5 DEF ReqRec
<1> QED BY <1>1, <1>2, <1>3, <1>6, <1>7

(* The request after a step within record.                                 *)
LEMMA ReqMoves ==
    ASSUME NEW y \in ReqRec, NEW p \in Recording, NEW x, x = [y EXCEPT !.pc = p]
    PROVE  x \in ReqRec /\ x.pc = p /\ x.route = y.route /\ x.left = y.left /\ x.n = y.n
BY DEF ReqRec

(* One request changes.                                                    *)
LEMMA OneReq ==
    ASSUME AuditTypes, NEW r \in Requests, NEW x \in ReqRec, req' = [req EXCEPT ![r] = x],
           x.pc \in Recording => x.left \in {1, 2}
    PROVE  /\ req' \in [Requests -> ReqRec] /\ req'[r] = x
           /\ \A q \in Requests : q # r => req'[q] = req[q]
           /\ \A q \in Requests : req'[q].pc \in Recording => req'[q].left \in {1, 2}
BY DEF AuditTypes

(* The events ahead of the requests in flight.                             *)
Fades(q) == req'[q].route # "webhook" /\ Ahead(req'[q]) >= 1 =>
              req[q].route # "webhook" /\ Ahead(req'[q]) <= Ahead(req[q])

LEMMA AheadTyped ==
    ASSUME NEW x \in ReqRec, x.pc \in Recording => x.left \in {1, 2}
    PROVE  Ahead(x) \in 0..2
BY DEF Ahead, ReqRec, Recording

LEMMA LateKept ==
    ASSUME AuditTypes, AuditTypes', LateInv, halt' = halt, late' = late, \A q \in Requests : Fades(q)
    PROVE  LateInv'
<1>1. \A q \in Requests : Ahead(req[q]) \in 0..2 /\ Ahead(req'[q]) \in 0..2
  BY AheadTyped DEF AuditTypes
<1>2. Behind(1)' \subseteq Behind(1) /\ Behind(2)' \subseteq Behind(2)
  BY <1>1 DEF Behind, Fades
<1>3. PICK a, b, c, d : /\ a = Cardinality(Behind(1)) /\ b = Cardinality(Behind(2))
                        /\ c = Cardinality(Behind(1)') /\ d = Cardinality(Behind(2)')
  OBVIOUS
<1>4. c <= a /\ d <= b
  BY <1>2, <1>3, BehindCountable, FS_Subset
<1>5. a \in Nat /\ b \in Nat /\ c \in Nat /\ d \in Nat
  BY <1>3, BehindCountable, BehindCountablePrimed
<1>6. late.n \in Nat /\ late.cap \in Int
  BY DEF AuditTypes
<1>7. CASE halt
  BY <1>3, <1>4, <1>5, <1>6, <1>7 DEF LateInv
<1>8. CASE ~halt
  BY <1>8 DEF LateInv
<1> QED BY <1>7, <1>8

LEMMA LateHalts ==
    ASSUME AuditTypes, AuditTypes', LateInv, ~halt, halt', Halting, NEW r \in Requests,
           req[r].pc # "idle", Ahead(req'[r]) <= 1, \A q \in Requests : q # r => req'[q] = req[q]
    PROVE  LateInv'
<1> DEFINE F == {q \in Requests : req[q].pc # "idle"}
<1>1. IsFiniteSet(F) /\ r \in F
  <2>1. IsFiniteSet(Requests) /\ F \subseteq Requests
    BY AuditAssumption
  <2> QED BY <2>1, FS_Subset
<1>2. \A q \in Requests : Ahead(req'[q]) \in 0..2 /\ Ahead(req[q]) \in 0..2
  BY AheadTyped DEF AuditTypes
<1>3. \A q \in Requests : req[q].pc = "idle" => Ahead(req[q]) = 0
  BY DEF Ahead
<1>4. Behind(1)' \subseteq F /\ Behind(2)' \subseteq F \ {r}
  BY <1>2, <1>3 DEF Behind
<1>5. PICK f, c, d : f = Cardinality(F) /\ c = Cardinality(Behind(1)') /\ d = Cardinality(Behind(2)')
  OBVIOUS
<1>6. f \in Nat /\ c \in Nat /\ d \in Nat
  BY <1>1, <1>5, BehindCountablePrimed, FS_CardinalityType
<1>7. c <= f
  BY <1>1, <1>4, <1>5, FS_Subset
<1>8. d <= f - 1
  BY <1>1, <1>4, <1>5, OneLess
<1>9. late' = [late EXCEPT !.cap = 2 * f - 1]
  BY <1>5 DEF Halting
<1>10. late.n = 0 /\ late \in [n : Nat, cap : Int]
  BY DEF LateInv, AuditTypes
<1>11. late'.n = 0 /\ late'.cap = 2 * f - 1
  BY <1>6, <1>9, <1>10
<1> QED BY <1>5, <1>6, <1>7, <1>8, <1>11 DEF LateInv

-----------------------------------------------------------------------------
(* The counter of the queue: one request moves and the channel stays.      *)
LEMMA HoldersMove ==
    ASSUME AuditTypes, NEW r \in Requests, \A q \in Requests : q # r => req'[q] = req[q]
    PROVE  LET h == {"undo", "enqueue"} IN
           /\ (req[r].pc \in h <=> req'[r].pc \in h) => Holders' = Holders
           /\ req[r].pc \notin h /\ req'[r].pc \in h =>
                Cardinality(Holders') = Cardinality(Holders) + 1
           /\ req[r].pc \in h /\ req'[r].pc \notin h =>
                Cardinality(Holders') = Cardinality(Holders) - 1
<1> DEFINE h == {"undo", "enqueue"}
<1>1. ASSUME req[r].pc \in h <=> req'[r].pc \in h PROVE Holders' = Holders
  BY <1>1 DEF Holders
<1>2. ASSUME req[r].pc \notin h, req'[r].pc \in h PROVE Cardinality(Holders') = Cardinality(Holders) + 1
  <2>1. r \notin Holders /\ Holders' = Holders \union {r}
    BY <1>2 DEF Holders
  <2> QED BY <2>1, OneAdded, Countable
<1>3. ASSUME req[r].pc \in h, req'[r].pc \notin h PROVE Cardinality(Holders') = Cardinality(Holders) - 1
  <2>1. r \in Holders /\ Holders' = Holders \ {r}
    BY <1>3 DEF Holders
  <2> QED BY <2>1, OneRemoved, Countable
<1> QED BY <1>1, <1>2, <1>3

LEMMA EnqueuersMove ==
    ASSUME AuditTypes, NEW r \in Requests, \A q \in Requests : q # r => req'[q] = req[q]
    PROVE  /\ (req[r].pc = "enqueue" <=> req'[r].pc = "enqueue") => Enqueuers' = Enqueuers
           /\ req[r].pc # "enqueue" /\ req'[r].pc = "enqueue" =>
                Cardinality(Enqueuers') = Cardinality(Enqueuers) + 1
           /\ req[r].pc = "enqueue" /\ req'[r].pc # "enqueue" =>
                Cardinality(Enqueuers') = Cardinality(Enqueuers) - 1
<1>1. ASSUME req[r].pc = "enqueue" <=> req'[r].pc = "enqueue" PROVE Enqueuers' = Enqueuers
  BY <1>1 DEF Enqueuers
<1>2. ASSUME req[r].pc # "enqueue", req'[r].pc = "enqueue"
      PROVE  Cardinality(Enqueuers') = Cardinality(Enqueuers) + 1
  <2>1. r \notin Enqueuers /\ Enqueuers' = Enqueuers \union {r}
    BY <1>2 DEF Enqueuers
  <2> QED BY <2>1, OneAdded, Countable
<1>3. ASSUME req[r].pc = "enqueue", req'[r].pc # "enqueue"
      PROVE  Cardinality(Enqueuers') = Cardinality(Enqueuers) - 1
  <2>1. r \in Enqueuers /\ Enqueuers' = Enqueuers \ {r}
    BY <1>3 DEF Enqueuers
  <2> QED BY <2>1, OneRemoved, Countable
<1> QED BY <1>1, <1>2, <1>3

(* The channel is not touched, and no request takes or gives up a place.   *)
LEMMA CountStill ==
    ASSUME AuditTypes, CountInv, NEW r \in Requests, \A q \in Requests : q # r => req'[q] = req[q],
           queue' = queue, queueLen' = queueLen,
           req[r].pc \notin {"undo", "enqueue"}, req'[r].pc \notin {"undo", "enqueue"}
    PROVE  CountInv'
<1>1. Holders' = Holders /\ Enqueuers' = Enqueuers
  BY DEF Holders, Enqueuers
<1>2. Writes' = Writes
  BY DEF Writes
<1> QED BY <1>1, <1>2 DEF CountInv

(* Commands enter the channel at its end and leave it at its head.         *)
LEMMA WritesGrow ==
    ASSUME AuditTypes, NEW c \in Cmd, queue' = Append(queue, c)
    PROVE  Cardinality(Writes') = IF c.cmd = "Write" THEN Cardinality(Writes) + 1 ELSE Cardinality(Writes)
<1>1. /\ Len(queue') = Len(queue) + 1 /\ Len(queue) \in Nat /\ queue'[Len(queue) + 1] = c
      /\ \A i \in 1..Len(queue) : queue'[i] = queue[i]
  BY DEF AuditTypes
<1>2. CASE c.cmd = "Write"
  <2>1. Writes' = Writes \union {Len(queue) + 1} /\ Len(queue) + 1 \notin Writes
    BY <1>1, <1>2 DEF Writes
  <2> QED BY <1>2, <2>1, OneAdded, Countable
<1>3. CASE c.cmd # "Write"
  <2>1. Writes' = Writes
    BY <1>1, <1>3 DEF Writes
  <2> QED BY <1>3, <2>1
<1> QED BY <1>2, <1>3

LEMMA WritesShrink ==
    ASSUME AuditTypes, queue # <<>>, queue' = Tail(queue)
    PROVE  Cardinality(Writes') = IF Head(queue).cmd = "Write" THEN Cardinality(Writes) - 1
                                  ELSE Cardinality(Writes)
<1>1. /\ Len(queue') = Len(queue) - 1 /\ Len(queue) \in Nat \ {0} /\ Head(queue) = queue[1]
      /\ \A i \in 1..Len(queue') : queue'[i] = queue[i + 1]
  BY DEF AuditTypes
<1> DEFINE T == Writes \ {1}
           g == [j \in T |-> j - 1]
<1>2. \A j \in T : j \in 2..Len(queue) /\ queue[j].cmd = "Write"
  BY <1>1 DEF Writes
<1>3. \A j \in T : j - 1 \in Writes'
  BY <1>1, <1>2 DEF Writes
<1>4. \A i \in Writes' : i + 1 \in T /\ (i + 1) - 1 = i
  BY <1>1 DEF Writes
<1>5. ExistsBijection(T, Writes')
  <2>1. g \in [T -> Writes']
    BY <1>3
  <2>2. \A i, j \in T : g[i] = g[j] => i = j
    BY <1>2
  <2>3. \A i \in Writes' : \E j \in T : g[j] = i
    BY <1>4
  <2>4. g \in Bijection(T, Writes')
    BY <2>1, <2>2, <2>3 DEF Bijection, Injection, Surjection, IsInjective
  <2> QED BY <2>4 DEF ExistsBijection
<1>6. IsFiniteSet(T) /\ Cardinality(T) = IF 1 \in Writes THEN Cardinality(Writes) - 1 ELSE Cardinality(Writes)
  BY Countable, FS_RemoveElement
<1>7. Cardinality(Writes') = Cardinality(T)
  BY <1>5, <1>6, FS_Bijection
<1>8. 1 \in Writes <=> Head(queue).cmd = "Write"
  BY <1>1 DEF Writes
<1> QED BY <1>6, <1>7, <1>8

-----------------------------------------------------------------------------
AuditInv == AuditTypes /\ CountInv /\ HaltsWhenDue /\ LateInv /\ QueryInv

LEMMA QueryStill ==
    ASSUME QueryInv, policy' = policy, queue' = queue, stored' = stored, query' = query, lost' = lost
    PROVE  QueryInv'
BY DEF QueryInv, Flushes, Kept, ReadYourWrites

LEMMA HaltStill ==
    ASSUME HaltsWhenDue, policy' = policy, count' = count, failures' = failures, halt' = halt,
           \A q \in Requests : req[q].pc = "overflow" => req'[q] = req[q]
    PROVE  HaltsWhenDue'
BY DEF HaltsWhenDue

(* A step of one request that neither counts nor ends a recording.         *)
LEMMA ReqStep ==
    ASSUME AuditInv, NEW r \in Requests, NEW x \in ReqRec, req' = [req EXCEPT ![r] = x],
           x.pc \in Recording => x.left \in {1, 2}, req[r].pc # "overflow",
           policy' = policy, halt' = halt, count' = count, failures' = failures, query' = query,
           stored' = stored, lost' = lost, late' = late, queue' \in Seq(Cmd),
           admitted' \in Nat, queueLen' \in Int, socket' \in Seq(Ev),
           policy.sink # "daemon" => socket' = <<>>,
           halt => (x.route # "webhook" /\ Ahead(x) >= 1 =>
                      req[r].route # "webhook" /\ Ahead(x) <= Ahead(req[r]))
    PROVE  /\ AuditTypes' /\ HaltsWhenDue' /\ LateInv' /\ req'[r] = x
           /\ \A q \in Requests : q # r => req'[q] = req[q]
<1>0. AuditTypes /\ HaltsWhenDue /\ LateInv
  BY DEF AuditInv
<1>1. /\ req' \in [Requests -> ReqRec] /\ req'[r] = x
      /\ \A q \in Requests : q # r => req'[q] = req[q]
      /\ \A q \in Requests : req'[q].pc \in Recording => req'[q].left \in {1, 2}
  BY <1>0, OneReq
<1>2. AuditTypes'
  BY <1>0, <1>1 DEF AuditTypes
<1>3. HaltsWhenDue'
  BY <1>0, <1>1, HaltStill
<1>4. LateInv'
  <2>1. CASE ~halt
    BY <1>0, <2>1 DEF LateInv
  <2>2. CASE halt
    <3>1. \A q \in Requests : Ahead(req[q]) \in 0..2
      BY <1>0, AheadTyped DEF AuditTypes
    <3>2. \A q \in Requests : Fades(q)
      BY <1>1, <2>2, <3>1 DEF Fades
    <3> QED BY <1>0, <1>2, <3>2, LateKept
  <2> QED BY <2>1, <2>2
<1> QED BY <1>1, <1>2, <1>3, <1>4

LEMMA RecorderAdmitKeeps ==
    ASSUME AuditInv, NEW r \in Requests, NEW kind \in Kinds, Admit(r, kind)
    PROVE  AuditInv'
<1>0. AuditTypes /\ CountInv /\ QueryInv
  BY DEF AuditInv
<1>1. PICK x : x = [IdleReq EXCEPT !.pc = "send", !.route = kind.route, !.violation = kind.violation,
                                   !.left = kind.events, !.id = admitted + 1]
  OBVIOUS
<1>2. /\ req[r].pc = "idle" /\ halt_check(kind.route) /\ admitted' = admitted + 1
      /\ req' = [req EXCEPT ![r] = x]
      /\ UNCHANGED <<policy, halt, count, failures, queue, queueLen, socket, stored, query, lost, late>>
  BY <1>1 DEF Admit
<1>3. kind \in [route : {"acme", "admin", "webhook"}, violation : BOOLEAN, events : {1, 2}]
  BY AuditAssumption
<1>4. x \in ReqRec /\ x.pc = "send" /\ x.route = kind.route /\ x.left \in {1, 2}
  <2>1. admitted + 1 \in Nat
    BY <1>0 DEF AuditTypes
  <2>2. IdleReq \in ReqRec
    BY IdleReqTyped
  <2>3. PICK z \in ReqRec : z = [IdleReq EXCEPT !.violation = kind.violation]
    BY <1>3, <2>2 DEF ReqRec
  <2>4. PICK e, o, i : e = kind.events /\ o = kind.route /\ i = admitted + 1
    OBVIOUS
  <2>5. e \in {1, 2} /\ e \in 0..2 /\ o \in {"acme", "admin", "webhook"} /\ i \in Nat
    BY <1>3, <2>1, <2>4
  <2>6. x = [z EXCEPT !.pc = "send", !.route = o, !.left = e, !.id = i]
    BY <1>1, <2>2, <2>3, <2>4 DEF ReqRec
  <2>7. PICK w \in ReqRec : w = [z EXCEPT !.left = e, !.id = i]
    BY <2>5 DEF ReqRec
  <2>8. PICK v \in ReqRec : v = [w EXCEPT !.route = o]
    BY <2>5 DEF ReqRec
  <2>9. x = [v EXCEPT !.pc = "send"]
    BY <2>6, <2>7, <2>8 DEF ReqRec
  <2>10. x \in ReqRec /\ x.pc = "send" /\ x.route = v.route /\ x.left = v.left
    BY <2>9, ReqMoves DEF Recording
  <2>11. v.route = o /\ v.left = e
    BY <2>7, <2>8 DEF ReqRec
  <2> QED BY <2>4, <2>5, <2>10, <2>11
<1>5. halt => x.route = "webhook"
  BY <1>2, <1>4 DEF halt_check
<1>6. /\ AuditTypes' /\ HaltsWhenDue' /\ LateInv' /\ req'[r] = x
      /\ \A q \in Requests : q # r => req'[q] = req[q]
  <2>1. /\ queue' \in Seq(Cmd) /\ admitted' \in Nat /\ queueLen' \in Int /\ socket' \in Seq(Ev)
        /\ policy.sink # "daemon" => socket' = <<>>
    BY <1>0, <1>2 DEF AuditTypes
  <2> QED BY <1>2, <1>4, <1>5, <2>1, ReqStep
<1>7. CountInv'
  BY <1>0, <1>2, <1>4, <1>6, CountStill
<1>8. QueryInv'
  BY <1>0, <1>2, QueryStill
<1> QED BY <1>6, <1>7, <1>8 DEF AuditInv

LEMMA SendSocketKeeps ==
    ASSUME AuditInv, NEW r \in Requests, SendSocket(r)
    PROVE  AuditInv'
<1>0. AuditTypes /\ CountInv /\ QueryInv
  BY DEF AuditInv
<1>1. PICK y \in ReqRec : y = req[r] /\ y.pc = "send" /\ y.left \in {1, 2}
  BY <1>0 DEF AuditTypes, SendSocket, Recording
<1>2. /\ policy.sink # "file" /\ admitted \in Nat /\ queueLen \in Int
      /\ UNCHANGED <<policy, halt, count, failures, queue, queueLen, stored, query, admitted, lost, late>>
  BY <1>0 DEF SendSocket, AuditTypes
<1>3. socket' \in Seq(Ev) /\ (policy.sink # "daemon" => socket' = <<>>)
  <2>1. Event(r) \in Ev
    BY <1>1 DEF Event, Ev, ReqRec
  <2>2. socket' = socket \/ (policy.sink = "daemon" /\ socket' = Append(socket, Event(r)))
    BY DEF SendSocket
  <2>3. socket \in Seq(Ev) /\ (policy.sink # "daemon" => socket = <<>>)
    BY <1>0 DEF AuditTypes
  <2>4. CASE socket' = socket
    BY <2>3, <2>4
  <2>5. CASE policy.sink = "daemon" /\ socket' = Append(socket, Event(r))
    BY <2>1, <2>3, <2>5
  <2> QED BY <2>2, <2>4, <2>5
<1>4. PICK x \in ReqRec :
        /\ req' = [req EXCEPT ![r] = x] /\ x.pc \in {"count", "send", "track"} /\ x.route = y.route
        /\ x.pc \in {"count", "send"} => x.left \in {1, 2} /\ x.left <= y.left
  <2>1. CASE req' = [req EXCEPT ![r].pc = "count"]
    <3> DEFINE z == [y EXCEPT !.pc = "count"]
    <3>1. z \in ReqRec /\ z.pc = "count" /\ z.route = y.route /\ z.left = y.left
      BY ReqMoves DEF Recording
    <3>2. req' = [req EXCEPT ![r] = z]
      BY <1>0, <1>1, <2>1 DEF AuditTypes
    <3>3. z.left \in {1, 2} /\ z.left <= y.left
      BY <1>1, <3>1
    <3> HIDE DEF z
    <3> QED BY <3>1, <3>2, <3>3
  <2>2. CASE req' = [req EXCEPT ![r] = AfterRecord(r, TRUE)]
    <3>1. PICK z : z = AfterRecord(r, TRUE)
      OBVIOUS
    <3>2. /\ z \in ReqRec /\ z.pc \in {"send", "track"} /\ z.route = y.route
          /\ z.pc = "send" => z.left = 1 /\ y.left = 2
      BY <1>0, <1>1, <3>1, AfterRecordTyped DEF Recording
    <3>3. z.pc \in {"count", "send"} => z.left \in {1, 2} /\ z.left <= y.left
      BY <3>2
    <3> QED BY <2>2, <3>1, <3>2, <3>3
  <2> QED BY <2>1, <2>2 DEF SendSocket
<1>5. Ahead(x) <= Ahead(req[r])
  BY <1>1, <1>4 DEF Ahead
<1>6. /\ AuditTypes' /\ HaltsWhenDue' /\ LateInv' /\ req'[r] = x
      /\ \A q \in Requests : q # r => req'[q] = req[q]
  <2>1. queue' \in Seq(Cmd)
    BY <1>0, <1>2 DEF AuditTypes
  <2>2. x.pc \in Recording => x.left \in {1, 2}
    BY <1>4 DEF Recording
  <2> QED BY <1>1, <1>2, <1>3, <1>4, <1>5, <2>1, <2>2, ReqStep
<1>7. CountInv'
  BY <1>0, <1>1, <1>2, <1>4, <1>6, CountStill
<1>8. QueryInv'
  BY <1>0, <1>2, QueryStill
<1> QED BY <1>6, <1>7, <1>8 DEF AuditInv

LEMMA SendReserveKeeps ==
    ASSUME AuditInv, NEW r \in Requests, SendReserve(r)
    PROVE  AuditInv'
<1>0. AuditTypes /\ CountInv /\ QueryInv
  BY DEF AuditInv
<1>1. PICK y \in ReqRec : y = req[r] /\ y.pc = "send" /\ y.left \in {1, 2}
  BY <1>0 DEF AuditTypes, SendReserve, Recording
<1>2. /\ policy.sink = "file" /\ admitted \in Nat /\ queueLen \in Int /\ queueLen' = queueLen + 1
      /\ UNCHANGED <<policy, halt, count, failures, queue, socket, stored, query, admitted, lost, late>>
      /\ socket \in Seq(Ev) /\ queue \in Seq(Cmd) /\ FileQueueCap \in Nat
      /\ policy.sink # "daemon" => socket' = <<>>
  BY <1>0, AuditAssumption DEF SendReserve, AuditTypes
<1>3. PICK p : p = (IF queueLen >= FileQueueCap THEN "undo" ELSE "enqueue") /\ p \in {"undo", "enqueue"}
  OBVIOUS
<1>4. PICK x : x = [y EXCEPT !.pc = p]
  OBVIOUS
<1>5. x \in ReqRec /\ x.pc = p /\ x.route = y.route /\ x.left = y.left
  BY <1>3, <1>4, ReqMoves DEF Recording
<1>6. req' = [req EXCEPT ![r] = x]
  BY <1>0, <1>1, <1>3, <1>4 DEF SendReserve, AuditTypes
<1>7. Ahead(x) <= Ahead(req[r])
  BY <1>1, <1>3, <1>5 DEF Ahead
<1>8. /\ AuditTypes' /\ HaltsWhenDue' /\ LateInv' /\ req'[r] = x
      /\ \A q \in Requests : q # r => req'[q] = req[q]
  <2>1. /\ queue' \in Seq(Cmd) /\ admitted' \in Nat /\ queueLen' \in Int /\ socket' \in Seq(Ev)
        /\ policy.sink # "daemon" => socket' = <<>>
    BY <1>2
  <2>2. x.left \in {1, 2} /\ x.route = req[r].route /\ req[r].pc # "overflow"
    BY <1>1, <1>5
  <2> QED BY <1>2, <1>5, <1>6, <1>7, <2>1, <2>2, ReqStep
<1>9. CountInv'
  <2>1. Writes' = Writes
    BY <1>2 DEF Writes
  <2>2. Cardinality(Holders') = Cardinality(Holders) + 1
    BY <1>0, <1>1, <1>3, <1>5, <1>8, HoldersMove
  <2>3. /\ p = "enqueue" => Cardinality(Enqueuers') = Cardinality(Enqueuers) + 1
        /\ p = "undo" => Enqueuers' = Enqueuers
    BY <1>0, <1>1, <1>3, <1>5, <1>8, EnqueuersMove
  <2>4. Cardinality(Enqueuers) <= Cardinality(Holders)
    <3>1. Enqueuers \subseteq Holders
      BY DEF Enqueuers, Holders
    <3> QED BY <1>0, <3>1, Countable, FS_Subset
  <2>5. /\ Cardinality(Holders) \in Nat /\ Cardinality(Enqueuers) \in Nat /\ Cardinality(Writes) \in Nat
        /\ queueLen = Cardinality(Writes) + Cardinality(Holders)
        /\ Cardinality(Writes) + Cardinality(Enqueuers) <= FileQueueCap
    BY <1>0, Countable DEF CountInv
  <2>6. Cardinality(Writes) + Cardinality(Enqueuers') <= FileQueueCap
    <3>1. CASE p = "enqueue"
      <4>1. queueLen < FileQueueCap
        BY <1>2, <1>3, <3>1
      <4> QED BY <1>2, <2>3, <2>4, <2>5, <3>1, <4>1
    <3>2. CASE p = "undo"
      BY <2>3, <2>5, <3>2
    <3> QED BY <1>3, <3>1, <3>2
  <2> QED BY <1>2, <2>1, <2>2, <2>5, <2>6 DEF CountInv
<1>10. QueryInv'
  BY <1>0, <1>2, QueryStill
<1> QED BY <1>8, <1>9, <1>10 DEF AuditInv

LEMMA SendUndoKeeps ==
    ASSUME AuditInv, NEW r \in Requests, SendUndo(r)
    PROVE  AuditInv'
<1>0. AuditTypes /\ CountInv /\ QueryInv
  BY DEF AuditInv
<1>1. PICK y \in ReqRec : y = req[r] /\ y.pc = "undo" /\ y.left \in {1, 2}
  BY <1>0 DEF AuditTypes, SendUndo, Recording
<1>2. /\ admitted \in Nat /\ queueLen \in Int /\ queueLen' = queueLen - 1
      /\ UNCHANGED <<policy, halt, count, failures, queue, socket, stored, query, admitted, lost, late>>
      /\ socket \in Seq(Ev) /\ queue \in Seq(Cmd)
      /\ policy.sink # "daemon" => socket' = <<>>
  BY <1>0 DEF SendUndo, AuditTypes
<1>3. PICK x : x = AfterRecord(r, TRUE)
  OBVIOUS
<1>4. /\ x \in ReqRec /\ x.pc \in {"send", "track"} /\ x.route = y.route
      /\ x.pc = "send" => x.left = 1 /\ y.left = 2
  BY <1>0, <1>1, <1>3, AfterRecordTyped DEF Recording
<1>5. req' = [req EXCEPT ![r] = x]
  BY <1>3 DEF SendUndo
<1>6. Ahead(x) <= Ahead(req[r]) /\ (x.pc \in Recording => x.left \in {1, 2})
  BY <1>1, <1>4 DEF Ahead, Recording
<1>7. /\ AuditTypes' /\ HaltsWhenDue' /\ LateInv' /\ req'[r] = x
      /\ \A q \in Requests : q # r => req'[q] = req[q]
  <2>1. /\ queue' \in Seq(Cmd) /\ admitted' \in Nat /\ queueLen' \in Int /\ socket' \in Seq(Ev)
        /\ policy.sink # "daemon" => socket' = <<>>
    BY <1>2
  <2>2. x.route = req[r].route /\ req[r].pc # "overflow"
    BY <1>1, <1>4
  <2> QED BY <1>2, <1>4, <1>5, <1>6, <2>1, <2>2, ReqStep
<1>8. CountInv'
  <2>1. Writes' = Writes
    BY <1>2 DEF Writes
  <2>2. Cardinality(Holders') = Cardinality(Holders) - 1
    BY <1>0, <1>1, <1>4, <1>7, HoldersMove
  <2>3. Enqueuers' = Enqueuers
    BY <1>0, <1>1, <1>4, <1>7, EnqueuersMove
  <2>4. Cardinality(Holders) \in Nat /\ Cardinality(Writes) \in Nat
    BY <1>0, Countable
  <2> QED BY <1>0, <1>2, <2>1, <2>2, <2>3, <2>4 DEF CountInv
<1>9. QueryInv'
  BY <1>0, <1>2, QueryStill
<1> QED BY <1>7, <1>8, <1>9 DEF AuditInv
(* QueryInv while events enter the channel behind the flush.               *)
LEMMA QueryWrites ==
    ASSUME AuditTypes, QueryInv, NEW c \in Cmd, c.cmd = "Write", queue' = Append(queue, c),
           policy' = policy, stored' = stored, query' = query, lost' = lost
    PROVE  QueryInv'
<1>1. /\ Len(queue') = Len(queue) + 1 /\ Len(queue) \in Nat /\ queue'[Len(queue) + 1] = c
      /\ \A i \in 1..Len(queue) : queue'[i] = queue[i]
  BY DEF AuditTypes
<1>2. Flushes' = Flushes
  BY <1>1 DEF Flushes
<1>3. \A e : Kept(e)' <=> Kept(e)
  BY DEF Kept
<1>4. ReadYourWrites'
  BY DEF QueryInv, ReadYourWrites
<1>5. ASSUME policy.sink = "file", query.pc = "wait"
      PROVE  \E f \in Flushes : \A e \in query.before :
                Kept(e) \/ \E j \in 1..Len(queue') : j < f /\ queue'[j].cmd = "Write" /\ queue'[j].ev = e
  BY <1>1, <1>5 DEF QueryInv
<1>6. policy.sink = "file" /\ query.pc = "read" => \A e \in query.before : Kept(e)
  BY DEF QueryInv
<1>7. (\A i, j \in Flushes : i = j) /\ (query.pc # "wait" => Flushes = {})
  BY DEF QueryInv
<1>8. (policy.sink = "file" /\ query.pc = "wait" =>
          \E f \in Flushes : \A e \in query.before :
              Kept(e) \/ \E j \in 1..Len(queue) : j < f /\ queue[j].cmd = "Write" /\ queue[j].ev = e)'
  BY <1>2, <1>3, <1>5
<1>9. (policy.sink = "file" /\ query.pc = "read" => \A e \in query.before : Kept(e))'
  BY <1>3, <1>6
<1> QED BY <1>2, <1>4, <1>7, <1>8, <1>9 DEF QueryInv

LEMMA SendEnqueueKeeps ==
    ASSUME AuditInv, NEW r \in Requests, SendEnqueue(r)
    PROVE  AuditInv'
<1>0. AuditTypes /\ CountInv /\ QueryInv
  BY DEF AuditInv
<1>1. PICK y \in ReqRec : y = req[r] /\ y.pc = "enqueue" /\ y.left \in {1, 2}
  BY <1>0 DEF AuditTypes, SendEnqueue, Recording
<1>2. /\ admitted \in Nat /\ queueLen \in Int
      /\ UNCHANGED <<policy, halt, count, failures, queueLen, socket, stored, query, admitted, lost, late>>
      /\ socket \in Seq(Ev) /\ queue \in Seq(Cmd)
      /\ policy.sink # "daemon" => socket' = <<>>
  BY <1>0 DEF SendEnqueue, AuditTypes
<1>3. PICK c \in Cmd : c.cmd = "Write" /\ queue' = Append(queue, c)
  <2>1. Event(r) \in Ev
    BY <1>1 DEF Event, Ev, ReqRec
  <2>2. [cmd |-> "Write", ev |-> Event(r)] \in Cmd
    BY <2>1 DEF Cmd
  <2> QED BY <2>2 DEF SendEnqueue
<1>4. PICK x : x = [y EXCEPT !.pc = "count"]
  OBVIOUS
<1>5. x \in ReqRec /\ x.pc = "count" /\ x.route = y.route /\ x.left = y.left
  BY <1>4, ReqMoves DEF Recording
<1>6. req' = [req EXCEPT ![r] = x]
  BY <1>0, <1>1, <1>4 DEF SendEnqueue, AuditTypes
<1>7. Ahead(x) <= Ahead(req[r])
  BY <1>1, <1>5 DEF Ahead
<1>8. /\ AuditTypes' /\ HaltsWhenDue' /\ LateInv' /\ req'[r] = x
      /\ \A q \in Requests : q # r => req'[q] = req[q]
  <2>1. /\ queue' \in Seq(Cmd) /\ admitted' \in Nat /\ queueLen' \in Int /\ socket' \in Seq(Ev)
        /\ policy.sink # "daemon" => socket' = <<>>
    BY <1>2, <1>3
  <2>2. x.left \in {1, 2} /\ x.route = req[r].route /\ req[r].pc # "overflow"
    BY <1>1, <1>5
  <2> QED BY <1>2, <1>5, <1>6, <1>7, <2>1, <2>2, ReqStep
<1>9. CountInv'
  <2>1. Cardinality(Writes') = Cardinality(Writes) + 1
    BY <1>0, <1>3, WritesGrow
  <2>2. Cardinality(Holders') = Cardinality(Holders) - 1
    BY <1>0, <1>1, <1>5, <1>8, HoldersMove
  <2>3. Cardinality(Enqueuers') = Cardinality(Enqueuers) - 1
    BY <1>0, <1>1, <1>5, <1>8, EnqueuersMove
  <2>4. Cardinality(Holders) \in Nat /\ Cardinality(Writes) \in Nat /\ Cardinality(Enqueuers) \in Nat
    BY <1>0, Countable
  <2>5. FileQueueCap \in Nat
    BY AuditAssumption
  <2> QED BY <1>0, <1>2, <2>1, <2>2, <2>3, <2>4, <2>5 DEF CountInv
<1>10. QueryInv'
  BY <1>0, <1>2, <1>3, QueryWrites
<1> QED BY <1>8, <1>9, <1>10 DEF AuditInv

(* The types while one request moves.                                      *)
LEMMA TypesMove ==
    ASSUME AuditTypes, NEW r \in Requests, NEW x \in ReqRec, req' = [req EXCEPT ![r] = x],
           x.pc \in Recording => x.left \in {1, 2}, halt' \in BOOLEAN, count' \in Nat,
           failures' \in Nat, late' \in [n : Nat, cap : Int],
           UNCHANGED <<policy, queue, queueLen, socket, stored, query, admitted>>
    PROVE  /\ AuditTypes' /\ req'[r] = x
           /\ \A q \in Requests : q # r => req'[q] = req[q]
<1>1. /\ req' \in [Requests -> ReqRec] /\ req'[r] = x
      /\ \A q \in Requests : q # r => req'[q] = req[q]
      /\ \A q \in Requests : req'[q].pc \in Recording => req'[q].left \in {1, 2}
  BY OneReq
<1>2. AuditTypes'
  BY <1>1 DEF AuditTypes
<1> QED BY <1>1, <1>2

(* A request counts an event while the server is halted.                   *)
LEMMA LateCounts ==
    ASSUME AuditTypes, AuditTypes', LateInv, halt, halt', NEW r \in Requests,
           req[r].route # "webhook", req'[r].route # "webhook", Ahead(req[r]) >= 1,
           Ahead(req'[r]) = Ahead(req[r]) - 1, late' = [late EXCEPT !.n = @ + 1],
           \A q \in Requests : q # r => req'[q] = req[q]
    PROVE  LateInv'
<1>1. \A q \in Requests : Ahead(req[q]) \in 0..2 /\ Ahead(req'[q]) \in 0..2
  BY AheadTyped DEF AuditTypes
<1>2. Behind(1)' \subseteq Behind(1) /\ Behind(2)' \subseteq Behind(2)
  BY <1>1 DEF Behind
<1>3. PICK a, b, c, d : /\ a = Cardinality(Behind(1)) /\ b = Cardinality(Behind(2))
                        /\ c = Cardinality(Behind(1)') /\ d = Cardinality(Behind(2)')
  OBVIOUS
<1>4. c <= a /\ d <= b
  BY <1>2, <1>3, BehindCountable, FS_Subset
<1>5. a \in Nat /\ b \in Nat /\ c \in Nat /\ d \in Nat
  BY <1>3, BehindCountable, BehindCountablePrimed
<1>6. c <= a - 1 \/ d <= b - 1
  <2>1. CASE Ahead(req[r]) = 1
    <3>1. r \in Behind(1) /\ Behind(1)' \subseteq Behind(1) \ {r}
      BY <1>1, <1>2, <2>1 DEF Behind
    <3> QED BY <1>3, <3>1, BehindCountable, OneLess
  <2>2. CASE Ahead(req[r]) = 2
    <3>1. r \in Behind(2) /\ Behind(2)' \subseteq Behind(2) \ {r}
      BY <1>1, <1>2, <2>2 DEF Behind
    <3> QED BY <1>3, <3>1, BehindCountable, OneLess
  <2> QED BY <1>1, <2>1, <2>2
<1>7. late.n \in Nat /\ late.cap \in Int /\ late'.n = late.n + 1 /\ late'.cap = late.cap
  BY DEF AuditTypes
<1> QED BY <1>3, <1>4, <1>5, <1>6, <1>7 DEF LateInv

LEMMA CountEventKeeps ==
    ASSUME AuditInv, NEW r \in Requests, CountEvent(r)
    PROVE  AuditInv'
<1>0. AuditTypes /\ CountInv /\ QueryInv /\ LateInv /\ HaltsWhenDue
  BY DEF AuditInv
<1>1. PICK y \in ReqRec : y = req[r] /\ y.pc = "count" /\ y.left \in {1, 2}
  BY <1>0 DEF AuditTypes, CountEvent, Recording
<1>2. /\ count \in Nat /\ count' = count + 1 /\ halt \in BOOLEAN /\ failures \in Nat
      /\ late \in [n : Nat, cap : Int]
      /\ UNCHANGED <<policy, halt, failures, queue, queueLen, socket, stored, query, admitted, lost>>
      /\ late' = IF halt /\ req[r].route # "webhook" THEN [late EXCEPT !.n = @ + 1] ELSE late
  BY <1>0 DEF CountEvent, AuditTypes
<1>3. PICK k : k = count + 1 /\ k \in Nat
  BY <1>2
<1>4. PICK z \in ReqRec : z = [y EXCEPT !.n = k]
  BY <1>3 DEF ReqRec
<1>5. PICK x : x = [z EXCEPT !.pc = "overflow"]
  OBVIOUS
<1>6. x \in ReqRec /\ x.pc = "overflow" /\ x.route = y.route /\ x.left = y.left /\ x.n = k
  <2>1. x \in ReqRec /\ x.pc = "overflow" /\ x.route = z.route /\ x.left = z.left /\ x.n = z.n
    BY <1>5, ReqMoves DEF Recording
  <2>2. z.route = y.route /\ z.left = y.left /\ z.n = k
    BY <1>4 DEF ReqRec
  <2> QED BY <2>1, <2>2
<1>7. req' = [req EXCEPT ![r] = x]
  <2>1. req' = [req EXCEPT ![r].pc = "overflow", ![r].n = k]
    BY <1>3 DEF CountEvent
  <2>2. req \in [Requests -> ReqRec]
    BY <1>0 DEF AuditTypes
  <2>3. x = [y EXCEPT !.pc = "overflow", !.n = k]
    BY <1>4, <1>5 DEF ReqRec
  <2> QED BY <1>1, <2>1, <2>2, <2>3 DEF ReqRec
<1>8. late' \in [n : Nat, cap : Int]
  BY <1>2
<1>9. /\ AuditTypes' /\ req'[r] = x
      /\ \A q \in Requests : q # r => req'[q] = req[q]
  <2>1. halt' \in BOOLEAN /\ count' \in Nat /\ failures' \in Nat
    BY <1>2
  <2>2. x.left \in {1, 2}
    BY <1>1, <1>6
  <2> QED BY <1>0, <1>2, <1>6, <1>7, <1>8, <2>1, <2>2, TypesMove
<1>10. CountInv'
  BY <1>0, <1>1, <1>2, <1>6, <1>9, CountStill
<1>11. QueryInv'
  BY <1>0, <1>2, QueryStill
<1>12. HaltsWhenDue'
  <2>1. x.n = count' /\ req'[r].pc = "overflow"
    BY <1>2, <1>3, <1>6, <1>9
  <2>2. policy.overflow = "halt" /\ count' >= MaxEvents => req'[r].pc = "overflow" /\ req'[r].n >= MaxEvents
    BY <1>9, <2>1
  <2> QED BY <1>0, <1>2, <2>2 DEF HaltsWhenDue
<1>13. LateInv'
  <2>1. Ahead(req'[r]) = Ahead(req[r]) - 1 /\ Ahead(req[r]) \in {1, 2}
    BY <1>1, <1>6, <1>9 DEF Ahead
  <2>2. req'[r].route = req[r].route
    BY <1>1, <1>6, <1>9
  <2>3. CASE ~halt
    BY <1>0, <1>2, <2>3 DEF LateInv
  <2>4. CASE halt /\ req[r].route # "webhook"
    BY <1>0, <1>2, <1>9, <2>1, <2>2, <2>4, LateCounts
  <2>5. CASE req[r].route = "webhook"
    <3>1. \A q \in Requests : Ahead(req[q]) \in 0..2
      BY <1>0, AheadTyped DEF AuditTypes
    <3>2. \A q \in Requests : Fades(q)
      BY <1>9, <2>2, <2>5, <3>1 DEF Fades
    <3> QED BY <1>0, <1>2, <1>9, <2>5, <3>2, LateKept
  <2> QED BY <2>3, <2>4, <2>5
<1> QED BY <1>0, <1>9, <1>10, <1>11, <1>12, <1>13 DEF AuditInv

(* A recording or a tracking ends, and the flag may go up.                 *)
LEMMA LateEnds ==
    ASSUME AuditTypes, AuditTypes', LateInv, halt => halt', Halting, NEW r \in Requests,
           req[r].pc # "idle", Ahead(req'[r]) <= 1, Fades(r),
           \A q \in Requests : q # r => req'[q] = req[q]
    PROVE  LateInv'
<1>1. CASE halt' /\ ~halt
  BY <1>1, LateHalts
<1>2. CASE ~(halt' /\ ~halt)
  <2>1. late' = late
    BY <1>2 DEF Halting
  <2>2. halt' = halt
    BY <1>2 DEF AuditTypes
  <2>3. \A q \in Requests : Ahead(req[q]) \in 0..2
    BY AheadTyped DEF AuditTypes
  <2>4. \A q \in Requests : Fades(q)
    BY <2>3 DEF Fades
  <2> QED BY <2>1, <2>2, <2>4, LateKept
<1> QED BY <1>1, <1>2

LEMMA LateTyped ==
    ASSUME AuditTypes, Halting
    PROVE  late' \in [n : Nat, cap : Int]
<1>1. IsFiniteSet({r \in Requests : req[r].pc # "idle"})
  <2>1. IsFiniteSet(Requests) /\ {r \in Requests : req[r].pc # "idle"} \subseteq Requests
    BY AuditAssumption
  <2> QED BY <2>1, FS_Subset
<1>2. PICK f : f = Cardinality({r \in Requests : req[r].pc # "idle"}) /\ f \in Nat
  BY <1>1, FS_CardinalityType
<1>3. late \in [n : Nat, cap : Int] /\ 2 * f - 1 \in Int
  BY <1>2 DEF AuditTypes
<1>4. late' = late \/ late' = [late EXCEPT !.cap = 2 * f - 1]
  BY <1>2 DEF Halting
<1> QED BY <1>3, <1>4

LEMMA OverflowKeeps ==
    ASSUME AuditInv, NEW r \in Requests, Overflow(r)
    PROVE  AuditInv'
<1>0. AuditTypes /\ CountInv /\ QueryInv /\ LateInv /\ HaltsWhenDue
  BY DEF AuditInv
<1>1. PICK y \in ReqRec : y = req[r] /\ y.pc = "overflow" /\ y.left \in {1, 2}
  BY <1>0 DEF AuditTypes, Overflow, Recording
<1>2. /\ count \in Nat /\ failures \in Nat /\ Halting
      /\ UNCHANGED <<policy, count, failures, queue, queueLen, socket, stored, query, admitted, lost>>
  BY <1>0 DEF Overflow, AuditTypes
<1>3. /\ halt' \in BOOLEAN
      /\ halt => halt'
      /\ policy.overflow = "halt" /\ req[r].n >= MaxEvents => halt'
  BY DEF Overflow
<1>4. PICK x : x = AfterRecord(r, FALSE)
  OBVIOUS
<1>5. /\ x \in ReqRec /\ x.pc \in {"send", "track"} /\ x.route = y.route
      /\ x.pc = "send" => x.left = 1 /\ y.left = 2
  BY <1>0, <1>1, <1>4, AfterRecordTyped DEF Recording
<1>6. req' = [req EXCEPT ![r] = x]
  BY <1>4 DEF Overflow
<1>7. x.pc \in Recording => x.left \in {1, 2}
  BY <1>5 DEF Recording
<1>8. late' \in [n : Nat, cap : Int]
  BY <1>0, <1>2, LateTyped
<1>9. /\ AuditTypes' /\ req'[r] = x
      /\ \A q \in Requests : q # r => req'[q] = req[q]
  <2>1. count' \in Nat /\ failures' \in Nat
    BY <1>2
  <2> QED BY <1>0, <1>2, <1>3, <1>5, <1>6, <1>7, <1>8, <2>1, TypesMove
<1>10. CountInv'
  BY <1>0, <1>1, <1>2, <1>5, <1>9, CountStill
<1>11. QueryInv'
  BY <1>0, <1>2, QueryStill
<1>12. HaltsWhenDue'
  <2>1. ASSUME policy.overflow = "halt", count >= MaxEvents
        PROVE  halt' \/ (\E q \in Requests : req'[q].pc = "overflow" /\ req'[q].n >= MaxEvents)
    <3>1. halt \/ (\E q \in Requests : req[q].pc = "overflow" /\ req[q].n >= MaxEvents)
      BY <1>0, <2>1 DEF HaltsWhenDue
    <3> QED BY <1>3, <1>9, <2>1, <3>1
  <2>2. failures >= AlarmThreshold => halt'
    BY <1>0, <1>3 DEF HaltsWhenDue
  <2> QED BY <1>2, <2>1, <2>2 DEF HaltsWhenDue
<1>13. LateInv'
  <2>1. Ahead(x) <= Ahead(y) /\ Ahead(x) <= 1
    BY <1>1, <1>5 DEF Ahead
  <2>2. Fades(r) /\ Ahead(req'[r]) <= 1 /\ req[r].pc # "idle"
    BY <1>1, <1>5, <1>9, <2>1 DEF Fades
  <2> QED BY <1>0, <1>2, <1>3, <1>9, <2>2, LateEnds
<1> QED BY <1>9, <1>10, <1>11, <1>12, <1>13 DEF AuditInv

LEMMA TrackKeeps ==
    ASSUME AuditInv, NEW r \in Requests, track_record_result(r)
    PROVE  AuditInv'
<1>0. AuditTypes /\ CountInv /\ QueryInv /\ LateInv /\ HaltsWhenDue
  BY DEF AuditInv
<1>1. PICK y \in ReqRec : y = req[r] /\ y.pc = "track"
  BY <1>0 DEF AuditTypes, track_record_result
<1>2. /\ count \in Nat /\ failures \in Nat /\ Halting /\ AlarmThreshold \in Nat \ {0}
      /\ UNCHANGED <<policy, count, queue, queueLen, socket, stored, query, admitted, lost>>
      /\ req' = [req EXCEPT ![r] = IdleReq]
  BY <1>0, AuditAssumption DEF track_record_result, AuditTypes
<1>3. halt' \in BOOLEAN /\ (halt => halt')
  BY DEF track_record_result
<1>4. failures' \in Nat /\ (failures' >= AlarmThreshold => halt')
  <2>1. CASE req[r].failed
    <3>1. failures' = failures + 1 /\ (failures + 1 >= AlarmThreshold => halt')
      BY <2>1 DEF track_record_result
    <3> QED BY <1>2, <3>1
  <2>2. CASE ~req[r].failed
    <3>1. failures' = 0
      BY <2>2 DEF track_record_result
    <3> QED BY <1>2, <3>1
  <2> QED BY <2>1, <2>2
<1>5. IdleReq \in ReqRec /\ IdleReq.pc = "idle"
  BY IdleReqTyped
<1>6. late' \in [n : Nat, cap : Int]
  BY <1>0, <1>2, LateTyped
<1>7. /\ AuditTypes' /\ req'[r] = IdleReq
      /\ \A q \in Requests : q # r => req'[q] = req[q]
  <2>1. count' \in Nat /\ IdleReq.pc \notin Recording
    BY <1>2, <1>5 DEF Recording
  <2> QED BY <1>0, <1>2, <1>3, <1>4, <1>5, <1>6, <2>1, TypesMove
<1>8. CountInv'
  BY <1>0, <1>1, <1>2, <1>5, <1>7, CountStill
<1>9. QueryInv'
  BY <1>0, <1>2, QueryStill
<1>10. HaltsWhenDue'
  <2>1. ASSUME policy.overflow = "halt", count >= MaxEvents
        PROVE  halt' \/ (\E q \in Requests : req'[q].pc = "overflow" /\ req'[q].n >= MaxEvents)
    <3>1. halt \/ (\E q \in Requests : req[q].pc = "overflow" /\ req[q].n >= MaxEvents)
      BY <1>0, <2>1 DEF HaltsWhenDue
    <3>2. req[r].pc # "overflow"
      BY <1>1
    <3> QED BY <1>3, <1>7, <3>1, <3>2
  <2> QED BY <1>2, <1>4, <2>1 DEF HaltsWhenDue
<1>11. LateInv'
  <2>1. Ahead(IdleReq) = 0
    BY <1>5 DEF Ahead
  <2>2. Fades(r) /\ Ahead(req'[r]) <= 1 /\ req[r].pc # "idle"
    BY <1>1, <1>7, <2>1 DEF Fades
  <2> QED BY <1>0, <1>2, <1>3, <1>7, <2>2, LateEnds
<1> QED BY <1>7, <1>8, <1>9, <1>10, <1>11 DEF AuditInv

(* What the requests count and what they are late with is untouched by     *)
(* the journal's own steps.                                                *)
LEMMA JournalStill ==
    ASSUME AuditInv, UNCHANGED <<policy, halt, count, failures, req, late>>
    PROVE  HaltsWhenDue' /\ LateInv' /\ Holders' = Holders /\ Enqueuers' = Enqueuers
<1>1. HaltsWhenDue'
  BY DEF AuditInv, HaltsWhenDue
<1>2. Behind(1)' = Behind(1) /\ Behind(2)' = Behind(2)
  BY DEF Behind
<1>3. LateInv'
  BY <1>2 DEF AuditInv, LateInv
<1>4. Holders' = Holders /\ Enqueuers' = Enqueuers
  BY DEF Holders, Enqueuers
<1> QED BY <1>1, <1>3, <1>4

(* The trail is left alone.                                                *)
LEMMA AuditStill ==
    ASSUME AuditInv, UNCHANGED <<policy, halt, count, failures, req, queue, queueLen, socket,
                                 stored, query, admitted, lost, late>>
    PROVE  AuditInv'
<1>1. HaltsWhenDue' /\ LateInv' /\ Holders' = Holders /\ Enqueuers' = Enqueuers
  BY JournalStill
<1>2. AuditTypes'
  BY DEF AuditInv, AuditTypes
<1>3. Writes' = Writes
  BY DEF Writes
<1>4. CountInv'
  BY <1>1, <1>3 DEF AuditInv, CountInv
<1>5. QueryInv'
  BY QueryStill DEF AuditInv
<1> QED BY <1>1, <1>2, <1>4, <1>5 DEF AuditInv

-----------------------------------------------------------------------------
(* The journal: the writer takes a command from the head of its channel.   *)
LEMMA WriterMoves ==
    ASSUME AuditTypes, queue # <<>>, queue' = Tail(queue)
    PROVE  /\ \A i \in Flushes' : i + 1 \in Flushes
           /\ \A j \in 1..Len(queue) : j # 1 => /\ j - 1 \in 1..Len(queue') /\ queue'[j - 1] = queue[j]
                                                /\ j \in Flushes => j - 1 \in Flushes'
           /\ Head(queue) = queue[1] /\ 1 \in 1..Len(queue)
           /\ queue' \in Seq(Cmd) /\ queue[1] \in Cmd /\ Len(queue) \in Nat
<1>1. /\ Len(queue') = Len(queue) - 1 /\ Len(queue) \in Nat \ {0} /\ Head(queue) = queue[1]
      /\ \A i \in 1..Len(queue') : queue'[i] = queue[i + 1]
      /\ queue' \in Seq(Cmd) /\ queue[1] \in Cmd
  BY DEF AuditTypes
<1>2. \A i \in Flushes' : i + 1 \in Flushes
  BY <1>1 DEF Flushes
<1>3. \A j \in 1..Len(queue) : j # 1 => j - 1 \in 1..Len(queue') /\ queue'[j - 1] = queue[j]
  BY <1>1
<1>4. \A j \in Flushes : j # 1 => j - 1 \in Flushes'
  BY <1>3 DEF Flushes
<1> QED BY <1>1, <1>2, <1>3, <1>4

LEMMA WriterQuery ==
    ASSUME AuditTypes, QueryInv, file_writer_loop, Head(queue).cmd = "Write"
    PROVE  QueryInv'
<1>1. /\ queue # <<>> /\ queue' = Tail(queue) /\ query' = query /\ policy' = policy
      /\ \/ stored' = Append(stored, Head(queue).ev) /\ lost' = lost
         \/ lost' = lost \union {Head(queue).ev} /\ stored' = stored
  BY DEF file_writer_loop
<1>2. /\ \A i \in Flushes' : i + 1 \in Flushes
      /\ \A j \in 1..Len(queue) : j # 1 => /\ j - 1 \in 1..Len(queue') /\ queue'[j - 1] = queue[j]
                                           /\ j \in Flushes => j - 1 \in Flushes'
      /\ Head(queue) = queue[1] /\ 1 \in 1..Len(queue) /\ Len(queue) \in Nat /\ queue[1] \in Cmd
  BY <1>1, WriterMoves
<1>w. PICK w : w = queue[1].ev
  OBVIOUS
<1>3. (\A e : Kept(e) => Kept(e)') /\ Kept(w)'
  <2>1. CASE stored' = Append(stored, w) /\ lost' = lost
    <3>1. /\ Len(stored') = Len(stored) + 1 /\ Len(stored) \in Nat
          /\ stored'[Len(stored) + 1] = w
          /\ \A i \in 1..Len(stored) : i \in 1..Len(stored') /\ stored'[i] = stored[i]
      <4>1. stored \in Seq(Ev) /\ w \in Ev
        BY <1>2, <1>w DEF AuditTypes, Cmd
      <4> QED BY <2>1, <4>1
    <3>2. Len(stored) + 1 \in 1..Len(stored')
      BY <3>1
    <3> QED BY <2>1, <3>1, <3>2 DEF Kept
  <2>2. CASE lost' = lost \union {w} /\ stored' = stored
    BY <2>2 DEF Kept
  <2> QED BY <1>1, <1>2, <1>w, <2>1, <2>2
<1>4. \A i, j \in Flushes' : i = j
  <2>1. \A i \in Flushes' : i \in Int
    BY DEF Flushes
  <2>2. \A i, j \in Flushes : i = j
    BY DEF QueryInv
  <2> QED BY <1>2, <2>1, <2>2
<1>5. query.pc # "wait" => Flushes' = {}
  BY <1>2 DEF QueryInv
<1>6. ASSUME policy.sink = "file", query.pc = "wait"
      PROVE  \E f \in Flushes' : \A e \in query.before :
                Kept(e)' \/ \E j \in 1..Len(queue') : j < f /\ queue'[j].cmd = "Write" /\ queue'[j].ev = e
  <2>1. PICK f \in Flushes : \A e \in query.before :
           Kept(e) \/ \E j \in 1..Len(queue) : j < f /\ queue[j].cmd = "Write" /\ queue[j].ev = e
    BY <1>6 DEF QueryInv
  <2>2. f \in 1..Len(queue) /\ f # 1
    BY <1>2, <2>1 DEF Flushes
  <2>3. f - 1 \in Flushes'
    BY <1>2, <2>1, <2>2
  <2>4. ASSUME NEW e \in query.before
        PROVE  Kept(e)' \/ \E j \in 1..Len(queue') : j < f - 1 /\ queue'[j].cmd = "Write" /\ queue'[j].ev = e
    <3>1. CASE Kept(e)
      BY <1>3, <3>1
    <3>2. ASSUME NEW j \in 1..Len(queue), j < f, queue[j].cmd = "Write", queue[j].ev = e
          PROVE  Kept(e)' \/ \E i \in 1..Len(queue') : i < f - 1 /\ queue'[i].cmd = "Write" /\ queue'[i].ev = e
      <4>1. CASE j = 1
        BY <1>3, <1>w, <3>2, <4>1
      <4>2. CASE j # 1
        <5>1. j - 1 \in 1..Len(queue') /\ queue'[j - 1] = queue[j]
          BY <1>2, <4>2
        <5>2. j - 1 < f - 1
          BY <2>2, <3>2
        <5> QED BY <3>2, <5>1, <5>2
      <4> QED BY <4>1, <4>2
    <3> QED BY <2>1, <3>1, <3>2
  <2> QED BY <2>3, <2>4
<1>7. policy.sink = "file" /\ query.pc = "read" => \A e \in query.before : Kept(e)'
  BY <1>3 DEF QueryInv
<1>8. ReadYourWrites'
  <2>1. lost \subseteq lost'
    BY <1>1
  <2> QED BY <1>1, <2>1 DEF QueryInv, ReadYourWrites
<1>9. (policy.sink = "file" /\ query.pc = "wait" =>
          \E f \in Flushes : \A e \in query.before :
              Kept(e) \/ \E j \in 1..Len(queue) : j < f /\ queue[j].cmd = "Write" /\ queue[j].ev = e)'
  BY <1>1, <1>6
<1>10. (policy.sink = "file" /\ query.pc = "read" => \A e \in query.before : Kept(e))'
  BY <1>1, <1>7
<1>11. (query.pc # "wait" => Flushes = {})'
  BY <1>1, <1>5
<1> QED BY <1>4, <1>8, <1>9, <1>10, <1>11 DEF QueryInv

LEMMA WriterFlushes ==
    ASSUME AuditTypes, QueryInv, file_writer_loop, Head(queue).cmd # "Write"
    PROVE  QueryInv' /\ query' \in QueryRec
<1>1. /\ queue # <<>> /\ queue' = Tail(queue) /\ query' = [query EXCEPT !.pc = "read"]
      /\ UNCHANGED <<policy, stored, lost>>
  BY DEF file_writer_loop
<1>2. query' \in QueryRec /\ query'.pc = "read" /\ query'.before = query.before
  BY <1>1 DEF AuditTypes, QueryRec
<1>3. /\ \A i \in Flushes' : i + 1 \in Flushes
      /\ Head(queue) = queue[1] /\ 1 \in 1..Len(queue) /\ queue[1] \in Cmd
  BY <1>1, WriterMoves
<1>4. 1 \in Flushes
  BY <1>3 DEF Flushes, Cmd
<1>5. \A f \in Flushes : f = 1
  BY <1>4 DEF QueryInv
<1>6. Flushes' = {}
  <2>1. \A i \in Flushes' : i \in 1..Len(queue')
    BY DEF Flushes
  <2>2. \A i \in Flushes' : i + 1 = 1 /\ i \in Int /\ i >= 1
    BY <1>3, <1>5, <2>1
  <2> QED BY <2>2
<1>7. policy.sink = "file" => \A e \in query.before : Kept(e)
  <2>1. query.pc = "wait"
    BY <1>4 DEF QueryInv
  <2>2. SUFFICES ASSUME policy.sink = "file", NEW e \in query.before PROVE Kept(e)
    OBVIOUS
  <2>3. PICK f \in Flushes :
           Kept(e) \/ \E j \in 1..Len(queue) : j < f /\ queue[j].cmd = "Write" /\ queue[j].ev = e
    BY <2>1, <2>2 DEF QueryInv
  <2>4. \A j \in 1..Len(queue) : ~(j < f)
    BY <1>5, <2>3
  <2> QED BY <2>3, <2>4
<1>8. \A e : Kept(e)' <=> Kept(e)
  BY <1>1 DEF Kept
<1>9. (policy.sink = "file" /\ query.pc = "read" => \A e \in query.before : Kept(e))'
  BY <1>1, <1>2, <1>7, <1>8
<1>10. ReadYourWrites'
  BY <1>2 DEF ReadYourWrites
<1> QED BY <1>2, <1>6, <1>9, <1>10 DEF QueryInv

LEMMA WriterKeeps ==
    ASSUME AuditInv, file_writer_loop
    PROVE  AuditInv'
<1>0. AuditTypes /\ CountInv /\ QueryInv
  BY DEF AuditInv
<1>1. /\ queue # <<>> /\ queue' = Tail(queue)
      /\ UNCHANGED <<policy, halt, count, failures, req, socket, admitted, late>>
  BY DEF file_writer_loop
<1>2. HaltsWhenDue' /\ LateInv' /\ Holders' = Holders /\ Enqueuers' = Enqueuers
  BY <1>1, JournalStill
<1>3. /\ queue' \in Seq(Cmd) /\ queue[1] \in Cmd /\ Head(queue) = queue[1]
  BY <1>0, <1>1, WriterMoves
<1>4. /\ Cardinality(Holders) \in Nat /\ Cardinality(Writes) \in Nat /\ Cardinality(Enqueuers) \in Nat
      /\ queueLen \in Int /\ FileQueueCap \in Nat
  BY <1>0, Countable, AuditAssumption DEF AuditTypes
<1>5. CASE Head(queue).cmd = "Write"
  <2>1. /\ queueLen' = queueLen - 1 /\ query' = query
        /\ stored' = Append(stored, Head(queue).ev) \/ stored' = stored
    BY <1>5 DEF file_writer_loop
  <2>2. stored' \in Seq(Ev)
    <3>1. stored \in Seq(Ev) /\ Head(queue).ev \in Ev
      BY <1>0, <1>3 DEF AuditTypes, Cmd
    <3> QED BY <2>1, <3>1
  <2>3. AuditTypes'
    <3>1. queueLen' \in Int
      BY <1>4, <2>1
    <3> QED BY <1>0, <1>1, <1>3, <2>1, <2>2, <3>1 DEF AuditTypes
  <2>4. Cardinality(Writes') = Cardinality(Writes) - 1
    BY <1>0, <1>1, <1>5, WritesShrink
  <2>5. CountInv'
    BY <1>0, <1>2, <1>4, <2>1, <2>4 DEF CountInv
  <2>6. QueryInv'
    BY <1>0, <1>5, WriterQuery
  <2> QED BY <1>2, <2>3, <2>5, <2>6 DEF AuditInv
<1>6. CASE Head(queue).cmd # "Write"
  <2>1. UNCHANGED <<queueLen, stored, lost>>
    BY <1>6 DEF file_writer_loop
  <2>2. QueryInv' /\ query' \in QueryRec
    BY <1>0, <1>6, WriterFlushes
  <2>3. AuditTypes'
    BY <1>0, <1>1, <1>3, <2>1, <2>2 DEF AuditTypes
  <2>4. Cardinality(Writes') = Cardinality(Writes)
    BY <1>0, <1>1, <1>6, WritesShrink
  <2>5. CountInv'
    BY <1>0, <1>2, <2>1, <2>4 DEF CountInv
  <2> QED BY <1>2, <2>2, <2>3, <2>5 DEF AuditInv
<1> QED BY <1>5, <1>6

LEMMA DaemonKeeps ==
    ASSUME AuditInv, DaemonReceive
    PROVE  AuditInv'
<1>0. AuditTypes /\ CountInv /\ QueryInv
  BY DEF AuditInv
<1>1. /\ socket # <<>> /\ socket' = Tail(socket)
      /\ UNCHANGED <<policy, halt, count, failures, req, queue, queueLen, query, admitted, lost, late>>
  BY DEF DaemonReceive
<1>2. HaltsWhenDue' /\ LateInv' /\ Holders' = Holders /\ Enqueuers' = Enqueuers
  BY <1>1, JournalStill
<1>3. policy.sink = "daemon"
  BY <1>0, <1>1 DEF AuditTypes
<1>4. socket' \in Seq(Ev) /\ stored' \in Seq(Ev)
  <2>1. socket \in Seq(Ev) /\ stored \in Seq(Ev) /\ DaemonDrain \in Nat /\ Head(socket) \in Ev
    BY <1>0, <1>1, AuditAssumption DEF AuditTypes
  <2>2. SubSeq(stored, DaemonDrain + 1, Len(stored)) \in Seq(Ev)
    <3>1. \A i \in (DaemonDrain + 1)..Len(stored) : stored[i] \in Ev
      BY <2>1
    <3> QED BY <2>1, <3>1, SubSeqProperties
  <2>3. PICK s \in Seq(Ev) : stored' = Append(s, Head(socket))
    BY <2>1, <2>2 DEF DaemonReceive
  <2> QED BY <1>1, <2>1, <2>3
<1>5. AuditTypes'
  BY <1>0, <1>1, <1>3, <1>4 DEF AuditTypes
<1>6. Writes' = Writes /\ Flushes' = Flushes
  BY <1>1 DEF Writes, Flushes
<1>7. CountInv'
  BY <1>0, <1>1, <1>2, <1>6 DEF CountInv
<1>8. QueryInv'
  BY <1>0, <1>1, <1>3, <1>6 DEF QueryInv, ReadYourWrites
<1> QED BY <1>2, <1>5, <1>7, <1>8 DEF AuditInv

(* A query asks for a flush: everything delivered is in front of it.       *)
LEMMA QueryFlushKeeps ==
    ASSUME AuditInv, QueryFlush
    PROVE  AuditInv'
<1>0. AuditTypes /\ CountInv /\ QueryInv
  BY DEF AuditInv
<1>1. /\ query.pc = "idle" /\ query' = [query EXCEPT !.pc = "wait", !.before = Delivered]
      /\ UNCHANGED <<policy, halt, count, failures, req, queueLen, socket, stored, admitted, lost, late>>
  BY DEF QueryFlush
<1>2. HaltsWhenDue' /\ LateInv' /\ Holders' = Holders /\ Enqueuers' = Enqueuers
  BY <1>1, JournalStill
<1>3. PICK c \in Cmd : c.cmd = "Flush" /\ queue' = Append(queue, c)
  <2>1. [cmd |-> "Flush", ev |-> <<0, 0>>] \in Cmd
    BY DEF Cmd, Ev
  <2> QED BY <2>1 DEF QueryFlush
<1>4. /\ Len(queue') = Len(queue) + 1 /\ Len(queue) \in Nat /\ queue'[Len(queue) + 1] = c
      /\ \A i \in 1..Len(queue) : queue'[i] = queue[i]
      /\ queue' \in Seq(Cmd)
  BY <1>0, <1>3 DEF AuditTypes
<1>5. PICK d : d = Delivered /\ d \in SUBSET Ev
  <2>1. admitted \in Nat
    BY <1>0 DEF AuditTypes
  <2>2. (1..admitted) \X (1..2) \subseteq Ev
    BY <2>1 DEF Ev
  <2>3. Delivered \subseteq (1..admitted) \X (1..2)
    BY DEF Delivered
  <2> QED BY <2>2, <2>3
<1>6. query' \in QueryRec /\ query'.pc = "wait" /\ query'.before = d
  <2>1. query' = [query EXCEPT !.pc = "wait", !.before = d]
    BY <1>1, <1>5
  <2> QED BY <1>0, <1>5, <2>1 DEF AuditTypes, QueryRec
<1>7. AuditTypes'
  BY <1>0, <1>1, <1>4, <1>6 DEF AuditTypes
<1>8. CountInv'
  <2>1. Cardinality(Writes') = Cardinality(Writes)
    BY <1>0, <1>3, WritesGrow
  <2> QED BY <1>0, <1>1, <1>2, <2>1 DEF CountInv
<1>9. QueryInv'
  <2>1. Flushes = {}
    BY <1>0, <1>1 DEF QueryInv
  <2>2. Flushes' = {Len(queue) + 1}
    BY <1>3, <1>4, <2>1 DEF Flushes
  <2>3. ASSUME NEW e \in d
        PROVE  Kept(e)' \/ \E j \in 1..Len(queue') :
                              j < Len(queue) + 1 /\ queue'[j].cmd = "Write" /\ queue'[j].ev = e
    <3>1. \/ \E j \in 1..Len(queue) : queue[j].cmd = "Write" /\ queue[j].ev = e
          \/ \E j \in 1..Len(stored) : stored[j] = e
      BY <1>5, <2>3 DEF Delivered
    <3>2. CASE \E j \in 1..Len(queue) : queue[j].cmd = "Write" /\ queue[j].ev = e
      BY <1>4, <3>2
    <3>3. CASE \E j \in 1..Len(stored) : stored[j] = e
      BY <1>1, <3>3 DEF Kept
    <3> QED BY <3>1, <3>2, <3>3
  <2>4. \E f \in Flushes' : \A e \in query'.before :
          Kept(e)' \/ \E j \in 1..Len(queue') : j < f /\ queue'[j].cmd = "Write" /\ queue'[j].ev = e
    BY <1>6, <2>2, <2>3
  <2>5. \A i, j \in Flushes' : i = j
    BY <2>2
  <2>6. ReadYourWrites'
    BY <1>6 DEF ReadYourWrites
  <2> QED BY <1>6, <2>4, <2>5, <2>6 DEF QueryInv
<1> QED BY <1>2, <1>7, <1>8, <1>9 DEF AuditInv

(* The scan of a file that fits returns all of it, newest first.           *)
LEMMA ReverseKeepsAll ==
    ASSUME NEW s \in Seq(Ev)
    PROVE  Reverse(s) \in Seq(Ev) /\ \A j \in 1..Len(s) : s[j] \in ToSet(Reverse(s))
<1>1. Len(s) \in Nat /\ \A i \in 1..Len(s) : (Len(s) - i) + 1 \in 1..Len(s)
  OBVIOUS
<1>2. Reverse(s) \in Seq(Ev) /\ DOMAIN Reverse(s) = 1..Len(s)
  BY <1>1 DEF Reverse
<1>3. \A i \in 1..Len(s) : Reverse(s)[i] = s[(Len(s) - i) + 1]
  BY DEF Reverse
<1>4. ASSUME NEW j \in 1..Len(s) PROVE s[j] \in ToSet(Reverse(s))
  <2>1. PICK i \in 1..Len(s) : i = (Len(s) - j) + 1 /\ (Len(s) - i) + 1 = j
    BY <1>1
  <2>2. Reverse(s)[i] = s[j]
    BY <1>3, <2>1
  <2> QED BY <1>2, <2>2 DEF ToSet
<1> QED BY <1>2, <1>4

LEMMA QueryReadKeeps ==
    ASSUME AuditInv, QueryRead
    PROVE  AuditInv'
<1>0. AuditTypes /\ CountInv /\ QueryInv
  BY DEF AuditInv
<1>1. /\ query.pc \in {"read", "idle"} /\ (policy.sink = "file" => query.pc = "read")
      /\ UNCHANGED <<policy, halt, count, failures, req, queue, queueLen, socket, stored, admitted, lost, late>>
  BY DEF QueryRead
<1>2. HaltsWhenDue' /\ LateInv' /\ Holders' = Holders /\ Enqueuers' = Enqueuers
  BY <1>1, JournalStill
<1>3. stored \in Seq(Ev) /\ Len(stored) \in Nat /\ MaxQueryLines \in Nat
  BY <1>0, AuditAssumption DEF AuditTypes
<1>4. PICK out : out = IF policy.sink = "file" THEN query_file ELSE query_store
  OBVIOUS
<1>5. query' = [query EXCEPT !.pc = "done", !.file = Len(stored), !.rows = out]
  BY <1>4 DEF QueryRead
<1>6. out \in Seq(Ev)
  <2>1. query_store \in Seq(Ev)
    BY <1>3, ReverseKeepsAll DEF query_store
  <2>2. query_file \in Seq(Ev)
    <3>1. PICK m : m = (IF Len(stored) < MaxQueryLines THEN Len(stored) ELSE MaxQueryLines) /\ m \in 0..Len(stored)
      BY <1>3
    <3>2. SubSeq(stored, 1, m) \in Seq(Ev)
      BY <1>3, <3>1
    <3> QED BY <3>1, <3>2, ReverseKeepsAll DEF query_file
  <2> QED BY <1>4, <2>1, <2>2
<1>7. /\ query' \in QueryRec /\ query'.pc = "done" /\ query'.rows = out
      /\ query'.file = Len(stored) /\ query'.before = query.before
  BY <1>0, <1>3, <1>5, <1>6 DEF AuditTypes, QueryRec
<1>8. AuditTypes'
  BY <1>0, <1>1, <1>7 DEF AuditTypes
<1>9. Writes' = Writes /\ Flushes' = Flushes
  BY <1>1 DEF Writes, Flushes
<1>10. CountInv'
  BY <1>0, <1>1, <1>2, <1>9 DEF CountInv
<1>11. Flushes = {}
  BY <1>0, <1>1 DEF QueryInv
<1>12. ASSUME policy.sink = "file", Len(stored) <= MaxQueryLines
       PROVE  query.before \ lost \subseteq ToSet(out)
  <2>1. \A e \in query.before : Kept(e)
    BY <1>0, <1>1, <1>12 DEF QueryInv
  <2>2. out = Reverse(SubSeq(stored, 1, Len(stored)))
    <3>1. (IF Len(stored) < MaxQueryLines THEN Len(stored) ELSE MaxQueryLines) = Len(stored)
      BY <1>3, <1>12
    <3> QED BY <1>4, <1>12, <3>1 DEF query_file
  <2>3. SubSeq(stored, 1, Len(stored)) = stored
    BY <1>3
  <2>4. \A j \in 1..Len(stored) : stored[j] \in ToSet(out)
    BY <1>3, <2>2, <2>3, ReverseKeepsAll
  <2> QED BY <2>1, <2>4 DEF Kept
<1>13. ReadYourWrites'
  BY <1>1, <1>7, <1>12 DEF ReadYourWrites
<1>14. QueryInv'
  BY <1>7, <1>9, <1>11, <1>13 DEF QueryInv
<1> QED BY <1>2, <1>8, <1>10, <1>14 DEF AuditInv

LEMMA QueryDoneKeeps ==
    ASSUME AuditInv, QueryDone
    PROVE  AuditInv'
<1>0. AuditTypes /\ CountInv /\ QueryInv
  BY DEF AuditInv
<1>1. /\ query.pc = "done" /\ query' = [IdleQuery EXCEPT !.n = query.n + 1]
      /\ UNCHANGED <<policy, halt, count, failures, req, queue, queueLen, socket, stored, admitted, lost, late>>
  BY DEF QueryDone
<1>2. HaltsWhenDue' /\ LateInv' /\ Holders' = Holders /\ Enqueuers' = Enqueuers
  BY <1>1, JournalStill
<1>3. query' \in QueryRec /\ query'.pc = "idle"
  <2>1. PICK n : n = query.n + 1 /\ n \in Nat
    BY <1>0 DEF AuditTypes, QueryRec
  <2>2. query' = [pc |-> "idle", before |-> {}, rows |-> <<>>, file |-> 0, n |-> n]
    BY <1>1, <2>1 DEF IdleQuery
  <2> QED BY <2>1, <2>2 DEF QueryRec
<1>4. AuditTypes'
  BY <1>0, <1>1, <1>3 DEF AuditTypes
<1>5. Writes' = Writes /\ Flushes' = Flushes
  BY <1>1 DEF Writes, Flushes
<1>6. CountInv'
  BY <1>0, <1>1, <1>2, <1>5 DEF CountInv
<1>7. Flushes = {}
  BY <1>0, <1>1 DEF QueryInv
<1>8. QueryInv'
  BY <1>3, <1>5, <1>7 DEF QueryInv, ReadYourWrites
<1> QED BY <1>2, <1>4, <1>6, <1>8 DEF AuditInv

-----------------------------------------------------------------------------
LEMMA AuditStarts == AuditInit => AuditInv
<1> SUFFICES ASSUME AuditInit PROVE AuditInv
  OBVIOUS
<1>1. /\ policy \in Policies /\ halt = FALSE /\ count = 0 /\ failures = 0 /\ admitted = 0
      /\ req = [r \in Requests |-> IdleReq] /\ queue = <<>> /\ queueLen = 0 /\ socket = <<>>
      /\ stored = <<>> /\ query = IdleQuery /\ late = [n |-> 0, cap |-> 0]
  BY DEF AuditInit
<1>2. IdleReq \in ReqRec /\ IdleReq.pc = "idle"
  BY IdleReqTyped
<1>3. query \in QueryRec /\ query.pc = "idle"
  BY <1>1 DEF IdleQuery, QueryRec, Ev
<1>4. req \in [Requests -> ReqRec] /\ \A r \in Requests : req[r].pc = "idle"
  BY <1>1, <1>2
<1>5. AuditTypes
  <2>1. \A r \in Requests : req[r].pc \notin Recording
    BY <1>4 DEF Recording
  <2>2. late \in [n : Nat, cap : Int]
    BY <1>1
  <2>3. queue \in Seq(Cmd) /\ socket \in Seq(Ev) /\ stored \in Seq(Ev) /\ queueLen \in Int
    BY <1>1
  <2>4. count \in Nat /\ failures \in Nat /\ admitted \in Nat
    BY <1>1
  <2>5. halt \in BOOLEAN /\ policy \in Policies /\ socket = <<>>
    BY <1>1
  <2> QED BY <1>3, <1>4, <2>1, <2>2, <2>3, <2>4, <2>5 DEF AuditTypes
<1>6. Writes = {} /\ Holders = {} /\ Enqueuers = {} /\ Flushes = {}
  BY <1>1, <1>4 DEF Writes, Holders, Enqueuers, Flushes
<1>7. CountInv
  BY <1>1, <1>6, FS_EmptySet, AuditAssumption DEF CountInv
<1>8. HaltsWhenDue
  BY <1>1, AuditAssumption DEF HaltsWhenDue
<1>9. LateInv
  BY <1>1 DEF LateInv
<1>10. QueryInv
  BY <1>3, <1>6 DEF QueryInv, ReadYourWrites
<1> QED BY <1>5, <1>7, <1>8, <1>9, <1>10 DEF AuditInv

LEMMA AuditSteps == AuditInv /\ [AuditNext]_auditVars => AuditInv'
<1> SUFFICES ASSUME AuditInv, [AuditNext]_auditVars PROVE AuditInv'
  OBVIOUS
<1>1. CASE UNCHANGED auditVars
  BY <1>1, AuditStill DEF auditVars
<1>2. ASSUME NEW r \in Requests, NEW kind \in Kinds, Admit(r, kind) PROVE AuditInv'
  BY <1>2, RecorderAdmitKeeps
<1>3. ASSUME NEW r \in Requests,
             \/ SendSocket(r) \/ SendReserve(r) \/ SendUndo(r) \/ SendEnqueue(r)
             \/ CountEvent(r) \/ Overflow(r) \/ track_record_result(r)
      PROVE  AuditInv'
  BY <1>3, SendSocketKeeps, SendReserveKeeps, SendUndoKeeps, SendEnqueueKeeps, CountEventKeeps,
     OverflowKeeps, TrackKeeps
<1>4. CASE WindowPasses
  BY <1>4, AuditStill DEF WindowPasses
<1>5. CASE file_writer_loop \/ DaemonReceive \/ QueryFlush \/ QueryRead \/ QueryDone
  BY <1>5, WriterKeeps, DaemonKeeps, QueryFlushKeeps, QueryReadKeeps, QueryDoneKeeps
<1> QED BY <1>1, <1>2, <1>3, <1>4, <1>5 DEF AuditNext

(* The inductive invariant gives the four parts of the property.           *)
LEMMA AuditInvSound == AuditInv => AuditSound
<1> SUFFICES ASSUME AuditInv PROVE AuditSound
  OBVIOUS
<1>1. QueueCounter
  <2>1. /\ Cardinality(Writes) \in Nat /\ Cardinality(Enqueuers) \in Nat /\ FileQueueCap \in Nat
    BY Countable, AuditAssumption DEF AuditInv
  <2>2. /\ queueLen = Cardinality(Writes) + Cardinality(Holders)
        /\ Cardinality(Writes) <= FileQueueCap
    BY <2>1 DEF AuditInv, CountInv
  <2> QED BY <2>2 DEF QueueCounter, Holders
<1>2. LateEventsBounded
  <2>1. /\ Cardinality(Behind(1)) \in Nat /\ Cardinality(Behind(2)) \in Nat
        /\ late.n \in Nat /\ late.cap \in Int
    BY BehindCountable DEF AuditInv, AuditTypes
  <2> QED BY <2>1 DEF AuditInv, LateInv, LateEventsBounded
<1> QED BY <1>1, <1>2 DEF AuditInv, QueryInv, AuditSound

(* Recorders, the file writer, halts and queries that overlap (AuditSound):*)
(* the queue's counter is exact and the queue within its cap, the server   *)
(* halts when the events or the failures reach their limits, only requests *)
(* already in flight record after it, and a query returns every event      *)
(* delivered before it began (send, record, track_record_result and        *)
(* query_file).                                                            *)
THEOREM AuditIsSound == AuditSpec => []AuditSound
<1>1. AuditInit => AuditInv
  BY AuditStarts
<1>2. AuditInv /\ [AuditNext]_auditVars => AuditInv'
  BY AuditSteps
<1>3. AuditInv => AuditSound
  BY AuditInvSound
<1> QED BY <1>1, <1>2, <1>3, PTL DEF AuditSpec
=============================================================================
