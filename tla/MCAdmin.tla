------------------------------ MODULE MCAdmin ------------------------------
(***************************************************************************)
(* The administration plane for TLC: logins and sessions, resource         *)
(* handlers, policy rules, and the audit journal.  A behaviour exercises   *)
(* one of the four; the others keep a fixed initial state.                 *)
(***************************************************************************)
EXTENDS AdminAuth, AdminApi, PolicyRules, AuditLog, TLC

VARIABLE part
vars == <<part, authVars, apiVars, policyVars, auditVars>>

MCBudgets == {[time |-> 3, tokens |-> 2, eab |-> 2, changes |-> 0],
              [time |-> 1, tokens |-> 1, eab |-> 4, changes |-> 0],
              [time |-> 0, tokens |-> 2, eab |-> 0, changes |-> 3],
              [time |-> 0, tokens |-> 3, eab |-> 0, changes |-> 0],
              [time |-> 2, tokens |-> 2, eab |-> 1, changes |-> 1]}

MCContexts == {[role |-> "administrator", ca |-> ""], [role |-> "administrator", ca |-> "c1"],
               [role |-> "ca_operations", ca |-> "c2"]}
MCAccountCa == [x0 |-> "", x1 |-> "c1", x2 |-> "c2"]
MCProvider == [n \in {"default"} |-> "provided"]

MCTexts == {Anywhere, {"c1"}}
MCFirst == [name |-> "n1", ca |-> {"c1"}, enabled |-> TRUE, ok |-> TRUE]
MCPeer == {[name |-> "n1", ca |-> Anywhere, enabled |-> TRUE, ok |-> TRUE],
           [name |-> "n1", ca |-> {"c1"}, enabled |-> TRUE, ok |-> FALSE]}
MCScenarios ==
    {[gossip |-> FALSE, enforce |-> TRUE, first |-> MCFirst, requests |-> 2, merges |-> 0],
     [gossip |-> TRUE, enforce |-> TRUE, first |-> MCFirst, requests |-> 0, merges |-> 2],
     [gossip |-> TRUE, enforce |-> FALSE, first |-> MCFirst, requests |-> 1, merges |-> 1]}

MCPolicies == {[overflow |-> "halt", alarm |-> "syslog", sink |-> "file"],
               [overflow |-> "halt", alarm |-> "syslog", sink |-> "daemon"],
               [overflow |-> "drop_oldest", alarm |-> "halt", sink |-> "trace"]}
MCKinds == {[route |-> "acme", violation |-> TRUE, events |-> 2],
            [route |-> "webhook", violation |-> FALSE, events |-> 1]}

Init ==
    /\ part \in {"auth", "api", "policy", "audit"}
    /\ AuthInit /\ ApiInit /\ PolicyInit /\ AuditInit
    /\ part # "auth" => budget = CHOOSE b \in Budgets : TRUE
    /\ part # "api" => \A p \in Principals : eabKeys[p] = "absent"
    /\ part # "policy" => scenario = CHOOSE s \in Scenarios : TRUE
    /\ part # "audit" => policy = CHOOSE p \in Policies : TRUE

Next ==
    /\ UNCHANGED part
    /\ \/ part = "auth" /\ AuthNext /\ UNCHANGED <<apiVars, policyVars, auditVars>>
       \/ part = "api" /\ ApiNext /\ UNCHANGED <<authVars, policyVars, auditVars>>
       \/ part = "policy" /\ PolicyNext /\ UNCHANGED <<authVars, apiVars, auditVars>>
       \/ part = "audit" /\ AuditNext /\ UNCHANGED <<authVars, apiVars, policyVars>>

Spec == Init /\ [][Next]_vars

Symmetry == Permutations(Logins) \union Permutations(Admins) \union Permutations(Ops)
            \union Permutations(Requests)
=============================================================================
