------------------------------- MODULE MCClient -------------------------------
(***************************************************************************)
(* The ACME resources and the clients that use them, for TLC.  A behaviour *)
(* exercises one of the Parts.                                             *)
(***************************************************************************)
EXTENDS OrderApi, AcmeTransport, AcmeCli, TLC

CONSTANT Parts
VARIABLE part
vars == <<part, apiVars, transportVars, cliVars, renewalVars, jwsVars>>

ApiId(n, anc) == [name |-> n, ancestor |-> anc]
ApiOrder(ids, star, dlg, get, repl) == [ids |-> ids, star |-> star, delegation |-> dlg, get |-> get, replaces |-> repl, dates |-> FALSE]
MCOrderRequests ==
    {ApiOrder({ApiId("w.x.y", "none")}, FALSE, "none", FALSE, 0), ApiOrder({ApiId("w.x.y", "x.y"), ApiId("x.y", "none")}, FALSE, "none", FALSE, 0),
     ApiOrder({ApiId("x.y", "w.x.y")}, FALSE, "none", FALSE, 0), ApiOrder({ApiId("x.y", "none")}, TRUE, "none", TRUE, 0),
     ApiOrder({ApiId("x.y", "none")}, FALSE, "d", TRUE, 0), ApiOrder({ApiId("x.y", "none")}, FALSE, "none", FALSE, 1),
     [ApiOrder({ApiId("x.y", "none")}, FALSE, "d", TRUE, 0) EXCEPT !.dates = TRUE]}
MCAuthzRequests == {[name |-> "x.y", sub |-> TRUE], [name |-> "w.x.y", sub |-> FALSE]}
MCParents == ("x.y" :> <<>>) @@ ("w.x.y" :> <<"x.y">>)
MCDelegations == [d |-> "a1"]
MCApiConfig == [delegation |-> TRUE, subdomain |-> TRUE, starGet |-> TRUE, certGet |-> TRUE]

MCPlans == {("t1" :> <<"keyChange", "findAccount">>) @@ ("t2" :> <<"newAccount", "raw">>),
            ("t1" :> <<"revoke", "kid">>) @@ ("t2" :> <<"kid", "keyChange">>)}

MCIssue(names, challenge, delegation) == [names |-> names, challenge |-> challenge, delegation |-> delegation]
MCIssueArgs ==
    {MCIssue({"n1", "n2"}, "dns-hook", FALSE), MCIssue({"n1", "n2"}, "http-01", FALSE), MCIssue({"n1"}, "http-01", TRUE),
     MCIssue({"n1", "n2"}, "dns-manual", FALSE), MCIssue({"n2"}, "dns-persist-01", FALSE),
     MCIssue({"n2"}, "tls-alpn-01", FALSE), MCIssue({"n2"}, "onion-csr-01", FALSE), MCIssue({"n2"}, "tkauth-01", FALSE), MCIssue({"w"}, "http-01", FALSE)}

Init ==
    /\ part \in Parts
    /\ ApiInit /\ TransportInit /\ CliInit /\ RenewalInit /\ JwsInit
    /\ part # "renewal" => lifetime = CHOOSE l \in Lifetimes : \A k \in Lifetimes : l <= k
    /\ part # "renewal" => delay = 0
    /\ part # "transport" => plan = CHOOSE p \in Plans : TRUE
Use ==
    \/ part = "api" /\ ApiNext /\ UNCHANGED <<transportVars, cliVars, renewalVars>>
    \/ part = "transport" /\ TransportNext /\ UNCHANGED <<apiVars, cliVars, renewalVars>>
    \/ part = "cli" /\ CliNext /\ UNCHANGED <<apiVars, transportVars, renewalVars>>
    \/ part = "renewal" /\ RunNext /\ UNCHANGED <<apiVars, transportVars, cliVars>>
    \/ part = "calendar" /\ NextMonth /\ UNCHANGED <<apiVars, transportVars, cliVars>>
Next ==
    /\ UNCHANGED part
    /\ \/ Use /\ UNCHANGED jwsVars
       \/ part = "jws" /\ JwsNext /\ UNCHANGED <<apiVars, transportVars, cliVars, renewalVars>>
Spec == Init /\ [][Next]_vars
=============================================================================
