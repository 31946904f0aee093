------------------------------- MODULE Routes -------------------------------
(***************************************************************************)
(* How a request finds its handler, its CA and its permission              *)
(* (src/src/routes/mod.rs, routes/admin/rbac.rs, config/mod.rs).  A path   *)
(* is a sequence of segments; the router prefers a literal segment to a    *)
(* parameter and goes back when that leads nowhere, but not when only the  *)
(* method is wrong.                                                        *)
(***************************************************************************)
EXTENDS Sequences, FiniteSets, Integers, SequencesExt

CONSTANTS
    CaLists         \* [table: a single [ca] table, cas: its entries]
ASSUME RoutesAssumption == \A l \in CaLists : l.table => Len(l.cas) <= 1

VARIABLES cas, defaultCa    \* Config.cas once accepted, and AppState.default_ca_id
routeVars == <<cas, defaultCa>>
NoCa == "none"
-----------------------------------------------------------------------------
(* deserialize_ca_array: a single table is the default CA.                 *)
deserialize_ca_array(l) ==
    IF l.table THEN [i \in 1..Len(l.cas) |-> [id |-> IF l.cas[i].id = "" THEN "default" ELSE l.cas[i].id, is_default |-> TRUE]] ELSE l.cas

(* Mutant: a resource that came later is missing from the list.            *)
MutReservedCaIds ==
    {"directory", "new-nonce", "new-account", "new-order", "new-authz", "revoke-cert", "key-change", "renewal-info",
     "cert", "authz", "chall", "eab", "mtc", "account"}
RESERVED_CA_IDS ==
    {"directory", "new-nonce", "new-account", "new-order", "new-authz", "revoke-cert", "key-change", "renewal-info",
     "cert", "order", "authz", "chall", "eab", "mtc", "account"}
BadIds == {"", "Bad Id"}
Defaults(list) == {i \in 1..Len(list) : list[i].is_default}
validate(list) ==
    /\ list # <<>>
    /\ \A i \in 1..Len(list) :
        /\ list[i].id \notin BadIds \union RESERVED_CA_IDS
        /\ list[i].id = "default" => list[i].is_default
    /\ \A i, j \in 1..Len(list) : list[i].id = list[j].id => i = j
    /\ Len(list) > 1 => Cardinality(Defaults(list)) = 1
(* Config::default_ca, and the default that load_cas settles on.           *)
default_ca(list) == IF Len(list) = 1 THEN list[1].id ELSE list[CHOOSE i \in Defaults(list) : TRUE].id
load_cas_default(list) == IF Defaults(list) # {} THEN list[CHOOSE i \in Defaults(list) : \A j \in Defaults(list) : i <= j].id ELSE list[1].id

from_file(l) ==
    LET list == deserialize_ca_array(l) IN
    /\ cas = <<>> /\ validate(list)
    /\ cas' = list /\ defaultCa' = load_cas_default(list)

-----------------------------------------------------------------------------
(* The routes of the ACME resources; "*" stands for a parameter.           *)
CaSegment == "{ca_id}"
Parameter == {"*", CaSegment}
Route(method, path, handler) == [method |-> method, path |-> path, handler |-> handler]
dual_acme_route(method, path, handler) == {Route(method, <<"acme">> \o path, handler), Route(method, <<"acme", CaSegment>> \o path, handler)}
AcmeResources ==
    {<<"GET", <<"directory">>, "get_directory">>, <<"HEAD", <<"new-nonce">>, "new_nonce_head">>, <<"GET", <<"new-nonce">>, "new_nonce_get">>,
     <<"POST", <<"new-account">>, "new_account">>, <<"POST", <<"account", "*">>, "update_account">>, <<"POST", <<"new-order">>, "new_order">>,
     <<"POST", <<"order", "*">>, "get_order">>, <<"POST", <<"order", "*", "finalize">>, "finalize_order">>,
     <<"POST", <<"delegations", "*">>, "list_delegations">>, <<"POST", <<"delegation", "*">>, "get_delegation">>, <<"POST", <<"new-authz">>, "new_authz">>,
     <<"POST", <<"authz", "*">>, "get_authz">>, <<"POST", <<"chall", "*", "*">>, "respond_challenge">>, <<"GET", <<"cert", "*">>, "download_cert">>,
     <<"POST", <<"cert", "*">>, "download_cert_post">>, <<"GET", <<"cert", "star", "*">>, "star_cert_get">>, <<"POST", <<"cert", "star", "*">>, "star_cert_post">>,
     <<"POST", <<"revoke-cert">>, "revoke_cert">>, <<"POST", <<"key-change">>, "key_change">>, <<"GET", <<"renewal-info", "*">>, "get_renewal_info">>,
     <<"GET", <<"mtc", "tree-size">>, "get_tree_size">>, <<"GET", <<"mtc", "root">>, "get_root">>, <<"GET", <<"mtc", "inclusion-proof", "*">>, "get_inclusion_proof">>,
     <<"GET", <<"mtc", "cert", "*", "standalone">>, "get_standalone">>, <<"GET", <<"mtc", "cert", "*", "landmark">>, "get_landmark_for_cert">>,
     <<"GET", <<"mtc", "landmarks">>, "get_landmarks">>, <<"GET", <<"mtc", "landmark-list">>, "get_landmark_list">>,
     <<"GET", <<"mtc", "landmarks", "*", "cert">>, "get_landmark_cert">>, <<"GET", <<"mtc", "checkpoint">>, "get_tlog_checkpoint">>,
     <<"GET", <<"mtc", "cosignature">>, "get_tlog_cosignature">>, <<"GET", <<"mtc", "discovery">>, "get_discovery">>, <<"GET", <<"mtc", "tile", "*">>, "get_tlog_tile">>,
     <<"GET", <<"mtc", "consistency-proof">>, "get_consistency_proof">>, <<"GET", <<"mtc", "subtree-root">>, "get_subtree_root">>,
     <<"GET", <<"mtc", "revoked-ranges">>, "get_revoked_ranges">>}
build_acme_router == UNION {dual_acme_route(r[1], r[2], r[3]) : r \in AcmeResources} \union {Route("GET", <<"acme", "eab">>, "get_eab_identity")}
CaResources ==
    {<<"GET", <<"crl">>, "get_crl">>, <<"POST", <<"ocsp">>, "post_ocsp">>, <<"GET", <<"ocsp", "*">>, "get_ocsp">>, <<"GET", <<"cross-certs">>, "get_cross_certs">>}
build_other_router ==
    UNION {{Route(r[1], <<"ca">> \o r[2], r[3]), Route(r[1], <<"ca", CaSegment>> \o r[2], r[3])} : r \in CaResources}
    \union {Route("POST", <<"acme", "email-webhook">>, "handle_webhook"), Route("POST", <<"gossip", "sync">>, "gossip_sync")}
PublicRoutes == build_acme_router \union build_other_router

(* The router (axum): the best matching path, then the method.             *)
Matches(r, path) == Len(r.path) = Len(path) /\ \A i \in 1..Len(path) : r.path[i] \in Parameter \union {path[i]}
Better(r, s) == \E i \in 1..Len(r.path) : r.path[i] \notin Parameter /\ s.path[i] \in Parameter /\ \A j \in 1..(i - 1) : (r.path[j] \in Parameter) = (s.path[j] \in Parameter)
BestRoutes(path) == LET hits == {r \in PublicRoutes : Matches(r, path)} IN {r \in hits : \A s \in hits : ~Better(s, r)}
(* The CaId extractor: the segment of a per-CA route, which must be a CA,  *)
(* else the default CA.                                                    *)
CaIdOf(r, path) ==
    IF \E i \in 1..Len(r.path) : r.path[i] = CaSegment
    THEN LET id == path[CHOOSE i \in 1..Len(r.path) : r.path[i] = CaSegment] IN IF \E i \in 1..Len(cas) : cas[i].id = id THEN id ELSE NoCa
    ELSE defaultCa
Dispatch(method, path) == {[handler |-> r.handler, ca |-> CaIdOf(r, path)] : r \in {x \in BestRoutes(path) : x.method = method}}

(* What the server publishes: acme_prefix, and the URLs of CRL and OCSP    *)
(* that go into certificates.                                              *)
acme_prefix(id) == IF id = defaultCa THEN <<"acme">> ELSE <<"acme", id>>
ca_url(ca) == IF ca.is_default THEN <<"ca">> ELSE <<"ca", ca.id>>
(* The Link header names the directory of the CA.                          *)
index_link(ca) == IF ca.is_default THEN <<"acme", "directory">> ELSE <<"acme", ca.id, "directory">>
Filled(path) == [i \in 1..Len(path) |-> IF path[i] = "*" THEN "x1" ELSE path[i]]

-----------------------------------------------------------------------------
(* The administration API: one table of routes, another of permissions.    *)
ALL_ROLES == {"administrator", "ca_operations", "ca_ra", "auditor"}
Unchecked == {"anonymous"} \union ALL_ROLES      \* the handler authenticates the request itself
build_admin_router ==
           ({"POST", "DELETE"} \X {"session"})
    \union ({"POST"} \X {"session/eab", "account/{id}/deactivate", "operators/{id}/unlock", "crl/force", "tkauth/prune-jti", "revoke", "ca/{id}/crl/force",
            "ca/{id}/cross-sign", "ca/{id}/mtc/force-checkpoint", "ca/{id}/mtc/force-landmark", "gossip/register"})
    \union ({"GET", "POST"} \X {"operators", "eab", "profiles", "delegations", "policy/rules"})
    \union ({"GET", "PUT", "DELETE"} \X {"account/{id}/profile-grants", "profiles/{id}", "delegations/{id}", "policy/rules/{id}"})
    \union ({"GET", "DELETE"} \X {"eab/{kid}"})
    \union ({"GET"} \X {"audit", "certs", "certs/{id}", "certs/{id}/download", "accounts", "account/{id}", "orders", "orders/{id}", "policy/scopes", "config",
            "stats", "cas", "cas/{id}", "cas/{id}/cert", "cross-certs", "cross-certs/{id}", "mtc/tree-size", "mtc/root", "mtc/landmarks",
            "mtc/landmark-list", "mtc/inclusion-proof/{cert_id}", "mtc/standalone/{cert_id}", "mtc/landmarks/{seq}/cert",
            "mtc/landmarks/{seq}/cert-details", "mtc/consistency-proof", "mtc/subtree-root", "mtc/revoked-ranges", "mtc/checkpoint",
            "mtc/cosignature", "ca/{id}/mtc/log-list-entry", "gossip/status"})
    \union ({"GET", "PUT", "PATCH"} \X {"operators/{id}"})
Row(method, roles, templates) == [method |-> method, roles |-> roles, templates |-> templates]
AccountRows ==
    {Row("POST", ALL_ROLES, {"session"}),
     Row("DELETE", ALL_ROLES, {"session"}),
     Row("POST", Unchecked, {"session/eab"}),
     Row("GET", ALL_ROLES, {"stats", "eab", "eab/{kid}", "certs/{id}", "profiles", "profiles/{id}", "accounts", "account/{id}",
        "account/{id}/profile-grants"}),
     Row("POST", {"administrator", "ca_operations"}, {"eab"}),
     Row("DELETE", {"administrator", "ca_operations"}, {"eab/{kid}"}),
     Row("GET", ALL_ROLES, {"certs"}),
     Row("GET", {"administrator", "ca_operations", "ca_ra"}, {"certs/{id}/download"}),
     Row("POST", {"administrator", "ca_operations", "ca_ra"}, {"revoke"}),
     Row("POST", {"administrator"}, {"profiles", "account/{id}/deactivate"}),
     Row("PUT", {"administrator"}, {"profiles/{id}"}),
     Row("DELETE", {"administrator"}, {"profiles/{id}", "account/{id}/profile-grants"}),
     Row("PUT", {"administrator", "ca_operations"}, {"account/{id}/profile-grants"})}
OperatorRows ==
    {Row("GET", {"administrator"}, {"operators", "operators/{id}", "config"}),
     Row("POST", {"administrator"}, {"operators", "operators/{id}/unlock"}),
     Row("PUT", {"administrator"}, {"operators/{id}"}),
     Row("PATCH", {"administrator"}, {"operators/{id}"}),
     Row("GET", {"administrator", "auditor"}, {"audit"}),
     Row("GET", ALL_ROLES, {"orders", "orders/{id}", "delegations", "delegations/{id}"}),
     Row("POST", {"administrator", "ca_operations"}, {"delegations", "policy/rules", "crl/force", "tkauth/prune-jti"}),
     Row("PUT", {"administrator", "ca_operations"}, {"delegations/{id}", "policy/rules/{id}"}),
     Row("DELETE", {"administrator", "ca_operations"}, {"delegations/{id}", "policy/rules/{id}"}),
     Row("GET", {"administrator", "ca_operations", "auditor"}, {"policy/scopes", "policy/rules", "policy/rules/{id}"})}
CaRows ==
    {Row("GET", {"administrator", "ca_operations"}, {"cas", "cas/{id}", "cas/{id}/cert"}),
     Row("POST", {"administrator", "ca_operations"}, {"ca/{id}/crl/force", "ca/{id}/cross-sign"}),
     Row("GET", {"administrator", "ca_operations", "auditor"}, {"cross-certs", "cross-certs/{id}"})}
MtcRows ==
    {Row("GET", {"administrator", "ca_operations", "auditor"}, {"mtc/tree-size", "mtc/root", "mtc/landmarks", "mtc/landmark-list",
        "mtc/inclusion-proof/{cert_id}", "mtc/landmarks/{seq}/cert-details", "mtc/consistency-proof", "mtc/subtree-root", "mtc/revoked-ranges",
        "mtc/checkpoint", "mtc/cosignature", "ca/{id}/mtc/log-list-entry"}),
     Row("GET", {"administrator", "ca_operations"}, {"mtc/standalone/{cert_id}", "mtc/landmarks/{seq}/cert"}),
     Row("POST", {"administrator", "ca_operations"}, {"ca/{id}/mtc/force-checkpoint", "ca/{id}/mtc/force-landmark"}),
     Row("GET", ALL_ROLES, {"gossip/status"}),
     Row("POST", {"administrator"}, {"gossip/register"})}
ADMIN_RBAC_TABLE == AccountRows \union OperatorRows \union CaRows \union MtcRows

(* admin_rbac_gate: a request runs if a row allows it.                     *)
admin_rbac_gate(method, template, role) == \E row \in ADMIN_RBAC_TABLE : row.method = method /\ template \in row.templates /\ role \in row.roles

RoutesInit == cas = <<>> /\ defaultCa = NoCa
RoutesNext == cas = <<>> /\ \E l \in CaLists : from_file(l)
-----------------------------------------------------------------------------
(* Ids that validate accepts although their URLs lead elsewhere: the       *)
(* delegation routes and GET /ca/ocsp/{request} are not in the list.       *)
KnownCollisions == {"delegation", "delegations", "ocsp"}

(* Every URL the server gives out for a CA reaches the handler it was      *)
(* meant for, and that handler works for this CA, whatever the CA's id is  *)
(* (RESERVED_CA_IDS, dual_acme_route, CaId, acme_prefix, load_cas).        *)
LinksReachTheirCa ==
    \A i \in 1..Len(cas) : cas[i].id \notin KnownCollisions =>
        /\ \A r \in AcmeResources : Dispatch(r[1], acme_prefix(cas[i].id) \o Filled(r[2])) = {[handler |-> r[3], ca |-> cas[i].id]}
        /\ \A r \in CaResources : Dispatch(r[1], ca_url(cas[i]) \o Filled(r[2])) = {[handler |-> r[3], ca |-> cas[i].id]}
        /\ Dispatch("GET", index_link(cas[i])) = {[handler |-> "get_directory", ca |-> cas[i].id]}

(* Rows written before there were several CAs belong to "default": if that *)
(* id exists it is the default CA, and all places agree which one that is  *)
(* (Config::default_ca, load_cas).                                         *)
DefaultCaAgrees ==
    cas # <<>> =>
        /\ default_ca(cas) = defaultCa
        /\ \A i \in 1..Len(cas) : cas[i].id = "default" => defaultCa = "default"

(* The two tables fit together: the administrator can use every route,     *)
(* nothing but the login runs without an operator, an auditor changes      *)
(* nothing, and what a registration authority may read CA operations may   *)
(* read (ADMIN_RBAC_TABLE, build_admin_router).                            *)
RolesFitRoutes ==
    cas # <<>> => \A r \in build_admin_router :
        /\ admin_rbac_gate(r[1], r[2], "administrator")
        /\ admin_rbac_gate(r[1], r[2], "anonymous") => r = <<"POST", "session/eab">>
        /\ admin_rbac_gate(r[1], r[2], "auditor") => r[1] = "GET" \/ r[2] \in {"session", "session/eab"}
        /\ admin_rbac_gate(r[1], r[2], "ca_ra") => admin_rbac_gate(r[1], r[2], "ca_operations")

(* URLs, CA ids, routes and roles fit together for every list of CAs that    *)
(* the configuration accepts.                                               *)
RoutesFit == LinksReachTheirCa /\ DefaultCaAgrees /\ RolesFitRoutes
=============================================================================
