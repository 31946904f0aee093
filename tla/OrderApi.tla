------------------------------ MODULE OrderApi ------------------------------
(***************************************************************************)
(* What the ACME resources show to whom: new-order, new-authz, the views   *)
(* of orders, authorizations, certificates, STAR certificates and          *)
(* delegations (src/src/routes/order.rs, authz.rs, certificate.rs,         *)
(* star_cert.rs, delegation.rs and the rows below them in src/src/db/).    *)
(* Handlers are single steps here; their interleavings are AcmeOrders'.    *)
(***************************************************************************)
EXTENDS Integers, Sequences, FiniteSets

CONSTANTS
    ApiAccounts, ApiCas,
    OrderRequests,   \* bodies of new-order, see MCClient
    AuthzRequests,   \* bodies of new-authz
    ParentNames,     \* name -> its ancestors of two or more labels, nearest first
    Delegations,     \* id -> account and whether it is still there
    ApiConfig,       \* delegation, subdomain, starGet, certGet
    MaxOrders, MaxAuthzs

ASSUME ApiAssumption ==
    /\ \A n \in DOMAIN ParentNames : ParentNames[n] \in Seq(DOMAIN ParentNames)
    /\ \A q \in OrderRequests :
        /\ IsFiniteSet(q.ids) /\ q.star \in BOOLEAN
        /\ \A id \in q.ids : id.name \in DOMAIN ParentNames /\ id.ancestor \in {"none"} \union DOMAIN ParentNames
    /\ \A q \in AuthzRequests : q.name \in DOMAIN ParentNames /\ q.sub \in BOOLEAN

VARIABLES aOrders, aAuthzs, aCerts
apiVars == <<aOrders, aAuthzs, aCerts>>

NoReply == [kind |-> "none", code |-> 0, ca |-> "none", account |-> "none", id |-> 0, links |-> {}, cert |-> 0, star |-> 0, delegation |-> "none"]
ErrorReply(c, a, code) == [NoReply EXCEPT !.kind = "error", !.code = code, !.ca = c, !.account = a]
Default == "default"

-----------------------------------------------------------------------------
(* Rows.                                                                   *)

(* Rows of this CA and of the default one are found under any CA.          *)
SameCa(row, c) == row.ca \in {c, Default}
find_valid_by_account_and_identifier(a, n, c) ==
    {z \in DOMAIN aAuthzs : aAuthzs[z].account = a /\ aAuthzs[z].name = n /\ SameCa(aAuthzs[z], c)
                            /\ aAuthzs[z].status \in {"pending", "valid"} /\ ~aAuthzs[z].expired}
AncestorAuthzs(a, n, c) ==
    {z \in DOMAIN aAuthzs : aAuthzs[z].account = a /\ aAuthzs[z].name = n /\ SameCa(aAuthzs[z], c)
                            /\ aAuthzs[z].sub /\ aAuthzs[z].status = "valid" /\ ~aAuthzs[z].expired}
(* The nearest ancestor that has one.                                      *)
find_valid_subdomain_ancestor(a, n, c) ==
    LET at == {i \in DOMAIN ParentNames[n] : AncestorAuthzs(a, ParentNames[n][i], c) # {}}
    IN  IF at = {} THEN {} ELSE AncestorAuthzs(a, ParentNames[n][CHOOSE i \in at : \A j \in at : i <= j], c)
get_by_id(o) == aOrders[o]
(* The authorizations that were created for the order.                     *)
get_with_authz_ids(o) == {z \in DOMAIN aAuthzs : aAuthzs[z].order = o}
get_latest_for_order(o) == {k \in DOMAIN aCerts : aCerts[k].order = o /\ \A j \in DOMAIN aCerts : aCerts[j].order = o => j <= k}

-----------------------------------------------------------------------------
(* The view of an order.                                                   *)

order_json(o, row, links, c, a) ==
    [kind |-> "order", code |-> 200, ca |-> c, account |-> a, id |-> o, links |-> links,
     cert |-> IF row.status = "valid" /\ ~row.star THEN row.cert ELSE 0,
     star |-> IF row.status = "valid" /\ row.star THEN o ELSE 0,
     delegation |-> row.delegation]

-----------------------------------------------------------------------------
(* new-order.                                                              *)

ancestor_ok(id) == id.ancestor = "none" \/ \E i \in DOMAIN ParentNames[id.name] : ParentNames[id.name][i] = id.ancestor
ReplacesOk(a, q) ==
    q.replaces # 0 => /\ q.replaces \in DOMAIN aCerts
                      /\ aCerts[q.replaces].account = a
                      /\ aCerts[q.replaces].names \cap {id.name : id \in q.ids} # {}
delegation_ok(a, q) ==
    q.delegation # "none" =>
        /\ ApiConfig.delegation /\ q.delegation \in DOMAIN Delegations
        /\ Delegations[q.delegation] = a /\ ~q.dates
new_order_checks(a, q) ==
    /\ q.ids # {} /\ (\A id \in q.ids : ancestor_ok(id))
    /\ ReplacesOk(a, q) /\ delegation_ok(a, q)
    /\ q.star => ~q.dates
(* Ancestors' authorizations are reused where the identifier names none.   *)
Reused(a, id, c) == IF id.ancestor = "none" /\ ApiConfig.subdomain THEN find_valid_subdomain_ancestor(a, id.name, c) ELSE {}
AuthzRow(o, a, c, n, sub) == [order |-> o, account |-> a, ca |-> c, name |-> n, sub |-> sub, status |-> "pending", expired |-> FALSE]
(* The row of an order that gets authorizations for its own names and the  *)
(* given links, some of them reused.                                       *)
OrderRow(a, c, q, own, links, reused) ==
    [account |-> a, ca |-> c, names |-> {id.name : id \in q.ids},
     status |-> IF q.delegation # "none" \/ (own = {} /\ links # {}) THEN "ready" ELSE "pending",
     star |-> q.star, starGet |-> q.star /\ q.get, canceled |-> FALSE, delegation |-> q.delegation,
     certGet |-> q.delegation # "none" /\ q.get /\ ApiConfig.certGet, cert |-> 0, links |-> links, reused |-> reused]
SetAsSeq(S) == CHOOSE f \in [1..Cardinality(S) -> S] : \A x \in S : \E i \in DOMAIN f : f[i] = x
new_order(a, c, q) ==
    LET o == Len(aOrders) + 1
        own == IF q.delegation = "none" THEN {id \in q.ids : Reused(a, id, c) = {}} ELSE {}
        reused == IF q.delegation = "none" THEN {CHOOSE z \in Reused(a, id, c) : TRUE : id \in q.ids \ own} ELSE {}
        plans == SetAsSeq(own)
        rows == [i \in DOMAIN plans |->
                   AuthzRow(o, a, c, IF plans[i].ancestor = "none" THEN plans[i].name ELSE plans[i].ancestor, plans[i].ancestor # "none")]
        links == reused \union {Len(aAuthzs) + i : i \in DOMAIN plans}
    IN  /\ new_order_checks(a, q)
        /\ o <= MaxOrders /\ Len(aAuthzs) + Len(rows) <= MaxAuthzs
        /\ aOrders' = Append(aOrders, OrderRow(a, c, q, own, links, reused))
        /\ aAuthzs' = aAuthzs \o rows
        /\ UNCHANGED aCerts

(* new-authz: an authorization that is still good is returned instead.     *)
authz_json(z, c, a) == [NoReply EXCEPT !.kind = "authz", !.code = 200, !.ca = c, !.account = a, !.id = z]
new_authz(a, c, q) ==
    /\ q.sub => ApiConfig.subdomain
    /\ find_valid_by_account_and_identifier(a, q.name, c) = {}
    /\ Len(aAuthzs) < MaxAuthzs
    /\ aAuthzs' = Append(aAuthzs, AuthzRow(0, a, c, q.name, q.sub))
    /\ UNCHANGED <<aOrders, aCerts>>
new_authz_view(a, c, q) ==
    {authz_json(z, c, a) : z \in find_valid_by_account_and_identifier(a, q.name, c)}

-----------------------------------------------------------------------------
(* The views.  A reply is a function of the rows.                          *)

OrderView(a, c, o) ==
    IF get_by_id(o).ca # c THEN ErrorReply(c, a, 404)
    ELSE IF get_by_id(o).account # a THEN ErrorReply(c, a, 401)
    ELSE order_json(o, get_by_id(o), get_with_authz_ids(o), c, a)
(* Mutant: the default CA's authorizations are not found under another.    *)
MutGetAuthz(a, c, z) ==
    IF aAuthzs[z].account # a THEN ErrorReply(c, a, 401)
    ELSE IF aAuthzs[z].ca # c THEN ErrorReply(c, a, 404)
    ELSE authz_json(z, c, a)
get_authz(a, c, z) ==
    IF aAuthzs[z].account # a THEN ErrorReply(c, a, 401)
    ELSE IF ~SameCa(aAuthzs[z], c) THEN ErrorReply(c, a, 404)
    ELSE authz_json(z, c, a)
(* Without authentication for GET; POST-as-GET for the holder, or for      *)
(* everybody when the delegation allows it.  Either under any CA's prefix. *)
download_cert(c, k) == [NoReply EXCEPT !.kind = "cert", !.code = 200, !.ca = c, !.id = k]
download_cert_post(a, c, k) ==
    IF get_by_id(aCerts[k].order).certGet \/ aCerts[k].account = a
    THEN [NoReply EXCEPT !.kind = "certPost", !.code = 200, !.ca = c, !.account = a, !.id = k]
    ELSE ErrorReply(c, a, 401)
serve_star_cert(a, c, o) ==
    IF get_by_id(o).canceled THEN ErrorReply(c, a, 403)
    ELSE IF get_by_id(o).status # "valid" THEN ErrorReply(c, a, 400)
    ELSE IF get_latest_for_order(o) = {} THEN ErrorReply(c, a, 404)
    ELSE [NoReply EXCEPT !.kind = "star", !.code = 200, !.ca = c, !.account = a, !.id = o]
star_cert_get(c, o) ==
    IF ~ApiConfig.starGet THEN ErrorReply(c, "none", 401)
    ELSE IF ~get_by_id(o).starGet THEN ErrorReply(c, "none", 401)
    ELSE IF get_by_id(o).ca # c THEN ErrorReply(c, "none", 404)
    ELSE serve_star_cert("none", c, o)
star_cert_post(a, c, o) ==
    IF get_by_id(o).account # a THEN ErrorReply(c, a, 401)
    ELSE IF get_by_id(o).ca # c THEN ErrorReply(c, a, 404)
    ELSE serve_star_cert(a, c, o)
get_delegation(a, c, d) ==
    IF ~ApiConfig.delegation \/ d \notin DOMAIN Delegations THEN ErrorReply(c, a, 404)
    ELSE IF Delegations[d] # a THEN ErrorReply(c, a, 404)
    ELSE [NoReply EXCEPT !.kind = "delegation", !.code = 200, !.ca = c, !.account = a, !.delegation = d]
list_delegations(a, c, owner) ==
    IF ~ApiConfig.delegation \/ owner # a THEN ErrorReply(c, a, 401)
    ELSE [NoReply EXCEPT !.kind = "delegations", !.code = 200, !.ca = c, !.account = a,
                         !.links = {d \in DOMAIN Delegations : Delegations[d] = owner}]

(* {"status": "canceled"}: the reply shows the order canceled, the row     *)
(* keeps its status.                                                       *)
cancel_star(a, c, o) ==
    /\ OrderView(a, c, o).code = 200
    /\ get_by_id(o).star /\ get_by_id(o).status = "valid"
    /\ aOrders' = [aOrders EXCEPT ![o].canceled = TRUE]
    /\ UNCHANGED <<aAuthzs, aCerts>>

-----------------------------------------------------------------------------
(* What the rest of the server does to the rows (AcmeOrders).              *)

Validated(z, ok) ==
    /\ aAuthzs[z].status = "pending"
    /\ aAuthzs' = [aAuthzs EXCEPT ![z].status = IF ok THEN "valid" ELSE "invalid"]
    /\ aOrders' = [o \in DOMAIN aOrders |->
                     IF o # aAuthzs[z].order \/ aOrders[o].status # "pending" THEN aOrders[o]
                     ELSE IF ~ok THEN [aOrders[o] EXCEPT !.status = "invalid"]
                     ELSE IF \A y \in get_with_authz_ids(o) : aAuthzs'[y].status = "valid" THEN [aOrders[o] EXCEPT !.status = "ready"]
                     ELSE aOrders[o]]
    /\ UNCHANGED aCerts
Expire(z) ==
    /\ aAuthzs[z].status = "valid" /\ ~aAuthzs[z].expired
    /\ aAuthzs' = [aAuthzs EXCEPT ![z].expired = TRUE]
    /\ UNCHANGED <<aOrders, aCerts>>
(* One transaction: certificate and order.  A STAR renewal adds another.   *)
Issue(o) ==
    /\ \/ aOrders[o].status = "ready"
       \/ aOrders[o].status = "valid" /\ aOrders[o].star /\ ~aOrders[o].canceled /\ Len(aCerts) < MaxOrders
    /\ aCerts' = Append(aCerts, [order |-> o, account |-> aOrders[o].account, ca |-> aOrders[o].ca, names |-> aOrders[o].names])
    /\ aOrders' = [aOrders EXCEPT ![o].status = "valid", ![o].cert = Len(aCerts) + 1]
    /\ UNCHANGED aAuthzs

-----------------------------------------------------------------------------
ApiInit == aOrders = <<>> /\ aAuthzs = <<>> /\ aCerts = <<>>
ApiNext ==
    \/ \E a \in ApiAccounts, c \in ApiCas :
        \/ \E q \in OrderRequests : new_order(a, c, q)
        \/ \E q \in AuthzRequests : new_authz(a, c, q)
        \/ \E o \in DOMAIN aOrders : cancel_star(a, c, o)
    \/ \E z \in DOMAIN aAuthzs : Expire(z) \/ (\E ok \in BOOLEAN : Validated(z, ok))
    \/ \E o \in DOMAIN aOrders : Issue(o)
ApiSpec == ApiInit /\ [][ApiNext]_apiVars

-----------------------------------------------------------------------------
(* Views of an order: new-order's own reply, and those of its URL.         *)
NewOrderView(o) == order_json(o, aOrders[o], aOrders[o].links, aOrders[o].ca, aOrders[o].account)
OrderViews == {NewOrderView(o) : o \in DOMAIN aOrders}
              \union {v \in {OrderView(a, c, o) : a \in ApiAccounts, c \in ApiCas, o \in DOMAIN aOrders} : v.code = 200}
AuthzViews == {v \in {get_authz(a, c, z) : a \in ApiAccounts, c \in ApiCas, z \in DOMAIN aAuthzs} : v.code = 200}
              \union UNION {new_authz_view(a, c, q) : a \in ApiAccounts, c \in ApiCas, q \in AuthzRequests}
OtherViews ==
    {v \in {download_cert_post(a, c, k) : a \in ApiAccounts, c \in ApiCas, k \in DOMAIN aCerts}
            \union {star_cert_post(a, c, o) : a \in ApiAccounts, c \in ApiCas, o \in DOMAIN aOrders}
            \union {star_cert_get(c, o) : c \in ApiCas, o \in DOMAIN aOrders}
            \union {get_delegation(a, c, d) : a \in ApiAccounts, c \in ApiCas, d \in DOMAIN Delegations} : v.code = 200}

(* Every link the server gave an account keeps working for that account    *)
(* under the prefix it was given with: authorizations, reused ones of      *)
(* other orders and other CAs included, the certificate, the delegations   *)
(* and, unless the renewal was canceled, the STAR certificate (order_json, *)
(* list_delegations against get_authz, download_cert_post, star_cert_post, *)
(* get_delegation).                                                        *)
LinksFollow ==
    /\ \A r \in OrderViews :
        /\ OrderView(r.account, r.ca, r.id).code = 200
        /\ \A z \in r.links : get_authz(r.account, r.ca, z).code = 200
        /\ r.cert # 0 => download_cert_post(r.account, r.ca, r.cert).code = 200 /\ aCerts[r.cert].names = aOrders[r.id].names
        /\ r.star # 0 /\ ~aOrders[r.star].canceled => star_cert_post(r.account, r.ca, r.star).code = 200
        /\ r.delegation # "none" => get_delegation(r.account, r.ca, r.delegation).code = 200
    /\ \A r \in AuthzViews : get_authz(r.account, r.ca, r.id).code = 200
    /\ \A a \in ApiAccounts, c \in ApiCas : \A d \in list_delegations(a, c, a).links : get_delegation(a, c, d).code = 200

(* What a view shows belongs to who asks: orders, authorizations and STAR  *)
(* certificates to the account that signed the request and to the CA of    *)
(* the prefix (authorizations also to the default CA), certificates by     *)
(* POST to the account unless the delegation opened them, and a canceled   *)
(* renewal shows no certificate to anybody (the checks of every handler).  *)
OwnOnly ==
    /\ \A r \in OrderViews : aOrders[r.id].account = r.account /\ aOrders[r.id].ca = r.ca
    /\ \A r \in AuthzViews : aAuthzs[r.id].account = r.account /\ aAuthzs[r.id].ca \in {r.ca, Default}
    /\ \A r \in OtherViews :
        /\ r.kind = "certPost" => aCerts[r.id].account = r.account \/ aOrders[aCerts[r.id].order].delegation # "none"
        /\ r.kind = "star" => /\ ~aOrders[r.id].canceled /\ aOrders[r.id].ca = r.ca
                              /\ aOrders[r.id].account = r.account \/ (r.account = "none" /\ aOrders[r.id].starGet)
        /\ r.kind = "delegation" => Delegations[r.delegation] = r.account

(* A later view of an order lists the authorizations that new-order        *)
(* listed, unless one of another order was reused, which only new-order    *)
(* shows (get_with_authz_ids reads the order's own rows); what is missing  *)
(* is never something the client still has to prove.                       *)
SameAuthorizations ==
    \A r \in OrderViews :
        LET row == aOrders[r.id] IN
        r.links = row.links \/ (r.links = row.links \ row.reused /\ \A z \in row.reused : aAuthzs[z].status = "valid")

(* An order can be finalized only when each of its names is delegated, was *)
(* proved for the order, or is below a name the account had proved for     *)
(* itself and everything below it, under the same or the default CA        *)
(* (new_order with find_valid_subdomain_ancestor and the ancestorDomain of *)
(* the request).                                                           *)
ReadyIsProved ==
    \A o \in DOMAIN aOrders :
        aOrders[o].status \in {"ready", "valid"} /\ aOrders[o].delegation = "none" =>
            \A n \in aOrders[o].names : \E z \in aOrders[o].links :
                /\ aAuthzs[z].status = "valid" /\ aAuthzs[z].account = aOrders[o].account
                /\ aAuthzs[z].ca \in {aOrders[o].ca, Default}
                /\ \/ aAuthzs[z].name = n
                   \/ aAuthzs[z].sub /\ \E i \in DOMAIN ParentNames[n] : ParentNames[n][i] = aAuthzs[z].name

(* The ACME resources tell each account one consistent story about its own.  *)
ViewsAgree == OwnOnly /\ LinksFollow /\ SameAuthorizations /\ ReadyIsProved
=============================================================================
