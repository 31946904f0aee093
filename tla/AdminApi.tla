------------------------------ MODULE AdminApi ------------------------------
(***************************************************************************)
(* The handlers of the administration interface other than operators and   *)
(* policy rules (src/src/routes/admin/): accounts and their grants,        *)
(* delegations, EAB keys, profiles, certificate authorities, and what each *)
(* listing shows, under the role table and the operator's CA scope.        *)
(* Operators, clients' orders and the profile refresh interleave.  A       *)
(* request that is refused changes nothing and is left out.                *)
(***************************************************************************)
EXTENDS Integers

CONSTANTS
    ApiCAs,          \* certificate authorities
    Contexts,        \* operators' roles and scopes: [role, ca]
    Accounts,        \* accounts
    AccountCa,       \* the CA an account was created at, or NoCa
    Delegations,     \* identities of delegations
    Principals,      \* Kerberos principals of operators, for derived EAB keys
    Profiles,        \* profile names, "default" among them
    ProviderProfiles,\* what the providers serve: name -> parameters
    MaxCalls         \* handler calls in one behaviour

NoCa == ""
Gone == "gone"
NoProfile == "none"
CaParams == "ca"
External == "external"

ASSUME AdminApiAssumption ==
    /\ MaxCalls \in Nat
    /\ AccountCa \in [Accounts -> ApiCAs \union {NoCa}]
    /\ Contexts \subseteq [role : {"administrator", "ca_operations", "ca_ra", "auditor"},
                           ca : ApiCAs \union {NoCa}]
    /\ DOMAIN ProviderProfiles \subseteq Profiles
    /\ \A n \in DOMAIN ProviderProfiles : ProviderProfiles[n] # CaParams

VARIABLES
    accounts,   \* status and profile_grants of every account
    delegs,     \* the account each delegation belongs to, or Gone
    apiOrders,  \* orders: account, CA, delegation, profile
    eabKeys,    \* derived EAB keys: absent, fresh or used
    consumed,   \* ghost: times each derived key was consumed since it was created
    profiles,   \* the profile cache
    issued,     \* ghost: what orders were issued with
    crossCerts, \* cross_certs: issuer and subject
    crlCached,  \* CAs whose CRL is cached
    calls,      \* handler calls so far
    trespass    \* ghost: routes by which a scoped operator changed another CA's object

apiVars == <<accounts, delegs, apiOrders, eabKeys, consumed, profiles, issued,
             crossCerts, crlCached, calls, trespass>>

ApiInit ==
    /\ accounts = [a \in Accounts |-> [valid |-> TRUE, grants |-> FALSE]]
    /\ delegs = [d \in Delegations |-> Gone]
    /\ apiOrders = {} /\ issued = {} /\ crossCerts = {} /\ trespass = {}
    /\ eabKeys \in [Principals -> {"absent", "used"}]
    /\ consumed = [p \in Principals |-> IF eabKeys[p] = "used" THEN 1 ELSE 0]
    /\ profiles = ProviderProfiles
    /\ crlCached = ApiCAs
    /\ calls = 0

-----------------------------------------------------------------------------
(* ADMIN_RBAC_TABLE, by the routes that change something.                  *)
Operations == {"administrator", "ca_operations"}
ADMIN_RBAC_TABLE(route) ==
    CASE route \in {"profile", "grants.clear", "deactivate"} -> {"administrator"}
      [] route \in {"grants.set", "delegation", "eab", "crl", "cross"} -> Operations

(* The scope tests: on the CA itself, and on an account, whose CA may be   *)
(* unset.                                                                  *)
InScope(ctx, ca) == ctx.ca = NoCa \/ ca = ctx.ca
AccountInScope(ctx, a) == ctx.ca = NoCa \/ AccountCa[a] \in {NoCa, ctx.ca}

Call(ctx, route) ==
    /\ ctx.role \in ADMIN_RBAC_TABLE(route)
    /\ calls < MaxCalls /\ calls' = calls + 1
Touch(ctx, route, ca) ==
    trespass' = IF ctx.ca # NoCa /\ ca \notin {NoCa, ctx.ca}
                THEN trespass \union {route} ELSE trespass

-----------------------------------------------------------------------------
(* Accounts.                                                               *)
set_profile_grants(a, grants) ==
    /\ accounts[a].valid
    /\ accounts' = [accounts EXCEPT ![a].grants = grants]

put_account_profile_grants(ctx, a, grants) ==
    /\ Call(ctx, "grants.set") /\ AccountInScope(ctx, a)
    /\ set_profile_grants(a, grants)
    /\ Touch(ctx, "grants.set", AccountCa[a])
    /\ UNCHANGED <<delegs, apiOrders, eabKeys, consumed, profiles, issued, crossCerts, crlCached>>

(* No scope test.                                                          *)
delete_account_profile_grants(ctx, a) ==
    /\ Call(ctx, "grants.clear")
    /\ set_profile_grants(a, FALSE)
    /\ Touch(ctx, "grants.clear", AccountCa[a])
    /\ UNCHANGED <<delegs, apiOrders, eabKeys, consumed, profiles, issued, crossCerts, crlCached>>

(* No scope test.                                                          *)
post_account_deactivate(ctx, a) ==
    /\ Call(ctx, "deactivate")
    /\ accounts' = [accounts EXCEPT ![a].valid = FALSE]
    /\ Touch(ctx, "deactivate", AccountCa[a])
    /\ UNCHANGED <<delegs, apiOrders, eabKeys, consumed, profiles, issued, crossCerts, crlCached>>

-----------------------------------------------------------------------------
(* Delegations.  Their scope is that of the account.                       *)
post_delegations(ctx, d, a) ==
    /\ Call(ctx, "delegation") /\ delegs[d] = Gone /\ AccountInScope(ctx, a)
    /\ \A o \in apiOrders : o.deleg # d
    /\ delegs' = [delegs EXCEPT ![d] = a]
    /\ Touch(ctx, "delegation", AccountCa[a])
    /\ UNCHANGED <<accounts, apiOrders, eabKeys, consumed, profiles, issued, crossCerts, crlCached>>

put_delegation(ctx, d) ==
    /\ Call(ctx, "delegation") /\ delegs[d] # Gone /\ AccountInScope(ctx, delegs[d])
    /\ Touch(ctx, "delegation", AccountCa[delegs[d]])
    /\ UNCHANGED <<accounts, delegs, apiOrders, eabKeys, consumed, profiles, issued, crossCerts, crlCached>>

(* The foreign key of orders refuses the row while an order names it.      *)
(* Mutant: the scope is tested against the caller's CA being configured.   *)
MutDeleteDelegation(ctx, d) ==
    /\ Call(ctx, "delegation") /\ delegs[d] # Gone /\ ctx.ca \in ApiCAs \union {NoCa}
    /\ \A o \in apiOrders : o.deleg # d
    /\ delegs' = [delegs EXCEPT ![d] = Gone]
    /\ Touch(ctx, "delegation", AccountCa[delegs[d]])
    /\ UNCHANGED <<accounts, apiOrders, eabKeys, consumed, profiles, issued, crossCerts, crlCached>>
delete_delegation(ctx, d) ==
    /\ Call(ctx, "delegation") /\ delegs[d] # Gone /\ AccountInScope(ctx, delegs[d])
    /\ \A o \in apiOrders : o.deleg # d
    /\ delegs' = [delegs EXCEPT ![d] = Gone]
    /\ Touch(ctx, "delegation", AccountCa[delegs[d]])
    /\ UNCHANGED <<accounts, apiOrders, eabKeys, consumed, profiles, issued, crossCerts, crlCached>>

-----------------------------------------------------------------------------
(* EAB keys of operators with a principal, derived from the master secret: *)
(* the same principal always gets the same key.                            *)
insert_if_absent_with_grants(p) ==
    eabKeys' = [eabKeys EXCEPT ![p] = IF @ = "absent" THEN "fresh" ELSE @]

(* A request for another operator needs an administrator; a used key is    *)
(* reported as a conflict, after the insertion that did nothing.           *)
post_eab(ctx, p, own) ==
    /\ Call(ctx, "eab") /\ (own \/ ctx.role = "administrator")
    /\ insert_if_absent_with_grants(p)
    /\ consumed' = [consumed EXCEPT ![p] = IF eabKeys[p] = "absent" THEN 0 ELSE @]
    /\ UNCHANGED <<accounts, delegs, apiOrders, profiles, issued, crossCerts, crlCached, trespass>>

delete_eab(ctx, p) ==
    /\ Call(ctx, "eab") /\ eabKeys[p] # "absent"
    /\ eabKeys' = [eabKeys EXCEPT ![p] = "absent"]
    /\ UNCHANGED <<accounts, delegs, apiOrders, consumed, profiles, issued, crossCerts, crlCached, trespass>>

(* mark_used, when a new account is bound to the key.                      *)
mark_used(p) ==
    /\ eabKeys[p] = "fresh" /\ calls < MaxCalls /\ calls' = calls + 1
    /\ eabKeys' = [eabKeys EXCEPT ![p] = "used"]
    /\ consumed' = [consumed EXCEPT ![p] = @ + 1]
    /\ UNCHANGED <<accounts, delegs, apiOrders, profiles, issued, crossCerts, crlCached, trespass>>

-----------------------------------------------------------------------------
(* Profiles: a cache that operators edit and a timer reloads whole.        *)
Known(name) == name \in DOMAIN profiles
ProfileStep(ctx, new) ==
    /\ Call(ctx, "profile") /\ profiles' = new
    /\ UNCHANGED <<accounts, delegs, apiOrders, eabKeys, consumed, issued, crossCerts, crlCached, trespass>>
add_profile(name, params) ==
    [n \in DOMAIN profiles \union {name} |-> IF n = name THEN params ELSE profiles[n]]
update_profile(name, params) == [profiles EXCEPT ![name] = params]
remove_profile(name) == [n \in DOMAIN profiles \ {name} |-> profiles[n]]

post_profiles(ctx, name) == ~Known(name) /\ ProfileStep(ctx, add_profile(name, "edited"))
put_profile(ctx, name) == Known(name) /\ ProfileStep(ctx, update_profile(name, "edited"))
delete_profile(ctx, name) == Known(name) /\ ProfileStep(ctx, remove_profile(name))

(* The reload drops what operators changed.                                *)
refresh ==
    /\ profiles # ProviderProfiles /\ profiles' = ProviderProfiles
    /\ UNCHANGED <<accounts, delegs, apiOrders, eabKeys, consumed, issued, crossCerts,
                   crlCached, calls, trespass>>

(* new_order picks the profile and tests it and the delegation; finalize   *)
(* resolves the profile again.                                             *)
order_profile(asked) ==
    IF asked # NoProfile THEN asked ELSE IF Known("default") THEN "default" ELSE NoProfile
new_order(a, ca, asked, d) ==
    /\ accounts[a].valid /\ calls < MaxCalls /\ calls' = calls + 1
    /\ asked # NoProfile /\ DOMAIN profiles # {} => Known(asked)
    /\ d # Gone => delegs[d] = a
    /\ apiOrders' = apiOrders \union {[acct |-> a, ca |-> ca, deleg |-> d,
                                       profile |-> order_profile(asked)]}
    /\ UNCHANGED <<accounts, delegs, eabKeys, consumed, profiles, issued, crossCerts, crlCached, trespass>>

resolve_cert_params(name) ==
    IF name # NoProfile /\ DOMAIN profiles # {}
    THEN IF Known(name) THEN profiles[name] ELSE Gone
    ELSE IF Known("default") THEN profiles["default"] ELSE CaParams

finalize(o) ==
    LET params == resolve_cert_params(o.profile) IN
    /\ accounts[o.acct].valid /\ params # Gone
    /\ issued' = issued \union {[profile |-> o.profile, params |-> params,
                                 emptied |-> DOMAIN profiles = {}]}
    /\ UNCHANGED <<accounts, delegs, apiOrders, eabKeys, consumed, profiles, crossCerts,
                   crlCached, calls, trespass>>

-----------------------------------------------------------------------------
(* Certificate authorities.                                                *)
post_crl_force(ctx) ==
    /\ Call(ctx, "crl")
    /\ crlCached' = IF ctx.ca = NoCa THEN {} ELSE crlCached \ {ctx.ca}
    /\ UNCHANGED <<accounts, delegs, apiOrders, eabKeys, consumed, profiles, issued, crossCerts, trespass>>

post_ca_crl_force(ctx, ca) ==
    /\ Call(ctx, "crl") /\ InScope(ctx, ca)
    /\ crlCached' = crlCached \ {ca} /\ Touch(ctx, "crl", ca)
    /\ UNCHANGED <<accounts, delegs, apiOrders, eabKeys, consumed, profiles, issued, crossCerts>>

(* The issuer is in scope; the subject is another CA of this server, or an *)
(* outside one.  The insertion may fail after the certificate was signed.  *)
post_ca_cross_sign(ctx, issuer, subject, stored) ==
    /\ Call(ctx, "cross") /\ InScope(ctx, issuer) /\ subject # issuer
    /\ crossCerts' = IF stored THEN crossCerts \union {[issuer |-> issuer, subject |-> subject]}
                     ELSE crossCerts
    /\ Touch(ctx, "cross", issuer)
    /\ UNCHANGED <<accounts, delegs, apiOrders, eabKeys, consumed, profiles, issued, crlCached>>

-----------------------------------------------------------------------------
(* Listings: the CAs of the objects an operator is shown.                  *)
AccountRows(a) == {AccountCa[a]} \ {NoCa}
get_accounts(ctx) ==     \* accounts of the CA, or with an order at it
    {a \in Accounts : \/ ctx.ca \in {NoCa, AccountCa[a]}
                      \/ \E o \in apiOrders : o.acct = a /\ o.ca = ctx.ca}
get_account(ctx) == {a \in Accounts : AccountInScope(ctx, a)}
get_orders(ctx) == {o \in apiOrders : InScope(ctx, o.ca)}
get_delegations(ctx) ==  \* by the CA of the account
    {d \in Delegations : delegs[d] # Gone /\ InScope(ctx, AccountCa[delegs[d]])}
get_delegation_admin(ctx) ==
    {d \in Delegations : delegs[d] # Gone /\ AccountInScope(ctx, delegs[d])}
get_cas(ctx) == {ca \in ApiCAs : InScope(ctx, ca)}
get_cross_certs(ctx) == {x \in crossCerts : InScope(ctx, x.issuer)}

ApiNext ==
    \/ \E ctx \in Contexts :
         \/ \E a \in Accounts :
              \/ \E g \in BOOLEAN : put_account_profile_grants(ctx, a, g)
              \/ delete_account_profile_grants(ctx, a) \/ post_account_deactivate(ctx, a)
         \/ \E d \in Delegations :
              \/ \E a \in Accounts : post_delegations(ctx, d, a)
              \/ put_delegation(ctx, d) \/ delete_delegation(ctx, d)
         \/ \E p \in Principals : delete_eab(ctx, p) \/ \E own \in BOOLEAN : post_eab(ctx, p, own)
         \/ \E n \in Profiles : post_profiles(ctx, n) \/ put_profile(ctx, n) \/ delete_profile(ctx, n)
         \/ post_crl_force(ctx)
         \/ \E ca \in ApiCAs : \/ post_ca_crl_force(ctx, ca)
                               \/ \E s \in ApiCAs \union {External}, ok \in BOOLEAN :
                                     post_ca_cross_sign(ctx, ca, s, ok)
    \/ \E p \in Principals : mark_used(p)
    \/ refresh
    \/ \E a \in Accounts, ca \in ApiCAs, n \in Profiles \union {NoProfile},
          d \in Delegations \union {Gone} : new_order(a, ca, n, d)
    \/ \E o \in apiOrders : finalize(o)

ApiSpec == ApiInit /\ [][ApiNext]_apiVars

-----------------------------------------------------------------------------
(* Every object a scoped operator is shown or may name belongs to its CA:  *)
(* orders, delegations of accounts with a CA, CAs and cross-certificates,  *)
(* and accounts of its CA or with an order there (the get_ handlers).      *)
ReadsStayHome ==
    \A ctx \in Contexts : ctx.ca # NoCa =>
        /\ \A o \in get_orders(ctx) : o.ca = ctx.ca
        /\ \A d \in get_delegations(ctx) : AccountCa[delegs[d]] = ctx.ca
        /\ \A d \in get_delegation_admin(ctx) : AccountCa[delegs[d]] \in {NoCa, ctx.ca}
        /\ get_cas(ctx) \subseteq {ctx.ca}
        /\ \A x \in get_cross_certs(ctx) : x.issuer = ctx.ca
        /\ \A a \in get_accounts(ctx) \ get_account(ctx) :
              \E o \in get_orders(ctx) : o.acct = a

(* A scoped operator changes nothing of another CA, except through the two *)
(* account handlers that have no scope test.                               *)
WritesStayHome == trespass \subseteq {"grants.clear", "deactivate"}

(* The delegation an order was placed under exists as long as the order    *)
(* (delete_delegation, new_order).                                         *)
OrdersKeepDelegation ==
    \A o \in apiOrders : o.deleg # Gone => delegs[o.deleg] = o.acct

(* A derived EAB key binds one account, however often operators ask for    *)
(* it, until an operator deletes it (post_eab, mark_used).                 *)
DerivedEabOnce == \A p \in Principals : consumed[p] <= 1

(* An order that names a profile is issued with that profile's parameters, *)
(* as they are now, or not at all, although profiles are edited, deleted   *)
(* and reloaded between the order and its finalization; the one exception  *)
(* is a registry that operators emptied (resolve_cert_params).             *)
ProfileHonoured ==
    \A i \in issued : i.profile # NoProfile /\ i.params = CaParams => i.emptied

(* No sequence of requests by operators and accounts leaves an operator's CA *)
(* scope, or takes from an order what it was promised.                      *)
ScopesKept == ReadsStayHome /\ WritesStayHome /\ OrdersKeepDelegation /\ DerivedEabOnce /\ ProfileHonoured
=============================================================================
