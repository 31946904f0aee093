------------------------------ MODULE Profiles ------------------------------
(***************************************************************************)
(* Certificate profiles and the issuance policy at a finalization: the     *)
(* registry and its providers (src/profiles), each profile's own checks    *)
(* (profiles/auth.rs), the policy engine (crates/akamu-policy) with the    *)
(* rules derived from the profiles at start-up (compat.rs), and the order  *)
(* in which a finalization asks them (routes/finalize.rs, src/policy.rs),  *)
(* while profiles are refreshed and edited and grants come and go.         *)
(*                                                                         *)
(* A pattern is given by what it does: [hits, whole, ends], the names in   *)
(* which the regular expression is found, those it matches entirely, and   *)
(* whether its text begins with ^ and ends with $.                         *)
(***************************************************************************)
EXTENDS Integers, Sequences, FiniteSets

CONSTANTS
    Names,        \* identifiers, as type:value
    ProfileIds,   \* contains "default"
    Provider1, Provider2,  \* [ProfileIds -> set of texts]: what either provider may say of a profile
    ItemClasses,  \* what a profile's text can set
    PolicyRuleSets, \* sets of configured and stored rules an engine may be built with
    GrantRows,    \* what accounts.profile_grants may hold
    AccountPrincipal, \* the account's Kerberos principal: a set of at most one
    MaxEdits      \* bound

VARIABLES
    texts,     \* <<[ProfileIds -> {} or {text}], ...>>: what the providers hold
    reachable, \* whether the second provider, a directory, answers
    registry,  \* [ProfileIds -> {} or {params}]: ProfileCache.profiles
    engine,    \* [mode, compat, rules]: IssuancePolicyEngine
    grants,    \* [row, list] of the account: absent, null, corrupt, or a list
    fz,        \* the finalization in flight
    edits
profVars == <<texts, reachable, registry, engine, grants, fz, edits>>

-----------------------------------------------------------------------------
(* Loading.                                                                *)

Unrestricted(ext) == [ext |-> ext, patterns |-> {}, all |-> TRUE, hook |-> FALSE, grant |-> FALSE]
CaDefaults == [c \in ItemClasses |-> "ca"]
from_ca == Unrestricted(CaDefaults)

(* A builtin profile's table: what it leaves out comes from the CA.          *)
load_builtin(t) == {[ext |-> [c \in ItemClasses |-> IF c \in t.sets THEN "own" ELSE "ca"],
                     patterns |-> t.patterns, all |-> t.all, hook |-> t.hook, grant |-> t.grant]}

(* A Dogtag profile's text: of each class the last usable item of the first  *)
(* policy set counts.  A text that names no policy set is skipped.           *)
usable(t, c) == {i \in DOMAIN t.items : t.items[i].class = c /\ t.items[i].value # "unusable"}
translate(t) ==
    IF ~t.list THEN {}
    ELSE {Unrestricted([c \in ItemClasses |->
              IF usable(t, c) = {} THEN "ca"
              ELSE t.items[CHOOSE i \in usable(t, c) : \A j \in usable(t, c) : j <= i].value])}

load_profiles_from_ldap == [p \in ProfileIds |-> UNION {translate(t) : t \in texts[2][p]}]

(* The first provider to name a profile wins; a provider that fails, fails   *)
(* the whole load.                                                         *)
load_all_providers ==
    IF ~reachable THEN {}
    ELSE {[p \in ProfileIds |-> IF texts[1][p] # {} THEN UNION {load_builtin(t) : t \in texts[1][p]} ELSE load_profiles_from_ldap[p]]}

-----------------------------------------------------------------------------
(* The policy engine.                                                      *)

Dimensions == {"profile", "group", "identifier"}

(* A pattern is anchored on compilation unless its text is already.          *)
get_or_compile(p) == IF p.ends THEN p.hits ELSE p.whole

(* A rule of an engine: for each dimension {} when it says nothing, else the *)
(* set of its values.                                                      *)
Rule(deny, profile, group, identifier) == [deny |-> deny, profile |-> profile, group |-> group, identifier |-> identifier]
RuleMatches(r, q) ==
    /\ \A v \in r.profile : q.profile \subseteq v /\ q.profile # {}
    /\ \A v \in r.group : v \cap (q.groups \cup {"_account_"}) # {}
    /\ \A v \in r.identifier : \E p \in v : q.name \in get_or_compile(p)
(* A matching deny rule wins, and without an allow rule nothing is allowed.  *)
evaluate(rules, q) == (\E r \in rules : ~r.deny /\ RuleMatches(r, q)) /\ ~(\E r \in rules : r.deny /\ RuleMatches(r, q))

(* The rule that stands for a profile's own checks.                         *)
translate_profile_to_rule(p, par) ==
    Rule(FALSE, {{p}}, IF par.grant THEN {{p}} ELSE {}, IF par.patterns = {} THEN {} ELSE {par.patterns})

build_policy_engine(reg, mode, rules) ==
    [mode |-> mode, rules |-> rules, compat |-> UNION {{translate_profile_to_rule(p, par) : par \in reg[p]} : p \in ProfileIds}]

-----------------------------------------------------------------------------
(* fz: profile is the one the checks are made for, params what was resolved  *)
(* for it (of applied), held whether the account has held its grant since    *)
(* the hook answered, unread and groups what the policy read of the account. *)
IdleFz == [pc |-> "idle", named |-> {}, profile |-> {}, applied |-> {}, names |-> {}, params |-> from_ca, held |-> FALSE, unread |-> FALSE, groups |-> {}]

Holds(g, ps) == g.row = "list" /\ ps # {} /\ ps \subseteq g.list

ProfilesInit ==
    /\ texts \in Provider1 \X Provider2 /\ reachable = TRUE
    /\ registry = CHOOSE r \in load_all_providers : TRUE
    /\ \E mode \in {"shadow", "enforce"}, rules \in PolicyRuleSets : engine = build_policy_engine(registry, mode, rules)
    /\ grants \in GrantRows /\ fz = IdleFz /\ edits = 0

(* Background refresh: a failure leaves the registry as it was.  The engine's *)
(* rules stay those of the start.                                          *)
refresh ==
    /\ fz.pc \notin {"refused", "denied", "issued"}
    /\ registry' = IF load_all_providers = {} THEN registry ELSE CHOOSE r \in load_all_providers : TRUE
    /\ UNCHANGED <<texts, reachable, engine, grants, fz, edits>>

(* Bounds: so many edits, and none once the finalization is decided.         *)
MayEdit == edits < MaxEdits /\ fz.pc \notin {"refused", "denied", "issued"}

(* Operators add, remove and replace profiles in the registry; the           *)
(* directory's are edited, and it may not answer; grants change.             *)
add_profile(p, par) == registry[p] = {} /\ registry' = [registry EXCEPT ![p] = {par}]
remove_profile(p) == registry[p] # {} /\ registry' = [registry EXCEPT ![p] = {}]
update_profile(p, par) == registry[p] # {} /\ registry' = [registry EXCEPT ![p] = {par}]
EditProfile ==
    /\ MayEdit /\ edits' = edits + 1
    /\ \E p \in ProfileIds :
         \/ \E t \in UNION {s[p] : s \in Provider1} : \E par \in load_builtin(t) : add_profile(p, par) \/ update_profile(p, par)
         \/ remove_profile(p)
    /\ UNCHANGED <<texts, reachable, engine, grants, fz>>
EditDirectory ==
    /\ MayEdit /\ edits' = edits + 1
    /\ \/ \E t \in Provider2 : texts' = [texts EXCEPT ![2] = t] /\ UNCHANGED reachable
       \/ reachable' = ~reachable /\ UNCHANGED texts
    /\ UNCHANGED <<registry, engine, grants, fz>>
EditGrants ==
    /\ MayEdit /\ edits' = edits + 1
    /\ grants' \in GrantRows \ {grants}
    /\ fz' = [fz EXCEPT !.held = @ \/ (fz.pc \in {"grant", "policy"} /\ Holds(grants', fz.applied))]
    /\ UNCHANGED <<texts, reachable, registry, engine>>

-----------------------------------------------------------------------------
(* A finalization.                                                         *)

(* The profile the order names, or "default" when it names none and there is *)
(* one, decides; without any profile at all the CA's defaults do, also for   *)
(* an order that names one.  The registry is read once.                    *)
resolve_cert_params(named) ==
    IF \A p \in ProfileIds : registry[p] = {} THEN {[params |-> from_ca, applied |-> {}]}
    ELSE IF named # {} THEN UNION {{[params |-> par, applied |-> named] : par \in registry[p]} : p \in named}
    ELSE IF registry["default"] = {} THEN {[params |-> from_ca, applied |-> {}]}
    ELSE {[params |-> par, applied |-> {"default"}] : par \in registry["default"]}

(* Mutant: a default that was applied silently is not checked. *)
Muteffective_profile(named, applied) == named
effective_profile(named, applied) == IF named # {} THEN named ELSE applied

(* With match_all every name must match a pattern, without it some name; the *)
(* expressions are searched for, not anchored.                             *)
check_identifier_patterns(par, names) ==
    LET matching == {n \in names : \E p \in par.patterns : n \in p.hits}
    IN  par.patterns = {} \/ (IF par.all THEN matching = names ELSE matching # {})

finalize(named, names) ==
    /\ fz.pc = "idle"
    /\ IF resolve_cert_params(named) = {} THEN fz' = [fz EXCEPT !.pc = "refused"]
       ELSE \E r \in resolve_cert_params(named) :
              LET prof == effective_profile(named, r.applied)
                  next == IF prof = {} THEN "policy" ELSE IF ~check_identifier_patterns(r.params, names) THEN "refused"
                          ELSE IF r.params.hook THEN "hook" ELSE "grant"
              IN  fz' = [IdleFz EXCEPT !.pc = next, !.named = named, !.profile = prof, !.applied = r.applied, !.names = names,
                                       !.params = r.params, !.held = next \in {"grant", "policy"} /\ Holds(grants, r.applied)]
    /\ UNCHANGED <<texts, reachable, registry, engine, grants, edits>>

(* The hook refuses by its exit status, by taking too long, by writing too   *)
(* much or something that names no valid extra name.                        *)
parse_hook_extra_sans(out) == out # "invalid"
check_auth_hook ==
    /\ fz.pc = "hook"
    /\ \E exit \in {"success", "failure", "timeout"}, out \in {"empty", "sans", "invalid", "long"} :
         fz' = IF exit = "success" /\ out # "long" /\ parse_hook_extra_sans(out)
               THEN [fz EXCEPT !.pc = "grant", !.held = Holds(grants, fz.applied)] ELSE [fz EXCEPT !.pc = "refused"]
    /\ UNCHANGED <<texts, reachable, registry, engine, grants, edits>>

check_account_grant ==
    /\ fz.pc = "grant"
    /\ fz' = [fz EXCEPT !.pc = IF fz.params.grant /\ ~Holds(grants, fz.profile) THEN "refused" ELSE "policy"]
    /\ UNCHANGED <<texts, reachable, registry, engine, grants, edits>>

(* The account's groups are its grants and its principal.  What cannot be    *)
(* read or evaluated refuses in enforce mode; in shadow mode nothing does.   *)
(* Every name must be allowed.                                             *)
evaluate_issuance_policy ==
    /\ fz.pc = "policy"
    /\ \E read \in BOOLEAN :
         LET unread == ~read \/ grants.row = "corrupt"
             groups == (IF grants.row = "list" THEN grants.list ELSE {}) \cup AccountPrincipal
             allows == \A n \in fz.names : evaluate(engine.compat \cup engine.rules, [profile |-> fz.profile, groups |-> groups, name |-> n])
         IN  fz' = [fz EXCEPT !.pc = IF engine.mode = "enforce" /\ (unread \/ ~allows) THEN "denied" ELSE "issued", !.unread = unread, !.groups = groups]
    /\ UNCHANGED <<texts, reachable, registry, engine, grants, edits>>

ProfilesNext ==
    \/ fz.pc = "idle" /\ \E named \in {{}} \cup {{p} : p \in ProfileIds}, names \in (SUBSET Names) \ {{}} : finalize(named, names)
    \/ check_auth_hook \/ check_account_grant \/ evaluate_issuance_policy
    \/ refresh \/ EditProfile \/ EditDirectory \/ EditGrants
ProfilesSpec == ProfilesInit /\ [][ProfilesNext]_profVars

-----------------------------------------------------------------------------
(* A certificate is issued under a profile only to an account that held the  *)
(* grant the profile asks for after its hook had answered, and for names its *)
(* patterns permit, whether the order named the profile or the default was   *)
(* applied, and however profiles, rules and grants changed meanwhile         *)
(* (finalize.rs run_profile_and_csr_checks, auth.rs check_profile_auth).     *)
IssuedAsProfileSays ==
    fz.pc = "issued" /\ fz.applied # {} =>
        /\ fz.params.grant => fz.held
        /\ LET ok == {n \in fz.names : \E p \in fz.params.patterns : n \in p.hits}
           IN  fz.params.patterns = {} \/ ok = fz.names \/ (~fz.params.all /\ ok # {})

(* Turning enforcement on refuses nothing a profile's own checks permit: the *)
(* rule derived from the profile agrees with them, for patterns that match   *)
(* whole names, unless a deny rule or unreadable account data stands in the  *)
(* way, the profile has changed since the start, or the grant was lost       *)
(* (compat.rs translate_profile_to_rule).                                   *)
CompatAgrees ==
    fz.pc = "denied" /\ fz.applied # {} /\ fz.params.all /\ (\A p \in fz.params.patterns : p.hits = p.whole)
    /\ (\A p \in fz.applied : translate_profile_to_rule(p, fz.params) \in engine.compat) /\ (\A r \in engine.rules : ~r.deny)
        => fz.unread \/ (fz.params.grant /\ ~(fz.applied \subseteq fz.groups))

(* Profiles are honoured while they are edited, reloaded and derived from    *)
(* policy rules.                                                            *)
ProfilesHonoured == IssuedAsProfileSays /\ CompatAgrees
=============================================================================
