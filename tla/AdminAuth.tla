----------------------------- MODULE AdminAuth -----------------------------
(***************************************************************************)
(* Operators, their logins and their sessions (src/src/admin/auth/,        *)
(* src/src/routes/admin/operators.rs, src/src/db/operators.rs).  A login   *)
(* reads the operator's row and inserts a session several awaits later; an *)
(* administrator's request changes the row and then drops the sessions.    *)
(* Every slot of Logins and of Admins is one HTTP request being served.    *)
(***************************************************************************)
EXTENDS Integers, FiniteSets

CONSTANTS
    Ops,          \* operator ids
    CAs,          \* configured certificate authorities
    Roles,        \* roles in use, "ca_ra" and "administrator" among them
    Logins,       \* slots of login requests
    Admins,       \* slots of administration requests
    Budgets,      \* bounds of a behaviour: the clock, the sessions created, the
                  \* EAB logins and the administration requests admitted
    EabWindow,    \* accepted difference of an EAB login's timestamp (60 s)
    EabNonceCap,  \* EAB_NONCE_CAP
    SessionTtl,   \* session_ttl_secs
    SessionLock,  \* session_lock_secs
    SessionCap,   \* SESSION_CAP
    LockoutSecs,  \* lockout_duration_secs
    MaxFailed     \* max_failed_auth

Unscoped == ""
Scopes == CAs \union {Unscoped}

ASSUME AdminAuthAssumption ==
    /\ Budgets \subseteq [time : Nat, tokens : Nat \ {0}, eab : Nat, changes : Nat]
    /\ IsFiniteSet(Logins)
    /\ {EabWindow, LockoutSecs} \subseteq Nat
    /\ {EabNonceCap, SessionTtl, SessionLock, SessionCap, MaxFailed} \subseteq Nat \ {0}
    /\ {"administrator", "ca_ra"} \subseteq Roles
    /\ Roles \subseteq {"administrator", "ca_operations", "ca_ra", "auditor"}
    /\ Unscoped \notin CAs

VARIABLES
    budget,    \* the bounds of this behaviour
    now,       \* the clock
    operators, \* the operators table: a row, or an absent one
    sessions,  \* admin_sessions: the live tokens
    nonces,    \* eab_session_nonces: reserved keys and when
    login,     \* the login request of each slot
    adm,       \* the administration request of each slot
    tokens,    \* tokens handed out so far
    used,      \* EAB logins and administration requests admitted so far
    accepted,  \* ghost: EAB messages accepted, with multiplicity
    evicted,   \* ghost: the nonce store has been truncated
    guesses    \* ghost: wrong signatures evaluated since the last reset

authVars == <<budget, now, operators, sessions, nonces, login, adm, tokens, used,
              accepted, evicted, guesses>>

IdleLogin == [pc |-> "idle"]
IdleAdm == [pc |-> "idle"]
NewRow(role, ca) == [exists |-> TRUE, active |-> TRUE, role |-> role, ca |-> ca,
                     failed |-> 0, locked |-> -1, ver |-> 0, stale |-> FALSE]
AbsentRow == [exists |-> FALSE, active |-> FALSE, role |-> "administrator",
              ca |-> Unscoped, failed |-> 0, locked |-> -1, ver |-> 0,
              stale |-> FALSE]

(* One bootstrap administrator, logged in.                                 *)
AuthInit ==
    /\ budget \in Budgets /\ now = 0 /\ tokens = 1
    /\ used = [eab |-> 0, changes |-> 0]
    /\ \E o \in Ops :
         /\ operators = [p \in Ops |-> IF p = o THEN NewRow("administrator", Unscoped)
                                       ELSE AbsentRow]
         /\ sessions = {[token |-> 1, op |-> o, role |-> "administrator",
                         ca |-> Unscoped, last |-> 0, ver |-> 0, overtaken |-> FALSE]}
    /\ nonces = {} /\ accepted = {} /\ evicted = FALSE
    /\ login = [l \in Logins |-> IdleLogin]
    /\ adm = [a \in Admins |-> IdleAdm]
    /\ guesses = [o \in Ops |-> 0]

-----------------------------------------------------------------------------
(* Sessions.                                                               *)
Live == {s \in sessions : now - s.last < SessionTtl}

(* create_session: expired sessions go, a full store loses its least       *)
(* recently active one, the role and the CA are copied from the row read.  *)
create_session(l) ==
    LET live   == Live
        victim == CHOOSE s \in live : \A u \in live : s.last <= u.last
        kept   == IF Cardinality(live) >= SessionCap THEN live \ {victim} ELSE live
    IN  /\ tokens < budget.tokens
        /\ tokens' = tokens + 1
        /\ sessions' = kept \union
             {[token |-> tokens + 1, op |-> login[l].op, role |-> login[l].row.role,
               ca |-> login[l].row.ca, last |-> now, ver |-> login[l].row.ver,
               overtaken |-> login[l].overtaken]}

(* lookup_session: a session idle for the lock threshold is refused and    *)
(* not refreshed; any other is refreshed.                                  *)
lookup_session(s) ==
    /\ s \in Live /\ now - s.last < SessionLock
    /\ sessions' = (Live \ {s}) \union {[s EXCEPT !.last = now]}

(* Every session of an operator is dropped, and the logins of that         *)
(* operator that are between reading the row and inserting have been       *)
(* overtaken.                                                              *)
drop_sessions(o) ==
    /\ sessions' = {s \in sessions : s.op # o}
    /\ login' = [l \in Logins |->
          IF login[l].pc \in {"reset", "session", "verify"} /\ login[l].op = o
          THEN [login[l] EXCEPT !.overtaken = TRUE] ELSE login[l]]

-----------------------------------------------------------------------------
(* db::operators.                                                          *)
is_locked(row) == row.locked >= now
increment_failed(row) ==
    [row EXCEPT !.failed = @ + 1,
                !.locked = IF row.failed + 1 >= MaxFailed THEN now + LockoutSecs ELSE @]
reset_failed(row) == [row EXCEPT !.failed = 0, !.locked = -1]
set_active(row, active) == [row EXCEPT !.active = active,
                                       !.ver = IF active THEN @ ELSE @ + 1]

(* The row a certificate's fingerprint or a Kerberos principal selects.    *)
Selected(o) == operators[o].exists /\ operators[o].active

(* resolve_operator_context with a client certificate, authenticate_gssapi *)
(* with a token: the row is read, then tested for a lock.                  *)
LoginRead(l, o) ==
    /\ login[l].pc = "idle" /\ tokens < budget.tokens
    /\ Selected(o) /\ ~is_locked(operators[o])
    /\ login' = [login EXCEPT ![l] = [pc |-> "reset", method |-> "cert", op |-> o,
                    row |-> operators[o], overtaken |-> FALSE]]
    /\ UNCHANGED <<budget, now, operators, sessions, nonces, adm, tokens, used,
                   accepted, evicted, guesses>>

(* reset_failed runs before the session for these two methods, after it    *)
(* for an EAB login.                                                       *)
LoginReset(l) ==
    /\ login[l].pc = "reset"
    /\ operators' = [operators EXCEPT ![login[l].op] = reset_failed(@)]
    /\ guesses' = [guesses EXCEPT ![login[l].op] = 0]
    /\ login' = [login EXCEPT ![l] = IF login[l].method = "eab" THEN IdleLogin
                                     ELSE [@ EXCEPT !.pc = "session"]]
    /\ UNCHANGED <<budget, now, sessions, nonces, adm, tokens, used, accepted, evicted>>

LoginSession(l) ==
    /\ login[l].pc = "session"
    /\ create_session(l)
    /\ login' = [login EXCEPT ![l] = IF login[l].method = "eab"
                                     THEN [@ EXCEPT !.pc = "reset"] ELSE IdleLogin]
    /\ UNCHANGED <<budget, now, operators, nonces, adm, used, accepted, evicted, guesses>>

-----------------------------------------------------------------------------
(* post_session_eab: the key kid.timestamp is reserved atomically before   *)
(* anything is awaited; entries are kept for twice the window.             *)
Fresh == {n \in nonces : now - n.at <= 2 * EabWindow}

(* A full store keeps its newest half.                                     *)
Newest(ns) ==
    CHOOSE keep \in SUBSET ns :
        /\ Cardinality(keep) = EabNonceCap \div 2
        /\ \A n \in keep, m \in ns \ keep : n.at >= m.at

EabReserve(l, o, ts, good) ==
    LET full == Cardinality(Fresh) >= EabNonceCap IN
    /\ login[l].pc = "idle" /\ used.eab < budget.eab
    /\ used' = [used EXCEPT !.eab = @ + 1]
    /\ now - ts <= EabWindow /\ ts - now <= EabWindow
    /\ ~ \E n \in Fresh : n.op = o /\ n.ts = ts
    /\ nonces' = (IF full THEN Newest(Fresh) ELSE Fresh)
                 \union {[op |-> o, ts |-> ts, at |-> now]}
    /\ evicted' = (evicted \/ full)
    /\ login' = [login EXCEPT ![l] = [pc |-> "lookup", method |-> "eab", op |-> o,
                    ts |-> ts, good |-> good]]
    /\ UNCHANGED <<budget, now, operators, sessions, adm, tokens, accepted, guesses>>

(* The key's owner is read; an inactive or locked owner is refused and the *)
(* reservation stays.                                                      *)
EabLookup(l) ==
    /\ login[l].pc = "lookup"
    /\ LET row == operators[login[l].op] IN
       login' = [login EXCEPT ![l] =
          IF Selected(login[l].op) /\ ~is_locked(row)
          THEN [pc |-> "verify", method |-> "eab", op |-> login[l].op, ts |-> login[l].ts,
                good |-> login[l].good, row |-> row, overtaken |-> FALSE]
          ELSE IdleLogin]
    /\ UNCHANGED <<budget, now, operators, sessions, nonces, adm, tokens, used,
                   accepted, evicted, guesses>>

(* A wrong signature is counted by one UPDATE, and then the reservation is *)
(* released for the rightful sender.                                       *)
EabReject(l) ==
    /\ login[l].pc = "verify" /\ ~login[l].good
    /\ operators' = [operators EXCEPT ![login[l].op] = increment_failed(@)]
    /\ guesses' = [guesses EXCEPT ![login[l].op] = @ + 1]
    /\ login' = [login EXCEPT ![l].pc = "release"]
    /\ UNCHANGED <<budget, now, sessions, nonces, adm, tokens, used, accepted, evicted>>

EabRelease(l) ==
    /\ login[l].pc = "release"
    /\ nonces' = {n \in nonces : n.op # login[l].op \/ n.ts # login[l].ts}
    /\ login' = [login EXCEPT ![l] = IdleLogin]
    /\ UNCHANGED <<budget, now, operators, sessions, adm, tokens, used, accepted,
                   evicted, guesses>>

EabAccept(l) ==
    /\ login[l].pc = "verify" /\ login[l].good
    /\ accepted' = accepted \union {[op |-> login[l].op, ts |-> login[l].ts,
                       n |-> Cardinality({m \in accepted : m.op = login[l].op
                                                        /\ m.ts = login[l].ts})]}
    /\ login' = [login EXCEPT ![l].pc = "session"]
    /\ UNCHANGED <<budget, now, operators, sessions, nonces, adm, tokens, used,
                   evicted, guesses>>

-----------------------------------------------------------------------------
(* Administration requests.  The gate resolves the session, tests the role *)
(* and hands the handler a copy of the session's role and scope.           *)
Ctx(s) == [op |-> s.op, ca |-> s.ca, token |-> s.token]
ca_scope_allows(ctx, ca) == ctx.ca = Unscoped \/ ca = ctx.ca

(* The gate of the operator routes: only administrators.                   *)
admin_rbac_gate(a, s, next) ==
    /\ adm[a].pc = "idle" /\ used.changes < budget.changes
    /\ lookup_session(s) /\ s.role = "administrator"
    /\ used' = [used EXCEPT !.changes = @ + 1]
    /\ adm' = [adm EXCEPT ![a] = next]
    /\ UNCHANGED <<budget, now, operators, nonces, login, tokens, accepted, evicted, guesses>>

(* post_operators: a row is created unless the rules on ca_id forbid it.   *)
post_operators(a, s, o, role, ca) ==
    /\ ~operators[o].exists
    /\ ~(ca = Unscoped /\ role = "ca_ra")
    /\ ca_scope_allows(Ctx(s), ca)
    /\ adm[a].pc = "idle" /\ used.changes < budget.changes
    /\ lookup_session(s) /\ s.role = "administrator"
    /\ used' = [used EXCEPT !.changes = @ + 1]
    /\ operators' = [operators EXCEPT ![o] = NewRow(role, ca)]
    /\ UNCHANGED <<budget, now, nonces, login, adm, tokens, accepted, evicted, guesses>>

(* patch_operator: a scoped caller's target is looked up first; the row is *)
(* updated; the sessions are dropped when it is deactivated.               *)
PatchCheck(a, s, o, active) ==
    /\ operators[o].exists /\ ca_scope_allows(Ctx(s), operators[o].ca)
    /\ admin_rbac_gate(a, s, [pc |-> "patch", op |-> o, active |-> active])

PatchWrite(a) ==
    /\ adm[a].pc = "patch"
    /\ operators' = [operators EXCEPT ![adm[a].op] = set_active(@, adm[a].active)]
    /\ adm' = [adm EXCEPT ![a] = IF adm[a].active THEN IdleAdm
                                 ELSE [pc |-> "drop", op |-> adm[a].op]]
    /\ UNCHANGED <<budget, now, sessions, nonces, login, tokens, used, accepted,
                   evicted, guesses>>

(* put_operator's rules for ca_id; the target's role and scope are those   *)
(* of the row that was read.  role and ca are NoUpdate when absent.        *)
NoUpdate == "none"
Absurd == "refused"
ca_id_update(ctx, row, role, ca) ==
    IF ca # NoUpdate
    THEN IF \/ ctx.ca # Unscoped /\ ca # ctx.ca
            \/ ca = Unscoped /\ (IF role = NoUpdate THEN row.role ELSE role) = "ca_ra"
         THEN Absurd ELSE ca
    ELSE IF role = "ca_ra" THEN Absurd
    ELSE IF role \in {"administrator", "auditor"}
         THEN IF ctx.ca # Unscoped THEN Absurd ELSE Unscoped
         ELSE NoUpdate

PutCheck(a, s, o, role, ca) ==
    LET row == operators[o] IN
    /\ row.exists /\ ca_scope_allows(Ctx(s), row.ca)
    /\ ca_id_update(Ctx(s), row, role, ca) # Absurd
    /\ admin_rbac_gate(a, s, [pc |-> "put", op |-> o, role |-> role,
                              ca |-> ca_id_update(Ctx(s), row, role, ca),
                              ver |-> row.ver])

(* db::operators::update sets only the columns that are given.             *)
update(row, role, ca, ver) ==
    [row EXCEPT !.role = IF role = NoUpdate THEN @ ELSE role,
                !.ca = IF ca = NoUpdate THEN @ ELSE ca,
                !.ver = @ + 1, !.stale = @ \/ row.ver # ver]

(* Mutant: the handler returns without dropping the sessions.              *)
MutPutWrite(a) ==
    /\ adm[a].pc = "put"
    /\ operators' = [operators EXCEPT ![adm[a].op] =
                       update(@, adm[a].role, adm[a].ca, adm[a].ver)]
    /\ adm' = [adm EXCEPT ![a] = IdleAdm]
    /\ UNCHANGED <<budget, now, sessions, nonces, login, tokens, used, accepted,
                   evicted, guesses>>
PutWrite(a) ==
    /\ adm[a].pc = "put"
    /\ operators' = [operators EXCEPT ![adm[a].op] =
                       update(@, adm[a].role, adm[a].ca, adm[a].ver)]
    /\ adm' = [adm EXCEPT ![a] = [pc |-> "drop", op |-> adm[a].op]]
    /\ UNCHANGED <<budget, now, sessions, nonces, login, tokens, used, accepted,
                   evicted, guesses>>

DropSessions(a) ==
    /\ adm[a].pc = "drop"
    /\ drop_sessions(adm[a].op)
    /\ adm' = [adm EXCEPT ![a] = IdleAdm]
    /\ UNCHANGED <<budget, now, operators, nonces, tokens, used, accepted, evicted, guesses>>

unlock_operator(a, s, o) ==
    /\ operators[o].exists /\ ca_scope_allows(Ctx(s), operators[o].ca)
    /\ adm[a].pc = "idle" /\ used.changes < budget.changes
    /\ lookup_session(s) /\ s.role = "administrator"
    /\ used' = [used EXCEPT !.changes = @ + 1]
    /\ operators' = [operators EXCEPT ![o] = reset_failed(@)]
    /\ guesses' = [guesses EXCEPT ![o] = 0]
    /\ UNCHANGED <<budget, now, nonces, login, adm, tokens, accepted, evicted>>

(* delete_session: any role may log out.                                   *)
delete_session(s) ==
    /\ s \in Live /\ now - s.last < SessionLock
    /\ sessions' = Live \ {s}
    /\ UNCHANGED <<budget, now, operators, nonces, login, adm, tokens, used, accepted,
                   evicted, guesses>>

(* A second passes; a lock that ran out starts a new round of guesses.     *)
Tick ==
    /\ now < budget.time /\ now' = now + 1
    /\ guesses' = [o \in Ops |-> IF operators[o].locked = now THEN 0 ELSE guesses[o]]
    /\ UNCHANGED <<budget, operators, sessions, nonces, login, adm, tokens, used,
                   accepted, evicted>>

AuthNext ==
    \/ \E l \in Logins :
         \/ \E o \in Ops : LoginRead(l, o)
         \/ LoginReset(l) \/ LoginSession(l)
         \/ \E o \in Ops, ts \in 0..budget.time, g \in BOOLEAN : EabReserve(l, o, ts, g)
         \/ EabLookup(l) \/ EabReject(l) \/ EabRelease(l) \/ EabAccept(l)
    \/ \E a \in Admins :
         \/ \E s \in sessions, o \in Ops :
              \/ \E role \in Roles, ca \in Scopes : post_operators(a, s, o, role, ca)
              \/ \E active \in BOOLEAN : PatchCheck(a, s, o, active)
              \/ \E role \in Roles \union {NoUpdate}, ca \in Scopes \union {NoUpdate} :
                    PutCheck(a, s, o, role, ca)
              \/ unlock_operator(a, s, o)
         \/ PatchWrite(a) \/ PutWrite(a) \/ DropSessions(a)
    \/ \E s \in sessions : delete_session(s)
    \/ Tick

AuthSpec == AuthInit /\ [][AuthNext]_authVars

-----------------------------------------------------------------------------
(* The operators and sessions are well formed and the session store stays  *)
(* within its cap.                                                         *)
AuthTypeOK ==
    /\ \A o \in Ops : operators[o].role \in Roles /\ operators[o].ca \in Scopes
    /\ \A s \in sessions : s.op \in Ops /\ s.role \in Roles /\ s.ca \in Scopes
    /\ Cardinality(sessions) <= SessionCap
    /\ now \in 0..budget.time /\ tokens \in 0..budget.tokens

(* A session carries the role and the scope its operator has now, unless a *)
(* request that changed the operator has yet to drop its sessions, or the  *)
(* login read the row before a change whose drop ran before the session    *)
(* was inserted (put_operator, patch_operator, create_session).            *)
SessionsFollowOperator ==
    \A s \in sessions :
        \/ s.ver = operators[s.op].ver
        \/ s.overtaken
        \/ \E a \in Admins : adm[a].pc = "drop" /\ adm[a].op = s.op

(* However logins interleave, the wrong EAB signatures evaluated for an    *)
(* operator before it is locked are bounded by max_failed_auth and the     *)
(* requests in flight: failures are counted by one UPDATE                  *)
(* (increment_failed).                                                     *)
FailuresLock ==
    \A o \in Ops : guesses[o] <= MaxFailed + Cardinality(Logins) - 1

(* A signed EAB login message opens at most one session although its       *)
(* reservation is dropped after a while and released on failures: entries  *)
(* outlive every instant at which the timestamp is accepted, unless the    *)
(* store was truncated (post_session_eab).                                 *)
EabLoginOnce == evicted \/ \A m \in accepted : m.n = 0

(* A registration-authority operator has a CA scope unless two updates of  *)
(* the row overlapped, each validated against what the other replaced      *)
(* (post_operators, put_operator).                                         *)
CaRaHasScope ==
    \A o \in Ops : operators[o].exists /\ operators[o].role = "ca_ra"
                   /\ operators[o].ca = Unscoped => operators[o].stale

(* Logins, sessions and lockouts follow the operator's row, through racing   *)
(* logins, replays and changes by other administrators.                     *)
SessionsSound == AuthTypeOK /\ SessionsFollowOperator /\ FailuresLock /\ EabLoginOnce /\ CaRaHasScope
=============================================================================
