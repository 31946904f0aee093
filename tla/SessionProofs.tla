---------------------------- MODULE SessionProofs ----------------------------
(***************************************************************************)
(* Operators, logins and sessions, for any number of operators, requests   *)
(* in flight, limits and budgets.                                          *)
(*                                                                         *)
(* AuthStep says what a step may do to the rows, to the copies of them in  *)
(* logins and sessions, and to the requests that have yet to drop          *)
(* sessions; the rest of the argument uses only that.  Four invariants of  *)
(* what is in flight carry the property: a row read by a login is current, *)
(* or a drop is due or has been (FollowInv); an update that was tested on  *)
(* the current row keeps the rules on scopes (ScopeInv); an operator that  *)
(* is not locked is short of max_failed_auth and who is at a signature     *)
(* found it so (LockInv); as long as its timestamp is acceptable, a        *)
(* message in hand or accepted has its reservation and one holder          *)
(* (EabInv).                                                               *)
(***************************************************************************)
EXTENDS AdminAuth, FiniteSetTheorems, WellFoundedInduction, TLAPS

(* The shape of the state.                                                 *)
Row == [exists : BOOLEAN, active : BOOLEAN, role : Roles, ca : Scopes,
        failed : Nat, locked : Int, ver : Nat, stale : BOOLEAN]
Session == [token : Nat, op : Ops, role : Roles, ca : Scopes, last : Nat, ver : Nat,
            overtaken : BOOLEAN]
CertLogin == [pc : {"reset", "session"}, method : {"cert"}, op : Ops, row : Row, overtaken : BOOLEAN]
EabLogin == [pc : {"lookup"}, method : {"eab"}, op : Ops, ts : Nat, good : BOOLEAN]
EabRow == [pc : {"verify", "release", "session", "reset"}, method : {"eab"}, op : Ops, ts : Nat,
           good : BOOLEAN, row : Row, overtaken : BOOLEAN]
LoginRec == {IdleLogin} \union CertLogin \union EabLogin \union EabRow
AdmRec ==
    {IdleAdm} \union [pc : {"patch"}, op : Ops, active : BOOLEAN] \union [pc : {"drop"}, op : Ops]
    \union [pc : {"put"}, op : Ops, role : Roles \union {NoUpdate}, ca : Scopes \union {NoUpdate}, ver : Nat]

AuthTypes ==
    /\ budget \in Budgets /\ now \in 0..budget.time /\ tokens \in 0..budget.tokens
    /\ operators \in [Ops -> Row] /\ guesses \in [Ops -> Nat]
    /\ login \in [Logins -> LoginRec] /\ adm \in [Admins -> AdmRec]
    /\ sessions \subseteq Session
SessionsCapped == IsFiniteSet(sessions) /\ Cardinality(sessions) <= SessionCap

LEMMA BudgetFacts ==
    ASSUME AuthTypes
    PROVE  budget.time \in Nat /\ budget.tokens \in Nat /\ now \in Nat /\ tokens \in Nat
<1>1. budget.time \in Nat /\ budget.tokens \in Nat
  BY AdminAuthAssumption DEF AuthTypes
<1> QED BY <1>1 DEF AuthTypes

(* The fields of a login that is under way, and those it keeps when only   *)
(* its place in the handler changes.                                       *)
LEMMA LoginFields ==
    ASSUME NEW L \in LoginRec
    PROVE  /\ L.pc \in {"idle", "lookup", "verify", "release", "session", "reset"}
           /\ L.pc # "idle" => L.op \in Ops
           /\ L.pc \in {"verify", "session", "reset"} => L.row \in Row /\ L.overtaken \in BOOLEAN
           /\ L.pc \in {"lookup", "verify", "release"} => L.ts \in Nat /\ L.good \in BOOLEAN
BY DEF LoginRec, IdleLogin, CertLogin, EabLogin, EabRow

LEMMA LoginMoves ==
    ASSUME NEW L \in LoginRec, NEW q \in {"release", "session", "reset"},
           L.pc \in {"verify", "session", "reset"}, q = "release" => L.pc = "verify"
    PROVE  LET M == [L EXCEPT !.pc = q] IN
           /\ M \in LoginRec /\ M.pc = q /\ M.op = L.op
           /\ M.row = L.row /\ M.overtaken = L.overtaken
           /\ L.pc = "verify" => M.ts = L.ts
<1> DEFINE M == [L EXCEPT !.pc = q]
<1>1. CASE L \in CertLogin
  <2>1. M \in CertLogin /\ M.pc = q /\ M.op = L.op /\ M.row = L.row /\ M.overtaken = L.overtaken
    BY <1>1 DEF CertLogin
  <2> QED BY <1>1, <2>1 DEF LoginRec, CertLogin
<1>2. CASE L \in EabRow
  <2>1. M \in EabRow /\ M.pc = q /\ M.op = L.op /\ M.row = L.row /\ M.overtaken = L.overtaken /\ M.ts = L.ts
    BY <1>2 DEF EabRow
  <2> QED BY <2>1 DEF LoginRec
<1> QED BY <1>1, <1>2 DEF LoginRec, IdleLogin, EabLogin

LEMMA LoginOvertaken ==
    ASSUME NEW L \in LoginRec, L.pc \in {"verify", "session", "reset"}
    PROVE  LET M == [L EXCEPT !.overtaken = TRUE] IN
           /\ M \in LoginRec /\ M.pc = L.pc /\ M.op = L.op /\ M.row = L.row /\ M.overtaken = TRUE
           /\ L.pc = "verify" => M.ts = L.ts
<1> DEFINE M == [L EXCEPT !.overtaken = TRUE]
<1>1. CASE L \in CertLogin
  <2>1. M \in CertLogin /\ M.pc = L.pc /\ M.op = L.op /\ M.row = L.row /\ M.overtaken = TRUE
    BY <1>1 DEF CertLogin
  <2> QED BY <1>1, <2>1 DEF LoginRec, CertLogin
<1>2. CASE L \in EabRow
  <2>1. M \in EabRow /\ M.pc = L.pc /\ M.op = L.op /\ M.row = L.row /\ M.overtaken = TRUE /\ M.ts = L.ts
    BY <1>2 DEF EabRow
  <2> QED BY <2>1 DEF LoginRec
<1> QED BY <1>1, <1>2 DEF LoginRec, IdleLogin, EabLogin

(* What the statements on the operators table leave alone.                 *)
LEMMA ResetRow ==
    ASSUME NEW row \in Row
    PROVE  LET r == reset_failed(row) IN
           /\ r \in Row /\ r.ver = row.ver /\ r.exists = row.exists /\ r.stale = row.stale
           /\ r.role = row.role /\ r.ca = row.ca /\ r.failed = 0 /\ r.locked = -1
<1>1. PICK m : m = -1 /\ m \in Int
  OBVIOUS
<1>2. PICK r : r = [row EXCEPT !.failed = 0, !.locked = m]
  OBVIOUS
<1>3. r \in Row
  BY <1>1, <1>2 DEF Row
<1>4. r.ver = row.ver /\ r.role = row.role /\ r.ca = row.ca /\ r.failed = 0 /\ r.locked = m
  BY <1>2 DEF Row
<1>5. r.exists = row.exists /\ r.stale = row.stale
  BY <1>2 DEF Row
<1>6. r = reset_failed(row)
  BY <1>1, <1>2 DEF reset_failed
<1> QED BY <1>1, <1>3, <1>4, <1>5, <1>6

LEMMA FailRow ==
    ASSUME NEW row \in Row, now \in Nat
    PROVE  LET r == increment_failed(row) IN
           /\ r \in Row /\ r.ver = row.ver /\ r.exists = row.exists /\ r.stale = row.stale
           /\ r.role = row.role /\ r.ca = row.ca /\ r.failed = row.failed + 1
           /\ r.failed >= MaxFailed => r.locked >= now
           /\ r.failed < MaxFailed => r.locked = row.locked
<1>0. LockoutSecs \in Nat /\ MaxFailed \in Nat \ {0}
  BY AdminAuthAssumption
<1>1. PICK m : m = (IF row.failed + 1 >= MaxFailed THEN now + LockoutSecs ELSE row.locked) /\ m \in Int
  BY <1>0 DEF Row
<1>2. PICK f : f = row.failed + 1 /\ f \in Nat
  BY DEF Row
<1>3. PICK r : r = [row EXCEPT !.failed = f, !.locked = m]
  OBVIOUS
<1>4. r \in Row
  BY <1>1, <1>2, <1>3 DEF Row
<1>5. r.ver = row.ver /\ r.role = row.role /\ r.ca = row.ca /\ r.failed = f /\ r.locked = m
  BY <1>3 DEF Row
<1>6. r.exists = row.exists /\ r.stale = row.stale
  BY <1>3 DEF Row
<1>7. r = increment_failed(row)
  BY <1>1, <1>2, <1>3 DEF increment_failed, Row
<1>8. /\ f >= MaxFailed => m >= now
      /\ f < MaxFailed => m = row.locked
  BY <1>0, <1>1, <1>2
<1> QED BY <1>2, <1>4, <1>5, <1>6, <1>7, <1>8

LEMMA ActivateRow ==
    ASSUME NEW row \in Row, NEW active \in BOOLEAN
    PROVE  LET r == set_active(row, active) IN
           /\ r \in Row /\ r.exists = row.exists /\ r.stale = row.stale
           /\ r.ver = IF active THEN row.ver ELSE row.ver + 1
           /\ r.role = row.role /\ r.ca = row.ca /\ r.failed = row.failed /\ r.locked = row.locked
<1>1. PICK v : v = (IF active THEN row.ver ELSE row.ver + 1) /\ v \in Nat
  BY DEF Row
<1>2. PICK r : r = [row EXCEPT !.active = active, !.ver = v]
  OBVIOUS
<1>3. r \in Row
  BY <1>1, <1>2 DEF Row
<1>4. r.ver = v /\ r.role = row.role /\ r.ca = row.ca /\ r.failed = row.failed /\ r.locked = row.locked
  BY <1>2 DEF Row
<1>5. r.exists = row.exists /\ r.stale = row.stale
  BY <1>2 DEF Row
<1>6. r = set_active(row, active)
  BY <1>1, <1>2 DEF set_active, Row
<1> QED BY <1>1, <1>3, <1>4, <1>5, <1>6

LEMMA UpdateRow ==
    ASSUME NEW row \in Row, NEW role \in Roles \union {NoUpdate}, NEW ca \in Scopes \union {NoUpdate},
           NEW ver \in Nat, NEW r, r = update(row, role, ca, ver)
    PROVE  /\ r \in Row /\ r.exists = row.exists /\ r.ver = row.ver + 1
           /\ r.failed = row.failed /\ r.locked = row.locked
<1>1. PICK a : a = (IF role = NoUpdate THEN row.role ELSE role) /\ a \in Roles
  BY DEF Row
<1>2. PICK b : b = (IF ca = NoUpdate THEN row.ca ELSE ca) /\ b \in Scopes
  BY DEF Row
<1>3. PICK s : s = (row.stale \/ row.ver # ver) /\ s \in BOOLEAN
  BY DEF Row
<1>4. PICK v : v = row.ver + 1 /\ v \in Nat
  BY DEF Row
<1>5. r = [row EXCEPT !.role = a, !.ca = b, !.ver = v, !.stale = s]
  BY <1>1, <1>2, <1>3, <1>4 DEF update, Row
<1>6. r \in Row
  BY <1>1, <1>2, <1>3, <1>4, <1>5 DEF Row
<1>7. r.ver = v /\ r.failed = row.failed /\ r.locked = row.locked
  BY <1>5 DEF Row
<1>8. r.exists = row.exists
  BY <1>5 DEF Row
<1> QED BY <1>4, <1>6, <1>7, <1>8

LEMMA UpdateRowLaw ==
    ASSUME NEW row \in Row, NEW role \in Roles \union {NoUpdate}, NEW ca \in Scopes \union {NoUpdate},
           NEW ver \in Nat, NEW r, r = update(row, role, ca, ver)
    PROVE  /\ r.role = IF role = NoUpdate THEN row.role ELSE role
           /\ r.ca = IF ca = NoUpdate THEN row.ca ELSE ca
<1>1. PICK a : a = (IF role = NoUpdate THEN row.role ELSE role) /\ a \in Roles
  BY DEF Row
<1>2. PICK b : b = (IF ca = NoUpdate THEN row.ca ELSE ca) /\ b \in Scopes
  BY DEF Row
<1>3. PICK s : s = (row.stale \/ row.ver # ver) /\ s \in BOOLEAN
  BY DEF Row
<1>4. PICK v : v = row.ver + 1 /\ v \in Nat
  BY DEF Row
<1>5. r = [row EXCEPT !.role = a, !.ca = b, !.ver = v, !.stale = s]
  BY <1>1, <1>2, <1>3, <1>4 DEF update, Row
<1>6. r.role = a /\ r.ca = b
  BY <1>5 DEF Row
<1> QED BY <1>1, <1>2, <1>6

LEMMA UpdateStale ==
    ASSUME NEW row \in Row, NEW role \in Roles \union {NoUpdate}, NEW ca \in Scopes \union {NoUpdate},
           NEW ver \in Nat, NEW r, r = update(row, role, ca, ver)
    PROVE  row.stale \/ row.ver # ver => r.stale
<1>1. PICK a : a = (IF role = NoUpdate THEN row.role ELSE role) /\ a \in Roles
  BY DEF Row
<1>2. PICK b : b = (IF ca = NoUpdate THEN row.ca ELSE ca) /\ b \in Scopes
  BY DEF Row
<1>3. PICK s : s = (row.stale \/ row.ver # ver) /\ s \in BOOLEAN
  BY DEF Row
<1>4. PICK v : v = row.ver + 1 /\ v \in Nat
  BY DEF Row
<1>5. r = [row EXCEPT !.role = a, !.ca = b, !.ver = v, !.stale = s]
  BY <1>1, <1>2, <1>3, <1>4 DEF update, Row
<1>6. r.stale = s
  BY <1>5 DEF Row
<1> QED BY <1>3, <1>6

LEMMA NewRowTyped ==
    ASSUME NEW role \in Roles, NEW ca \in Scopes
    PROVE  LET r == NewRow(role, ca) IN
           /\ r \in Row /\ r.exists /\ r.role = role /\ r.ca = ca
           /\ r.failed = 0 /\ r.locked = -1 /\ r.ver = 0
BY DEF NewRow, Row
LEMMA AbsentRowTyped == AbsentRow \in Row /\ ~AbsentRow.exists /\ AbsentRow.failed = 0
BY AdminAuthAssumption DEF AbsentRow, Row, Scopes

LEMMA CaIdUpdateTyped ==
    ASSUME NEW ctx, NEW row, NEW role \in Roles \union {NoUpdate}, NEW ca \in Scopes \union {NoUpdate},
           ca_id_update(ctx, row, role, ca) # Absurd
    PROVE  ca_id_update(ctx, row, role, ca) \in Scopes \union {NoUpdate}
BY DEF ca_id_update, Scopes

-----------------------------------------------------------------------------
(* Types.                                                                  *)
LEMMA AuthInitTypes == AuthInit => AuthTypes /\ SessionsCapped
<1> SUFFICES ASSUME AuthInit PROVE AuthTypes /\ SessionsCapped
  OBVIOUS
<1>1. PICK o \in Ops :
         /\ operators = [p \in Ops |-> IF p = o THEN NewRow("administrator", Unscoped)
                                       ELSE AbsentRow]
         /\ sessions = {[token |-> 1, op |-> o, role |-> "administrator",
                         ca |-> Unscoped, last |-> 0, ver |-> 0, overtaken |-> FALSE]}
  BY DEF AuthInit
<1>2. "administrator" \in Roles /\ Unscoped \in Scopes /\ SessionCap \in Nat \ {0}
  BY AdminAuthAssumption DEF Scopes
<1>3. operators \in [Ops -> Row]
  BY <1>1, <1>2, NewRowTyped, AbsentRowTyped
<1>4. sessions \subseteq Session
  BY <1>1, <1>2 DEF Session
<1>5. SessionsCapped
  <2> PICK s : sessions = {s}
    BY <1>1
  <2>1. IsFiniteSet({s}) /\ Cardinality({s}) = 1
    BY FS_Singleton
  <2> QED BY <1>2, <2>1 DEF SessionsCapped
<1>6. /\ budget \in Budgets /\ now \in 0..budget.time /\ tokens \in 0..budget.tokens
      /\ guesses \in [Ops -> Nat]
  BY AdminAuthAssumption DEF AuthInit
<1>7. login \in [Logins -> LoginRec] /\ adm \in [Admins -> AdmRec]
  BY DEF AuthInit, LoginRec, AdmRec
<1> QED BY <1>3, <1>4, <1>5, <1>6, <1>7 DEF AuthTypes

(* The sessions.  A session in the store is one that was there, perhaps    *)
(* refreshed, or the one just created; the store never outgrows its cap.   *)
SameSession(u, s) ==
    u.op = s.op /\ u.role = s.role /\ u.ca = s.ca /\ u.ver = s.ver /\ u.overtaken = s.overtaken

LEMMA FewerSessions ==
    ASSUME SessionsCapped, sessions' \subseteq sessions
    PROVE  SessionsCapped'
<1>1. IsFiniteSet(sessions') /\ Cardinality(sessions') <= Cardinality(sessions)
  BY FS_Subset DEF SessionsCapped
<1>2. Cardinality(sessions) \in Nat /\ Cardinality(sessions') \in Nat /\ SessionCap \in Nat
  BY <1>1, FS_CardinalityType, AdminAuthAssumption DEF SessionsCapped
<1> QED BY <1>1, <1>2 DEF SessionsCapped

LEMMA LookupSessions ==
    ASSUME AuthTypes, SessionsCapped, NEW s \in sessions, lookup_session(s)
    PROVE  /\ sessions' \subseteq Session /\ SessionsCapped'
           /\ \A u \in sessions' : \E t \in sessions : SameSession(u, t)
<1>1. PICK new : new = [s EXCEPT !.last = now]
  OBVIOUS
<1>2. s \in Session /\ now \in Nat
  BY BudgetFacts DEF AuthTypes
<1>3. new \in Session /\ SameSession(new, s)
  <2>1. new \in Session /\ new.op = s.op /\ new.role = s.role /\ new.ca = s.ca /\ new.ver = s.ver
    BY <1>1, <1>2 DEF Session
  <2>2. new.overtaken = s.overtaken
    BY <1>1, <1>2 DEF Session
  <2> QED BY <2>1, <2>2 DEF SameSession
<1>4. sessions' = (Live \ {s}) \union {new} /\ s \in Live /\ Live \subseteq sessions
  BY <1>1 DEF lookup_session, Live
<1>5. SessionsCapped'
  <2>1. IsFiniteSet(Live) /\ Cardinality(Live) <= Cardinality(sessions)
    BY <1>4, FS_Subset DEF SessionsCapped
  <2>2. IsFiniteSet(Live \ {s}) /\ Cardinality(Live \ {s}) = Cardinality(Live) - 1
    BY <1>4, <2>1, FS_RemoveElement
  <2>3. /\ IsFiniteSet((Live \ {s}) \union {new})
        /\ Cardinality((Live \ {s}) \union {new}) =
             IF new \in Live \ {s} THEN Cardinality(Live \ {s}) ELSE Cardinality(Live \ {s}) + 1
    BY <2>2, FS_AddElement
  <2>4. Cardinality(Live) \in Nat /\ Cardinality(sessions) \in Nat /\ SessionCap \in Nat
    BY <2>1, FS_CardinalityType, AdminAuthAssumption DEF SessionsCapped
  <2> QED BY <1>4, <2>1, <2>2, <2>3, <2>4 DEF SessionsCapped
<1>6. \A u \in sessions : SameSession(u, u)
  BY DEF SameSession
<1> QED BY <1>3, <1>4, <1>5, <1>6 DEF AuthTypes

LEMMA LeastNat ==
    ASSUME NEW T, T \subseteq Nat, T # {}
    PROVE  \E x \in T : \A y \in T : x <= y
<1>1. \E x \in T : \A y \in T : ~(<<y, x>> \in OpToRel(<, Nat))
  BY NatLessThanWellFounded, WFMin, Zenon
<1>2. \E x \in T : \A y \in T : ~(y < x)
  BY <1>1 DEF OpToRel
<1> QED BY <1>2

LEMMA CreateSession ==
    ASSUME AuthTypes, SessionsCapped, NEW l \in Logins, login[l].pc = "session", create_session(l)
    PROVE  /\ sessions' \subseteq Session /\ SessionsCapped' /\ tokens' \in 0..budget.tokens
           /\ \E new : /\ sessions' \subseteq sessions \union {new}
                       /\ new.op = login[l].op /\ new.ver = login[l].row.ver
                       /\ new.overtaken = login[l].overtaken
<1>1. PICK new : new = [token |-> tokens + 1, op |-> login[l].op, role |-> login[l].row.role,
                        ca |-> login[l].row.ca, last |-> now, ver |-> login[l].row.ver,
                        overtaken |-> login[l].overtaken]
  OBVIOUS
<1>2. /\ login[l].op \in Ops /\ login[l].row \in Row /\ login[l].overtaken \in BOOLEAN
      /\ now \in Nat /\ tokens \in Nat /\ budget.tokens \in Nat
  BY LoginFields, BudgetFacts DEF AuthTypes
<1>3. /\ new \in Session /\ new.op = login[l].op /\ new.ver = login[l].row.ver
      /\ new.overtaken = login[l].overtaken
  BY <1>1, <1>2 DEF Row, Session
<1> DEFINE victim == CHOOSE s \in Live : \A u \in Live : s.last <= u.last
           kept == IF Cardinality(Live) >= SessionCap THEN Live \ {victim} ELSE Live
<1>4. /\ tokens < budget.tokens /\ tokens' = tokens + 1
      /\ sessions' = kept \union {new} /\ Live \subseteq sessions
  BY <1>1 DEF create_session, Live
<1>5. IsFiniteSet(Live) /\ Cardinality(Live) <= Cardinality(sessions)
  BY <1>4, FS_Subset DEF SessionsCapped
<1>6. /\ Cardinality(Live) \in Nat /\ Cardinality(sessions) \in Nat /\ SessionCap \in Nat \ {0}
      /\ Cardinality(sessions) <= SessionCap
  BY <1>5, FS_CardinalityType, AdminAuthAssumption DEF SessionsCapped
<1>7. IsFiniteSet(kept) /\ Cardinality(kept) \in Nat /\ Cardinality(kept) < SessionCap
  <2>1. CASE Cardinality(Live) < SessionCap
    BY <2>1, <1>5, <1>6
  <2>2. CASE Cardinality(Live) >= SessionCap
    <3>1. Live # {}
      BY <2>2, <1>6, FS_EmptySet
    <3> DEFINE T == {s.last : s \in Live}
    <3>2. T \subseteq Nat /\ T # {}
      BY <1>4, <3>1 DEF AuthTypes, Session
    <3>3. PICK m \in T : \A n \in T : m <= n
      BY <3>2, LeastNat, Zenon
    <3>4. \E s \in Live : \A u \in Live : s.last <= u.last
      BY <3>3
    <3>5. victim \in Live
      BY <3>4, Zenon
    <3>6. IsFiniteSet(Live \ {victim}) /\ Cardinality(Live \ {victim}) = Cardinality(Live) - 1
      BY <3>5, <1>5, FS_RemoveElement
    <3> QED BY <2>2, <3>1, <3>6, <1>5, <1>6, FS_CardinalityType
  <2> QED BY <2>1, <2>2, <1>6
<1>8. kept \subseteq sessions
  BY <1>4
<1> HIDE DEF kept
<1>9. SessionsCapped'
  <2>1. /\ IsFiniteSet(kept \union {new})
        /\ Cardinality(kept \union {new}) = IF new \in kept THEN Cardinality(kept) ELSE Cardinality(kept) + 1
    BY <1>7, FS_AddElement
  <2> QED BY <1>4, <1>6, <1>7, <2>1 DEF SessionsCapped
<1> QED BY <1>2, <1>3, <1>4, <1>8, <1>9 DEF AuthTypes

(* What every step does to the rows, to the copies of them that logins and *)
(* sessions carry, and to the requests that have yet to drop sessions.     *)
HasRow == {"verify", "session", "reset"}
SessionsFrom ==
    \A u \in sessions' :
        \/ \E t \in sessions : SameSession(u, t)
        \/ \E l \in Logins : /\ login[l].pc = "session" /\ u.op = login[l].op
                             /\ u.ver = login[l].row.ver /\ u.overtaken = login[l].overtaken
LoginsFrom ==
    \A l \in Logins : login'[l].pc \in HasRow =>
        \/ /\ login[l].pc \in HasRow /\ login'[l].op = login[l].op /\ login'[l].row = login[l].row
           /\ login[l].overtaken => login'[l].overtaken
        \/ /\ login'[l].row = operators[login'[l].op] /\ operators[login'[l].op].exists
           /\ operators' = operators
SameRow(r, row) == r.ver = row.ver /\ r.role = row.role /\ r.ca = row.ca /\ r.stale = row.stale
RowsFrom ==
    \A o \in Ops : operators[o].exists =>
        /\ operators'[o].exists
        /\ \/ SameRow(operators'[o], operators[o])
           \/ /\ operators'[o].ver = operators[o].ver + 1
              /\ \E a \in Admins : adm'[a].pc = "drop" /\ adm'[a].op = o
AdmsFrom ==
    \A a \in Admins :
        /\ adm'[a].pc # "idle" => \/ adm[a].pc # "idle" /\ adm'[a].op = adm[a].op
                                  \/ operators[adm'[a].op].exists
        /\ adm[a].pc = "drop" => adm'[a] = adm[a] \/ DropSessions(a)
AuthStep == AuthTypes' /\ SessionsCapped' /\ SessionsFrom /\ LoginsFrom /\ RowsFrom /\ AdmsFrom

LEMMA SameSessions ==
    ASSUME sessions' \subseteq sessions
    PROVE  SessionsFrom
BY DEF SessionsFrom, SameSession

LEMMA SameRows ==
    ASSUME operators' = operators
    PROVE  RowsFrom
BY DEF RowsFrom, SameRow

LEMMA SameAdms ==
    ASSUME AuthTypes, adm' = adm
    PROVE  AdmsFrom
BY DEF AdmsFrom

(* One login changes.                                                      *)
LEMMA OneLogin ==
    ASSUME AuthTypes, NEW l \in Logins, NEW L \in LoginRec, login' = [login EXCEPT ![l] = L],
           L.pc \in HasRow =>
             \/ /\ login[l].pc \in HasRow /\ L.op = login[l].op /\ L.row = login[l].row
                /\ L.overtaken = login[l].overtaken
             \/ L.row = operators[L.op] /\ operators[L.op].exists /\ operators' = operators
    PROVE  login' \in [Logins -> LoginRec] /\ LoginsFrom
<1>1. /\ login' \in [Logins -> LoginRec] /\ login'[l] = L
      /\ \A k \in Logins : k # l => login'[k] = login[k]
  BY DEF AuthTypes
<1>2. LoginsFrom
  <2> SUFFICES ASSUME NEW k \in Logins, login'[k].pc \in HasRow
               PROVE  \/ /\ login[k].pc \in HasRow /\ login'[k].op = login[k].op
                         /\ login'[k].row = login[k].row
                         /\ login[k].overtaken => login'[k].overtaken
                      \/ /\ login'[k].row = operators[login'[k].op] /\ operators[login'[k].op].exists
                         /\ operators' = operators
    BY DEF LoginsFrom
  <2>1. CASE k = l
    BY <2>1, <1>1
  <2>2. CASE k # l
    BY <2>2, <1>1
  <2> QED BY <2>1, <2>2
<1> QED BY <1>1, <1>2

(* One row changes and keeps its version.                                  *)
LEMMA OneRow ==
    ASSUME AuthTypes, NEW o \in Ops, NEW r \in Row, operators' = [operators EXCEPT ![o] = r],
           operators[o].exists =>
             r.exists /\ \/ SameRow(r, operators[o])
                         \/ /\ r.ver = operators[o].ver + 1
                            /\ \E a \in Admins : adm'[a].pc = "drop" /\ adm'[a].op = o
    PROVE  operators' \in [Ops -> Row] /\ RowsFrom
<1>1. /\ operators' \in [Ops -> Row] /\ operators'[o] = r
      /\ \A p \in Ops : p # o => operators'[p] = operators[p]
  BY DEF AuthTypes
<1>2. RowsFrom
  <2> SUFFICES ASSUME NEW p \in Ops, operators[p].exists
               PROVE  /\ operators'[p].exists
                      /\ \/ SameRow(operators'[p], operators[p])
                         \/ /\ operators'[p].ver = operators[p].ver + 1
                            /\ \E a \in Admins : adm'[a].pc = "drop" /\ adm'[a].op = p
    BY DEF RowsFrom
  <2>1. CASE p = o
    BY <2>1, <1>1
  <2>2. CASE p # o
    BY <2>2, <1>1 DEF SameRow
  <2> QED BY <2>1, <2>2
<1> QED BY <1>1, <1>2

(* One administration request goes from one step to the next.              *)
LEMMA OneAdm ==
    ASSUME AuthTypes, NEW a \in Admins, NEW A \in AdmRec, adm' = [adm EXCEPT ![a] = A],
           adm[a].pc # "drop",
           A.pc # "idle" => \/ adm[a].pc # "idle" /\ A.op = adm[a].op
                            \/ operators[A.op].exists
    PROVE  adm' \in [Admins -> AdmRec] /\ adm'[a] = A /\ AdmsFrom
<1>1. /\ adm' \in [Admins -> AdmRec] /\ adm'[a] = A
      /\ \A b \in Admins : b # a => adm'[b] = adm[b]
  BY DEF AuthTypes
<1>2. AdmsFrom
  BY <1>1 DEF AdmsFrom
<1> QED BY <1>1, <1>2

LEMMA AdmFields ==
    ASSUME NEW A \in AdmRec
    PROVE  /\ A.pc \in {"idle", "patch", "put", "drop"} /\ (A.pc # "idle" => A.op \in Ops)
           /\ A.pc = "patch" => A.active \in BOOLEAN
           /\ A.pc = "put" => A.role \in Roles \union {NoUpdate} /\ A.ca \in Scopes \union {NoUpdate}
                              /\ A.ver \in Nat
BY DEF AdmRec, IdleAdm

-----------------------------------------------------------------------------
LEMMA LoginReadStep ==
    ASSUME AuthTypes, SessionsCapped, NEW l \in Logins, NEW o \in Ops, LoginRead(l, o)
    PROVE  AuthStep
<1>1. PICK L : L = [pc |-> "reset", method |-> "cert", op |-> o, row |-> operators[o], overtaken |-> FALSE]
  OBVIOUS
<1>2. /\ login' = [login EXCEPT ![l] = L] /\ operators[o].exists
      /\ UNCHANGED <<budget, now, operators, sessions, nonces, adm, tokens, used, accepted, evicted, guesses>>
  BY <1>1 DEF LoginRead, Selected
<1>3. L \in LoginRec /\ L.op = o /\ L.row = operators[o]
  <2>1. operators[o] \in Row
    BY DEF AuthTypes
  <2> QED BY <1>1, <2>1 DEF LoginRec, CertLogin
<1>4. login' \in [Logins -> LoginRec] /\ LoginsFrom
  BY <1>2, <1>3, OneLogin
<1>5. SessionsFrom /\ RowsFrom /\ AdmsFrom
  BY <1>2, SameSessions, SameRows, SameAdms
<1> QED BY <1>2, <1>4, <1>5 DEF AuthStep, AuthTypes, SessionsCapped

LEMMA LoginResetStep ==
    ASSUME AuthTypes, SessionsCapped, NEW l \in Logins, LoginReset(l)
    PROVE  AuthStep
<1>0. /\ login[l].pc = "reset" /\ login[l] \in LoginRec /\ login[l].op \in Ops
      /\ UNCHANGED <<budget, now, sessions, nonces, adm, tokens, used, accepted, evicted>>
  BY LoginFields DEF LoginReset, AuthTypes
<1>1. PICK o \in Ops : o = login[l].op
  BY <1>0
<1>2. PICK r : r = reset_failed(operators[o])
  OBVIOUS
<1>3. operators[o] \in Row
  BY DEF AuthTypes
<1>4. r \in Row /\ r.exists = operators[o].exists /\ SameRow(r, operators[o])
  BY <1>2, <1>3, ResetRow DEF SameRow
<1>5. operators' = [operators EXCEPT ![o] = r]
  BY <1>1, <1>2 DEF LoginReset, AuthTypes
<1>6. operators' \in [Ops -> Row] /\ RowsFrom
  BY <1>4, <1>5, OneRow
<1>7. guesses' \in [Ops -> Nat]
  BY <1>1 DEF LoginReset, AuthTypes
<1>8. PICK L \in LoginRec :
         /\ login' = [login EXCEPT ![l] = L]
         /\ L.pc \in HasRow => /\ L.op = login[l].op /\ L.row = login[l].row
                               /\ L.overtaken = login[l].overtaken
  <2>1. CASE login[l].method = "eab"
    <3>1. IdleLogin \in LoginRec /\ IdleLogin.pc \notin HasRow
      BY DEF LoginRec, IdleLogin, HasRow
    <3>2. login' = [login EXCEPT ![l] = IdleLogin]
      BY <2>1 DEF LoginReset
    <3> QED BY <3>1, <3>2
  <2>2. CASE login[l].method # "eab"
    <3> DEFINE M == [login[l] EXCEPT !.pc = "session"]
    <3>1. M \in LoginRec /\ M.op = login[l].op /\ M.row = login[l].row /\ M.overtaken = login[l].overtaken
      BY <1>0, LoginMoves
    <3>2. login' = [login EXCEPT ![l] = M]
      BY <2>2 DEF LoginReset, AuthTypes
    <3> QED BY <3>1, <3>2
  <2> QED BY <2>1, <2>2
<1>9. login' \in [Logins -> LoginRec] /\ LoginsFrom
  BY <1>0, <1>8, OneLogin DEF HasRow
<1>10. SessionsFrom /\ AdmsFrom
  BY <1>0, SameSessions, SameAdms
<1> QED BY <1>0, <1>6, <1>7, <1>9, <1>10 DEF AuthStep, AuthTypes, SessionsCapped

LEMMA LoginSessionStep ==
    ASSUME AuthTypes, SessionsCapped, NEW l \in Logins, LoginSession(l)
    PROVE  AuthStep
<1>0. /\ login[l].pc = "session" /\ login[l] \in LoginRec /\ create_session(l)
      /\ UNCHANGED <<budget, now, operators, nonces, adm, used, accepted, evicted, guesses>>
  BY DEF LoginSession, AuthTypes
<1>1. /\ sessions' \subseteq Session /\ SessionsCapped' /\ tokens' \in 0..budget.tokens
  BY <1>0, CreateSession
<1>2. SessionsFrom
  <2>1. PICK new : /\ sessions' \subseteq sessions \union {new}
                   /\ new.op = login[l].op /\ new.ver = login[l].row.ver
                   /\ new.overtaken = login[l].overtaken
    BY <1>0, CreateSession
  <2> QED BY <1>0, <2>1 DEF SessionsFrom, SameSession
<1>3. PICK L \in LoginRec :
         /\ login' = [login EXCEPT ![l] = L]
         /\ L.pc \in HasRow => /\ L.op = login[l].op /\ L.row = login[l].row
                               /\ L.overtaken = login[l].overtaken
  <2>1. CASE login[l].method # "eab"
    <3>1. IdleLogin \in LoginRec /\ IdleLogin.pc \notin HasRow
      BY DEF LoginRec, IdleLogin, HasRow
    <3>2. login' = [login EXCEPT ![l] = IdleLogin]
      BY <2>1 DEF LoginSession
    <3> QED BY <3>1, <3>2
  <2>2. CASE login[l].method = "eab"
    <3> DEFINE M == [login[l] EXCEPT !.pc = "reset"]
    <3>1. M \in LoginRec /\ M.op = login[l].op /\ M.row = login[l].row /\ M.overtaken = login[l].overtaken
      BY <1>0, LoginMoves
    <3>2. login' = [login EXCEPT ![l] = M]
      BY <2>2 DEF LoginSession, AuthTypes
    <3> QED BY <3>1, <3>2
  <2> QED BY <2>1, <2>2
<1>4. login' \in [Logins -> LoginRec] /\ LoginsFrom
  BY <1>0, <1>3, OneLogin DEF HasRow
<1>5. RowsFrom /\ AdmsFrom
  BY <1>0, SameRows, SameAdms
<1> QED BY <1>0, <1>1, <1>2, <1>4, <1>5 DEF AuthStep, AuthTypes

LEMMA EabReserveStep ==
    ASSUME AuthTypes, SessionsCapped, NEW l \in Logins, NEW o \in Ops, NEW ts \in 0..budget.time,
           NEW good \in BOOLEAN, EabReserve(l, o, ts, good)
    PROVE  AuthStep
<1>1. PICK L : L = [pc |-> "lookup", method |-> "eab", op |-> o, ts |-> ts, good |-> good]
  OBVIOUS
<1>2. /\ login' = [login EXCEPT ![l] = L]
      /\ UNCHANGED <<budget, now, operators, sessions, adm, tokens, accepted, guesses>>
  BY <1>1 DEF EabReserve
<1>3. L \in LoginRec /\ L.pc \notin HasRow
  <2>1. ts \in Nat
    BY BudgetFacts
  <2> QED BY <1>1, <2>1 DEF LoginRec, EabLogin, HasRow
<1>4. login' \in [Logins -> LoginRec] /\ LoginsFrom
  BY <1>2, <1>3, OneLogin
<1>5. SessionsFrom /\ RowsFrom /\ AdmsFrom
  BY <1>2, SameSessions, SameRows, SameAdms
<1> QED BY <1>2, <1>4, <1>5 DEF AuthStep, AuthTypes, SessionsCapped

LEMMA EabLookupStep ==
    ASSUME AuthTypes, SessionsCapped, NEW l \in Logins, EabLookup(l)
    PROVE  AuthStep
<1>0. /\ login[l].pc = "lookup" /\ login[l] \in LoginRec /\ login[l].op \in Ops
      /\ login[l].ts \in Nat /\ login[l].good \in BOOLEAN
      /\ UNCHANGED <<budget, now, operators, sessions, nonces, adm, tokens, used, accepted, evicted, guesses>>
  BY LoginFields DEF EabLookup, AuthTypes
<1>1. PICK L \in LoginRec :
         /\ login' = [login EXCEPT ![l] = L]
         /\ L.pc \in HasRow => L.row = operators[L.op] /\ operators[L.op].exists
  <2>1. CASE Selected(login[l].op) /\ ~is_locked(operators[login[l].op])
    <3> DEFINE M == [pc |-> "verify", method |-> "eab", op |-> login[l].op, ts |-> login[l].ts,
                     good |-> login[l].good, row |-> operators[login[l].op], overtaken |-> FALSE]
    <3>1. operators[login[l].op] \in Row
      BY <1>0 DEF AuthTypes
    <3>2. M \in LoginRec /\ M.op = login[l].op /\ M.row = operators[login[l].op]
      BY <1>0, <3>1 DEF LoginRec, EabRow
    <3>3. login' = [login EXCEPT ![l] = M]
      BY <2>1 DEF EabLookup
    <3> QED BY <2>1, <3>2, <3>3 DEF Selected
  <2>2. CASE ~(Selected(login[l].op) /\ ~is_locked(operators[login[l].op]))
    <3>1. IdleLogin \in LoginRec /\ IdleLogin.pc \notin HasRow
      BY DEF LoginRec, IdleLogin, HasRow
    <3>2. login' = [login EXCEPT ![l] = IdleLogin]
      BY <2>2 DEF EabLookup
    <3> QED BY <3>1, <3>2
  <2> QED BY <2>1, <2>2
<1>2. login' \in [Logins -> LoginRec] /\ LoginsFrom
  BY <1>0, <1>1, OneLogin
<1>3. SessionsFrom /\ RowsFrom /\ AdmsFrom
  BY <1>0, SameSessions, SameRows, SameAdms
<1> QED BY <1>0, <1>2, <1>3 DEF AuthStep, AuthTypes, SessionsCapped

LEMMA EabRejectStep ==
    ASSUME AuthTypes, SessionsCapped, NEW l \in Logins, EabReject(l)
    PROVE  AuthStep
<1>0. /\ login[l].pc = "verify" /\ login[l] \in LoginRec /\ login[l].op \in Ops /\ now \in Nat
      /\ UNCHANGED <<budget, now, sessions, nonces, adm, tokens, used, accepted, evicted>>
  BY LoginFields, BudgetFacts DEF EabReject, AuthTypes
<1>1. PICK o \in Ops : o = login[l].op
  BY <1>0
<1>2. PICK r : r = increment_failed(operators[o])
  OBVIOUS
<1>3. operators[o] \in Row
  BY DEF AuthTypes
<1>4. r \in Row /\ r.exists = operators[o].exists /\ SameRow(r, operators[o])
  BY <1>0, <1>2, <1>3, FailRow DEF SameRow
<1>5. operators' = [operators EXCEPT ![o] = r]
  BY <1>1, <1>2 DEF EabReject, AuthTypes
<1>6. operators' \in [Ops -> Row] /\ RowsFrom
  BY <1>4, <1>5, OneRow
<1>7. guesses' \in [Ops -> Nat]
  BY <1>1 DEF EabReject, AuthTypes
<1>8. login' \in [Logins -> LoginRec] /\ LoginsFrom
  <2> DEFINE M == [login[l] EXCEPT !.pc = "release"]
  <2>1. M \in LoginRec /\ M.pc = "release"
    BY <1>0, LoginMoves
  <2>2. login' = [login EXCEPT ![l] = M]
    BY DEF EabReject, AuthTypes
  <2> HIDE DEF M
  <2> QED BY <2>1, <2>2, OneLogin DEF HasRow
<1>9. SessionsFrom /\ AdmsFrom
  BY <1>0, SameSessions, SameAdms
<1> QED BY <1>0, <1>6, <1>7, <1>8, <1>9 DEF AuthStep, AuthTypes, SessionsCapped

LEMMA EabReleaseStep ==
    ASSUME AuthTypes, SessionsCapped, NEW l \in Logins, EabRelease(l)
    PROVE  AuthStep
<1>1. /\ login' = [login EXCEPT ![l] = IdleLogin]
      /\ UNCHANGED <<budget, now, operators, sessions, adm, tokens, used, accepted, evicted, guesses>>
  BY DEF EabRelease
<1>2. IdleLogin \in LoginRec /\ IdleLogin.pc \notin HasRow
  BY DEF LoginRec, IdleLogin, HasRow
<1>3. login' \in [Logins -> LoginRec] /\ LoginsFrom
  BY <1>1, <1>2, OneLogin
<1>4. SessionsFrom /\ RowsFrom /\ AdmsFrom
  BY <1>1, SameSessions, SameRows, SameAdms
<1> QED BY <1>1, <1>3, <1>4 DEF AuthStep, AuthTypes, SessionsCapped

LEMMA EabAcceptStep ==
    ASSUME AuthTypes, SessionsCapped, NEW l \in Logins, EabAccept(l)
    PROVE  AuthStep
<1>0. /\ login[l].pc = "verify" /\ login[l] \in LoginRec
      /\ UNCHANGED <<budget, now, operators, sessions, nonces, adm, tokens, used, evicted, guesses>>
  BY DEF EabAccept, AuthTypes
<1>1. login' \in [Logins -> LoginRec] /\ LoginsFrom
  <2> DEFINE M == [login[l] EXCEPT !.pc = "session"]
  <2>1. M \in LoginRec /\ M.op = login[l].op /\ M.row = login[l].row /\ M.overtaken = login[l].overtaken
    BY <1>0, LoginMoves
  <2>2. login' = [login EXCEPT ![l] = M]
    BY DEF EabAccept, AuthTypes
  <2> HIDE DEF M
  <2> QED BY <1>0, <2>1, <2>2, OneLogin DEF HasRow
<1>2. SessionsFrom /\ RowsFrom /\ AdmsFrom
  BY <1>0, SameSessions, SameRows, SameAdms
<1> QED BY <1>0, <1>1, <1>2 DEF AuthStep, AuthTypes, SessionsCapped

-----------------------------------------------------------------------------
LEMMA SameLogins ==
    ASSUME AuthTypes, login' = login
    PROVE  LoginsFrom
BY DEF LoginsFrom

LEMMA PostOperatorsStep ==
    ASSUME AuthTypes, SessionsCapped, NEW a \in Admins, NEW s \in sessions, NEW o \in Ops,
           NEW role \in Roles, NEW ca \in Scopes, post_operators(a, s, o, role, ca)
    PROVE  AuthStep
<1>1. /\ ~operators[o].exists /\ lookup_session(s)
      /\ operators' = [operators EXCEPT ![o] = NewRow(role, ca)]
      /\ UNCHANGED <<budget, now, nonces, login, adm, tokens, accepted, evicted, guesses>>
  BY DEF post_operators
<1>2. operators' \in [Ops -> Row] /\ RowsFrom
  BY <1>1, NewRowTyped, OneRow
<1>3. sessions' \subseteq Session /\ SessionsCapped' /\ SessionsFrom
  BY <1>1, LookupSessions DEF SessionsFrom
<1>4. LoginsFrom /\ AdmsFrom
  BY <1>1, SameLogins, SameAdms
<1> QED BY <1>1, <1>2, <1>3, <1>4 DEF AuthStep, AuthTypes

LEMMA GateStep ==
    ASSUME AuthTypes, SessionsCapped, NEW a \in Admins, NEW s \in sessions, NEW A \in AdmRec,
           admin_rbac_gate(a, s, A), operators' = operators, A.pc # "idle" => operators[A.op].exists
    PROVE  AuthStep
<1>1. /\ adm[a].pc = "idle" /\ lookup_session(s) /\ adm' = [adm EXCEPT ![a] = A]
      /\ UNCHANGED <<budget, now, operators, nonces, login, tokens, accepted, evicted, guesses>>
  BY DEF admin_rbac_gate
<1>2. sessions' \subseteq Session /\ SessionsCapped' /\ SessionsFrom
  BY <1>1, LookupSessions DEF SessionsFrom
<1>3. adm' \in [Admins -> AdmRec] /\ AdmsFrom
  BY <1>1, OneAdm
<1>4. LoginsFrom /\ RowsFrom
  BY <1>1, SameLogins, SameRows
<1> QED BY <1>1, <1>2, <1>3, <1>4 DEF AuthStep, AuthTypes

LEMMA PatchCheckStep ==
    ASSUME AuthTypes, SessionsCapped, NEW a \in Admins, NEW s \in sessions, NEW o \in Ops,
           NEW active \in BOOLEAN, PatchCheck(a, s, o, active)
    PROVE  AuthStep
<1> DEFINE A == [pc |-> "patch", op |-> o, active |-> active]
<1>1. A \in AdmRec /\ A.op = o
  BY DEF AdmRec
<1>2. admin_rbac_gate(a, s, A) /\ operators[o].exists /\ operators' = operators
  BY DEF PatchCheck, admin_rbac_gate
<1> HIDE DEF A
<1> QED BY <1>1, <1>2, GateStep

LEMMA PutCheckStep ==
    ASSUME AuthTypes, SessionsCapped, NEW a \in Admins, NEW s \in sessions, NEW o \in Ops,
           NEW role \in Roles \union {NoUpdate}, NEW ca \in Scopes \union {NoUpdate},
           PutCheck(a, s, o, role, ca)
    PROVE  AuthStep
<1> DEFINE c == ca_id_update(Ctx(s), operators[o], role, ca)
           A == [pc |-> "put", op |-> o, role |-> role, ca |-> c, ver |-> operators[o].ver]
<1>1. operators[o].ver \in Nat
  BY DEF AuthTypes, Row
<1>2. c \in Scopes \union {NoUpdate}
  BY CaIdUpdateTyped DEF PutCheck
<1>3. admin_rbac_gate(a, s, A) /\ operators[o].exists /\ operators' = operators
  BY DEF PutCheck, admin_rbac_gate
<1> HIDE DEF c
<1>4. A \in AdmRec /\ A.op = o
  BY <1>1, <1>2 DEF AdmRec
<1> HIDE DEF A
<1> QED BY <1>3, <1>4, GateStep

LEMMA PatchWriteStep ==
    ASSUME AuthTypes, SessionsCapped, NEW a \in Admins, PatchWrite(a)
    PROVE  AuthStep
<1>0. /\ adm[a].pc = "patch" /\ adm[a].op \in Ops /\ adm[a].active \in BOOLEAN
      /\ UNCHANGED <<budget, now, sessions, nonces, login, tokens, used, accepted, evicted, guesses>>
  BY AdmFields DEF PatchWrite, AuthTypes
<1>1. PICK o \in Ops, active \in BOOLEAN : o = adm[a].op /\ active = adm[a].active
  BY <1>0
<1>2. PICK r : r = set_active(operators[o], active)
  OBVIOUS
<1>3. operators[o] \in Row
  BY DEF AuthTypes
<1>4. /\ r \in Row /\ r.exists = operators[o].exists
      /\ active => SameRow(r, operators[o])
      /\ ~active => r.ver = operators[o].ver + 1
  BY <1>2, <1>3, ActivateRow DEF SameRow
<1>5. operators' = [operators EXCEPT ![o] = r]
  BY <1>1, <1>2 DEF PatchWrite, AuthTypes
<1>6. PICK A \in AdmRec :
        /\ adm' = [adm EXCEPT ![a] = A]
        /\ A.pc # "idle" => A.op = adm[a].op
        /\ ~active => A.pc = "drop" /\ A.op = o
  <2>1. CASE active
    <3>1. IdleAdm \in AdmRec /\ IdleAdm.pc = "idle"
      BY DEF AdmRec, IdleAdm
    <3>2. adm' = [adm EXCEPT ![a] = IdleAdm]
      BY <1>1, <2>1 DEF PatchWrite
    <3> QED BY <2>1, <3>1, <3>2
  <2>2. CASE ~active
    <3> DEFINE D == [pc |-> "drop", op |-> o]
    <3>1. D \in AdmRec /\ D.pc = "drop" /\ D.op = o
      BY DEF AdmRec
    <3>2. adm' = [adm EXCEPT ![a] = D]
      BY <1>1, <2>2 DEF PatchWrite
    <3> HIDE DEF D
    <3> QED BY <1>1, <3>1, <3>2
  <2> QED BY <2>1, <2>2
<1>7. adm' \in [Admins -> AdmRec] /\ adm'[a] = A /\ AdmsFrom
  BY <1>0, <1>6, OneAdm
<1>8. operators' \in [Ops -> Row] /\ RowsFrom
  BY <1>4, <1>5, <1>6, <1>7, OneRow
<1>9. LoginsFrom /\ SessionsFrom
  BY <1>0, SameLogins, SameSessions
<1> QED BY <1>0, <1>7, <1>8, <1>9 DEF AuthStep, AuthTypes, SessionsCapped

LEMMA PutWriteStep ==
    ASSUME AuthTypes, SessionsCapped, NEW a \in Admins, PutWrite(a)
    PROVE  AuthStep
<1>0. /\ adm[a].pc = "put" /\ adm[a].op \in Ops
      /\ adm[a].role \in Roles \union {NoUpdate} /\ adm[a].ca \in Scopes \union {NoUpdate}
      /\ adm[a].ver \in Nat
      /\ UNCHANGED <<budget, now, sessions, nonces, login, tokens, used, accepted, evicted, guesses>>
  BY AdmFields DEF PutWrite, AuthTypes
<1>1. PICK o \in Ops, role \in Roles \union {NoUpdate}, ca \in Scopes \union {NoUpdate}, ver \in Nat :
        o = adm[a].op /\ role = adm[a].role /\ ca = adm[a].ca /\ ver = adm[a].ver
  BY <1>0
<1>2. PICK row \in Row : row = operators[o]
  BY DEF AuthTypes
<1>3. PICK r : r = update(row, role, ca, ver)
  OBVIOUS
<1>4. r \in Row /\ r.exists = row.exists /\ r.ver = row.ver + 1
  BY <1>3, UpdateRow
<1>5. operators' = [operators EXCEPT ![o] = r]
  BY <1>1, <1>2, <1>3 DEF PutWrite, AuthTypes
<1> DEFINE D == [pc |-> "drop", op |-> o]
<1>6. D \in AdmRec /\ D.pc = "drop" /\ D.op = o /\ adm' = [adm EXCEPT ![a] = D]
  BY <1>1 DEF AdmRec, PutWrite
<1> HIDE DEF D
<1>7. adm' \in [Admins -> AdmRec] /\ adm'[a] = D /\ AdmsFrom
  BY <1>0, <1>1, <1>6, OneAdm
<1>8. operators' \in [Ops -> Row] /\ RowsFrom
  BY <1>2, <1>4, <1>5, <1>6, <1>7, OneRow
<1>9. LoginsFrom /\ SessionsFrom
  BY <1>0, SameLogins, SameSessions
<1> QED BY <1>0, <1>7, <1>8, <1>9 DEF AuthStep, AuthTypes, SessionsCapped

LEMMA DropSessionsStep ==
    ASSUME AuthTypes, SessionsCapped, NEW a \in Admins, DropSessions(a)
    PROVE  AuthStep
<1>0. /\ adm[a].pc = "drop" /\ sessions' \subseteq sessions
      /\ adm' = [adm EXCEPT ![a] = IdleAdm]
      /\ UNCHANGED <<budget, now, operators, nonces, tokens, used, accepted, evicted, guesses>>
  BY DEF DropSessions, drop_sessions
<1>1. adm' \in [Admins -> AdmRec] /\ AdmsFrom
  <2>1. IdleAdm \in AdmRec /\ IdleAdm.pc = "idle"
    BY DEF AdmRec, IdleAdm
  <2>2. /\ adm' \in [Admins -> AdmRec] /\ adm'[a] = IdleAdm
        /\ \A b \in Admins : b # a => adm'[b] = adm[b]
    BY <1>0, <2>1 DEF AuthTypes
  <2> QED BY <2>1, <2>2 DEF AdmsFrom
<1>2. ASSUME NEW l \in Logins
      PROVE  /\ login'[l] \in LoginRec /\ login'[l].pc = login[l].pc
             /\ login[l].pc \in HasRow => login'[l].op = login[l].op /\ login'[l].row = login[l].row
             /\ login[l].pc \in HasRow => (login[l].overtaken => login'[l].overtaken)
  <2>1. CASE login[l].pc \in HasRow /\ login[l].op = adm[a].op
    <3>1. login'[l] = [login[l] EXCEPT !.overtaken = TRUE]
      BY <2>1 DEF DropSessions, drop_sessions, HasRow
    <3>2. login[l] \in LoginRec
      BY DEF AuthTypes
    <3> QED BY <2>1, <3>1, <3>2, LoginOvertaken DEF HasRow
  <2>2. CASE ~(login[l].pc \in HasRow /\ login[l].op = adm[a].op)
    BY <2>2 DEF DropSessions, drop_sessions, HasRow, AuthTypes
  <2> QED BY <2>1, <2>2
<1>3. login' \in [Logins -> LoginRec]
  <2>1. login' = [l \in Logins |-> login'[l]]
    BY DEF DropSessions, drop_sessions
  <2> QED BY <1>2, <2>1
<1>4. LoginsFrom
  BY <1>2 DEF LoginsFrom
<1>5. SessionsCapped' /\ SessionsFrom /\ RowsFrom
  BY <1>0, FewerSessions, SameSessions, SameRows
<1> QED BY <1>0, <1>1, <1>3, <1>4, <1>5 DEF AuthStep, AuthTypes

LEMMA UnlockStep ==
    ASSUME AuthTypes, SessionsCapped, NEW a \in Admins, NEW s \in sessions, NEW o \in Ops,
           unlock_operator(a, s, o)
    PROVE  AuthStep
<1>1. PICK row \in Row : row = operators[o]
  BY DEF AuthTypes
<1>2. PICK r : r = reset_failed(row)
  OBVIOUS
<1>3. /\ lookup_session(s) /\ operators' = [operators EXCEPT ![o] = r]
      /\ guesses' = [guesses EXCEPT ![o] = 0]
      /\ UNCHANGED <<budget, now, nonces, login, adm, tokens, accepted, evicted>>
  BY <1>1, <1>2 DEF unlock_operator, AuthTypes
<1>4. r \in Row /\ r.exists = row.exists /\ SameRow(r, row)
  BY <1>2, ResetRow DEF SameRow
<1>5. operators' \in [Ops -> Row] /\ RowsFrom
  BY <1>1, <1>3, <1>4, OneRow
<1>6. guesses' \in [Ops -> Nat]
  BY <1>3 DEF AuthTypes
<1>7. sessions' \subseteq Session /\ SessionsCapped' /\ SessionsFrom
  BY <1>3, LookupSessions DEF SessionsFrom
<1>8. LoginsFrom /\ AdmsFrom
  BY <1>3, SameLogins, SameAdms
<1> QED BY <1>3, <1>5, <1>6, <1>7, <1>8 DEF AuthStep, AuthTypes

LEMMA DeleteSessionStep ==
    ASSUME AuthTypes, SessionsCapped, NEW s \in sessions, delete_session(s)
    PROVE  AuthStep
<1>1. /\ sessions' \subseteq sessions
      /\ UNCHANGED <<budget, now, operators, nonces, login, adm, tokens, used, accepted, evicted, guesses>>
  BY DEF delete_session, Live
<1>2. SessionsCapped' /\ SessionsFrom /\ RowsFrom /\ LoginsFrom /\ AdmsFrom
  BY <1>1, FewerSessions, SameSessions, SameRows, SameLogins, SameAdms
<1> QED BY <1>1, <1>2 DEF AuthStep, AuthTypes

LEMMA TickStep ==
    ASSUME AuthTypes, SessionsCapped, Tick
    PROVE  AuthStep
<1>1. /\ now < budget.time /\ now' = now + 1
      /\ UNCHANGED <<budget, operators, sessions, nonces, login, adm, tokens, used, accepted, evicted>>
  BY DEF Tick
<1>2. now' \in 0..budget.time
  BY <1>1, BudgetFacts DEF AuthTypes
<1>3. guesses' \in [Ops -> Nat]
  BY DEF Tick, AuthTypes
<1>4. SessionsFrom /\ RowsFrom /\ LoginsFrom /\ AdmsFrom
  BY <1>1, SameSessions, SameRows, SameLogins, SameAdms
<1> QED BY <1>1, <1>2, <1>3, <1>4 DEF AuthStep, AuthTypes, SessionsCapped

LEMMA AuthNextStep ==
    ASSUME AuthTypes, SessionsCapped, AuthNext
    PROVE  AuthStep
<1>1. ASSUME NEW l \in Logins,
             \/ \E o \in Ops : LoginRead(l, o)
             \/ LoginReset(l) \/ LoginSession(l)
             \/ \E o \in Ops, ts \in 0..budget.time, g \in BOOLEAN : EabReserve(l, o, ts, g)
             \/ EabLookup(l) \/ EabReject(l) \/ EabRelease(l) \/ EabAccept(l)
      PROVE  AuthStep
  BY <1>1, LoginReadStep, LoginResetStep, LoginSessionStep, EabReserveStep, EabLookupStep,
     EabRejectStep, EabReleaseStep, EabAcceptStep
<1>2. ASSUME NEW a \in Admins, NEW s \in sessions, NEW o \in Ops,
             \/ \E role \in Roles, ca \in Scopes : post_operators(a, s, o, role, ca)
             \/ \E active \in BOOLEAN : PatchCheck(a, s, o, active)
             \/ \E role \in Roles \union {NoUpdate}, ca \in Scopes \union {NoUpdate} :
                   PutCheck(a, s, o, role, ca)
             \/ unlock_operator(a, s, o)
      PROVE  AuthStep
  BY <1>2, PostOperatorsStep, PatchCheckStep, PutCheckStep, UnlockStep
<1>3. ASSUME NEW a \in Admins, PatchWrite(a) \/ PutWrite(a) \/ DropSessions(a)
      PROVE  AuthStep
  BY <1>3, PatchWriteStep, PutWriteStep, DropSessionsStep
<1>4. CASE (\E s \in sessions : delete_session(s)) \/ Tick
  BY <1>4, DeleteSessionStep, TickStep
<1> QED BY <1>1, <1>2, <1>3, <1>4 DEF AuthNext

LEMMA AuthStutter ==
    ASSUME AuthTypes, SessionsCapped, UNCHANGED authVars
    PROVE  AuthStep
<1>1. UNCHANGED <<budget, now, operators, sessions, login, adm, tokens, guesses>>
  BY DEF authVars
<1>2. SessionsFrom /\ RowsFrom /\ LoginsFrom /\ AdmsFrom
  BY <1>1, SameSessions, SameRows, SameLogins, SameAdms
<1> QED BY <1>1, <1>2 DEF AuthStep, AuthTypes, SessionsCapped

-----------------------------------------------------------------------------
(* A session follows its operator's row.  The row that a login has read is *)
(* the row of now, or a request is about to drop the operator's sessions,  *)
(* or has dropped them since.                                              *)
Follows(o, ver, overtaken) ==
    \/ ver = operators[o].ver \/ overtaken
    \/ \E a \in Admins : adm[a].pc = "drop" /\ adm[a].op = o
LoginsFollow ==
    \A l \in Logins : login[l].pc \in HasRow => Follows(login[l].op, login[l].row.ver, login[l].overtaken)
RowsExist ==
    /\ \A s \in sessions : operators[s.op].exists
    /\ \A l \in Logins : login[l].pc \in HasRow => operators[login[l].op].exists
    /\ \A a \in Admins : adm[a].pc # "idle" => operators[adm[a].op].exists
FollowInv == RowsExist /\ LoginsFollow /\ SessionsFollowOperator

LEMMA FollowKept ==
    ASSUME AuthTypes, AuthStep, NEW o \in Ops, operators[o].exists, NEW ver, NEW overtaken,
           Follows(o, ver, overtaken), \A a \in Admins : DropSessions(a) => adm[a].op # o
    PROVE  Follows(o, ver, overtaken)'
<1>1. CASE \E a \in Admins : adm[a].pc = "drop" /\ adm[a].op = o
  <2> PICK a \in Admins : adm[a].pc = "drop" /\ adm[a].op = o
    BY <1>1
  <2>1. adm'[a] = adm[a]
    BY DEF AuthStep, AdmsFrom
  <2> QED BY <2>1 DEF Follows
<1>2. CASE ver = operators[o].ver
  BY <1>2 DEF AuthStep, RowsFrom, SameRow, Follows
<1> QED BY <1>1, <1>2 DEF Follows

LEMMA RowsExistKept ==
    ASSUME AuthTypes, AuthStep, RowsExist
    PROVE  RowsExist'
<1>1. \A o \in Ops : operators[o].exists => operators'[o].exists
  BY DEF AuthStep, RowsFrom
<1>2. ASSUME NEW u \in sessions' PROVE operators'[u.op].exists
  <2>1. u.op \in Ops
    BY DEF AuthStep, AuthTypes, Session
  <2>2. operators[u.op].exists
    BY DEF AuthStep, SessionsFrom, SameSession, RowsExist, HasRow
  <2> QED BY <1>1, <2>1, <2>2
<1>3. ASSUME NEW l \in Logins, login'[l].pc \in HasRow PROVE operators'[login'[l].op].exists
  <2>1. login'[l].op \in Ops
    BY <1>3, LoginFields DEF AuthStep, AuthTypes, HasRow
  <2>2. operators[login'[l].op].exists
    BY <1>3 DEF AuthStep, LoginsFrom, RowsExist
  <2> QED BY <1>1, <2>1, <2>2
<1>4. ASSUME NEW a \in Admins, adm'[a].pc # "idle" PROVE operators'[adm'[a].op].exists
  <2>1. adm'[a].op \in Ops
    BY <1>4, AdmFields DEF AuthStep, AuthTypes
  <2>2. operators[adm'[a].op].exists
    BY <1>4 DEF AuthStep, AdmsFrom, RowsExist
  <2> QED BY <1>1, <2>1, <2>2
<1> QED BY <1>2, <1>3, <1>4 DEF RowsExist

LEMMA FollowInvKept ==
    ASSUME AuthTypes, SessionsCapped, AuthStep, FollowInv
    PROVE  FollowInv'
<1>1. RowsExist'
  BY RowsExistKept DEF FollowInv
<1>2. LoginsFollow'
  <2> SUFFICES ASSUME NEW l \in Logins, login'[l].pc \in HasRow
               PROVE  Follows(login[l].op, login[l].row.ver, login[l].overtaken)'
    BY DEF LoginsFollow
  <2>1. CASE /\ login'[l].row = operators[login'[l].op] /\ operators' = operators
    BY <2>1 DEF Follows
  <2>2. CASE /\ login[l].pc \in HasRow /\ login'[l].op = login[l].op /\ login'[l].row = login[l].row
             /\ login[l].overtaken => login'[l].overtaken
    <3>1. PICK o, ver, overtaken :
            o = login[l].op /\ ver = login[l].row.ver /\ overtaken = login[l].overtaken
      OBVIOUS
    <3>0. o \in Ops
      BY <2>2, <3>1, LoginFields DEF AuthTypes, HasRow
    <3>2. Follows(o, ver, overtaken) /\ operators[o].exists
      BY <2>2, <3>1 DEF FollowInv, LoginsFollow, RowsExist
    <3>3. CASE \A a \in Admins : DropSessions(a) => adm[a].op # o
      <4>1. Follows(o, ver, overtaken)'
        BY <3>0, <3>2, <3>3, FollowKept
      <4> QED BY <2>2, <3>1, <4>1 DEF Follows
    <3>4. CASE \E a \in Admins : DropSessions(a) /\ adm[a].op = o
      <4>1. login'[l] = [login[l] EXCEPT !.overtaken = TRUE]
        BY <2>2, <3>1, <3>4 DEF DropSessions, drop_sessions, HasRow
      <4>2. login'[l].overtaken = TRUE
        BY <2>2, <4>1, LoginOvertaken DEF AuthTypes, HasRow
      <4> QED BY <4>2 DEF Follows
    <3> QED BY <3>3, <3>4
  <2> QED BY <2>1, <2>2 DEF AuthStep, LoginsFrom
<1>3. SessionsFollowOperator'
  <2> SUFFICES ASSUME NEW u \in sessions'
               PROVE  Follows(u.op, u.ver, u.overtaken)'
    BY DEF SessionsFollowOperator, Follows
  <2>1. PICK o, ver, overtaken : o = u.op /\ ver = u.ver /\ overtaken = u.overtaken
    OBVIOUS
  <2>2. o \in Ops
    BY <2>1 DEF AuthStep, AuthTypes, Session
  <2>3. Follows(o, ver, overtaken) /\ operators[o].exists
    <3>1. CASE \E t \in sessions : SameSession(u, t)
      BY <2>1, <3>1 DEF SameSession, FollowInv, SessionsFollowOperator, RowsExist, Follows
    <3>2. CASE \E l \in Logins : /\ login[l].pc = "session" /\ u.op = login[l].op
                                 /\ u.ver = login[l].row.ver /\ u.overtaken = login[l].overtaken
      BY <2>1, <3>2 DEF FollowInv, LoginsFollow, RowsExist, HasRow
    <3> QED BY <3>1, <3>2 DEF AuthStep, SessionsFrom
  <2>4. \A a \in Admins : DropSessions(a) => adm[a].op # o
    BY <2>1 DEF DropSessions, drop_sessions
  <2>5. Follows(o, ver, overtaken)'
    BY <2>2, <2>3, <2>4, FollowKept
  <2> QED BY <2>1, <2>5
<1> QED BY <1>1, <1>2, <1>3 DEF FollowInv

LEMMA FollowInit == AuthInit => FollowInv
<1> SUFFICES ASSUME AuthInit PROVE FollowInv
  OBVIOUS
<1>1. PICK o \in Ops :
         /\ operators = [p \in Ops |-> IF p = o THEN NewRow("administrator", Unscoped)
                                       ELSE AbsentRow]
         /\ sessions = {[token |-> 1, op |-> o, role |-> "administrator",
                         ca |-> Unscoped, last |-> 0, ver |-> 0, overtaken |-> FALSE]}
  BY DEF AuthInit
<1>2. operators[o].exists /\ operators[o].ver = 0
  BY <1>1 DEF NewRow
<1>3. \A s \in sessions : s.op = o /\ s.ver = 0
  BY <1>1
<1>4. (\A l \in Logins : login[l].pc = "idle") /\ (\A a \in Admins : adm[a].pc = "idle")
  BY DEF AuthInit, IdleLogin, IdleAdm
<1> QED BY <1>2, <1>3, <1>4 DEF FollowInv, RowsExist, LoginsFollow, SessionsFollowOperator, HasRow

-----------------------------------------------------------------------------
(* A registration-authority operator has a scope.  An update that was      *)
(* tested on the row of now leaves the row within the rules.               *)
Lawful(role, ca) == ~(role = "ca_ra" /\ ca = Unscoped)
PutsLawful ==
    \A a \in Admins : adm[a].pc = "put" =>
        LET row == operators[adm[a].op] IN
        /\ adm[a].ver <= row.ver
        /\ adm[a].ver = row.ver =>
             \/ row.stale
             \/ Lawful(IF adm[a].role = NoUpdate THEN row.role ELSE adm[a].role,
                       IF adm[a].ca = NoUpdate THEN row.ca ELSE adm[a].ca)
ScopeInv == PutsLawful /\ CaRaHasScope

(* put_operator's rules accept only updates that keep the row lawful.      *)
LEMMA CaIdUpdateLawful ==
    ASSUME NEW ctx, NEW row \in Row, NEW role \in Roles \union {NoUpdate}, NEW ca \in Scopes \union {NoUpdate},
           Lawful(row.role, row.ca), NEW c, c = ca_id_update(ctx, row, role, ca), c # Absurd
    PROVE  Lawful(IF role = NoUpdate THEN row.role ELSE role, IF c = NoUpdate THEN row.ca ELSE c)
<1>1. CASE ca # NoUpdate
  BY <1>1 DEF ca_id_update, Lawful
<1>2. CASE ca = NoUpdate /\ role = NoUpdate
  BY <1>2 DEF ca_id_update, Lawful, NoUpdate
<1>3. CASE ca = NoUpdate /\ role # NoUpdate
  BY <1>3 DEF ca_id_update, Lawful
<1> QED BY <1>1, <1>2, <1>3

(* Where a row's role and scope come from, and where a pending update.     *)
RowsLaw ==
    \A o \in Ops : operators'[o].exists =>
        \/ /\ operators[o].exists /\ operators'[o].role = operators[o].role
           /\ operators'[o].ca = operators[o].ca
           /\ operators[o].stale => operators'[o].stale
        \/ Lawful(operators'[o].role, operators'[o].ca)
        \/ operators'[o].stale
PutsFrom ==
    \A a \in Admins : adm'[a].pc = "put" =>
        \/ adm'[a] = adm[a]
        \/ \E s \in sessions, o \in Ops, role \in Roles \union {NoUpdate}, ca \in Scopes \union {NoUpdate} :
              PutCheck(a, s, o, role, ca)

LEMMA OneRowLaw ==
    ASSUME AuthTypes, NEW o \in Ops, NEW r, operators' = [operators EXCEPT ![o] = r],
           \/ r.exists = operators[o].exists /\ SameRow(r, operators[o])
           \/ /\ r.exists = operators[o].exists /\ r.role = operators[o].role
              /\ r.ca = operators[o].ca /\ r.stale = operators[o].stale
           \/ Lawful(r.role, r.ca) \/ r.stale
    PROVE  RowsLaw
<1>1. operators'[o] = r /\ \A p \in Ops : p # o => operators'[p] = operators[p]
  BY DEF AuthTypes
<1>2. ASSUME NEW p \in Ops, operators'[p].exists
      PROVE  \/ /\ operators[p].exists /\ operators'[p].role = operators[p].role
                /\ operators'[p].ca = operators[p].ca
                /\ operators[p].stale => operators'[p].stale
             \/ Lawful(operators'[p].role, operators'[p].ca)
             \/ operators'[p].stale
  <2>1. CASE p = o
    BY <1>1, <1>2, <2>1 DEF SameRow
  <2>2. CASE p # o
    BY <1>1, <1>2, <2>2
  <2> QED BY <2>1, <2>2
<1> QED BY <1>2 DEF RowsLaw

LEMMA LawStep ==
    ASSUME AuthTypes, ScopeInv, RowsExist, AuthNext
    PROVE  RowsLaw
<1>0. operators' = operators => RowsLaw
  BY DEF RowsLaw
<1>1. ASSUME NEW l \in Logins, LoginReset(l) \/ EabReject(l) PROVE RowsLaw
  <2>1. login[l].op \in Ops /\ now \in Nat
    BY <1>1, LoginFields, BudgetFacts DEF AuthTypes, LoginReset, EabReject
  <2>2. PICK o \in Ops, row \in Row : o = login[l].op /\ row = operators[o]
    BY <2>1 DEF AuthTypes
  <2>3. PICK r : /\ r = reset_failed(row) \/ r = increment_failed(row)
                 /\ operators' = [operators EXCEPT ![o] = r]
    BY <1>1, <2>2 DEF LoginReset, EabReject, AuthTypes
  <2>4. r.exists = row.exists /\ SameRow(r, row)
    BY <2>1, <2>3, ResetRow, FailRow DEF SameRow
  <2> QED BY <2>2, <2>3, <2>4, OneRowLaw
<1>2. ASSUME NEW a \in Admins, NEW s \in sessions, NEW o \in Ops, unlock_operator(a, s, o) PROVE RowsLaw
  <2>1. PICK row \in Row : row = operators[o]
    BY DEF AuthTypes
  <2>2. PICK r : r = reset_failed(row) /\ operators' = [operators EXCEPT ![o] = r]
    BY <1>2, <2>1 DEF unlock_operator, AuthTypes
  <2>3. r.exists = row.exists /\ SameRow(r, row)
    BY <2>2, ResetRow DEF SameRow
  <2> QED BY <2>1, <2>2, <2>3, OneRowLaw
<1>3. ASSUME NEW a \in Admins, NEW s \in sessions, NEW o \in Ops, NEW role \in Roles, NEW ca \in Scopes,
             post_operators(a, s, o, role, ca)
      PROVE  RowsLaw
  <2>1. PICK r : r = NewRow(role, ca) /\ operators' = [operators EXCEPT ![o] = r]
    BY <1>3 DEF post_operators
  <2>2. Lawful(r.role, r.ca)
    BY <1>3, <2>1, NewRowTyped DEF post_operators, Lawful
  <2> QED BY <2>1, <2>2, OneRowLaw
<1>4. ASSUME NEW a \in Admins, PatchWrite(a) PROVE RowsLaw
  <2>1. PICK o \in Ops, active \in BOOLEAN, row \in Row :
          o = adm[a].op /\ active = adm[a].active /\ row = operators[o]
    BY <1>4, AdmFields DEF PatchWrite, AuthTypes
  <2>2. PICK r : r = set_active(row, active) /\ operators' = [operators EXCEPT ![o] = r]
    BY <1>4, <2>1 DEF PatchWrite, AuthTypes
  <2>3. r.exists = row.exists /\ r.role = row.role /\ r.ca = row.ca /\ r.stale = row.stale
    BY <2>2, ActivateRow
  <2> QED BY <2>1, <2>2, <2>3, OneRowLaw
<1>5. ASSUME NEW a \in Admins, PutWrite(a) PROVE RowsLaw
  <2>0. adm[a].pc = "put" /\ adm[a] \in AdmRec
    BY <1>5 DEF PutWrite, AuthTypes
  <2>1. PICK o \in Ops, role \in Roles \union {NoUpdate}, ca \in Scopes \union {NoUpdate}, ver \in Nat :
          o = adm[a].op /\ role = adm[a].role /\ ca = adm[a].ca /\ ver = adm[a].ver
    BY <2>0, AdmFields
  <2>2. PICK row \in Row : row = operators[o]
    BY DEF AuthTypes
  <2>3. PICK r : r = update(row, role, ca, ver) /\ operators' = [operators EXCEPT ![o] = r]
    BY <1>5, <2>1, <2>2 DEF PutWrite, AuthTypes
  <2>4. /\ r.role = IF role = NoUpdate THEN row.role ELSE role
        /\ r.ca = IF ca = NoUpdate THEN row.ca ELSE ca
        /\ row.stale \/ row.ver # ver => r.stale
    <3>1. r = update(row, role, ca, ver)
      BY <2>3
    <3>2. /\ r.role = IF role = NoUpdate THEN row.role ELSE role
          /\ r.ca = IF ca = NoUpdate THEN row.ca ELSE ca
      BY <3>1, UpdateRowLaw
    <3>3. row.stale \/ row.ver # ver => r.stale
      BY <3>1, UpdateStale
    <3> QED BY <3>2, <3>3
  <2>5. row.ver = ver => row.stale \/ Lawful(IF role = NoUpdate THEN row.role ELSE role,
                                             IF ca = NoUpdate THEN row.ca ELSE ca)
    BY <2>0, <2>1, <2>2 DEF ScopeInv, PutsLawful
  <2>6. Lawful(r.role, r.ca) \/ r.stale
    BY <2>4, <2>5
  <2> QED BY <2>3, <2>6, OneRowLaw
<1>6. ASSUME NEW l \in Logins,
             \/ \E o \in Ops : LoginRead(l, o)
             \/ LoginSession(l)
             \/ \E o \in Ops, ts \in 0..budget.time, g \in BOOLEAN : EabReserve(l, o, ts, g)
             \/ EabLookup(l) \/ EabRelease(l) \/ EabAccept(l)
      PROVE  operators' = operators
  BY <1>6 DEF LoginRead, LoginSession, EabReserve, EabLookup, EabRelease, EabAccept
<1>7. ASSUME NEW a \in Admins, NEW s \in sessions, NEW o \in Ops,
             \/ \E active \in BOOLEAN : PatchCheck(a, s, o, active)
             \/ \E role \in Roles \union {NoUpdate}, ca \in Scopes \union {NoUpdate} :
                   PutCheck(a, s, o, role, ca)
      PROVE  operators' = operators
  BY <1>7 DEF PatchCheck, PutCheck, admin_rbac_gate
<1>8. CASE (\E a \in Admins : DropSessions(a)) \/ (\E s \in sessions : delete_session(s)) \/ Tick
  BY <1>0, <1>8 DEF DropSessions, delete_session, Tick
<1> QED BY <1>0, <1>1, <1>2, <1>3, <1>4, <1>5, <1>6, <1>7, <1>8 DEF AuthNext

LEMMA PutsStep ==
    ASSUME AuthTypes, AuthNext
    PROVE  PutsFrom
<1> DEFINE Put(a) == \E s \in sessions, o \in Ops, role \in Roles \union {NoUpdate},
                          ca \in Scopes \union {NoUpdate} : PutCheck(a, s, o, role, ca)
<1>1. ASSUME NEW a \in Admins, NEW A, adm' = [adm EXCEPT ![a] = A], A.pc = "put" => Put(a)
      PROVE  PutsFrom
  <2>1. adm'[a] = A /\ \A b \in Admins : b # a => adm'[b] = adm[b]
    BY <1>1 DEF AuthTypes
  <2> HIDE DEF Put
  <2>2. ASSUME NEW b \in Admins, adm'[b].pc = "put" PROVE adm'[b] = adm[b] \/ Put(b)
    BY <1>1, <2>1, <2>2
  <2> QED BY <2>2 DEF PutsFrom, Put
<1>2. adm' = adm => PutsFrom
  BY DEF PutsFrom
<1>3. ASSUME NEW a \in Admins, NEW s \in sessions, NEW o \in Ops, NEW role \in Roles \union {NoUpdate},
             NEW ca \in Scopes \union {NoUpdate}, PutCheck(a, s, o, role, ca)
      PROVE  PutsFrom
  <2>1. PICK A : adm' = [adm EXCEPT ![a] = A]
    BY <1>3 DEF PutCheck, admin_rbac_gate
  <2>2. Put(a)
    BY <1>3
  <2> HIDE DEF Put
  <2> QED BY <1>1, <2>1, <2>2
<1>4. ASSUME NEW a \in Admins, NEW s \in sessions, NEW o \in Ops, NEW active \in BOOLEAN,
             PatchCheck(a, s, o, active)
      PROVE  PutsFrom
  <2>1. PICK A : adm' = [adm EXCEPT ![a] = A] /\ A.pc = "patch"
    <3> WITNESS [pc |-> "patch", op |-> o, active |-> active]
    <3> QED BY <1>4 DEF PatchCheck, admin_rbac_gate
  <2> HIDE DEF Put
  <2> QED BY <1>1, <2>1
<1>5. ASSUME NEW a \in Admins, PatchWrite(a) \/ PutWrite(a) \/ DropSessions(a)
      PROVE  PutsFrom
  <2>1. PICK A : adm' = [adm EXCEPT ![a] = A] /\ A.pc \in {"idle", "drop"}
    <3>1. CASE adm' = [adm EXCEPT ![a] = IdleAdm]
      <4> WITNESS IdleAdm
      <4> QED BY <3>1 DEF IdleAdm
    <3>2. CASE adm' = [adm EXCEPT ![a] = [pc |-> "drop", op |-> adm[a].op]]
      <4> WITNESS [pc |-> "drop", op |-> adm[a].op]
      <4> QED BY <3>2
    <3>3. CASE PatchWrite(a)
      <4>1. CASE adm[a].active
        BY <3>1, <3>3, <4>1 DEF PatchWrite
      <4>2. CASE ~adm[a].active
        BY <3>2, <3>3, <4>2 DEF PatchWrite
      <4> QED BY <4>1, <4>2
    <3> QED BY <1>5, <3>1, <3>2, <3>3 DEF PutWrite, DropSessions
  <2> HIDE DEF Put
  <2> QED BY <1>1, <2>1
<1>6. ASSUME NEW l \in Logins,
             \/ \E o \in Ops : LoginRead(l, o)
             \/ LoginReset(l) \/ LoginSession(l)
             \/ \E o \in Ops, ts \in 0..budget.time, g \in BOOLEAN : EabReserve(l, o, ts, g)
             \/ EabLookup(l) \/ EabReject(l) \/ EabRelease(l) \/ EabAccept(l)
      PROVE  adm' = adm
  BY <1>6 DEF LoginRead, LoginReset, LoginSession, EabReserve, EabLookup, EabReject, EabRelease, EabAccept
<1>7. ASSUME NEW a \in Admins, NEW s \in sessions, NEW o \in Ops,
             \/ \E role \in Roles, ca \in Scopes : post_operators(a, s, o, role, ca)
             \/ unlock_operator(a, s, o)
      PROVE  adm' = adm
  BY <1>7 DEF post_operators, unlock_operator
<1>8. CASE (\E s \in sessions : delete_session(s)) \/ Tick
  BY <1>2, <1>8 DEF delete_session, Tick
<1> HIDE DEF Put
<1> QED BY <1>2, <1>3, <1>4, <1>5, <1>6, <1>7, <1>8 DEF AuthNext

LEMMA ScopeInvKept ==
    ASSUME AuthTypes, SessionsCapped, RowsExist, ScopeInv, AuthNext
    PROVE  ScopeInv'
<1>1. AuthStep /\ RowsLaw /\ PutsFrom
  BY AuthNextStep, LawStep, PutsStep
<1>2. CaRaHasScope'
  <2> SUFFICES ASSUME NEW o \in Ops, operators'[o].exists, operators'[o].role = "ca_ra",
                      operators'[o].ca = Unscoped
               PROVE  operators'[o].stale
    BY DEF CaRaHasScope
  <2>1. CASE /\ operators[o].exists /\ operators'[o].role = operators[o].role
             /\ operators'[o].ca = operators[o].ca
             /\ operators[o].stale => operators'[o].stale
    <3>1. operators[o].stale
      BY <2>1 DEF ScopeInv, CaRaHasScope
    <3> QED BY <2>1, <3>1
  <2> QED BY <1>1, <2>1 DEF RowsLaw, Lawful
<1>3. PutsLawful'
  <2> SUFFICES ASSUME NEW a \in Admins, adm'[a].pc = "put"
               PROVE  LET row == operators'[adm'[a].op] IN
                      /\ adm'[a].ver <= row.ver
                      /\ adm'[a].ver = row.ver =>
                           \/ row.stale
                           \/ Lawful(IF adm'[a].role = NoUpdate THEN row.role ELSE adm'[a].role,
                                     IF adm'[a].ca = NoUpdate THEN row.ca ELSE adm'[a].ca)
    BY DEF PutsLawful
  <2>1. CASE adm'[a] = adm[a]
    <3>1. PICK o \in Ops : o = adm[a].op
      BY <2>1, AdmFields DEF AuthTypes
    <3>2. operators[o].exists /\ operators[o].ver \in Nat /\ adm[a].ver \in Nat
      BY <2>1, <3>1, AdmFields DEF RowsExist, AuthTypes, Row
    <3>3. /\ adm[a].ver <= operators[o].ver
          /\ adm[a].ver = operators[o].ver =>
               \/ operators[o].stale
               \/ Lawful(IF adm[a].role = NoUpdate THEN operators[o].role ELSE adm[a].role,
                         IF adm[a].ca = NoUpdate THEN operators[o].ca ELSE adm[a].ca)
      BY <2>1, <3>1 DEF ScopeInv, PutsLawful
    <3>4. SameRow(operators'[o], operators[o]) \/ operators'[o].ver = operators[o].ver + 1
      BY <1>1, <3>2 DEF AuthStep, RowsFrom
    <3>5. CASE SameRow(operators'[o], operators[o])
      BY <2>1, <3>1, <3>3, <3>5 DEF SameRow
    <3>6. CASE operators'[o].ver = operators[o].ver + 1
      BY <2>1, <3>1, <3>2, <3>3, <3>6
    <3> QED BY <3>4, <3>5, <3>6
  <2>2. CASE \E s \in sessions, o \in Ops, role \in Roles \union {NoUpdate}, ca \in Scopes \union {NoUpdate} :
               PutCheck(a, s, o, role, ca)
    <3> PICK s \in sessions, o \in Ops, role \in Roles \union {NoUpdate}, ca \in Scopes \union {NoUpdate} :
               PutCheck(a, s, o, role, ca)
      BY <2>2
    <3>1. PICK row \in Row : row = operators[o]
      BY DEF AuthTypes
    <3>2. PICK c : c = ca_id_update(Ctx(s), row, role, ca)
      OBVIOUS
    <3>3. /\ adm' = [adm EXCEPT ![a] = [pc |-> "put", op |-> o, role |-> role, ca |-> c, ver |-> row.ver]]
          /\ c # Absurd /\ row.exists /\ operators' = operators
      BY <3>1, <3>2 DEF PutCheck, admin_rbac_gate
    <3>4. adm'[a].op = o /\ adm'[a].role = role /\ adm'[a].ca = c /\ adm'[a].ver = row.ver
      BY <3>3 DEF AuthTypes
    <3>5. row.ver \in Nat
      BY DEF Row
    <3>6. row.stale \/ Lawful(row.role, row.ca)
      BY <3>1, <3>3 DEF ScopeInv, CaRaHasScope, Lawful
    <3>7. row.stale \/ Lawful(IF role = NoUpdate THEN row.role ELSE role, IF c = NoUpdate THEN row.ca ELSE c)
      BY <3>2, <3>3, <3>6, CaIdUpdateLawful
    <3> QED BY <3>1, <3>3, <3>4, <3>5, <3>7
  <2> QED BY <1>1, <2>1, <2>2 DEF PutsFrom
<1> QED BY <1>2, <1>3 DEF ScopeInv
-----------------------------------------------------------------------------
(* An EAB login that is under way keeps its operator and its timestamp; it *)
(* enters with a reservation and reaches the signature by a lookup.        *)
Busy == {"lookup", "verify", "release"}
Keeps(L, M) ==
    /\ M.pc \in Busy => L.pc \in Busy /\ M.op = L.op /\ M.ts = L.ts
    /\ M.pc = "verify" => L.pc = "verify"
Reserves(l) == \E o \in Ops, ts \in 0..budget.time, g \in BOOLEAN : EabReserve(l, o, ts, g)
EabFrom == \A l \in Logins : Keeps(login[l], login'[l]) \/ Reserves(l) \/ EabLookup(l)

LEMMA OneEab ==
    ASSUME AuthTypes, NEW l \in Logins, NEW M, login' = [login EXCEPT ![l] = M],
           Keeps(login[l], M) \/ Reserves(l) \/ EabLookup(l)
    PROVE  EabFrom
<1>1. login'[l] = M /\ \A k \in Logins : k # l => login'[k] = login[k]
  BY DEF AuthTypes
<1>2. \A k \in Logins : Keeps(login[k], login[k])
  BY DEF Keeps
<1> QED BY <1>1, <1>2 DEF EabFrom

LEMMA EabFromStep ==
    ASSUME AuthTypes, AuthNext
    PROVE  EabFrom
<1>0. login' = login => EabFrom
  BY DEF EabFrom, Keeps
<1>1. IdleLogin.pc \notin Busy
  BY DEF IdleLogin, Busy
<1>2. ASSUME NEW l \in Logins, NEW o \in Ops, LoginRead(l, o) PROVE EabFrom
  <2>1. PICK M : login' = [login EXCEPT ![l] = M] /\ M.pc = "reset"
    <3> WITNESS [pc |-> "reset", method |-> "cert", op |-> o, row |-> operators[o], overtaken |-> FALSE]
    <3> QED BY <1>2 DEF LoginRead
  <2>2. Keeps(login[l], M)
    BY <2>1 DEF Keeps, Busy
  <2> QED BY <2>1, <2>2, OneEab
<1>3. ASSUME NEW l \in Logins, LoginReset(l) \/ LoginSession(l) PROVE EabFrom
  <2>1. login[l] \in LoginRec /\ login[l].pc \in {"reset", "session"}
    BY <1>3 DEF AuthTypes, LoginReset, LoginSession
  <2>2. PICK M : login' = [login EXCEPT ![l] = M] /\ M.pc \notin Busy
    <3>1. CASE login' = [login EXCEPT ![l] = IdleLogin]
      BY <1>1, <3>1
    <3>2. ASSUME NEW q \in {"reset", "session"}, login' = [login EXCEPT ![l] = [@ EXCEPT !.pc = q]]
          PROVE  \E M : login' = [login EXCEPT ![l] = M] /\ M.pc \notin Busy
      <4> DEFINE N == [login[l] EXCEPT !.pc = q]
      <4>1. N.pc = q
        BY <2>1, LoginMoves
      <4>2. login' = [login EXCEPT ![l] = N]
        BY <3>2 DEF AuthTypes
      <4> QED BY <4>1, <4>2 DEF Busy
    <3>3. CASE login[l].method = "eab"
      BY <1>3, <3>1, <3>2, <3>3 DEF LoginReset, LoginSession
    <3>4. CASE login[l].method # "eab"
      BY <1>3, <3>1, <3>2, <3>4 DEF LoginReset, LoginSession
    <3> QED BY <3>3, <3>4
  <2>3. Keeps(login[l], M)
    BY <2>2 DEF Keeps, Busy
  <2> QED BY <2>2, <2>3, OneEab
<1>4. ASSUME NEW l \in Logins, Reserves(l) \/ EabLookup(l) PROVE EabFrom
  <2>1. PICK M : login' = [login EXCEPT ![l] = M]
    BY <1>4 DEF Reserves, EabReserve, EabLookup
  <2> QED BY <1>4, <2>1, OneEab
<1>5. ASSUME NEW l \in Logins, EabReject(l) \/ EabAccept(l) PROVE EabFrom
  <2>1. login[l] \in LoginRec /\ login[l].pc = "verify"
    BY <1>5 DEF AuthTypes, EabReject, EabAccept
  <2>2. PICK q \in {"release", "session"} : login' = [login EXCEPT ![l].pc = q]
    BY <1>5 DEF EabReject, EabAccept
  <2> DEFINE N == [login[l] EXCEPT !.pc = q]
  <2>3. N.pc = q /\ N.op = login[l].op /\ N.ts = login[l].ts
    BY <2>1, LoginMoves
  <2>4. login' = [login EXCEPT ![l] = N]
    BY <2>2 DEF AuthTypes
  <2> HIDE DEF N
  <2>5. Keeps(login[l], N)
    BY <2>1, <2>3 DEF Keeps, Busy
  <2> QED BY <2>4, <2>5, OneEab
<1>6. ASSUME NEW l \in Logins, EabRelease(l) PROVE EabFrom
  <2>1. Keeps(login[l], IdleLogin)
    BY <1>1 DEF Keeps, Busy
  <2> QED BY <1>6, <2>1, OneEab DEF EabRelease
<1>7. ASSUME NEW a \in Admins, DropSessions(a) PROVE EabFrom
  <2>1. ASSUME NEW l \in Logins PROVE Keeps(login[l], login'[l])
    <3>1. CASE login[l].pc \in {"reset", "session", "verify"} /\ login[l].op = adm[a].op
      <4>1. login'[l] = [login[l] EXCEPT !.overtaken = TRUE]
        BY <1>7, <3>1 DEF DropSessions, drop_sessions
      <4>2. login[l] \in LoginRec
        BY DEF AuthTypes
      <4> QED BY <3>1, <4>1, <4>2, LoginOvertaken DEF Keeps, Busy
    <3>2. CASE ~(login[l].pc \in {"reset", "session", "verify"} /\ login[l].op = adm[a].op)
      <4>1. login'[l] = login[l]
        BY <1>7, <3>2 DEF DropSessions, drop_sessions
      <4> QED BY <4>1 DEF Keeps
    <3> QED BY <3>1, <3>2
  <2> QED BY <2>1 DEF EabFrom
<1>8. ASSUME NEW a \in Admins, NEW s \in sessions, NEW o \in Ops,
             \/ \E role \in Roles, ca \in Scopes : post_operators(a, s, o, role, ca)
             \/ \E active \in BOOLEAN : PatchCheck(a, s, o, active)
             \/ \E role \in Roles \union {NoUpdate}, ca \in Scopes \union {NoUpdate} :
                   PutCheck(a, s, o, role, ca)
             \/ unlock_operator(a, s, o)
      PROVE  login' = login
  BY <1>8 DEF post_operators, PatchCheck, PutCheck, unlock_operator, admin_rbac_gate
<1>9. ASSUME \/ \E a \in Admins : PatchWrite(a) \/ PutWrite(a)
             \/ \E s \in sessions : delete_session(s)
             \/ Tick
      PROVE  login' = login
  BY <1>9 DEF PatchWrite, PutWrite, delete_session, Tick
<1> QED BY <1>0, <1>2, <1>3, <1>4, <1>5, <1>6, <1>7, <1>8, <1>9 DEF AuthNext, Reserves

-----------------------------------------------------------------------------
(* Guesses lock.  An operator that is not locked has fewer guesses than    *)
(* max_failed_auth, and only requests that found it so are at a signature. *)
Verifiers(o) == {l \in Logins : login[l].pc = "verify" /\ login[l].op = o}
LockInv ==
    \A o \in Ops :
        /\ guesses[o] <= operators[o].failed
        /\ operators[o].exists \/ operators[o].failed = 0
        /\ operators[o].locked < now => guesses[o] < MaxFailed
        /\ guesses[o] + Cardinality(Verifiers(o)) <= MaxFailed + Cardinality(Logins) - 1

(* What a step does to an operator's counters.                             *)
Quiet(o) ==
    /\ guesses'[o] = guesses[o] /\ operators'[o].failed = operators[o].failed
    /\ operators'[o].locked = operators[o].locked /\ operators'[o].exists = operators[o].exists
    /\ now' = now \/ (now' = now + 1 /\ operators[o].locked # now)
Cleared(o) == guesses'[o] = 0 /\ (operators'[o].exists \/ operators'[o].failed = 0)
Struck(o) ==
    /\ guesses'[o] = guesses[o] + 1 /\ operators'[o].failed = operators[o].failed + 1
    /\ operators'[o].exists /\ now' = now
    /\ operators'[o].failed >= MaxFailed => operators'[o].locked >= now
    /\ operators'[o].failed < MaxFailed => operators'[o].locked = operators[o].locked
    /\ \E l \in Verifiers(o) : Verifiers(o)' \subseteq Verifiers(o) \ {l}
CountersFrom == \A o \in Ops : Quiet(o) \/ Cleared(o) \/ Struck(o)
VerifiersFrom ==
    \A o \in Ops : \/ Verifiers(o)' \subseteq Verifiers(o)
                   \/ operators[o].locked < now /\ guesses' = guesses

LEMMA VerifiersStep ==
    ASSUME AuthTypes, AuthNext
    PROVE  VerifiersFrom
<1>1. EabFrom
  BY EabFromStep
<1>2. CASE \E l \in Logins : Reserves(l)
  <2> PICK l \in Logins : Reserves(l)
    BY <1>2
  <2>1. login'[l].pc = "lookup" /\ \A k \in Logins : k # l => login'[k] = login[k]
    <3>1. PICK o, ts, g : login' = [login EXCEPT ![l] = [pc |-> "lookup", method |-> "eab", op |-> o,
                                                       ts |-> ts, good |-> g]]
      BY DEF Reserves, EabReserve
    <3> QED BY <3>1 DEF AuthTypes
  <2> QED BY <2>1 DEF VerifiersFrom, Verifiers
<1>3. CASE \E l \in Logins : EabLookup(l)
  <2> PICK l \in Logins : EabLookup(l)
    BY <1>3
  <2>0. login[l].pc = "lookup" /\ login[l] \in LoginRec
    BY DEF EabLookup, AuthTypes
  <2>1. PICK o \in Ops : o = login[l].op
    BY <2>0, LoginFields
  <2>2. operators[o].locked \in Int /\ now \in Nat /\ guesses' = guesses
    BY BudgetFacts DEF AuthTypes, Row, EabLookup
  <2>3. \A k \in Logins : k # l => login'[k] = login[k]
    BY DEF EabLookup, AuthTypes
  <2>4. CASE Selected(o) /\ ~is_locked(operators[o])
    <3>1. login'[l].op = o
      BY <2>1, <2>4 DEF EabLookup, AuthTypes
    <3>2. operators[o].locked < now
      BY <2>2, <2>4 DEF is_locked
    <3>3. \A p \in Ops : p # o => Verifiers(p)' \subseteq Verifiers(p)
      BY <2>3, <3>1 DEF Verifiers
    <3> QED BY <2>2, <3>2, <3>3 DEF VerifiersFrom
  <2>5. CASE ~(Selected(o) /\ ~is_locked(operators[o]))
    <3>1. login'[l].pc = "idle"
      BY <2>1, <2>5 DEF EabLookup, AuthTypes, IdleLogin
    <3> QED BY <2>3, <3>1 DEF VerifiersFrom, Verifiers
  <2> QED BY <2>4, <2>5
<1>4. CASE \A l \in Logins : Keeps(login[l], login'[l])
  BY <1>4 DEF Keeps, VerifiersFrom, Verifiers, Busy
<1> QED BY <1>1, <1>2, <1>3, <1>4 DEF EabFrom

LEMMA VerifiersCount ==
    ASSUME NEW o \in Ops
    PROVE  /\ IsFiniteSet(Verifiers(o)) /\ Cardinality(Verifiers(o)) \in Nat
           /\ Cardinality(Logins) \in Nat /\ Cardinality(Verifiers(o)) <= Cardinality(Logins)
<1>1. IsFiniteSet(Logins) /\ Verifiers(o) \subseteq Logins
  BY AdminAuthAssumption DEF Verifiers
<1> QED BY <1>1, FS_Subset, FS_CardinalityType

LEMMA VerifiersCountPrimed ==
    ASSUME NEW o \in Ops
    PROVE  /\ IsFiniteSet(Verifiers(o)') /\ Cardinality(Verifiers(o)') \in Nat
           /\ Cardinality(Logins) \in Nat /\ Cardinality(Verifiers(o)') <= Cardinality(Logins)
<1>1. IsFiniteSet(Logins) /\ Verifiers(o)' \subseteq Logins
  BY AdminAuthAssumption DEF Verifiers
<1> QED BY <1>1, FS_Subset, FS_CardinalityType

LEMMA LockInvKept ==
    ASSUME AuthTypes, AuthTypes', LockInv, CountersFrom, VerifiersFrom
    PROVE  LockInv'
<1> SUFFICES ASSUME NEW o \in Ops
             PROVE  /\ guesses'[o] <= operators'[o].failed
                    /\ operators'[o].exists \/ operators'[o].failed = 0
                    /\ operators'[o].locked < now' => guesses'[o] < MaxFailed
                    /\ guesses'[o] + Cardinality(Verifiers(o)') <= MaxFailed + Cardinality(Logins) - 1
  BY DEF LockInv
<1>0. /\ operators[o].locked \in Int /\ operators[o].failed \in Nat /\ guesses[o] \in Nat
      /\ operators'[o].locked \in Int /\ operators'[o].failed \in Nat /\ guesses'[o] \in Nat
      /\ MaxFailed \in Nat \ {0} /\ now \in Nat
  BY AdminAuthAssumption, BudgetFacts DEF AuthTypes, Row
<1>1. /\ guesses[o] <= operators[o].failed
      /\ operators[o].exists \/ operators[o].failed = 0
      /\ operators[o].locked < now => guesses[o] < MaxFailed
      /\ guesses[o] + Cardinality(Verifiers(o)) <= MaxFailed + Cardinality(Logins) - 1
  BY DEF LockInv
<1> PICK V : V = Verifiers(o)
  OBVIOUS
<1> PICK W : W = Verifiers(o)'
  OBVIOUS
<1>2. /\ IsFiniteSet(V) /\ Cardinality(V) \in Nat /\ Cardinality(Logins) \in Nat
      /\ IsFiniteSet(W) /\ Cardinality(W) \in Nat /\ Cardinality(W) <= Cardinality(Logins)
  BY VerifiersCount, VerifiersCountPrimed
<1>3. guesses'[o] <= operators'[o].failed
  BY <1>0, <1>1 DEF CountersFrom, Quiet, Cleared, Struck
<1>4. operators'[o].exists \/ operators'[o].failed = 0
  BY <1>1 DEF CountersFrom, Quiet, Cleared, Struck
<1>5. operators'[o].locked < now' => guesses'[o] < MaxFailed
  BY <1>0, <1>1, <1>3 DEF CountersFrom, Quiet, Cleared, Struck
<1>6. guesses'[o] + Cardinality(W) <= MaxFailed + Cardinality(Logins) - 1
  <2>1. CASE guesses'[o] < MaxFailed
    BY <1>0, <1>2, <2>1
  <2>2. CASE W \subseteq V /\ guesses'[o] = guesses[o]
    <3>1. Cardinality(W) <= Cardinality(V)
      BY <1>2, <2>2, FS_Subset
    <3> QED BY <1>0, <1>1, <1>2, <2>2, <3>1
  <2>3. CASE Struck(o)
    <3>1. PICK l \in V : W \subseteq V \ {l}
      BY <2>3 DEF Struck
    <3>2. IsFiniteSet(V \ {l}) /\ Cardinality(V \ {l}) = Cardinality(V) - 1
      BY <1>2, FS_RemoveElement
    <3>3. Cardinality(W) <= Cardinality(V) - 1
      BY <3>1, <3>2, FS_Subset
    <3> QED BY <1>0, <1>1, <1>2, <2>3, <3>3 DEF Struck
  <2>4. CASE guesses' = guesses /\ operators[o].locked < now
    BY <1>0, <1>1, <2>1, <2>4
  <2>5. guesses'[o] = guesses[o] \/ guesses'[o] = 0 \/ Struck(o)
    BY DEF CountersFrom, Quiet, Cleared
  <2>6. W \subseteq V \/ (operators[o].locked < now /\ guesses' = guesses)
    BY DEF VerifiersFrom
  <2> QED BY <1>0, <2>1, <2>2, <2>3, <2>4, <2>5, <2>6
<1> QED BY <1>3, <1>4, <1>5, <1>6

(* One operator's counters change, or none, and the clock stands still.    *)
LEMMA OneCounter ==
    ASSUME AuthTypes, NEW o \in Ops, NEW r, operators' = [operators EXCEPT ![o] = r], now' = now,
           \A p \in Ops : p # o => guesses'[p] = guesses[p],
           Quiet(o) \/ Cleared(o) \/ Struck(o)
    PROVE  CountersFrom
<1>1. \A p \in Ops : p # o => operators'[p] = operators[p]
  BY DEF AuthTypes
<1>2. \A p \in Ops : p # o => Quiet(p)
  BY <1>1 DEF Quiet
<1> QED BY <1>2 DEF CountersFrom

LEMMA CountersStep ==
    ASSUME AuthTypes, RowsExist, LockInv, AuthNext
    PROVE  CountersFrom
<1>0. operators' = operators /\ guesses' = guesses /\ now' = now => CountersFrom
  BY DEF CountersFrom, Quiet
<1>1. ASSUME NEW l \in Logins, LoginReset(l) PROVE CountersFrom
  <2>1. login[l].op \in Ops /\ operators[login[l].op].exists
    BY <1>1, LoginFields DEF AuthTypes, LoginReset, RowsExist, HasRow
  <2>2. PICK o \in Ops, row \in Row : o = login[l].op /\ row = operators[o]
    BY <2>1 DEF AuthTypes
  <2>3. PICK r : r = reset_failed(row)
    OBVIOUS
  <2>4. /\ operators' = [operators EXCEPT ![o] = r] /\ guesses' = [guesses EXCEPT ![o] = 0] /\ now' = now
    BY <1>1, <2>2, <2>3 DEF LoginReset, AuthTypes
  <2>5. r.exists
    BY <2>1, <2>2, <2>3, ResetRow
  <2>6. Cleared(o)
    BY <2>4, <2>5 DEF Cleared, AuthTypes
  <2>7. \A p \in Ops : p # o => guesses'[p] = guesses[p]
    BY <2>4 DEF AuthTypes
  <2> QED BY <2>4, <2>6, <2>7, OneCounter
<1>2. ASSUME NEW l \in Logins, EabReject(l) PROVE CountersFrom
  <2>0. login[l] \in LoginRec /\ login[l].pc = "verify" /\ now \in Nat
    BY <1>2, BudgetFacts DEF AuthTypes, EabReject
  <2>1. login[l].op \in Ops /\ operators[login[l].op].exists
    BY <2>0, LoginFields DEF RowsExist, HasRow
  <2>2. PICK o \in Ops, row \in Row : o = login[l].op /\ row = operators[o]
    BY <2>1 DEF AuthTypes
  <2>3. PICK r : r = increment_failed(row)
    OBVIOUS
  <2>4. /\ operators' = [operators EXCEPT ![o] = r] /\ guesses' = [guesses EXCEPT ![o] = @ + 1]
        /\ now' = now /\ login' = [login EXCEPT ![l].pc = "release"]
    BY <1>2, <2>2, <2>3 DEF EabReject, AuthTypes
  <2>5. /\ r.exists = row.exists /\ r.failed = row.failed + 1
        /\ r.failed >= MaxFailed => r.locked >= now
        /\ r.failed < MaxFailed => r.locked = row.locked
    BY <2>0, <2>3, FailRow
  <2>6. \E k \in Verifiers(o) : Verifiers(o)' \subseteq Verifiers(o) \ {k}
    <3>1. l \in Verifiers(o)
      BY <2>0, <2>2 DEF Verifiers
    <3>2. login'[l].pc = "release" /\ \A k \in Logins : k # l => login'[k] = login[k]
      <4> DEFINE N == [login[l] EXCEPT !.pc = "release"]
      <4>1. N.pc = "release"
        BY <2>0, LoginMoves
      <4>2. login' = [login EXCEPT ![l] = N]
        BY <2>4 DEF AuthTypes
      <4> HIDE DEF N
      <4> QED BY <4>1, <4>2 DEF AuthTypes
    <3>3. Verifiers(o)' \subseteq Verifiers(o) \ {l}
      BY <3>2 DEF Verifiers
    <3> QED BY <3>1, <3>3
  <2>7. operators'[o] = r /\ guesses'[o] = guesses[o] + 1 /\ \A p \in Ops : p # o => guesses'[p] = guesses[p]
    BY <2>4 DEF AuthTypes
  <2>8. Struck(o)
    BY <2>1, <2>2, <2>4, <2>5, <2>6, <2>7 DEF Struck
  <2> QED BY <2>4, <2>7, <2>8, OneCounter
<1>3. ASSUME NEW a \in Admins, NEW s \in sessions, NEW o \in Ops, unlock_operator(a, s, o)
      PROVE  CountersFrom
  <2>1. PICK row \in Row : row = operators[o]
    BY DEF AuthTypes
  <2>2. PICK r : r = reset_failed(row)
    OBVIOUS
  <2>3. /\ operators' = [operators EXCEPT ![o] = r] /\ guesses' = [guesses EXCEPT ![o] = 0]
        /\ now' = now /\ row.exists
    BY <1>3, <2>1, <2>2 DEF unlock_operator, AuthTypes
  <2>4. r.exists
    BY <2>2, <2>3, ResetRow
  <2>5. Cleared(o)
    BY <2>3, <2>4 DEF Cleared, AuthTypes
  <2>6. \A p \in Ops : p # o => guesses'[p] = guesses[p]
    BY <2>3 DEF AuthTypes
  <2> QED BY <2>3, <2>5, <2>6, OneCounter
<1>4. ASSUME NEW a \in Admins, NEW s \in sessions, NEW o \in Ops, NEW role \in Roles, NEW ca \in Scopes,
             post_operators(a, s, o, role, ca)
      PROVE  CountersFrom
  <2>1. PICK r : r = NewRow(role, ca)
    OBVIOUS
  <2>2. /\ operators' = [operators EXCEPT ![o] = r] /\ guesses' = guesses /\ now' = now
        /\ ~operators[o].exists
    BY <1>4, <2>1 DEF post_operators
  <2>3. r.exists
    BY <2>1, NewRowTyped
  <2>4. guesses[o] = 0
    <3>1. guesses[o] <= 0 /\ guesses[o] \in Nat
      BY <2>2 DEF LockInv, AuthTypes
    <3> QED BY <3>1
  <2>5. Cleared(o)
    BY <2>2, <2>3, <2>4 DEF Cleared, AuthTypes
  <2> QED BY <2>2, <2>5, OneCounter
<1>5. ASSUME NEW a \in Admins, PatchWrite(a) PROVE CountersFrom
  <2>1. PICK o \in Ops, active \in BOOLEAN, row \in Row :
          o = adm[a].op /\ active = adm[a].active /\ row = operators[o]
    BY <1>5, AdmFields DEF PatchWrite, AuthTypes
  <2>2. PICK r : r = set_active(row, active) /\ operators' = [operators EXCEPT ![o] = r]
    BY <1>5, <2>1 DEF PatchWrite, AuthTypes
  <2>3. r.exists = row.exists /\ r.failed = row.failed /\ r.locked = row.locked
    BY <2>2, ActivateRow
  <2>4. guesses' = guesses /\ now' = now /\ operators'[o] = r
    BY <1>5, <2>2 DEF PatchWrite, AuthTypes
  <2>5. Quiet(o)
    BY <2>1, <2>3, <2>4 DEF Quiet
  <2> QED BY <2>2, <2>4, <2>5, OneCounter
<1>6. ASSUME NEW a \in Admins, PutWrite(a) PROVE CountersFrom
  <2>0. adm[a].pc = "put" /\ adm[a] \in AdmRec
    BY <1>6 DEF PutWrite, AuthTypes
  <2>1. PICK o \in Ops, role \in Roles \union {NoUpdate}, ca \in Scopes \union {NoUpdate}, ver \in Nat :
          o = adm[a].op /\ role = adm[a].role /\ ca = adm[a].ca /\ ver = adm[a].ver
    BY <2>0, AdmFields
  <2>2. PICK row \in Row : row = operators[o]
    BY DEF AuthTypes
  <2>3. PICK r : r = update(row, role, ca, ver) /\ operators' = [operators EXCEPT ![o] = r]
    BY <1>6, <2>1, <2>2 DEF PutWrite, AuthTypes
  <2>4. r.exists = row.exists /\ r.failed = row.failed /\ r.locked = row.locked
    BY <2>3, UpdateRow
  <2>5. guesses' = guesses /\ now' = now /\ operators'[o] = r
    BY <1>6, <2>3 DEF PutWrite, AuthTypes
  <2>6. Quiet(o)
    BY <2>2, <2>4, <2>5 DEF Quiet
  <2> QED BY <2>3, <2>5, <2>6, OneCounter
<1>7. CASE Tick
  <2>1. operators' = operators /\ now' = now + 1
    BY <1>7 DEF Tick
  <2>2. ASSUME NEW o \in Ops PROVE Quiet(o) \/ Cleared(o)
    <3>1. CASE operators[o].locked = now
      <4>1. guesses'[o] = 0
        BY <1>7, <3>1 DEF Tick
      <4>2. operators[o].exists \/ operators[o].failed = 0
        BY DEF LockInv
      <4> QED BY <2>1, <4>1, <4>2 DEF Cleared
    <3>2. CASE operators[o].locked # now
      <4>1. guesses'[o] = guesses[o]
        BY <1>7, <3>2 DEF Tick
      <4> QED BY <2>1, <3>2, <4>1 DEF Quiet
    <3> QED BY <3>1, <3>2
  <2> QED BY <2>2 DEF CountersFrom
<1>8. ASSUME NEW l \in Logins,
             \/ \E o \in Ops : LoginRead(l, o)
             \/ LoginSession(l)
             \/ \E o \in Ops, ts \in 0..budget.time, g \in BOOLEAN : EabReserve(l, o, ts, g)
             \/ EabLookup(l) \/ EabRelease(l) \/ EabAccept(l)
      PROVE  operators' = operators /\ guesses' = guesses /\ now' = now
  BY <1>8 DEF LoginRead, LoginSession, EabReserve, EabLookup, EabRelease, EabAccept
<1>9. ASSUME NEW a \in Admins, NEW s \in sessions, NEW o \in Ops,
             \/ \E active \in BOOLEAN : PatchCheck(a, s, o, active)
             \/ \E role \in Roles \union {NoUpdate}, ca \in Scopes \union {NoUpdate} :
                   PutCheck(a, s, o, role, ca)
      PROVE  operators' = operators /\ guesses' = guesses /\ now' = now
  BY <1>9 DEF PatchCheck, PutCheck, admin_rbac_gate
<1>10. ASSUME (\E a \in Admins : DropSessions(a)) \/ (\E s \in sessions : delete_session(s))
       PROVE  operators' = operators /\ guesses' = guesses /\ now' = now
  BY <1>10 DEF DropSessions, delete_session
<1> QED BY <1>0, <1>1, <1>2, <1>3, <1>4, <1>5, <1>6, <1>7, <1>8, <1>9, <1>10 DEF AuthNext

LEMMA LockInit == AuthInit => LockInv
<1> SUFFICES ASSUME AuthInit, NEW o \in Ops
             PROVE  /\ guesses[o] <= operators[o].failed
                    /\ operators[o].exists \/ operators[o].failed = 0
                    /\ operators[o].locked < now => guesses[o] < MaxFailed
                    /\ guesses[o] + Cardinality(Verifiers(o)) <= MaxFailed + Cardinality(Logins) - 1
  BY DEF LockInv
<1>1. guesses[o] = 0 /\ MaxFailed \in Nat \ {0}
  BY AdminAuthAssumption DEF AuthInit
<1>2. operators[o].failed = 0
  BY DEF AuthInit, NewRow, AbsentRow
<1> QED BY <1>1, <1>2, VerifiersCount

LEMMA LockInvCaps ==
    ASSUME AuthTypes, LockInv
    PROVE  FailuresLock
<1> SUFFICES ASSUME NEW o \in Ops PROVE guesses[o] <= MaxFailed + Cardinality(Logins) - 1
  BY DEF FailuresLock
<1>1. guesses[o] \in Nat /\ MaxFailed \in Nat
  BY AdminAuthAssumption DEF AuthTypes
<1>2. guesses[o] + Cardinality(Verifiers(o)) <= MaxFailed + Cardinality(Logins) - 1
  BY DEF LockInv
<1> QED BY <1>1, <1>2, VerifiersCount

-----------------------------------------------------------------------------
(* A signed message is used once.  As long as its timestamp is acceptable, *)
(* a message that is being handled or was accepted has its reservation,    *)
(* and no second request handles it.                                       *)
Covered(o, ts) == now - ts > EabWindow \/ \E n \in nonces : n.op = o /\ n.ts = ts
NoncesInWindow == \A n \in nonces : n.at \in Nat /\ n.ts \in Nat /\ n.ts - n.at <= EabWindow
MessagesCovered ==
    /\ \A l \in Logins : login[l].pc \in Busy => Covered(login[l].op, login[l].ts)
    /\ \A m \in accepted : m.ts \in Nat /\ Covered(m.op, m.ts)
OneHolder ==
    /\ \A l, k \in Logins : login[l].pc \in Busy /\ login[k].pc \in Busy /\ l # k =>
          ~(login[l].op = login[k].op /\ login[l].ts = login[k].ts)
    /\ \A l \in Logins, m \in accepted : login[l].pc \in Busy =>
          ~(login[l].op = m.op /\ login[l].ts = m.ts)
AcceptedOnce == \A m \in accepted : m.n = 0
EabInv == evicted \/ (NoncesInWindow /\ MessagesCovered /\ OneHolder /\ AcceptedOnce)

(* A step that touches neither the reservations nor the accepted messages. *)
LEMMA EabKept ==
    ASSUME AuthTypes, EabInv,
           \A l \in Logins : login'[l].pc \in Busy =>
               login[l].pc \in Busy /\ login'[l].op = login[l].op /\ login'[l].ts = login[l].ts,
           nonces' = nonces, accepted' = accepted, evicted' = evicted, now' \in {now, now + 1}
    PROVE  EabInv'
<1> SUFFICES ASSUME ~evicted PROVE (NoncesInWindow /\ MessagesCovered /\ OneHolder /\ AcceptedOnce)'
  BY DEF EabInv
<1>1. NoncesInWindow /\ MessagesCovered /\ OneHolder /\ AcceptedOnce
  BY DEF EabInv
<1>2. now \in Nat /\ EabWindow \in Nat
  BY BudgetFacts, AdminAuthAssumption
<1>3. ASSUME NEW o, NEW ts \in Nat, Covered(o, ts) PROVE Covered(o, ts)'
  <2>1. CASE now - ts > EabWindow
    <3>1. now' - ts > EabWindow
      <4>1. CASE now' = now
        BY <2>1, <4>1
      <4>2. CASE now' = now + 1
        BY <1>2, <1>3, <2>1, <4>2
      <4>3. now' = now \/ now' = now + 1
        OBVIOUS
      <4> QED BY <4>1, <4>2, <4>3
    <3> QED BY <3>1 DEF Covered
  <2>2. CASE \E n \in nonces : n.op = o /\ n.ts = ts
    BY <2>2 DEF Covered
  <2> QED BY <1>3, <2>1, <2>2 DEF Covered
<1>4. ASSUME NEW l \in Logins, login'[l].pc \in Busy
      PROVE  /\ login[l].pc \in Busy /\ login'[l].op = login[l].op /\ login'[l].ts = login[l].ts
             /\ login[l].ts \in Nat
  BY <1>4, LoginFields DEF AuthTypes, Busy
<1>5. MessagesCovered'
  <2>1. ASSUME NEW l \in Logins, login'[l].pc \in Busy PROVE Covered(login[l].op, login[l].ts)'
    <3>1. PICK o, ts : o = login[l].op /\ ts = login[l].ts /\ ts \in Nat
      BY <1>4, <2>1
    <3>2. Covered(o, ts)
      BY <1>1, <1>4, <2>1, <3>1 DEF MessagesCovered
    <3>3. Covered(o, ts)'
      BY <1>3, <3>1, <3>2
    <3> QED BY <1>4, <2>1, <3>1, <3>3
  <2>2. ASSUME NEW m \in accepted PROVE m.ts \in Nat /\ Covered(m.op, m.ts)'
    BY <1>1, <1>3, <2>2 DEF MessagesCovered
  <2> QED BY <2>1, <2>2 DEF MessagesCovered
<1>6. OneHolder'
  BY <1>1, <1>4 DEF OneHolder
<1> QED BY <1>1, <1>5, <1>6 DEF NoncesInWindow, AcceptedOnce

LEMMA EabAcceptKeeps ==
    ASSUME AuthTypes, EabInv, EabFrom, NEW l \in Logins, EabAccept(l)
    PROVE  EabInv'
<1> SUFFICES ASSUME ~evicted PROVE (NoncesInWindow /\ MessagesCovered /\ OneHolder /\ AcceptedOnce)'
  BY DEF EabInv, EabAccept
<1>0. /\ login[l].pc = "verify" /\ login[l] \in LoginRec /\ login[l].ts \in Nat
      /\ nonces' = nonces /\ now' = now /\ login' = [login EXCEPT ![l].pc = "session"]
  BY LoginFields DEF EabAccept, AuthTypes
<1>1. NoncesInWindow /\ MessagesCovered /\ OneHolder /\ AcceptedOnce
  BY DEF EabInv
<1>2. PICK o, ts : o = login[l].op /\ ts = login[l].ts /\ ts \in Nat
  BY <1>0
<1>3. {m \in accepted : m.op = o /\ m.ts = ts} = {}
  BY <1>0, <1>1, <1>2 DEF OneHolder, Busy
<1>4. PICK M : M = [op |-> o, ts |-> ts, n |-> 0]
  OBVIOUS
<1>5. accepted' = accepted \union {M}
  <2>1. Cardinality({m \in accepted : m.op = o /\ m.ts = ts}) = 0
    BY <1>3, FS_EmptySet
  <2> QED BY <1>2, <1>4, <2>1 DEF EabAccept
<1>6. M.op = o /\ M.ts = ts /\ M.n = 0
  BY <1>4
<1>7. login'[l].pc = "session" /\ \A k \in Logins : k # l => login'[k] = login[k]
  <2> DEFINE N == [login[l] EXCEPT !.pc = "session"]
  <2>1. N.pc = "session"
    BY <1>0, LoginMoves
  <2>2. login' = [login EXCEPT ![l] = N]
    BY <1>0 DEF AuthTypes
  <2> HIDE DEF N
  <2> QED BY <2>1, <2>2 DEF AuthTypes
<1>8. \A k \in Logins : login'[k].pc \in Busy => k # l
  BY <1>7 DEF Busy
<1>9. MessagesCovered'
  <2>1. \A p, t : Covered(p, t) => Covered(p, t)'
    BY <1>0 DEF Covered
  <2>2. Covered(o, ts)
    BY <1>0, <1>1, <1>2 DEF MessagesCovered, Busy
  <2>3. ASSUME NEW k \in Logins, login'[k].pc \in Busy PROVE Covered(login[k].op, login[k].ts)'
    <3>1. login'[k] = login[k]
      BY <1>7, <1>8, <2>3
    <3>2. Covered(login[k].op, login[k].ts)
      BY <1>1, <2>3, <3>1 DEF MessagesCovered
    <3> QED BY <1>0, <3>1, <3>2 DEF Covered
  <2>4. ASSUME NEW m \in accepted' PROVE m.ts \in Nat /\ Covered(m.op, m.ts)'
    <3>1. m.ts \in Nat /\ Covered(m.op, m.ts)
      BY <1>1, <1>2, <1>5, <1>6, <2>2, <2>4 DEF MessagesCovered
    <3> QED BY <1>0, <3>1 DEF Covered
  <2> QED BY <2>3, <2>4 DEF MessagesCovered
<1>10. OneHolder'
  <2>1. ASSUME NEW k \in Logins, NEW j \in Logins, login'[k].pc \in Busy, login'[j].pc \in Busy, k # j
        PROVE  ~(login'[k].op = login'[j].op /\ login'[k].ts = login'[j].ts)
    BY <1>1, <1>7, <1>8, <2>1 DEF OneHolder
  <2>2. ASSUME NEW k \in Logins, NEW m \in accepted', login'[k].pc \in Busy
        PROVE  ~(login'[k].op = m.op /\ login'[k].ts = m.ts)
    <3>1. k # l /\ login'[k] = login[k] /\ login[l].pc \in Busy
      BY <1>0, <1>7, <1>8, <2>2 DEF Busy
    <3>2. CASE m \in accepted
      BY <1>1, <2>2, <3>1, <3>2 DEF OneHolder
    <3>3. CASE m = M
      BY <1>1, <1>2, <1>6, <2>2, <3>1, <3>3 DEF OneHolder
    <3> QED BY <1>5, <3>2, <3>3
  <2> QED BY <2>1, <2>2 DEF OneHolder
<1>11. AcceptedOnce' /\ NoncesInWindow'
  BY <1>0, <1>1, <1>5, <1>6 DEF AcceptedOnce, NoncesInWindow
<1> QED BY <1>9, <1>10, <1>11

LEMMA EabReleaseKeeps ==
    ASSUME AuthTypes, EabInv, NEW l \in Logins, EabRelease(l)
    PROVE  EabInv'
<1> SUFFICES ASSUME ~evicted PROVE (NoncesInWindow /\ MessagesCovered /\ OneHolder /\ AcceptedOnce)'
  BY DEF EabInv, EabRelease
<1>0. /\ login[l].pc = "release" /\ now' = now /\ accepted' = accepted
      /\ login' = [login EXCEPT ![l] = IdleLogin]
      /\ nonces' = {n \in nonces : n.op # login[l].op \/ n.ts # login[l].ts}
  BY DEF EabRelease
<1>1. NoncesInWindow /\ MessagesCovered /\ OneHolder /\ AcceptedOnce
  BY DEF EabInv
<1>2. login'[l].pc = "idle" /\ \A k \in Logins : k # l => login'[k] = login[k]
  BY <1>0 DEF AuthTypes, IdleLogin
<1>3. \A k \in Logins : login'[k].pc \in Busy => k # l /\ login'[k] = login[k]
  BY <1>2 DEF Busy
<1>4. ASSUME NEW o, NEW ts, Covered(o, ts), ~(o = login[l].op /\ ts = login[l].ts)
      PROVE  Covered(o, ts)'
  BY <1>0, <1>4 DEF Covered
<1>5. MessagesCovered'
  <2>1. ASSUME NEW k \in Logins, login'[k].pc \in Busy PROVE Covered(login[k].op, login[k].ts)'
    <3>1. PICK o, ts : o = login[k].op /\ ts = login[k].ts
      OBVIOUS
    <3>2. Covered(o, ts) /\ ~(o = login[l].op /\ ts = login[l].ts)
      BY <1>0, <1>1, <1>3, <2>1, <3>1 DEF MessagesCovered, OneHolder, Busy
    <3>3. Covered(o, ts)'
      BY <1>4, <3>2
    <3> QED BY <1>3, <2>1, <3>1, <3>3
  <2>2. ASSUME NEW m \in accepted PROVE m.ts \in Nat /\ Covered(m.op, m.ts)'
    <3>1. Covered(m.op, m.ts) /\ m.ts \in Nat /\ ~(m.op = login[l].op /\ m.ts = login[l].ts)
      BY <1>0, <1>1, <2>2 DEF MessagesCovered, OneHolder, Busy
    <3> QED BY <1>4, <3>1
  <2> QED BY <1>0, <2>1, <2>2 DEF MessagesCovered
<1>6. OneHolder'
  BY <1>0, <1>1, <1>3 DEF OneHolder
<1> QED BY <1>0, <1>1, <1>5, <1>6 DEF NoncesInWindow, AcceptedOnce

(* An acceptable timestamp without a fresh entry is nobody's.              *)
LEMMA FreshCovers ==
    ASSUME AuthTypes, NoncesInWindow, NEW o, NEW ts \in Nat, Covered(o, ts), now - ts <= EabWindow
    PROVE  \E n \in Fresh : n.op = o /\ n.ts = ts
<1>1. now \in Nat /\ EabWindow \in Nat
  BY BudgetFacts, AdminAuthAssumption
<1>2. PICK n \in nonces : n.op = o /\ n.ts = ts
  BY <1>1 DEF Covered
<1>3. n.at \in Nat /\ ts - n.at <= EabWindow
  BY <1>2 DEF NoncesInWindow
<1>4. now - n.at <= 2 * EabWindow
  BY <1>1, <1>3
<1> QED BY <1>2, <1>4 DEF Fresh

LEMMA EabReserveKeeps ==
    ASSUME AuthTypes, EabInv, NEW l \in Logins, NEW o \in Ops, NEW ts \in 0..budget.time,
           NEW good \in BOOLEAN, EabReserve(l, o, ts, good)
    PROVE  EabInv'
<1> SUFFICES ASSUME ~evicted' PROVE (NoncesInWindow /\ MessagesCovered /\ OneHolder /\ AcceptedOnce)'
  BY DEF EabInv
<1>0. /\ login[l].pc = "idle" /\ now' = now /\ accepted' = accepted
      /\ now - ts <= EabWindow /\ ts - now <= EabWindow
      /\ ~ \E n \in Fresh : n.op = o /\ n.ts = ts
  BY DEF EabReserve
<1>1. ~evicted /\ ~(Cardinality(Fresh) >= EabNonceCap)
  BY DEF EabReserve
<1>2. PICK N : N = [op |-> o, ts |-> ts, at |-> now]
  OBVIOUS
<1>3. nonces' = Fresh \union {N}
  BY <1>1, <1>2 DEF EabReserve
<1>4. NoncesInWindow /\ MessagesCovered /\ OneHolder /\ AcceptedOnce
  BY <1>1 DEF EabInv
<1>5. N.op = o /\ N.ts = ts /\ N.at = now /\ ts \in Nat /\ now \in Nat /\ EabWindow \in Nat
  BY <1>2, BudgetFacts, AdminAuthAssumption
<1>6. login'[l].pc = "lookup" /\ login'[l].op = o /\ login'[l].ts = ts
  BY DEF EabReserve, AuthTypes
<1>7. \A k \in Logins : k # l => login'[k] = login[k]
  BY DEF EabReserve, AuthTypes
<1>8. ~Covered(o, ts)
  BY <1>0, <1>4, <1>5, FreshCovers
<1>9. ASSUME NEW p, NEW t \in Nat, Covered(p, t) PROVE Covered(p, t)'
  <2>1. CASE now - t > EabWindow
    BY <1>0, <2>1 DEF Covered
  <2>2. CASE now - t <= EabWindow
    <3>1. PICK n \in Fresh : n.op = p /\ n.ts = t
      BY <1>4, <1>9, <2>2, FreshCovers
    <3> QED BY <1>3, <3>1 DEF Covered
  <2> QED BY <1>5, <2>1, <2>2
<1>10. ASSUME NEW k \in Logins, k # l, login'[k].pc \in Busy
       PROVE  /\ login'[k] = login[k] /\ login[k].ts \in Nat /\ Covered(login[k].op, login[k].ts)
  BY <1>4, <1>7, <1>10, LoginFields DEF AuthTypes, Busy, MessagesCovered
<1>11. MessagesCovered'
  <2>1. ASSUME NEW k \in Logins, login'[k].pc \in Busy PROVE Covered(login[k].op, login[k].ts)'
    <3>1. CASE k = l
      BY <1>3, <1>5, <1>6, <3>1 DEF Covered
    <3>2. CASE k # l
      <4>1. PICK p, t : p = login[k].op /\ t = login[k].ts /\ t \in Nat
        BY <1>10, <2>1, <3>2
      <4>2. Covered(p, t)'
        BY <1>9, <1>10, <2>1, <3>2, <4>1
      <4> QED BY <1>10, <2>1, <3>2, <4>1, <4>2
    <3> QED BY <3>1, <3>2
  <2>2. ASSUME NEW m \in accepted PROVE m.ts \in Nat /\ Covered(m.op, m.ts)'
    <3>1. m.ts \in Nat /\ Covered(m.op, m.ts)
      BY <1>4, <2>2 DEF MessagesCovered
    <3> QED BY <1>9, <3>1
  <2> QED BY <1>0, <2>1, <2>2 DEF MessagesCovered
<1>12. OneHolder'
  <2>1. ASSUME NEW k \in Logins, k # l, login'[k].pc \in Busy
        PROVE  ~(login'[k].op = o /\ login'[k].ts = ts)
    BY <1>8, <1>10, <2>1
  <2>2. ASSUME NEW m \in accepted PROVE ~(m.op = o /\ m.ts = ts)
    BY <1>4, <1>8, <2>2 DEF MessagesCovered
  <2>3. ASSUME NEW k \in Logins, NEW j \in Logins, login'[k].pc \in Busy, login'[j].pc \in Busy, k # j
        PROVE  ~(login'[k].op = login'[j].op /\ login'[k].ts = login'[j].ts)
    <3>1. CASE k # l /\ j # l
      BY <1>4, <1>7, <2>3, <3>1 DEF OneHolder
    <3>2. CASE k = l
      BY <1>6, <2>1, <2>3, <3>2
    <3>3. CASE j = l
      BY <1>6, <2>1, <2>3, <3>3
    <3> QED BY <3>1, <3>2, <3>3
  <2>4. ASSUME NEW k \in Logins, NEW m \in accepted, login'[k].pc \in Busy
        PROVE  ~(login'[k].op = m.op /\ login'[k].ts = m.ts)
    <3>1. CASE k = l
      BY <1>6, <2>2, <3>1
    <3>2. CASE k # l
      BY <1>4, <1>7, <2>4, <3>2 DEF OneHolder
    <3> QED BY <3>1, <3>2
  <2> QED BY <1>0, <2>3, <2>4 DEF OneHolder
<1>13. NoncesInWindow'
  <2>1. ASSUME NEW n \in nonces' PROVE n.at \in Nat /\ n.ts \in Nat /\ n.ts - n.at <= EabWindow
    <3>1. CASE n \in Fresh
      BY <1>4, <3>1 DEF Fresh, NoncesInWindow
    <3>2. CASE n = N
      BY <1>0, <1>5, <3>2
    <3> QED BY <1>3, <2>1, <3>1, <3>2
  <2> QED BY <2>1 DEF NoncesInWindow
<1> QED BY <1>0, <1>4, <1>11, <1>12, <1>13 DEF AcceptedOnce

LEMMA EabInvKept ==
    ASSUME AuthTypes, EabInv, AuthNext
    PROVE  EabInv'
<1>1. EabFrom
  BY EabFromStep
<1>2. CASE \E l \in Logins : EabAccept(l)
  BY <1>1, <1>2, EabAcceptKeeps
<1>3. CASE \E l \in Logins : EabRelease(l)
  BY <1>3, EabReleaseKeeps
<1>4. CASE \E l \in Logins : Reserves(l)
  BY <1>4, EabReserveKeeps DEF Reserves
<1>5. CASE \E l \in Logins : EabLookup(l)
  <2> PICK l \in Logins : EabLookup(l)
    BY <1>5
  <2>1. /\ login[l].pc = "lookup" /\ nonces' = nonces /\ accepted' = accepted /\ evicted' = evicted
        /\ now' = now
    BY DEF EabLookup
  <2>2. \A k \in Logins : k # l => login'[k] = login[k]
    BY DEF EabLookup, AuthTypes
  <2>3. login'[l].pc \in Busy => login'[l].op = login[l].op /\ login'[l].ts = login[l].ts
    <3>1. CASE Selected(login[l].op) /\ ~is_locked(operators[login[l].op])
      BY <3>1 DEF EabLookup, AuthTypes
    <3>2. CASE ~(Selected(login[l].op) /\ ~is_locked(operators[login[l].op]))
      <4>1. login'[l] = IdleLogin
        BY <3>2 DEF EabLookup, AuthTypes
      <4> QED BY <4>1 DEF Busy, IdleLogin
    <3> QED BY <3>1, <3>2
  <2>4. \A k \in Logins : login'[k].pc \in Busy =>
          login[k].pc \in Busy /\ login'[k].op = login[k].op /\ login'[k].ts = login[k].ts
    BY <2>1, <2>2, <2>3 DEF Busy
  <2> QED BY <2>1, <2>4, EabKept
<1>6. CASE /\ \A l \in Logins : Keeps(login[l], login'[l])
           /\ ~ \E l \in Logins : EabAccept(l) \/ EabRelease(l) \/ Reserves(l)
  <2>1. nonces' = nonces /\ accepted' = accepted /\ evicted' = evicted /\ now' \in {now, now + 1}
    <3>1. ASSUME NEW l \in Logins,
                 \/ \E o \in Ops : LoginRead(l, o)
                 \/ LoginReset(l) \/ LoginSession(l) \/ EabLookup(l) \/ EabReject(l)
          PROVE  nonces' = nonces /\ accepted' = accepted /\ evicted' = evicted /\ now' = now
      BY <3>1 DEF LoginRead, LoginReset, LoginSession, EabLookup, EabReject
    <3>2. ASSUME NEW a \in Admins, NEW s \in sessions, NEW o \in Ops,
                 \/ \E role \in Roles, ca \in Scopes : post_operators(a, s, o, role, ca)
                 \/ \E active \in BOOLEAN : PatchCheck(a, s, o, active)
                 \/ \E role \in Roles \union {NoUpdate}, ca \in Scopes \union {NoUpdate} :
                       PutCheck(a, s, o, role, ca)
                 \/ unlock_operator(a, s, o)
          PROVE  nonces' = nonces /\ accepted' = accepted /\ evicted' = evicted /\ now' = now
      BY <3>2 DEF post_operators, PatchCheck, PutCheck, unlock_operator, admin_rbac_gate
    <3>3. ASSUME \/ \E a \in Admins : PatchWrite(a) \/ PutWrite(a) \/ DropSessions(a)
                 \/ \E s \in sessions : delete_session(s)
          PROVE  nonces' = nonces /\ accepted' = accepted /\ evicted' = evicted /\ now' = now
      BY <3>3 DEF PatchWrite, PutWrite, DropSessions, delete_session
    <3>4. CASE Tick
      BY <3>4 DEF Tick
    <3> QED BY <1>6, <3>1, <3>2, <3>3, <3>4 DEF AuthNext, Reserves
  <2> QED BY <1>6, <2>1, EabKept DEF Keeps
<1> QED BY <1>1, <1>2, <1>3, <1>4, <1>5, <1>6 DEF EabFrom

LEMMA EabInit == AuthInit => EabInv
<1> SUFFICES ASSUME AuthInit PROVE EabInv
  OBVIOUS
<1>1. nonces = {} /\ accepted = {} /\ \A l \in Logins : login[l].pc = "idle"
  BY DEF AuthInit, IdleLogin
<1> QED BY <1>1 DEF EabInv, NoncesInWindow, MessagesCovered, OneHolder, AcceptedOnce, Busy

LEMMA ScopeInit == AuthInit => ScopeInv
<1> SUFFICES ASSUME AuthInit PROVE ScopeInv
  OBVIOUS
<1>1. \A o \in Ops : operators[o].role = "administrator"
  BY DEF AuthInit, NewRow, AbsentRow
<1>2. \A a \in Admins : adm[a].pc = "idle"
  BY DEF AuthInit, IdleAdm
<1> QED BY <1>1, <1>2 DEF ScopeInv, PutsLawful, CaRaHasScope

LEMMA TypesAreOK ==
    ASSUME AuthTypes, SessionsCapped
    PROVE  AuthTypeOK
<1>1. \A o \in Ops : operators[o].role \in Roles /\ operators[o].ca \in Scopes
  BY DEF AuthTypes, Row
<1>2. \A s \in sessions : s.op \in Ops /\ s.role \in Roles /\ s.ca \in Scopes
  BY DEF AuthTypes, Session
<1> QED BY <1>1, <1>2 DEF AuthTypes, SessionsCapped, AuthTypeOK

AuthInv == AuthTypes /\ SessionsCapped /\ FollowInv /\ ScopeInv /\ LockInv /\ EabInv

(* For any operators, logins, administrators and limits: the session store *)
(* keeps its cap, a session carries its operator's role and scope until    *)
(* the change's drop, wrong signatures lock within max_failed_auth and the *)
(* requests in flight, a signed EAB message opens one session, and a       *)
(* registration authority keeps a scope (src/src/admin/auth/,              *)
(* src/src/routes/admin/operators.rs).                                     *)
THEOREM SessionsAreSound == AuthSpec => []SessionsSound
<1>1. AuthInit => AuthInv
  BY AuthInitTypes, FollowInit, ScopeInit, LockInit, EabInit DEF AuthInv
<1>2. AuthInv /\ [AuthNext]_authVars => AuthInv'
  <2> SUFFICES ASSUME AuthInv, [AuthNext]_authVars PROVE AuthInv'
    OBVIOUS
  <2>0. AuthTypes /\ SessionsCapped /\ FollowInv /\ ScopeInv /\ LockInv /\ EabInv /\ RowsExist
    BY DEF AuthInv, FollowInv
  <2>1. CASE AuthNext
    <3>1. AuthStep
      BY <2>0, <2>1, AuthNextStep
    <3>2. AuthTypes' /\ SessionsCapped'
      BY <3>1 DEF AuthStep
    <3>3. FollowInv'
      BY <2>0, <3>1, FollowInvKept
    <3>4. ScopeInv'
      BY <2>0, <2>1, ScopeInvKept
    <3>5. LockInv'
      BY <2>0, <2>1, <3>2, CountersStep, VerifiersStep, LockInvKept
    <3>6. EabInv'
      BY <2>0, <2>1, EabInvKept
    <3> QED BY <3>2, <3>3, <3>4, <3>5, <3>6 DEF AuthInv
  <2>2. CASE UNCHANGED authVars
    <3>1. AuthTypes' /\ SessionsCapped' /\ FollowInv'
      BY <2>0, <2>2, AuthStutter, FollowInvKept DEF AuthStep
    <3>2. /\ UNCHANGED <<now, operators, nonces, login, adm, accepted, evicted, guesses>>
      BY <2>2 DEF authVars
    <3>3. ScopeInv'
      BY <2>0, <3>2 DEF ScopeInv, PutsLawful, CaRaHasScope
    <3>4. LockInv'
      BY <2>0, <3>2 DEF LockInv, Verifiers
    <3>5. EabInv'
      BY <2>0, <3>2 DEF EabInv, NoncesInWindow, MessagesCovered, OneHolder, AcceptedOnce, Covered
    <3> QED BY <3>1, <3>3, <3>4, <3>5 DEF AuthInv
  <2> QED BY <2>1, <2>2
<1>3. AuthInv => SessionsSound
  <2> SUFFICES ASSUME AuthInv PROVE SessionsSound
    OBVIOUS
  <2>1. AuthTypeOK /\ FailuresLock
    BY TypesAreOK, LockInvCaps DEF AuthInv
  <2> QED BY <2>1 DEF AuthInv, FollowInv, ScopeInv, EabInv, AcceptedOnce, EabLoginOnce, SessionsSound
<1> QED BY <1>1, <1>2, <1>3, PTL DEF AuthSpec
=============================================================================
