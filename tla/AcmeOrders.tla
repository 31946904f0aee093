----------------------------- MODULE AcmeOrders -----------------------------
(***************************************************************************)
(* The order / authorization / challenge state machine of the ACME server *)
(* on a serializable database (SQLite: every write transaction is BEGIN    *)
(* IMMEDIATE, so a transaction is one step).                               *)
(*                                                                         *)
(* HTTP handlers, background validation tasks and the upstream-delegation  *)
(* poller are the actors.  A handler reads the read-only pool first and    *)
(* writes later; other actors may run between the two, and a dropped       *)
(* connection or a restart may end the handler at any await.               *)
(*                                                                         *)
(* Identifiers of rows are drawn from constant sets; which challenge       *)
(* belongs to which authorization, and which authorization to which order, *)
(* is fixed by constants, as new_order and new_authz fix it when they      *)
(* insert the rows.  All rows belong to one account and one CA.            *)
(***************************************************************************)
EXTENDS Naturals

CONSTANTS
  Orders, Authzs, Challs, Certs,
  Reqs,             \* finalize requests that may be in flight together
  Idents,           \* identifier values
  Null,             \* SQL NULL
  OrderOf,          \* authorizations.order_id; Null for a pre-authorization
  AuthzOf,          \* challenges.authz_id
  Kind,             \* how a challenge is validated, see Kinds
  Ident,            \* authorizations.identifier
  Ancestors,        \* Ancestors[i]: the ancestor domains of i
  SubdomainAuth,    \* authorizations with subdomain_auth_allowed = 1
  Delegated,        \* orders with a delegation_id
  Upstream,         \* TRUE iff [delegation_upstream] is configured
  Renewals,         \* orders that may carry `replaces`
  Expiring,         \* rows whose `expires` passes in this instance
  Coalesced,        \* TRUE iff writes go through the write coalescer
  MaxRespond,       \* bound: concurrent POSTs to one challenge
  MaxCrashes,       \* bound: restarts and dropped connections
  MaxDbErrors       \* bound: failed validation-result transactions

(* direct: http-01, dns-01, tls-alpn-01, dns-persist-01; payload:          *)
(* onion-csr-01, tkauth-01, whose request body is parsed after the flip to *)
(* processing; email: email-reply-00, decided later by the webhook.        *)
Kinds == {"direct", "payload", "email"}

ASSUME ConstantsAssumption ==
  /\ OrderOf \in [Authzs -> Orders \cup {Null}]
  /\ AuthzOf \in [Challs -> Authzs]
  /\ Kind \in [Challs -> Kinds]
  /\ Ident \in [Authzs -> Idents]
  /\ Ancestors \in [Idents -> SUBSET Idents]
  /\ SubdomainAuth \subseteq Authzs
  /\ Delegated \subseteq Orders
  /\ \A a \in Authzs : OrderOf[a] \notin Delegated
  /\ Upstream \in BOOLEAN /\ Coalesced \in BOOLEAN
  /\ MaxRespond \in Nat /\ MaxCrashes \in Nat /\ MaxDbErrors \in Nat

ASSUME NullAssumption == Null \notin Orders \cup Certs

VARIABLES
  order,      \* orders rows: status, certificate_id, replaces
  authz,      \* authorizations.status ("none": no row)
  chall,      \* challenges.status ("none": no row)
  cert,       \* certificates rows: order_id (Null: no row), replaced_by
  respond,    \* respond_challenge handlers between their read and their write
  task,       \* spawned validate_challenge tasks still running
  mailed,     \* email-reply-00 challenges whose challenge mail was sent
  fin,        \* in-flight finalize_order handlers
  signed,     \* certificates the CA has signed (UUID and serial are taken)
  expired,    \* rows whose `expires` lies in the past
  crashes, dbErrors

vars == <<order, authz, chall, cert, respond, task, mailed, fin, signed,
          expired, crashes, dbErrors>>

OrderStatus == {"none", "pending", "ready", "processing", "valid", "invalid"}
AuthzStatus == {"none", "pending", "valid", "invalid"}
ChallengeStatus == {"none", "pending", "processing", "valid", "invalid"}

TypeOK ==
  /\ order \in [Orders -> [status : OrderStatus, certificate_id : Certs \cup {Null},
                           replaces : Certs \cup {Null}]]
  /\ authz \in [Authzs -> AuthzStatus]
  /\ chall \in [Challs -> ChallengeStatus]
  /\ cert \in [Certs -> [order_id : Orders \cup {Null},
                         replaced_by : Orders \cup Certs \cup {Null}]]
  /\ respond \in [Challs -> Nat]
  /\ task \in [Challs -> Nat]
  /\ mailed \subseteq Challs
  /\ fin \in [Reqs -> [pc : {"idle", "resolved", "issued"},
                       order : Orders \cup {Null}, cert : Certs \cup {Null}]]
  /\ signed \subseteq Certs
  /\ expired \subseteq Orders \cup Authzs
  /\ crashes \in Nat
  /\ dbErrors \in Nat

IdleHandler == [pc |-> "idle", order |-> Null, cert |-> Null]

Init ==
  /\ order = [o \in Orders |-> [status |-> "none", certificate_id |-> Null, replaces |-> Null]]
  /\ authz = [a \in Authzs |-> "none"]
  /\ chall = [c \in Challs |-> "none"]
  /\ cert = [k \in Certs |-> [order_id |-> Null, replaced_by |-> Null]]
  /\ respond = [c \in Challs |-> 0]
  /\ task = [c \in Challs |-> 0]
  /\ mailed = {}
  /\ fin = [r \in Reqs |-> IdleHandler]
  /\ signed = {}
  /\ expired = {}
  /\ crashes = 0
  /\ dbErrors = 0

-----------------------------------------------------------------------------
(* Creating rows.                                                          *)

(* The authorization rows of order o. *)
RowsOf(o) == {a \in Authzs : OrderOf[a] = o /\ authz[a] # "none"}

(* orders::update_status, and orders::set_certificate once its guard holds. *)
UpdateStatus(o, s) ==
  [order EXCEPT ![o] = [status |-> s, certificate_id |-> order[o].certificate_id,
                        replaces |-> order[o].replaces]]

SetCertificate(o, k) ==
  [order EXCEPT ![o] = [status |-> "valid", certificate_id |-> k,
                        replaces |-> order[o].replaces]]

IssuedCerts == {k \in Certs : cert[k].order_id # Null}

(* Rows find_valid_subdomain_ancestor may return for a's identifier. *)
SubdomainAncestors(a) ==
  {b \in SubdomainAuth : /\ Ident[b] \in Ancestors[Ident[a]]
                         /\ authz[b] = "valid"
                         /\ b \notin expired}

(* new_order: identifiers covered by a valid ancestor get no row of their  *)
(* own.  A covering row whose order_id is NULL does not decode into        *)
(* AuthorizationRow (order_id: String) and fails the request, hence the    *)
(* demand for a covering row with an order.  p is the optional `replaces`. *)
NewOrder(o, p) ==
  LET wanted  == {a \in Authzs : OrderOf[a] = o}
      covered == {a \in wanted : SubdomainAncestors(a) # {}}
      planned == wanted \ covered
      ready   == o \in Delegated \/ (planned = {} /\ wanted # {})
  IN
  /\ order[o].status = "none"
  /\ wanted # {} \/ o \in Delegated
  /\ \A a \in covered : \E b \in SubdomainAncestors(a) : OrderOf[b] # Null
  /\ p # Null => o \in Renewals /\ p \in IssuedCerts /\ cert[p].replaced_by = Null
  /\ order' = [order EXCEPT ![o] = [status |-> IF ready THEN "ready" ELSE "pending",
                                    certificate_id |-> Null, replaces |-> p]]
  /\ authz' = [a \in Authzs |-> IF a \in planned THEN "pending" ELSE authz[a]]
  /\ chall' = [c \in Challs |-> IF AuthzOf[c] \in planned THEN "pending" ELSE chall[c]]
  /\ UNCHANGED <<cert, respond, task, mailed, fin, signed, expired, crashes, dbErrors>>

(* new_authz: a pre-authorization, unless a pending or valid one for the   *)
(* identifier exists (the request then returns that row, or fails).        *)
NewAuthz(a) ==
  /\ OrderOf[a] = Null /\ authz[a] = "none"
  /\ ~ \E b \in Authzs \ expired : Ident[b] = Ident[a] /\ authz[b] \in {"pending", "valid"}
  /\ authz' = [authz EXCEPT ![a] = "pending"]
  /\ chall' = [c \in Challs |-> IF AuthzOf[c] = a THEN "pending" ELSE chall[c]]
  /\ UNCHANGED <<order, cert, respond, task, mailed, fin, signed, expired, crashes, dbErrors>>

-----------------------------------------------------------------------------
(* Answering a challenge.                                                  *)

(* respond_challenge up to its write: the row read from db_ro.  A request  *)
(* that finds another status returns the current object and does nothing.  *)
RespondRead(c) ==
  /\ authz[AuthzOf[c]] = "pending"
  /\ chall[c] = "pending"
  /\ respond[c] < MaxRespond
  /\ respond' = [respond EXCEPT ![c] = @ + 1]
  /\ UNCHANGED <<order, authz, chall, cert, task, mailed, fin, signed, expired, crashes, dbErrors>>

(* UPDATE challenges SET status = 'processing' WHERE status = 'pending'. *)
SetProcessingIfPending(c) ==
  IF chall[c] = "pending" THEN [chall EXCEPT ![c] = "processing"] ELSE chall

(* Mutants: spawn without looking at rows_affected; flip without spawning; *)
(* a handler that writes without having read.                              *)
MutFlipAlwaysSpawns(c) ==
  /\ respond[c] > 0
  /\ respond' = [respond EXCEPT ![c] = @ - 1]
  /\ chall' = SetProcessingIfPending(c)
  /\ task' = [task EXCEPT ![c] = @ + 1]
  /\ UNCHANGED <<order, authz, cert, mailed, fin, signed, expired, crashes, dbErrors>>

MutFlipNeverSpawns(c) ==
  /\ respond[c] > 0
  /\ respond' = [respond EXCEPT ![c] = @ - 1]
  /\ chall' = SetProcessingIfPending(c)
  /\ UNCHANGED <<order, authz, cert, task, mailed, fin, signed, expired, crashes, dbErrors>>

MutFlipUnread(c) ==
  /\ chall[c] = "pending"
  /\ respond' = [respond EXCEPT ![c] = @ - 1]
  /\ chall' = SetProcessingIfPending(c)
  /\ task' = [task EXCEPT ![c] = @ + 1]
  /\ UNCHANGED <<order, authz, cert, mailed, fin, signed, expired, crashes, dbErrors>>

(* The write, and the spawn of the validation task when a row changed. *)
RespondFlip(c) ==
  /\ respond[c] > 0
  /\ respond' = [respond EXCEPT ![c] = @ - 1]
  /\ chall' = SetProcessingIfPending(c)
  /\ task' = [task EXCEPT ![c] = IF chall'[c] # chall[c] THEN @ + 1 ELSE @]
  /\ UNCHANGED <<order, authz, cert, mailed, fin, signed, expired, crashes, dbErrors>>

(* The write succeeds and the handler ends before it spawns: the payload   *)
(* of an onion-csr-01 or tkauth-01 response is rejected only now.          *)
RespondBadPayload(c) ==
  /\ Kind[c] = "payload"
  /\ respond[c] > 0
  /\ chall[c] = "pending"
  /\ respond' = [respond EXCEPT ![c] = @ - 1]
  /\ chall' = SetProcessingIfPending(c)
  /\ UNCHANGED <<order, authz, cert, task, mailed, fin, signed, expired, crashes, dbErrors>>

(* The client hangs up while the write is awaited: the write happens, the  *)
(* handler's future is dropped before it spawns.                           *)
RespondDropped(c) ==
  /\ respond[c] > 0
  /\ crashes < MaxCrashes
  /\ crashes' = crashes + 1
  /\ respond' = [respond EXCEPT ![c] = @ - 1]
  /\ chall' = SetProcessingIfPending(c)
  /\ UNCHANGED <<order, authz, cert, task, mailed, fin, signed, expired, dbErrors>>

-----------------------------------------------------------------------------
(* Recording a validation result: one transaction each.                    *)

(* Mutants of on_valid: the NOT EXISTS clause is missing; it is evaluated  *)
(* before the authorization row is updated.                                *)
MutOnValidAnyAuthz(c) ==
  LET a == AuthzOf[c]  o == OrderOf[a]  IN
  IF chall[c] = "processing"
  THEN /\ chall' = [chall EXCEPT ![c] = "valid"]
       /\ authz' = [authz EXCEPT ![a] = "valid"]
       /\ order' = IF o # Null THEN UpdateStatus(o, "ready") ELSE order
  ELSE UNCHANGED <<chall, authz, order>>

MutOnValidStaleCheck(c) ==
  LET a == AuthzOf[c]  o == OrderOf[a]  IN
  IF chall[c] = "processing"
  THEN /\ chall' = [chall EXCEPT ![c] = "valid"]
       /\ authz' = [authz EXCEPT ![a] = "valid"]
       /\ order' = IF o # Null /\ \A b \in RowsOf(o) : authz[b] = "valid"
                   THEN UpdateStatus(o, "ready")
                   ELSE order
  ELSE UNCHANGED <<chall, authz, order>>

(* on_valid: challenge, authorization, and the order when no authorization *)
(* row of it is left that is not valid.                                    *)
OnValid(c) ==
  LET a == AuthzOf[c]  o == OrderOf[a]  IN
  IF chall[c] = "processing"
  THEN /\ chall' = [chall EXCEPT ![c] = "valid"]
       /\ authz' = [authz EXCEPT ![a] = "valid"]
       /\ order' = IF o # Null /\ \A b \in RowsOf(o) : authz'[b] = "valid"
                   THEN UpdateStatus(o, "ready")
                   ELSE order
  ELSE UNCHANGED <<chall, authz, order>>

(* on_invalid_with_order: the same three rows, all unconditional once the  *)
(* challenge row changed.                                                  *)
OnInvalid(c) ==
  LET a == AuthzOf[c]  o == OrderOf[a]  IN
  IF chall[c] = "processing"
  THEN /\ chall' = [chall EXCEPT ![c] = "invalid"]
       /\ authz' = [authz EXCEPT ![a] = "invalid"]
       /\ order' = IF o # Null THEN UpdateStatus(o, "invalid") ELSE order
  ELSE UNCHANGED <<chall, authz, order>>

(* validate_challenge ends with a verdict. *)
TaskValid(c) ==
  /\ task[c] > 0 /\ Kind[c] # "email"
  /\ OnValid(c)
  /\ task' = [task EXCEPT ![c] = @ - 1]
  /\ UNCHANGED <<cert, respond, mailed, fin, signed, expired, crashes, dbErrors>>

TaskInvalid(c) ==
  /\ task[c] > 0
  /\ OnInvalid(c)
  /\ task' = [task EXCEPT ![c] = @ - 1]
  /\ UNCHANGED <<cert, respond, mailed, fin, signed, expired, crashes, dbErrors>>

(* The result transaction fails: the error is logged, the task ends. *)
TaskDbError(c) ==
  /\ task[c] > 0
  /\ dbErrors < MaxDbErrors
  /\ dbErrors' = dbErrors + 1
  /\ task' = [task EXCEPT ![c] = @ - 1]
  /\ UNCHANGED <<order, authz, chall, cert, respond, mailed, fin, signed, expired, crashes>>

(* send_challenge_email: the task ends, the challenge stays processing. *)
TaskSendEmail(c) ==
  /\ task[c] > 0 /\ Kind[c] = "email"
  /\ mailed' = mailed \cup {c}
  /\ task' = [task EXCEPT ![c] = @ - 1]
  /\ UNCHANGED <<order, authz, chall, cert, respond, fin, signed, expired, crashes, dbErrors>>

(* verify_response, called by the webhook for each delivered reply.  Both  *)
(* outcomes need the authorization row to decode, that is, an order.       *)
WebhookValid(c) ==
  /\ c \in mailed /\ chall[c] = "processing"
  /\ OrderOf[AuthzOf[c]] # Null
  /\ AuthzOf[c] \notin expired
  /\ OnValid(c)
  /\ UNCHANGED <<cert, respond, task, mailed, fin, signed, expired, crashes, dbErrors>>

WebhookInvalid(c) ==
  /\ c \in mailed /\ chall[c] = "processing"
  /\ OrderOf[AuthzOf[c]] # Null
  /\ OnInvalid(c)
  /\ UNCHANGED <<cert, respond, task, mailed, fin, signed, expired, crashes, dbErrors>>

-----------------------------------------------------------------------------
(* Finalizing an order.                                                    *)

(* resolve_order_and_authorize: the order row read from db_ro. *)
FinalizeResolve(r, o) ==
  /\ fin[r].pc = "idle"
  /\ order[o].status = "ready"
  /\ fin' = [fin EXCEPT ![r] = [pc |-> "resolved", order |-> o, cert |-> Null]]
  /\ UNCHANGED <<order, authz, chall, cert, respond, task, mailed, signed, expired, crashes, dbErrors>>

UpstreamIssues(o) == Upstream /\ o \in Delegated

(* maybe_handle_upstream_delegation: ready -> processing, or Conflict. *)
FinalizeDelegate(r) ==
  LET o == fin[r].order IN
  /\ fin[r].pc = "resolved"
  /\ UpstreamIssues(o)
  /\ order' = IF order[o].status = "ready" THEN UpdateStatus(o, "processing") ELSE order
  /\ fin' = [fin EXCEPT ![r] = IdleHandler]
  /\ UNCHANGED <<authz, chall, cert, respond, task, mailed, signed, expired, crashes, dbErrors>>

(* Profile, CSR, policy and CAA checks passed; the CA signs certificate k. *)
FinalizeIssue(r, k) ==
  /\ fin[r].pc = "resolved"
  /\ ~ UpstreamIssues(fin[r].order)
  /\ k \notin signed
  /\ signed' = signed \cup {k}
  /\ fin' = [fin EXCEPT ![r] = [pc |-> "issued", order |-> fin[r].order, cert |-> k]]
  /\ UNCHANGED <<order, authz, chall, cert, respond, task, mailed, expired, crashes, dbErrors>>

(* A check, the signer, the linter or the transaction fails, or the client *)
(* hangs up: the handler ends and the rows stay as they are.               *)
FinalizeReject(r) ==
  /\ fin[r].pc # "idle"
  /\ fin' = [fin EXCEPT ![r] = IdleHandler]
  /\ UNCHANGED <<order, authz, chall, cert, respond, task, mailed, signed, expired, crashes, dbErrors>>

(* Mutant of mark_replaced: without `replaced_by IS NULL`. *)
MutMarkReplacedAgain(k, o, p) ==
  [j \in Certs |-> IF j = k THEN [order_id |-> o, replaced_by |-> Null]
                   ELSE IF j = p THEN [order_id |-> cert[p].order_id, replaced_by |-> o] ELSE cert[j]]

(* certs::insert of row k for order o and certs::mark_replaced of the      *)
(* predecessor p: the first writer of replaced_by wins.                    *)
InsertAndMarkReplaced(k, o, p) ==
  [j \in Certs |->
     IF j = k THEN [order_id |-> o, replaced_by |-> Null]
     ELSE IF j = p /\ cert[p].replaced_by = Null
          THEN [order_id |-> cert[p].order_id, replaced_by |-> IF Coalesced THEN k ELSE o]
          ELSE cert[j]]

(* Mutant of persist_certificate: no `AND status = 'ready'`. *)
MutPersistUnguarded(r) ==
  LET o == fin[r].order  k == fin[r].cert IN
  /\ fin[r].pc = "issued"
  /\ order' = SetCertificate(o, k)
  /\ cert' = InsertAndMarkReplaced(k, o, order[o].replaces)
  /\ fin' = [fin EXCEPT ![r] = IdleHandler]
  /\ UNCHANGED <<authz, chall, respond, task, mailed, signed, expired, crashes, dbErrors>>

(* persist_certificate: one transaction, rolled back when set_certificate  *)
(* no longer finds the order ready.                                        *)
FinalizePersist(r) ==
  LET o == fin[r].order  k == fin[r].cert IN
  /\ fin[r].pc = "issued"
  /\ IF order[o].status = "ready"
     THEN /\ order' = SetCertificate(o, k)
          /\ cert' = InsertAndMarkReplaced(k, o, order[o].replaces)
     ELSE UNCHANGED <<order, cert>>
  /\ fin' = [fin EXCEPT ![r] = IdleHandler]
  /\ UNCHANGED <<authz, chall, respond, task, mailed, signed, expired, crashes, dbErrors>>

(* The delegation poller stores the upstream CA's certificate ...  *)
UpstreamComplete(o, k) ==
  /\ order[o].status = "processing"
  /\ k \notin signed
  /\ signed' = signed \cup {k}
  /\ order' = SetCertificate(o, k)
  /\ cert' = [cert EXCEPT ![k] = [order_id |-> o, replaced_by |-> Null]]
  /\ UNCHANGED <<authz, chall, respond, task, mailed, fin, expired, crashes, dbErrors>>

(* ... or gives up: the order expired or the upstream order is invalid. *)
UpstreamFail(o) ==
  /\ order[o].status = "processing"
  /\ order' = UpdateStatus(o, "invalid")
  /\ UNCHANGED <<authz, chall, cert, respond, task, mailed, fin, signed, expired, crashes, dbErrors>>

-----------------------------------------------------------------------------
(* Environment.                                                            *)

Expire(x) ==
  /\ x \notin expired
  /\ \/ x \in Orders /\ order[x].status # "none"
     \/ x \in Authzs /\ authz[x] # "none"
  /\ expired' = expired \cup {x}
  /\ UNCHANGED <<order, authz, chall, cert, respond, task, mailed, fin, signed, crashes, dbErrors>>

(* Restart: handlers and spawned tasks are gone, the database stays. *)
Crash ==
  /\ crashes < MaxCrashes
  /\ crashes' = crashes + 1
  /\ respond' = [c \in Challs |-> 0]
  /\ task' = [c \in Challs |-> 0]
  /\ fin' = [r \in Reqs |-> IdleHandler]
  /\ UNCHANGED <<order, authz, chall, cert, mailed, signed, expired, dbErrors>>

Next ==
  \/ \E o \in Orders, p \in Certs \cup {Null} : NewOrder(o, p)
  \/ \E a \in Authzs : NewAuthz(a)
  \/ \E c \in Challs :
       \/ RespondRead(c) \/ RespondFlip(c) \/ RespondBadPayload(c) \/ RespondDropped(c)
       \/ TaskValid(c) \/ TaskInvalid(c) \/ TaskDbError(c) \/ TaskSendEmail(c)
       \/ WebhookValid(c) \/ WebhookInvalid(c)
  \/ \E r \in Reqs :
       \/ \E o \in Orders : FinalizeResolve(r, o)
       \/ FinalizeDelegate(r)
       \/ \E k \in Certs : FinalizeIssue(r, k)
       \/ FinalizeReject(r)
       \/ FinalizePersist(r)
  \/ \E o \in Orders :
       \/ \E k \in Certs : UpstreamComplete(o, k)
       \/ UpstreamFail(o)
  \/ \E x \in Expiring : Expire(x)
  \/ Crash

Spec == Init /\ [][Next]_vars

(* The runtime keeps polling spawned tasks and accepted requests. *)
TaskEnds(c) == TaskValid(c) \/ TaskInvalid(c) \/ TaskDbError(c) \/ TaskSendEmail(c)

FairSpec ==
  /\ Spec
  /\ \A c \in Challs : WF_vars(TaskEnds(c)) /\ WF_vars(RespondFlip(c) \/ RespondBadPayload(c))

-----------------------------------------------------------------------------
(* Properties.                                                             *)

(* A challenge proved control of the identifier of authorization a. *)
Proved(a) == \E c \in Challs : AuthzOf[c] = a /\ chall[c] = "valid"

(* Identifier a of an order is authorized: by its own row, or (RFC 9444) by *)
(* a row for an ancestor domain with subdomain_auth_allowed.               *)
Authorized(a) ==
  \/ Proved(a)
  \/ \E b \in SubdomainAuth : Ident[b] \in Ancestors[Ident[a]] /\ Proved(b)

(* finalize_order (finalize.rs), on_valid (validation/mod.rs) and the      *)
(* ancestor reuse of new_order (order.rs) together: a certificate row      *)
(* exists only if every identifier of its order is authorized by a         *)
(* successful challenge, whatever the interleaving of validation tasks,    *)
(* duplicate POSTs, failed sibling challenges, restarts and finalizations. *)
IssuedOnlyAfterProof ==
  \A k \in IssuedCerts : \A a \in Authzs : OrderOf[a] = cert[k].order_id => Authorized(a)

(* set_processing_if_pending (db/challenges.rs) lets one of several        *)
(* concurrent POSTs spawn: a running task owns its challenge, it is the    *)
(* only task for it, and no mail is out for it.                            *)
OneTaskPerChallenge ==
  \A c \in Challs : task[c] > 0 => /\ task[c] = 1
                                   /\ chall[c] = "processing"
                                   /\ c \notin mailed

(* The step to ready in on_valid: an order that waits has an authorization *)
(* row that is not valid yet, so no pending order is forgotten when the    *)
(* last of several validations commits.                                    *)
NoForgottenOrder ==
  \A o \in Orders : order[o].status = "pending" => \E a \in RowsOf(o) : authz[a] # "valid"

(* Two challenges of one authorization of order o have both succeeded. *)
ProvedTwice(o) ==
  \E c, d \in Challs : /\ c # d /\ AuthzOf[c] = AuthzOf[d] /\ OrderOf[AuthzOf[c]] = o
                       /\ chall[c] = "valid" /\ chall[d] = "valid"

(* set_certificate's guard (db/orders.rs): an order is issued one          *)
(* certificate, whatever finalize requests race.  The one exception is an  *)
(* order that a second successful challenge of one of its authorizations   *)
(* put back to ready (on_valid does not look at the order's status).       *)
OneCertificatePerOrder ==
  \A j, k \in IssuedCerts :
    cert[j].order_id = cert[k].order_id => j = k \/ ProvedTwice(cert[j].order_id)

(* finalize.rs and the delegation poller: certificate_id of an order names *)
(* a row of this order, and a valid order has one.                         *)
ValidOrderHasItsCertificate ==
  \A o \in Orders :
    /\ order[o].status = "valid" => order[o].certificate_id # Null
    /\ order[o].certificate_id # Null => cert[order[o].certificate_id].order_id = o

(* Racing finalizations, the delegation poller and late verdicts together: *)
(* orders and certificate rows name each other, one to one.                *)
OrderKeepsItsCertificate == ValidOrderHasItsCertificate /\ OneCertificatePerOrder

(* The challenge lifecycle of on_valid and on_invalid: a verdict is final. *)
VerdictStands == \A c \in Challs : chall[c] \in {"valid", "invalid"} => chall'[c] = chall[c]

(* mark_replaced (db/certs.rs): the first successor of a certificate is    *)
(* final, though several orders may name the same predecessor.             *)
ReplacementStands ==
  \A k \in Certs : cert[k].replaced_by # Null => cert'[k].replaced_by = cert[k].replaced_by

(* No step of any actor revises a verdict or a recorded replacement.       *)
DecisionsStand == [][VerdictStands /\ ReplacementStands]_vars

(* respond_challenge spawns what it flips and validate_challenge always    *)
(* records a verdict: unless a restart, a dropped connection or a failed   *)
(* transaction intervenes, a challenge does not stay in processing (a bad  *)
(* payload and an unanswered mail leave the other kinds there).            *)
ValidationDecides ==
  \A c \in Challs :
    chall[c] = "processing" /\ Kind[c] = "direct"
      ~> chall[c] \in {"valid", "invalid"} \/ crashes > 0 \/ dbErrors > 0
=============================================================================
