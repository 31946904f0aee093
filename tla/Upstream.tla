------------------------------ MODULE Upstream ------------------------------
(***************************************************************************)
(* Issuance by somebody else.  The task of delegation_upstream.rs drives   *)
(* each delegated order through an order of its own at an upstream CA, and *)
(* ca/dogtag.rs enrols at a Dogtag CA inside finalize.  The remote servers *)
(* are external: their actions are what these clients can observe.         *)
(***************************************************************************)
EXTENDS Integers, FiniteSets

CONSTANTS
    UOrders,      \* delegated orders
    UpIds,        \* bound: orders at the upstream CA
    OrderTtl,     \* the orders' expires
    ListLimit,    \* LIMIT 200 of list_pending_delegation_orders
    Enrolments,   \* finalize attempts at a Dogtag CA
    MaxUpCrashes, \* bound: restarts
    MaxUpTime     \* bound: the clock

NoUrl == "none"
ASSUME UpstreamAssumption ==
    /\ {OrderTtl, ListLimit, MaxUpCrashes, MaxUpTime} \subseteq Nat /\ ListLimit > 0
    /\ NoUrl \notin UpIds

VARIABLES
    uclock,   \* unix_now
    uorder,   \* the order rows: status and upstream_order_url
    up,       \* external: the upstream CA's orders
    dns,      \* TXT records the deploy script has published
    drv,      \* the driving task: the rows it listed and where it is
    lost,     \* ghost: upstream orders whose URL was not recorded
    uncleaned,\* ghost: orders with a cleanup that failed
    enrol,    \* Dogtag enrolment attempts
    session,  \* external: Dogtag's login session is alive
    ucrashes

upVars == <<uclock, uorder, up, dns, drv, lost, uncleaned, enrol, session, ucrashes>>

IdleDrv == [pc |-> "idle"]
NoUp == [status |-> "absent"]
UpInit ==
    /\ uclock = 0
    /\ uorder = [o \in UOrders |-> [status |-> "ready", url |-> NoUrl, expires |-> OrderTtl]]
    /\ up = [u \in UpIds |-> NoUp]
    /\ dns = {} /\ drv = IdleDrv /\ lost = {} /\ uncleaned = {}
    /\ enrol = [e \in Enrolments |-> [pc |-> "idle", executed |-> 0]]
    /\ session = FALSE /\ ucrashes = 0

(* finalize hands the order over: ready -> processing, with its CSR.       *)
set_processing_with_csr_der(o) ==
    /\ uorder[o].status = "ready"
    /\ uorder' = [uorder EXCEPT ![o].status = "processing"]
    /\ UNCHANGED <<uclock, up, dns, drv, lost, uncleaned, enrol, session, ucrashes>>

-----------------------------------------------------------------------------
(* One round: at most ListLimit orders, one after the other.               *)
pending_delegation_orders == {o \in UOrders : uorder[o].status = "processing"}
RunOnce ==
    /\ drv.pc = "idle" /\ pending_delegation_orders # {}
    /\ \E S \in SUBSET pending_delegation_orders :
          /\ Cardinality(S) = IF Cardinality(pending_delegation_orders) < ListLimit
                              THEN Cardinality(pending_delegation_orders) ELSE ListLimit
          /\ drv' = [pc |-> "next", todo |-> S, now |-> uclock]
    /\ UNCHANGED <<uclock, uorder, up, dns, lost, uncleaned, enrol, session, ucrashes>>

At(pc, o) == drv.pc = pc /\ drv.order = o
Back == [pc |-> "next", todo |-> drv.todo, now |-> drv.now]
Go(pc, o) == [pc |-> pc, todo |-> drv.todo \ {o}, now |-> drv.now, order |-> o]

(* An expired order becomes invalid; any other is driven one step.         *)
(* Mutant: the expiry is not looked at.                                    *)
MutExpired(o) == FALSE
Expired(o) == drv.now > uorder[o].expires
DriveNext(o) ==
    /\ drv.pc = "next" /\ o \in drv.todo
    /\ IF Expired(o)
       THEN /\ uorder' = [uorder EXCEPT ![o].status = "invalid"]
            /\ drv' = [drv EXCEPT !.todo = @ \ {o}]
       ELSE /\ drv' = Go(IF uorder[o].url = NoUrl THEN "place" ELSE "read", o)
            /\ UNCHANGED uorder
    /\ UNCHANGED <<uclock, up, dns, lost, uncleaned, enrol, session, ucrashes>>
EndDrive ==
    /\ drv.pc = "next" /\ drv.todo = {} /\ drv' = IdleDrv
    /\ UNCHANGED <<uclock, uorder, up, dns, lost, uncleaned, enrol, session, ucrashes>>

(* drive_order, no URL yet: an upstream order is placed, then its URL is   *)
(* recorded.  An error anywhere in drive_order is traced and ends it.      *)
PlaceOrder2(o, u) ==
    /\ At("place", o) /\ up[u].status = "absent"
    /\ up' = [up EXCEPT ![u] = [status |-> "pending", of |-> o, authz |-> "pending"]]
    /\ drv' = [pc |-> "record", todo |-> drv.todo, now |-> drv.now, order |-> o, url |-> u]
    /\ UNCHANGED <<uclock, uorder, dns, lost, uncleaned, enrol, session, ucrashes>>
(* Mutant: the URL is not recorded.                                        *)
MutRecord(o, url) == uorder
set_upstream_order_url(o, url) == [uorder EXCEPT ![o].url = url]
RecordOrder2(o, ok) ==
    /\ At("record", o)
    /\ IF ok THEN uorder' = set_upstream_order_url(o, drv.url) /\ drv' = Go("read", o)
                  /\ UNCHANGED lost
       ELSE drv' = Back /\ lost' = lost \union {drv.url} /\ UNCHANGED uorder
    /\ UNCHANGED <<uclock, up, dns, uncleaned, enrol, session, ucrashes>>

(* get_order decides what is next; "processing" waits for the next round.  *)
ReadOrder2(o) ==
    /\ At("read", o)
    /\ LET s == up[uorder[o].url].status IN
       /\ drv' = CASE s = "pending" -> Go("authz", o)
                   [] s = "ready" -> Go("cleanup", o)
                   [] s = "valid" -> Go("complete", o)
                   [] OTHER -> Back
       /\ uorder' = IF s = "invalid" THEN [uorder EXCEPT ![o].status = "invalid"] ELSE uorder
    /\ UNCHANGED <<uclock, up, dns, lost, uncleaned, enrol, session, ucrashes>>

(* satisfy_authorizations: a valid authorization is cleaned up, a pending  *)
(* one has its record deployed, then its challenge is triggered.           *)
ReadAuthz2(o) ==
    /\ At("authz", o)
    /\ LET a == up[uorder[o].url].authz IN
       drv' = CASE a = "valid" -> Go("clean1", o) [] a = "pending" -> Go("deploy", o)
                [] OTHER -> Back
    /\ UNCHANGED <<uclock, uorder, up, dns, lost, uncleaned, enrol, session, ucrashes>>
run_deploy_script(o, ok) ==
    /\ At("deploy", o)
    /\ dns' \in IF ok THEN {dns \union {uorder[o].url}} ELSE {dns, dns \union {uorder[o].url}}
    /\ drv' = IF ok THEN Go("trigger", o) ELSE Back
    /\ UNCHANGED <<uclock, uorder, up, lost, uncleaned, enrol, session, ucrashes>>
TriggerChallenge(o) ==
    /\ At("trigger", o)
    /\ up' = IF up[uorder[o].url].authz = "pending"
             THEN [up EXCEPT ![uorder[o].url].authz = "checking"] ELSE up
    /\ drv' = Back
    /\ UNCHANGED <<uclock, uorder, dns, lost, uncleaned, enrol, session, ucrashes>>

(* Cleanup, before finalize or of a valid authorization; failures are only *)
(* traced.                                                                 *)
cleanup_all_authorizations(o, ok) ==
    /\ At("cleanup", o) \/ At("clean1", o)
    /\ dns' \in IF ok THEN {dns \ {uorder[o].url}} ELSE {dns, dns \ {uorder[o].url}}
    /\ uncleaned' = IF ok THEN uncleaned ELSE uncleaned \union {o}
    /\ drv' = IF drv.pc = "cleanup" THEN Go("finalize", o) ELSE Back
    /\ UNCHANGED <<uclock, uorder, up, lost, enrol, session, ucrashes>>

(* The answer may be lost, or already name the certificate.                *)
finalize_upstream(o) ==
    /\ At("finalize", o) /\ up[uorder[o].url].status = "ready"
    /\ \E s \in {"processing", "valid"} :
          /\ up' = [up EXCEPT ![uorder[o].url].status = s]
          /\ drv' \in {Back} \union (IF s = "valid" THEN {Go("complete", o)} ELSE {})
    /\ UNCHANGED <<uclock, uorder, dns, lost, uncleaned, enrol, session, ucrashes>>

(* complete_order: download, then one transaction inserts the certificate  *)
(* and completes the order.                                                *)
complete_order(o, ok) ==
    /\ At("complete", o) /\ drv' = Back
    /\ uorder' = IF ok /\ uorder[o].status = "processing"
                 THEN [uorder EXCEPT ![o].status = "valid"] ELSE uorder
    /\ UNCHANGED <<uclock, up, dns, lost, uncleaned, enrol, session, ucrashes>>

(* A request to the upstream CA fails before or after it took effect.      *)
DriveFails ==
    /\ drv.pc \in {"place", "read", "authz", "trigger", "finalize", "complete"}
    /\ drv' = Back
    /\ UNCHANGED <<uclock, uorder, up, dns, lost, uncleaned, enrol, session, ucrashes>>
LosePlaced(o, u) ==
    /\ At("place", o) /\ up[u].status = "absent"
    /\ up' = [up EXCEPT ![u] = [status |-> "pending", of |-> o, authz |-> "pending"]]
    /\ lost' = lost \union {u} /\ drv' = Back
    /\ UNCHANGED <<uclock, uorder, dns, uncleaned, enrol, session, ucrashes>>
UpCrash ==
    /\ drv.pc # "idle" /\ drv' = IdleDrv
    /\ ucrashes < MaxUpCrashes /\ ucrashes' = ucrashes + 1
    /\ lost' = IF drv.pc = "record" THEN lost \union {drv.url} ELSE lost
    /\ UNCHANGED <<uclock, uorder, up, dns, uncleaned, enrol, session>>

(* The upstream CA validates (only what it can see), rejects, and issues.  *)
UpstreamCA(u) ==
    /\ \/ /\ up[u].status = "pending" /\ up[u].authz = "checking"
          /\ \/ u \in dns /\ up' = [up EXCEPT ![u].authz = "valid", ![u].status = "ready"]
             \/ up' = [up EXCEPT ![u].authz = "invalid", ![u].status = "invalid"]
       \/ /\ up[u].status = "processing"
          /\ \E s \in {"valid", "invalid"} : up' = [up EXCEPT ![u].status = s]
    /\ UNCHANGED <<uclock, uorder, dns, drv, lost, uncleaned, enrol, session, ucrashes>>

-----------------------------------------------------------------------------
(* issue_certificate at Dogtag: one POST; an unauthorized answer leads to  *)
(* a login and one more POST; every other outcome ends the attempt.        *)
(* What the POST may have done at the CA, and what comes back.             *)
Executes(kind) == CASE kind = "ok" -> IF session THEN {1} ELSE {}
                    [] kind = "401" -> IF session THEN {} ELSE {0}
                    [] OTHER -> IF session THEN {0, 1} ELSE {0}
AfterPost(pc, kind) ==
    IF kind = "ok" THEN "retrieve"
    ELSE IF pc = "idle" /\ kind = "401" THEN "login" ELSE "failed"
post_with_login_retry(e, kind) ==
    /\ enrol[e].pc \in {"idle", "again"}
    /\ \E x \in Executes(kind) :
          enrol' = [enrol EXCEPT ![e].executed = @ + x, ![e].pc = AfterPost(enrol[e].pc, kind)]
    /\ UNCHANGED <<uclock, uorder, up, dns, drv, lost, uncleaned, session, ucrashes>>
login(e, ok) ==
    /\ enrol[e].pc = "login"
    /\ enrol' = [enrol EXCEPT ![e].pc = IF ok THEN "again" ELSE "failed"]
    /\ session' = (ok \/ session)
    /\ UNCHANGED <<uclock, uorder, up, dns, drv, lost, uncleaned, ucrashes>>
(* The answer names the certificate, or it is pending, rejected or         *)
(* malformed and the attempt fails; retrieval may fail too.                *)
retrieve_cert(e, ok) ==
    /\ enrol[e].pc = "retrieve"
    /\ enrol' = [enrol EXCEPT ![e].pc = IF ok THEN "issued" ELSE "failed"]
    /\ UNCHANGED <<uclock, uorder, up, dns, drv, lost, uncleaned, session, ucrashes>>
SessionEnds ==
    /\ session /\ session' = FALSE
    /\ \E e \in Enrolments : enrol[e].pc \notin {"issued", "failed"}
    /\ UNCHANGED <<uclock, uorder, up, dns, drv, lost, uncleaned, enrol, ucrashes>>

UpTick == /\ uclock < MaxUpTime /\ uclock' = uclock + 1
          /\ UNCHANGED <<uorder, up, dns, drv, lost, uncleaned, enrol, session, ucrashes>>

DriverStep ==
    \/ RunOnce \/ EndDrive \/ DriveFails
    \/ \E o \in UOrders :
         \/ DriveNext(o) \/ ReadOrder2(o) \/ ReadAuthz2(o) \/ TriggerChallenge(o)
         \/ finalize_upstream(o)
         \/ \E u \in UpIds : PlaceOrder2(o, u) \/ LosePlaced(o, u)
         \/ \E ok \in BOOLEAN : \/ RecordOrder2(o, ok) \/ run_deploy_script(o, ok)
                                \/ cleanup_all_authorizations(o, ok) \/ complete_order(o, ok)
DogtagNext ==
    \/ \E e \in Enrolments :
         \/ \E kind \in {"401", "timeout", "ok"} : post_with_login_retry(e, kind)
         \/ \E ok \in BOOLEAN : login(e, ok) \/ retrieve_cert(e, ok)
    \/ SessionEnds
UpNext ==
    \/ \E o \in UOrders : set_processing_with_csr_der(o)
    \/ DriverStep \/ UpCrash \/ UpTick
    \/ \E u \in UpIds : UpstreamCA(u)

UpSpec == UpInit /\ [][UpNext \/ DogtagNext]_upVars

-----------------------------------------------------------------------------
(* Every upstream order placed for an order is the one whose URL is stored *)
(* or about to be, unless the URL was lost with a crash, a failed write or *)
(* a lost answer (drive_order).                                            *)
UpstreamOrdersAccounted ==
    \A u \in UpIds : up[u].status # "absent" =>
        \/ u \in lost \/ uorder[up[u].of].url = u
        \/ drv.pc = "record" /\ drv.url = u

(* The published record is withdrawn by the time the order is valid,       *)
(* unless a cleanup failed: the record is deployed and withdrawn in        *)
(* different rounds, and a round may have deployed it twice (drive_order). *)
RecordsWithdrawn ==
    \A o \in UOrders : uorder[o].status = "valid" /\ o \notin uncleaned => uorder[o].url \notin dns

(* One finalize attempt enrols at most once at the Dogtag CA, whatever the *)
(* session and the timeouts do (post_with_login_retry).                    *)
EnrolsOnce == \A e \in Enrolments : enrol[e].executed <= 1

(* An order that was handed over is eventually valid or invalid: no error, *)
(* crash or longer list of orders keeps it processing past its expiry.     *)
HandedOverEnds ==
    \A o \in UOrders : (uorder[o].status = "processing") ~> (uorder[o].status \in {"valid", "invalid"})

(* Whatever is interrupted between two requests to the other CA: its orders, *)
(* the DNS records and the enrolments stay accounted for.                   *)
UpstreamAccounted == UpstreamOrdersAccounted /\ RecordsWithdrawn /\ EnrolsOnce
=============================================================================
