-------------------------- MODULE AcmeOrdersProofs --------------------------
(***************************************************************************)
(* Proofs about AcmeOrders, for every choice of its constants.             *)
(*                                                                         *)
(* The argument: rows are created with their parents (ForeignKeys), an     *)
(* authorization is valid only after one of its challenges (ValidProved),  *)
(* an identifier without a row of its own is covered by an ancestor        *)
(* (CoveredAuthorized), so that an order is ready or valid only when every *)
(* identifier is authorized (ReadyAuthorized).  A challenge verdict is     *)
(* final, hence "authorized" is stable and survives until a certificate is *)
(* persisted.                                                              *)
(*                                                                         *)
(* Three further invariants carry the other theorems: TaskInv (a task or   *)
(* an answered mail belongs to a challenge that was flipped, and the flip  *)
(* happens once), WaitInv (a pending order has a row that is not valid     *)
(* yet: the last verdict sees that it is the last), and CertInv (every row *)
(* of a certificate was signed for its order, a ready order's own rows are *)
(* valid, and an order with a certificate keeps one).                      *)
(***************************************************************************)
EXTENDS AcmeOrders, TLAPS

-----------------------------------------------------------------------------
(* The inductive invariant.                                                *)

ForeignKeys ==
  /\ \A c \in Challs : chall[c] # "none" => authz[AuthzOf[c]] # "none"
  /\ \A a \in Authzs : authz[a] # "none" /\ OrderOf[a] # Null => order[OrderOf[a]].status # "none"

HandlersTyped ==
  \A r \in Reqs : /\ fin[r].pc # "idle" => fin[r].order \in Orders
                  /\ fin[r].pc = "issued" => fin[r].cert \in Certs

ProcessingDelegated == \A o \in Orders : order[o].status = "processing" => o \in Delegated

Base == TypeOK /\ ForeignKeys /\ HandlersTyped /\ ProcessingDelegated

ValidProved == \A a \in Authzs : authz[a] = "valid" => Proved(a)

CoveredAuthorized ==
  \A a \in Authzs : OrderOf[a] # Null /\ order[OrderOf[a]].status # "none" /\ authz[a] = "none"
                    => Authorized(a)

ReadyAuthorized ==
  \A o \in Orders : order[o].status \in {"ready", "valid"} =>
    \A a \in Authzs : OrderOf[a] = o => Authorized(a)

ProofInv ==
  /\ Base
  /\ ValidProved
  /\ CoveredAuthorized
  /\ ReadyAuthorized
  /\ IssuedOnlyAfterProof
-----------------------------------------------------------------------------
(* The typed skeleton: TypeOK with the foreign keys of the schema, the     *)
(* locals of the finalize handler, and who may be `processing`.            *)

LEMMA BaseInit == Init => Base
  BY ConstantsAssumption
  DEF Init, Base, TypeOK, ForeignKeys, HandlersTyped, ProcessingDelegated, IdleHandler,
      OrderStatus, AuthzStatus, ChallengeStatus

(* A recorded verdict keeps the three row tables well-formed. *)
LEMMA VerdictRows ==
  ASSUME Base, NEW c \in Challs, OnValid(c) \/ OnInvalid(c)
  PROVE  /\ order' \in [Orders -> [status : OrderStatus, certificate_id : Certs \cup {Null},
                                  replaces : Certs \cup {Null}]]
         /\ authz' \in [Authzs -> AuthzStatus]
         /\ chall' \in [Challs -> ChallengeStatus]
         /\ ForeignKeys'
         /\ ProcessingDelegated'
<1> USE ConstantsAssumption DEF Base, TypeOK
<1> DEFINE a == AuthzOf[c]
           o == OrderOf[a]
<1>1. CASE chall[c] # "processing"
  BY <1>1 DEF OnValid, OnInvalid, ForeignKeys, ProcessingDelegated
<1>2. CASE chall[c] = "processing"
  <2>1. PICK v \in {"valid", "invalid"} : chall' = [chall EXCEPT ![c] = v]
                                       /\ authz' = [authz EXCEPT ![a] = v]
    BY <1>2 DEF OnValid, OnInvalid
  <2>2. \/ order' = order
        \/ /\ o \in Orders
           /\ \E s \in {"ready", "invalid"} : order' = UpdateStatus(o, s)
    BY <1>2 DEF OnValid, OnInvalid
  <2>3. /\ authz' \in [Authzs -> AuthzStatus]
        /\ chall' \in [Challs -> ChallengeStatus]
    BY <2>1 DEF AuthzStatus, ChallengeStatus
  <2>4. CASE order' = order
    BY <2>1, <2>3, <2>4, <1>2 DEF ForeignKeys, ProcessingDelegated
  <2>5. ASSUME o \in Orders, NEW s \in {"ready", "invalid"},
               order' = UpdateStatus(o, s)
        PROVE  /\ order' \in [Orders -> [status : OrderStatus, certificate_id : Certs \cup {Null},
                                        replaces : Certs \cup {Null}]]
               /\ ForeignKeys'
               /\ ProcessingDelegated'
    <3>1. order' \in [Orders -> [status : OrderStatus, certificate_id : Certs \cup {Null},
                                replaces : Certs \cup {Null}]]
      BY <2>5 DEF OrderStatus, UpdateStatus
    <3>2. \A x \in Orders : order'[x].status = IF x = o THEN s ELSE order[x].status
      BY <2>5 DEF UpdateStatus
    <3>3. ForeignKeys'
      BY <2>1, <2>3, <2>5, <3>2, <1>2 DEF ForeignKeys
    <3>4. QED
      BY <2>5, <3>1, <3>2, <3>3 DEF ProcessingDelegated
  <2>6. QED
    BY <2>2, <2>3, <2>4, <2>5
<1>3. QED
  BY <1>1, <1>2

(* Every step of every actor preserves the skeleton. *)
LEMMA BaseStep == Base /\ [Next]_vars => Base'
<1> SUFFICES ASSUME Base, [Next]_vars PROVE Base'
  OBVIOUS
<1> USE ConstantsAssumption, NullAssumption
        DEF Base, TypeOK, ForeignKeys, HandlersTyped, ProcessingDelegated, OrderStatus,
            AuthzStatus, ChallengeStatus, UpdateStatus, SetCertificate
<1>1. ASSUME NEW o \in Orders, NEW p \in Certs \cup {Null}, NewOrder(o, p) PROVE Base'
  BY <1>1 DEF NewOrder
<1>2. ASSUME NEW a \in Authzs, NewAuthz(a) PROVE Base'
  BY <1>2 DEF NewAuthz
<1>3. ASSUME NEW c \in Challs, RespondRead(c) PROVE Base'
  BY <1>3 DEF RespondRead
<1>4. ASSUME NEW c \in Challs, RespondFlip(c) PROVE Base'
  BY <1>4 DEF RespondFlip, SetProcessingIfPending
<1>5. ASSUME NEW c \in Challs, RespondBadPayload(c) PROVE Base'
  BY <1>5 DEF RespondBadPayload, SetProcessingIfPending
<1>5a. ASSUME NEW c \in Challs, RespondDropped(c) PROVE Base'
  BY <1>5a DEF RespondDropped, SetProcessingIfPending
<1>6. ASSUME NEW c \in Challs, TaskValid(c) PROVE Base'
  BY <1>6, VerdictRows DEF TaskValid
<1>7. ASSUME NEW c \in Challs, TaskInvalid(c) PROVE Base'
  BY <1>7, VerdictRows DEF TaskInvalid
<1>8. ASSUME NEW c \in Challs, TaskDbError(c) PROVE Base'
  BY <1>8 DEF TaskDbError
<1>9. ASSUME NEW c \in Challs, TaskSendEmail(c) PROVE Base'
  BY <1>9 DEF TaskSendEmail
<1>10. ASSUME NEW c \in Challs, WebhookValid(c) PROVE Base'
  BY <1>10, VerdictRows DEF WebhookValid
<1>11. ASSUME NEW c \in Challs, WebhookInvalid(c) PROVE Base'
  BY <1>11, VerdictRows DEF WebhookInvalid
<1>12. ASSUME NEW r \in Reqs, NEW o \in Orders, FinalizeResolve(r, o) PROVE Base'
  BY <1>12 DEF FinalizeResolve
<1>13. ASSUME NEW r \in Reqs, FinalizeDelegate(r) PROVE Base'
  BY <1>13 DEF FinalizeDelegate, IdleHandler, UpstreamIssues
<1>14. ASSUME NEW r \in Reqs, NEW k \in Certs, FinalizeIssue(r, k) PROVE Base'
  BY <1>14 DEF FinalizeIssue
<1>15. ASSUME NEW r \in Reqs, FinalizeReject(r) PROVE Base'
  BY <1>15 DEF FinalizeReject, IdleHandler
<1>16. ASSUME NEW r \in Reqs, FinalizePersist(r) PROVE Base'
  <2>1. fin' \in [Reqs -> [pc : {"idle", "resolved", "issued"},
                          order : Orders \cup {Null}, cert : Certs \cup {Null}]]
        /\ HandlersTyped'
    BY <1>16 DEF FinalizePersist, IdleHandler
  <2>2. CASE order[fin[r].order].status # "ready"
    BY <1>16, <2>1, <2>2 DEF FinalizePersist
  <2>3. CASE order[fin[r].order].status = "ready"
    <3> DEFINE o == fin[r].order
               k == fin[r].cert
    <3>1. o \in Orders /\ k \in Certs
      BY <1>16 DEF FinalizePersist
    <3>2. cert' = InsertAndMarkReplaced(k, o, order[o].replaces) /\ order' = SetCertificate(o, k)
      BY <1>16, <2>3 DEF FinalizePersist
    <3>3. cert' \in [Certs -> [order_id : Orders \cup {Null},
                             replaced_by : Orders \cup Certs \cup {Null}]]
      BY <3>1, <3>2 DEF InsertAndMarkReplaced
    <3>4. order' \in [Orders -> [status : OrderStatus, certificate_id : Certs \cup {Null},
                                replaces : Certs \cup {Null}]]
          /\ ForeignKeys' /\ ProcessingDelegated'
      BY <1>16, <3>1, <3>2 DEF FinalizePersist
    <3>5. QED
      BY <1>16, <2>1, <3>3, <3>4 DEF FinalizePersist
  <2>4. QED
    BY <2>2, <2>3
<1>17. ASSUME NEW o \in Orders, NEW k \in Certs, UpstreamComplete(o, k) PROVE Base'
  BY <1>17 DEF UpstreamComplete
<1>18. ASSUME NEW o \in Orders, UpstreamFail(o) PROVE Base'
  BY <1>18 DEF UpstreamFail
<1>19. ASSUME NEW x \in Expiring, Expire(x) PROVE Base'
  BY <1>19 DEF Expire
<1>20. CASE Crash
  BY <1>20 DEF Crash, IdleHandler
<1>21. CASE UNCHANGED vars
  BY <1>21 DEF vars
<1>22. QED
  BY <1>1, <1>2, <1>3, <1>4, <1>5, <1>5a, <1>6, <1>7, <1>8, <1>9, <1>10, <1>11, <1>12, <1>13,
     <1>14, <1>15, <1>16, <1>17, <1>18, <1>19, <1>20, <1>21 DEF Next

(* Type correctness of every reachable state (schema column domains and    *)
(* handler locals).                                                        *)
THEOREM TypeCorrect == Spec => []TypeOK
<1>1. Base => TypeOK
  BY DEF Base
<1>2. QED
  BY BaseInit, BaseStep, <1>1, PTL DEF Spec

-----------------------------------------------------------------------------
(* Verdicts are final, so a proof of control is never lost.                *)

(* No step of any actor changes a challenge that has its verdict. *)
LEMMA VerdictStep == Base /\ [Next]_vars => VerdictStands
<1> USE DEF VerdictStands
<1> SUFFICES ASSUME Base, [Next]_vars, NEW d \in Challs, chall[d] \in {"valid", "invalid"}
             PROVE  chall'[d] = chall[d]
  OBVIOUS
<1> USE ConstantsAssumption DEF Base, TypeOK
<1>1. ASSUME NEW o \in Orders, NEW p \in Certs \cup {Null}, NewOrder(o, p)
      PROVE  chall'[d] = chall[d]
  BY <1>1, NullAssumption DEF NewOrder, ForeignKeys
<1>2. ASSUME NEW a \in Authzs, NewAuthz(a) PROVE chall'[d] = chall[d]
  BY <1>2 DEF NewAuthz, ForeignKeys
<1>3. ASSUME NEW c \in Challs, RespondFlip(c) \/ RespondBadPayload(c) \/ RespondDropped(c)
      PROVE  chall'[d] = chall[d]
  BY <1>3 DEF RespondFlip, RespondBadPayload, RespondDropped, SetProcessingIfPending
<1>4. ASSUME NEW c \in Challs, OnValid(c) \/ OnInvalid(c) PROVE chall'[d] = chall[d]
  BY <1>4 DEF OnValid, OnInvalid
<1>5. CASE UNCHANGED chall
  BY <1>5
<1>6. QED
  BY <1>1, <1>2, <1>3, <1>4, <1>5
  DEF Next, vars, RespondRead, TaskValid, TaskInvalid, TaskDbError, TaskSendEmail, WebhookValid,
      WebhookInvalid, FinalizeResolve, FinalizeDelegate, FinalizeIssue, FinalizeReject,
      FinalizePersist, UpstreamComplete, UpstreamFail, Expire, Crash

LEMMA AuthorizedStable ==
  ASSUME Base, [Next]_vars, NEW a \in Authzs
  PROVE  /\ Proved(a) => Proved(a)'
         /\ Authorized(a) => Authorized(a)'
<1>1. \A b : Proved(b) => Proved(b)'
  BY VerdictStep DEF Proved, VerdictStands
<1>2. QED
  BY <1>1 DEF Authorized

-----------------------------------------------------------------------------
(* No certificate without proof of control.                                *)

LEMMA ProofInit == Init => ProofInv
<1>1. Init => ValidProved /\ CoveredAuthorized /\ ReadyAuthorized /\ IssuedOnlyAfterProof
  BY ConstantsAssumption
  DEF Init, ValidProved, CoveredAuthorized, ReadyAuthorized, IssuedOnlyAfterProof, IssuedCerts
<1>2. QED
  BY <1>1, BaseInit DEF ProofInv

(* An identifier found covered by new_order is authorized. *)
LEMMA CoverIsProof ==
  ASSUME Base, ValidProved, NEW a \in Authzs, SubdomainAncestors(a) # {}
  PROVE  Authorized(a)
  BY ConstantsAssumption DEF ValidProved, SubdomainAncestors, Authorized

(* Recording a verdict: the order becomes ready only with its last row. *)
LEMMA VerdictProof ==
  ASSUME ProofInv, [Next]_vars, NEW c \in Challs, OnValid(c) \/ OnInvalid(c), UNCHANGED cert
  PROVE  ValidProved' /\ CoveredAuthorized' /\ ReadyAuthorized' /\ IssuedOnlyAfterProof'
<1> DEFINE a == AuthzOf[c]
           o == OrderOf[a]
<1> USE ConstantsAssumption, NullAssumption DEF ProofInv, Base, TypeOK
<1>1. \A x \in Authzs : /\ Proved(x) => Proved(x)'
                        /\ Authorized(x) => Authorized(x)'
  BY AuthorizedStable
<1>2. IssuedOnlyAfterProof'
  BY <1>1 DEF IssuedOnlyAfterProof, IssuedCerts
<1>3. CASE chall[c] # "processing"
  BY <1>1, <1>2, <1>3 DEF OnValid, OnInvalid, ValidProved, CoveredAuthorized, ReadyAuthorized
<1>4. CASE chall[c] = "processing"
  <2>1. a \in Authzs /\ authz[a] # "none" /\ (o # Null => o \in Orders /\ order[o].status # "none")
    BY <1>4 DEF ForeignKeys
  <2>2. PICK v \in {"valid", "invalid"} : chall' = [chall EXCEPT ![c] = v]
                                       /\ authz' = [authz EXCEPT ![a] = v]
    BY <1>4 DEF OnValid, OnInvalid
  <2>3. ValidProved'
    <3>1. ASSUME NEW b \in Authzs, authz'[b] = "valid" PROVE Proved(b)'
      <4>1. CASE b = a
        BY <2>1, <2>2, <3>1, <4>1 DEF Proved
      <4>2. CASE b # a
        BY <2>2, <3>1, <4>2, <1>1 DEF ValidProved
      <4>3. QED
        BY <4>1, <4>2
    <3>2. QED
      BY <3>1 DEF ValidProved
  <2>4. \A x \in Orders : order'[x].status = order[x].status \/ (x = o /\ order[x].status # "none")
    BY <1>4, <2>1 DEF OnValid, OnInvalid, UpdateStatus
  <2>5. CoveredAuthorized'
    BY <1>1, <2>1, <2>2, <2>4 DEF CoveredAuthorized, AuthzStatus
  <2>6. ASSUME NEW x \in Orders, order'[x].status \in {"ready", "valid"},
               NEW b \in Authzs, OrderOf[b] = x
        PROVE  Authorized(b)'
    <3>1. CASE order'[x].status = order[x].status
      BY <1>1, <2>6, <3>1 DEF ReadyAuthorized
    <3>2. CASE order'[x].status # order[x].status
      <4>1. x = o /\ order[x].status # "none"
        BY <2>4, <3>2
      <4>2. \A y \in RowsOf(o) : authz'[y] = "valid"
        BY <1>4, <2>1, <2>6, <3>2, <4>1 DEF OnValid, OnInvalid, UpdateStatus
      <4>3. CASE authz[b] = "none"
        BY <1>1, <2>6, <4>1, <4>3 DEF CoveredAuthorized
      <4>4. CASE authz[b] # "none"
        <5>1. authz'[b] = "valid"
          BY <2>6, <4>1, <4>2, <4>4 DEF RowsOf
        <5>2. Proved(b)'
          BY <2>3, <5>1 DEF ValidProved
        <5>3. QED
          BY <5>2 DEF Authorized
      <4>5. QED
        BY <4>3, <4>4
    <3>3. QED
      BY <3>1, <3>2
  <2>7. ReadyAuthorized'
    BY <2>6 DEF ReadyAuthorized
  <2>8. QED
    BY <1>2, <2>3, <2>5, <2>7
<1>5. QED
  BY <1>3, <1>4

(* Every step of every actor preserves the invariant. *)
LEMMA ProofStep == ProofInv /\ [Next]_vars => ProofInv'
<1> SUFFICES ASSUME ProofInv, [Next]_vars PROVE ProofInv'
  OBVIOUS
<1> DEFINE Goal == ValidProved' /\ CoveredAuthorized' /\ ReadyAuthorized' /\ IssuedOnlyAfterProof'
<1> USE ConstantsAssumption, NullAssumption
<1>1. Base /\ Base'
  BY BaseStep DEF ProofInv
<1>2. \A x \in Authzs : /\ Proved(x) => Proved(x)'
                        /\ Authorized(x) => Authorized(x)'
  BY <1>1, AuthorizedStable
<1>3. ASSUME NEW o \in Orders, NEW p \in Certs \cup {Null}, NewOrder(o, p) PROVE Goal
  <2> DEFINE wanted  == {a \in Authzs : OrderOf[a] = o}
             covered == {a \in wanted : SubdomainAncestors(a) # {}}
  <2>1. ValidProved'
    BY <1>1, <1>2, <1>3 DEF NewOrder, ProofInv, ValidProved, Base, TypeOK
  <2>2. \A a \in covered : Authorized(a)'
    BY <1>1, <1>2, CoverIsProof DEF ProofInv
  <2>3. CoveredAuthorized'
    <3>1. ASSUME NEW a \in Authzs, OrderOf[a] # Null, order'[OrderOf[a]].status # "none",
                 authz'[a] = "none"
          PROVE  Authorized(a)'
      <4>1. CASE OrderOf[a] = o
        BY <1>1, <1>3, <2>2, <3>1, <4>1 DEF NewOrder, Base, TypeOK
      <4>2. CASE OrderOf[a] # o
        BY <1>1, <1>2, <1>3, <3>1, <4>2 DEF NewOrder, ProofInv, CoveredAuthorized, Base, TypeOK
      <4>3. QED
        BY <4>1, <4>2
    <3>2. QED
      BY <3>1 DEF CoveredAuthorized
  <2>4. ReadyAuthorized'
    <3>1. ASSUME NEW x \in Orders, order'[x].status \in {"ready", "valid"},
                 NEW a \in Authzs, OrderOf[a] = x
          PROVE  Authorized(a)'
      <4>1. CASE x = o
        <5>1. a \in covered
          BY <1>1, <1>3, <3>1, <4>1 DEF NewOrder, Base, TypeOK
        <5>2. QED
          BY <5>1, <2>2
      <4>2. CASE x # o
        BY <1>1, <1>2, <1>3, <3>1, <4>2 DEF NewOrder, ProofInv, ReadyAuthorized, Base, TypeOK
      <4>3. QED
        BY <4>1, <4>2
    <3>2. QED
      BY <3>1 DEF ReadyAuthorized
  <2>5. IssuedOnlyAfterProof'
    BY <1>2, <1>3 DEF NewOrder, ProofInv, IssuedOnlyAfterProof, IssuedCerts
  <2>6. QED
    BY <2>1, <2>3, <2>4, <2>5
<1>4. ASSUME NEW a \in Authzs, NewAuthz(a) PROVE Goal
  BY <1>1, <1>2, <1>4 DEF NewAuthz, ProofInv, ValidProved, CoveredAuthorized, ReadyAuthorized,
     IssuedOnlyAfterProof, IssuedCerts, Base, TypeOK
<1>5. ASSUME NEW c \in Challs, OnValid(c) \/ OnInvalid(c), UNCHANGED cert PROVE Goal
  BY <1>5, VerdictProof
<1>6. ASSUME NEW r \in Reqs, FinalizeDelegate(r) PROVE Goal
  BY <1>1, <1>2, <1>6 DEF FinalizeDelegate, UpdateStatus, ProofInv, ValidProved,
     CoveredAuthorized, ReadyAuthorized, IssuedOnlyAfterProof, IssuedCerts, Base, TypeOK,
     HandlersTyped
<1>7. ASSUME NEW r \in Reqs, FinalizePersist(r) PROVE Goal
  <2> DEFINE o == fin[r].order
             k == fin[r].cert
  <2>1. o \in Orders /\ k \in Certs
    BY <1>1, <1>7 DEF FinalizePersist, Base, HandlersTyped
  <2>2. UNCHANGED <<authz, chall>>
    BY <1>7 DEF FinalizePersist
  <2>3. CASE order[o].status # "ready"
    BY <1>2, <1>7, <2>2, <2>3 DEF FinalizePersist, ProofInv, ValidProved, CoveredAuthorized,
       ReadyAuthorized, IssuedOnlyAfterProof, IssuedCerts
  <2>4. CASE order[o].status = "ready"
    <3>1. order' = SetCertificate(o, k) /\ cert' = InsertAndMarkReplaced(k, o, order[o].replaces)
      BY <1>7, <2>4 DEF FinalizePersist
    <3>2. \A x \in Orders : order'[x].status = IF x = o THEN "valid" ELSE order[x].status
      BY <1>1, <2>1, <3>1 DEF SetCertificate, Base, TypeOK
    <3>3. \A j \in Certs : cert'[j].order_id = IF j = k THEN o ELSE cert[j].order_id
      BY <1>1, <2>1, <3>1 DEF InsertAndMarkReplaced, Base, TypeOK
    <3>4. ValidProved'
      BY <1>2, <2>2 DEF ProofInv, ValidProved
    <3>5. CoveredAuthorized'
      BY <1>2, <2>2, <2>4, <3>2 DEF ProofInv, CoveredAuthorized
    <3>6. ReadyAuthorized'
      BY <1>2, <2>4, <3>2 DEF ProofInv, ReadyAuthorized
    <3>7. \A a \in Authzs : OrderOf[a] = o => Authorized(a)'
      BY <1>2, <2>1, <2>4 DEF ProofInv, ReadyAuthorized
    <3>8. IssuedOnlyAfterProof'
      BY <1>2, <3>3, <3>7 DEF ProofInv, IssuedOnlyAfterProof, IssuedCerts
    <3>9. QED
      BY <3>4, <3>5, <3>6, <3>8
  <2>5. QED
    BY <2>3, <2>4
<1>8. ASSUME NEW o \in Orders, NEW k \in Certs, UpstreamComplete(o, k) PROVE Goal
  <2>1. \A a \in Authzs : OrderOf[a] # o
    BY <1>1, <1>8 DEF UpstreamComplete, Base, ProcessingDelegated
  <2>2. \A x \in Orders : x # o => order'[x].status = order[x].status
    BY <1>1, <1>8 DEF UpstreamComplete, SetCertificate, Base, TypeOK
  <2>3. \A j \in Certs : cert'[j].order_id = IF j = k THEN o ELSE cert[j].order_id
    BY <1>1, <1>8 DEF UpstreamComplete, Base, TypeOK
  <2>4. UNCHANGED <<authz, chall>>
    BY <1>8 DEF UpstreamComplete
  <2>5. IssuedOnlyAfterProof'
    BY <1>2, <2>1, <2>3 DEF ProofInv, IssuedOnlyAfterProof, IssuedCerts
  <2>6. QED
    BY <1>2, <2>1, <2>2, <2>4, <2>5 DEF ProofInv, ValidProved, CoveredAuthorized, ReadyAuthorized
<1>9. ASSUME NEW o \in Orders, UpstreamFail(o) PROVE Goal
  <2>1. \A x \in Orders : order'[x].status = IF x = o THEN "invalid" ELSE order[x].status
    BY <1>1, <1>9 DEF UpstreamFail, UpdateStatus, Base, TypeOK
  <2>2. order[o].status # "none" /\ UNCHANGED <<authz, chall, cert>>
    BY <1>9 DEF UpstreamFail
  <2>3. QED
    BY <1>2, <2>1, <2>2 DEF ProofInv, ValidProved, CoveredAuthorized, ReadyAuthorized,
       IssuedOnlyAfterProof, IssuedCerts
<1>10. ASSUME UNCHANGED <<order, authz, cert>> PROVE Goal
  <2>1. order' = order /\ authz' = authz /\ cert' = cert
    BY <1>10
  <2>2. ValidProved' /\ IssuedOnlyAfterProof'
    BY <1>2, <2>1 DEF ProofInv, ValidProved, IssuedOnlyAfterProof, IssuedCerts
  <2>3. CoveredAuthorized' /\ ReadyAuthorized'
    BY <1>2, <2>1 DEF ProofInv, CoveredAuthorized, ReadyAuthorized
  <2>4. QED
    BY <2>2, <2>3
<1>11. Goal
  BY <1>3, <1>4, <1>5, <1>6, <1>7, <1>8, <1>9, <1>10
  DEF Next, vars, RespondRead, RespondFlip, RespondBadPayload, RespondDropped, TaskValid, TaskInvalid,
      TaskDbError, TaskSendEmail, WebhookValid, WebhookInvalid, FinalizeResolve, FinalizeIssue,
      FinalizeReject, Expire, Crash
<1>12. QED
  BY <1>1, <1>11 DEF ProofInv

(* new_order's ancestor reuse, on_valid's NOT EXISTS, and the status check *)
(* of finalization, for any number of rows, requests and restarts: a       *)
(* certificate exists only if every identifier of its order is authorized. *)
THEOREM NoIssuanceWithoutProof == Spec => []IssuedOnlyAfterProof
<1>1. ProofInv => IssuedOnlyAfterProof
  BY DEF ProofInv
<1>2. QED
  BY ProofInit, ProofStep, <1>1, PTL DEF Spec

-----------------------------------------------------------------------------
(* One task per challenge.                                                 *)

(* A challenge whose mail is out was flipped by its one task. *)
MailedFlipped == \A c \in mailed : chall[c] \notin {"none", "pending"}

TaskInv == Base /\ OneTaskPerChallenge /\ MailedFlipped

(* new_order and new_authz insert challenges that no task or mail is about. *)
LEMMA FreshChallenges ==
  ASSUME Base, NEW c \in Challs,
         \/ \E o \in Orders, p \in Certs \cup {Null} : NewOrder(o, p)
         \/ \E a \in Authzs : NewAuthz(a)
  PROVE  chall'[c] = chall[c] \/ chall[c] = "none"
  BY ConstantsAssumption, NullAssumption
  DEF NewOrder, NewAuthz, Base, TypeOK, ForeignKeys

LEMMA TaskStep == TaskInv /\ [Next]_vars => TaskInv'
<1> SUFFICES ASSUME TaskInv, [Next]_vars PROVE OneTaskPerChallenge' /\ MailedFlipped'
  BY BaseStep DEF TaskInv
<1> USE DEF TaskInv, OneTaskPerChallenge, MailedFlipped, Base, TypeOK
<1>1. CASE \/ \E o \in Orders, p \in Certs \cup {Null} : NewOrder(o, p)
           \/ \E a \in Authzs : NewAuthz(a)
  <2>1. UNCHANGED <<task, mailed>>
    BY <1>1 DEF NewOrder, NewAuthz
  <2>2. QED
    BY <1>1, <2>1, FreshChallenges
<1>2. ASSUME NEW c \in Challs, RespondFlip(c) \/ RespondBadPayload(c) \/ RespondDropped(c)
      PROVE  OneTaskPerChallenge' /\ MailedFlipped'
  BY <1>2 DEF RespondFlip, RespondBadPayload, RespondDropped, SetProcessingIfPending
<1>3. ASSUME NEW c \in Challs, TaskValid(c) \/ TaskInvalid(c)
      PROVE  OneTaskPerChallenge' /\ MailedFlipped'
  BY <1>3 DEF TaskValid, TaskInvalid, OnValid, OnInvalid
<1>4. ASSUME NEW c \in Challs, TaskDbError(c) \/ TaskSendEmail(c)
      PROVE  OneTaskPerChallenge' /\ MailedFlipped'
  BY <1>4 DEF TaskDbError, TaskSendEmail
<1>5. ASSUME NEW c \in Challs, WebhookValid(c) \/ WebhookInvalid(c)
      PROVE  OneTaskPerChallenge' /\ MailedFlipped'
  BY <1>5 DEF WebhookValid, WebhookInvalid, OnValid, OnInvalid
<1>6. CASE Crash
  BY <1>6 DEF Crash
<1>7. CASE UNCHANGED <<chall, task, mailed>>
  BY <1>7
<1>8. QED
  BY <1>1, <1>2, <1>3, <1>4, <1>5, <1>6, <1>7
  DEF Next, vars, RespondRead, FinalizeResolve, FinalizeDelegate, FinalizeIssue, FinalizeReject,
      FinalizePersist, UpstreamComplete, UpstreamFail, Expire

(* The conditional UPDATE of set_processing_if_pending, for any number of  *)
(* concurrent POSTs, dropped connections and restarts: at most one         *)
(* validation runs for a challenge, and none beside an answered mail.      *)
THEOREM TasksAreExclusive == Spec => []OneTaskPerChallenge
<1>1. Init => TaskInv
  BY BaseInit DEF Init, TaskInv, OneTaskPerChallenge, MailedFlipped
<1>2. TaskInv => OneTaskPerChallenge
  BY DEF TaskInv
<1>3. QED
  BY <1>1, <1>2, TaskStep, PTL DEF Spec

-----------------------------------------------------------------------------
(* No order is forgotten.                                                  *)

WaitInv == Base /\ NoForgottenOrder

(* on_valid evaluates NOT EXISTS after its own update of the row, so the   *)
(* last verdict of an order always sees that it is the last.               *)
LEMMA VerdictWaits ==
  ASSUME WaitInv, NEW c \in Challs, OnValid(c) \/ OnInvalid(c)
  PROVE  NoForgottenOrder'
<1> DEFINE a == AuthzOf[c]
           o == OrderOf[a]
<1> USE ConstantsAssumption, NullAssumption DEF WaitInv, Base, TypeOK
<1>1. CASE chall[c] # "processing"
  BY <1>1 DEF OnValid, OnInvalid, NoForgottenOrder, RowsOf
<1>2. CASE chall[c] = "processing"
  <2>1. PICK v \in {"valid", "invalid"} : authz' = [authz EXCEPT ![a] = v]
    BY <1>2 DEF OnValid, OnInvalid
  <2>2. authz[a] # "none" /\ authz'[a] = v /\ \A b \in Authzs : b # a => authz'[b] = authz[b]
    BY <1>2, <2>1 DEF ForeignKeys
  <2>3. \A x \in Orders : RowsOf(x)' = RowsOf(x)
    BY <2>2 DEF RowsOf
  <2>4. \A x \in Orders : x # o => order'[x] = order[x]
    BY <1>2 DEF OnValid, OnInvalid, UpdateStatus
  <2>5. ASSUME NEW x \in Orders, order'[x].status = "pending"
        PROVE  \E b \in RowsOf(x)' : authz'[b] # "valid"
    <3>1. CASE x # o
      <4>1. PICK b \in RowsOf(x) : authz[b] # "valid"
        BY <2>4, <2>5, <3>1 DEF NoForgottenOrder
      <4>2. b # a /\ b \in Authzs
        BY <3>1, <4>1 DEF RowsOf
      <4>3. QED
        BY <2>2, <2>3, <4>1, <4>2
    <3>2. CASE x = o
      <4>1. OnValid(c) /\ ~ \A b \in RowsOf(o) : authz'[b] = "valid"
        BY <1>2, <2>5, <3>2 DEF OnValid, OnInvalid, UpdateStatus
      <4>2. QED
        BY <2>3, <3>2, <4>1
    <3>3. QED
      BY <3>1, <3>2
  <2>6. QED
    BY <2>5 DEF NoForgottenOrder
<1>3. QED
  BY <1>1, <1>2

LEMMA WaitStep == WaitInv /\ [Next]_vars => WaitInv'
<1> SUFFICES ASSUME WaitInv, [Next]_vars PROVE NoForgottenOrder'
  BY BaseStep DEF WaitInv
<1> USE ConstantsAssumption, NullAssumption DEF WaitInv, Base, TypeOK
<1>1. ASSUME NEW o \in Orders, NEW p \in Certs \cup {Null}, NewOrder(o, p)
      PROVE  NoForgottenOrder'
  <2> DEFINE wanted  == {a \in Authzs : OrderOf[a] = o}
             planned == wanted \ {a \in wanted : SubdomainAncestors(a) # {}}
  <2>1. order'[o].status = "pending" => planned # {}
    BY <1>1 DEF NewOrder
  <2>2. \A a \in Authzs : authz'[a] = IF a \in planned THEN "pending" ELSE authz[a]
    BY <1>1 DEF NewOrder
  <2>3. \A x \in Orders : x # o => order'[x] = order[x]
    BY <1>1 DEF NewOrder
  <2>4. ASSUME NEW x \in Orders, order'[x].status = "pending"
        PROVE  \E a \in RowsOf(x)' : authz'[a] # "valid"
    <3>1. CASE x = o
      <4>1. PICK a \in planned : TRUE
        BY <2>1, <2>4, <3>1
      <4>2. QED
        BY <2>2, <3>1, <4>1 DEF RowsOf
    <3>2. CASE x # o
      <4>1. PICK a \in RowsOf(x) : authz[a] # "valid"
        BY <2>3, <2>4, <3>2 DEF NoForgottenOrder
      <4>2. a \in RowsOf(x)' /\ authz'[a] = authz[a]
        BY <2>2, <3>2, <4>1 DEF RowsOf
      <4>3. QED
        BY <4>1, <4>2
    <3>3. QED
      BY <3>1, <3>2
  <2>5. QED
    BY <2>4 DEF NoForgottenOrder
<1>2. ASSUME NEW a \in Authzs, NewAuthz(a) PROVE NoForgottenOrder'
  BY <1>2 DEF NewAuthz, NoForgottenOrder, RowsOf
<1>3. ASSUME NEW c \in Challs, OnValid(c) \/ OnInvalid(c) PROVE NoForgottenOrder'
  BY <1>3, VerdictWaits
<1>4. ASSUME UNCHANGED authz,
             \A x \in Orders : order'[x].status = "pending" => order[x].status = "pending"
      PROVE  NoForgottenOrder'
  BY <1>4 DEF NoForgottenOrder, RowsOf
<1>5. ASSUME NEW r \in Reqs, FinalizeDelegate(r) \/ FinalizePersist(r) PROVE NoForgottenOrder'
  BY <1>4, <1>5 DEF FinalizeDelegate, FinalizePersist, UpdateStatus, SetCertificate, HandlersTyped
<1>6. ASSUME NEW o \in Orders, (\E k \in Certs : UpstreamComplete(o, k)) \/ UpstreamFail(o)
      PROVE  NoForgottenOrder'
  BY <1>4, <1>6 DEF UpstreamComplete, UpstreamFail, UpdateStatus, SetCertificate
<1>7. CASE UNCHANGED <<order, authz>>
  BY <1>4, <1>7
<1>8. QED
  BY <1>1, <1>2, <1>3, <1>5, <1>6, <1>7
  DEF Next, vars, RespondRead, RespondFlip, RespondBadPayload, RespondDropped, TaskValid,
      TaskInvalid, TaskDbError, TaskSendEmail, WebhookValid, WebhookInvalid, FinalizeResolve,
      FinalizeIssue, FinalizeReject, Expire, Crash

(* on_valid's step to ready: however the validations of one order commit,  *)
(* a pending order still waits for an authorization.                       *)
THEOREM NoOrderForgotten == Spec => []NoForgottenOrder
<1>1. Init => WaitInv
  BY BaseInit DEF Init, WaitInv, NoForgottenOrder
<1>2. WaitInv => NoForgottenOrder
  BY DEF WaitInv
<1>3. QED
  BY <1>1, <1>2, WaitStep, PTL DEF Spec

-----------------------------------------------------------------------------
(* Orders and certificate rows name each other.                            *)

(* A certificate is signed once, its row is written by the one handler     *)
(* that holds it, and nothing is said about a row before it exists.        *)
HasCert(o) == \E k \in Certs : cert[k].order_id = o

RowsSigned == IssuedCerts \subseteq signed

HeldCerts ==
  \A r \in Reqs : fin[r].pc = "issued" =>
    /\ fin[r].cert \in signed \ IssuedCerts
    /\ \A q \in Reqs : fin[q].pc = "issued" /\ fin[q].cert = fin[r].cert => q = r

BlankRows == \A k \in Certs : cert[k].order_id = Null => cert[k].replaced_by = Null

ReplacesIssued == \A o \in Orders : order[o].replaces # Null => order[o].replaces \in IssuedCerts

CertRows == RowsSigned /\ HeldCerts /\ BlankRows /\ ReplacesIssued

(* Where an order may stand once it has a certificate: on_valid can bring  *)
(* it back to ready only with a second proof of one authorization.         *)
ReadyRowsValid ==
  \A a \in Authzs : OrderOf[a] # Null /\ authz[a] # "none"
                    /\ order[OrderOf[a]].status \in {"ready", "valid"} => authz[a] = "valid"

IssuedRowsProved ==
  \A a \in Authzs : OrderOf[a] # Null /\ authz[a] # "none" /\ HasCert(OrderOf[a]) => Proved(a)

IssuedOrders ==
  \A o \in Orders : HasCert(o) =>
    /\ order[o].status \notin {"none", "pending"}
    /\ order[o].status \in {"ready", "processing"} => ProvedTwice(o)

CertInv ==
  /\ ProofInv
  /\ CertRows
  /\ ReadyRowsValid
  /\ IssuedRowsProved
  /\ IssuedOrders
  /\ OrderKeepsItsCertificate

(* Every step of every actor keeps the certificate rows in order, never    *)
(* reassigns a row, and never revises replaced_by.                         *)
LEMMA CertRowsStep ==
  ASSUME Base, CertRows, [Next]_vars
  PROVE  /\ CertRows'
         /\ \A k \in IssuedCerts : cert'[k].order_id = cert[k].order_id
         /\ ReplacementStands
<1> DEFINE Goal == /\ CertRows'
                   /\ \A k \in IssuedCerts : cert'[k].order_id = cert[k].order_id
                   /\ ReplacementStands
<1> USE ConstantsAssumption, NullAssumption DEF Base, TypeOK, CertRows
<1>1. ASSUME UNCHANGED <<cert, signed>>, HeldCerts', ReplacesIssued' PROVE Goal
  BY <1>1 DEF RowsSigned, BlankRows, IssuedCerts, ReplacementStands
<1>2. ASSUME NEW o \in Orders, NEW p \in Certs \cup {Null}, NewOrder(o, p) PROVE Goal
  <2>1. HeldCerts'
    BY <1>2 DEF NewOrder, HeldCerts, IssuedCerts
  <2>2. ReplacesIssued'
    BY <1>2 DEF NewOrder, ReplacesIssued, IssuedCerts
  <2>3. QED
    BY <1>1, <1>2, <2>1, <2>2 DEF NewOrder
<1>3. ASSUME NEW c \in Challs, OnValid(c) \/ OnInvalid(c), UNCHANGED <<cert, signed, fin>> PROVE Goal
  <2>1. \A x \in Orders : order'[x].replaces = order[x].replaces
    BY <1>3 DEF OnValid, OnInvalid, UpdateStatus
  <2>2. HeldCerts' /\ ReplacesIssued'
    BY <1>3, <2>1 DEF HeldCerts, ReplacesIssued, IssuedCerts
  <2>3. QED
    BY <1>1, <1>3, <2>2
<1>4. ASSUME NEW r \in Reqs, NEW o \in Orders, FinalizeResolve(r, o) PROVE Goal
  <2>1. HeldCerts' /\ ReplacesIssued'
    BY <1>4 DEF FinalizeResolve, HeldCerts, ReplacesIssued, IssuedCerts
  <2>2. QED
    BY <1>1, <1>4, <2>1 DEF FinalizeResolve
<1>5. ASSUME NEW r \in Reqs, FinalizeDelegate(r) PROVE Goal
  <2>1. HeldCerts'
    BY <1>5 DEF FinalizeDelegate, HeldCerts, IssuedCerts, IdleHandler
  <2>2. \A x \in Orders : order'[x].replaces = order[x].replaces
    BY <1>5 DEF FinalizeDelegate, UpdateStatus
  <2>3. QED
    BY <1>1, <1>5, <2>1, <2>2 DEF FinalizeDelegate, ReplacesIssued, IssuedCerts
<1>6. ASSUME NEW r \in Reqs, NEW k \in Certs, FinalizeIssue(r, k) PROVE Goal
  <2>1. HeldCerts'
    BY <1>6 DEF FinalizeIssue, HeldCerts, IssuedCerts, RowsSigned
  <2>2. QED
    BY <1>6, <2>1 DEF FinalizeIssue, RowsSigned, BlankRows, ReplacesIssued, IssuedCerts, ReplacementStands
<1>7. ASSUME NEW r \in Reqs, FinalizeReject(r) PROVE Goal
  <2>1. HeldCerts' /\ ReplacesIssued'
    BY <1>7 DEF FinalizeReject, HeldCerts, ReplacesIssued, IssuedCerts, IdleHandler
  <2>2. QED
    BY <1>1, <1>7, <2>1 DEF FinalizeReject
<1>8. ASSUME NEW r \in Reqs, FinalizePersist(r) PROVE Goal
  <2> DEFINE o == fin[r].order
             k == fin[r].cert
             p == order[o].replaces
  <2>1. /\ o \in Orders /\ k \in signed \ IssuedCerts /\ k \in Certs
        /\ \A q \in Reqs : q # r /\ fin[q].pc = "issued" => fin[q].cert # k
    BY <1>8 DEF FinalizePersist, HandlersTyped, HeldCerts
  <2>2. \A q \in Reqs : fin'[q] = IF q = r THEN IdleHandler ELSE fin[q]
    BY <1>8 DEF FinalizePersist
  <2>3. CASE order[o].status # "ready"
    <3>1. UNCHANGED <<order, cert, signed>>
      BY <1>8, <2>3 DEF FinalizePersist
    <3>2. HeldCerts' /\ ReplacesIssued'
      BY <2>2, <3>1 DEF HeldCerts, ReplacesIssued, IssuedCerts, IdleHandler
    <3>3. QED
      BY <1>1, <3>1, <3>2
  <2>4. CASE order[o].status = "ready"
    <3>1. /\ order' = SetCertificate(o, k) /\ signed' = signed
          /\ cert' = InsertAndMarkReplaced(k, o, p)
      BY <1>8, <2>4 DEF FinalizePersist
    <3>2. p # Null => p \in IssuedCerts /\ p # k
      BY <2>1 DEF ReplacesIssued
    <3>3. \A j \in Certs : cert'[j].order_id = IF j = k THEN o ELSE cert[j].order_id
      BY <2>1, <3>1 DEF InsertAndMarkReplaced
    <3>4. \A j \in Certs : cert'[j].replaced_by =
            IF j = k THEN Null
            ELSE IF j = p /\ cert[j].replaced_by = Null THEN (IF Coalesced THEN k ELSE o)
                 ELSE cert[j].replaced_by
      BY <2>1, <3>1 DEF InsertAndMarkReplaced
    <3>5. IssuedCerts' = IssuedCerts \cup {k}
      BY <2>1, <3>3 DEF IssuedCerts
    <3>6. cert[k].replaced_by = Null
      BY <2>1 DEF BlankRows, IssuedCerts
    <3>7. RowsSigned' /\ HeldCerts'
      <4>1. \A q \in Reqs : fin'[q].pc = "issued" => q # r /\ fin'[q] = fin[q]
        BY <2>2 DEF IdleHandler
      <4>2. HeldCerts'
        BY <2>1, <3>1, <3>5, <4>1 DEF HeldCerts
      <4>3. QED
        BY <2>1, <3>1, <3>5, <4>2 DEF RowsSigned
    <3>8. BlankRows'
      BY <2>1, <3>2, <3>3, <3>4 DEF BlankRows, IssuedCerts
    <3>9. \A x \in Orders : order'[x].replaces = order[x].replaces
      BY <2>1, <3>1 DEF SetCertificate
    <3>10. ReplacesIssued'
      BY <3>5, <3>9 DEF ReplacesIssued
    <3>11. ReplacementStands
      BY <3>4, <3>6 DEF ReplacementStands
    <3>12. \A j \in IssuedCerts : cert'[j].order_id = cert[j].order_id
      BY <2>1, <3>3 DEF IssuedCerts
    <3>13. QED
      BY <3>7, <3>8, <3>10, <3>11, <3>12
  <2>5. QED
    BY <2>3, <2>4
<1>9. ASSUME NEW o \in Orders, NEW k \in Certs, UpstreamComplete(o, k) PROVE Goal
  <2>1. /\ signed' = signed \cup {k} /\ fin' = fin /\ order' = SetCertificate(o, k)
        /\ k \notin signed /\ k \notin IssuedCerts
    BY <1>9 DEF UpstreamComplete, RowsSigned
  <2>2. \A j \in Certs : cert'[j] = IF j = k THEN [order_id |-> o, replaced_by |-> Null] ELSE cert[j]
    BY <1>9 DEF UpstreamComplete
  <2>3. IssuedCerts' = IssuedCerts \cup {k}
    BY <2>2 DEF IssuedCerts
  <2>4. \A x \in Orders : order'[x].replaces = order[x].replaces
    BY <2>1 DEF SetCertificate
  <2>5. RowsSigned' /\ HeldCerts'
    BY <2>1, <2>3 DEF RowsSigned, HeldCerts
  <2>6. BlankRows' /\ ReplacementStands
    <3>1. \A j \in Certs : /\ cert'[j].order_id = IF j = k THEN o ELSE cert[j].order_id
                           /\ cert'[j].replaced_by = IF j = k THEN Null ELSE cert[j].replaced_by
      BY <2>2
    <3>2. cert[k].replaced_by = Null
      BY <2>1 DEF BlankRows, IssuedCerts
    <3>3. QED
      BY <3>1, <3>2 DEF BlankRows, ReplacementStands
  <2>7. ReplacesIssued'
    BY <2>3, <2>4 DEF ReplacesIssued
  <2>8. QED
    BY <2>1, <2>2, <2>5, <2>6, <2>7 DEF IssuedCerts
<1>10. ASSUME NEW o \in Orders, UpstreamFail(o) PROVE Goal
  <2>1. \A x \in Orders : order'[x].replaces = order[x].replaces
    BY <1>10 DEF UpstreamFail, UpdateStatus
  <2>2. HeldCerts' /\ ReplacesIssued'
    BY <1>10, <2>1 DEF UpstreamFail, HeldCerts, ReplacesIssued, IssuedCerts
  <2>3. QED
    BY <1>1, <1>10, <2>2 DEF UpstreamFail
<1>11. CASE Crash
  <2>1. HeldCerts' /\ ReplacesIssued'
    BY <1>11 DEF Crash, HeldCerts, ReplacesIssued, IssuedCerts, IdleHandler
  <2>2. QED
    BY <1>1, <1>11, <2>1 DEF Crash
<1>12. CASE UNCHANGED <<order, cert, fin, signed>>
  <2>1. HeldCerts' /\ ReplacesIssued'
    BY <1>12 DEF HeldCerts, ReplacesIssued, IssuedCerts
  <2>2. QED
    BY <1>1, <1>12, <2>1
<1>13. QED
  BY <1>2, <1>3, <1>4, <1>5, <1>6, <1>7, <1>8, <1>9, <1>10, <1>11, <1>12
  DEF Next, vars, NewAuthz, RespondRead, RespondFlip, RespondBadPayload, RespondDropped, TaskValid,
      TaskInvalid, TaskDbError, TaskSendEmail, WebhookValid, WebhookInvalid, Expire

LEMMA CertRowsInit == Init => Base /\ CertRows
<1>1. Init => CertRows
  BY NullAssumption DEF Init, CertRows, RowsSigned, HeldCerts, BlankRows, ReplacesIssued, IssuedCerts,
     IdleHandler
<1>2. QED
  BY <1>1, BaseInit

(* The guards of on_valid, on_invalid and mark_replaced: no step of any    *)
(* actor revises a challenge's verdict or a certificate's first successor. *)
THEOREM DecisionsAreFinal == Spec => DecisionsStand
<1>1. Base /\ CertRows /\ [Next]_vars => (Base /\ CertRows)'
  BY BaseStep, CertRowsStep
<1>2. Base /\ CertRows /\ [Next]_vars => [VerdictStands /\ ReplacementStands]_vars
  BY VerdictStep, CertRowsStep
<1>3. QED
  BY CertRowsInit, <1>1, <1>2, PTL DEF Spec, DecisionsStand

(* Proofs of control are never lost, two of them neither. *)
LEMMA ProofsStable ==
  ASSUME Base, [Next]_vars
  PROVE  /\ \A a \in Authzs : Proved(a) => Proved(a)'
         /\ \A o \in Orders : ProvedTwice(o) => ProvedTwice(o)'
<1>1. \A o \in Orders : ProvedTwice(o) => ProvedTwice(o)'
  BY VerdictStep DEF ProvedTwice, VerdictStands
<1>2. QED
  BY <1>1, AuthorizedStable

(* Certificate k is stored as the certificate of order o. *)
Stores(o, k) ==
  /\ order[o].status \in {"ready", "processing"}
  /\ order' = SetCertificate(o, k)
  /\ cert[k].order_id = Null
  /\ \A j \in Certs : cert'[j].order_id = IF j = k THEN o ELSE cert[j].order_id
  /\ UNCHANGED <<authz, chall>>

(* No row is added, and no order gains or changes its certificate. *)
KeepsCerts ==
  /\ \A j \in Certs : cert'[j].order_id = cert[j].order_id
  /\ \A o \in Orders : /\ order'[o].certificate_id = order[o].certificate_id
                       /\ order'[o].status = "valid" => order[o].status = "valid"

LEMMA KeepsIsFine ==
  ASSUME CertInv, [Next]_vars, KeepsCerts
  PROVE  OrderKeepsItsCertificate' /\ \A o \in Orders : HasCert(o)' <=> HasCert(o)
<1>0. \A o \in Orders : /\ order'[o].certificate_id = order[o].certificate_id
                        /\ order'[o].status = "valid" => order[o].status = "valid"
  BY DEF KeepsCerts
<1> USE NullAssumption DEF CertInv, ProofInv, Base, TypeOK
<1>1. IssuedCerts' = IssuedCerts /\ \A o \in Orders : HasCert(o)' <=> HasCert(o)
  BY DEF KeepsCerts, IssuedCerts, HasCert
<1>2. ValidOrderHasItsCertificate'
  <2>1. \A o \in Orders : order[o].certificate_id \in Certs \cup {Null}
    OBVIOUS
  <2>2. ASSUME NEW o \in Orders
        PROVE  /\ order'[o].status = "valid" => order'[o].certificate_id # Null
               /\ order'[o].certificate_id # Null => cert'[order'[o].certificate_id].order_id = o
    <3>1. order'[o].certificate_id = order[o].certificate_id
      BY <1>0
    <3>2. order'[o].status = "valid" => order[o].certificate_id # Null
      BY <1>0 DEF ValidOrderHasItsCertificate, OrderKeepsItsCertificate
    <3>3. CASE order[o].certificate_id # Null
      <4>1. order[o].certificate_id \in Certs
        BY <2>1, <3>3
      <4>2. cert[order[o].certificate_id].order_id = o
        BY <3>3 DEF ValidOrderHasItsCertificate, OrderKeepsItsCertificate
      <4>3. QED
        BY <3>1, <4>1, <4>2 DEF KeepsCerts
    <3>4. QED
      BY <3>1, <3>2, <3>3
  <2>3. QED
    BY <2>2 DEF ValidOrderHasItsCertificate
<1>3. OneCertificatePerOrder'
  <2>1. \A k \in IssuedCerts : cert[k].order_id \in Orders
    BY DEF IssuedCerts
  <2>2. QED
    BY <1>1, <2>1, ProofsStable DEF KeepsCerts, OneCertificatePerOrder, OrderKeepsItsCertificate, IssuedCerts
<1>4. QED
  BY <1>1, <1>2, <1>3 DEF OrderKeepsItsCertificate

LEMMA StoresIsFine ==
  ASSUME CertInv, [Next]_vars, NEW o \in Orders, NEW k \in Certs, Stores(o, k)
  PROVE  ReadyRowsValid' /\ IssuedRowsProved' /\ IssuedOrders' /\ OrderKeepsItsCertificate'
<1> USE ConstantsAssumption, NullAssumption DEF CertInv, ProofInv, Base, TypeOK
<1>1. \A x \in Orders : /\ order'[x].status = IF x = o THEN "valid" ELSE order[x].status
                        /\ order'[x].certificate_id = IF x = o THEN k ELSE order[x].certificate_id
  BY DEF Stores, SetCertificate
<1>2. IssuedCerts' = IssuedCerts \cup {k} /\ k \notin IssuedCerts
  BY DEF Stores, IssuedCerts
<1>3. /\ HasCert(o)'
      /\ \A x \in Orders : x # o => (HasCert(x)' <=> HasCert(x))
  BY DEF Stores, HasCert
<1>4. authz' = authz
  BY DEF Stores
<1>5. \A a \in Authzs : OrderOf[a] = o /\ authz[a] # "none" => authz[a] = "valid"
  BY DEF Stores, ReadyRowsValid, ProcessingDelegated
<1>6. ReadyRowsValid'
  BY <1>1, <1>4, <1>5 DEF ReadyRowsValid
<1>7. IssuedRowsProved'
  BY <1>3, <1>4, <1>5, ProofsStable DEF IssuedRowsProved, ValidProved
<1>8. HasCert(o) => ProvedTwice(o)
  BY DEF Stores, IssuedOrders
<1>9. IssuedOrders'
  BY <1>1, <1>3, ProofsStable DEF IssuedOrders
<1>10. ValidOrderHasItsCertificate'
  BY <1>1 DEF Stores, ValidOrderHasItsCertificate, OrderKeepsItsCertificate
<1>11. OneCertificatePerOrder'
  <2>1. \A j \in IssuedCerts : cert[j].order_id \in Orders /\ cert'[j].order_id = cert[j].order_id
    BY <1>2 DEF Stores, IssuedCerts
  <2>2. cert'[k].order_id = o
    BY DEF Stores
  <2>3. \A j \in IssuedCerts : cert[j].order_id = o => ProvedTwice(o)'
    BY <1>8, ProofsStable DEF HasCert, IssuedCerts
  <2>4. QED
    BY <1>2, <2>1, <2>2, <2>3, ProofsStable DEF OneCertificatePerOrder, OrderKeepsItsCertificate
<1>12. QED
  BY <1>6, <1>7, <1>9, <1>10, <1>11 DEF OrderKeepsItsCertificate

(* A late verdict: the order goes back to ready only if each of its        *)
(* authorizations is valid, and the one just proved was proved before.     *)
LEMMA VerdictCerts ==
  ASSUME CertInv, [Next]_vars, NEW c \in Challs, OnValid(c) \/ OnInvalid(c), UNCHANGED cert
  PROVE  ReadyRowsValid' /\ IssuedRowsProved' /\ IssuedOrders' /\ OrderKeepsItsCertificate'
<1> DEFINE a == AuthzOf[c]
           o == OrderOf[a]
<1> USE ConstantsAssumption, NullAssumption DEF CertInv, ProofInv, Base, TypeOK
<1>1. CASE chall[c] # "processing"
  <2>1. UNCHANGED <<chall, authz, order>>
    BY <1>1 DEF OnValid, OnInvalid
  <2>2. KeepsCerts
    BY <2>1 DEF KeepsCerts
  <2>3. QED
    BY <2>1, <2>2, KeepsIsFine, ProofsStable DEF ReadyRowsValid, IssuedRowsProved, IssuedOrders
<1>2. CASE chall[c] = "processing"
  <2>1. PICK v \in {"valid", "invalid"} : chall' = [chall EXCEPT ![c] = v]
                                       /\ authz' = [authz EXCEPT ![a] = v]
    BY <1>2 DEF OnValid, OnInvalid
  <2>2. a \in Authzs /\ authz[a] # "none" /\ (o # Null => o \in Orders)
    BY <1>2 DEF ForeignKeys
  <2>3. \A b \in Authzs : /\ authz'[b] = IF b = a THEN v ELSE authz[b]
                          /\ authz'[b] # "none" <=> authz[b] # "none"
    BY <2>1, <2>2
  <2>4. \A x \in Orders : /\ x # o => order'[x] = order[x]
                          /\ order'[x].certificate_id = order[x].certificate_id
    BY <1>2 DEF OnValid, OnInvalid, UpdateStatus
  <2>5. o # Null => \/ order'[o].status = "invalid"
                    \/ order'[o].status = "ready" /\ \A b \in RowsOf(o) : authz'[b] = "valid"
                    \/ order' = order /\ v = "valid"
    BY <1>2, <2>1, <2>2 DEF OnValid, OnInvalid, UpdateStatus
  <2>6. KeepsCerts
    BY <2>2, <2>4, <2>5 DEF KeepsCerts
  <2>7. OrderKeepsItsCertificate' /\ \A x \in Orders : HasCert(x)' <=> HasCert(x)
    BY <2>6, KeepsIsFine
  <2>8. ReadyRowsValid'
    <3> SUFFICES ASSUME NEW b \in Authzs, OrderOf[b] # Null, authz'[b] # "none",
                        order'[OrderOf[b]].status \in {"ready", "valid"}
                 PROVE  authz'[b] = "valid"
      BY DEF ReadyRowsValid
    <3>1. CASE OrderOf[b] # o
      BY <2>3, <2>4, <3>1 DEF ReadyRowsValid
    <3>2. CASE OrderOf[b] = o /\ order' = order /\ v = "valid"
      BY <2>3, <3>2 DEF ReadyRowsValid
    <3>3. CASE OrderOf[b] = o /\ \A d \in RowsOf(o) : authz'[d] = "valid"
      BY <2>3, <3>3 DEF RowsOf
    <3>4. QED
      BY <2>5, <3>1, <3>2, <3>3
  <2>9. IssuedRowsProved'
    BY <2>3, <2>7, ProofsStable DEF IssuedRowsProved
  <2>10. IssuedOrders'
    <3> SUFFICES ASSUME NEW x \in Orders, HasCert(x)
                 PROVE  /\ order'[x].status \notin {"none", "pending"}
                        /\ order'[x].status \in {"ready", "processing"} => ProvedTwice(x)'
      BY <2>7 DEF IssuedOrders
    <3>1. CASE x # o \/ order' = order
      BY <2>4, <3>1, ProofsStable DEF IssuedOrders
    <3>2. CASE x = o /\ order'[x].status = "invalid"
      BY <3>2
    <3>3. CASE x = o /\ order'[x].status = "ready" /\ \A b \in RowsOf(o) : authz'[b] = "valid"
      <4>1. authz'[a] = "valid" /\ v = "valid"
        BY <2>2, <2>3, <3>3 DEF RowsOf
      <4>2. PICK d \in Challs : AuthzOf[d] = a /\ chall[d] = "valid"
        BY <2>2, <3>3 DEF IssuedRowsProved, Proved
      <4>3. d # c /\ chall'[d] = "valid" /\ chall'[c] = "valid"
        BY <1>2, <2>1, <4>1, <4>2
      <4>4. ProvedTwice(x)'
        BY <3>3, <4>2, <4>3 DEF ProvedTwice
      <4>5. QED
        BY <3>3, <4>4
    <3>4. QED
      BY <2>5, <3>1, <3>2, <3>3
  <2>11. QED
    BY <2>7, <2>8, <2>9, <2>10
<1>3. QED
  BY <1>1, <1>2

(* Every step of every actor preserves the invariant. *)
LEMMA CertStep == CertInv /\ [Next]_vars => CertInv'
<1> SUFFICES ASSUME CertInv, [Next]_vars PROVE CertInv'
  OBVIOUS
<1> DEFINE Goal == ReadyRowsValid' /\ IssuedRowsProved' /\ IssuedOrders' /\ OrderKeepsItsCertificate'
<1> USE ConstantsAssumption, NullAssumption
<1>1. ProofInv' /\ CertRows'
  BY ProofStep, CertRowsStep DEF CertInv, ProofInv
<1> USE DEF CertInv, ProofInv, Base, TypeOK
<1>2. ASSUME NEW o \in Orders, NEW p \in Certs \cup {Null}, NewOrder(o, p) PROVE Goal
  <2>1. /\ cert' = cert
        /\ order[o].status = "none"
        /\ order'[o].certificate_id = Null /\ order'[o].status \in {"ready", "pending"}
        /\ \A x \in Orders : x # o => order'[x] = order[x]
    BY <1>2 DEF NewOrder
  <2>2. order[o].certificate_id = Null /\ ~ HasCert(o)
    <3>1. ~ HasCert(o)
      BY <2>1 DEF IssuedOrders
    <3>2. QED
      BY <2>1, <3>1 DEF HasCert, OrderKeepsItsCertificate, ValidOrderHasItsCertificate
  <2>3. KeepsCerts
    BY <2>1, <2>2 DEF KeepsCerts
  <2>4. OrderKeepsItsCertificate' /\ \A x \in Orders : HasCert(x)' <=> HasCert(x)
    BY <2>3, KeepsIsFine
  <2>5. \A a \in Authzs : OrderOf[a] # o => authz'[a] = authz[a]
    BY <1>2 DEF NewOrder
  <2>6. \A a \in Authzs : OrderOf[a] = o => authz[a] = "none"
    BY <2>1 DEF ForeignKeys
  <2>7. order'[o].status = "ready" => \A a \in Authzs : OrderOf[a] = o => authz'[a] = "none"
    BY <1>2, <2>6 DEF NewOrder
  <2>8. ReadyRowsValid'
    BY <2>1, <2>5, <2>7 DEF ReadyRowsValid
  <2>9. IssuedRowsProved'
    BY <2>2, <2>4, <2>5, ProofsStable DEF IssuedRowsProved
  <2>10. IssuedOrders'
    BY <2>1, <2>2, <2>4, ProofsStable DEF IssuedOrders
  <2>11. QED
    BY <2>4, <2>8, <2>9, <2>10
<1>3. ASSUME NEW b \in Authzs, NewAuthz(b) PROVE Goal
  <2>1. /\ order' = order /\ cert' = cert
        /\ \A a \in Authzs : OrderOf[a] # Null => authz'[a] = authz[a]
    BY <1>3 DEF NewAuthz
  <2>2. OrderKeepsItsCertificate' /\ \A x \in Orders : HasCert(x)' <=> HasCert(x)
    BY <2>1, KeepsIsFine DEF KeepsCerts
  <2>3. QED
    BY <2>1, <2>2, ProofsStable DEF ReadyRowsValid, IssuedRowsProved, IssuedOrders
<1>4. ASSUME NEW c \in Challs, OnValid(c) \/ OnInvalid(c), UNCHANGED cert PROVE Goal
  BY <1>4, VerdictCerts
<1>5. ASSUME NEW o \in Orders, NEW s \in {"processing", "invalid"}, order[o].status \in {"ready", "processing"},
             order' = UpdateStatus(o, s), UNCHANGED <<authz, cert>>
      PROVE  Goal
  <2>1. \A x \in Orders : /\ order'[x].status = IF x = o THEN s ELSE order[x].status
                          /\ order'[x].certificate_id = order[x].certificate_id
    BY <1>5 DEF UpdateStatus
  <2>2. OrderKeepsItsCertificate' /\ \A x \in Orders : HasCert(x)' <=> HasCert(x)
    BY <1>5, <2>1, KeepsIsFine DEF KeepsCerts
  <2>3. ReadyRowsValid' /\ IssuedRowsProved'
    BY <1>5, <2>1, <2>2, ProofsStable DEF ReadyRowsValid, IssuedRowsProved
  <2>4. IssuedOrders'
    BY <1>5, <2>1, <2>2, ProofsStable DEF IssuedOrders
  <2>5. QED
    BY <2>2, <2>3, <2>4
<1>6. ASSUME UNCHANGED <<order, authz, cert>> PROVE Goal
  <2>1. OrderKeepsItsCertificate' /\ \A x \in Orders : HasCert(x)' <=> HasCert(x)
    BY <1>6, KeepsIsFine DEF KeepsCerts
  <2>2. QED
    BY <1>6, <2>1, ProofsStable DEF ReadyRowsValid, IssuedRowsProved, IssuedOrders
<1>7. ASSUME NEW r \in Reqs, FinalizeDelegate(r) PROVE Goal
  <2>1. fin[r].order \in Orders /\ UNCHANGED <<authz, cert>>
    BY <1>7 DEF FinalizeDelegate, HandlersTyped
  <2>2. QED
    BY <1>5, <1>6, <1>7, <2>1 DEF FinalizeDelegate
<1>8. ASSUME NEW r \in Reqs, FinalizePersist(r) PROVE Goal
  <2> DEFINE o == fin[r].order
             k == fin[r].cert
  <2>1. o \in Orders /\ k \in Certs /\ cert[k].order_id = Null /\ UNCHANGED <<authz, chall>>
    BY <1>8 DEF FinalizePersist, HandlersTyped, CertRows, HeldCerts, IssuedCerts
  <2>2. CASE order[o].status # "ready"
    BY <1>6, <1>8, <2>1, <2>2 DEF FinalizePersist
  <2>3. CASE order[o].status = "ready"
    <3>1. order' = SetCertificate(o, k) /\ cert' = InsertAndMarkReplaced(k, o, order[o].replaces)
      BY <1>8, <2>3 DEF FinalizePersist
    <3>2. Stores(o, k)
      BY <2>1, <2>3, <3>1 DEF Stores, InsertAndMarkReplaced
    <3>3. QED
      BY <2>1, <3>2, StoresIsFine
  <2>4. QED
    BY <2>2, <2>3
<1>9. ASSUME NEW o \in Orders, NEW k \in Certs, UpstreamComplete(o, k) PROVE Goal
  <2>1. Stores(o, k)
    BY <1>9 DEF UpstreamComplete, Stores, CertRows, RowsSigned, IssuedCerts
  <2>2. QED
    BY <2>1, StoresIsFine
<1>10. ASSUME NEW o \in Orders, UpstreamFail(o) PROVE Goal
  BY <1>5, <1>10 DEF UpstreamFail
<1>11. Goal
  BY <1>2, <1>3, <1>4, <1>6, <1>7, <1>8, <1>9, <1>10
  DEF Next, vars, RespondRead, RespondFlip, RespondBadPayload, RespondDropped, TaskValid, TaskInvalid,
      TaskDbError, TaskSendEmail, WebhookValid, WebhookInvalid, FinalizeResolve, FinalizeIssue,
      FinalizeReject, Expire, Crash
<1>12. QED
  BY <1>1, <1>11

(* set_certificate's guard and the delegation poller, whatever             *)
(* finalizations, late verdicts and restarts intervene: orders and         *)
(* certificate rows name each other, and a second certificate needs a      *)
(* second proof.                                                           *)
THEOREM OrdersKeepCertificates == Spec => []OrderKeepsItsCertificate
<1>1. Init => CertInv
  <2>1. Init => ProofInv /\ CertRows
    BY ProofInit, CertRowsInit
  <2>2. Init => /\ ReadyRowsValid /\ IssuedRowsProved /\ IssuedOrders
                /\ OrderKeepsItsCertificate
    BY ConstantsAssumption, NullAssumption
    DEF Init, ReadyRowsValid, IssuedRowsProved, IssuedOrders, OrderKeepsItsCertificate, HasCert,
        IssuedCerts, ValidOrderHasItsCertificate, OneCertificatePerOrder
  <2>3. QED
    BY <2>1, <2>2 DEF CertInv
<1>2. CertInv => OrderKeepsItsCertificate
  BY DEF CertInv
<1>3. QED
  BY <1>1, <1>2, CertStep, PTL DEF Spec
=============================================================================
