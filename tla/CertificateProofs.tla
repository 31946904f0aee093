-------------------------- MODULE CertificateProofs --------------------------
(***************************************************************************)
(* The life of a certificate, for every value of the constants: what is    *)
(* served about revoked certificates, STAR renewals, issuance by another   *)
(* CA, and the authority tokens that prove an identifier. The four parts   *)
(* share no state; each has its inductive invariant, introduced where it   *)
(* begins.                                                                 *)
(***************************************************************************)
EXTENDS Revocation, Star, Upstream, AuthorityTokens, FiniteSetTheorems, WellFoundedInduction, TLAPS

(***************************************************************************)
(* Revocation. RevocationsServed speaks of acknowledged revocations only.  *)
(* To carry it through a step one must know what is true of a revocation   *)
(* on its way: Exclusive (the UPDATE lets one request revoke a             *)
(* certificate, so no other request still has it in hand), CacheKnows (a   *)
(* cached list misses only what was revoked while it was built or is still *)
(* to be dropped from the cache by the request that revoked it),           *)
(* BuildKnows (the same of a list in the making) and RangeKnown (who is    *)
(* past the range step has entered the index).                             *)
(***************************************************************************)
Active == {"range", "tombstone", "invalidate"}
Request == [pc : {"idle", "done"}] \union [pc : Active \union {"write"}, cert : RevCerts, who : RevActors]
Build == [pc : {"idle"}] \union [pc : {"sign", "store"}, ca : RevCas, set : SUBSET RevCerts, missed : SUBSET RevCerts]
Crl == [cached : {FALSE}] \union [cached : {TRUE}, set : SUBSET RevCerts, missed : SUBSET RevCerts, expires : Nat]

(* The shape of the state.                                                 *)
RevType ==
    /\ rclock \in Nat
    /\ row \in [RevCerts -> [status : {"valid", "revoked"}, at : Nat]]
    /\ crlCache \in [RevCas -> Crl]
    /\ rev \in [Revokers -> Request]
    /\ bld \in [Builders -> Build]
    /\ acked \subseteq RevCerts /\ noRange \subseteq RevCerts

Revoked(c) == row[c].status = "revoked"

(* A request that has revoked its certificate is the only one that has, and *)
(* is yet to acknowledge it.                                               *)
Exclusive ==
    /\ \A r \in Revokers : rev[r].pc \in Active => Revoked(rev[r].cert) /\ rev[r].cert \notin acked
    /\ \A r, s \in Revokers : rev[r].pc \in Active /\ rev[s].pc \in Active /\ rev[r].cert = rev[s].cert => r = s
    /\ \A c \in acked : Revoked(c)

(* The request still has the cached list to drop.                          *)
ToDrop(r) == rev[r].pc = "invalidate" \/ (rev[r].pc \in Active /\ rev[r].who.kind # "operator")

CacheKnows ==
    \A ca \in RevCas : crlCache[ca].cached =>
        /\ \A c \in RevCerts : Revoked(c) /\ Info[c].ca = ca =>
              \/ c \in crlCache[ca].set \union crlCache[ca].missed
              \/ \E r \in Revokers : ToDrop(r) /\ rev[r].cert = c
        /\ \A c \in crlCache[ca].set : Revoked(c) /\ Info[c].ca = ca

BuildKnows ==
    \A b \in Builders : bld[b].pc # "idle" =>
        /\ \A c \in RevCerts : Revoked(c) /\ Info[c].ca = bld[b].ca => c \in bld[b].set \union bld[b].missed
        /\ \A c \in bld[b].set : Revoked(c) /\ Info[c].ca = bld[b].ca

(* Whether the range of c is entered, or its insertion failed.             *)
Entered(c) == c \in noRange \/ (Info[c].index # NoIndex => <<Info[c].ca, Info[c].index>> \in ranges)

(* The request is past the step that enters the range.                     *)
PastRange(v) == v.pc = "tombstone" \/ (v.pc = "invalidate" /\ v.who.kind # "operator")

RangeKnown ==
    /\ \A c \in acked : Entered(c)
    /\ \A r \in Revokers : PastRange(rev[r]) => Entered(rev[r].cert)

(* Who may revoke c; an operator's scope is tested by the UPDATE.          *)
Entitled(c, who) ==
    \/ who.kind = "account" /\ who.id = Info[c].account
    \/ who.kind = "key" /\ who.id = Info[c].key
    \/ who.kind = "operator"
Asked == \A r \in Revokers : rev[r].pc = "write" => Entitled(rev[r].cert, rev[r].who)

RevInv == RevType /\ Exclusive /\ CacheKnows /\ BuildKnows /\ RangeKnown /\ Asked /\ RevokerEntitled

-----------------------------------------------------------------------------
LEMMA RevInitInv == RevInit => RevInv
<1> SUFFICES ASSUME RevInit PROVE RevInv  OBVIOUS
<1> USE DEF RevInit, IdleRev, NoCrl, ValidRow
<1>1. RevType  BY DEF RevType, Request, Build, Crl
<1>2. \A r \in Revokers : rev[r].pc = "idle"  OBVIOUS
<1>3. \A b \in Builders : bld[b].pc = "idle"  OBVIOUS
<1>4. \A ca \in RevCas : crlCache[ca].cached = FALSE  OBVIOUS
<1>5. Exclusive  BY <1>2 DEF Exclusive, Active
<1>6. CacheKnows /\ BuildKnows  BY <1>3, <1>4 DEF CacheKnows, BuildKnows
<1>7. RangeKnown /\ Asked /\ RevokerEntitled  BY <1>2 DEF RangeKnown, PastRange, Asked, RevokerEntitled
<1>. QED  BY <1>1, <1>5, <1>6, <1>7 DEF RevInv

(* What a record of a request, a build or a cached list may hold.          *)
LEMMA Shapes ==
    ASSUME RevType
    PROVE  /\ \A r \in Revokers : rev[r].pc \in Active \union {"write"} => rev[r].cert \in RevCerts /\ rev[r].who \in RevActors
           /\ \A b \in Builders : bld[b].pc # "idle" =>
                 bld[b].ca \in RevCas /\ bld[b].set \subseteq RevCerts /\ bld[b].missed \subseteq RevCerts
           /\ \A ca \in RevCas : crlCache[ca].cached \in BOOLEAN
           /\ \A ca \in RevCas : crlCache[ca].cached =>
                 crlCache[ca].set \subseteq RevCerts /\ crlCache[ca].missed \subseteq RevCerts /\ crlCache[ca].expires \in Nat
<1>1. \A v \in Request : v.pc \in Active \union {"write"} => v.cert \in RevCerts /\ v.who \in RevActors
  BY DEF Request, Active
<1>2. \A v \in Build : v.pc # "idle" => v.ca \in RevCas /\ v.set \subseteq RevCerts /\ v.missed \subseteq RevCerts
  BY DEF Build
<1>3. \A v \in Crl : v.cached \in BOOLEAN /\ (v.cached => v.set \subseteq RevCerts /\ v.missed \subseteq RevCerts /\ v.expires \in Nat)
  BY DEF Crl
<1>. QED  BY <1>1, <1>2, <1>3 DEF RevType

(* A request record changes its pc only.                                   *)
LEMMA Moved ==
    ASSUME NEW v \in Request, v.pc \in Active \union {"write"}, NEW p \in Active
    PROVE  /\ [v EXCEPT !.pc = p] \in Request
           /\ [v EXCEPT !.pc = p].pc = p
           /\ [v EXCEPT !.pc = p].cert = v.cert
           /\ [v EXCEPT !.pc = p].who = v.who
  BY DEF Request, Active

(* A new request.                                                          *)
LEMMA AskKeeps ==
    ASSUME RevInv, NEW r \in Revokers, NEW c \in RevCerts, NEW who \in RevActors,
           revoke_cert(r, c, who) \/ post_revoke(r, c, who)
    PROVE  RevInv'
<1> USE DEF RevInv
<1> DEFINE v == [pc |-> "write", cert |-> c, who |-> who]
<1>1. /\ rev[r].pc = "idle" /\ Entitled(c, who)
      /\ rev' = [rev EXCEPT ![r] = v]
      /\ UNCHANGED <<rclock, row, ranges, crlCache, bld, acked, by, noRange>>
  BY DEF revoke_cert, post_revoke, Entitled
<1>2. v \in Request  BY DEF Request
<1>3. RevType'  BY <1>1, <1>2 DEF RevType
<1>4. /\ rev'[r].pc = "write" /\ rev'[r].cert = c /\ rev'[r].who = who
      /\ \A s \in Revokers \ {r} : rev'[s] = rev[s]
  BY <1>1 DEF RevType
<1> HIDE DEF v
<1>5. \A s \in Revokers : rev'[s].pc \in Active => s # r /\ rev'[s] = rev[s]  BY <1>4 DEF Active
<1>6. Exclusive'  BY <1>1, <1>5 DEF Exclusive, Revoked
<1>7. \A s \in Revokers : ToDrop(s) => ToDrop(s)' /\ rev'[s] = rev[s]  BY <1>1, <1>4 DEF ToDrop, Active
<1>8. CacheKnows'
  <2> SUFFICES ASSUME NEW ca \in RevCas, crlCache[ca].cached, NEW d \in RevCerts, Revoked(d), Info[d].ca = ca
              PROVE  d \in crlCache[ca].set \union crlCache[ca].missed \/ \E s \in Revokers : ToDrop(s)' /\ rev'[s].cert = d
    BY <1>1 DEF CacheKnows, Revoked
  <2>. QED  BY <1>7 DEF CacheKnows
<1>9. BuildKnows'  BY <1>1 DEF BuildKnows, Revoked
<1>10. RangeKnown'  BY <1>1, <1>5 DEF RangeKnown, PastRange, Entered, Active
<1>11. Asked' /\ RevokerEntitled'  BY <1>1, <1>4 DEF Asked, RevokerEntitled, Entitled
<1>. QED  BY <1>3, <1>6, <1>8, <1>9, <1>10, <1>11

(* The UPDATE: it refuses a certificate that is already revoked, so the    *)
(* request that succeeds becomes the only one with it in hand.             *)
LEMMA WriteKeeps ==
    ASSUME RevInv, NEW r \in Revokers, RevokeWrite(r)
    PROVE  RevInv'
<1> USE DEF RevInv
<1>1. PICK v \in Request : v = rev[r]  BY DEF RevType
<1>2. v.pc = "write" /\ v.cert \in RevCerts /\ v.who \in RevActors  BY <1>1, Shapes DEF RevokeWrite
<1>3. Entitled(v.cert, v.who)  BY <1>1, <1>2 DEF Asked
<1>4. CASE ~revoke(v.cert, v.who)
  <2>1. rev' = [rev EXCEPT ![r] = DoneRev] /\ UNCHANGED <<rclock, row, ranges, crlCache, bld, acked, by, noRange>>
    BY <1>1, <1>4 DEF RevokeWrite
  <2>2. DoneRev \in Request /\ DoneRev.pc = "done"  BY DEF DoneRev, Request
  <2>3. RevType'  BY <2>1, <2>2 DEF RevType
  <2>4. rev'[r].pc = "done" /\ \A s \in Revokers \ {r} : rev'[s] = rev[s]  BY <2>1, <2>2 DEF RevType
  <2>5. \A s \in Revokers : rev'[s].pc \in Active \union {"write"} => s # r /\ rev'[s] = rev[s]  BY <2>4 DEF Active
  <2>6. Exclusive'  BY <2>1, <2>5 DEF Exclusive, Revoked
  <2>7. \A s \in Revokers : ToDrop(s) => ToDrop(s)' /\ rev'[s] = rev[s]  BY <1>1, <1>2, <2>4 DEF ToDrop, Active
  <2>8. CacheKnows'
    <3> SUFFICES ASSUME NEW ca \in RevCas, crlCache[ca].cached, NEW d \in RevCerts, Revoked(d), Info[d].ca = ca
                PROVE  d \in crlCache[ca].set \union crlCache[ca].missed \/ \E s \in Revokers : ToDrop(s)' /\ rev'[s].cert = d
      BY <2>1 DEF CacheKnows, Revoked
    <3>. QED  BY <2>7 DEF CacheKnows
  <2>9. BuildKnows'  BY <2>1 DEF BuildKnows, Revoked
  <2>10. RangeKnown'  BY <2>1, <2>5 DEF RangeKnown, PastRange, Entered, Active
  <2>11. Asked' /\ RevokerEntitled'  BY <2>1, <2>5 DEF Asked, RevokerEntitled
  <2>. QED  BY <2>3, <2>6, <2>8, <2>9, <2>10, <2>11
<1>5. CASE revoke(v.cert, v.who)
  <2>1. PICK p \in {"invalidate", "range"} : p = IF v.who.kind = "operator" THEN "invalidate" ELSE "range"  OBVIOUS
  <2> DEFINE c == v.cert
             w == [v EXCEPT !.pc = p]
  <2>2. /\ ~Revoked(c) /\ InRevScope(c, v.who)
        /\ row' = [row EXCEPT ![c] = [status |-> "revoked", at |-> rclock]]
        /\ by' = by \union {[cert |-> c, who |-> v.who]}
        /\ rev' = [rev EXCEPT ![r] = w]
        /\ bld' = [b \in Builders |-> IF bld[b].pc # "idle" THEN [bld[b] EXCEPT !.missed = @ \union {c}] ELSE bld[b]]
        /\ UNCHANGED <<rclock, ranges, crlCache, acked, noRange>>
    BY <1>1, <1>5, <2>1 DEF RevokeWrite, revoke, Revoked
  <2>3. w \in Request /\ w.pc = p /\ w.cert = c /\ w.who = v.who
    <3>1. v.pc \in Active \union {"write"} /\ p \in Active  BY <1>2, <2>1 DEF Active
    <3>. QED  BY <3>1, Moved
  <2>4. c \in RevCerts  BY <1>2
  <2> HIDE DEF c, w
  <2>5. /\ \A b \in Builders : bld[b] \in Build /\ (bld[b].pc # "idle" =>
             LET n == [bld[b] EXCEPT !.missed = @ \union {c}] IN
             n \in Build /\ n.pc = bld[b].pc /\ n.ca = bld[b].ca /\ n.set = bld[b].set /\ n.missed = bld[b].missed \union {c})
    <3>1. \A n \in Build : n.pc # "idle" =>
             LET m == [n EXCEPT !.missed = @ \union {c}] IN
             m \in Build /\ m.pc = n.pc /\ m.ca = n.ca /\ m.set = n.set /\ m.missed = n.missed \union {c}
      BY <2>4 DEF Build
    <3>. QED  BY <3>1 DEF RevType
  <2>6. /\ bld' \in [Builders -> Build]
        /\ \A b \in Builders : bld'[b].pc = bld[b].pc
        /\ \A b \in Builders : bld[b].pc # "idle" =>
              bld'[b].ca = bld[b].ca /\ bld'[b].set = bld[b].set /\ bld'[b].missed = bld[b].missed \union {c}
    BY <2>2, <2>5
  <2>7. row' \in [RevCerts -> [status : {"valid", "revoked"}, at : Nat]] /\ \A d \in RevCerts : Revoked(d)' <=> Revoked(d) \/ d = c
    BY <2>2, <2>4 DEF RevType, Revoked
  <2>8. RevType'  BY <2>2, <2>3, <2>6, <2>7 DEF RevType
  <2>9. rev'[r] = w /\ \A s \in Revokers \ {r} : rev'[s] = rev[s]  BY <2>2 DEF RevType
  <2>10. rev'[r].pc \in Active /\ rev'[r].pc # "tombstone" /\ rev'[r].cert = c /\ rev'[r].who = v.who
    BY <2>1, <2>3, <2>9 DEF Active
  <2>11. \A s \in Revokers : rev[s].pc \in Active => rev[s].cert \in RevCerts /\ rev[s].cert # c
    BY <2>2, Shapes DEF Exclusive
  <2>12. Exclusive'
    <3>1. \A s \in Revokers : rev'[s].pc \in Active => row'[rev'[s].cert].status = "revoked" /\ rev'[s].cert \notin acked'
      <4> SUFFICES ASSUME NEW s \in Revokers, rev'[s].pc \in Active PROVE row'[rev'[s].cert].status = "revoked" /\ rev'[s].cert \notin acked'
        OBVIOUS
      <4>1. CASE s = r  BY <4>1, <2>2, <2>4, <2>7, <2>10 DEF Exclusive, Revoked
      <4>2. CASE s # r
        <5>1. rev'[s] = rev[s]  BY <4>2, <2>9
        <5>2. PICK d \in RevCerts : d = rev[s].cert  BY <5>1, <2>11
        <5>3. Revoked(d) /\ d \notin acked  BY <5>1, <5>2 DEF Exclusive
        <5>4. Revoked(d)' /\ d \notin acked'  BY <5>3, <2>7, <2>2
        <5>. QED  BY <5>1, <5>2, <5>4 DEF Revoked
      <4>. QED  BY <4>1, <4>2
    <3>2. \A s, t \in Revokers : rev'[s].pc \in Active /\ rev'[t].pc \in Active /\ rev'[s].cert = rev'[t].cert => s = t
      BY <2>9, <2>10, <2>11 DEF Exclusive
    <3>3. \A d \in acked' : Revoked(d)'  BY <2>2, <2>7 DEF Exclusive, RevType
    <3>. QED  BY <3>1, <3>2, <3>3 DEF Exclusive, Revoked
  <2>13. ToDrop(r)'  BY <2>1, <2>3, <2>9 DEF ToDrop, Active
  <2>14. \A s \in Revokers : ToDrop(s) => s # r /\ ToDrop(s)' /\ rev'[s] = rev[s]  BY <1>1, <1>2, <2>9 DEF ToDrop, Active
  <2>15. CacheKnows'
    <3> SUFFICES ASSUME NEW ca \in RevCas, crlCache[ca].cached
                PROVE  /\ \A d \in RevCerts : Revoked(d)' /\ Info[d].ca = ca =>
                             \/ d \in crlCache[ca].set \union crlCache[ca].missed
                             \/ \E s \in Revokers : ToDrop(s)' /\ rev'[s].cert = d
                       /\ \A d \in crlCache[ca].set : Revoked(d)' /\ Info[d].ca = ca
      BY <2>2 DEF CacheKnows
    <3>1. ASSUME NEW d \in RevCerts, Revoked(d)', Info[d].ca = ca
          PROVE  d \in crlCache[ca].set \union crlCache[ca].missed \/ \E s \in Revokers : ToDrop(s)' /\ rev'[s].cert = d
      <4>1. CASE d = c  BY <4>1, <2>10, <2>13
      <4>2. CASE Revoked(d)  BY <3>1, <4>2, <2>14 DEF CacheKnows
      <4>. QED  BY <3>1, <4>1, <4>2, <2>7
    <3>2. \A d \in crlCache[ca].set : Revoked(d)' /\ Info[d].ca = ca  BY <2>7, Shapes DEF CacheKnows
    <3>. QED  BY <3>1, <3>2
  <2>16. BuildKnows'
    <3> SUFFICES ASSUME NEW b \in Builders, bld[b].pc # "idle"
                PROVE  /\ \A d \in RevCerts : Revoked(d)' /\ Info[d].ca = bld[b].ca => d \in bld[b].set \union (bld[b].missed \union {c})
                       /\ \A d \in bld[b].set : Revoked(d)' /\ Info[d].ca = bld[b].ca
      BY <2>6 DEF BuildKnows
    <3>. QED  BY <2>7, Shapes DEF BuildKnows
  <2>17. RangeKnown'
    <3>1. \A s \in Revokers : rev'[s].pc = "tombstone" \/ (rev'[s].pc = "invalidate" /\ rev'[s].who.kind # "operator") =>
             s # r /\ rev'[s] = rev[s]
      BY <2>1, <2>3, <2>9
    <3>2. \A d : Entered(d)' <=> Entered(d)  BY <2>2 DEF Entered
    <3>3. \A d \in acked' : Entered(d)'  BY <2>2, <3>2 DEF RangeKnown, PastRange
    <3>4. ASSUME NEW s \in Revokers, rev'[s].pc = "tombstone" \/ (rev'[s].pc = "invalidate" /\ rev'[s].who.kind # "operator")
          PROVE  Entered(rev[s].cert)'
      <4>1. rev'[s] = rev[s]  BY <3>1, <3>4
      <4>2. Entered(rev[s].cert)  BY <3>4, <4>1 DEF RangeKnown, PastRange
      <4>. QED  BY <4>1, <4>2, <2>2 DEF Entered
    <3>. QED  BY <3>3, <3>4 DEF RangeKnown, PastRange
  <2>18. Asked'  BY <2>9, <2>10 DEF Asked, Active
  <2>19. RevokerEntitled'
    <3> SUFFICES ASSUME NEW x \in by \union {[cert |-> c, who |-> v.who]}
                PROVE  \/ x.who.kind = "account" /\ x.who.id = Info[x.cert].account
                       \/ x.who.kind = "key" /\ x.who.id = Info[x.cert].key
                       \/ x.who.kind = "operator" /\ x.who.ca \in {NoCaScope, Info[x.cert].ca}
      BY <2>2 DEF RevokerEntitled
    <3>1. CASE x \in by  BY <3>1 DEF RevokerEntitled
    <3>2. CASE x = [cert |-> c, who |-> v.who]
      <4>1. x.cert = c /\ x.who = v.who  BY <3>2
      <4>2. Entitled(c, v.who)  BY <1>3 DEF c
      <4>. QED  BY <4>1, <4>2, <2>2 DEF InRevScope, Entitled
    <3>. QED  BY <3>1, <3>2
  <2>. QED  BY <2>8, <2>12, <2>15, <2>16, <2>17, <2>18, <2>19
<1>. QED  BY <1>4, <1>5

(* What the later steps of a request have in common: it keeps its          *)
(* certificate in hand, or lets go of it with the acknowledgement.         *)
LEMMA Proceeds ==
    ASSUME RevInv, NEW r \in Revokers, rev[r].pc \in Active, NEW w \in Request,
           rev' = [rev EXCEPT ![r] = w],
           \/ w.pc \in Active /\ w.cert = rev[r].cert /\ w.who = rev[r].who /\ acked' = acked
           \/ w.pc = "done" /\ acked' = acked \union {rev[r].cert},
           UNCHANGED <<rclock, row, bld, by>>,
           crlCache' \in [RevCas -> Crl], noRange' \subseteq RevCerts
    PROVE  /\ RevType' /\ Exclusive' /\ BuildKnows' /\ Asked' /\ RevokerEntitled'
           /\ rev'[r] = w /\ \A s \in Revokers \ {r} : rev'[s] = rev[s]
<1> USE DEF RevInv
<1>1. PICK c \in RevCerts : c = rev[r].cert  BY Shapes
<1>2. RevType'  BY <1>1 DEF RevType
<1>3. rev'[r] = w /\ \A s \in Revokers \ {r} : rev'[s] = rev[s]  BY DEF RevType
<1>4. Revoked(c)  BY <1>1 DEF Exclusive
<1>5. Exclusive'
  <2>1. \A s \in Revokers : rev'[s].pc \in Active => rev[s].pc \in Active /\ rev'[s].cert = rev[s].cert
    BY <1>3 DEF Active
  <2>2. ASSUME NEW s \in Revokers, rev'[s].pc \in Active
        PROVE  row'[rev'[s].cert].status = "revoked" /\ rev'[s].cert \notin acked'
    <3>1. Revoked(rev[s].cert) /\ rev[s].cert \notin acked /\ rev'[s].cert = rev[s].cert  BY <2>1, <2>2 DEF Exclusive
    <3>2. CASE s = r  BY <3>1, <3>2, <1>3, <2>2 DEF Revoked, Active
    <3>3. CASE s # r
      <4>1. rev[s].cert # rev[r].cert  BY <3>3, <2>1, <2>2 DEF Exclusive
      <4>. QED  BY <3>1, <4>1 DEF Revoked
    <3>. QED  BY <3>2, <3>3
  <2>3. \A s, t \in Revokers : rev'[s].pc \in Active /\ rev'[t].pc \in Active /\ rev'[s].cert = rev'[t].cert => s = t
    BY <2>1 DEF Exclusive
  <2>4. \A d \in acked' : row'[d].status = "revoked"  BY <1>1, <1>4 DEF Exclusive, Revoked
  <2>. QED  BY <2>2, <2>3, <2>4 DEF Exclusive, Revoked
<1>6. BuildKnows' /\ RevokerEntitled'  BY DEF BuildKnows, RevokerEntitled, Revoked
<1>7. Asked'  BY <1>3 DEF Asked, Active
<1>. QED  BY <1>2, <1>3, <1>5, <1>6, <1>7

(* A cached list stays as good as it was when no request lets go of one it *)
(* had to drop from the cache.                                             *)
LEMMA CacheStays ==
    ASSUME CacheKnows, UNCHANGED row,
           \A ca \in RevCas : ~crlCache'[ca].cached \/ crlCache'[ca] = crlCache[ca],
           \A s \in Revokers, d \in RevCerts : ToDrop(s) /\ rev[s].cert = d =>
               \/ ToDrop(s)' /\ rev'[s].cert = d
               \/ \A ca \in RevCas : Info[d].ca = ca => ~crlCache'[ca].cached
    PROVE  CacheKnows'
<1> SUFFICES ASSUME NEW ca \in RevCas, crlCache'[ca].cached
            PROVE  /\ \A c \in RevCerts : Revoked(c) /\ Info[c].ca = ca =>
                         \/ c \in crlCache[ca].set \union crlCache[ca].missed
                         \/ \E r \in Revokers : ToDrop(r)' /\ rev'[r].cert = c
                   /\ \A c \in crlCache[ca].set : Revoked(c) /\ Info[c].ca = ca
  BY DEF CacheKnows, Revoked
<1>1. crlCache[ca].cached  OBVIOUS
<1>2. \A c \in crlCache[ca].set : Revoked(c) /\ Info[c].ca = ca  BY <1>1 DEF CacheKnows
<1>3. ASSUME NEW c \in RevCerts, Revoked(c), Info[c].ca = ca, c \notin crlCache[ca].set \union crlCache[ca].missed
      PROVE  \E r \in Revokers : ToDrop(r)' /\ rev'[r].cert = c
  <2>1. PICK r \in Revokers : ToDrop(r) /\ rev[r].cert = c  BY <1>1, <1>3 DEF CacheKnows
  <2>. QED  BY <2>1, <1>3
<1>. QED  BY <1>2, <1>3

(* The same of the ranges: they only grow, and a request enters or gives up *)
(* its range before it is past that step.                                  *)
LEMMA RangesStay ==
    ASSUME RangeKnown, NEW r \in Revokers, NEW c, c = rev[r].cert,
           ranges \subseteq ranges', noRange \subseteq noRange',
           \A s \in Revokers \ {r} : rev'[s] = rev[s],
           acked' = acked \/ (acked' = acked \union {c} /\ Entered(c)'),
           PastRange(rev'[r]) => rev'[r].cert = c /\ Entered(c)'
    PROVE  RangeKnown'
<1>1. \A d : Entered(d) => Entered(d)'  BY DEF Entered
<1>2. \A d \in acked' : Entered(d)'  BY <1>1 DEF RangeKnown
<1>3. ASSUME NEW s \in Revokers, PastRange(rev'[s]), NEW d, d = rev'[s].cert
      PROVE  Entered(d)'
  <2>1. CASE s = r  BY <2>1, <1>3
  <2>2. CASE s # r
    <3>1. PastRange(rev[s]) /\ d = rev[s].cert  BY <2>2, <1>3
    <3>. QED  BY <3>1, <1>1 DEF RangeKnown
  <2>. QED  BY <2>1, <2>2
<1>. QED  BY <1>2, <1>3 DEF RangeKnown, Entered, PastRange

(* The range insertion, which may fail.                                    *)
LEMMA RangeKeeps ==
    ASSUME RevInv, NEW r \in Revokers, NEW ok \in BOOLEAN, RevokeRange(r, ok)
    PROVE  RevInv'
<1> USE DEF RevInv
<1>1. PICK v \in Request : v = rev[r]  BY DEF RevType
<1>2. PICK c \in RevCerts : c = v.cert  BY <1>1, Shapes DEF RevokeRange, Active
<1> DEFINE w == [v EXCEPT !.pc = "tombstone"]
<1>3. v.pc = "range" /\ rev' = [rev EXCEPT ![r] = w]  BY <1>1 DEF RevokeRange
<1>4. w \in Request /\ w.pc = "tombstone" /\ w.cert = c /\ w.who = v.who
  <2>1. v.pc \in Active \union {"write"} /\ "tombstone" \in Active  BY <1>3 DEF Active
  <2>. QED  BY <1>2, <2>1, Moved
<1> HIDE DEF w
<1>5. /\ ranges \subseteq ranges' /\ noRange \subseteq noRange' /\ noRange' \subseteq RevCerts
      /\ Entered(c)'
      /\ UNCHANGED <<rclock, row, crlCache, bld, acked, by>>
  BY <1>1, <1>2 DEF RevokeRange, Entered, RevType
<1>6. /\ RevType' /\ Exclusive' /\ BuildKnows' /\ Asked' /\ RevokerEntitled'
      /\ rev'[r] = w /\ \A s \in Revokers \ {r} : rev'[s] = rev[s]
  <2>1. rev[r].pc \in Active /\ w.pc \in Active  BY <1>1, <1>3, <1>4 DEF Active
  <2>2. crlCache' \in [RevCas -> Crl]  BY <1>5 DEF RevType
  <2>. QED  BY <2>1, <2>2, <1>1, <1>2, <1>3, <1>4, <1>5, Proceeds
<1>7. CacheKnows'
  <2>1. \A s \in Revokers : ToDrop(s) => ToDrop(s)' /\ rev'[s].cert = rev[s].cert
    BY <1>1, <1>2, <1>3, <1>4, <1>6 DEF ToDrop, Active
  <2>. QED  BY <2>1, <1>5, CacheStays
<1>8. RangeKnown'  BY <1>1, <1>2, <1>4, <1>5, <1>6, RangesStay
<1>. QED  BY <1>6, <1>7, <1>8

(* The tombstone; an operator's request ends with it.                      *)
LEMMA TombstoneKeeps ==
    ASSUME RevInv, NEW r \in Revokers, on_cert_tombstone(r)
    PROVE  RevInv'
<1> USE DEF RevInv
<1>1. PICK v \in Request : v = rev[r]  BY DEF RevType
<1>2. PICK c \in RevCerts : c = v.cert  BY <1>1, Shapes DEF on_cert_tombstone, Active
<1>3. PICK w : w = IF v.who.kind = "operator" THEN DoneRev ELSE [v EXCEPT !.pc = "invalidate"]  OBVIOUS
<1>4. /\ v.pc = "tombstone" /\ rev' = [rev EXCEPT ![r] = w]
      /\ acked' = IF v.who.kind = "operator" THEN acked \union {c} ELSE acked
      /\ UNCHANGED <<rclock, row, ranges, crlCache, bld, by, noRange>>
  BY <1>1, <1>2, <1>3 DEF on_cert_tombstone, Finish
<1>5. /\ w \in Request
      /\ v.who.kind = "operator" => w.pc = "done"
      /\ v.who.kind # "operator" => w.pc = "invalidate" /\ w.cert = c /\ w.who = v.who
  <2>1. v.pc \in Active \union {"write"} /\ "invalidate" \in Active  BY <1>4 DEF Active
  <2>2. DoneRev \in Request /\ DoneRev.pc = "done"  BY DEF DoneRev, Request
  <2>. QED  BY <1>2, <1>3, <2>1, <2>2, Moved
<1>6. /\ RevType' /\ Exclusive' /\ BuildKnows' /\ Asked' /\ RevokerEntitled'
      /\ rev'[r] = w /\ \A s \in Revokers \ {r} : rev'[s] = rev[s]
  <2>1. rev[r].pc \in Active /\ "invalidate" \in Active  BY <1>1, <1>4 DEF Active
  <2>2. crlCache' \in [RevCas -> Crl] /\ noRange' \subseteq RevCerts  BY <1>4 DEF RevType
  <2>3. \/ w.pc \in Active /\ w.cert = rev[r].cert /\ w.who = rev[r].who /\ acked' = acked
        \/ w.pc = "done" /\ acked' = acked \union {rev[r].cert}
    BY <1>1, <1>2, <1>4, <1>5, <2>1
  <2>. QED  BY <2>1, <2>2, <2>3, <1>4, <1>5, Proceeds
<1>7. Entered(c) /\ Entered(c)'
  <2>1. Entered(c)  BY <1>1, <1>2, <1>4 DEF RangeKnown, PastRange
  <2>. QED  BY <2>1, <1>4 DEF Entered
<1>8. CacheKnows'
  <2>1. \A s \in Revokers : ToDrop(s) => ToDrop(s)' /\ rev'[s].cert = rev[s].cert
    BY <1>1, <1>2, <1>4, <1>5, <1>6 DEF ToDrop, Active
  <2>. QED  BY <2>1, <1>4, CacheStays
<1>9. RangeKnown'
  <2>1. PastRange(rev'[r]) => rev'[r].cert = c  BY <1>5, <1>6 DEF PastRange
  <2>. QED  BY <2>1, <1>1, <1>2, <1>4, <1>6, <1>7, RangesStay
<1>. QED  BY <1>6, <1>8, <1>9

(* The cached list is dropped: first thing of an operator's request, last  *)
(* of a subscriber's.                                                      *)
LEMMA InvalidateKeeps ==
    ASSUME RevInv, NEW r \in Revokers, NEW found \in BOOLEAN, RevokeInvalidate(r, found)
    PROVE  RevInv'
<1> USE DEF RevInv
<1>1. PICK v \in Request : v = rev[r]  BY DEF RevType
<1>2. PICK c \in RevCerts : c = v.cert  BY <1>1, Shapes DEF RevokeInvalidate, Active
<1>3. PICK w : w = IF v.who.kind = "operator" THEN [v EXCEPT !.pc = IF found THEN "range" ELSE "tombstone"] ELSE DoneRev
  OBVIOUS
<1>4. /\ v.pc = "invalidate" /\ rev' = [rev EXCEPT ![r] = w]
      /\ acked' = IF v.who.kind = "operator" THEN acked ELSE acked \union {c}
      /\ v.who.kind = "operator" /\ ~found => noRange' = (IF Info[c].index = NoIndex THEN noRange ELSE noRange \union {c})
      /\ v.who.kind # "operator" \/ found => noRange' = noRange
      /\ UNCHANGED <<rclock, row, ranges, bld, by>>
  BY <1>1, <1>2, <1>3 DEF RevokeInvalidate, Finish
<1>5. /\ crlCache' \in [RevCas -> Crl] /\ ~crlCache'[Info[c].ca].cached
      /\ \A ca \in RevCas : ~crlCache'[ca].cached \/ crlCache'[ca] = crlCache[ca]
  <2>1. NoCrl \in Crl /\ ~NoCrl.cached  BY DEF NoCrl, Crl
  <2>2. Info[c].ca \in RevCas  BY RevocationAssumption
  <2>3. crlCache' = [crlCache EXCEPT ![Info[c].ca] = NoCrl] \/ crlCache' = [ca \in RevCas |-> NoCrl]
    BY <1>1, <1>2 DEF RevokeInvalidate, invalidate_crl_cache
  <2>. QED  BY <2>1, <2>2, <2>3 DEF RevType
<1>6. /\ w \in Request
      /\ v.who.kind # "operator" => w.pc = "done"
      /\ v.who.kind = "operator" => w.pc = (IF found THEN "range" ELSE "tombstone") /\ w.cert = c /\ w.who = v.who
  <2>1. v.pc \in Active \union {"write"} /\ "range" \in Active /\ "tombstone" \in Active  BY <1>4 DEF Active
  <2>2. DoneRev \in Request /\ DoneRev.pc = "done"  BY DEF DoneRev, Request
  <2>. QED  BY <1>2, <1>3, <2>1, <2>2, Moved
<1>7. /\ RevType' /\ Exclusive' /\ BuildKnows' /\ Asked' /\ RevokerEntitled'
      /\ rev'[r] = w /\ \A s \in Revokers \ {r} : rev'[s] = rev[s]
  <2>1. rev[r].pc \in Active /\ "range" \in Active /\ "tombstone" \in Active  BY <1>1, <1>4 DEF Active
  <2>2. noRange' \subseteq RevCerts  BY <1>4 DEF RevType
  <2>3. \/ w.pc \in Active /\ w.cert = rev[r].cert /\ w.who = rev[r].who /\ acked' = acked
        \/ w.pc = "done" /\ acked' = acked \union {rev[r].cert}
    BY <1>1, <1>2, <1>4, <1>6, <2>1
  <2>. QED  BY <2>1, <2>2, <2>3, <1>4, <1>5, <1>6, Proceeds
<1>8. CacheKnows'
  <2>1. \A s \in Revokers \ {r} : ToDrop(s) => ToDrop(s)' /\ rev'[s].cert = rev[s].cert
    BY <1>7 DEF ToDrop
  <2>2. \A ca \in RevCas : Info[c].ca = ca => ~crlCache'[ca].cached  BY <1>5
  <2>. QED  BY <2>1, <2>2, <1>1, <1>2, <1>4, <1>5, CacheStays
<1>9. RangeKnown'
  <2>1. v.who.kind # "operator" => Entered(c)  BY <1>1, <1>2, <1>4 DEF RangeKnown, PastRange
  <2>2. v.who.kind # "operator" => Entered(c)'  BY <2>1, <1>4 DEF Entered
  <2>3. PastRange(rev'[r]) => rev'[r].cert = c /\ v.who.kind = "operator" /\ ~found  BY <1>6, <1>7 DEF PastRange
  <2>4. v.who.kind = "operator" /\ ~found => Entered(c)'  BY <1>4 DEF Entered
  <2>5. ranges \subseteq ranges' /\ noRange \subseteq noRange'  BY <1>4
  <2>. QED  BY <2>2, <2>3, <2>4, <2>5, <1>1, <1>2, <1>4, <1>7, RangesStay
<1>. QED  BY <1>7, <1>8, <1>9

(* An operator forces new lists.                                           *)
LEMMA ForceKeeps ==
    ASSUME RevInv, NEW who, post_crl_force(who)
    PROVE  RevInv'
<1> USE DEF RevInv
<1>1. UNCHANGED <<rclock, row, ranges, rev, bld, acked, by, noRange>>  BY DEF post_crl_force
<1>2. /\ crlCache' \in [RevCas -> Crl]
      /\ \A ca \in RevCas : ~crlCache'[ca].cached \/ crlCache'[ca] = crlCache[ca]
  <2>1. NoCrl \in Crl /\ ~NoCrl.cached  BY DEF NoCrl, Crl
  <2>2. crlCache' = [crlCache EXCEPT ![who.ca] = NoCrl] \/ crlCache' = [ca \in RevCas |-> NoCrl]
    BY DEF post_crl_force, invalidate_crl_cache
  <2>. QED  BY <2>1, <2>2 DEF RevType
<1>3. RevType'  BY <1>1, <1>2 DEF RevType
<1>4. CacheKnows'
  <2>1. \A s \in Revokers : ToDrop(s) => ToDrop(s)' /\ rev'[s].cert = rev[s].cert  BY <1>1 DEF ToDrop
  <2>. QED  BY <2>1, <1>1, <1>2, CacheStays
<1>5. Exclusive' /\ BuildKnows' /\ RangeKnown' /\ Asked' /\ RevokerEntitled'
  BY <1>1 DEF Exclusive, BuildKnows, RangeKnown, Asked, RevokerEntitled, Revoked, Entered, PastRange
<1>. QED  BY <1>3, <1>4, <1>5

(* The steps of a CRL request.                                             *)
LEMMA CrlKeeps ==
    ASSUME RevInv, NEW b \in Builders,
           (\E ca \in RevCas : CrlList(b, ca)) \/ build_crl(b) \/ CrlStore(b)
    PROVE  RevInv'
<1> USE DEF RevInv
<1>1. UNCHANGED <<rclock, row, ranges, rev, acked, by, noRange>>  BY DEF CrlList, build_crl, CrlStore
<1>2. Exclusive' /\ RangeKnown' /\ Asked' /\ RevokerEntitled'
  BY <1>1 DEF Exclusive, RangeKnown, Asked, RevokerEntitled, Revoked, Entered, PastRange
<1>3. \A s \in Revokers : ToDrop(s) => ToDrop(s)' /\ rev'[s].cert = rev[s].cert  BY <1>1 DEF ToDrop
<1>4. ASSUME NEW ca \in RevCas, CrlList(b, ca) PROVE RevType' /\ CacheKnows' /\ BuildKnows'
  <2> DEFINE n == [pc |-> "sign", ca |-> ca, set |-> list_revoked(ca), missed |-> {}]
  <2>1. bld' = [bld EXCEPT ![b] = n] /\ crlCache' = crlCache  BY <1>4 DEF CrlList
  <2>2. n \in Build /\ n.pc = "sign" /\ n.ca = ca /\ n.set = list_revoked(ca)  BY DEF Build, list_revoked
  <2> HIDE DEF n
  <2>3. RevType'  BY <1>1, <2>1, <2>2 DEF RevType
  <2>4. CacheKnows'  BY <1>1, <1>3, <2>1, CacheStays
  <2>5. BuildKnows'
    <3> SUFFICES ASSUME NEW x \in Builders, bld'[x].pc # "idle"
                PROVE  /\ \A c \in RevCerts : Revoked(c) /\ Info[c].ca = bld'[x].ca => c \in bld'[x].set \union bld'[x].missed
                       /\ \A c \in bld'[x].set : Revoked(c) /\ Info[c].ca = bld'[x].ca
      BY <1>1 DEF BuildKnows, Revoked
    <3>1. CASE x = b
      <4>1. bld'[x] = n  BY <3>1, <2>1 DEF RevType
      <4>. QED  BY <4>1, <2>2 DEF list_revoked, Revoked
    <3>2. CASE x # b
      <4>1. bld'[x] = bld[x]  BY <3>2, <2>1 DEF RevType
      <4>. QED  BY <4>1 DEF BuildKnows
    <3>. QED  BY <3>1, <3>2
  <2>. QED  BY <2>3, <2>4, <2>5
<1>5. PICK v \in Build : v = bld[b]  BY DEF RevType
<1>6. CASE build_crl(b)
  <2> DEFINE n == [v EXCEPT !.pc = "store"]
  <2>1. v.pc = "sign" /\ bld' = [bld EXCEPT ![b] = n] /\ crlCache' = crlCache  BY <1>5, <1>6 DEF build_crl
  <2>2. n \in Build /\ n.pc = "store" /\ n.ca = v.ca /\ n.set = v.set /\ n.missed = v.missed  BY <2>1 DEF Build
  <2> HIDE DEF n
  <2>3. RevType'  BY <1>1, <2>1, <2>2 DEF RevType
  <2>4. CacheKnows'  BY <1>1, <1>3, <2>1, CacheStays
  <2>5. /\ \A x \in Builders \ {b} : bld'[x] = bld[x]
        /\ bld'[b].ca = bld[b].ca /\ bld'[b].set = bld[b].set /\ bld'[b].missed = bld[b].missed /\ bld[b].pc # "idle"
    BY <1>5, <2>1, <2>2 DEF RevType
  <2>6. BuildKnows'  BY <1>1, <2>5 DEF BuildKnows, Revoked
  <2>. QED  BY <1>2, <2>3, <2>4, <2>6
<1>7. CASE CrlStore(b)
  <2> DEFINE n == [cached |-> TRUE, set |-> v.set, missed |-> v.missed, expires |-> rclock + cache_ttl]
  <2>1. /\ v.pc = "store" /\ crlCache' = [crlCache EXCEPT ![v.ca] = n]
        /\ bld' = [bld EXCEPT ![b] = IdleRev]
    BY <1>5, <1>7 DEF CrlStore
  <2>2. v.ca \in RevCas /\ v.set \subseteq RevCerts /\ v.missed \subseteq RevCerts  BY <1>5, <2>1, Shapes
  <2>3. cache_ttl \in Nat  BY RevocationAssumption DEF cache_ttl
  <2>4. n \in Crl /\ n.set = v.set /\ n.missed = v.missed
    <3>1. rclock + cache_ttl \in Nat  BY <2>3 DEF RevType
    <3>. QED  BY <2>2, <3>1 DEF Crl
  <2> HIDE DEF n
  <2>5. IdleRev \in Build /\ IdleRev.pc = "idle"  BY DEF IdleRev, Build
  <2>6. RevType'  BY <1>1, <2>1, <2>2, <2>4, <2>5 DEF RevType
  <2>7. BuildKnows'
    <3>1. \A x \in Builders : bld'[x].pc # "idle" => bld'[x] = bld[x]  BY <2>1, <2>5 DEF RevType
    <3>. QED  BY <3>1, <1>1 DEF BuildKnows, Revoked
  <2>8. CacheKnows'
    <3> SUFFICES ASSUME NEW ca \in RevCas, crlCache'[ca].cached
                PROVE  /\ \A c \in RevCerts : Revoked(c) /\ Info[c].ca = ca =>
                             \/ c \in crlCache'[ca].set \union crlCache'[ca].missed
                             \/ \E r \in Revokers : ToDrop(r)' /\ rev'[r].cert = c
                       /\ \A c \in crlCache'[ca].set : Revoked(c) /\ Info[c].ca = ca
      BY <1>1 DEF CacheKnows, Revoked
    <3>1. CASE ca = v.ca
      <4>1. crlCache'[ca].set = v.set /\ crlCache'[ca].missed = v.missed  BY <3>1, <2>1, <2>4 DEF RevType
      <4>. QED  BY <3>1, <4>1, <1>5, <2>1 DEF BuildKnows
    <3>2. CASE ca # v.ca
      <4>1. crlCache'[ca] = crlCache[ca]  BY <3>2, <2>1 DEF RevType
      <4>2. ASSUME NEW c \in RevCerts, Revoked(c), Info[c].ca = ca, c \notin crlCache[ca].set \union crlCache[ca].missed
            PROVE  \E r \in Revokers : ToDrop(r)' /\ rev'[r].cert = c
        BY <4>1, <4>2, <1>3 DEF CacheKnows
      <4>. QED  BY <4>1, <4>2 DEF CacheKnows
    <3>. QED  BY <3>1, <3>2
  <2>. QED  BY <1>2, <2>6, <2>7, <2>8
<1>. QED  BY <1>2, <1>4, <1>6, <1>7

(* A restart forgets the requests and with them the lists.                 *)
LEMMA CrashKeeps ==
    ASSUME RevInv, RevCrash
    PROVE  RevInv'
<1> USE DEF RevInv
<1>1. /\ UNCHANGED <<rclock, row, ranges, acked, by, noRange>>
      /\ rev' = [r \in Revokers |-> IF rev[r].pc = "idle" THEN IdleRev ELSE DoneRev]
      /\ bld' = [b \in Builders |-> IdleRev] /\ crlCache' = [ca \in RevCas |-> NoCrl]
  BY DEF RevCrash
<1>2. {IdleRev, DoneRev} \subseteq Request /\ IdleRev.pc = "idle" /\ DoneRev.pc = "done" /\ IdleRev \in Build
  BY DEF IdleRev, DoneRev, Request, Build
<1>3. NoCrl \in Crl /\ ~NoCrl.cached  BY DEF NoCrl, Crl
<1>4. RevType'  BY <1>1, <1>2, <1>3 DEF RevType
<1>5. /\ \A r \in Revokers : rev'[r].pc \in {"idle", "done"}
      /\ \A b \in Builders : bld'[b].pc = "idle"
      /\ \A ca \in RevCas : ~crlCache'[ca].cached
  BY <1>1, <1>2, <1>3
<1>6. CacheKnows' /\ BuildKnows'  BY <1>5 DEF CacheKnows, BuildKnows
<1>7. Exclusive'  BY <1>1, <1>5 DEF Exclusive, Revoked, Active
<1>8. RangeKnown'  BY <1>1, <1>5 DEF RangeKnown, Entered, PastRange
<1>9. Asked' /\ RevokerEntitled'  BY <1>1, <1>5 DEF Asked, RevokerEntitled
<1>. QED  BY <1>4, <1>6, <1>7, <1>8, <1>9

-----------------------------------------------------------------------------
LEMMA RevNextInv == RevInv /\ [RevNext]_revVars => RevInv'
<1> SUFFICES ASSUME RevInv, [RevNext]_revVars PROVE RevInv'  OBVIOUS
<1>1. ASSUME NEW r \in Revokers, NEW c \in RevCerts, NEW who \in RevActors, revoke_cert(r, c, who) \/ post_revoke(r, c, who)
      PROVE  RevInv'
  BY <1>1, AskKeeps
<1>2. ASSUME NEW r \in Revokers, RevokeWrite(r) PROVE RevInv'  BY <1>2, WriteKeeps
<1>3. ASSUME NEW r \in Revokers, on_cert_tombstone(r) PROVE RevInv'  BY <1>3, TombstoneKeeps
<1>4. ASSUME NEW r \in Revokers, NEW ok \in BOOLEAN, RevokeRange(r, ok) PROVE RevInv'  BY <1>4, RangeKeeps
<1>5. ASSUME NEW r \in Revokers, NEW ok \in BOOLEAN, RevokeInvalidate(r, ok) PROVE RevInv'  BY <1>5, InvalidateKeeps
<1>6. ASSUME NEW who \in RevActors, post_crl_force(who) PROVE RevInv'  BY <1>6, ForceKeeps
<1>7. ASSUME NEW b \in Builders, (\E ca \in RevCas : CrlList(b, ca)) \/ build_crl(b) \/ CrlStore(b) PROVE RevInv'
  BY <1>7, CrlKeeps
<1>8. CASE RevCrash  BY <1>8, CrashKeeps
<1>9. CASE RevTick
  <2>1. rclock' \in Nat /\ UNCHANGED <<row, ranges, crlCache, rev, bld, acked, by, noRange>>
    BY <1>9 DEF RevTick, RevInv, RevType
  <2>2. RevType'  BY <2>1 DEF RevInv, RevType
  <2>3. Exclusive' /\ BuildKnows' /\ RangeKnown' /\ Asked' /\ RevokerEntitled'
    BY <2>1 DEF RevInv, Exclusive, BuildKnows, RangeKnown, Asked, RevokerEntitled, Revoked, Entered, PastRange
  <2>4. CacheKnows'  BY <2>1 DEF RevInv, CacheKnows, Revoked, ToDrop
  <2>. QED  BY <2>2, <2>3, <2>4 DEF RevInv
<1>10. CASE UNCHANGED revVars
  <2>1. UNCHANGED <<rclock, row, ranges, crlCache, rev, bld, acked, by, noRange>>  BY <1>10 DEF revVars
  <2>2. RevType'  BY <2>1 DEF RevInv, RevType
  <2>3. Exclusive' /\ BuildKnows' /\ RangeKnown' /\ Asked' /\ RevokerEntitled'
    BY <2>1 DEF RevInv, Exclusive, BuildKnows, RangeKnown, Asked, RevokerEntitled, Revoked, Entered, PastRange
  <2>4. CacheKnows'  BY <2>1 DEF RevInv, CacheKnows, Revoked, ToDrop
  <2>. QED  BY <2>2, <2>3, <2>4 DEF RevInv
<1>. QED  BY <1>1, <1>2, <1>3, <1>4, <1>5, <1>6, <1>7, <1>8, <1>9, <1>10 DEF RevNext

(* The invariant implies what is served: a cached list may lack only what  *)
(* was revoked during its making, for a request that acknowledged has      *)
(* nothing left to drop.                                                   *)
LEMMA InvServes == RevInv => RevocationsServed
<1> SUFFICES ASSUME RevInv PROVE RevocationsServed  OBVIOUS
<1> USE DEF RevInv
<1>1. CrlFresh
  <2> SUFFICES ASSUME NEW ca \in RevCas, Served(ca), NEW c \in acked, Info[c].ca = ca
              PROVE  c \in crlCache[ca].set \union crlCache[ca].missed
    BY DEF CrlFresh
  <2>1. c \in RevCerts /\ Revoked(c) /\ crlCache[ca].cached  BY DEF RevType, Exclusive, Served
  <2>2. \A r \in Revokers : ToDrop(r) => rev[r].cert # c  BY DEF ToDrop, Exclusive, Active
  <2>. QED  BY <2>1, <2>2 DEF CacheKnows
<1>2. CrlAgreesWithOcsp
  BY DEF CrlAgreesWithOcsp, Served, CacheKnows, Revoked, handle_ocsp_request
<1>3. RangesCoverRevoked  BY DEF RangesCoverRevoked, RangeKnown, Entered
<1>. QED  BY <1>1, <1>2, <1>3 DEF RevocationsServed

(* However revocation requests, CRL builds, forced rebuilds and restarts    *)
(* interleave: a served CRL lists every acknowledged revocation of its CA  *)
(* that was not made while the list was being built, and only revoked      *)
(* certificates; the log's revoked ranges contain every acknowledged       *)
(* revocation whose insertion did not fail; and only who may has revoked   *)
(* (routes/revoke.rs, routes/admin/certs.rs, routes/crl.rs).               *)
THEOREM RevocationsAreServed == RevSpec => []RevocationsServed
<1>. QED  BY RevInitInv, RevNextInv, InvServes, PTL DEF RevSpec

-----------------------------------------------------------------------------
(***************************************************************************)
(* STAR. That the served certificate is valid now is not inductive: Timely *)
(* says how long it lasts. What the current round has still to look at     *)
(* lasts until the round is over (its clock plus MaxLag), everything else  *)
(* until the next round is over (plus another MaxLag), and Paced bounds    *)
(* how far the clock runs ahead of the rounds. ListedOk keeps the rows a   *)
(* round listed, and what it signed, true to rows that subscribers may     *)
(* cancel.                                                                 *)
(***************************************************************************)
StarRow == [placed : {TRUE}, terms : StarTerms, canceled : BOOLEAN]
StarRows == [StarOrders -> StarRow \union {NoOrder}]
StarCert == [nb : Int, na : Int]
NextRound == [pc : {"next"}, todo : SUBSET StarOrders, now : Nat, rows : StarRows]
PersistRound == [pc : {"persist"}, todo : SUBSET StarOrders, now : Nat, rows : StarRows, order : StarOrders, cert : StarCert]

StarTypes ==
    /\ sclock \in Nat /\ lastRound \in Nat
    /\ sorder \in StarRows
    /\ scerts \in [StarOrders -> Seq(StarCert)]
    /\ \A o \in StarOrders : sorder[o] \in StarRow => scerts[o] # <<>>
    /\ round = IdleRound \/ round \in NextRound \/ round \in PersistRound

(* The listed rows still name the terms, and what was signed follows them. *)
Patient(t) == /\ t.adjust <= 0 /\ t.lifetime \div 2 > 2 * MaxLag - 2
              /\ \A w \in FirstWindow : w >= 2 * MaxLag
ListedOk ==
    /\ round \in NextRound \/ round \in PersistRound =>
         /\ round.now = lastRound
         /\ \A o \in round.todo : sorder[o] \in StarRow /\ round.rows[o] \in StarRow /\ round.rows[o].terms = sorder[o].terms
    /\ round \in PersistRound =>
         /\ sorder[round.order] \in StarRow
         /\ round.cert.na <= sorder[round.order].terms.end
         /\ Patient(sorder[round.order].terms) =>
               /\ round.cert.nb = round.now
               /\ round.cert.na >= round.now + 2 * MaxLag \/ round.cert.na = sorder[round.order].terms.end

(* The latest certificate outlives the round that has still to look at it, *)
(* or the whole next round.                                                *)
Pending(o) == \/ (round \in NextRound \/ round \in PersistRound) /\ o \in round.todo
              \/ round \in PersistRound /\ o = round.order
Cared(o) == o \notin unlucky /\ sorder[o] \in StarRow /\ ~sorder[o].canceled /\ Patient(sorder[o].terms)
Ample(o, x) == LET c == get_latest_for_order(o) IN
    c.na >= x \/ c.na >= sorder[o].terms.end \/ sorder[o].terms.end <= sclock
Timely ==
    \A o \in StarOrders : Cared(o) =>
        /\ get_latest_for_order(o).nb <= sclock
        /\ Ample(o, lastRound + MaxLag)
        /\ ~Pending(o) => Ample(o, lastRound + 2 * MaxLag)
Paced == /\ lastRound <= sclock /\ sclock <= lastRound + MaxLag
         /\ round \in NextRound \/ round \in PersistRound => sclock < lastRound + MaxLag
StarInv == StarTypes /\ ListedOk /\ Timely /\ Paced /\ RenewalsEndInTime

LEMMA RowKinds ==
    /\ NoOrder \notin StarRow
    /\ IdleRound \notin NextRound /\ IdleRound \notin PersistRound
    /\ \A r \in NextRound : r \notin PersistRound
<1>1. NoOrder \notin StarRow  BY DEF NoOrder, StarRow
<1>2. IdleRound \notin NextRound /\ IdleRound \notin PersistRound  BY DEF IdleRound, NextRound, PersistRound
<1>3. \A r \in NextRound : r \notin PersistRound  BY DEF NextRound, PersistRound
<1>. QED  BY <1>1, <1>2, <1>3

LEMMA PlacedRow ==
    ASSUME StarInv, NEW o \in StarOrders
    PROVE  sorder[o].placed <=> sorder[o] \in StarRow
<1>1. sorder[o] \in StarRow \union {NoOrder}  BY DEF StarInv, StarTypes, StarRows
<1>2. CASE sorder[o] = NoOrder
  <2>1. NoOrder.placed = FALSE  BY DEF NoOrder
  <2>2. sorder[o].placed = FALSE  BY <1>2, <2>1
  <2>3. sorder[o] \notin StarRow  BY <1>2, RowKinds
  <2>. QED  BY <2>2, <2>3, Zenon
<1>3. CASE sorder[o] \in StarRow
  <2>1. sorder[o].placed = TRUE  BY <1>3 DEF StarRow
  <2>. QED  BY <1>3, <2>1
<1>. QED  BY <1>1, <1>2, <1>3

LEMMA RoundAt ==
    ASSUME StarInv
    PROVE  /\ round.pc = "next" => round \in NextRound
           /\ round.pc = "persist" => round \in PersistRound
           /\ round.pc = "idle" => round = IdleRound
<1>1. round = IdleRound \/ round \in NextRound \/ round \in PersistRound  BY DEF StarInv, StarTypes
<1>. QED  BY <1>1 DEF IdleRound, NextRound, PersistRound

(* Numbers: the terms and the certificates.                                *)
LEMMA TermNumbers ==
    ASSUME NEW t \in StarTerms
    PROVE  /\ t.lifetime \in Nat /\ t.adjust \in Int /\ t.end \in Nat /\ MaxLag \in Nat /\ MaxLag > 0
           /\ t.lifetime \div 2 \in Nat /\ t.lifetime \div 2 <= t.lifetime
<1>1. t.lifetime \in Nat /\ t.adjust \in Int /\ t.end \in Nat /\ MaxLag \in Nat /\ MaxLag > 0  BY StarAssumption
<1>. QED  BY <1>1

LEMMA LatestNumbers ==
    ASSUME StarInv, NEW o \in StarOrders, sorder[o] \in StarRow
    PROVE  /\ get_latest_for_order(o) \in StarCert /\ get_latest_for_order(o).na \in Int /\ get_latest_for_order(o).nb \in Int
           /\ sorder[o].terms \in StarTerms
<1>1. scerts[o] \in Seq(StarCert) /\ scerts[o] # <<>>  BY DEF StarInv, StarTypes
<1>2. get_latest_for_order(o) \in StarCert  BY <1>1 DEF get_latest_for_order
<1>. QED  BY <1>2 DEF StarCert, StarRow

LEMMA NewStarOrderKeeps ==
    ASSUME StarInv, NEW o \in StarOrders, NEW t \in StarTerms, NEW w \in FirstWindow, NewStarOrder(o, t, w)
    PROVE  StarInv'
<1>1. StarTypes /\ ListedOk /\ Timely /\ Paced /\ RenewalsEndInTime  BY DEF StarInv
<1>2. UNCHANGED <<sclock, round, lastRound, unlucky>>  BY DEF NewStarOrder
<1>3. sorder[o] \notin StarRow  BY PlacedRow DEF NewStarOrder
<1>4. PICK r : r = [placed |-> TRUE, terms |-> t, canceled |-> FALSE]  OBVIOUS
<1>5. r \in StarRow /\ r.terms = t  BY <1>4 DEF StarRow
<1>6. sorder' \in StarRows /\ sorder'[o] = r /\ \A q \in StarOrders : q # o => sorder'[q] = sorder[q]
  BY <1>1, <1>4, <1>5 DEF NewStarOrder, StarTypes, StarRows
<1>7. PICK c : c = [nb |-> sclock, na |-> sclock + w]  OBVIOUS
<1>8. w \in Nat /\ sclock \in Nat /\ lastRound \in Nat /\ MaxLag \in Nat  BY <1>1, StarAssumption DEF StarTypes
<1>9. c \in StarCert /\ c.nb = sclock /\ c.na = sclock + w  BY <1>7, <1>8 DEF StarCert
<1>10. scerts' = [scerts EXCEPT ![o] = <<c>>]  BY <1>7 DEF NewStarOrder
<1>11. scerts' \in [StarOrders -> Seq(StarCert)] /\ scerts'[o] = <<c>> /\ \A q \in StarOrders : q # o => scerts'[q] = scerts[q]
  BY <1>1, <1>9, <1>10 DEF StarTypes
<1>17. Len(<<c>>) = 1 /\ <<c>> # <<>>  OBVIOUS
<1>12. StarTypes'
  <2>1. \A q \in StarOrders : sorder'[q] \in StarRow => scerts'[q] # <<>>  BY <1>1, <1>6, <1>11, <1>17 DEF StarTypes
  <2>. QED  BY <1>1, <1>2, <1>6, <1>11, <2>1 DEF StarTypes
<1>13. ListedOk'
  <2>1. round \in NextRound \/ round \in PersistRound => round.todo \subseteq StarOrders  BY DEF NextRound, PersistRound
  <2>2. round \in PersistRound => round.order \in StarOrders  BY DEF PersistRound
  <2>. QED  BY <1>1, <1>2, <1>3, <1>6, <2>1, <2>2 DEF ListedOk, Patient
<1>14. Timely'
  <2>. SUFFICES ASSUME NEW q \in StarOrders, Cared(q)'
                PROVE  /\ get_latest_for_order(q)'.nb <= sclock /\ Ample(q, lastRound + MaxLag)'
                       /\ ~Pending(q) => Ample(q, lastRound + 2 * MaxLag)'
    BY <1>2 DEF Timely, Pending
  <2>1. CASE q = o
    <3>1. get_latest_for_order(q)' = c  BY <1>11, <2>1 DEF get_latest_for_order
    <3>2. w >= 2 * MaxLag  BY DEF Cared, Patient
    <3>3. c.na >= lastRound + 2 * MaxLag /\ c.na >= lastRound + MaxLag /\ c.nb <= sclock  BY <1>1, <1>8, <1>9, <3>2 DEF Paced
    <3>. QED  BY <1>2, <3>1, <3>3 DEF Ample
  <2>2. CASE q # o
    <3>1. Cared(q)  BY <1>2, <1>6, <2>2 DEF Cared, Patient
    <3>2. get_latest_for_order(q)' = get_latest_for_order(q)  BY <1>11, <2>2 DEF get_latest_for_order
    <3>. QED  BY <1>1, <1>2, <1>6, <2>2, <3>1, <3>2 DEF Timely, Ample
  <2>. QED  BY <2>1, <2>2
<1>15. Paced'  BY <1>1, <1>2 DEF Paced
<1>16. RenewalsEndInTime'
  <2>. SUFFICES ASSUME NEW q \in StarOrders, NEW i \in 2..Len(scerts'[q]) PROVE scerts'[q][i].na <= sorder'[q].terms.end
    BY DEF RenewalsEndInTime
  <2>1. q # o
    <3>1. CASE q = o
      <4>1. Len(scerts'[q]) = 1  BY <1>11, <1>17, <3>1
      <4>. QED  BY <4>1
    <3>. QED  BY <3>1
  <2>. QED  BY <1>1, <1>6, <1>11, <2>1 DEF RenewalsEndInTime
<1>. QED  BY <1>12, <1>13, <1>14, <1>15, <1>16 DEF StarInv

LEMMA CancelKeeps ==
    ASSUME StarInv, NEW o \in StarOrders, cancel_star(o)
    PROVE  StarInv'
<1>1. StarTypes /\ ListedOk /\ Timely /\ Paced /\ RenewalsEndInTime  BY DEF StarInv
<1>2. UNCHANGED <<sclock, scerts, round, lastRound, unlucky>>  BY DEF cancel_star
<1>3. sorder[o] \in StarRow  BY PlacedRow DEF cancel_star
<1>4. PICK r : r = [sorder[o] EXCEPT !.canceled = TRUE]  OBVIOUS
<1>5. r \in StarRow /\ r.terms = sorder[o].terms /\ r.canceled = TRUE  BY <1>3, <1>4 DEF StarRow
<1>6. sorder' = [sorder EXCEPT ![o] = r]  BY <1>4 DEF cancel_star
<1>7. sorder' \in StarRows /\ sorder'[o] = r /\ \A q \in StarOrders : q # o => sorder'[q] = sorder[q]
  BY <1>1, <1>5, <1>6 DEF StarTypes, StarRows
<1>8. \A q \in StarOrders : sorder'[q].terms = sorder[q].terms /\ (sorder'[q] \in StarRow <=> sorder[q] \in StarRow)
  BY <1>3, <1>5, <1>7
<1>9. StarTypes'  BY <1>1, <1>2, <1>7, <1>8 DEF StarTypes
<1>10. ListedOk'
  <2>1. round \in NextRound \/ round \in PersistRound => round.todo \subseteq StarOrders  BY DEF NextRound, PersistRound
  <2>2. round \in PersistRound => round.order \in StarOrders  BY DEF PersistRound
  <2>. QED  BY <1>1, <1>2, <1>8, <2>1, <2>2 DEF ListedOk, Patient
<1>11. Timely'
  <2>1. \A q \in StarOrders : Cared(q)' => Cared(q)
    <3>. SUFFICES ASSUME NEW q \in StarOrders, Cared(q)' PROVE Cared(q)  OBVIOUS
    <3>1. q # o  BY <1>5, <1>7 DEF Cared
    <3>. QED  BY <1>2, <1>7, <3>1 DEF Cared, Patient
  <2>. QED  BY <1>1, <1>2, <1>8, <2>1 DEF Timely, Pending, Ample, get_latest_for_order
<1>12. Paced' /\ RenewalsEndInTime'  BY <1>1, <1>2, <1>8 DEF Paced, RenewalsEndInTime
<1>. QED  BY <1>9, <1>10, <1>11, <1>12 DEF StarInv

(* The renewal task moves; what it leaves behind has been looked at, or is *)
(* among the unlucky.                                                      *)
LEMMA TaskMoves ==
    ASSUME StarInv, UNCHANGED <<sclock, sorder, scerts, lastRound>>, unlucky \subseteq unlucky', ListedOk',
           round' = IdleRound \/ (round # IdleRound /\ (round' \in NextRound \/ round' \in PersistRound)),
           \A q \in StarOrders : q \notin unlucky' /\ Pending(q) /\ ~Pending(q)' /\ Cared(q) => Ample(q, lastRound + 2 * MaxLag)
    PROVE  StarInv'
<1>1. StarTypes /\ ListedOk /\ Timely /\ Paced /\ RenewalsEndInTime  BY DEF StarInv
<1>2. StarTypes' /\ RenewalsEndInTime'  BY <1>1 DEF StarTypes, RenewalsEndInTime
<1>3. Paced'
  <2>1. round # IdleRound => round \in NextRound \/ round \in PersistRound  BY <1>1 DEF StarTypes
  <2>. QED  BY <1>1, <2>1, RowKinds DEF Paced
<1>4. Timely'
  <2>. SUFFICES ASSUME NEW q \in StarOrders, Cared(q)'
                PROVE  /\ get_latest_for_order(q).nb <= sclock /\ Ample(q, lastRound + MaxLag)
                       /\ ~Pending(q)' => Ample(q, lastRound + 2 * MaxLag)
    BY DEF Timely, Ample, get_latest_for_order
  <2>1. q \notin unlucky' /\ Cared(q)  BY DEF Cared, Patient
  <2>. QED  BY <1>1, <2>1 DEF Timely
<1>. QED  BY <1>2, <1>3, <1>4 DEF StarInv

LEMMA EndKeeps ==
    ASSUME StarInv, EndRound \/ StarCrash
    PROVE  StarInv'
<1>1. UNCHANGED <<sclock, sorder, scerts, lastRound>> /\ round' = IdleRound  BY DEF EndRound, StarCrash
<1>2. ListedOk'  BY <1>1, RowKinds DEF ListedOk
<1>3. unlucky \subseteq unlucky'  BY DEF EndRound, StarCrash
<1>4. \A q \in StarOrders : Pending(q) => q \in unlucky'
  <2>1. CASE EndRound
    <3>1. round \in NextRound /\ round.todo = {}  BY <2>1, RoundAt DEF EndRound
    <3>. QED  BY <3>1, RowKinds DEF Pending
  <2>2. CASE StarCrash
    <3>1. round \in PersistRound => round.pc = "persist"  BY DEF PersistRound
    <3>. QED  BY <2>2, <3>1 DEF StarCrash, Pending
  <2>. QED  BY <2>1, <2>2
<1>. QED  BY <1>1, <1>2, <1>3, <1>4, TaskMoves

LEMMA BeginKeeps ==
    ASSUME StarInv, BeginRound
    PROVE  StarInv'
<1>1. StarTypes /\ ListedOk /\ Timely /\ Paced /\ RenewalsEndInTime  BY DEF StarInv
<1>2. UNCHANGED <<sclock, sorder, scerts, unlucky>> /\ lastRound' = sclock /\ sclock > lastRound  BY DEF BeginRound
<1>3. round' = [pc |-> "next", todo |-> list_active_star, now |-> sclock, rows |-> sorder]  BY DEF BeginRound
<1>4. sclock \in Nat /\ lastRound \in Nat /\ sorder \in StarRows /\ MaxLag \in Nat /\ MaxLag > 0  BY <1>1, StarAssumption DEF StarTypes
<1>5. list_active_star \subseteq StarOrders /\ \A q \in list_active_star : sorder[q] \in StarRow
  BY PlacedRow DEF list_active_star
<1>6. round' \in NextRound /\ round'.todo = list_active_star /\ round'.now = sclock /\ round'.rows = sorder
  BY <1>3, <1>4, <1>5 DEF NextRound
<1>7. round' \notin PersistRound  BY <1>6, RowKinds
<1>8. StarTypes' /\ RenewalsEndInTime'  BY <1>1, <1>2, <1>4, <1>6 DEF StarTypes, RenewalsEndInTime
<1>9. ListedOk'  BY <1>2, <1>5, <1>6, <1>7 DEF ListedOk
<1>10. Paced'  BY <1>2, <1>4 DEF Paced
<1>11. Timely'
  <2>. SUFFICES ASSUME NEW q \in StarOrders, Cared(q)'
                PROVE  /\ get_latest_for_order(q).nb <= sclock /\ Ample(q, sclock + MaxLag) /\ Pending(q)'
    BY <1>2 DEF Timely, Ample, get_latest_for_order
  <2>1. Cared(q) /\ sorder[q] \in StarRow /\ ~sorder[q].canceled  BY <1>2 DEF Cared, Patient
  <2>2. Pending(q)'
    <3>1. sorder[q].placed  BY <2>1, PlacedRow
    <3>. QED  BY <1>6, <2>1, <3>1 DEF Pending, list_active_star
  <2>3. ~Pending(q)  BY RowKinds, RoundAt DEF BeginRound, Pending
  <2>4. get_latest_for_order(q).na \in Int /\ sorder[q].terms \in StarTerms  BY <2>1, LatestNumbers
  <2>5. sorder[q].terms.end \in Nat  BY <2>4, TermNumbers
  <2>6. Ample(q, sclock + MaxLag)
    <3>1. Ample(q, lastRound + 2 * MaxLag)  BY <1>1, <2>1, <2>3 DEF Timely
    <3>2. lastRound + 2 * MaxLag >= sclock + MaxLag  BY <1>1, <1>4 DEF Paced
    <3>. QED  BY <1>4, <2>4, <2>5, <3>1, <3>2 DEF Ample
  <2>. QED  BY <1>1, <2>1, <2>2, <2>6 DEF Timely
<1>. QED  BY <1>8, <1>9, <1>10, <1>11 DEF StarInv

LEMMA TickKeeps ==
    ASSUME StarInv, StarTick
    PROVE  StarInv'
<1>1. StarTypes /\ ListedOk /\ Timely /\ Paced /\ RenewalsEndInTime  BY DEF StarInv
<1>2. UNCHANGED <<sorder, scerts, round, lastRound, unlucky>> /\ sclock' = sclock + 1 /\ sclock - lastRound < MaxLag  BY DEF StarTick
<1>3. sclock \in Nat /\ lastRound \in Nat /\ MaxLag \in Nat  BY <1>1, StarAssumption DEF StarTypes
<1>4. StarTypes' /\ RenewalsEndInTime' /\ ListedOk'  BY <1>1, <1>2 DEF StarTypes, RenewalsEndInTime, ListedOk, Patient
<1>5. Paced'
  <2>1. round \in NextRound \/ round \in PersistRound => sclock + 1 - lastRound < MaxLag
    <3>1. round \in NextRound \/ round \in PersistRound => round.pc # "idle" /\ round.now = lastRound
      BY <1>1 DEF ListedOk, NextRound, PersistRound
    <3>. QED  BY <3>1 DEF StarTick
  <2>. QED  BY <1>1, <1>2, <1>3, <2>1 DEF Paced
<1>6. Timely'
  <2>. SUFFICES ASSUME NEW q \in StarOrders, Cared(q)
                PROVE  /\ get_latest_for_order(q).nb <= sclock + 1 /\ Ample(q, lastRound + MaxLag)'
                       /\ ~Pending(q) => Ample(q, lastRound + 2 * MaxLag)'
    BY <1>2 DEF Timely, Pending, Cared, Patient, get_latest_for_order
  <2>1. sorder[q] \in StarRow  BY DEF Cared
  <2>2. get_latest_for_order(q).nb \in Int /\ sorder[q].terms \in StarTerms  BY <2>1, LatestNumbers
  <2>3. sorder[q].terms.end \in Nat  BY <2>2, TermNumbers
  <2>4. get_latest_for_order(q).nb <= sclock /\ Ample(q, lastRound + MaxLag) /\ (~Pending(q) => Ample(q, lastRound + 2 * MaxLag))
    BY <1>1 DEF Timely
  <2>5. sorder[q].terms.end <= sclock => sorder[q].terms.end <= sclock + 1  BY <1>3, <2>3
  <2>. QED  BY <1>2, <1>3, <2>2, <2>4, <2>5 DEF Ample, get_latest_for_order
<1>. QED  BY <1>4, <1>5, <1>6 DEF StarInv

(* One listed order: not yet due, it lasts through the next round; due, it *)
(* is signed anew.                                                         *)
LEMMA RenewKeeps ==
    ASSUME StarInv, NEW o \in StarOrders, NEW ok \in BOOLEAN, RenewOne(o, ok)
    PROVE  StarInv'
<1>1. StarTypes /\ ListedOk /\ Timely /\ Paced /\ RenewalsEndInTime  BY DEF StarInv
<1>2. UNCHANGED <<sclock, sorder, scerts, lastRound>> /\ o \in round.todo /\ round.pc = "next" /\ round \in NextRound
  BY RoundAt DEF RenewOne
<1>3. PICK t : t = round.rows[o].terms  OBVIOUS
<1>4. sorder[o] \in StarRow /\ t = sorder[o].terms /\ round.now = lastRound  BY <1>1, <1>2, <1>3 DEF ListedOk
<1>5. PICK c : c = get_latest_for_order(o)  OBVIOUS
<1>6. c.na \in Int /\ t \in StarTerms  BY <1>4, <1>5, LatestNumbers
<1>7. /\ t.lifetime \in Nat /\ t.adjust \in Int /\ t.end \in Nat /\ MaxLag \in Nat /\ MaxLag > 0
      /\ t.lifetime \div 2 \in Nat /\ t.lifetime \div 2 <= t.lifetime
  BY <1>6, TermNumbers
<1>8. round.now \in Nat /\ round.rows \in StarRows /\ round.todo \subseteq StarOrders  BY <1>2 DEF NextRound
<1>9. CASE Due(o, round.now, t) /\ ok
  <2>1. PICK d : d = RenewalWindow(o, round.now, t)  OBVIOUS
  <2>2. d \in StarCert /\ d.na <= t.end /\ (t.adjust <= 0 => d.nb = round.now)
        /\ (t.adjust <= 0 => d.na = round.now + t.lifetime \/ d.na = t.end)
    BY <1>5, <1>6, <1>7, <1>8, <2>1 DEF RenewalWindow, StarCert
  <2>3. round' = [pc |-> "persist", todo |-> round.todo \ {o}, now |-> round.now, rows |-> round.rows, order |-> o, cert |-> d]
        /\ unlucky' = unlucky
    <3>1. [round EXCEPT !.todo = @ \ {o}].todo = round.todo \ {o}  BY <1>2 DEF NextRound
    <3>. QED  BY <1>3, <1>9, <2>1, <3>1 DEF RenewOne
  <2>4. round' \in PersistRound /\ round'.todo = round.todo \ {o} /\ round'.now = round.now /\ round'.rows = round.rows
        /\ round'.order = o /\ round'.cert = d
    BY <1>8, <2>2, <2>3 DEF PersistRound
  <2>5. Patient(t) => d.na >= round.now + 2 * MaxLag \/ d.na = t.end
    <3>. SUFFICES ASSUME Patient(t) PROVE d.na >= round.now + 2 * MaxLag \/ d.na = t.end  OBVIOUS
    <3>1. t.lifetime >= 2 * MaxLag
      <4>1. t.lifetime \div 2 > 2 * MaxLag - 2  BY DEF Patient
      <4>2. t.lifetime >= 2 * (t.lifetime \div 2)  BY <1>7
      <4>. QED  BY <1>7, <4>1, <4>2
    <3>2. t.adjust <= 0  BY DEF Patient
    <3>. QED  BY <1>7, <1>8, <2>2, <3>1, <3>2
  <2>6. ListedOk'
    <3>1. Patient(t) => d.nb = round.now  BY <2>2 DEF Patient
    <3>2. \A q \in round.todo \ {o} : sorder[q] \in StarRow /\ round.rows[q] \in StarRow /\ round.rows[q].terms = sorder[q].terms
      BY <1>1, <1>2 DEF ListedOk
    <3>. QED  BY <1>2, <1>4, <2>2, <2>4, <2>5, <3>1, <3>2 DEF ListedOk, Patient
  <2>7. \A q \in StarOrders : Pending(q) => Pending(q)'
    <3>1. \A q \in StarOrders : Pending(q) => q \in round.todo  BY <1>2, RowKinds DEF Pending
    <3>. QED  BY <2>4, <3>1 DEF Pending
  <2>8. round # IdleRound  BY <1>2, RowKinds
  <2>. QED  BY <1>2, <2>3, <2>4, <2>6, <2>7, <2>8, TaskMoves
<1>10. CASE ~(Due(o, round.now, t) /\ ok)
  <2>1. round' = [round EXCEPT !.todo = @ \ {o}] /\ (ok \/ Due(o, round.now, t)) /\ unlucky' = IF ok THEN unlucky ELSE unlucky \union {o}
    BY <1>3, <1>10 DEF RenewOne
  <2>2. round' \in NextRound /\ round'.todo = round.todo \ {o} /\ round'.now = round.now /\ round'.rows = round.rows
    BY <1>2, <2>1 DEF NextRound
  <2>3. round' \notin PersistRound /\ round # IdleRound  BY <1>2, <2>2, RowKinds
  <2>4. ListedOk'  BY <1>1, <1>2, <2>2, <2>3 DEF ListedOk
  <2>5. \A q \in StarOrders : q \notin unlucky' /\ Pending(q) /\ ~Pending(q)' /\ Cared(q) => Ample(q, lastRound + 2 * MaxLag)
    <3>. SUFFICES ASSUME NEW q \in StarOrders, q \notin unlucky', Pending(q), ~Pending(q)', Cared(q)
                  PROVE  Ample(q, lastRound + 2 * MaxLag)
      OBVIOUS
    <3>1. q = o
      <4>1. q \in round.todo  BY <1>2, RowKinds DEF Pending
      <4>. QED  BY <2>2, <4>1 DEF Pending
    <3>2. ok  BY <2>1, <3>1
    <3>3. ~Due(o, round.now, t)  BY <1>10, <3>2
    <3>4. round.now >= t.end \/ round.now < c.na - t.lifetime \div 2  BY <1>5, <1>6, <1>7, <1>8, <3>3 DEF Due
    <3>5. t.lifetime \div 2 > 2 * MaxLag - 2  BY <1>4, <3>1 DEF Cared, Patient
    <3>6. sclock \in Nat /\ lastRound <= sclock  BY <1>1 DEF StarTypes, Paced
    <3>7. t.end <= sclock \/ c.na >= lastRound + 2 * MaxLag  BY <1>4, <1>6, <1>7, <1>8, <3>4, <3>5, <3>6
    <3>. QED  BY <1>4, <1>5, <3>1, <3>7 DEF Ample
  <2>6. unlucky \subseteq unlucky'  BY <2>1
  <2>. QED  BY <1>2, <2>2, <2>3, <2>4, <2>5, <2>6, TaskMoves
<1>. QED  BY <1>9, <1>10

LEMMA PersistKeeps ==
    ASSUME StarInv, NEW ok \in BOOLEAN, PersistRenewal(ok)
    PROVE  StarInv'
<1>1. StarTypes /\ ListedOk /\ Timely /\ Paced /\ RenewalsEndInTime  BY DEF StarInv
<1>2. UNCHANGED <<sclock, sorder, lastRound>> /\ round.pc = "persist" /\ round \in PersistRound  BY RoundAt DEF PersistRenewal
<1>3. PICK o \in StarOrders : o = round.order  BY <1>2 DEF PersistRound
<1>4. PICK d \in StarCert : d = round.cert  BY <1>2 DEF PersistRound
<1>5. round' \in NextRound /\ round'.todo = round.todo /\ round'.now = round.now /\ round'.rows = round.rows
  BY <1>2 DEF PersistRenewal, PersistRound, NextRound
<1>6. round' \notin PersistRound /\ round # IdleRound  BY <1>2, <1>5, RowKinds
<1>7. ListedOk'  BY <1>1, <1>2, <1>5, <1>6 DEF ListedOk
<1>8. \A q \in StarOrders : Pending(q) /\ ~Pending(q)' => q = o  BY <1>2, <1>3, <1>5 DEF Pending
<1>9. unlucky \subseteq unlucky' /\ (~ok => o \in unlucky')  BY <1>3 DEF PersistRenewal
<1>10. CASE ~(ok /\ StillActive(o))
  <2>1. UNCHANGED scerts  BY <1>3, <1>10 DEF PersistRenewal
  <2>2. Cared(o) => StillActive(o)
    <3>1. Cared(o) => sorder[o].placed  BY PlacedRow DEF Cared
    <3>. QED  BY <3>1 DEF Cared, StillActive
  <2>. QED  BY <1>2, <1>5, <1>6, <1>7, <1>8, <1>9, <1>10, <2>1, <2>2, TaskMoves
<1>11. CASE ok /\ StillActive(o)
  <2>1. scerts' = [scerts EXCEPT ![o] = Append(@, d)] /\ unlucky' = unlucky  BY <1>3, <1>4, <1>11 DEF PersistRenewal
  <2>2. scerts[o] \in Seq(StarCert) /\ sorder[o] \in StarRow /\ sclock \in Nat /\ lastRound \in Nat
    BY <1>1, <1>2, <1>3 DEF StarTypes, ListedOk
  <2>3. scerts'[o] = Append(scerts[o], d) /\ \A q \in StarOrders : q # o => scerts'[q] = scerts[q]
    BY <1>1, <2>1 DEF StarTypes
  <2>4. scerts' \in [StarOrders -> Seq(StarCert)]  BY <1>1, <2>1, <2>2 DEF StarTypes
  <2>5. scerts'[o] # <<>> /\ Len(scerts'[o]) = Len(scerts[o]) + 1 /\ scerts'[o][Len(scerts'[o])] = d
        /\ \A i \in 1..Len(scerts[o]) : scerts'[o][i] = scerts[o][i]
    BY <2>2, <2>3
  <2>6. StarTypes'
    <3>1. \A q \in StarOrders : sorder[q] \in StarRow => scerts'[q] # <<>>  BY <1>1, <2>3, <2>5 DEF StarTypes
    <3>. QED  BY <1>1, <1>2, <1>5, <2>4, <3>1 DEF StarTypes
  <2>7. Paced'  BY <1>1, <1>2, <1>5 DEF Paced
  <2>8. RenewalsEndInTime'
    <3>. SUFFICES ASSUME NEW q \in StarOrders, NEW i \in 2..Len(scerts'[q]) PROVE scerts'[q][i].na <= sorder[q].terms.end
      BY <1>2 DEF RenewalsEndInTime
    <3>1. CASE q # o  BY <1>1, <2>3, <3>1 DEF RenewalsEndInTime
    <3>2. CASE q = o
      <4>1. CASE i = Len(scerts'[q])
        <5>1. scerts'[q][i] = d  BY <2>5, <3>2, <4>1
        <5>. QED  BY <1>1, <1>2, <1>3, <1>4, <3>2, <5>1 DEF ListedOk
      <4>2. CASE i # Len(scerts'[q])
        <5>1. i \in 2..Len(scerts[o]) /\ i \in 1..Len(scerts[o])  BY <2>2, <2>5, <3>2, <4>2
        <5>. QED  BY <1>1, <2>5, <3>2, <5>1 DEF RenewalsEndInTime
      <4>. QED  BY <4>1, <4>2
    <3>. QED  BY <3>1, <3>2
  <2>9. Timely'
    <3>. SUFFICES ASSUME NEW q \in StarOrders, Cared(q)'
                  PROVE  /\ get_latest_for_order(q)'.nb <= sclock /\ Ample(q, lastRound + MaxLag)'
                         /\ ~Pending(q)' => Ample(q, lastRound + 2 * MaxLag)'
      BY <1>2 DEF Timely
    <3>1. Cared(q)  BY <1>2, <2>1 DEF Cared, Patient
    <3>2. CASE q # o
      <4>1. get_latest_for_order(q)' = get_latest_for_order(q)  BY <2>3, <3>2 DEF get_latest_for_order
      <4>. QED  BY <1>1, <1>2, <1>8, <3>1, <3>2, <4>1 DEF Timely, Ample
    <3>3. CASE q = o
      <4>1. get_latest_for_order(q)' = d  BY <2>5, <3>3 DEF get_latest_for_order
      <4>2. Patient(sorder[o].terms) /\ sorder[o].terms \in StarTerms  BY <2>2, <3>1, <3>3 DEF Cared, StarRow
      <4>3. d.nb = lastRound /\ (d.na >= lastRound + 2 * MaxLag \/ d.na = sorder[o].terms.end)
        BY <1>1, <1>2, <1>3, <1>4, <4>2 DEF ListedOk
      <4>4. d.na \in Int /\ sorder[o].terms.end \in Nat /\ MaxLag \in Nat  BY <4>2, TermNumbers DEF StarCert
      <4>5. d.nb <= sclock  BY <1>1, <4>3 DEF Paced
      <4>6. d.na >= sorder[o].terms.end \/ (d.na >= lastRound + 2 * MaxLag /\ d.na >= lastRound + MaxLag)  BY <2>2, <4>3, <4>4
      <4>. QED  BY <1>2, <3>3, <4>1, <4>5, <4>6 DEF Ample
    <3>. QED  BY <3>2, <3>3
  <2>. QED  BY <1>7, <2>6, <2>7, <2>8, <2>9 DEF StarInv
<1>. QED  BY <1>10, <1>11

LEMMA StarStarts == StarInit => StarInv
<1>. SUFFICES ASSUME StarInit PROVE StarInv  OBVIOUS
<1>1. sorder \in StarRows /\ \A o \in StarOrders : sorder[o] \notin StarRow  BY RowKinds DEF StarInit, StarRows
<1>2. scerts \in [StarOrders -> Seq(StarCert)] /\ \A o \in StarOrders : Len(scerts[o]) = 0  BY DEF StarInit
<1>3. StarTypes  BY <1>1, <1>2 DEF StarInit, StarTypes
<1>4. ListedOk  BY RowKinds DEF StarInit, ListedOk
<1>5. Timely  BY <1>1 DEF Timely, Cared
<1>6. Paced  BY StarAssumption, RowKinds DEF Paced, StarInit
<1>7. RenewalsEndInTime  BY <1>2 DEF RenewalsEndInTime
<1>. QED  BY <1>3, <1>4, <1>5, <1>6, <1>7 DEF StarInv

LEMMA StarStep ==
    ASSUME StarInv, [StarNext]_starVars
    PROVE  StarInv'
<1>1. CASE UNCHANGED starVars
  BY <1>1 DEF starVars, StarInv, StarTypes, ListedOk, Timely, Paced, RenewalsEndInTime, Patient, Pending, Cared, Ample, get_latest_for_order
<1>2. CASE StarNext
  BY <1>2, NewStarOrderKeeps, CancelKeeps, BeginKeeps, EndKeeps, RenewKeeps, PersistKeeps, TickKeeps DEF StarNext
<1>. QED  BY <1>1, <1>2

(* Renewals stop in time and, while the rounds keep their pace, follow each *)
(* other without a gap (star.rs, routes/star_cert.rs), for any orders,      *)
(* terms, poll interval and clock.                                          *)
THEOREM RenewalsAreInTerm == StarSpec => []RenewalsInTerm
<1>1. StarInv => RenewalsInTerm
  <2>. SUFFICES ASSUME StarInv PROVE StarUnbroken  BY DEF StarInv, RenewalsInTerm
  <2>. SUFFICES ASSUME NEW o \in StarOrders \ unlucky, sorder[o].placed, serve_star_cert(o) = "certificate",
                       sorder[o].terms.adjust <= 0, \A w \in FirstWindow : w >= 2 * MaxLag,
                       sorder[o].terms.lifetime \div 2 > 2 * MaxLag - 2
                PROVE  Valid(get_latest_for_order(o))
    BY DEF StarUnbroken
  <2>1. ~sorder[o].canceled /\ ~(sclock >= sorder[o].terms.end)  BY DEF serve_star_cert
  <2>2. sorder[o] \in StarRow  BY PlacedRow
  <2>3. Cared(o)  BY <2>1, <2>2 DEF Cared, Patient
  <2>4. get_latest_for_order(o).nb <= sclock /\ Ample(o, lastRound + MaxLag) /\ (~Pending(o) => Ample(o, lastRound + 2 * MaxLag))
    BY <2>3 DEF StarInv, Timely
  <2>5. get_latest_for_order(o).na \in Int /\ sorder[o].terms \in StarTerms  BY <2>2, LatestNumbers
  <2>6. sorder[o].terms.end \in Nat /\ MaxLag \in Nat /\ MaxLag > 0  BY <2>5, TermNumbers
  <2>7. sclock \in Nat /\ lastRound \in Nat /\ sclock <= lastRound + MaxLag  BY DEF StarInv, StarTypes, Paced
  <2>8. Pending(o) => sclock < lastRound + MaxLag  BY DEF StarInv, Paced, Pending
  <2>9. sclock < get_latest_for_order(o).na
    <3>1. CASE Pending(o)  BY <2>1, <2>4, <2>5, <2>6, <2>7, <2>8, <3>1 DEF Ample
    <3>2. CASE ~Pending(o)  BY <2>1, <2>4, <2>5, <2>6, <2>7, <3>2 DEF Ample
    <3>. QED  BY <3>1, <3>2
  <2>. QED  BY <2>4, <2>9 DEF Valid
<1>. QED  BY <1>1, StarStarts, StarStep, PTL DEF StarSpec

-----------------------------------------------------------------------------
(***************************************************************************)
(* Issuance by another CA. DrvOk says what the driver may still believe of *)
(* an upstream order between reading and acting on it; it holds because    *)
(* the upstream CA leaves alone what was not triggered (AuthzFirst) and    *)
(* only the driver triggers. Withdrawn ties the DNS record to the upstream *)
(* order: from finalize on it is gone or its cleanup is known to have      *)
(* failed. EnrolsOk: an attempt that may still POST has not enrolled yet.  *)
(***************************************************************************)
OrderRow == [status : {"ready", "processing", "valid", "invalid"}, url : UpIds \union {NoUrl}, expires : Nat]
UpRow == [status : {"pending", "ready", "processing", "valid", "invalid"}, of : UOrders,
          authz : {"pending", "checking", "valid", "invalid"}]
(* Where drive_order is once it has the URL of the upstream order.         *)
HasUrl == {"read", "authz", "deploy", "trigger", "cleanup", "clean1", "finalize", "complete"}
NextDrv == [pc : {"next"}, todo : SUBSET UOrders, now : Nat]
AtDrv == [pc : HasUrl \union {"place"}, todo : SUBSET UOrders, now : Nat, order : UOrders]
RecordDrv == [pc : {"record"}, todo : SUBSET UOrders, now : Nat, order : UOrders, url : UpIds]

UpTypes ==
    /\ uclock \in Nat /\ ucrashes \in Nat
    /\ uorder \in [UOrders -> OrderRow]
    /\ up = [u \in UpIds |-> up[u]] /\ \A u \in UpIds : up[u] = NoUp \/ up[u] \in UpRow
    /\ drv = IdleDrv \/ drv \in NextDrv \/ drv \in AtDrv \/ drv \in RecordDrv
(* A stored URL is that of an order placed for this order.                 *)
UrlsOk ==
    \A o \in UOrders : uorder[o].url # NoUrl =>
        uorder[o].url \in UpIds /\ up[uorder[o].url] \in UpRow /\ up[uorder[o].url].of = o
AuthzFirst == \A u \in UpIds : up[u] \in UpRow /\ up[u].authz = "pending" => up[u].status = "pending"
DrvOk ==
    /\ drv \in AtDrv /\ drv.pc = "place" => uorder[drv.order].url = NoUrl
    /\ drv \in AtDrv /\ drv.pc \in HasUrl => uorder[drv.order].url # NoUrl
    /\ drv \in RecordDrv => /\ up[drv.url] \in UpRow /\ up[drv.url].of = drv.order
                            /\ up[drv.url].authz = "pending" /\ uorder[drv.order].url = NoUrl
    /\ drv \in AtDrv /\ drv.pc \in {"deploy", "trigger"} => up[uorder[drv.order].url].authz = "pending"
    /\ drv \in AtDrv /\ drv.pc = "finalize" => drv.order \in uncleaned \/ uorder[drv.order].url \notin dns
    /\ drv \in AtDrv /\ drv.pc = "complete" => up[uorder[drv.order].url].status = "valid"
(* From finalize on the record is gone, or its cleanup failed.             *)
Withdrawn ==
    \A o \in UOrders : /\ uorder[o].url # NoUrl /\ up[uorder[o].url].status \in {"processing", "valid"}
                             => o \in uncleaned \/ uorder[o].url \notin dns
                       /\ uorder[o].status = "valid" => uorder[o].url # NoUrl /\ up[uorder[o].url].status = "valid"
EnrolsOk ==
    /\ enrol \in [Enrolments -> [pc : {"idle", "login", "again", "retrieve", "issued", "failed"}, executed : {0, 1}]]
    /\ \A e \in Enrolments : enrol[e].pc \in {"idle", "login", "again"} => enrol[e].executed = 0
UpInv == UpTypes /\ UrlsOk /\ AuthzFirst /\ DrvOk /\ Withdrawn /\ UpstreamOrdersAccounted /\ EnrolsOk

(* The shape of drv where an action finds it.                              *)
LEMMA DrvAt ==
    ASSUME UpInv
    PROVE  /\ drv.pc \in HasUrl \union {"place"} => drv \in AtDrv
           /\ drv.pc = "record" => drv \in RecordDrv
           /\ drv.pc = "next" => drv \in NextDrv
           /\ drv.pc \in HasUrl \union {"place"} => Back \in NextDrv
           /\ drv.pc = "record" => Back \in NextDrv
<1>1. drv = IdleDrv \/ drv \in NextDrv \/ drv \in AtDrv \/ drv \in RecordDrv  BY DEF UpInv, UpTypes
<1>. QED  BY <1>1 DEF IdleDrv, NextDrv, AtDrv, RecordDrv, HasUrl, Back

LEMMA DrvKinds ==
    /\ IdleDrv \notin NextDrv /\ IdleDrv \notin AtDrv /\ IdleDrv \notin RecordDrv
    /\ \A d \in NextDrv : d \notin AtDrv /\ d \notin RecordDrv
    /\ \A d \in AtDrv : d \notin RecordDrv
  BY DEF IdleDrv, NextDrv, AtDrv, RecordDrv, HasUrl

(* Only the driver moves, or the round ends.                               *)
LEMMA DriverGoes ==
    ASSUME UpInv, UNCHANGED <<uorder, up, dns, lost, uncleaned, enrol>>, uclock' \in Nat, ucrashes' \in Nat,
           drv' = IdleDrv \/ drv' \in NextDrv \/ drv' \in AtDrv, drv.pc # "record", DrvOk'
    PROVE  UpInv'
<1>1. UpTypes' /\ UrlsOk' /\ AuthzFirst' /\ Withdrawn' /\ EnrolsOk'
  BY DEF UpInv, UpTypes, UrlsOk, AuthzFirst, Withdrawn, EnrolsOk
<1>2. UpstreamOrdersAccounted'  BY DEF UpInv, UpstreamOrdersAccounted
<1>. QED  BY <1>1, <1>2 DEF UpInv

LEMMA BackKeeps ==
    ASSUME UpInv, UNCHANGED <<uclock, uorder, up, dns, lost, uncleaned, enrol, ucrashes>>, drv' = IdleDrv \/ drv' \in NextDrv, drv.pc # "record"
    PROVE  UpInv'
<1>1. DrvOk'  BY DrvKinds DEF DrvOk
<1>2. uclock \in Nat /\ ucrashes \in Nat  BY DEF UpInv, UpTypes
<1>. QED  BY <1>1, <1>2, DriverGoes

LEMMA RoundKeeps ==
    ASSUME UpInv, RunOnce \/ EndDrive \/ DriveFails
    PROVE  UpInv'
<1>1. uclock \in Nat  BY DEF UpInv, UpTypes
<1>2. CASE RunOnce
  <2>1. PICK S \in SUBSET UOrders : drv' = [pc |-> "next", todo |-> S, now |-> uclock]  BY <1>2 DEF RunOnce, pending_delegation_orders
  <2>2. drv' \in NextDrv  BY <1>1, <2>1 DEF NextDrv
  <2>. QED  BY <1>2, <2>2, BackKeeps DEF RunOnce
<1>3. CASE EndDrive  BY <1>3, BackKeeps DEF EndDrive
<1>4. CASE DriveFails
  <2>1. drv' \in NextDrv  BY <1>4, DrvAt DEF DriveFails, HasUrl
  <2>. QED  BY <1>4, <2>1, BackKeeps DEF DriveFails
<1>. QED  BY <1>2, <1>3, <1>4

LEMMA GoFacts ==
    ASSUME UpInv, drv.pc # "idle", NEW o \in UOrders, NEW pc \in HasUrl \union {"place"}
    PROVE  Go(pc, o) \in AtDrv /\ Go(pc, o).pc = pc /\ Go(pc, o).order = o
<1>1. drv \in NextDrv \/ drv \in AtDrv \/ drv \in RecordDrv  BY DEF UpInv, UpTypes, IdleDrv
<1>2. drv.todo \in SUBSET UOrders /\ drv.now \in Nat  BY <1>1 DEF NextDrv, AtDrv, RecordDrv
<1>3. drv.todo \ {o} \in SUBSET UOrders  BY <1>2
<1>. QED  BY <1>2, <1>3 DEF AtDrv, Go

(* The driver goes on with an order whose URL is stored.                   *)
LEMMA GoKeeps ==
    ASSUME UpInv, NEW o \in UOrders, NEW pc \in HasUrl \union {"place"}, drv.pc \notin {"idle", "record"}, drv' = Go(pc, o),
           UNCHANGED <<uclock, uorder, up, dns, lost, uncleaned, enrol, ucrashes>>,
           pc = "place" <=> uorder[o].url = NoUrl,
           pc \in {"deploy", "trigger"} => up[uorder[o].url].authz = "pending",
           pc = "finalize" => o \in uncleaned \/ uorder[o].url \notin dns,
           pc = "complete" => up[uorder[o].url].status = "valid"
    PROVE  UpInv'
<1>1. drv' \in AtDrv /\ drv'.pc = pc /\ drv'.order = o  BY GoFacts
<1>2. drv' \notin RecordDrv  BY <1>1, DrvKinds
<1>3. DrvOk'  BY <1>1, <1>2 DEF DrvOk, HasUrl
<1>4. uclock \in Nat /\ ucrashes \in Nat  BY DEF UpInv, UpTypes
<1>. QED  BY <1>1, <1>3, <1>4, DriverGoes

(* The row of one order changes its status.                                *)
LEMMA StatusKeeps ==
    ASSUME UpInv, NEW o \in UOrders, NEW s \in {"processing", "valid", "invalid"}, uorder' = [uorder EXCEPT ![o].status = s],
           UNCHANGED <<uclock, up, dns, lost, uncleaned, enrol, ucrashes>>,
           drv' = drv \/ (drv' \in NextDrv /\ drv.pc # "record"),
           s = "valid" => uorder[o].url # NoUrl /\ up[uorder[o].url].status = "valid"
    PROVE  UpInv'
<1>1. UpTypes /\ UrlsOk /\ AuthzFirst /\ DrvOk /\ Withdrawn /\ UpstreamOrdersAccounted /\ EnrolsOk  BY DEF UpInv
<1>2. uorder' \in [UOrders -> OrderRow]  BY <1>1 DEF UpTypes, OrderRow
<1>3. \A q \in UOrders : uorder'[q].url = uorder[q].url /\ uorder'[q].status = IF q = o THEN s ELSE uorder[q].status
  BY <1>1 DEF UpTypes, OrderRow
<1>4. UpTypes' /\ UrlsOk' /\ AuthzFirst' /\ EnrolsOk'  BY <1>1, <1>2, <1>3 DEF UpTypes, UrlsOk, AuthzFirst, EnrolsOk
<1>5. Withdrawn'  BY <1>1, <1>3 DEF Withdrawn
<1>6. DrvOk'
  <2>1. CASE drv' = drv
    <3>1. drv \in AtDrv \/ drv \in RecordDrv => drv.order \in UOrders  BY DEF AtDrv, RecordDrv
    <3>. QED  BY <1>1, <1>3, <2>1, <3>1 DEF DrvOk
  <2>2. CASE drv' \in NextDrv  BY <2>2, DrvKinds DEF DrvOk
  <2>. QED  BY <2>1, <2>2
<1>7. UpstreamOrdersAccounted'
  <2>1. \A u \in UpIds : up[u].status # "absent" => up[u].of \in UOrders  BY <1>1 DEF UpTypes, NoUp, UpRow
  <2>. QED  BY <1>1, <1>3, <2>1 DEF UpstreamOrdersAccounted
<1>. QED  BY <1>4, <1>5, <1>6, <1>7 DEF UpInv

LEMMA DriveNextKeeps ==
    ASSUME UpInv, NEW o \in UOrders, DriveNext(o)
    PROVE  UpInv'
<1>1. drv.pc = "next" /\ drv \in NextDrv /\ UNCHANGED <<uclock, up, dns, lost, uncleaned, enrol, ucrashes>>  BY DrvAt DEF DriveNext
<1>2. CASE Expired(o)
  <2>1. uorder' = [uorder EXCEPT ![o].status = "invalid"] /\ drv' = [drv EXCEPT !.todo = @ \ {o}]  BY <1>2 DEF DriveNext
  <2>2. drv' \in NextDrv  BY <1>1, <2>1 DEF NextDrv
  <2>. QED  BY <1>1, <2>1, <2>2, StatusKeeps
<1>3. CASE ~Expired(o)
  <2>1. drv' = Go(IF uorder[o].url = NoUrl THEN "place" ELSE "read", o) /\ UNCHANGED uorder  BY <1>3 DEF DriveNext
  <2>2. CASE uorder[o].url = NoUrl
    <3>1. drv' = Go("place", o)  BY <2>1, <2>2
    <3>. QED  BY <1>1, <2>1, <2>2, <3>1, GoKeeps
  <2>3. CASE uorder[o].url # NoUrl
    <3>1. drv' = Go("read", o)  BY <2>1, <2>3
    <3>. QED  BY <1>1, <2>1, <2>3, <3>1, GoKeeps DEF HasUrl
  <2>. QED  BY <2>2, <2>3
<1>. QED  BY <1>2, <1>3

(* Reading: what is found is still so when it is acted on, for only the    *)
(* driver changes an order that waits for it.                              *)
LEMMA ReadOrderKeeps ==
    ASSUME UpInv, NEW o \in UOrders, ReadOrder2(o)
    PROVE  UpInv'
<1>1. drv.pc = "read" /\ drv.order = o /\ drv \in AtDrv /\ Back \in NextDrv /\ UNCHANGED <<uclock, up, dns, lost, uncleaned, enrol, ucrashes>>
  BY DrvAt DEF ReadOrder2, At, HasUrl
<1>2. uorder[o].url # NoUrl  BY <1>1 DEF UpInv, DrvOk, HasUrl
<1>3. PICK s : s = up[uorder[o].url].status  OBVIOUS
<1>4. CASE s = "pending"
  <2>1. drv' = Go("authz", o) /\ UNCHANGED uorder  BY <1>3, <1>4 DEF ReadOrder2
  <2>. QED  BY <1>1, <1>2, <2>1, GoKeeps DEF HasUrl
<1>5. CASE s = "ready"
  <2>1. drv' = Go("cleanup", o) /\ UNCHANGED uorder  BY <1>3, <1>5 DEF ReadOrder2
  <2>. QED  BY <1>1, <1>2, <2>1, GoKeeps DEF HasUrl
<1>6. CASE s = "valid"
  <2>1. drv' = Go("complete", o) /\ UNCHANGED uorder  BY <1>3, <1>6 DEF ReadOrder2
  <2>. QED  BY <1>1, <1>2, <1>3, <1>6, <2>1, GoKeeps DEF HasUrl
<1>7. CASE s = "invalid"
  <2>1. drv' = Back /\ uorder' = [uorder EXCEPT ![o].status = "invalid"]  BY <1>3, <1>7 DEF ReadOrder2
  <2>. QED  BY <1>1, <2>1, StatusKeeps
<1>8. CASE s \notin {"pending", "ready", "valid", "invalid"}
  <2>1. drv' = Back /\ UNCHANGED uorder  BY <1>3, <1>8 DEF ReadOrder2
  <2>. QED  BY <1>1, <2>1, BackKeeps
<1>. QED  BY <1>4, <1>5, <1>6, <1>7, <1>8

LEMMA ReadAuthzKeeps ==
    ASSUME UpInv, NEW o \in UOrders, ReadAuthz2(o)
    PROVE  UpInv'
<1>1. drv.pc = "authz" /\ drv.order = o /\ drv \in AtDrv /\ Back \in NextDrv /\ UNCHANGED <<uclock, uorder, up, dns, lost, uncleaned, enrol, ucrashes>>
  BY DrvAt DEF ReadAuthz2, At, HasUrl
<1>2. uorder[o].url # NoUrl /\ uorder[o].url \in UpIds /\ up[uorder[o].url] \in UpRow  BY <1>1 DEF UpInv, DrvOk, HasUrl, UrlsOk
<1>3. PICK a : a = up[uorder[o].url].authz  OBVIOUS
<1>4. CASE a = "valid"
  <2>1. drv' = Go("clean1", o)  BY <1>3, <1>4 DEF ReadAuthz2
  <2>. QED  BY <1>1, <1>2, <2>1, GoKeeps DEF HasUrl
<1>5. CASE a = "pending"
  <2>1. drv' = Go("deploy", o)  BY <1>3, <1>5 DEF ReadAuthz2
  <2>. QED  BY <1>1, <1>2, <1>3, <1>5, <2>1, GoKeeps DEF HasUrl
<1>6. CASE a \notin {"valid", "pending"}
  <2>1. drv' = Back  BY <1>3, <1>6 DEF ReadAuthz2
  <2>. QED  BY <1>1, <2>1, BackKeeps
<1>. QED  BY <1>4, <1>5, <1>6

LEMMA CompleteKeeps ==
    ASSUME UpInv, NEW o \in UOrders, NEW ok \in BOOLEAN, complete_order(o, ok)
    PROVE  UpInv'
<1>1. drv.pc = "complete" /\ drv.order = o /\ drv \in AtDrv /\ drv' \in NextDrv /\ UNCHANGED <<uclock, up, dns, lost, uncleaned, enrol, ucrashes>>
  BY DrvAt DEF complete_order, At, HasUrl
<1>2. uorder[o].url # NoUrl /\ up[uorder[o].url].status = "valid"  BY <1>1 DEF UpInv, DrvOk, HasUrl
<1>3. CASE UNCHANGED uorder  BY <1>1, <1>3, BackKeeps
<1>4. CASE uorder' = [uorder EXCEPT ![o].status = "valid"]  BY <1>1, <1>2, <1>4, StatusKeeps
<1>. QED  BY <1>3, <1>4 DEF complete_order

(* An order at the upstream CA changes.                                    *)
LEMMA RemoteKeeps ==
    ASSUME UpInv, NEW u \in UpIds, up[u] \in UpRow, NEW r \in UpRow, r.of = up[u].of, up' = [up EXCEPT ![u] = r],
           UNCHANGED <<uclock, uorder, dns, lost, uncleaned, enrol, ucrashes>>,
           r.authz = "pending" => r.status = "pending",
           up[u].status = "valid" => r.status = "valid",
           \/ r.status \notin {"processing", "valid"} \/ up[u].status \in {"processing", "valid"}
           \/ \A o \in UOrders : uorder[o].url = u => o \in uncleaned \/ u \notin dns,
           drv' = drv \/ (drv.pc # "record" /\ (drv' \in NextDrv \/ drv' \in AtDrv)), DrvOk'
    PROVE  UpInv'
<1>1. UpTypes /\ UrlsOk /\ AuthzFirst /\ DrvOk /\ Withdrawn /\ UpstreamOrdersAccounted /\ EnrolsOk  BY DEF UpInv
<1>2. up'[u] = r /\ \A v \in UpIds : v # u => up'[v] = up[v]  BY <1>1 DEF UpTypes
<1>3. up' = [v \in UpIds |-> up'[v]]  BY <1>1 DEF UpTypes
<1>4. UpTypes'  BY <1>1, <1>2, <1>3 DEF UpTypes
<1>5. UrlsOk' /\ AuthzFirst' /\ EnrolsOk'  BY <1>1, <1>2 DEF UrlsOk, AuthzFirst, EnrolsOk
<1>6. Withdrawn'  BY <1>1, <1>2 DEF Withdrawn, UrlsOk
<1>7. UpstreamOrdersAccounted'
  <2>1. up[u].status # "absent"  BY DEF UpRow
  <2>. QED  BY <1>1, <1>2, <2>1 DEF UpstreamOrdersAccounted
<1>. QED  BY <1>4, <1>5, <1>6, <1>7 DEF UpInv

LEMMA TriggerKeeps ==
    ASSUME UpInv, NEW o \in UOrders, TriggerChallenge(o)
    PROVE  UpInv'
<1>1. drv.pc = "trigger" /\ drv.order = o /\ drv \in AtDrv /\ drv' \in NextDrv /\ UNCHANGED <<uclock, uorder, dns, lost, uncleaned, enrol, ucrashes>>
  BY DrvAt DEF TriggerChallenge, At, HasUrl
<1>2. PICK u : u = uorder[o].url  OBVIOUS
<1>3. u \in UpIds /\ up[u] \in UpRow /\ up[u].authz = "pending"  BY <1>1, <1>2 DEF UpInv, DrvOk, HasUrl, UrlsOk
<1>4. up' = [up EXCEPT ![u].authz = "checking"]  BY <1>2, <1>3 DEF TriggerChallenge
<1>5. PICK r : r = [up[u] EXCEPT !.authz = "checking"]  OBVIOUS
<1>6. r \in UpRow /\ r.of = up[u].of /\ r.status = up[u].status /\ r.authz = "checking"  BY <1>3, <1>5 DEF UpRow
<1>7. up' = [up EXCEPT ![u] = r]  BY <1>4, <1>5
<1>8. up[u].status = "pending"  BY <1>3 DEF UpInv, AuthzFirst
<1>9. DrvOk'  BY <1>1, DrvKinds DEF DrvOk
<1>. QED  BY <1>1, <1>3, <1>6, <1>7, <1>8, <1>9, RemoteKeeps

LEMMA FinalizeKeeps ==
    ASSUME UpInv, NEW o \in UOrders, finalize_upstream(o)
    PROVE  UpInv'
<1>1. drv.pc = "finalize" /\ drv.order = o /\ drv \in AtDrv /\ Back \in NextDrv /\ UNCHANGED <<uclock, uorder, dns, lost, uncleaned, enrol, ucrashes>>
  BY DrvAt DEF finalize_upstream, At, HasUrl
<1>2. PICK u : u = uorder[o].url  OBVIOUS
<1>3. u # NoUrl /\ u \in UpIds /\ up[u] \in UpRow /\ up[u].of = o /\ up[u].status = "ready"
  BY <1>1, <1>2 DEF UpInv, DrvOk, HasUrl, UrlsOk, finalize_upstream
<1>4. PICK s \in {"processing", "valid"} : /\ up' = [up EXCEPT ![u] = [up[u] EXCEPT !.status = s]]
                                           /\ drv' = Back \/ (s = "valid" /\ drv' = Go("complete", o))
  BY <1>2 DEF finalize_upstream
<1>5. PICK r : r = [up[u] EXCEPT !.status = s]  OBVIOUS
<1>6. r \in UpRow /\ r.of = o /\ r.status = s /\ r.authz = up[u].authz  BY <1>3, <1>5 DEF UpRow
<1>7. up' = [up EXCEPT ![u] = r]  BY <1>4, <1>5
<1>8. up[u].authz # "pending"  BY <1>3 DEF UpInv, AuthzFirst
<1>9. \A q \in UOrders : uorder[q].url = u => q \in uncleaned \/ u \notin dns
  <2>1. o \in uncleaned \/ u \notin dns  BY <1>1, <1>2 DEF UpInv, DrvOk
  <2>2. \A q \in UOrders : uorder[q].url = u => q = o  BY <1>3 DEF UpInv, UrlsOk
  <2>. QED  BY <2>1, <2>2
<1>10. CASE drv' = Back
  <2>1. drv' \in NextDrv  BY <1>1, <1>10
  <2>2. DrvOk'  BY <2>1, DrvKinds DEF DrvOk
  <2>. QED  BY <1>1, <1>3, <1>6, <1>7, <1>8, <1>9, <2>1, <2>2, RemoteKeeps
<1>11. CASE s = "valid" /\ drv' = Go("complete", o)
  <2>1. drv' \in AtDrv /\ drv'.pc = "complete" /\ drv'.order = o  BY <1>1, <1>11, GoFacts DEF HasUrl
  <2>2. up'[u].status = "valid"  BY <1>3, <1>6, <1>7, <1>11 DEF UpInv, UpTypes
  <2>3. DrvOk'  BY <1>1, <1>2, <1>3, <2>1, <2>2, DrvKinds DEF DrvOk, HasUrl
  <2>. QED  BY <1>1, <1>3, <1>6, <1>7, <1>8, <1>9, <2>1, <2>3, RemoteKeeps
<1>. QED  BY <1>4, <1>10, <1>11

(* The upstream CA acts on its own: on nothing the driver is about to act  *)
(* on, for an untriggered authorization is left alone.                     *)
LEMMA UpstreamCAKeeps ==
    ASSUME UpInv, NEW u \in UpIds, UpstreamCA(u)
    PROVE  UpInv'
<1>1. UNCHANGED <<uclock, uorder, dns, drv, lost, uncleaned, enrol, ucrashes>>  BY DEF UpstreamCA
<1>2. up[u] \in UpRow  BY DEF UpInv, UpTypes, UpstreamCA, NoUp
<1>3. \E a \in {"checking", "valid", "invalid"}, s \in {"ready", "invalid", "valid"} :
          /\ up[u].authz # "pending" /\ up[u].status # "valid" /\ (s = "valid" => up[u].status = "processing")
          /\ up' = [up EXCEPT ![u] = [status |-> s, of |-> up[u].of, authz |-> a]]
  <2>1. up[u] = [status |-> up[u].status, of |-> up[u].of, authz |-> up[u].authz]  BY <1>2 DEF UpRow
  <2>2. CASE up[u].status = "pending" /\ up[u].authz = "checking" /\ up' = [up EXCEPT ![u].authz = "valid", ![u].status = "ready"]
    <3>1. up' = [up EXCEPT ![u] = [status |-> "ready", of |-> up[u].of, authz |-> "valid"]]
      <4>1. PICK r : r = [up[u] EXCEPT !.authz = "valid", !.status = "ready"]  OBVIOUS
      <4>2. r = [status |-> "ready", of |-> up[u].of, authz |-> "valid"]  BY <1>2, <4>1 DEF UpRow
      <4>3. up' = [up EXCEPT ![u] = r]
        <5>1. up' = [up EXCEPT ![u].authz = "valid", ![u].status = "ready"]  BY <2>2
        <5>2. up = [v \in UpIds |-> up[v]]  BY DEF UpInv, UpTypes
        <5>. QED  BY <4>1, <5>1, <5>2
      <4>. QED  BY <4>2, <4>3
    <3>. QED  BY <2>2, <3>1
  <2>3. CASE up[u].status = "pending" /\ up[u].authz = "checking" /\ up' = [up EXCEPT ![u].authz = "invalid", ![u].status = "invalid"]
    <3>1. up' = [up EXCEPT ![u] = [status |-> "invalid", of |-> up[u].of, authz |-> "invalid"]]
      <4>1. PICK r : r = [up[u] EXCEPT !.authz = "invalid", !.status = "invalid"]  OBVIOUS
      <4>2. r = [status |-> "invalid", of |-> up[u].of, authz |-> "invalid"]  BY <1>2, <4>1 DEF UpRow
      <4>3. up' = [up EXCEPT ![u] = r]
        <5>1. up' = [up EXCEPT ![u].authz = "invalid", ![u].status = "invalid"]  BY <2>3
        <5>2. up = [v \in UpIds |-> up[v]]  BY DEF UpInv, UpTypes
        <5>. QED  BY <4>1, <5>1, <5>2
      <4>. QED  BY <4>2, <4>3
    <3>. QED  BY <2>3, <3>1
  <2>4. CASE up[u].status = "processing" /\ \E s \in {"valid", "invalid"} : up' = [up EXCEPT ![u].status = s]
    <3>1. PICK s \in {"valid", "invalid"} : up' = [up EXCEPT ![u].status = s]  BY <2>4
    <3>2. up' = [up EXCEPT ![u] = [status |-> s, of |-> up[u].of, authz |-> up[u].authz]]
      <4>1. PICK r : r = [up[u] EXCEPT !.status = s]  OBVIOUS
      <4>2. r = [status |-> s, of |-> up[u].of, authz |-> up[u].authz]  BY <1>2, <4>1 DEF UpRow
      <4>3. up' = [up EXCEPT ![u] = r]  BY <3>1, <4>1
      <4>. QED  BY <4>2, <4>3
    <3>3. up[u].authz \in {"checking", "valid", "invalid"}
      <4>1. up[u].authz # "pending"  BY <1>2, <2>4 DEF UpInv, AuthzFirst
      <4>. QED  BY <1>2, <4>1 DEF UpRow
    <3>. QED  BY <2>4, <3>2, <3>3
  <2>. QED  BY <2>2, <2>3, <2>4 DEF UpstreamCA
<1>4. PICK a \in {"checking", "valid", "invalid"}, s \in {"ready", "invalid", "valid"} :
          /\ up[u].authz # "pending" /\ up[u].status # "valid" /\ (s = "valid" => up[u].status = "processing")
          /\ up' = [up EXCEPT ![u] = [status |-> s, of |-> up[u].of, authz |-> a]]
  BY <1>3
<1>5. PICK r : r = [status |-> s, of |-> up[u].of, authz |-> a]  OBVIOUS
<1>6. r \in UpRow /\ r.of = up[u].of /\ r.status = s /\ r.authz = a  BY <1>2, <1>5 DEF UpRow
<1>7. up' = [up EXCEPT ![u] = r]  BY <1>4, <1>5
<1>8. DrvOk'
  <2>1. up'[u] = r /\ \A v \in UpIds : v # u => up'[v] = up[v]  BY <1>7 DEF UpInv, UpTypes
  <2>2. drv \in AtDrv \/ drv \in RecordDrv => drv.order \in UOrders  BY DEF AtDrv, RecordDrv
  <2>3. drv \in RecordDrv => drv.url \in UpIds  BY DEF RecordDrv
  <2>. QED  BY <1>1, <1>4, <1>6, <2>1, <2>2, <2>3 DEF UpInv, DrvOk, UrlsOk, HasUrl
<1>. QED  BY <1>1, <1>2, <1>4, <1>6, <1>7, <1>8, RemoteKeeps

(* An order is placed at the upstream CA; its answer arrives, or is lost.  *)
LEMMA PlaceKeeps ==
    ASSUME UpInv, NEW o \in UOrders, NEW u \in UpIds, PlaceOrder2(o, u) \/ LosePlaced(o, u)
    PROVE  UpInv'
<1>1. drv.pc = "place" /\ drv.order = o /\ drv \in AtDrv /\ Back \in NextDrv /\ UNCHANGED <<uclock, uorder, dns, uncleaned, enrol, ucrashes>>
  BY DrvAt DEF PlaceOrder2, LosePlaced, At
<1>2. UpTypes /\ UrlsOk /\ AuthzFirst /\ DrvOk /\ Withdrawn /\ UpstreamOrdersAccounted /\ EnrolsOk  BY DEF UpInv
<1>3. uorder[o].url = NoUrl  BY <1>1, <1>2 DEF DrvOk
<1>4. up[u] = NoUp  BY <1>2 DEF UpTypes, UpRow, PlaceOrder2, LosePlaced
<1>5. PICK r : r = [status |-> "pending", of |-> o, authz |-> "pending"]  OBVIOUS
<1>6. r \in UpRow /\ r.of = o /\ r.status = "pending" /\ r.authz = "pending"  BY <1>5 DEF UpRow
<1>7. up' = [up EXCEPT ![u] = r]  BY <1>5 DEF PlaceOrder2, LosePlaced
<1>8. up'[u] = r /\ (\A v \in UpIds : v # u => up'[v] = up[v]) /\ up' = [v \in UpIds |-> up'[v]]  BY <1>2, <1>7 DEF UpTypes
<1>9. NoUp \notin UpRow  BY DEF NoUp, UpRow
<1>10. \A q \in UOrders : uorder[q].url # u  BY <1>2, <1>4, <1>9, UpstreamAssumption DEF UrlsOk
<1>11. UrlsOk' /\ AuthzFirst' /\ EnrolsOk'  BY <1>1, <1>2, <1>6, <1>8, <1>10 DEF UrlsOk, AuthzFirst, EnrolsOk
<1>12. Withdrawn'
  <2>1. \A q \in UOrders : uorder[q].url # NoUrl => uorder[q].url \in UpIds  BY <1>2 DEF UrlsOk
  <2>. QED  BY <1>1, <1>2, <1>8, <1>10, <2>1 DEF Withdrawn
<1>13. CASE PlaceOrder2(o, u)
  <2>1. drv' = [pc |-> "record", todo |-> drv.todo, now |-> drv.now, order |-> o, url |-> u] /\ lost' = lost  BY <1>13 DEF PlaceOrder2
  <2>2. drv' \in RecordDrv /\ drv'.pc = "record" /\ drv'.order = o /\ drv'.url = u  BY <1>1, <2>1 DEF AtDrv, RecordDrv
  <2>3. drv' \notin AtDrv  BY <2>2, DrvKinds
  <2>4. DrvOk'  BY <1>1, <1>3, <1>6, <1>8, <2>2, <2>3 DEF DrvOk
  <2>5. UpTypes'  BY <1>1, <1>2, <1>6, <1>8, <2>2 DEF UpTypes
  <2>6. UpstreamOrdersAccounted'  BY <1>1, <1>2, <1>8, <2>1, <2>2 DEF UpstreamOrdersAccounted
  <2>. QED  BY <1>11, <1>12, <2>4, <2>5, <2>6 DEF UpInv
<1>14. CASE LosePlaced(o, u)
  <2>1. drv' \in NextDrv /\ lost' = lost \union {u}  BY <1>1, <1>14 DEF LosePlaced
  <2>2. DrvOk'  BY <2>1, DrvKinds DEF DrvOk
  <2>3. UpTypes'  BY <1>1, <1>2, <1>6, <1>8, <2>1 DEF UpTypes
  <2>4. UpstreamOrdersAccounted'  BY <1>1, <1>2, <1>8, <2>1 DEF UpstreamOrdersAccounted
  <2>. QED  BY <1>11, <1>12, <2>2, <2>3, <2>4 DEF UpInv
<1>. QED  BY <1>13, <1>14

(* Its URL is written, or is lost with the failed write.                   *)
LEMMA RecordKeeps ==
    ASSUME UpInv, NEW o \in UOrders, NEW ok \in BOOLEAN, RecordOrder2(o, ok)
    PROVE  UpInv'
<1>1. drv.pc = "record" /\ drv.order = o /\ drv \in RecordDrv /\ Back \in NextDrv /\ UNCHANGED <<uclock, up, dns, uncleaned, enrol, ucrashes>>
  BY DrvAt DEF RecordOrder2, At
<1>2. UpTypes /\ UrlsOk /\ AuthzFirst /\ DrvOk /\ Withdrawn /\ UpstreamOrdersAccounted /\ EnrolsOk  BY DEF UpInv
<1>3. PICK u \in UpIds : u = drv.url  BY <1>1 DEF RecordDrv
<1>4. uorder[o].url = NoUrl /\ up[u] \in UpRow /\ up[u].of = o /\ up[u].status = "pending" /\ u # NoUrl
  BY <1>1, <1>2, <1>3, UpstreamAssumption DEF DrvOk, AuthzFirst
<1>5. \A v \in UpIds : up[v].status # "absent" => up[v].of \in UOrders  BY <1>2 DEF UpTypes, NoUp, UpRow
<1>6. CASE ok
  <2>1. uorder' = [uorder EXCEPT ![o].url = u] /\ drv' = Go("read", o) /\ lost' = lost
    BY <1>3, <1>6 DEF RecordOrder2, set_upstream_order_url
  <2>2. drv' \in AtDrv /\ drv'.pc = "read" /\ drv'.order = o  BY <1>1, <2>1, GoFacts DEF HasUrl
  <2>3. uorder' \in [UOrders -> OrderRow]  BY <1>2, <2>1 DEF UpTypes, OrderRow
  <2>4. \A q \in UOrders : uorder'[q].status = uorder[q].status /\ uorder'[q].url = IF q = o THEN u ELSE uorder[q].url
    BY <1>2, <2>1 DEF UpTypes, OrderRow
  <2>5. UpTypes' /\ UrlsOk' /\ AuthzFirst' /\ EnrolsOk'
    BY <1>1, <1>2, <1>4, <2>2, <2>3, <2>4 DEF UpTypes, UrlsOk, AuthzFirst, EnrolsOk
  <2>6. drv' \notin RecordDrv  BY <2>2, DrvKinds
  <2>7. DrvOk'  BY <1>4, <2>2, <2>4, <2>6 DEF DrvOk
  <2>8. Withdrawn'
    <3>1. uorder[o].status # "valid"  BY <1>2, <1>4 DEF Withdrawn
    <3>. QED  BY <1>1, <1>2, <1>4, <2>4, <3>1 DEF Withdrawn
  <2>9. UpstreamOrdersAccounted'
    <3>. SUFFICES ASSUME NEW v \in UpIds, up[v].status # "absent"
                  PROVE  v \in lost \/ uorder'[up[v].of].url = v
      BY <1>1, <2>1 DEF UpstreamOrdersAccounted
    <3>1. CASE v = u  BY <1>4, <2>4, <3>1
    <3>2. CASE v # u
      <4>1. v \in lost \/ uorder[up[v].of].url = v  BY <1>1, <1>2, <1>3, <3>2 DEF UpstreamOrdersAccounted
      <4>2. v # NoUrl  BY UpstreamAssumption
      <4>. QED  BY <1>4, <1>5, <2>4, <4>1, <4>2
    <3>. QED  BY <3>1, <3>2
  <2>. QED  BY <2>5, <2>7, <2>8, <2>9 DEF UpInv
<1>7. CASE ~ok
  <2>1. drv' \in NextDrv /\ lost' = lost \union {u} /\ uorder' = uorder  BY <1>1, <1>3, <1>7 DEF RecordOrder2
  <2>2. DrvOk'  BY <2>1, DrvKinds DEF DrvOk
  <2>3. UpTypes' /\ UrlsOk' /\ AuthzFirst' /\ Withdrawn' /\ EnrolsOk'
    BY <1>1, <1>2, <2>1 DEF UpTypes, UrlsOk, AuthzFirst, Withdrawn, EnrolsOk
  <2>4. UpstreamOrdersAccounted'  BY <1>1, <1>2, <1>3, <2>1 DEF UpstreamOrdersAccounted
  <2>. QED  BY <2>2, <2>3, <2>4 DEF UpInv
<1>. QED  BY <1>6, <1>7

LEMMA UpCrashKeeps ==
    ASSUME UpInv, UpCrash
    PROVE  UpInv'
<1>1. UNCHANGED <<uclock, uorder, up, dns, uncleaned, enrol>> /\ drv' = IdleDrv /\ ucrashes' = ucrashes + 1
  BY DEF UpCrash
<1>2. UpTypes /\ UrlsOk /\ AuthzFirst /\ DrvOk /\ Withdrawn /\ UpstreamOrdersAccounted /\ EnrolsOk  BY DEF UpInv
<1>3. UpTypes' /\ UrlsOk' /\ AuthzFirst' /\ Withdrawn' /\ EnrolsOk'
  BY <1>1, <1>2 DEF UpTypes, UrlsOk, AuthzFirst, Withdrawn, EnrolsOk
<1>4. DrvOk'  BY <1>1, DrvKinds DEF DrvOk
<1>5. UpstreamOrdersAccounted'  BY <1>1, <1>2 DEF UpstreamOrdersAccounted, UpCrash
<1>. QED  BY <1>3, <1>4, <1>5 DEF UpInv

(* The records: published only while the authorization waits, withdrawn    *)
(* or known to be left before finalize.                                    *)
LEMMA DeployKeeps ==
    ASSUME UpInv, NEW o \in UOrders, NEW ok \in BOOLEAN, run_deploy_script(o, ok)
    PROVE  UpInv'
<1>1. drv.pc = "deploy" /\ drv.order = o /\ drv \in AtDrv /\ Back \in NextDrv /\ UNCHANGED <<uclock, uorder, up, lost, uncleaned, enrol, ucrashes>>
  BY DrvAt DEF run_deploy_script, At, HasUrl
<1>2. UpTypes /\ UrlsOk /\ AuthzFirst /\ DrvOk /\ Withdrawn /\ UpstreamOrdersAccounted /\ EnrolsOk  BY DEF UpInv
<1>3. PICK u : u = uorder[o].url  OBVIOUS
<1>4. u # NoUrl /\ u \in UpIds /\ up[u] \in UpRow /\ up[u].of = o /\ up[u].authz = "pending" /\ up[u].status = "pending"
  BY <1>1, <1>2, <1>3 DEF DrvOk, UrlsOk, HasUrl, AuthzFirst
<1>5. dns' \subseteq dns \union {u}  BY <1>3 DEF run_deploy_script
<1>6. drv' \in NextDrv \/ (drv' \in AtDrv /\ drv'.pc = "trigger" /\ drv'.order = o)
  <2>1. drv' = Back \/ drv' = Go("trigger", o)  BY DEF run_deploy_script
  <2>. QED  BY <1>1, <2>1, GoFacts DEF HasUrl
<1>7. drv' \notin RecordDrv  BY <1>6, DrvKinds
<1>8. DrvOk'  BY <1>1, <1>3, <1>4, <1>6, <1>7, DrvKinds DEF DrvOk, HasUrl
<1>9. UpTypes' /\ UrlsOk' /\ AuthzFirst' /\ EnrolsOk'  BY <1>1, <1>2, <1>6 DEF UpTypes, UrlsOk, AuthzFirst, EnrolsOk
<1>10. Withdrawn'  BY <1>1, <1>2, <1>4, <1>5 DEF Withdrawn
<1>11. UpstreamOrdersAccounted'  BY <1>1, <1>2 DEF UpstreamOrdersAccounted
<1>. QED  BY <1>8, <1>9, <1>10, <1>11 DEF UpInv

LEMMA CleanupKeeps ==
    ASSUME UpInv, NEW o \in UOrders, NEW ok \in BOOLEAN, cleanup_all_authorizations(o, ok)
    PROVE  UpInv'
<1>1. drv.pc \in {"cleanup", "clean1"} /\ drv.order = o /\ drv \in AtDrv /\ Back \in NextDrv /\ UNCHANGED <<uclock, uorder, up, lost, enrol, ucrashes>>
  BY DrvAt DEF cleanup_all_authorizations, At, HasUrl
<1>2. UpTypes /\ UrlsOk /\ AuthzFirst /\ DrvOk /\ Withdrawn /\ UpstreamOrdersAccounted /\ EnrolsOk  BY DEF UpInv
<1>3. uorder[o].url # NoUrl  BY <1>1, <1>2 DEF DrvOk, HasUrl
<1>4. dns' \subseteq dns /\ uncleaned \subseteq uncleaned' /\ (o \in uncleaned' \/ uorder[o].url \notin dns')
  BY DEF cleanup_all_authorizations
<1>5. drv' \in NextDrv \/ (drv' \in AtDrv /\ drv'.pc = "finalize" /\ drv'.order = o)
  <2>1. drv' = Back \/ drv' = Go("finalize", o)  BY DEF cleanup_all_authorizations
  <2>. QED  BY <1>1, <2>1, GoFacts DEF HasUrl
<1>6. drv' \notin RecordDrv  BY <1>5, DrvKinds
<1>7. DrvOk'  BY <1>1, <1>3, <1>4, <1>5, <1>6, DrvKinds DEF DrvOk, HasUrl
<1>8. UpTypes' /\ UrlsOk' /\ AuthzFirst' /\ EnrolsOk'  BY <1>1, <1>2, <1>5 DEF UpTypes, UrlsOk, AuthzFirst, EnrolsOk
<1>9. Withdrawn'  BY <1>1, <1>2, <1>4 DEF Withdrawn
<1>10. UpstreamOrdersAccounted'  BY <1>1, <1>2 DEF UpstreamOrdersAccounted
<1>. QED  BY <1>7, <1>8, <1>9, <1>10 DEF UpInv

(* The Dogtag client: a POST that found no session executed nothing.       *)
LEMMA DogtagKeeps ==
    ASSUME UpInv, DogtagNext
    PROVE  UpInv'
<1>1. UNCHANGED <<uclock, uorder, up, dns, drv, lost, uncleaned, ucrashes>>
  BY DEF DogtagNext, post_with_login_retry, login, retrieve_cert, SessionEnds
<1>2. UpTypes /\ UrlsOk /\ AuthzFirst /\ DrvOk /\ Withdrawn /\ UpstreamOrdersAccounted /\ EnrolsOk  BY DEF UpInv
<1>3. UpTypes' /\ UrlsOk' /\ AuthzFirst' /\ DrvOk' /\ Withdrawn' /\ UpstreamOrdersAccounted'
  BY <1>1, <1>2 DEF UpTypes, UrlsOk, AuthzFirst, DrvOk, Withdrawn, UpstreamOrdersAccounted
<1>4. EnrolsOk'
  <2>1. ASSUME NEW e \in Enrolments, NEW kind \in {"401", "timeout", "ok"}, post_with_login_retry(e, kind)
        PROVE  EnrolsOk'
    <3>1. enrol[e].executed = 0  BY <1>2, <2>1 DEF EnrolsOk, post_with_login_retry
    <3>2. PICK x \in Executes(kind) : enrol' = [enrol EXCEPT ![e].executed = @ + x, ![e].pc = AfterPost(enrol[e].pc, kind)]
      BY <2>1 DEF post_with_login_retry
    <3>3. x \in {0, 1} /\ (kind = "401" => x = 0)  BY <3>2 DEF Executes
    <3>4. AfterPost(enrol[e].pc, kind) \in {"login", "retrieve", "failed"} /\ (AfterPost(enrol[e].pc, kind) = "login" => kind = "401")
      BY DEF AfterPost
    <3>5. PICK k \in {"login", "retrieve", "failed"} : k = AfterPost(enrol[e].pc, kind)  BY <3>4
    <3>6. enrol' = [enrol EXCEPT ![e] = [pc |-> k, executed |-> x]]
      <4>1. enrol' = [enrol EXCEPT ![e].executed = @ + x, ![e].pc = k]  BY <3>2, <3>5
      <4>2. enrol[e] = [pc |-> enrol[e].pc, executed |-> 0]  BY <1>2, <3>1 DEF EnrolsOk
      <4>3. enrol[e].executed + x = x  BY <3>1, <3>3
      <4>4. enrol = [d \in Enrolments |-> enrol[d]]  BY <1>2 DEF EnrolsOk
      <4>5. PICK r : r = [enrol[e] EXCEPT !.executed = enrol[e].executed + x, !.pc = k]  OBVIOUS
      <4>6. enrol' = [enrol EXCEPT ![e] = r]  BY <4>1, <4>4, <4>5
      <4>7. r = [pc |-> k, executed |-> x]  BY <4>2, <4>3, <4>5
      <4>. QED  BY <4>6, <4>7
    <3>7. k = "login" => x = 0  BY <3>3, <3>4, <3>5
    <3>. QED  BY <1>2, <3>3, <3>6, <3>7 DEF EnrolsOk
  <2>2. ASSUME NEW e \in Enrolments, NEW ok \in BOOLEAN, login(e, ok) \/ retrieve_cert(e, ok)
        PROVE  EnrolsOk'
    BY <1>2, <2>2 DEF EnrolsOk, login, retrieve_cert
  <2>3. CASE SessionEnds  BY <1>2, <2>3 DEF EnrolsOk, SessionEnds
  <2>. QED  BY <2>1, <2>2, <2>3 DEF DogtagNext
<1>. QED  BY <1>3, <1>4 DEF UpInv

LEMMA UpStarts == UpInit => UpInv
<1>. SUFFICES ASSUME UpInit PROVE UpInv  OBVIOUS
<1>1. uorder \in [UOrders -> OrderRow] /\ \A o \in UOrders : uorder[o].url = NoUrl /\ uorder[o].status = "ready"
  BY UpstreamAssumption DEF UpInit, OrderRow
<1>2. UpTypes  BY <1>1 DEF UpTypes, UpInit
<1>3. UrlsOk /\ Withdrawn  BY <1>1 DEF UrlsOk, Withdrawn
<1>4. \A u \in UpIds : up[u].status = "absent" /\ up[u] \notin UpRow  BY DEF UpInit, NoUp, UpRow
<1>5. AuthzFirst /\ UpstreamOrdersAccounted  BY <1>4 DEF AuthzFirst, UpstreamOrdersAccounted
<1>6. DrvOk  BY DrvKinds DEF DrvOk, UpInit
<1>7. EnrolsOk  BY DEF EnrolsOk, UpInit
<1>. QED  BY <1>2, <1>3, <1>5, <1>6, <1>7 DEF UpInv

LEMMA UpStep ==
    ASSUME UpInv, [UpNext \/ DogtagNext]_upVars
    PROVE  UpInv'
<1>1. CASE UNCHANGED upVars
  BY <1>1 DEF upVars, UpInv, UpTypes, UrlsOk, AuthzFirst, DrvOk, Withdrawn, UpstreamOrdersAccounted, EnrolsOk
<1>2. CASE \E o \in UOrders : set_processing_with_csr_der(o)
  BY <1>2, StatusKeeps DEF set_processing_with_csr_der
<1>3. CASE DriverStep
  BY <1>3, RoundKeeps, DriveNextKeeps, ReadOrderKeeps, ReadAuthzKeeps, TriggerKeeps, FinalizeKeeps, PlaceKeeps,
     RecordKeeps, DeployKeeps, CleanupKeeps, CompleteKeeps DEF DriverStep
<1>4. CASE UpCrash  BY <1>4, UpCrashKeeps
<1>5. CASE UpTick
  BY <1>5 DEF UpTick, UpInv, UpTypes, UrlsOk, AuthzFirst, DrvOk, Withdrawn, UpstreamOrdersAccounted, EnrolsOk
<1>6. CASE \E u \in UpIds : UpstreamCA(u)  BY <1>6, UpstreamCAKeeps
<1>7. CASE DogtagNext  BY <1>7, DogtagKeeps
<1>. QED  BY <1>1, <1>2, <1>3, <1>4, <1>5, <1>6, <1>7 DEF UpNext

(* The orders placed at another CA, the DNS records published for them and *)
(* the Dogtag enrolments stay accounted for (delegation_upstream.rs,       *)
(* ca/dogtag.rs), for any orders, any LIMIT, any number of crashes, lost   *)
(* answers and failed scripts.                                             *)
THEOREM UpstreamIsAccounted == UpSpec => []UpstreamAccounted
<1>1. UpInv => UpstreamAccounted
  <2>. SUFFICES ASSUME UpInv PROVE UpstreamAccounted  OBVIOUS
  <2>1. UpstreamOrdersAccounted /\ Withdrawn /\ EnrolsOk  BY DEF UpInv
  <2>2. RecordsWithdrawn  BY <2>1 DEF Withdrawn, RecordsWithdrawn
  <2>3. EnrolsOnce  BY <2>1 DEF EnrolsOk, EnrolsOnce
  <2>. QED  BY <2>1, <2>2, <2>3 DEF UpstreamAccounted
<1>. QED  BY <1>1, UpStarts, UpStep, PTL DEF UpSpec

-----------------------------------------------------------------------------
(***************************************************************************)
(* Authority tokens, for any number of tokens, validations, finalize       *)
(* requests and purges.                                                    *)
(*                                                                         *)
(* The table of used identifiers and the validations that succeeded        *)
(* describe each other: every row was put there by a validation (RowsHere) *)
(* and every validation's row is still there, or its token has expired     *)
(* (RowStays).  So a replay finds the row while the token is valid, and    *)
(* what a finalize request reads, in three reads between which rows may be *)
(* purged, is of a token that proved its authorization (FinsOk).  For the  *)
(* keys, a body in the cache is at most a fetch older than it says         *)
(* (JwksOk), and a fetch knows when it began (TasksOk).                    *)
(***************************************************************************)

(* What VerifyToken has established of a token for an authorization.       *)
Checked(t, a) ==
    /\ TokenCovers(t, a)
    /\ Tok[t].tktype \in Constraints => check_jwt_claim_constraints(t)
    /\ Tok[t].account = TAuthz[a].account

Task == [pc : {"key", "fetch", "x5u", "verify", "insert", "done"}, authz : TAuthzs, token : Tokens,
         has : BOOLEAN, since : Nat]
TaskOk(c) ==
    /\ c \in Task /\ c.since <= tclock
    /\ c.pc = "x5u" => Tok[c.token].via = "x5u"
    /\ c.pc = "fetch" => /\ tclock - c.since <= MaxFetch
                         /\ c.has = TRUE /\ ~published => c.since <= withdrawn
    /\ c.pc = "verify" /\ Tok[c.token].via = "kid" /\ ~published => c.since <= withdrawn + JwksTtl + MaxFetch
    /\ c.pc = "insert" => Checked(c.token, c.authz)
Refused == [pc |-> "refused"]
ChkOk(c) == c = IdleChk \/ c = Refused \/ TaskOk(c)
TasksOk == chk = [k \in Checks |-> chk[k]] /\ \A k \in Checks : ChkOk(chk[k])

Times == /\ tclock \in Nat /\ withdrawn \in Nat /\ withdrawn <= tclock /\ published \in BOOLEAN
JwksOk == /\ jwks \in [cached : BOOLEAN, has : BOOLEAN, ts : Nat] /\ jwks.ts <= tclock
          /\ jwks.cached = TRUE /\ jwks.has = TRUE /\ ~published => jwks.ts <= withdrawn + MaxFetch

Proof == [check : Checks, token : Tokens, authz : TAuthzs, late : BOOLEAN]
ProofsOk == proved \subseteq Proof /\ \A p \in proved : Checked(p.token, p.authz)
RowsHere == \A r \in jtis : \E p \in proved : r = JtiRow(p.token, p.authz)
RowStays == \A p \in proved : Tok[p.token].exp < tclock \/ JtiRow(p.token, p.authz) \in jtis

(* Something a token of a's proofs says.                                   *)
ByFlag(a) == \E p \in proved : p.authz = a /\ Tok[p.token].ca
ByName(a, cv) == \E p \in proved : p.authz = a /\ Tok[p.token].claims[cv[1]] = cv[2]
Unlimited(a, at) == \E p \in proved : p.authz = a /\ (Tok[p.token].exp <= at \/ Tok[p.token].tktype \notin Constraints)

ReadOk(f, x) ==
    /\ x = [pc |-> x.pc, ids |-> x.ids, extra |-> x.extra] /\ x.pc \in {"flag", "exp", "issued", "refused"}
    /\ x.ids \in {{}, {Csr[f].authz}}
    /\ \E p \in proved : p.authz = Csr[f].authz
    /\ x.ids = {} => Unlimited(Csr[f].authz, tclock)
    /\ \A cv \in x.extra : ByName(Csr[f].authz, cv)
    /\ x.pc = "exp" /\ Csr[f].ca => ByFlag(Csr[f].authz)
FinOk(f, x) == x = IdleChk \/ x = Refused \/ ReadOk(f, x)
FinsOk == tfin = [f \in Finalizers |-> tfin[f]] /\ \A f \in Finalizers : FinOk(f, tfin[f])
CertsOk == CaOnlyOnToken /\ WithinToken /\ ExtraNamesAttested

TokInv ==
    Times /\ JwksOk /\ TasksOk /\ ProofsOk /\ RowsHere /\ RowStays /\ TokenOnce /\ FinsOk /\ CertsOk

-----------------------------------------------------------------------------
(* A set of naturals has a least element.                                  *)
LEMMA Least ==
    ASSUME NEW T, T \subseteq Nat, T # {}
    PROVE  \E x \in T : \A y \in T : x <= y
<1>1. \E x \in T : \A y \in T : ~(<<y, x>> \in OpToRel(<, Nat))  BY NatLessThanWellFounded, WFMin, Zenon
<1>2. \E x \in T : \A y \in T : ~(y < x)  BY <1>1 DEF OpToRel
<1>. QED  BY <1>2

(* A claim with one permitted value is made by a token that carries the    *)
(* constraint: check_jwt_claim_constraints held of it.                     *)
LEMMA AttestedByToken ==
    ASSUME NEW t \in Tokens, Tok[t].tktype \in Constraints, check_jwt_claim_constraints(t), NEW cv \in Attested(Tok[t].tkvalue)
    PROVE  Tok[t].claims[cv[1]] = cv[2]
<1>1. PICK b : b = Tok[t].tkvalue /\ b \in DOMAIN Blob  BY TokensAssumption
<1>2. PICK c \in DOMAIN Registry : Cardinality(Allowed(b, c)) = 1 /\ cv = <<c, CHOOSE v \in Allowed(b, c) : TRUE>>
  BY <1>1 DEF Attested
<1>3. c \in DOMAIN Blob[b].permitted /\ Allowed(b, c) = Blob[b].permitted[c]
  <2>1. CASE c \notin DOMAIN Blob[b].permitted
    <3>1. Allowed(b, c) = {}  BY <2>1 DEF Allowed
    <3>. QED  BY <1>2, <3>1, FS_EmptySet
  <2>. QED  BY <2>1 DEF Allowed
<1>4. PICK v : Allowed(b, c) = {v}
  <2>1. IsFiniteSet(Allowed(b, c))  BY <1>1, <1>3, TokensAssumption
  <2>. QED  BY <1>2, <2>1, FS_Singleton
<1>5. Tok[t].claims[c] = v  BY <1>1, <1>3, <1>4 DEF check_jwt_claim_constraints
<1>. QED  BY <1>2, <1>4, <1>5

(* The constraints finalize reads for a proved authorization are those of  *)
(* a token that proved it.                                                 *)
LEMMA BlobOfToken ==
    ASSUME ProofsOk, RowsHere, NEW a \in TAuthzs, ProvedAuthz(a), NEW b \in BlobsFor(a)
    PROVE  \E p \in proved : p.authz = a /\ Tok[p.token].tktype \in Constraints /\ Tok[p.token].tkvalue = b
<1>1. CASE TAuthz[a].type \in Constraints
  <2>1. PICK p \in proved : p.authz = a  BY DEF ProvedAuthz
  <2>2. b = TAuthz[a].value /\ TokenCovers(p.token, a)  BY <1>1, <2>1 DEF BlobsFor, ProofsOk, Checked
  <2>3. TAuthz[a].type # "dns" /\ TAuthz[a].type # "none"  BY <1>1 DEF Constraints, Enhanced
  <2>4. find_claim_for_identifier_type(TAuthz[a].type) = {}
    BY <2>3 DEF find_claim_for_identifier_type, authorized_identifier_type
  <2>5. Tok[p.token].tktype = TAuthz[a].type /\ Tok[p.token].tkvalue = TAuthz[a].value  BY <2>2, <2>4 DEF TokenCovers
  <2>. QED  BY <1>1, <2>1, <2>2, <2>5
<1>2. CASE TAuthz[a].type \notin Constraints
  <2>1. PICK r \in jtis : r.authz = a /\ b \in r.tkvalue  BY <1>2 DEF BlobsFor, get_tkvalue_for_authz
  <2>2. PICK p \in proved : r = JtiRow(p.token, p.authz)  BY <2>1 DEF RowsHere
  <2>3. p.authz = a /\ r.tkvalue = IF Tok[p.token].tktype = TAuthz[a].type THEN {} ELSE {Tok[p.token].tkvalue}
    BY <2>1, <2>2 DEF JtiRow
  <2>4. Tok[p.token].tktype # TAuthz[a].type /\ b = Tok[p.token].tkvalue  BY <2>1, <2>3
  <2>5. TokenCovers(p.token, a)  BY <2>3 DEF ProofsOk, Checked
  <2>6. Tok[p.token].tktype = Enhanced  BY <2>4, <2>5 DEF TokenCovers
  <2>. QED  BY <2>3, <2>4, <2>6 DEF Constraints
<1>. QED  BY <1>1, <1>2

LEMMA NamesAttested ==
    ASSUME ProofsOk, RowsHere, NEW a \in TAuthzs, ProvedAuthz(a), NEW b \in BlobsFor(a), NEW cv \in Attested(b)
    PROVE  ByName(a, cv)
<1>1. PICK p \in proved : p.authz = a /\ Tok[p.token].tktype \in Constraints /\ Tok[p.token].tkvalue = b  BY BlobOfToken
<1>2. p.token \in Tokens /\ check_jwt_claim_constraints(p.token)  BY <1>1 DEF ProofsOk, Proof, Checked
<1>3. Tok[p.token].claims[cv[1]] = cv[2]  BY <1>1, <1>2, AttestedByToken
<1>. QED  BY <1>1, <1>3 DEF ByName

(* An authorization without stored constraints was proved by a token that  *)
(* has expired or that names the identifier itself.                        *)
LEMMA NoBlobUnlimited ==
    ASSUME Times, ProofsOk, RowStays, NEW a \in TAuthzs, ProvedAuthz(a), BlobsFor(a) = {}
    PROVE  Unlimited(a, tclock)
<1>1. PICK p \in proved : p.authz = a  BY DEF ProvedAuthz
<1>2. p.token \in Tokens /\ Tok[p.token].exp \in Nat /\ tclock \in Nat  BY TokensAssumption DEF ProofsOk, Proof, Times
<1>3. TAuthz[a].type \notin Constraints  BY DEF BlobsFor
<1>4. CASE Tok[p.token].exp < tclock  BY <1>1, <1>2, <1>4 DEF Unlimited
<1>5. CASE JtiRow(p.token, p.authz) \in jtis
  <2>1. PICK r : r = JtiRow(p.token, a)  OBVIOUS
  <2>2. r \in jtis /\ r.authz = a /\ r.tkvalue = IF Tok[p.token].tktype = TAuthz[a].type THEN {} ELSE {Tok[p.token].tkvalue}
    BY <1>1, <1>5, <2>1 DEF JtiRow
  <2>3. r.tkvalue = {}
    <3>1. get_tkvalue_for_authz(a) = {}  BY <1>3 DEF BlobsFor
    <3>. QED  BY <2>2, <3>1 DEF get_tkvalue_for_authz
  <2>4. Tok[p.token].tktype = TAuthz[a].type  BY <2>2, <2>3
  <2>. QED  BY <1>1, <1>3, <2>4 DEF Unlimited
<1>. QED  BY <1>4, <1>5 DEF RowStays

-----------------------------------------------------------------------------
(* What the validations have proved and the certificates rest on only      *)
(* grows, and time only passes.                                            *)
LEMMA FinStable ==
    ASSUME Times, Times', ProofsOk, proved \subseteq proved', tclock <= tclock', NEW f \in Finalizers, NEW x, FinOk(f, x)
    PROVE  FinOk(f, x)'
<1>1. tclock \in Nat /\ tclock' \in Nat  BY DEF Times
<1>2. \A p \in proved : Tok[p.token].exp \in Nat  BY TokensAssumption DEF ProofsOk, Proof
<1>3. \A a : Unlimited(a, tclock) => Unlimited(a, tclock)'  BY <1>1, <1>2 DEF Unlimited
<1>4. \A a, cv : ByName(a, cv) => ByName(a, cv)'  BY DEF ByName
<1>5. \A a : ByFlag(a) => ByFlag(a)'  BY DEF ByFlag
<1>6. CASE x = IdleChk \/ x = Refused  BY <1>6 DEF FinOk
<1>7. CASE ReadOk(f, x)  BY <1>3, <1>4, <1>5, <1>7 DEF FinOk, ReadOk
<1>. QED  BY <1>6, <1>7 DEF FinOk

LEMMA FinsStable ==
    ASSUME Times, Times', ProofsOk, FinsOk, proved \subseteq proved', tclock <= tclock', tfin' = tfin
    PROVE  FinsOk'
<1> SUFFICES ASSUME NEW f \in Finalizers PROVE FinOk(f, tfin[f])'  BY DEF FinsOk
<1>1. PICK x : x = tfin[f] /\ x = tfin'[f]  OBVIOUS
<1>2. FinOk(f, x)'  BY <1>1, FinStable DEF FinsOk
<1>. QED  BY <1>1, <1>2

LEMMA CertsStable ==
    ASSUME CertsOk, proved \subseteq proved', tcerts' = tcerts
    PROVE  CertsOk'
<1>1. CaOnlyOnToken'  BY DEF CertsOk, CaOnlyOnToken
<1>2. WithinToken'  BY DEF CertsOk, WithinToken
<1>3. ExtraNamesAttested'  BY DEF CertsOk, ExtraNamesAttested
<1>. QED  BY <1>1, <1>2, <1>3 DEF CertsOk

(* One validation goes on, at one moment.                                  *)
LEMMA TaskStep ==
    ASSUME TasksOk, NEW k \in Checks, NEW w, ChkOk(w), chk' = [chk EXCEPT ![k] = w], UNCHANGED <<tclock, published, withdrawn>>
    PROVE  TasksOk'
<1>1. chk' = [i \in Checks |-> chk'[i]]  BY DEF TasksOk
<1>2. ASSUME NEW i \in Checks PROVE ChkOk(chk[i])'
  <2>1. PICK c : c = chk'[i]  OBVIOUS
  <2>2. ChkOk(c)  BY <2>1 DEF TasksOk
  <2>3. ChkOk(c)'  BY <2>2 DEF ChkOk, TaskOk
  <2>. QED  BY <2>1, <2>3
<1>. QED  BY <1>1, <1>2 DEF TasksOk

LEMMA ChkAlone ==
    ASSUME TokInv, NEW k \in Checks, NEW w, ChkOk(w), chk' = [chk EXCEPT ![k] = w],
           UNCHANGED <<tclock, jtis, jwks, published, withdrawn, proved, tfin, tcerts>>
    PROVE  TokInv'
<1>1. Times /\ JwksOk /\ TasksOk /\ ProofsOk /\ RowsHere /\ RowStays /\ TokenOnce /\ FinsOk /\ CertsOk  BY DEF TokInv
<1>2. Times' /\ JwksOk' /\ ProofsOk' /\ RowsHere' /\ RowStays' /\ TokenOnce'
  BY <1>1 DEF Times, JwksOk, ProofsOk, RowsHere, RowStays, TokenOnce
<1>3. tclock \in Nat  BY <1>1 DEF Times
<1>4. FinsOk' /\ CertsOk'  BY <1>1, <1>2, <1>3, FinsStable, CertsStable
<1>. QED  BY <1>1, <1>2, <1>4, TaskStep DEF TokInv

LEMMA BeginCheckKeeps ==
    ASSUME TokInv, NEW k \in Checks, NEW a \in TAuthzs, NEW t \in Tokens, BeginCheck(k, a, t)
    PROVE  TokInv'
<1> DEFINE pc == IF Tok[t].via = "kid" THEN "key" ELSE IF Tok[t].via = "x5u" THEN "x5u" ELSE "verify"
           w == [pc |-> pc, authz |-> a, token |-> t, has |-> FALSE, since |-> tclock]
<1>1. tclock \in Nat  BY DEF TokInv, Times
<1>2. w \in Task /\ w.pc = pc /\ w.token = t /\ w.since = tclock  BY <1>1 DEF Task
<1>3. chk' = [chk EXCEPT ![k] = w]  BY DEF BeginCheck
<1>4. pc \in {"key", "x5u", "verify"} /\ (pc = "x5u" => Tok[t].via = "x5u") /\ (pc = "verify" => Tok[t].via # "kid")  OBVIOUS
<1> HIDE DEF w, pc
<1>5. TaskOk(w)  BY <1>1, <1>2, <1>4 DEF TaskOk
<1>. QED  BY <1>3, <1>5, ChkAlone DEF BeginCheck, ChkOk

(* To and Refuse as one record.                                            *)
LEMMA TaskAt ==
    ASSUME TokInv, NEW k \in Checks, chk[k].pc \notin {"idle", "refused"}
    PROVE  TaskOk(chk[k])
  BY DEF TokInv, TasksOk, ChkOk, IdleChk, Refused

LEMMA TokMoved ==
    ASSUME NEW c \in Task, NEW pc \in {"key", "fetch", "x5u", "verify", "insert", "done"}, NEW n \in Nat
    PROVE  /\ [c EXCEPT !.pc = pc, !.since = n] \in Task
           /\ [c EXCEPT !.pc = pc, !.since = n].pc = pc
           /\ [c EXCEPT !.pc = pc, !.since = n].since = n
           /\ [c EXCEPT !.pc = pc, !.since = n].token = c.token
           /\ [c EXCEPT !.pc = pc, !.since = n].authz = c.authz
  BY DEF Task

LEMMA MovedTo ==
    ASSUME TokInv, NEW k \in Checks, TaskOk(chk[k]), NEW pc, To(k, pc)
    PROVE  chk' = [chk EXCEPT ![k] = [chk[k] EXCEPT !.pc = pc, !.since = tclock]]
  BY DEF To, TokInv, TasksOk

LEMMA ResolveKeeps ==
    ASSUME TokInv, NEW k \in Checks, resolve_key_via_jwks(k)
    PROVE  TokInv'
<1>1. Times /\ JwksOk /\ tclock \in Nat  BY DEF TokInv, Times
<1>2. PICK c : c = chk[k]  OBVIOUS
<1>3. TaskOk(c) /\ c \in Task  BY <1>2, TaskAt DEF resolve_key_via_jwks, TaskOk
<1>4. CASE Refuse(k)  BY <1>4, ChkAlone DEF Refuse, Refused, ChkOk, resolve_key_via_jwks
<1>5. CASE JwksFresh /\ jwks.has /\ To(k, "verify")
  <2>1. PICK w : w = [c EXCEPT !.pc = "verify", !.since = tclock]  OBVIOUS
  <2>2. w \in Task /\ w.pc = "verify" /\ w.since = tclock /\ w.token = c.token  BY <1>1, <1>3, <2>1 DEF Task
  <2>3. chk' = [chk EXCEPT ![k] = w]  BY <1>2, <1>3, <1>5, <2>1, MovedTo
  <2>4. ~published => tclock <= withdrawn + JwksTtl + MaxFetch
    <3>1. jwks.cached = TRUE /\ jwks.has = TRUE /\ jwks.ts \in Nat /\ tclock - jwks.ts <= JwksTtl  BY <1>1, <1>5 DEF JwksFresh, JwksOk
    <3>2. ~published => jwks.ts <= withdrawn + MaxFetch  BY <1>1, <3>1 DEF JwksOk
    <3>3. withdrawn \in Nat /\ JwksTtl \in Nat /\ MaxFetch \in Nat  BY <1>1, TokensAssumption DEF Times
    <3>. QED  BY <1>1, <3>1, <3>2, <3>3
  <2>5. TaskOk(w)  BY <1>1, <2>2, <2>4 DEF TaskOk
  <2>. QED  BY <2>3, <2>5, ChkAlone DEF ChkOk, resolve_key_via_jwks
<1>6. CASE chk' = [chk EXCEPT ![k].pc = "fetch", ![k].has = published, ![k].since = tclock]
  <2>1. PICK w : w = [c EXCEPT !.pc = "fetch", !.has = published, !.since = tclock]  OBVIOUS
  <2>2. w \in Task /\ w.pc = "fetch" /\ w.since = tclock /\ w.has = published /\ w.token = c.token  BY <1>1, <1>3, <2>1 DEF Task, Times
  <2>3. chk' = [chk EXCEPT ![k] = w]  BY <1>2, <1>6, <2>1 DEF TokInv, TasksOk
  <2>4. TaskOk(w)
    <3>1. tclock - tclock <= MaxFetch /\ tclock <= tclock  BY <1>1, TokensAssumption
    <3>. QED  BY <2>2, <3>1 DEF TaskOk
  <2>. QED  BY <2>3, <2>4, ChkAlone DEF ChkOk, resolve_key_via_jwks
<1>. QED  BY <1>4, <1>5, <1>6 DEF resolve_key_via_jwks

LEMMA FetchJwksKeeps ==
    ASSUME TokInv, NEW k \in Checks, NEW ok \in BOOLEAN, fetch_jwks(k, ok)
    PROVE  TokInv'
<1>1. Times /\ JwksOk /\ TasksOk /\ ProofsOk /\ RowsHere /\ RowStays /\ TokenOnce /\ FinsOk /\ CertsOk /\ tclock \in Nat  BY DEF TokInv, Times
<1>2. PICK c : c = chk[k]  OBVIOUS
<1>3. TaskOk(c) /\ c \in Task /\ c.pc = "fetch"  BY <1>2, TaskAt DEF fetch_jwks, TaskOk
<1>4. c.since \in Nat /\ c.has \in BOOLEAN /\ withdrawn \in Nat /\ JwksTtl \in Nat /\ MaxFetch \in Nat
  BY <1>1, <1>3, TokensAssumption DEF Task, Times
<1>5. c.has = TRUE /\ ~published => tclock <= withdrawn + MaxFetch
  <2>1. tclock - c.since <= MaxFetch /\ (c.has = TRUE /\ ~published => c.since <= withdrawn)  BY <1>3 DEF TaskOk
  <2>. QED  BY <1>1, <1>4, <2>1
<1>6. UNCHANGED <<tclock, jtis, published, withdrawn, proved, tfin, tcerts>>  BY DEF fetch_jwks
<1>7. Times' /\ ProofsOk' /\ RowsHere' /\ RowStays' /\ TokenOnce'
  BY <1>1, <1>6 DEF Times, ProofsOk, RowsHere, RowStays, TokenOnce
<1>8. FinsOk' /\ CertsOk'  BY <1>1, <1>6, <1>7, FinsStable, CertsStable
<1>9. JwksOk'
  <2>1. CASE ok
    <3>1. PICK h : h = [cached |-> TRUE, has |-> c.has, ts |-> tclock]  OBVIOUS
    <3>2. jwks' = h  BY <1>2, <2>1, <3>1 DEF fetch_jwks
    <3>3. h \in [cached : BOOLEAN, has : BOOLEAN, ts : Nat] /\ h.has = c.has /\ h.ts = tclock  BY <1>1, <1>4, <3>1
    <3>. QED  BY <1>1, <1>5, <1>6, <3>2, <3>3 DEF JwksOk
  <2>2. CASE ~ok
    <3>1. jwks' = jwks  BY <2>2 DEF fetch_jwks
    <3>. QED  BY <1>1, <1>6, <3>1 DEF JwksOk
  <2>. QED  BY <2>1, <2>2
<1>10. TasksOk'
  <2>1. CASE Refuse(k)  BY <1>1, <1>6, <2>1, TaskStep DEF Refuse, Refused, ChkOk
  <2>2. CASE c.has = TRUE /\ To(k, "verify")
    <3>1. PICK w : w = [c EXCEPT !.pc = "verify", !.since = tclock]  OBVIOUS
    <3>2. w \in Task /\ w.pc = "verify" /\ w.since = tclock /\ w.token = c.token  BY <1>1, <1>3, <3>1, TokMoved
    <3>3. chk' = [chk EXCEPT ![k] = w]  BY <1>2, <1>3, <2>2, <3>1, MovedTo
    <3>4. ~published => tclock <= withdrawn + JwksTtl + MaxFetch  BY <1>1, <1>4, <1>5, <2>2
    <3>5. TaskOk(w)  BY <1>1, <3>2, <3>4 DEF TaskOk
    <3>. QED  BY <1>1, <1>6, <3>3, <3>5, TaskStep DEF ChkOk
  <2>3. c.has = TRUE \/ c.has = FALSE  BY <1>4
  <2>. QED  BY <1>2, <2>1, <2>2, <2>3 DEF fetch_jwks
<1>. QED  BY <1>7, <1>8, <1>9, <1>10 DEF TokInv

LEMMA FetchCertKeeps ==
    ASSUME TokInv, NEW k \in Checks, NEW ok \in BOOLEAN, fetch_cert_via_x5u(k, ok)
    PROVE  TokInv'
<1>1. tclock \in Nat  BY DEF TokInv, Times
<1>2. PICK c : c = chk[k]  OBVIOUS
<1>3. TaskOk(c) /\ c \in Task /\ Tok[c.token].via = "x5u"  BY <1>2, TaskAt DEF fetch_cert_via_x5u, TaskOk
<1>4. CASE Refuse(k)  BY <1>4, ChkAlone DEF Refuse, Refused, ChkOk, fetch_cert_via_x5u
<1>5. CASE To(k, "verify")
  <2>1. PICK w : w = [c EXCEPT !.pc = "verify", !.since = tclock]  OBVIOUS
  <2>2. w \in Task /\ w.pc = "verify" /\ w.since = tclock /\ w.token = c.token  BY <1>1, <1>3, <2>1 DEF Task
  <2>3. chk' = [chk EXCEPT ![k] = w]  BY <1>2, <1>3, <1>5, <2>1, MovedTo
  <2>4. TaskOk(w)  BY <1>1, <1>3, <2>2 DEF TaskOk
  <2>. QED  BY <2>3, <2>4, ChkAlone DEF ChkOk, fetch_cert_via_x5u
<1>. QED  BY <1>4, <1>5 DEF fetch_cert_via_x5u

LEMMA VerifyKeeps ==
    ASSUME TokInv, NEW k \in Checks, VerifyToken(k)
    PROVE  TokInv'
<1>1. tclock \in Nat  BY DEF TokInv, Times
<1>2. PICK c : c = chk[k]  OBVIOUS
<1>3. TaskOk(c) /\ c \in Task  BY <1>2, TaskAt DEF VerifyToken, TaskOk
<1>4. CASE Refuse(k)  BY <1>4, ChkAlone DEF Refuse, Refused, ChkOk, VerifyToken
<1>5. CASE Verifies(c.token, c.authz) /\ To(k, "insert")
  <2>1. PICK w : w = [c EXCEPT !.pc = "insert", !.since = tclock]  OBVIOUS
  <2>2. w \in Task /\ w.pc = "insert" /\ w.since = tclock /\ w.token = c.token /\ w.authz = c.authz  BY <1>1, <1>3, <2>1 DEF Task
  <2>3. chk' = [chk EXCEPT ![k] = w]  BY <1>2, <1>3, <1>5, <2>1, MovedTo
  <2>4. Checked(c.token, c.authz)  BY <1>5 DEF Verifies, Checked
  <2>5. TaskOk(w)  BY <1>1, <2>2, <2>4 DEF TaskOk
  <2>. QED  BY <2>3, <2>5, ChkAlone DEF ChkOk, VerifyToken
<1>. QED  BY <1>2, <1>4, <1>5 DEF VerifyToken

-----------------------------------------------------------------------------
(* The row of a used identifier is there until it has expired: what goes   *)
(* by the table and finds none is late.                                    *)
LEMMA InsertKeeps ==
    ASSUME TokInv, NEW k \in Checks, insert_jti(k)
    PROVE  TokInv'
<1>1. Times /\ JwksOk /\ TasksOk /\ ProofsOk /\ RowsHere /\ RowStays /\ TokenOnce /\ FinsOk /\ CertsOk /\ tclock \in Nat  BY DEF TokInv, Times
<1>2. PICK c : c = chk[k]  OBVIOUS
<1>3. TaskOk(c) /\ c \in Task /\ c.pc = "insert"  BY <1>2, TaskAt DEF insert_jti, TaskOk
<1>4. PICK t \in Tokens, a \in TAuthzs : t = c.token /\ a = c.authz  BY <1>3 DEF Task
<1>5. Checked(t, a)  BY <1>3, <1>4 DEF TaskOk
<1>6. CASE JtiUsed(t, a)
  <2>1. Refuse(k) /\ UNCHANGED <<tclock, jtis, jwks, published, withdrawn, proved, tfin, tcerts>>  BY <1>2, <1>4, <1>6 DEF insert_jti
  <2>. QED  BY <2>1, ChkAlone DEF Refuse, Refused, ChkOk
<1>7. CASE ~JtiUsed(t, a)
  <2>1. PICK p : p = [check |-> k, token |-> t, authz |-> a, late |-> tclock >= Tok[t].exp]  OBVIOUS
  <2>2. Tok[t].exp \in Nat  BY TokensAssumption
  <2>3. p \in Proof /\ p.token = t /\ p.authz = a /\ p.late = (tclock >= Tok[t].exp)  BY <1>1, <2>1, <2>2 DEF Proof
  <2>4. /\ proved' = proved \union {p} /\ jtis' = jtis \union {JtiRow(t, a)} /\ To(k, "done")
        /\ UNCHANGED <<tclock, jwks, published, withdrawn, tfin, tcerts>>
    BY <1>2, <1>4, <1>7, <2>1 DEF insert_jti
  <2>5. Times' /\ JwksOk'  BY <1>1, <2>4 DEF Times, JwksOk
  <2>6. ProofsOk'  BY <1>1, <1>5, <2>3, <2>4 DEF ProofsOk
  <2>7. RowsHere' /\ RowStays'  BY <1>1, <2>3, <2>4 DEF RowsHere, RowStays
  <2>8. TokenOnce'
    <3>1. ASSUME NEW q \in proved, Tok[q.token].jti = Tok[t].jti, Tok[q.token].exp = Tok[t].exp PROVE p.late
      <4>1. JtiRow(q.token, q.authz).jti = Tok[t].jti  BY <3>1 DEF JtiRow
      <4>2. JtiRow(q.token, q.authz) \notin jtis  BY <1>7, <4>1 DEF JtiUsed
      <4>3. Tok[t].exp < tclock  BY <1>1, <3>1, <4>2 DEF RowStays
      <4>4. tclock >= Tok[t].exp  BY <1>1, <2>2, <4>3
      <4>. QED  BY <2>3, <4>4, Zenon
    <3>. QED  BY <1>1, <2>3, <2>4, <3>1 DEF TokenOnce
  <2>9. FinsOk' /\ CertsOk'  BY <1>1, <2>4, <2>5, FinsStable, CertsStable
  <2>10. TasksOk'
    <3>1. PICK w : w = [c EXCEPT !.pc = "done", !.since = tclock]  OBVIOUS
    <3>2. w \in Task /\ w.pc = "done" /\ w.since = tclock  BY <1>1, <1>3, <3>1 DEF Task
    <3>3. chk' = [chk EXCEPT ![k] = w]  BY <1>2, <1>3, <2>4, <3>1, MovedTo
    <3>4. TaskOk(w)  BY <1>1, <3>2 DEF TaskOk
    <3>. QED  BY <1>1, <2>4, <3>3, <3>4, TaskStep DEF ChkOk
  <2>. QED  BY <2>5, <2>6, <2>7, <2>8, <2>9, <2>10 DEF TokInv
<1>. QED  BY <1>6, <1>7

LEMMA PurgeKeeps ==
    ASSUME TokInv, purge_expired
    PROVE  TokInv'
<1>1. Times /\ JwksOk /\ TasksOk /\ ProofsOk /\ RowsHere /\ RowStays /\ TokenOnce /\ FinsOk /\ CertsOk /\ tclock \in Nat  BY DEF TokInv, Times
<1>2. jtis' = {r \in jtis : r.exp >= tclock} /\ UNCHANGED <<tclock, chk, jwks, published, withdrawn, proved, tfin, tcerts>>
  BY DEF purge_expired
<1>3. Times' /\ JwksOk' /\ ProofsOk' /\ TokenOnce'  BY <1>1, <1>2 DEF Times, JwksOk, ProofsOk, TokenOnce
<1>4. TasksOk'  BY <1>1, <1>2 DEF TasksOk, ChkOk, TaskOk
<1>5. RowsHere'  BY <1>1, <1>2 DEF RowsHere
<1>6. RowStays'
  <2> SUFFICES ASSUME NEW p \in proved PROVE Tok[p.token].exp < tclock \/ JtiRow(p.token, p.authz) \in jtis'
    BY <1>2 DEF RowStays
  <2>1. PICK r : r = JtiRow(p.token, p.authz)  OBVIOUS
  <2>2. r.exp = Tok[p.token].exp /\ r.exp \in Nat  BY <1>1, <2>1, TokensAssumption DEF JtiRow, ProofsOk, Proof
  <2>3. Tok[p.token].exp < tclock \/ r \in jtis  BY <1>1, <2>1 DEF RowStays
  <2>. QED  BY <1>1, <1>2, <2>1, <2>2, <2>3
<1>7. FinsOk' /\ CertsOk'  BY <1>1, <1>2, <1>3, FinsStable, CertsStable
<1>. QED  BY <1>3, <1>4, <1>5, <1>6, <1>7 DEF TokInv

-----------------------------------------------------------------------------
(* One finalize request goes on.                                           *)
LEMMA FinStep ==
    ASSUME TokInv, NEW f \in Finalizers, NEW x, FinOk(f, x), tfin' = [tfin EXCEPT ![f] = x], CertsOk',
           UNCHANGED <<tclock, jtis, chk, jwks, published, withdrawn, proved>>
    PROVE  TokInv'
<1>1. Times /\ JwksOk /\ TasksOk /\ ProofsOk /\ RowsHere /\ RowStays /\ TokenOnce /\ FinsOk /\ tclock \in Nat  BY DEF TokInv, Times
<1>2. Times' /\ JwksOk' /\ ProofsOk' /\ RowsHere' /\ RowStays' /\ TokenOnce'
  BY <1>1 DEF Times, JwksOk, ProofsOk, RowsHere, RowStays, TokenOnce
<1>3. TasksOk'  BY <1>1 DEF TasksOk, ChkOk, TaskOk
<1>4. FinsOk'
  <2>1. tfin' = [g \in Finalizers |-> tfin'[g]]  BY <1>1 DEF FinsOk
  <2>2. ASSUME NEW g \in Finalizers PROVE FinOk(g, tfin[g])'
    <3>1. PICK y : y = tfin'[g]  OBVIOUS
    <3>2. FinOk(g, y)  BY <1>1, <3>1 DEF FinsOk
    <3>3. FinOk(g, y)'  BY <1>1, <1>2, <3>2, FinStable
    <3>. QED  BY <3>1, <3>3
  <2>. QED  BY <2>1, <2>2 DEF FinsOk
<1>. QED  BY <1>2, <1>3, <1>4 DEF TokInv

LEMMA ReadTkvalueKeeps ==
    ASSUME TokInv, NEW f \in Finalizers, NEW blobs, ReadTkvalue(f, blobs)
    PROVE  TokInv'
<1>1. Times /\ ProofsOk /\ RowsHere /\ RowStays /\ FinsOk /\ CertsOk  BY DEF TokInv
<1>2. PICK a \in TAuthzs : a = Csr[f].authz  BY TokensAssumption
<1>3. ProvedAuthz(a) /\ blobs \subseteq BlobsFor(a) /\ (blobs = {} <=> BlobsFor(a) = {})  BY <1>2 DEF ReadTkvalue
<1>4. UNCHANGED <<tclock, jtis, chk, jwks, published, withdrawn, proved, tcerts>>  BY DEF ReadTkvalue
<1>5. CertsOk'  BY <1>1, <1>4, CertsStable
<1>6. CASE tfin' = [tfin EXCEPT ![f] = Refused]  BY <1>4, <1>5, <1>6, FinStep DEF FinOk
<1>7. CASE tfin' = [tfin EXCEPT ![f] = [pc |-> "flag", ids |-> IF blobs = {} THEN {} ELSE {a},
                      extra |-> {cv \in UNION {Attested(b) : b \in blobs} : ~InOrder(f, cv)}]]
  <2>1. PICK ids, extra : /\ ids = (IF blobs = {} THEN {} ELSE {a})
                          /\ extra = {cv \in UNION {Attested(b) : b \in blobs} : ~InOrder(f, cv)}
    OBVIOUS
  <2>2. PICK x : x = [pc |-> "flag", ids |-> ids, extra |-> extra]  OBVIOUS
  <2>3. tfin' = [tfin EXCEPT ![f] = x]  BY <1>7, <2>1, <2>2, Zenon
  <2>4. x.pc = "flag" /\ x.ids = ids /\ x.extra = extra /\ x = [pc |-> x.pc, ids |-> x.ids, extra |-> x.extra]  BY <2>2
  <2>5. ids \in {{}, {a}} /\ (ids = {} => Unlimited(a, tclock))  BY <1>1, <1>3, <2>1, NoBlobUnlimited
  <2>6. \A cv \in extra : ByName(a, cv)
    <3>1. ASSUME NEW cv \in extra PROVE ByName(a, cv)
      <4>1. PICK b \in blobs : cv \in Attested(b)  BY <2>1
      <4>. QED  BY <1>1, <1>3, <4>1, NamesAttested
    <3>. QED  BY <3>1
  <2>7. \E p \in proved : p.authz = a  BY <1>3 DEF ProvedAuthz
  <2>8. ReadOk(f, x)  BY <1>2, <2>4, <2>5, <2>6, <2>7 DEF ReadOk
  <2>. QED  BY <1>4, <1>5, <2>3, <2>8, FinStep DEF FinOk
<1>. QED  BY <1>2, <1>6, <1>7 DEF ReadTkvalue, Refused

(* A request that has read its constraints.                                *)
LEMMA FinAt ==
    ASSUME TokInv, NEW f \in Finalizers, tfin[f].pc \in {"flag", "exp"}
    PROVE  ReadOk(f, tfin[f])
  BY DEF TokInv, FinsOk, FinOk, IdleChk, Refused

LEMMA ReadCaFlagKeeps ==
    ASSUME TokInv, NEW f \in Finalizers, ReadCaFlag(f)
    PROVE  TokInv'
<1>1. Times /\ ProofsOk /\ RowsHere /\ RowStays /\ FinsOk /\ CertsOk  BY DEF TokInv
<1>2. PICK x : x = tfin[f]  OBVIOUS
<1>3. ReadOk(f, x) /\ x.pc = "flag"  BY <1>2, FinAt DEF ReadCaFlag
<1>4. UNCHANGED <<tclock, jtis, chk, jwks, published, withdrawn, proved, tcerts>>  BY DEF ReadCaFlag
<1>5. CertsOk'  BY <1>1, <1>4, CertsStable
<1>6. PICK pc : pc = IF Csr[f].ca = get_any_ca_flag_for_authzs(x.ids) THEN "exp" ELSE "refused"  OBVIOUS
<1>7. PICK ids, extra : ids = x.ids /\ extra = x.extra  OBVIOUS
<1>8. PICK y : y = [pc |-> pc, ids |-> ids, extra |-> extra]  OBVIOUS
<1>9. y.pc = pc /\ y.ids = ids /\ y.extra = extra /\ y = [pc |-> y.pc, ids |-> y.ids, extra |-> y.extra]  BY <1>8
<1>10. tfin' = [tfin EXCEPT ![f] = y]
  <2>1. x = [pc |-> x.pc, ids |-> ids, extra |-> extra]  BY <1>3, <1>7 DEF ReadOk
  <2>2. [x EXCEPT !.pc = pc] = y  BY <1>8, <2>1
  <2>3. tfin' = [tfin EXCEPT ![f] = [x EXCEPT !.pc = pc]]  BY <1>1, <1>2, <1>6 DEF ReadCaFlag, FinsOk
  <2>. QED  BY <2>2, <2>3
<1>11. pc = "exp" /\ Csr[f].ca => ByFlag(Csr[f].authz)
  <2> SUFFICES ASSUME pc = "exp", Csr[f].ca PROVE ByFlag(Csr[f].authz)  OBVIOUS
  <2>1. get_any_ca_flag_for_authzs(x.ids)  BY <1>6
  <2>2. PICK r \in jtis : r.authz \in x.ids /\ r.ca  BY <2>1 DEF get_any_ca_flag_for_authzs
  <2>3. r.authz = Csr[f].authz  BY <1>3, <2>2 DEF ReadOk
  <2>4. PICK p \in proved : r = JtiRow(p.token, p.authz)  BY <1>1, <2>2 DEF RowsHere
  <2>5. r.authz = p.authz /\ r.ca = Tok[p.token].ca  BY <2>4 DEF JtiRow
  <2>. QED  BY <2>2, <2>3, <2>5 DEF ByFlag
<1>12. pc \in {"exp", "refused"}  BY <1>6
<1>13. ReadOk(f, y)  BY <1>3, <1>7, <1>9, <1>11, <1>12 DEF ReadOk
<1>. QED  BY <1>4, <1>5, <1>10, <1>13, FinStep DEF FinOk

(* The limit finalize takes is that of a token of the authorization, or    *)
(* one of them had none to give.                                           *)
LEMMA LimitOfToken ==
    ASSUME TokInv, NEW a \in TAuthzs, NEW ids \in {{}, {a}}, \E p \in proved : p.authz = a, ids = {} => Unlimited(a, tclock)
    PROVE  \E p \in proved : /\ p.authz = a
                             /\ \/ resolve_clamped_validity(get_min_exp_for_authzs(ids)) <= Tok[p.token].exp
                                \/ Tok[p.token].exp <= tclock
                                \/ Tok[p.token].tktype \notin Constraints
<1>1. Times /\ ProofsOk /\ RowsHere /\ RowStays /\ tclock \in Nat  BY DEF TokInv, Times
<1>2. CASE ids = {}  BY <1>2 DEF Unlimited
<1>3. CASE ids = {a}
  <2>1. PICK limits : limits = get_min_exp_for_authzs(ids)  OBVIOUS
  <2>2. ASSUME NEW n \in limits
        PROVE  \E p \in proved : p.authz = a /\ Tok[p.token].exp = n /\ n \in Nat
    <3>1. PICK r \in jtis : r.authz = a /\ n = r.exp  BY <1>3, <2>1 DEF get_min_exp_for_authzs
    <3>2. PICK p \in proved : r = JtiRow(p.token, p.authz)  BY <1>1 DEF RowsHere
    <3>3. r.authz = p.authz /\ r.exp = Tok[p.token].exp  BY <3>2 DEF JtiRow
    <3>. QED  BY <1>1, <3>1, <3>3, TokensAssumption DEF ProofsOk, Proof
  <2>3. CASE limits = {}
    <3>1. PICK p \in proved : p.authz = a  OBVIOUS
    <3>2. PICK r : r = JtiRow(p.token, p.authz)  OBVIOUS
    <3>3. r.authz = a  BY <3>1, <3>2 DEF JtiRow
    <3>4. r \notin jtis  BY <1>3, <2>1, <2>3, <3>3 DEF get_min_exp_for_authzs
    <3>5. Tok[p.token].exp < tclock  BY <1>1, <3>2, <3>4 DEF RowStays
    <3>6. Tok[p.token].exp \in Nat  BY <1>1, TokensAssumption DEF ProofsOk, Proof
    <3>. QED  BY <1>1, <3>1, <3>5, <3>6
  <2>4. CASE limits # {}
    <3>1. PICK min : min = CHOOSE x \in limits : \A y \in limits : x <= y  OBVIOUS
    <3>2. limits \subseteq Nat  BY <2>2
    <3>3. min \in limits  BY <2>4, <3>1, <3>2, Least
    <3>4. PICK p \in proved : p.authz = a /\ Tok[p.token].exp = min /\ min \in Nat  BY <2>2, <3>3
    <3>5. resolve_clamped_validity(limits) = IF limits = {} \/ min <= tclock THEN tclock + LongLife ELSE min
      BY <3>1 DEF resolve_clamped_validity
    <3>6. CASE min <= tclock  BY <3>4, <3>6
    <3>7. CASE ~(min <= tclock)
      <4>1. resolve_clamped_validity(limits) = min  BY <2>4, <3>5, <3>7
      <4>. QED  BY <2>1, <3>4, <4>1
    <3>. QED  BY <3>6, <3>7
  <2>. QED  BY <2>3, <2>4
<1>. QED  BY <1>2, <1>3

LEMMA ReadMinExpKeeps ==
    ASSUME TokInv, NEW f \in Finalizers, ReadMinExp(f)
    PROVE  TokInv'
<1>1. Times /\ ProofsOk /\ RowsHere /\ RowStays /\ FinsOk /\ CertsOk  BY DEF TokInv
<1>2. PICK x : x = tfin[f]  OBVIOUS
<1>3. ReadOk(f, x) /\ x.pc = "exp"  BY <1>2, FinAt DEF ReadMinExp
<1>4. UNCHANGED <<tclock, jtis, chk, jwks, published, withdrawn, proved>>  BY DEF ReadMinExp
<1>5. PICK a \in TAuthzs : a = Csr[f].authz  BY TokensAssumption
<1>6. PICK ids, extra : ids = x.ids /\ extra = x.extra  OBVIOUS
<1>7. PICK na : na = resolve_clamped_validity(get_min_exp_for_authzs(ids))  OBVIOUS
<1>8. PICK flag \in BOOLEAN : flag = Csr[f].ca  BY TokensAssumption
<1>9. PICK c : c = [authz |-> a, ca |-> flag, extra |-> extra, at |-> tclock, na |-> na]  OBVIOUS
<1>10. c.authz = a /\ c.ca = flag /\ c.extra = extra /\ c.at = tclock /\ c.na = na  BY <1>9
<1>11. tcerts' = tcerts \union {c}  BY <1>2, <1>5, <1>6, <1>7, <1>8, <1>9 DEF ReadMinExp
<1>12. CertsOk'
  <2>1. CaOnlyOnToken'
    <3>1. flag => \E p \in proved : p.authz = a /\ Tok[p.token].ca  BY <1>3, <1>5, <1>8 DEF ReadOk, ByFlag
    <3>. QED  BY <1>1, <1>4, <1>10, <1>11, <3>1 DEF CertsOk, CaOnlyOnToken
  <2>2. WithinToken'
    <3>1. ids \in {{}, {a}} /\ (\E p \in proved : p.authz = a) /\ (ids = {} => Unlimited(a, tclock))
      BY <1>3, <1>5, <1>6 DEF ReadOk
    <3>2. \E p \in proved : /\ p.authz = a
                            /\ na <= Tok[p.token].exp \/ Tok[p.token].exp <= tclock \/ Tok[p.token].tktype \notin Constraints
      BY <1>7, <3>1, LimitOfToken
    <3>. QED  BY <1>1, <1>4, <1>10, <1>11, <3>2 DEF CertsOk, WithinToken
  <2>3. ExtraNamesAttested'
    <3>1. \A cv \in extra : \E p \in proved : p.authz = a /\ Tok[p.token].claims[cv[1]] = cv[2]
      BY <1>3, <1>5, <1>6 DEF ReadOk, ByName
    <3>. QED  BY <1>1, <1>4, <1>10, <1>11, <3>1 DEF CertsOk, ExtraNamesAttested
  <2>. QED  BY <2>1, <2>2, <2>3 DEF CertsOk
<1>13. PICK y : y = [pc |-> "issued", ids |-> ids, extra |-> extra]  OBVIOUS
<1>14. y.pc = "issued" /\ y.ids = ids /\ y.extra = extra /\ y = [pc |-> y.pc, ids |-> y.ids, extra |-> y.extra]  BY <1>13
<1>15. tfin' = [tfin EXCEPT ![f] = y]
  <2>1. x = [pc |-> x.pc, ids |-> ids, extra |-> extra]  BY <1>3, <1>6 DEF ReadOk
  <2>2. [x EXCEPT !.pc = "issued"] = y  BY <1>13, <2>1
  <2>3. tfin' = [tfin EXCEPT ![f] = [x EXCEPT !.pc = "issued"]]  BY <1>1, <1>2 DEF ReadMinExp, FinsOk
  <2>. QED  BY <2>2, <2>3
<1>16. ReadOk(f, y)  BY <1>3, <1>6, <1>14 DEF ReadOk
<1>. QED  BY <1>4, <1>12, <1>15, <1>16, FinStep DEF FinOk

-----------------------------------------------------------------------------
(* What was fetched before the authority withdrew its key.                 *)
LEMMA WithdrawKeeps ==
    ASSUME TokInv, WithdrawKey
    PROVE  TokInv'
<1>1. Times /\ JwksOk /\ TasksOk /\ ProofsOk /\ RowsHere /\ RowStays /\ TokenOnce /\ FinsOk /\ CertsOk  BY DEF TokInv
<1>2. published' = FALSE /\ withdrawn' = tclock /\ UNCHANGED <<tclock, jtis, chk, jwks, proved, tfin, tcerts>>  BY DEF WithdrawKey
<1>3. tclock \in Nat /\ JwksTtl \in Nat /\ MaxFetch \in Nat  BY <1>1, TokensAssumption DEF Times
<1>4. Times' /\ ProofsOk' /\ RowsHere' /\ RowStays' /\ TokenOnce'
  <2>1. Times'
    <3>1. published' \in BOOLEAN  BY <1>2, Zenon
    <3>2. tclock' \in Nat /\ withdrawn' \in Nat /\ withdrawn' <= tclock'  BY <1>2, <1>3
    <3>. QED  BY <3>1, <3>2 DEF Times
  <2>2. ProofsOk' /\ RowsHere' /\ RowStays' /\ TokenOnce'  BY <1>1, <1>2 DEF ProofsOk, RowsHere, RowStays, TokenOnce
  <2>. QED  BY <2>1, <2>2
<1>5. JwksOk'
  <2>1. jwks.ts \in Nat /\ jwks.ts <= tclock + MaxFetch  BY <1>1, <1>3 DEF JwksOk
  <2>. QED  BY <1>1, <1>2, <2>1 DEF JwksOk
<1>6. TasksOk'
  <2>1. ASSUME NEW k \in Checks PROVE ChkOk(chk[k])'
    <3>1. PICK c : c = chk[k] /\ c = chk'[k]  BY <1>2
    <3>2. CASE TaskOk(c)
      <4>1. c \in Task /\ c.since \in Nat /\ c.since <= tclock  BY <3>2 DEF TaskOk, Task
      <4>2. c.since <= tclock + JwksTtl + MaxFetch  BY <1>3, <4>1
      <4>. QED  BY <1>2, <3>1, <3>2, <4>1, <4>2 DEF TaskOk, ChkOk
    <3>. QED  BY <1>1, <3>1, <3>2 DEF TasksOk, ChkOk
  <2>. QED  BY <1>1, <1>2, <2>1 DEF TasksOk
<1>7. FinsOk' /\ CertsOk'  BY <1>1, <1>2, <1>3, <1>4, FinsStable, CertsStable
<1>. QED  BY <1>4, <1>5, <1>6, <1>7 DEF TokInv

LEMMA TokTickKeeps ==
    ASSUME TokInv, TokTick
    PROVE  TokInv'
<1>1. Times /\ JwksOk /\ TasksOk /\ ProofsOk /\ RowsHere /\ RowStays /\ TokenOnce /\ FinsOk /\ CertsOk  BY DEF TokInv
<1>2. tclock' = tclock + 1 /\ UNCHANGED <<jtis, chk, jwks, published, withdrawn, proved, tfin, tcerts>>  BY DEF TokTick
<1>3. tclock \in Nat /\ MaxFetch \in Nat /\ tclock' \in Nat /\ tclock <= tclock'  BY <1>1, <1>2, TokensAssumption DEF Times
<1>4. Times' /\ ProofsOk' /\ RowsHere' /\ TokenOnce'  BY <1>1, <1>2, <1>3 DEF Times, ProofsOk, RowsHere, TokenOnce
<1>5. RowStays'
  <2>1. \A p \in proved : Tok[p.token].exp \in Nat  BY <1>1, TokensAssumption DEF ProofsOk, Proof
  <2>. QED  BY <1>1, <1>2, <1>3, <2>1 DEF RowStays
<1>6. JwksOk'  BY <1>1, <1>2, <1>3 DEF JwksOk
<1>7. TasksOk'
  <2>1. ASSUME NEW k \in Checks PROVE ChkOk(chk[k])'
    <3>1. PICK c : c = chk[k] /\ c = chk'[k]  BY <1>2
    <3>2. CASE TaskOk(c)
      <4>1. c \in Task /\ c.since \in Nat /\ c.since <= tclock  BY <3>2 DEF TaskOk, Task
      <4>2. c.pc = "fetch" => tclock - c.since < MaxFetch  BY <3>1 DEF TokTick
      <4>3. c.since <= tclock' /\ (c.pc = "fetch" => tclock' - c.since <= MaxFetch)  BY <1>2, <1>3, <4>1, <4>2
      <4>. QED  BY <1>2, <3>1, <3>2, <4>1, <4>3 DEF TaskOk, ChkOk
    <3>. QED  BY <1>1, <3>1, <3>2 DEF TasksOk, ChkOk
  <2>. QED  BY <1>1, <1>2, <2>1 DEF TasksOk
<1>8. FinsOk' /\ CertsOk'  BY <1>1, <1>2, <1>3, <1>4, FinsStable, CertsStable
<1>. QED  BY <1>4, <1>5, <1>6, <1>7, <1>8 DEF TokInv

-----------------------------------------------------------------------------
LEMMA TokInvInit == TokInit => TokInv
<1> SUFFICES ASSUME TokInit PROVE TokInv  OBVIOUS
<1>1. Times /\ JwksOk  BY TokensAssumption DEF TokInit, Times, JwksOk, NoJwks
<1>2. TasksOk /\ FinsOk  BY DEF TokInit, TasksOk, FinsOk, ChkOk, FinOk
<1>3. ProofsOk /\ RowsHere /\ RowStays /\ TokenOnce  BY DEF TokInit, ProofsOk, RowsHere, RowStays, TokenOnce
<1>4. CertsOk  BY DEF TokInit, CertsOk, CaOnlyOnToken, WithinToken, ExtraNamesAttested
<1>. QED  BY <1>1, <1>2, <1>3, <1>4 DEF TokInv

LEMMA TokInvNext == TokInv /\ [TokNext]_tokVars => TokInv'
<1> SUFFICES ASSUME TokInv, [TokNext]_tokVars PROVE TokInv'  OBVIOUS
<1>1. ASSUME NEW k \in Checks, NEW a \in TAuthzs, NEW t \in Tokens, BeginCheck(k, a, t) PROVE TokInv'  BY <1>1, BeginCheckKeeps
<1>2. ASSUME NEW k \in Checks, resolve_key_via_jwks(k) PROVE TokInv'  BY <1>2, ResolveKeeps
<1>3. ASSUME NEW k \in Checks, NEW ok \in BOOLEAN, fetch_jwks(k, ok) PROVE TokInv'  BY <1>3, FetchJwksKeeps
<1>4. ASSUME NEW k \in Checks, NEW ok \in BOOLEAN, fetch_cert_via_x5u(k, ok) PROVE TokInv'  BY <1>4, FetchCertKeeps
<1>5. ASSUME NEW k \in Checks, VerifyToken(k) PROVE TokInv'  BY <1>5, VerifyKeeps
<1>6. ASSUME NEW k \in Checks, insert_jti(k) PROVE TokInv'  BY <1>6, InsertKeeps
<1>7. ASSUME NEW f \in Finalizers, NEW b, ReadTkvalue(f, b) PROVE TokInv'  BY <1>7, ReadTkvalueKeeps
<1>8. ASSUME NEW f \in Finalizers, ReadCaFlag(f) PROVE TokInv'  BY <1>8, ReadCaFlagKeeps
<1>9. ASSUME NEW f \in Finalizers, ReadMinExp(f) PROVE TokInv'  BY <1>9, ReadMinExpKeeps
<1>10. CASE purge_expired  BY <1>10, PurgeKeeps
<1>11. CASE WithdrawKey  BY <1>11, WithdrawKeeps
<1>12. CASE TokTick  BY <1>12, TokTickKeeps
<1>13. CASE UNCHANGED tokVars
  <2>1. UNCHANGED <<tclock, jtis, chk, jwks, published, withdrawn, proved, tfin, tcerts>>  BY <1>13 DEF tokVars
  <2>2. Times' /\ JwksOk' /\ ProofsOk' /\ RowsHere' /\ RowStays' /\ TokenOnce'
    BY <2>1 DEF TokInv, Times, JwksOk, ProofsOk, RowsHere, RowStays, TokenOnce
  <2>3. TasksOk'  BY <2>1 DEF TokInv, TasksOk, ChkOk, TaskOk
  <2>4. FinsOk' /\ CertsOk'
    <3>1. tclock \in Nat  BY DEF TokInv, Times
    <3>. QED  BY <2>1, <2>2, <3>1, FinsStable, CertsStable DEF TokInv
  <2>. QED  BY <2>2, <2>3, <2>4 DEF TokInv
<1>. QED  BY <1>1, <1>2, <1>3, <1>4, <1>5, <1>6, <1>7, <1>8, <1>9, <1>10, <1>11, <1>12, <1>13 DEF TokNext

LEMMA TokInvBinds == TokInv => TokensBind
<1> SUFFICES ASSUME TokInv PROVE TokensBind  OBVIOUS
<1>1. KeysFresh
  <2> SUFFICES ASSUME NEW k \in Checks, chk[k].pc = "verify", Tok[chk[k].token].via = "kid", ~published
               PROVE  chk[k].since <= withdrawn + JwksTtl + MaxFetch
    BY DEF KeysFresh
  <2>. QED  BY TaskAt DEF TaskOk
<1>2. TokenForItsHolder  BY DEF TokInv, ProofsOk, Checked, TokenForItsHolder
<1>. QED  BY <1>1, <1>2 DEF TokInv, CertsOk, TokensBind

(* A token is spent once and by its holder, under a key that was published *)
(* at most a cache's life and a fetch ago; and a certificate issued on it  *)
(* has the cA flag, the extra names and the end a token of the             *)
(* authorization gives it (validate, insert_jti, purge_expired,            *)
(* inject_template_and_tkauth_sans, resolve_clamped_validity).             *)
THEOREM TokensAreBound == TokSpec => []TokensBind
<1>1. TokSpec => []TokInv  BY TokInvInit, TokInvNext, PTL DEF TokSpec
<1>. QED  BY <1>1, TokInvBinds, PTL
=============================================================================
