----------------------------- MODULE Revocation -----------------------------
(***************************************************************************)
(* Revocation by subscribers and operators, the CRL and its cache, OCSP    *)
(* and renewal information (src/src/routes/revoke.rs, crl.rs, ocsp.rs,     *)
(* renewal_info.rs, src/src/routes/admin/certs.rs, src/src/db/certs.rs).   *)
(* Each member of Revokers is one request, each of Builders a place for    *)
(* one at a time, with one step per await.  Requests that are refused are  *)
(* left out.                                                               *)
(***************************************************************************)
EXTENDS Integers, FiniteSets

CONSTANTS
    RevCerts,     \* certificates
    Info,         \* what a certificate is: its CA, account, key, log index, STAR
    RevCas,       \* certificate authorities
    RevActors,    \* who may ask: accounts, keys, operators
    Revokers,     \* revocation requests
    Builders,     \* places for CRL requests
    CrlValidity,  \* crl_next_update_secs
    MinCrlTtl,    \* the 30 s floor of the cache's lifetime
    MaxRevTime,   \* bound: the clock
    MaxRevCrashes \* bound: restarts

NoCaScope == ""
NoIndex == -1
ASSUME RevocationAssumption ==
    /\ {CrlValidity, MinCrlTtl, MaxRevTime, MaxRevCrashes} \subseteq Nat
    /\ \A c \in RevCerts : Info[c].ca \in RevCas

VARIABLES
    rclock,    \* unix_now
    row,       \* certificates: status and revoked_at
    ranges,    \* mtc_revoked_ranges
    crlCache,  \* crl_caches: one entry per CA
    rev,       \* the revocation request of each slot
    bld,       \* the CRL request of each slot
    revCrashes,
    acked,     \* ghost: certificates whose revocation ran to its end
    by,        \* ghost: who revoked a certificate
    noRange    \* ghost: certificates whose range insertion failed

revVars == <<rclock, row, ranges, crlCache, rev, bld, revCrashes,
             acked, by, noRange>>

IdleRev == [pc |-> "idle"]
DoneRev == [pc |-> "done"]
NoCrl == [cached |-> FALSE]
ValidRow == [status |-> "valid", at |-> 0]

RevInit ==
    /\ rclock = 0 /\ row = [c \in RevCerts |-> ValidRow]
    /\ ranges = {} /\ crlCache = [ca \in RevCas |-> NoCrl]
    /\ rev = [r \in Revokers |-> IdleRev] /\ bld = [b \in Builders |-> IdleRev]
    /\ revCrashes = 0
    /\ acked = {} /\ by = {} /\ noRange = {}

-----------------------------------------------------------------------------
(* revoke_cert: the certificate is read and the request authorised, by the *)
(* account that ordered it or by its own key; STAR certificates are not    *)
(* revoked this way.                                                       *)
revoke_cert(r, c, who) ==
    /\ rev[r].pc = "idle" /\ row[c].status = "valid" /\ ~Info[c].star
    /\ \/ who.kind = "account" /\ who.id = Info[c].account
       \/ who.kind = "key" /\ who.id = Info[c].key
    /\ rev' = [rev EXCEPT ![r] = [pc |-> "write", cert |-> c, who |-> who]]
    /\ UNCHANGED <<rclock, row, ranges, crlCache, bld, revCrashes,
                   acked, by, noRange>>

(* post_revoke: an operator; a registration authority needs a scope.       *)
post_revoke(r, c, who) ==
    /\ rev[r].pc = "idle" /\ who.kind = "operator"
    /\ ~(who.role = "ca_ra" /\ who.ca = NoCaScope)
    /\ rev' = [rev EXCEPT ![r] = [pc |-> "write", cert |-> c, who |-> who]]
    /\ UNCHANGED <<rclock, row, ranges, crlCache, bld, revCrashes,
                   acked, by, noRange>>

(* The UPDATE, with the operator's scope when there is one.                *)
InRevScope(c, who) == who.kind = "operator" /\ who.ca # NoCaScope => who.ca = Info[c].ca
revoke(c, who) == row[c].status = "valid" /\ InRevScope(c, who)

RevokeWrite(r) ==
    LET c == rev[r].cert  who == rev[r].who IN
    /\ rev[r].pc = "write"
    /\ IF revoke(c, who)
       THEN /\ row' = [row EXCEPT ![c] = [status |-> "revoked", at |-> rclock]]
            /\ by' = by \union {[cert |-> c, who |-> who]}
            /\ rev' = [rev EXCEPT ![r].pc = IF who.kind = "operator" THEN "invalidate"
                                            ELSE "range"]
            /\ bld' = [b \in Builders |-> IF bld[b].pc # "idle"
                          THEN [bld[b] EXCEPT !.missed = @ \union {c}] ELSE bld[b]]
       ELSE rev' = [rev EXCEPT ![r] = DoneRev] /\ UNCHANGED <<row, by, bld>>
    /\ UNCHANGED <<rclock, ranges, crlCache, revCrashes, acked, noRange>>

(* The log index joins the revoked ranges; a failure is only traced.       *)
RevokeRange(r, ok) ==
    LET c == rev[r].cert IN
    /\ rev[r].pc = "range" /\ (ok \/ Info[c].index # NoIndex)
    /\ ranges' = IF ok /\ Info[c].index # NoIndex THEN ranges \union {<<Info[c].ca, Info[c].index>>}
                 ELSE ranges
    /\ noRange' = IF ok THEN noRange ELSE noRange \union {c}
    /\ rev' = [rev EXCEPT ![r].pc = "tombstone"]
    /\ UNCHANGED <<rclock, row, crlCache, bld, revCrashes, acked, by>>

Finish(r) == /\ rev' = [rev EXCEPT ![r] = DoneRev]
             /\ acked' = acked \union {rev[r].cert}

(* on_cert_tombstone does nothing on a node without gossip; what it does to*)
(* the replica of a cluster is CrdtStore's subject.                        *)
on_cert_tombstone(r) ==
    /\ rev[r].pc = "tombstone"
    /\ IF rev[r].who.kind = "operator" THEN Finish(r)
       ELSE rev' = [rev EXCEPT ![r].pc = "invalidate"] /\ UNCHANGED acked
    /\ UNCHANGED <<rclock, row, ranges, crlCache, bld, revCrashes, by, noRange>>

(* The cached CRL is dropped: first for an operator, last for a            *)
(* subscriber.  When the operator's handler cannot read the row again it   *)
(* drops every cache and records no range.                                 *)
(* Mutant: the cached CRL is left to expire.                               *)
MutInvalidate(ca) == crlCache
invalidate_crl_cache(ca) == [crlCache EXCEPT ![ca] = NoCrl]
post_crl_force(who) ==
    /\ who.kind = "operator"
    /\ crlCache' = IF who.ca # NoCaScope THEN invalidate_crl_cache(who.ca)
                   ELSE [ca \in RevCas |-> NoCrl]
    /\ UNCHANGED <<rclock, row, ranges, rev, bld, revCrashes, acked, by, noRange>>
RevokeInvalidate(r, found) ==
    LET c == rev[r].cert IN
    /\ rev[r].pc = "invalidate"
    /\ IF rev[r].who.kind = "operator"
       THEN /\ rev' = [rev EXCEPT ![r].pc = IF found THEN "range" ELSE "tombstone"]
            /\ crlCache' = IF found THEN invalidate_crl_cache(Info[c].ca)
                           ELSE [ca \in RevCas |-> NoCrl]
            /\ noRange' = IF found \/ Info[c].index = NoIndex THEN noRange ELSE noRange \union {c}
            /\ UNCHANGED acked
       ELSE /\ found /\ Finish(r)
            /\ crlCache' = invalidate_crl_cache(Info[c].ca)
            /\ UNCHANGED noRange
    /\ UNCHANGED <<rclock, row, ranges, bld, revCrashes, by>>

-----------------------------------------------------------------------------
list_revoked(ca) == {c \in RevCerts : row[c].status = "revoked" /\ Info[c].ca = ca}

(* get_crl: a fresh cached list is served; otherwise the rows are read, a  *)
(* list is signed off the executor, and what was signed is cached.         *)
Served(ca) == crlCache[ca].cached /\ rclock < crlCache[ca].expires
cache_ttl == IF CrlValidity \div 2 > MinCrlTtl THEN CrlValidity \div 2 ELSE MinCrlTtl

CrlList(b, ca) ==
    /\ bld[b].pc = "idle" /\ ~Served(ca)
    /\ bld' = [bld EXCEPT ![b] = [pc |-> "sign", ca |-> ca, set |-> list_revoked(ca), missed |-> {}]]
    /\ UNCHANGED <<rclock, row, ranges, crlCache, rev, revCrashes,
                   acked, by, noRange>>

build_crl(b) ==
    /\ bld[b].pc = "sign"
    /\ bld' = [bld EXCEPT ![b].pc = "store"]
    /\ UNCHANGED <<rclock, row, ranges, crlCache, rev, revCrashes,
                   acked, by, noRange>>

CrlStore(b) ==
    /\ bld[b].pc = "store"
    /\ crlCache' = [crlCache EXCEPT ![bld[b].ca] =
          [cached |-> TRUE, set |-> bld[b].set, missed |-> bld[b].missed,
           expires |-> rclock + cache_ttl]]
    /\ bld' = [bld EXCEPT ![b] = IdleRev]
    /\ UNCHANGED <<rclock, row, ranges, rev, revCrashes, acked, by, noRange>>

(* handle_ocsp_request: every entry must name this CA as the issuer; the   *)
(* row is looked up by serial alone.                                       *)
handle_ocsp_request(ca, issuer, c) ==
    IF issuer # ca THEN "unauthorized"
    ELSE IF row[c].status = "revoked" THEN "revoked" ELSE "good"

(* A restart forgets the requests and the caches.                          *)
RevCrash ==
    /\ revCrashes < MaxRevCrashes /\ revCrashes' = revCrashes + 1
    /\ rev' = [r \in Revokers |-> IF rev[r].pc = "idle" THEN IdleRev ELSE DoneRev]
    /\ bld' = [b \in Builders |-> IdleRev]
    /\ crlCache' = [ca \in RevCas |-> NoCrl]
    /\ UNCHANGED <<rclock, row, ranges, acked, by, noRange>>

RevTick == /\ rclock < MaxRevTime /\ rclock' = rclock + 1
           /\ UNCHANGED <<row, ranges, crlCache, rev, bld, revCrashes,
                          acked, by, noRange>>

RevNext ==
    \/ \E r \in Revokers :
         \/ \E c \in RevCerts, who \in RevActors : revoke_cert(r, c, who) \/ post_revoke(r, c, who)
         \/ RevokeWrite(r) \/ on_cert_tombstone(r)
         \/ \E ok \in BOOLEAN : RevokeRange(r, ok) \/ RevokeInvalidate(r, ok)
    \/ \E who \in RevActors : post_crl_force(who)
    \/ \E b \in Builders : (\E ca \in RevCas : CrlList(b, ca)) \/ build_crl(b) \/ CrlStore(b)
    \/ RevCrash \/ RevTick

RevSpec == RevInit /\ [][RevNext]_revVars

-----------------------------------------------------------------------------
(* A CRL that get_crl serves lists every certificate of its CA whose       *)
(* revocation was acknowledged, except one that was revoked while this     *)
(* very list was being built (the rows are read before the signature and   *)
(* the list is cached after it).                                           *)
CrlFresh ==
    \A ca \in RevCas : Served(ca) =>
        {c \in acked : Info[c].ca = ca} \subseteq crlCache[ca].set \union crlCache[ca].missed

(* A served CRL lists only certificates of its CA, and OCSP agrees that    *)
(* they are revoked (list_revoked, handle_ocsp_request).                   *)
CrlAgreesWithOcsp ==
    \A ca \in RevCas : Served(ca) =>
        \A c \in crlCache[ca].set :
            Info[c].ca = ca /\ handle_ocsp_request(ca, Info[c].ca, c) = "revoked"

(* Only the account, the key holder, or an operator whose scope covers the *)
(* CA revokes a certificate, although the operator's request names it by   *)
(* identity alone (revoke in db/certs.rs).                                 *)
RevokerEntitled ==
    \A x \in by : \/ x.who.kind = "account" /\ x.who.id = Info[x.cert].account
                  \/ x.who.kind = "key" /\ x.who.id = Info[x.cert].key
                  \/ x.who.kind = "operator" /\ x.who.ca \in {NoCaScope, Info[x.cert].ca}

(* Once a revocation has been acknowledged, whichever way it came, the     *)
(* revoked ranges contain the certificate's log index, unless the          *)
(* insertion failed (db/revoked_ranges.rs).                                *)
RangesCoverRevoked ==
    \A c \in acked \ noRange : Info[c].index # NoIndex => <<Info[c].ca, Info[c].index>> \in ranges

(* A revocation reaches everything that is served, and only from those who   *)
(* may revoke, although revocations, CRL builds and restarts overlap.       *)
RevocationsServed == CrlFresh /\ CrlAgreesWithOcsp /\ RevokerEntitled /\ RangesCoverRevoked
=============================================================================
