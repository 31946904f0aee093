--------------------------- MODULE AuthorityTokens ---------------------------
(***************************************************************************)
(* RFC 9447 authority tokens: validation with a JWKS cache and a table of  *)
(* used token identifiers, the purge of that table, and what finalize      *)
(* takes from it (src/src/validation/tkauth01.rs, src/src/db/tkauth.rs,    *)
(* src/src/routes/finalize.rs, crates/akamu-jose/src/jwt.rs).  A signature *)
(* is a fact about a token; base64, JSON and DER are its fields.           *)
(***************************************************************************)
EXTENDS Integers, FiniteSets

CONSTANTS
    Tokens,      \* authority tokens
    Tok,         \* jti, via, anchored, exp, account, tktype, tkvalue, ca, other claims
    Blob,        \* what a tkvalue of claim constraints decodes to: incl, permitted, excl
    Registry,    \* claim encoders: claim |-> "dns-san" | "krb5-kpn" | "ms-upn"
    Wildcards,   \* claim values that dns-san cannot encode
    Realmless,   \* claim values that krb5-kpn cannot encode
    TAuthzs,     \* authorizations with a tkauth-01 challenge
    TAuthz,      \* their identifier type and value, and account
    Checks,      \* validation tasks
    Finalizers,  \* finalize requests: authorization, the CSR's cA flag, DNS names ordered
    Csr,
    JwksTtl,     \* JWKS_CACHE_TTL
    MaxFetch,    \* the 10 s timeout of a fetch
    MaxValidity, \* max_validity_secs
    LongLife,    \* lifetime of a certificate without a limit
    MaxTokTime   \* bound: the clock

Enhanced == "EnhancedJWTClaimConstraints"
Constraints == {"JWTClaimConstraints", Enhanced}
(* validate refuses a token whose constraints do not decode: Tokens has    *)
(* none of them.                                                           *)
ASSUME TokensAssumption ==
    /\ {JwksTtl, MaxFetch, MaxValidity, LongLife, MaxTokTime} \subseteq Nat
    /\ \A f \in Finalizers : Csr[f].authz \in TAuthzs /\ Csr[f].ca \in BOOLEAN
    /\ \A t \in Tokens : Tok[t].exp \in Nat /\ Tok[t].ca \in BOOLEAN
    /\ \A b \in DOMAIN Blob : \A c \in DOMAIN Blob[b].permitted : IsFiniteSet(Blob[b].permitted[c])
    /\ \A t \in Tokens : Tok[t].tktype \in Constraints => Tok[t].tkvalue \in DOMAIN Blob

VARIABLES
    tclock,     \* unix_now
    jtis,       \* tkauth_jti_cache
    chk,        \* the validation tasks
    jwks,       \* jwks_cache: the body and when it was stored
    published,  \* external: the token authority's key is in its JWKS
    withdrawn,  \* ghost: when it was withdrawn
    proved,     \* ghost: validations that succeeded, and the authorizations they prove
    tfin,       \* the finalize requests
    tcerts      \* ghost: certificates issued

tokVars == <<tclock, jtis, chk, jwks, published, withdrawn, proved, tfin, tcerts>>

IdleChk == [pc |-> "idle"]
NoJwks == [cached |-> FALSE, has |-> FALSE, ts |-> 0]
TokInit ==
    /\ tclock = 0 /\ jtis = {} /\ jwks = NoJwks
    /\ published = TRUE /\ withdrawn = 0
    /\ chk = [k \in Checks |-> IdleChk] /\ proved = {}
    /\ tfin = [f \in Finalizers |-> IdleChk] /\ tcerts = {}

-----------------------------------------------------------------------------
Refuse(k) == chk' = [chk EXCEPT ![k] = [pc |-> "refused"]]
To(k, pc) == chk' = [chk EXCEPT ![k].pc = pc, ![k].since = tclock]

(* validate: the signing key comes with the token, from its certificate's  *)
(* URL, or from the JWKS.                                                  *)
BeginCheck(k, a, t) ==
    /\ chk[k].pc = "idle"
    /\ chk' = [chk EXCEPT ![k] = [pc |-> IF Tok[t].via = "kid" THEN "key"
                                         ELSE IF Tok[t].via = "x5u" THEN "x5u" ELSE "verify",
                                  authz |-> a, token |-> t, has |-> FALSE, since |-> tclock]]
    /\ UNCHANGED <<tclock, jtis, jwks, published, withdrawn, proved, tfin, tcerts>>

JwksFresh == jwks.cached /\ tclock - jwks.ts <= JwksTtl
(* The cached body is used while it is fresh; otherwise one is fetched,    *)
(* and stored when it has arrived, whatever else was stored meanwhile.     *)
resolve_key_via_jwks(k) ==
    /\ chk[k].pc = "key"
    /\ IF JwksFresh THEN IF jwks.has THEN To(k, "verify") ELSE Refuse(k)
       ELSE chk' = [chk EXCEPT ![k].pc = "fetch", ![k].has = published, ![k].since = tclock]
    /\ UNCHANGED <<tclock, jtis, jwks, published, withdrawn, proved, tfin, tcerts>>
fetch_jwks(k, ok) ==
    /\ chk[k].pc = "fetch"
    /\ jwks' = IF ok THEN [cached |-> TRUE, has |-> chk[k].has, ts |-> tclock] ELSE jwks
    /\ IF ok /\ chk[k].has THEN To(k, "verify") ELSE Refuse(k)
    /\ UNCHANGED <<tclock, jtis, published, withdrawn, proved, tfin, tcerts>>

fetch_cert_via_x5u(k, ok) ==
    /\ chk[k].pc = "x5u"
    /\ IF ok THEN To(k, "verify") ELSE Refuse(k)
    /\ UNCHANGED <<tclock, jtis, jwks, published, withdrawn, proved, tfin, tcerts>>

(* The token must name the identifier, or constrain the claim that encodes *)
(* it to a set with the identifier; a claim it does not constrain does not *)
(* limit the identifier.                                                   *)
authorized_identifier_type(claim) == IF Registry[claim] = "dns-san" THEN "dns" ELSE "none"
find_claim_for_identifier_type(type) ==
    {claim \in DOMAIN Registry : authorized_identifier_type(claim) = type}
Allowed(blob, claim) ==
    IF claim \in DOMAIN Blob[blob].permitted THEN Blob[blob].permitted[claim] ELSE {}
verify_identifier_in_jcc(blob, claim, value) ==
    Allowed(blob, claim) = {} \/ value \in Allowed(blob, claim)
TokenCovers(t, a) ==
    IF Tok[t].tktype = TAuthz[a].type THEN Tok[t].tkvalue = TAuthz[a].value
    ELSE /\ Tok[t].tktype = Enhanced
         /\ \E claim \in find_claim_for_identifier_type(TAuthz[a].type) :
              verify_identifier_in_jcc(Tok[t].tkvalue, claim, TAuthz[a].value)
(* The token's own claims must satisfy the constraints it carries.         *)
check_jwt_claim_constraints(t) ==
    LET b == Blob[Tok[t].tkvalue]  claims == Tok[t].claims IN
    /\ b.incl \union DOMAIN b.permitted \subseteq DOMAIN claims
    /\ \A c \in DOMAIN b.permitted : b.permitted[c] = {} \/ claims[c] \in b.permitted[c]
    /\ b.excl \intersect DOMAIN claims = {}
verify_cert_chain(t) == Tok[t].via = "kid" \/ Tok[t].anchored
decode_and_verify(t) == Tok[t].exp > tclock
Verifies(t, a) ==
    /\ verify_cert_chain(t) /\ decode_and_verify(t) /\ TokenCovers(t, a)
    /\ Tok[t].tktype \in Constraints => check_jwt_claim_constraints(t)
    /\ Tok[t].account = TAuthz[a].account
    /\ Tok[t].exp - tclock <= MaxValidity
VerifyToken(k) ==
    /\ chk[k].pc = "verify"
    /\ IF Verifies(chk[k].token, chk[k].authz)
       THEN To(k, "insert") ELSE Refuse(k)
    /\ UNCHANGED <<tclock, jtis, jwks, published, withdrawn, proved, tfin, tcerts>>

(* The used identifiers; tkvalue is stored for encoder-backed types only.  *)
JtiRow(t, a) == [jti |-> Tok[t].jti, authz |-> a, exp |-> Tok[t].exp, ca |-> Tok[t].ca,
                 tkvalue |-> IF Tok[t].tktype = TAuthz[a].type THEN {} ELSE {Tok[t].tkvalue}]
(* Mutant: the INSERT has no NOT EXISTS.                                   *)
MutJtiUsed(t, a) == FALSE
JtiUsed(t, a) == \E r \in jtis : r.jti = Tok[t].jti
insert_jti(k) ==
    LET t == chk[k].token  a == chk[k].authz IN
    /\ chk[k].pc = "insert"
    /\ IF JtiUsed(t, a) THEN Refuse(k) /\ UNCHANGED <<jtis, proved>>
       ELSE /\ jtis' = jtis \union {JtiRow(t, a)}
            /\ proved' = proved \union {[check |-> k, token |-> t, authz |-> a,
                                         late |-> tclock >= Tok[t].exp]}
            /\ To(k, "done")
    /\ UNCHANGED <<tclock, jwks, published, withdrawn, tfin, tcerts>>

(* The background task, and POST /admin/tkauth/prune.                      *)
purge_expired ==
    /\ \E r \in jtis : r.exp < tclock
    /\ jtis' = {r \in jtis : r.exp >= tclock}
    /\ UNCHANGED <<tclock, chk, jwks, published, withdrawn, proved, tfin, tcerts>>

-----------------------------------------------------------------------------
(* inject_template_and_tkauth_sans: three reads of the table, each of what *)
(* is in it by then.  An authorization whose type is not one of the        *)
(* Constraints counts as proved by a token only by a row with a tkvalue.   *)
ProvedAuthz(a) == \E p \in proved : p.authz = a
get_tkvalue_for_authz(a) == UNION {r.tkvalue : r \in {x \in jtis : x.authz = a}}
BlobsFor(a) == IF TAuthz[a].type \in Constraints THEN {TAuthz[a].value} ELSE get_tkvalue_for_authz(a)

(* A registered claim with exactly one permitted value becomes a name of   *)
(* the certificate; a value its encoder refuses fails the request, and a   *)
(* DNS name of the order is not repeated.                                  *)
encode(claim, v) == CASE Registry[claim] = "dns-san" -> v \notin Wildcards
                      [] Registry[claim] = "krb5-kpn" -> v \notin Realmless
                      [] OTHER -> TRUE
Attested(blob) == {<<c, CHOOSE v \in Allowed(blob, c) : TRUE>> :
                     c \in {d \in DOMAIN Registry : Cardinality(Allowed(blob, d)) = 1}}
InOrder(f, cv) == /\ Registry[cv[1]] = "dns-san" /\ cv[2] \in Csr[f].allowed
                  /\ TAuthz[Csr[f].authz].type # Enhanced
ReadTkvalue(f, blobs) ==
    LET a == Csr[f].authz
        names == UNION {Attested(b) : b \in blobs}
    IN  /\ tfin[f].pc = "idle" /\ ProvedAuthz(a)
        /\ blobs \subseteq BlobsFor(a) /\ (blobs = {} <=> BlobsFor(a) = {})
        /\ Cardinality(blobs) <= 1
        /\ tfin' = [tfin EXCEPT ![f] =
             IF \E cv \in names : ~encode(cv[1], cv[2]) THEN [pc |-> "refused"]
             ELSE [pc |-> "flag", ids |-> IF blobs = {} THEN {} ELSE {a},
                   extra |-> {cv \in names : ~InOrder(f, cv)}]]
        /\ UNCHANGED <<tclock, jtis, chk, jwks, published, withdrawn, proved, tcerts>>

get_any_ca_flag_for_authzs(ids) == \E r \in jtis : r.authz \in ids /\ r.ca
ReadCaFlag(f) ==
    /\ tfin[f].pc = "flag"
    /\ tfin' = [tfin EXCEPT ![f].pc = IF Csr[f].ca = get_any_ca_flag_for_authzs(tfin[f].ids)
                                      THEN "exp" ELSE "refused"]
    /\ UNCHANGED <<tclock, jtis, chk, jwks, published, withdrawn, proved, tcerts>>

get_min_exp_for_authzs(ids) == {r.exp : r \in {x \in jtis : x.authz \in ids}}
(* A limit that has passed is no limit.                                    *)
resolve_clamped_validity(limits) ==
    LET min == CHOOSE x \in limits : \A y \in limits : x <= y
    IN  IF limits = {} \/ min <= tclock THEN tclock + LongLife ELSE min
ReadMinExp(f) ==
    /\ tfin[f].pc = "exp"
    /\ tfin' = [tfin EXCEPT ![f].pc = "issued"]
    /\ tcerts' = tcerts \union
         {[authz |-> Csr[f].authz, ca |-> Csr[f].ca, extra |-> tfin[f].extra, at |-> tclock,
           na |-> resolve_clamped_validity(get_min_exp_for_authzs(tfin[f].ids))]}
    /\ UNCHANGED <<tclock, jtis, chk, jwks, published, withdrawn, proved>>

WithdrawKey ==
    /\ published /\ published' = FALSE /\ withdrawn' = tclock
    /\ UNCHANGED <<tclock, jtis, chk, jwks, proved, tfin, tcerts>>
TokTick ==
    /\ tclock < MaxTokTime /\ tclock' = tclock + 1
    /\ \A k \in Checks : chk[k].pc = "fetch" => tclock - chk[k].since < MaxFetch
    /\ UNCHANGED <<jtis, chk, jwks, published, withdrawn, proved, tfin, tcerts>>

TokNext ==
    \/ \E k \in Checks :
         \/ \E a \in TAuthzs, t \in Tokens : BeginCheck(k, a, t)
         \/ resolve_key_via_jwks(k) \/ (\E ok \in BOOLEAN : fetch_jwks(k, ok) \/ fetch_cert_via_x5u(k, ok))
         \/ VerifyToken(k) \/ insert_jti(k)
    \/ \E f \in Finalizers : (\E b \in SUBSET BlobsFor(Csr[f].authz) : ReadTkvalue(f, b)) \/ ReadCaFlag(f) \/ ReadMinExp(f)
    \/ purge_expired \/ WithdrawKey \/ TokTick

TokSpec == TokInit /\ [][TokNext]_tokVars

-----------------------------------------------------------------------------
(* A token validates once, although validations overlap and the table is   *)
(* purged: its identifier may return only with another expiry, or for a    *)
(* validation that checked the token before it expired and recorded it     *)
(* afterwards (insert_jti, purge_expired).                                 *)
TokenOnce ==
    \A p, q \in proved :
        Tok[p.token].jti = Tok[q.token].jti /\ Tok[p.token].exp = Tok[q.token].exp /\ ~p.late /\ ~q.late => p = q

(* A key its authority withdrew is trusted no longer than the cache keeps  *)
(* a body and a fetch takes, although a slow fetch may store an old body   *)
(* after a newer one (resolve_key_via_jwks).                               *)
KeysFresh ==
    \A k \in Checks : chk[k].pc = "verify" /\ Tok[chk[k].token].via = "kid" /\ ~published =>
        chk[k].since <= withdrawn + JwksTtl + MaxFetch

(* What a token proves, its holder proves: the account that presented it   *)
(* is the one the token was made for (validate).                           *)
TokenForItsHolder ==
    \A p \in proved : Tok[p.token].account = TAuthz[p.authz].account

(* A request for a CA certificate is granted only on a token that allows   *)
(* one and proved the very authorization (get_any_ca_flag_for_authzs).     *)
CaOnlyOnToken ==
    \A c \in tcerts : c.ca => \E p \in proved : p.authz = c.authz /\ Tok[p.token].ca

(* A certificate ends with a token that proved its authorization, unless   *)
(* such a token had expired when it was issued, or named the identifier    *)
(* itself without claim constraints, which finalize does not look up       *)
(* (get_min_exp_for_authzs).                                               *)
WithinToken ==
    \A c \in tcerts : \E p \in proved :
        /\ p.authz = c.authz
        /\ \/ c.na <= Tok[p.token].exp
           \/ Tok[p.token].exp <= c.at
           \/ Tok[p.token].tktype \notin Constraints

(* A name that the order did not ask for stands in a certificate only when *)
(* a token that proved its authorization makes exactly that claim: of a    *)
(* constraint that leaves a choice nothing is taken                        *)
(* (inject_template_and_tkauth_sans, check_jwt_claim_constraints).         *)
ExtraNamesAttested ==
    \A c \in tcerts : \A cv \in c.extra : \E p \in proved :
        p.authz = c.authz /\ Tok[p.token].claims[cv[1]] = cv[2]

(* "issued certificates should not outlive the authority tokens that       *)
(* authorized them"                                                        *)
NotOutliveToken ==
    \A c \in tcerts : \E p \in proved : p.authz = c.authz /\ c.na <= Tok[p.token].exp

(* A token is spent once, by its holder, under a key that was published, and *)
(* the certificate keeps within what it attests.                            *)
TokensBind == TokenOnce /\ KeysFresh /\ TokenForItsHolder /\ CaOnlyOnToken /\ WithinToken /\ ExtraNamesAttested
=============================================================================
