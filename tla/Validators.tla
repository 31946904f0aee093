----------------------------- MODULE Validators -----------------------------
(***************************************************************************)
(* Which identifiers new-order accepts and which challenges it offers      *)
(* (src/src/routes/order.rs, src/src/routes/mod.rs), and what each         *)
(* validator asks of the world (src/src/validation/).  The validators that *)
(* look once are predicates; http-01 follows redirects, while addresses    *)
(* change.  A digest stands for what it was made of.  Then the CAA check   *)
(* of finalize.                                                            *)
(***************************************************************************)
EXTENDS Integers, Sequences, FiniteSets

CONSTANTS
    Questions,    \* what a validation is asked: type ("none": not yet chosen), id, ka, uri, cfg, world, age
    Site,         \* external: the response at each URL: status, to, body
    Hosts,        \* external: host names and address literals
    Literal,      \* those that are address literals
    Addresses,    \* external: address sets a host may have
    StartUrls,    \* http://<identifier>/.well-known/acme-challenge/<token>
    KeyAuth,      \* the key authorization expected there
    AllowPrivate, \* http_validation_allow_private_ips
    MAX_REDIRECTS,
    MaxMoves      \* bound: how often a host's addresses change
ASSUME ValidatorsAssumption ==
    /\ {MAX_REDIRECTS, MaxMoves} \subseteq Nat /\ Literal \subseteq Hosts
    /\ StartUrls \subseteq DOMAIN Site /\ AllowPrivate \in BOOLEAN
    /\ \A u \in DOMAIN Site : u.host \in Hosts
(* An address or an encoded list cannot begin with "*.".                   *)
ASSUME QuestionsAssumption ==
    Questions # {} /\ \A q \in Questions : q.id.wellFormed /\ q.id.wild => q.id.type \in {"dns", "email"}

VARIABLES
    asked,      \* a validation is under way
    question,   \* what it is asked
    addrs,      \* external: the addresses of each host
    moves,      \* ghost: how often each host's addresses changed
    http,       \* the http-01 validation: pc, url, left, seen
    fetched     \* ghost: fetches: url, address, whether the host moved since it was checked
valVars == <<asked, question, addrs, moves, http, fetched>>

-----------------------------------------------------------------------------
(* new_order's checks of an identifier.                                    *)
TokenTypes == {"TNAuthList", "JWTClaimConstraints", "EnhancedJWTClaimConstraints"}
is_valid_email(id) == id.wellFormed
validate_onion_v3(id) == id.v3
accepts_identifier(id, cfg) ==
    /\ CASE id.type = "dns" -> id.onion => validate_onion_v3(id)
         [] id.type = "ip" -> id.wellFormed
         [] id.type = "email" -> cfg.email /\ ~cfg.star /\ ~id.wild /\ is_valid_email(id)
         [] id.type \in TokenTypes -> cfg.tkauth /\ id.wellFormed
         [] OTHER -> FALSE

eligible_challenge_types(id, cfg) ==
    LET persist == IF cfg.issuers = {} THEN {} ELSE {"dns-persist-01"} IN
    CASE id.type = "dns" /\ id.onion ->
           {"onion-csr-01"} \union (IF cfg.tor THEN {"http-01", "tls-alpn-01"} ELSE {})
      [] id.type = "dns" /\ ~id.onion /\ id.wild -> {"dns-01"} \union persist
      [] id.type = "dns" /\ ~id.onion /\ ~id.wild /\ cfg.tkauth /\ cfg.dnsSan -> {"tkauth-01"}
      [] id.type = "dns" /\ ~id.onion /\ ~id.wild /\ ~(cfg.tkauth /\ cfg.dnsSan) ->
           {"http-01", "dns-01", "tls-alpn-01"} \union persist
      [] id.type = "ip" -> {"http-01", "tls-alpn-01"}
      [] id.type = "email" -> {"email-reply-00"}
      [] id.type \in TokenTypes -> {"tkauth-01"}
      [] OTHER -> {}

-----------------------------------------------------------------------------
(* Addresses: loopback, private, link-local, unique local, unspecified and *)
(* broadcast ones are refused, also when mapped into IPv6.                 *)
is_blocked_ip(a) ==
    \/ a.class \in {"loopback", "unspecified", "link_local"}
    \/ (a.v = 4 \/ a.mapped) /\ a.class \in {"private", "broadcast"}
    \/ a.v = 6 /\ ~a.mapped /\ a.class = "unique_local"
(* A name is refused when one of its addresses is.                         *)
check_redirect_host(host) == AllowPrivate \/ ~\E a \in addrs[host] : is_blocked_ip(a)

(* dns_query: no such name and no such record are empty answers, any other *)
(* failure is an error.                                                    *)
dns_query(w, records, name) == IF w.dns = "ok" THEN {t \in records : t.at = name} ELSE {}
dns01(q) ==
    \E t \in dns_query(q.world, q.world.acme_challenge, q.id.name) : t.value = <<"sha256", q.ka>>

(* A persistent record names an issuer, the account and, for a wildcard,   *)
(* the policy; every date in it must be a number that has not passed.      *)
Unparsable == -1
(* Mutant: the record's account is not compared.                           *)
MutMatches(r, issuers, uri, wild, now) ==
    r.issuer \in issuers /\ (wild => r.wildcard) /\ \A d \in r.until : d >= now
matches_record(r, issuers, uri, wild, now) ==
    /\ r.issuer \in issuers /\ uri \in r.uris
    /\ wild => r.wildcard
    /\ \A d \in r.until : d # Unparsable /\ d >= now
dns_persist_01(q) ==
    /\ q.id.type # "ip" /\ q.accountStatus = "valid"
    /\ \E t \in dns_query(q.world, q.world.validation_persist, q.id.name) :
         matches_record(t.value, q.cfg.issuers, q.uri, q.id.wild, q.now)

verify_san_contains(q) == <<q.id.type, q.id.name>> \in q.world.tls.sans
verify_acme_cert(q) ==
    LET c == q.world.tls IN
    c.ext /\ c.critical /\ c.digest = <<"sha256", q.ka>> /\ verify_san_contains(q)
(* The server is asked by its name, or by the reverse name of an address;  *)
(* a wildcard is no name to ask for.                                       *)
ip_to_reverse_dns(id) == IF id.type = "ip" THEN <<"arpa", id.name>> ELSE <<"name", id.name>>
tls_alpn_01(q) ==
    /\ q.world.tls.present /\ ~q.id.wild /\ (q.cfg.allowPrivate \/ ~is_blocked_ip(q.world.address))
    /\ q.world.tls.answers = ip_to_reverse_dns(q.id) /\ verify_acme_cert(q)

(* An onion name is its service's key.                                     *)
MAX_NONCE_AGE == 30
decode_onion_pubkey(id) == id.name
verify_hidden_service_signature(q) ==
    q.world.csr.signer = decode_onion_pubkey(q.id) \/ q.world.csr.key = decode_onion_pubkey(q.id)
onion_csr_01(q) ==
    LET c == q.world.csr IN
    /\ c.present /\ q.age <= MAX_NONCE_AGE /\ q.id.v3
    /\ c.signer = c.key
    /\ c.nonce = q.ka /\ c.signingNonce = q.token
    /\ verify_hidden_service_signature(q) /\ <<q.id.name, q.id.wild>> \in c.sans

dispatch(q) ==
    CASE q.type = "dns-01" -> dns01(q)
      [] q.type = "dns-persist-01" -> dns_persist_01(q)
      [] q.type = "tls-alpn-01" -> tls_alpn_01(q)
      [] q.type = "onion-csr-01" -> onion_csr_01(q)
      [] OTHER -> FALSE

-----------------------------------------------------------------------------
(* http-01.                                                                *)
ValInit ==
    /\ asked = FALSE /\ question = CHOOSE q \in Questions : TRUE
    /\ addrs = [h \in Hosts |-> {}] /\ moves = [h \in Hosts |-> 0]
    /\ http = [pc |-> "idle", url |-> CHOOSE u \in StartUrls : TRUE, left |-> MAX_REDIRECTS + 1, seen |-> 0]
    /\ fetched = <<>>

validate_challenge(q) ==
    /\ ~asked /\ asked' = TRUE /\ question' = q
    /\ UNCHANGED <<addrs, moves, http, fetched>>
BeginHttp(url, as) ==
    /\ ~asked /\ asked' = TRUE
    /\ addrs' = as /\ http' = [http EXCEPT !.pc = "check", !.url = url]
    /\ UNCHANGED <<question, moves, fetched>>
CheckHost ==
    LET h == http.url.host IN
    /\ http.pc = "check"
    /\ http' = [http EXCEPT !.pc = IF check_redirect_host(h) THEN "get" ELSE "refused",
                            !.seen = moves[h]]
    /\ UNCHANGED <<asked, question, addrs, moves, fetched>>

(* The client looks the host up once more.  A redirect needs a location    *)
(* with a scheme of the web; the last answer must be the key authorization.*)
Get(a) ==
    LET r == Site[http.url]  h == http.url.host IN
    /\ http.pc = "get" /\ a \in addrs[h]
    /\ fetched' = Append(fetched, [url |-> http.url, addr |-> a, moved |-> moves[h] # http.seen])
    /\ http' = CASE r.status = "redirect" ->
                      IF r.to \notin DOMAIN Site \/ http.left = 1 THEN [http EXCEPT !.pc = "refused"]
                      ELSE [http EXCEPT !.pc = "check", !.url = r.to, !.left = @ - 1]
                 [] r.status = "ok" ->
                      [http EXCEPT !.pc = IF r.body = KeyAuth THEN "valid" ELSE "refused"]
                 [] OTHER -> [http EXCEPT !.pc = "refused"]
    /\ UNCHANGED <<asked, question, addrs, moves>>
HostMoves(h, s) ==
    /\ http.pc \in {"check", "get"} /\ moves[h] < MaxMoves /\ h \notin Literal /\ s # addrs[h]
    /\ addrs' = [addrs EXCEPT ![h] = s] /\ moves' = [moves EXCEPT ![h] = @ + 1]
    /\ UNCHANGED <<asked, question, http, fetched>>

ValNext == \/ ~asked /\ \E q \in Questions : validate_challenge(q)
           \/ ~asked /\ \E u \in StartUrls, as \in [Hosts -> Addresses] : BeginHttp(u, as)
           \/ CheckHost \/ (\E a \in UNION Addresses : Get(a))
           \/ \E h \in Hosts, s \in Addresses : HostMoves(h, s)
ValSpec == ValInit /\ [][ValNext]_valVars

-----------------------------------------------------------------------------
(* Evidence in the world: who placed it, and for whose key authorization   *)
(* or account.                                                             *)
Evidence(w) ==
    {[kind |-> "dns", at |-> t.at, for |-> {t.value[2]}] : t \in w.acme_challenge}
    \union {[kind |-> "dns", at |-> t.at, for |-> t.value.uris] : t \in w.validation_persist}
    \union (IF w.tls.present THEN {[kind |-> "tls", at |-> w.tls.answers[2], for |-> {w.tls.digest[2]}]} ELSE {})
    \union (IF w.csr.present THEN {[kind |-> "key", at |-> w.csr.signer, for |-> {w.csr.nonce}]} ELSE {})

(* A validator accepts only what was placed at the identifier's own name,  *)
(* or signed with its key, for this account's challenge; a wildcard is     *)
(* proved in the DNS or with the key, never by one host (dispatch,         *)
(* eligible_challenge_types).                                              *)
ProofShowsControl ==
    LET q == question IN
    /\ accepts_identifier(q.id, q.cfg)
    /\ q.type \in eligible_challenge_types(q.id, q.cfg)
    /\ dispatch(q)
    => \E e \in Evidence(q.world) :
         /\ e.at = q.id.name /\ e.for \intersect {q.ka, q.uri} # {}
         /\ q.id.wild => e.kind \in {"dns", "key"}

(* An applicant who has published all that can be asked of it, the records *)
(* of persistent validation apart.                                         *)
Published(q) ==
    [dns |-> "ok", acme_challenge |-> {[at |-> q.id.name, value |-> <<"sha256", q.ka>>]}, validation_persist |-> {},
     tls |-> [present |-> TRUE, ext |-> TRUE, critical |-> TRUE, digest |-> <<"sha256", q.ka>>,
              sans |-> {<<q.id.type, q.id.name>>}, answers |-> ip_to_reverse_dns(q.id)],
     csr |-> [present |-> TRUE, signer |-> q.id.name, key |-> q.id.name, nonce |-> q.ka, signingNonce |-> q.token,
              sans |-> {<<q.id.name, q.id.wild>>}],
     address |-> q.world.address]
Answered(q, type) ==
    [type |-> type, id |-> q.id, ka |-> q.ka, uri |-> q.uri, token |-> q.token, cfg |-> q.cfg, world |-> Published(q),
     age |-> 0, now |-> q.now, accountStatus |-> q.accountStatus]

(* An order that is accepted can be fulfilled: for every identifier that   *)
(* has to be proved over the network, one of the challenges offered can be *)
(* answered (new_order, eligible_challenge_types).                         *)
OfferedAreProvable ==
    LET id == question.id  offered == eligible_challenge_types(id, question.cfg) IN
    accepts_identifier(id, question.cfg) =>
        \/ offered \intersect {"tkauth-01", "email-reply-00", "http-01"} # {} /\ ~id.wild
        \/ \E type \in offered : dispatch(Answered(question, type))

(* No address is fetched from that was blocked when its host was checked   *)
(* for this very hop; only a name that moved in between escapes the check  *)
(* (check_redirect_host).                                                  *)
FetchesChecked ==
    ~AllowPrivate => \A n \in DOMAIN fetched : is_blocked_ip(fetched[n].addr) => fetched[n].moved

(* A validation ends after MAX_REDIRECTS redirects, and succeeds only with *)
(* the key authorization at the end of a chain of redirects that begins at *)
(* the identifier (http01::validate).                                      *)
ChainFromIdentifier ==
    /\ Len(fetched) <= MAX_REDIRECTS + 1
    /\ http.pc = "valid" =>
         /\ fetched[1].url \in StartUrls
         /\ \A n \in 1 .. Len(fetched) - 1 : Site[fetched[n].url].to = fetched[n + 1].url
         /\ Site[fetched[Len(fetched)].url].body = KeyAuth

-----------------------------------------------------------------------------
(* The CAA check of finalize (check_caa_for_order in                       *)
(* src/src/routes/finalize.rs, src/src/validation/caa.rs): every DNS       *)
(* identifier of the order is walked up the tree at the same time, one     *)
(* query after the other, while zones may change.  The first refusal ends  *)
(* the check.                                                              *)
CONSTANTS
    CaaIds,         \* DNS identifiers of the order: labels, wild
    CaaAuthzs,      \* authorization rows of the order: labels, wild, sub, via
    RecordSets,     \* record sets a name may have: tag, critical, issuer, params
    CaaIdentities,  \* effective caa_identities
    CaaAccount,     \* the account's URL
    MaxZoneChanges  \* bound: how often a zone changes
ASSUME CaaAssumption ==
    /\ MaxZoneChanges \in Nat /\ {} \in RecordSets
    /\ \A i \in CaaIds : i.labels \in Seq(STRING) /\ i.wild \in BOOLEAN

VARIABLES
    zone,      \* external: the CAA records at each name
    walk,      \* per identifier: the names still to query, and the answer
    caa,       \* the check: idle, running, allowed, refused
    caaFailed, \* ghost: a lookup failed
    zchanges,  \* ghost: changes since the check began
    zverdicts  \* ghost: per identifier, what the tree said at some moment
caaVars == <<zone, walk, caa, caaFailed, zchanges, zverdicts>>

Suffix(labels, n) == SubSeq(labels, n, Len(labels))
IsBelow(name, top) == /\ Len(name) > Len(top)
                      /\ Suffix(name, Len(name) - Len(top) + 1) = top
(* Single labels are not asked.                                            *)
build_name_walk(labels) == [n \in 1 .. Len(labels) - 1 |-> Suffix(labels, n)]
CaaNames == UNION {{Suffix(i.labels, n) : n \in 1 .. Len(i.labels) - 1} : i \in CaaIds}

(* The method that proved the identifier: of its own row of this order, or *)
(* of a row that also covers subdomains; "" when an authorization of an    *)
(* earlier order was reused.                                               *)
identifier_to_authz(i) ==
    LET own == {z \in CaaAuthzs : z.labels = i.labels /\ z.wild = i.wild}
    IN  IF own # {} THEN own ELSE {z \in CaaAuthzs : z.sub /\ IsBelow(i.labels, z.labels)}
ChallengeType(i) == IF identifier_to_authz(i) = {} THEN ""
                    ELSE (CHOOSE z \in identifier_to_authz(i) : TRUE).via

Params(caa_, key) == SelectSeq(caa_.params, LAMBDA kv : kv.key = key)
(* An issue record that names this CA, with no parameter given twice, and  *)
(* whose parameters allow the method and the account.                      *)
Grants(caa_, type) ==
    /\ caa_.issuer \in CaaIdentities
    /\ Len(Params(caa_, "validationmethods")) <= 1 /\ Len(Params(caa_, "accounturi")) <= 1
    /\ \A n \in DOMAIN caa_.params :
         LET kv == caa_.params[n] IN
         /\ kv.key = "validationmethods" => type = "" \/ type \in kv.value
         /\ kv.key = "accounturi" => kv.value = {CaaAccount}
evaluate_caa_record_set(records, i) ==
    LET tagged(t) == {r \in records : r.tag = t}
        relevant == IF i.wild /\ tagged("issuewild") # {} THEN tagged("issuewild") ELSE tagged("issue")
    IN  /\ ~\E r \in records : r.critical /\ r.tag \notin {"issue", "issuewild", "iodef"}
        /\ relevant = {} \/ \E r \in relevant : Grants(r, ChallengeType(i))

-----------------------------------------------------------------------------
(* What the tree says of an identifier: the closest name that has records  *)
(* decides.                                                                *)
TreeAllows(z, i) ==
    LET set == {n \in 1 .. Len(i.labels) - 1 : z[Suffix(i.labels, n)] # {}}
    IN  set = {} \/ \E n \in set : (\A k \in set : n <= k)
                      /\ evaluate_caa_record_set(z[Suffix(i.labels, n)], i)

CaaInit ==
    /\ zone = [n \in CaaNames |-> {}] /\ caa = "idle"
    /\ walk = [i \in CaaIds |-> [names |-> <<>>, answer |-> "none"]]
    /\ caaFailed = FALSE /\ zchanges = 0 /\ zverdicts = [i \in CaaIds |-> {}]
check_caa_for_order(z) ==
    /\ caa = "idle" /\ zone' = z
    /\ walk' = [i \in CaaIds |-> [names |-> build_name_walk(i.labels), answer |-> "none"]]
    /\ caa' = IF CaaIdentities = {} THEN "allowed" ELSE "running"
    /\ zverdicts' = [i \in CaaIds |-> {TreeAllows(z, i)}]
    /\ UNCHANGED <<caaFailed, zchanges>>

Answer(i, a) ==
    LET w == [walk EXCEPT ![i].answer = a] IN
    /\ walk' = w
    /\ caa' = IF a = "refused" THEN "refused"
              ELSE IF \A k \in CaaIds : w[k].answer = "allowed" THEN "allowed" ELSE caa
(* One query.  An empty answer goes on to the parent name; a failed lookup *)
(* refuses.                                                                *)
check_caa(i, ok) ==
    /\ caa = "running" /\ walk[i].answer = "none"
    /\ IF walk[i].names = <<>> THEN ok /\ Answer(i, "allowed") /\ UNCHANGED caaFailed
       ELSE LET records == zone[Head(walk[i].names)] IN
            /\ IF ~ok THEN Answer(i, "refused")
               ELSE IF records = {}
               THEN walk' = [walk EXCEPT ![i].names = Tail(@)] /\ UNCHANGED caa
               ELSE Answer(i, IF evaluate_caa_record_set(records, i) THEN "allowed" ELSE "refused")
            /\ caaFailed' = (caaFailed \/ ~ok)
    /\ UNCHANGED <<zone, zchanges, zverdicts>>

ZoneChange(name, records) ==
    /\ caa = "running" /\ zchanges < MaxZoneChanges /\ zone[name] # records
    /\ zone' = [zone EXCEPT ![name] = records]
    /\ zchanges' = zchanges + 1
    /\ zverdicts' = [i \in CaaIds |-> zverdicts[i] \union {TreeAllows(zone', i)}]
    /\ UNCHANGED <<walk, caa, caaFailed>>

CaaNext ==
    \/ caa = "idle" /\ \E z \in [CaaNames -> RecordSets] : check_caa_for_order(z)
    \/ \E i \in CaaIds, ok \in BOOLEAN : check_caa(i, ok)
    \/ \E name \in CaaNames, records \in RecordSets : ZoneChange(name, records)
CaaSpec == CaaInit /\ [][CaaNext]_caaVars

-----------------------------------------------------------------------------
(* The answer is one that the tree gave at some moment of the check, as    *)
(* long as at most one name changed meanwhile: an allowed order had every  *)
(* identifier allowed, a refused one some identifier refused or a lookup   *)
(* that failed (check_caa_with_resolver, try_join_all in                   *)
(* check_caa_for_order).                                                   *)
CaaAsPublished ==
    zchanges <= 1 =>
        /\ caa = "allowed" /\ CaaIdentities # {} => \A i \in CaaIds : TRUE \in zverdicts[i]
        /\ caa = "refused" => caaFailed \/ \E i \in CaaIds : FALSE \in zverdicts[i]

(* A proof of control is one: what the validators accept was published by    *)
(* who controls the name, over a chain that starts there, and CAA records    *)
(* are applied as published (validation/*.rs, caa.rs).                      *)
ControlIsProved == ProofShowsControl /\ OfferedAreProvable /\ FetchesChecked /\ ChainFromIdentifier /\ CaaAsPublished
=============================================================================
