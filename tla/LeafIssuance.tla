---------------------------- MODULE LeafIssuance ----------------------------
(***************************************************************************)
(* From a finalize request to the signed certificate: the CSR              *)
(* (src/src/ca/csr.rs), a delegation's CSR template                        *)
(* (src/src/ca/csr_template.rs), the names a profile adds                  *)
(* (src/src/krb5_san.rs), the builder (src/src/ca/issue.rs) and the lint   *)
(* before a certificate leaves the CA (src/src/linter/mod.rs); and the     *)
(* certificates the server signs for itself, for operators and for other   *)
(* CAs.                                                                    *)
(***************************************************************************)
EXTENDS Integers, FiniteSets

CONSTANTS
    Requests,      \* finalize requests, see MCServer
    Others,        \* other things to sign: kind, name, subject is a CA, years
    Canonical,     \* canonical spelling of an address or a mail domain
    LinterProfiles \* [linter.profiles]: name -> overrides of a base
ASSUME LeafAssumption == \A v \in DOMAIN Canonical : Canonical[v] = v \/ Canonical[Canonical[v]] = Canonical[v]
(* Names and subject attributes are pairs of a kind and a value; the times  *)
(* of an order are there or not; a hook adds otherNames only               *)
(* (parse_hook_extra_sans).                                                *)
Pairs(S) == \A n \in S : n = <<n[1], n[2]>>
ASSUME RequestsAssumption ==
    /\ \A q \in Requests :
        /\ q.kind = "order" /\ q.now \in Int /\ q.nb \subseteq Int /\ q.na \subseteq Int /\ q.profile.days \in Nat
        /\ Pairs(q.order) /\ Pairs(q.csr.sans) /\ Pairs(q.csr.subject)
        /\ \A n \in q.hook : n[1] \in {"kpn", "upn", "other"}
    /\ \A o \in Others : o.kind \in {"server", "admin", "cross"}

VARIABLES leafReq, leafOut
leafVars == <<leafReq, leafOut>>

Day == 86400
Grace == 300
Recognised == {"dns", "ip", "email"}
Canon(v) == IF v \in DOMAIN Canonical THEN Canonical[v] ELSE v

-----------------------------------------------------------------------------
(* The CSR.                                                                *)

(* An address is printed from its bytes, a mail address gets a lower-case  *)
(* domain, a DNS name stays as it is; other kinds of names are ignored.    *)
bytes_to_ip_string(v) == Canon(v)
CsrSans(csr) == {<<n[1], IF n[1] = "dns" THEN n[2] ELSE bytes_to_ip_string(n[2])>> :
                   n \in {m \in csr.sans : m[1] \in Recognised}}
(* Mutant: a name of the order may be missing from the CSR.                *)
MutValidateCsr(q) == q.csr.signer = q.csr.key.id /\ CsrSans(q.csr) \subseteq q.order
validate_csr(q) ==
    /\ q.csr.signer = q.csr.key.id
    /\ CsrSans(q.csr) \subseteq q.order
    /\ {n \in q.order : n[1] \in Recognised} \subseteq CsrSans(q.csr)

-----------------------------------------------------------------------------
(* The template of a delegation.                                           *)

key_type_matches(spec, key) ==
    \/ spec.type \in {"EC", "ECDSA"} /\ key.type = "ec" /\ spec.size \in {0, key.size}
    \/ spec.type = "RSA" /\ key.type = "rsa" /\ spec.size \in {0, key.size}
validate_key_type(csr, t) == \E spec \in t.keyTypes : key_type_matches(spec, csr.key)

Values(csr, field) == {a[2] : a \in {b \in csr.subject : b[1] = field}}
check_dn_field(csr, field, spec) ==
    CASE spec.kind = "none" -> Values(csr, field) = {}
      [] spec.kind = "mandatory" -> Values(csr, field) # {}
      [] spec.kind = "literal" -> Values(csr, field) = {spec.value}
      [] OTHER -> TRUE
(* Without any field the subject is not looked at.                         *)
validate_subject(csr, t) ==
    \/ \A f \in DOMAIN t.subject : t.subject[f].kind = "none"
    \/ /\ \A f \in DOMAIN t.subject : check_dn_field(csr, f, t.subject[f])
       /\ \A a \in csr.subject : a[1] \in DOMAIN t.subject
validate_key_usage(csr, bits) == csr.ku = bits
validate_eku(csr, oids) == csr.eku \subseteq oids
Requested(csr) == (IF csr.sans # {} THEN {"san"} ELSE {}) \union (IF csr.ku # {} THEN {"ku"} ELSE {})
                  \union (IF csr.eku # {} THEN {"eku"} ELSE {}) \union (IF csr.bc THEN {"bc"} ELSE {})
(* Only named extensions; key usage exactly, extended usages at most.      *)
validate_extensions(csr, x) ==
    \/ x = [san |-> "none", ku |-> {}, eku |-> {}]
    \/ /\ Requested(csr) \subseteq {e \in {"san", "ku", "eku"} :
              IF e = "san" THEN x.san # "none" ELSE x[e] # {}}
       /\ x.san = "required" => csr.sans # {}
       /\ x.ku # {} => validate_key_usage(csr, x.ku)
       /\ x.eku # {} => csr.eku # {} /\ validate_eku(csr, x.eku)
validate_csr_against_template(csr, t) ==
    /\ t.keyTypes # {} /\ csr.signer = csr.key.id
    /\ validate_key_type(csr, t) /\ validate_subject(csr, t) /\ validate_extensions(csr, t.ext)

-----------------------------------------------------------------------------
(* Names a profile adds to those of the CSR.  A template without a realm   *)
(* fails the request.                                                      *)

encode_krb5_principal_other_name(name, realm) == <<"kpn", name, realm>>
(* One name per DNS name of the CSR for a template with {dns}.             *)
expand_kpn_template(tmpl, dns) ==
    IF tmpl.dns THEN {encode_krb5_principal_other_name(d, tmpl.realm) : d \in dns}
    ELSE {encode_krb5_principal_other_name(tmpl.name, tmpl.realm)}
(* The first DNS name only; none without one.                              *)
expand_ms_upn_template(tmpl, dns) ==
    IF ~tmpl.dns THEN {<<"upn", tmpl.name>>}
    ELSE IF dns = {} THEN {} ELSE {<<"upn", CHOOSE d \in dns : TRUE>>}
encode_principal_str_other_name(p) == <<"kpn", p.name, p.realm>>
DnsNames(q) == {n[2] : n \in {m \in CsrSans(q.csr) : m[1] = "dns"}}
KpnNames(q) == UNION {expand_kpn_template(t, DnsNames(q)) : t \in q.profile.kpn}
UpnNames(q) == UNION {expand_ms_upn_template(t, DnsNames(q)) : t \in q.profile.upn}
PrincipalNames(q) == {encode_principal_str_other_name(p) : p \in {r \in q.principal : q.profile.inject}}
OtherNames(q) == KpnNames(q) \union UpnNames(q) \union PrincipalNames(q)
OtherNamesOk(q) ==
    /\ \A t \in q.profile.kpn : t.realm # ""
    /\ q.profile.inject => \A p \in q.principal : p.realm # ""

-----------------------------------------------------------------------------
(* The lint.                                                               *)

WEBPKI_PROFILE == [base |-> "webpki", san |-> "required", nc |-> "absent", rsa |-> 2048, algs |-> {"ec", "rsa", "pq", "composite"}]
RFC5280_PROFILE == [base |-> "rfc5280", san |-> "optional", nc |-> "optional", rsa |-> 2048, algs |-> {"ec", "rsa", "pq", "composite"}]
Base(name) == IF name = "rfc5280" THEN RFC5280_PROFILE ELSE WEBPKI_PROFILE
permitted_algs(over, base) == CASE over.algorithms = "webpki" -> {"ec", "rsa"}
                                [] over.algorithms = "pq-only" -> {"pq"}
                                [] OTHER -> base.algs
LinterRegistry ==
    [n \in DOMAIN LinterProfiles \union {"webpki", "rfc5280"} |->
       IF n \in DOMAIN LinterProfiles
       THEN LET over == LinterProfiles[n]  base == Base(over.base) IN
            [base |-> base.base, san |-> IF over.san = "none" THEN base.san ELSE over.san,
             nc |-> base.nc, rsa |-> IF over.rsa = 0 THEN base.rsa ELSE over.rsa,
             algs |-> permitted_algs(over, base)]
       ELSE Base(n)]
(* The profile's linter, else the CA's, else webpki.                       *)
linter_name(q) == IF q.profile.linter # "none" THEN q.profile.linter
                  ELSE IF q.ca.linter # "none" THEN q.ca.linter ELSE "webpki"
resolve(name) == {LinterRegistry[n] : n \in {name} \cap DOMAIN LinterRegistry}
apply_ext_presence(presence, present) ==
    (presence = "required" /\ ~present) \/ (presence = "absent" /\ present)
(* external: path validation by synta_x509_verification, as the complaints *)
(* it may report.  It reports one.                                         *)
Complaints(c, ca, lint, now) ==
    {k \in {"time", "algorithm", "rsa", "san", "nc", "mtc"} :
       CASE k = "time" -> ~(c.nb <= now /\ now <= c.na)
         [] k = "algorithm" -> c.key.type \notin lint.algs
         [] k = "rsa" -> c.key.type = "rsa" /\ c.key.size < lint.rsa
         [] k = "san" -> apply_ext_presence(lint.san, c.sans # {})
         [] k = "nc" -> apply_ext_presence(lint.nc, FALSE)
         [] OTHER -> ca.mtc}
(* A complaint about the MTC extension of the CA's certificate is dropped, *)
(* and with it the checks that were not reached.                           *)
verify_and_map_mtc_fallback(complaints) == {k = "mtc" : k \in complaints}
lint_issued_cert(c, ca, lint, now) ==
    LET complaints == Complaints(c, ca, lint, now)
    IN  IF complaints = {} THEN {TRUE} ELSE verify_and_map_mtc_fallback(complaints)

-----------------------------------------------------------------------------
(* The certificate.                                                        *)

clamped_validity(now, nb, na, days) ==
    LET asked == IF nb = {} THEN now ELSE CHOOSE x \in nb : TRUE
        start == IF asked < now - Grace THEN now - Grace ELSE asked
        end == IF na = {} THEN start + days * Day ELSE CHOOSE x \in na : TRUE
    IN  [nb |-> start, na |-> IF end <= start THEN start + days * Day ELSE end]
MaxDays == 200
(* Whole days are compared.                                                *)
TooLong(v, ca) == ca.cap /\ (v.na - v.nb) \div Day > MaxDays
(* Critical exactly when the subject is empty.                             *)
build_san_from_csr(csr, other, dns) ==
    [names |-> CsrSans(csr) \union other \union {<<"dns", d>> : d \in dns}, critical |-> csr.subject = {}]
KnownEku == {"server_auth", "client_auth", "email_protection", "1.2.3"}
build_eku(ekus) == IF ekus \subseteq KnownEku THEN {ekus} ELSE {}
build_certificate_policies(policies) == IF \A p \in policies : p.valid THEN {policies} ELSE {}
(* The CSR gives key, subject and names; the profile everything else.      *)
CertificateOf(q, v, eku, pol) ==
    LET san == build_san_from_csr(q.csr, OtherNames(q) \union q.hook, q.attested)
    IN  [key |-> q.csr.key, subject |-> q.csr.subject, sans |-> san.names, critical |-> san.critical,
         ku |-> q.profile.ku, eku |-> eku, ca |-> FALSE, path |-> 0, nb |-> v.nb, na |-> v.na, policies |-> pol]
Validity(q) == clamped_validity(q.now, q.nb, q.na, q.profile.days)
issue_with_params(q, lint) ==
    {c \in {CertificateOf(q, Validity(q), eku, pol) :
               eku \in build_eku(q.profile.eku), pol \in build_certificate_policies(q.profile.policies)} :
       ~TooLong(Validity(q), q.ca) /\ TRUE \in lint_issued_cert(c, q.ca, lint, q.now)}
(* run_profile_and_csr_checks after the profile and before the policy      *)
(* (ProfilePolicy), then the signing.                                      *)
AcceptsCsr(q) == validate_csr(q) /\ \A t \in q.template : validate_csr_against_template(q.csr, t)
issue_leaf_certificate(q) ==
    IF ~AcceptsCsr(q) \/ ~OtherNamesOk(q) THEN {}
    ELSE UNION {issue_with_params(q, lint) : lint \in resolve(linter_name(q))}

-----------------------------------------------------------------------------
(* Certificates outside of orders.                                         *)

sign_standard_leaf(key, subject, sans, eku, days, now) ==
    [key |-> key, subject |-> subject, sans |-> sans, critical |-> FALSE, ku |-> {"digitalSignature"}, eku |-> eku,
     ca |-> FALSE, path |-> 0, nb |-> now, na |-> now + days * Day, policies |-> {}]
sign_server_cert(o) ==
    {sign_standard_leaf(o.key, {<<"cn", o.name>>}, {<<IF o.ip THEN "ip" ELSE "dns", o.name>>}, {"server_auth"}, o.days, o.now)}
(* A name without a known prefix is a directory name.                      *)
parse_operator_san(o) ==
    IF o.name = "" THEN {} ELSE {<<IF o.prefix \in {"dns", "email", "ip", "uri"} THEN o.prefix ELSE "dn", o.name>>}
sign_admin_cert(o) ==
    {sign_standard_leaf(o.key, {<<"cn", o.name>>}, {san}, {"client_auth"}, o.days, o.now) :
       san \in {s \in parse_operator_san(o) : s[1] = "ip" => o.ip}}
(* The subject must itself be a valid CA certificate.                      *)
check_is_ca_cert(o) == o.subjectCa
Quarter == 21600
issue_ca_cert(o) ==
    IF ~check_is_ca_cert(o) THEN {}
    ELSE {[key |-> o.key, subject |-> {<<"cn", o.name>>}, sans |-> {}, critical |-> FALSE, ku |-> {"keyCertSign", "cRLSign"},
           eku |-> {}, ca |-> TRUE, path |-> 0, nb |-> o.now, na |-> o.now + o.years * (365 * Day + Quarter), policies |-> {}]}
Sign(o) == CASE o.kind = "server" -> sign_server_cert(o)
             [] o.kind = "admin" -> sign_admin_cert(o)
             [] OTHER -> issue_ca_cert(o)

-----------------------------------------------------------------------------
LeafInit == leafReq = [kind |-> "none"] /\ leafOut = {}
Finalize(q) == leafReq' = q /\ leafOut' = issue_leaf_certificate(q)
SignOther(o) == leafReq' = o /\ leafOut' = Sign(o)
LeafNext ==
    /\ leafReq.kind = "none"
    /\ (\E q \in Requests : Finalize(q)) \/ (\E o \in Others : SignOther(o))
LeafSpec == LeafInit /\ [][LeafNext]_leafVars

-----------------------------------------------------------------------------
Ordered == leafReq.kind = "order"
OfType(names, types) == {n \in names : n[1] \in types}

(* A certificate carries the names of the order and those a token          *)
(* attests, no more and no fewer, whatever else the CSR asks for; names of *)
(* other kinds come from the profile, its hook or the account's principal; *)
(* its key is the one that signed the CSR, and it is no CA certificate     *)
(* (validate_csr, build_san_from_csr, inject_template_and_tkauth_sans).    *)
IssuedAsOrdered ==
    Ordered => \A c \in leafOut :
        /\ OfType(c.sans, Recognised) = OfType(leafReq.order, Recognised) \union {<<"dns", d>> : d \in leafReq.attested}
        /\ OfType(c.sans, {"uri", "other"}) \subseteq leafReq.hook
        /\ c.key.id = leafReq.csr.signer /\ ~c.ca
        /\ c.critical <=> c.subject = {}
        /\ \A n \in OfType(c.sans, {"kpn"}) \ leafReq.hook :
             \/ leafReq.profile.inject /\ \E p \in leafReq.principal : n = <<"kpn", p.name, p.realm>>
             \/ \E t \in leafReq.profile.kpn : n[3] = t.realm /\ (n[2] = t.name \/ <<"dns", n[2]>> \in leafReq.order)

(* A certificate starts at most five minutes ago and ends after it starts, *)
(* unless validity_days is 0, which nothing refuses; with                  *)
(* enforce_validity_cap it lasts less than 201 days; unless the CA's       *)
(* certificate has the MTC extension, it is valid when it is signed        *)
(* (resolve_clamped_validity, issue_with_params, lint_issued_cert).        *)
ValidityBounded ==
    Ordered => \A c \in leafOut :
        /\ c.nb >= leafReq.now - Grace /\ c.na >= c.nb /\ (leafReq.profile.days > 0 => c.na > c.nb)
        /\ leafReq.ca.cap => c.na - c.nb < 201 * Day
        /\ ~leafReq.ca.mtc => c.nb <= leafReq.now /\ leafReq.now <= c.na

(* A delegated certificate has a key, a subject and names the template     *)
(* admits: every subject field is one the template names, with its value,  *)
(* and no mandatory one is missing; a required SAN is there, unless the    *)
(* CSR asks for names of kinds the CA ignores                              *)
(* (validate_csr_against_template).                                        *)
DelegatedWithinTemplate ==
    Ordered => \A c \in leafOut, t \in leafReq.template :
        /\ \E s \in t.keyTypes : s.size \in {0, c.key.size}
                                 /\ (c.key.type = "rsa" <=> s.type = "RSA")
        /\ LET named == {f \in DOMAIN t.subject : t.subject[f].kind # "none"} IN
           named # {} =>
             /\ {a[1] : a \in c.subject} \subseteq named
             /\ \A f \in named : t.subject[f].kind = "literal" => <<f, t.subject[f].value>> \in c.subject
             /\ \A f \in named : t.subject[f].kind = "mandatory" => \E a \in c.subject : a[1] = f
        /\ t.ext.san = "required" /\ OfType(leafReq.csr.sans, Recognised) = leafReq.csr.sans => c.sans # {}

(* An order that new-order accepted can be finished: a CSR signed by its   *)
(* key that asks for the order's names, as the order spells them, is       *)
(* accepted, if addresses and mail domains are spelled canonically         *)
(* (validate_csr; new_order stores identifiers as they are sent).          *)
CanonicalOrderCanFinish ==
    Ordered /\ leafReq.csr.signer = leafReq.csr.key.id
      /\ OfType(leafReq.csr.sans, Recognised) = OfType(leafReq.order, Recognised)
      /\ (\A n \in leafReq.order : Canon(n[2]) = n[2])
      => validate_csr(leafReq)

(* Only another CA gets a CA certificate, one that can sign no further CA; *)
(* the server's and the operators' certificates name exactly one holder,   *)
(* and only the server's can act as a TLS server (issue_ca_cert,           *)
(* sign_admin_cert, sign_server_cert).                                     *)
OnlyCrossIsCa ==
    leafReq.kind \notin {"none", "order"} => \A c \in leafOut :
        /\ c.ca <=> leafReq.kind = "cross"
        /\ c.ca => c.path = 0 /\ leafReq.subjectCa /\ c.eku = {}
        /\ ~c.ca => Cardinality(c.sans) = 1 /\ "keyCertSign" \notin c.ku
        /\ "server_auth" \in c.eku <=> leafReq.kind = "server"

(* What is signed is what was ordered, within the CA's and the delegation's  *)
(* limits, and what may be signed is not refused.                           *)
SignedAsOrdered ==
    IssuedAsOrdered /\ ValidityBounded /\ DelegatedWithinTemplate /\ CanonicalOrderCanFinish /\ OnlyCrossIsCa
=============================================================================
