------------------------------ MODULE MCServer ------------------------------
(***************************************************************************)
(* Starting the server, the parts of it that requests pass through, and     *)
(* what a certificate may contain, for TLC.  A behaviour exercises one of  *)
(* the Parts.                                                              *)
(***************************************************************************)
EXTENDS Startup, Routes, Profiles, AuthorityTokens, Validators, LeafIssuance, Envelope, TLC

CONSTANT Parts
VARIABLE part
issuanceVars == <<tokVars, valVars, caaVars, leafVars>>
serverVars == <<startupVars, routeVars, profVars>>
vars == <<part, serverVars, issuanceVars, envVars, rotVars>>

MCConfig(signer, admin, tls, mtc, listen, flaw) ==
    [signer |-> signer, admin |-> admin, tls |-> tls, mtc |-> mtc, listen |-> listen, flaw |-> flaw,
     gssapi |-> IF flaw # "none" THEN {} ELSE IF admin = "gssapi" THEN {{"keytab_file"}} ELSE IF admin = "none" THEN {{"gssproxy"}} ELSE {}]
MCAcceptors(c, sections) == [c EXCEPT !.gssapi = sections]
MCConfigs ==
    {MCConfig("file", "p12", TRUE, TRUE, "tcp", "none"), MCConfig("file", "pem", FALSE, FALSE, "unix", "none"), MCConfig("file", "gssapi", TRUE, FALSE, "tcp", "late"),
     MCConfig("file", "gssapi", FALSE, TRUE, "unix", "none"), MCConfig("file", "none", FALSE, FALSE, "tcp", "webui"), MCConfig("file", "none", TRUE, FALSE, "unix", "none"),
     MCConfig("hsm", "p12", TRUE, FALSE, "tcp", "none"), MCConfig("hsm", "pem", TRUE, TRUE, "tcp", "none"), MCConfig("hsm", "none", FALSE, FALSE, "tcp", "algorithm"), MCConfig("hsm", "none", FALSE, FALSE, "tcp", "section"),
     MCAcceptors(MCConfig("hsm", "p12", TRUE, FALSE, "tcp", "none"), {{"keytab_file", "gssproxy"}}),
     MCConfig("dogtag", "none", FALSE, FALSE, "unix", "none"), MCConfig("dogtag", "p12", FALSE, FALSE, "tcp", "none"), MCConfig("dogtag", "none", TRUE, FALSE, "tcp", "none")}

MCCa(id, def) == [id |-> id, is_default |-> def]
MCCaIds == {"", "default", "Bad Id", "a", "mtc", "order", "eab", "crl", "star", "email-webhook", "delegation", "delegations", "ocsp", "acme"}
MCCaLists ==
    {[table |-> TRUE, cas |-> <<MCCa(id, FALSE)>>] : id \in MCCaIds} \union {[table |-> FALSE, cas |-> <<>>]}
    \union {[table |-> FALSE, cas |-> <<MCCa(id, d)>>] : id \in MCCaIds, d \in BOOLEAN}
    \union {[table |-> FALSE, cas |-> <<MCCa(i, d), MCCa(j, e)>>] : i \in MCCaIds, j \in MCCaIds, d \in BOOLEAN, e \in BOOLEAN}

MCPattern(hits, whole, ends) == [hits |-> hits, whole |-> whole, ends |-> ends]
MCStrict == MCPattern({"dns:a"}, {"dns:a"}, TRUE)
MCLoose == MCPattern({"dns:a", "dns:ab"}, {"dns:a"}, FALSE)
MCEither == MCPattern({"dns:a", "dns:ab", "dns:b"}, {"dns:a", "dns:b"}, TRUE)
MCTable(sets, pats, every, hook, grant) == [sets |-> sets, patterns |-> pats, all |-> every, hook |-> hook, grant |-> grant]
MCProvider1 ==
    {[default |-> {}, web |-> {}],
     [default |-> {MCTable({}, {}, TRUE, FALSE, TRUE)}, web |-> {MCTable({"validity"}, {MCStrict}, TRUE, TRUE, TRUE)}],
     [default |-> {}, web |-> {MCTable({}, {MCLoose, MCEither}, FALSE, FALSE, FALSE)}]}
MCProvider2 ==
    {[default |-> {}, web |-> {}],
     [default |-> {}, web |-> {[list |-> TRUE, items |-> <<[class |-> "validity", value |-> "year"], [class |-> "validity", value |-> "unusable"]>>]}],
     [default |-> {[list |-> FALSE, items |-> <<>>]}, web |-> {}]}
MCRuleSets == {{}, {Rule(FALSE, {}, {}, {})}, {Rule(TRUE, {}, {}, {{MCEither}}), Rule(FALSE, {{"web"}}, {{"web"}}, {})}}
MCGrantRows == {[row |-> "list", list |-> {"web", "default"}], [row |-> "list", list |-> {"web"}], [row |-> "corrupt", list |-> {}], [row |-> "null", list |-> {}]}

-----------------------------------------------------------------------------
MCBlob == [b1 |-> [incl |-> {}, permitted |-> [dn |-> {"a"}, kpn |-> {"h", "u"}], excl |-> {"x"}],
           b2 |-> [incl |-> {"kpn"}, permitted |-> [kpn |-> {"u"}, dn |-> {"c"}], excl |-> {}],
           tn |-> [incl |-> {}, permitted |-> [kpn |-> {"w"}], excl |-> {}]]
MCTok == [t1 |-> [jti |-> "j1", via |-> "kid", anchored |-> FALSE, exp |-> 2, account |-> "x",
                  tktype |-> Enhanced, tkvalue |-> "b1", ca |-> FALSE,
                  claims |-> [dn |-> "a", kpn |-> "u"]],
          t2 |-> [jti |-> "j2", via |-> "x5c", anchored |-> TRUE, exp |-> 1, account |-> "x",
                  tktype |-> "JWTClaimConstraints", tkvalue |-> "b2", ca |-> TRUE,
                  claims |-> [dn |-> "c", kpn |-> "u"]],
          t3 |-> [jti |-> "j3", via |-> "x5u", anchored |-> TRUE, exp |-> 2, account |-> "y",
                  tktype |-> "TNAuthList", tkvalue |-> "tn", ca |-> TRUE, claims |-> <<>>]]
MCRegistry == [dn |-> "dns-san", kpn |-> "krb5-kpn"]
MCAuthz == [z1 |-> [type |-> "dns", value |-> "a", account |-> "x"],
            z2 |-> [type |-> "JWTClaimConstraints", value |-> "b2", account |-> "x"],
            z3 |-> [type |-> "TNAuthList", value |-> "tn", account |-> "y"],
            z4 |-> [type |-> "JWTClaimConstraints", value |-> "b2", account |-> "y"]]
MCCsr == [f1 |-> [authz |-> "z1", ca |-> FALSE, allowed |-> {"a"}],
          f2 |-> [authz |-> "z2", ca |-> TRUE, allowed |-> {"a"}],
          f3 |-> [authz |-> "z1", ca |-> TRUE, allowed |-> {"a"}],
          f4 |-> [authz |-> "z3", ca |-> FALSE, allowed |-> {}]]

MCCaaIds == {[labels |-> <<"w", "x", "t">>, wild |-> FALSE], [labels |-> <<"x", "t">>, wild |-> TRUE]}
MCCaaAuthzs == {[labels |-> <<"x", "t">>, wild |-> FALSE, sub |-> TRUE, via |-> "http-01"]}
CaaRecord(tag, issuer, params) == [tag |-> tag, critical |-> FALSE, issuer |-> issuer, params |-> params]
MCRecordSets ==
    {{}, {CaaRecord("issue", "us", <<>>)}, {CaaRecord("issue", "none", <<>>)},
     {CaaRecord("issuewild", "other", <<>>), CaaRecord("issue", "us", <<>>)},
     {[CaaRecord("tbs", "us", <<>>) EXCEPT !.critical = TRUE]},
     {CaaRecord("issue", "us", <<[key |-> "validationmethods", value |-> {"dns-01"}]>>)},
     {CaaRecord("issue", "us", <<[key |-> "accounturi", value |-> {"u"}],
                                 [key |-> "accounturi", value |-> {"u"}]>>), CaaRecord("iodef", "us", <<>>)}}

Url(host, path) == [scheme |-> "http", host |-> host, path |-> path]
MCSite == (Url("a", "c") :> [status |-> "redirect", to |-> Url("b", "c"), body |-> "none"])
          @@ (Url("b", "c") :> [status |-> "redirect", to |-> Url("i", "c"), body |-> "none"])
          @@ (Url("i", "c") :> [status |-> "redirect", to |-> Url("a", "d"), body |-> "none"])
          @@ (Url("b", "l") :> [status |-> "redirect", to |-> Url("b", "l"), body |-> "none"])
          @@ (Url("a", "d") :> [status |-> "ok", to |-> Url("a", "c"), body |-> "k1"])
MCStartUrls == {Url("a", "c"), Url("b", "l")}
Address(v, class, mapped) == [v |-> v, class |-> class, mapped |-> mapped]
MCAddresses == {{Address(4, "public", FALSE)}, {Address(6, "public", FALSE), Address(6, "private", TRUE)},
                {Address(6, "unique_local", FALSE)}}

Id(type, name, wild) == [type |-> type, name |-> name, wild |-> wild, onion |-> FALSE, v3 |-> FALSE, wellFormed |-> TRUE]
Onion(wild) == [Id("dns", "o", wild) EXCEPT !.onion = TRUE, !.v3 = TRUE]
MCIds == {Id("dns", "n", FALSE), Id("dns", "n", TRUE), Id("ip", "i", FALSE), Onion(FALSE), Onion(TRUE),
          [Onion(FALSE) EXCEPT !.v3 = FALSE], Id("email", "m", FALSE), Id("TNAuthList", "t", FALSE)}
MCCfgs == {[email |-> e, star |-> FALSE, tkauth |-> t, dnsSan |-> t, tor |-> e, issuers |-> s, allowPrivate |-> FALSE] :
             e \in BOOLEAN, t \in BOOLEAN, s \in {{}, {"us"}}}
NoTls == [present |-> FALSE, ext |-> FALSE, critical |-> FALSE, digest |-> <<"sha256", "k1">>, sans |-> {}, answers |-> <<"name", "n">>]
NoCsr == [present |-> FALSE, signer |-> "o", key |-> "o", nonce |-> "k1", signingNonce |-> "t", sans |-> {}]
World(txt, persist) == [dns |-> "ok", acme_challenge |-> txt, validation_persist |-> persist, tls |-> NoTls, csr |-> NoCsr, address |-> Address(4, "public", FALSE)]
Persist(name, uri, policy, until) ==
    [at |-> name, value |-> [issuer |-> "us", uris |-> {uri}, wildcard |-> policy, until |-> until]]
MCWorlds(type) ==
    CASE type = "dns-01" ->
           {World({[at |-> n, value |-> <<"sha256", k>>]}, {}) : n \in {"n", "m"}, k \in {"k1", "k2"}}
      [] type = "dns-persist-01" ->
           {World({}, {Persist(n, u, p, d)}) : n \in {"n", "m"}, u \in {"u1", "u2"}, p \in BOOLEAN, d \in {{}, {0}, {5}}}
      [] type = "tls-alpn-01" ->
           {[World({}, {}) EXCEPT !.tls = [present |-> TRUE, ext |-> TRUE, critical |-> c, digest |-> <<"sha256", k>>, sans |-> {a},
                                           answers |-> <<IF a[1] = "ip" THEN "arpa" ELSE "name", a[2]>>]] :
             c \in BOOLEAN, k \in {"k1", "k2"}, a \in {<<"dns", "n">>, <<"ip", "i">>, <<"dns", "o">>}}
      [] type = "onion-csr-01" ->
           {[World({}, {}) EXCEPT !.csr = [present |-> TRUE, signer |-> s, key |-> c, nonce |-> k, signingNonce |-> "t", sans |-> {<<"o", w>>}]] :
             s \in {"o", "p"}, c \in {"o", "p"}, k \in {"k1", "k2"}, w \in BOOLEAN}
      [] OTHER -> {World({}, {})}
MCQuestions ==
    UNION {{[type |-> t, id |-> i, ka |-> "k1", uri |-> "u1", token |-> "t", cfg |-> c, world |-> w, age |-> 0, now |-> 3,
             accountStatus |-> "valid"] :
             w \in MCWorlds(t), i \in MCIds, c \in {x \in MCCfgs : ~x.tkauth \/ t = "none"}} :
           t \in {"none", "dns-01", "dns-persist-01", "tls-alpn-01", "onion-csr-01"}}

EcKey == [id |-> "k", type |-> "ec", size |-> 256]
BaseCsr == [key |-> EcKey, signer |-> "k", subject |-> {}, sans |-> {<<"dns", "a">>}, ku |-> {}, eku |-> {}, bc |-> FALSE]
BaseProfile == [days |-> 90, ku |-> {"digitalSignature"}, eku |-> {"server_auth"}, policies |-> {}, linter |-> "none",
                kpn |-> {}, upn |-> {}, inject |-> FALSE]
BaseLeaf == [kind |-> "order", order |-> {<<"dns", "a">>}, csr |-> BaseCsr, template |-> {}, profile |-> BaseProfile,
             ca |-> [cap |-> TRUE, mtc |-> FALSE, linter |-> "none"], nb |-> {}, na |-> {}, now |-> 1000000,
             hook |-> {}, principal |-> {}, attested |-> {}]
LeafNames == {<<"dns", "a">>, <<"dns", "A">>, <<"ip", "i">>, <<"ip", "I">>, <<"email", "m">>, <<"email", "M">>}
MCCanonical == [i |-> "i", I |-> "i", m |-> "m", M |-> "m"]
MCLinters == [strict |-> [base |-> "webpki", san |-> "none", rsa |-> 3072, algorithms |-> "webpki"],
              plain |-> [base |-> "rfc5280", san |-> "absent", rsa |-> 0, algorithms |-> "pq-only"]]
Template(types, cn, o, ext) == [keyTypes |-> types, subject |-> [cn |-> cn, o |-> o], ext |-> ext]
Spec3 == {[kind |-> "none", value |-> ""], [kind |-> "mandatory", value |-> ""],
          [kind |-> "optional", value |-> ""], [kind |-> "literal", value |-> "x"]}
MCTemplates ==
    {Template({[type |-> t, size |-> z]}, cn, o, [san |-> n, ku |-> ku, eku |-> {"1.2.3"}]) :
       t \in {"EC", "RSA"}, z \in {0}, cn \in Spec3, o \in Spec3, n \in {"none", "required"}, ku \in {{}, {"ds"}}}
      \union {Template({}, cn, cn, [san |-> "none", ku |-> {}, eku |-> {}]) : cn \in Spec3}
      \union {Template({[type |-> "RSA", size |-> 4096]}, cn, cn, [san |-> "none", ku |-> {}, eku |-> {}]) : cn \in Spec3}
MCRequests ==
    {[BaseLeaf EXCEPT !.order = o, !.csr = [BaseCsr EXCEPT !.sans = s, !.signer = k]] :
       o \in {x \in SUBSET LeafNames : x # {} /\ Cardinality(x) <= 2}, k \in {"k", "l"},
       s \in {x \in SUBSET (LeafNames \union {<<"uri", "u">>}) : Cardinality(x) <= 2}}
      \union
    {[BaseLeaf EXCEPT !.nb = nb, !.na = na, !.ca = [cap |-> cap, mtc |-> mtc, linter |-> "none"], !.profile = [BaseProfile EXCEPT !.days = d]] :
       nb \in {{}, {999000}, {999800}, {1000500}}, na \in {{}, {999500}, {1000000 + 200 * Day}, {1000000 + 201 * Day - 1}, {1000000 + 201 * Day}},
       cap \in BOOLEAN, mtc \in BOOLEAN, d \in {0, 90, 365}}
      \union
    {[BaseLeaf EXCEPT !.template = {t}, !.csr = [BaseCsr EXCEPT !.subject = sub, !.ku = ku, !.eku = {"1.2.3"}, !.bc = bc,
                                                 !.key = [id |-> "k", type |-> kt, size |-> z]]] :
       t \in MCTemplates, sub \in {{}, {<<"cn", "x">>}, {<<"cn", "y">>}, {<<"o", "x">>, <<"cn", "x">>}, {<<"st", "x">>}},
       ku \in {{}, {"ds"}}, bc \in {FALSE}, kt \in {"ec", "rsa", "pq"}, z \in {4096}}
      \union
    {[BaseLeaf EXCEPT !.profile = [BaseProfile EXCEPT !.linter = l, !.kpn = k, !.upn = u, !.inject = j, !.eku = e, !.policies = p],
                      !.ca = [cap |-> TRUE, mtc |-> FALSE, linter |-> cl], !.principal = pr, !.hook = h, !.attested = at] :
       l \in {"none", "strict", "plain", "rfc5280", "gone"}, cl \in {"none", "plain"}, j \in BOOLEAN,
       k \in {{}, {[dns |-> TRUE, name |-> "", realm |-> "R"]}, {[dns |-> FALSE, name |-> "svc", realm |-> "R"]}, {[dns |-> TRUE, name |-> "", realm |-> ""]}},
       u \in {{}, {[dns |-> TRUE, name |-> ""]}}, e \in {{}, {"server_auth"}, {"bad"}}, p \in {{}},
       pr \in {{[name |-> "u", realm |-> "R"]}}, h \in {{}, {<<"other", "h">>}}, at \in {{}, {"b"}}}
      \union {[BaseLeaf EXCEPT !.profile = [BaseProfile EXCEPT !.policies = {[valid |-> v]}]] : v \in BOOLEAN}
MCOthers == {[kind |-> k, key |-> EcKey, name |-> n, ip |-> i, prefix |-> p, subjectCa |-> s, days |-> 90, years |-> 10, now |-> 1000000] :
               k \in {"server", "admin", "cross"}, n \in {"", "n"}, i \in BOOLEAN, p \in {"none", "dns", "ip", "dn"}, s \in BOOLEAN}

-----------------------------------------------------------------------------
MCOffset == [a |-> 0, b |-> 1]

Init ==
    /\ part \in Parts /\ RoutesInit /\ TokInit /\ ValInit /\ CaaInit /\ LeafInit /\ EnvelopeInit /\ RotationInit
    /\ StartupInit
    /\ part # "startup" => config = (CHOOSE c \in Configs : TRUE) /\ announced = {}
    /\ ProfilesInit
    /\ part # "profiles" => texts = (CHOOSE t \in Provider1 \X Provider2 : TRUE) /\ engine.mode = "shadow" /\ engine.rules = {} /\ grants = (CHOOSE g \in GrantRows : TRUE)
Issue ==
    \/ part = "tokens" /\ TokNext /\ UNCHANGED <<valVars, caaVars, leafVars>>
    \/ part = "validate" /\ ValNext /\ UNCHANGED <<tokVars, caaVars, leafVars>>
    \/ part = "caa" /\ CaaNext /\ UNCHANGED <<tokVars, valVars, leafVars>>
    \/ part = "leaf" /\ LeafNext /\ UNCHANGED <<tokVars, valVars, caaVars>>
Serving ==
    \/ part = "startup" /\ StartupNext /\ UNCHANGED <<routeVars, profVars>>
    \/ part = "routes" /\ RoutesNext /\ UNCHANGED <<startupVars, profVars>>
    \/ part = "profiles" /\ ProfilesNext /\ UNCHANGED <<startupVars, routeVars>>
Next ==
    /\ UNCHANGED <<part, rotVars>>
    /\ \/ Serving /\ UNCHANGED <<issuanceVars, envVars>>
       \/ Issue /\ UNCHANGED <<serverVars, envVars>>
       \/ part = "envelope" /\ EnvelopeNext /\ UNCHANGED <<serverVars, issuanceVars>>
Spec == Init /\ [][Next]_vars
MCSymmetry == Permutations(Checks)
=============================================================================
