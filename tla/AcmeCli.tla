------------------------------- MODULE AcmeCli -------------------------------
(***************************************************************************)
(* akamu-cli (src/crates/akamu-cli/src, with the solvers and the order     *)
(* calls of src/crates/akamu-client/src): the commands that keep state on  *)
(* the machine - account key, account URL, certificate key, certificate    *)
(* and renewal configuration - against a server that validates when it     *)
(* likes.  The process may be killed before any step and in the middle of  *)
(* a write; requests, hooks and answers may fail.  One command at a time.  *)
(* The second part is when the timer's command comes to renew; how the     *)
(* account key signs is Jws.                                               *)
(***************************************************************************)
EXTENDS Jws, FiniteSets

CONSTANTS
    CliNames,       \* identifiers a certificate may be ordered for
    Wildcards,      \* those that are wildcards
    IssueArgs,      \* arguments of issue: names, challenge, delegation
    MaxCommands, MaxFaults, MaxKeys

(* dns-01 with a hook and dns-01 by hand are told apart.                   *)
ChallengeTypes == {"http-01", "tls-alpn-01", "dns-hook", "dns-manual", "dns-persist-01", "onion-csr-01", "tkauth-01"}
ASSUME CliAssumption ==
    /\ MaxCommands \in Nat /\ MaxFaults \in Nat /\ MaxKeys \in Nat
    /\ IssueArgs \subseteq [names : SUBSET CliNames, challenge : ChallengeTypes, delegation : BOOLEAN]

VARIABLES
    disk,        \* the files
    cmd,         \* the running command: arguments, step and locals
    srv,         \* the server's accounts and this client's latest order
    listener,    \* names whose response the process itself serves
    records,     \* TXT records: name, order whose token they hold (0: any), who placed them
    keys,        \* keys generated so far
    commands, faults,
    abandoned    \* records left behind by a failure
cliVars == <<disk, cmd, srv, listener, records, keys, commands, faults, abandoned>>

Absent == 0
Torn == -1        \* opened, truncated, not written
NoCert == [key |-> Absent, names |-> {}, from |-> "acme"]
NoRenewal == [account |-> 0, names |-> {}, challenge |-> "none", delegation |-> FALSE]
Idle == [kind |-> "none", step |-> "idle", names |-> {}, challenge |-> "none", delegation |-> FALSE,
         account |-> 0, key |-> 0, todo |-> {}, deferred |-> {}, ok |-> TRUE, cert |-> NoCert, exit |-> "none"]
NoOrder == [account |-> 0, id |-> 0, challenge |-> "none", authz |-> [n \in {} |-> "pending"], csr |-> 0, key |-> 0]

-----------------------------------------------------------------------------
(* Steps of a command.                                                     *)

Go(step) == cmd' = [cmd EXCEPT !.step = step]
(* The command ends; the process and with it the listener are gone.        *)
Exit(how) == cmd' = [Idle EXCEPT !.kind = cmd.kind, !.names = cmd.names, !.challenge = cmd.challenge, !.delegation = cmd.delegation,
                                 !.account = cmd.account, !.exit = how]
             /\ listener' = {}
(* A request is accepted when it is signed with the account's key.         *)
Accepted == cmd.account \in DOMAIN srv.accounts /\ srv.accounts[cmd.account] = [key |-> cmd.key, active |-> TRUE]
NewKey == keys + 1
Running == cmd.step # "idle"

-----------------------------------------------------------------------------
(* load_or_generate_key, load_key: a file that is there must parse.        *)
load_or_generate_key(next) ==
    \/ /\ disk.akey > 0
       /\ cmd' = [cmd EXCEPT !.key = disk.akey, !.step = next]
       /\ UNCHANGED <<disk, keys, listener>>
    \/ /\ disk.akey = Torn
       /\ Exit("failed") /\ UNCHANGED <<disk, keys>>
    \/ /\ disk.akey = Absent /\ keys < MaxKeys
       /\ keys' = NewKey
       /\ disk' = [disk EXCEPT !.akey = NewKey]
       /\ cmd' = [cmd EXCEPT !.key = NewKey, !.step = next]
       /\ UNCHANGED listener

(* The command line: cmd_issue, cmd_renew, cmd_register, cmd_key_change,   *)
(* cmd_deregister, cmd_import_certbot.                                     *)
Start(kind, q, account) ==
    /\ cmd.step = "idle" /\ commands < MaxCommands /\ commands' = commands + 1
    /\ cmd' = [Idle EXCEPT !.kind = kind, !.step = "key", !.names = q.names, !.challenge = q.challenge,
                           !.delegation = q.delegation, !.account = account]
    /\ UNCHANGED <<disk, srv, listener, records, keys, faults, abandoned>>
NoArgs == [names |-> {}, challenge |-> "none", delegation |-> FALSE]
cmd_register == Start("register", NoArgs, 0)
cmd_key_change == Start("keyChange", NoArgs, 0)
cmd_deregister == Start("deregister", NoArgs, 0)
cmd_import_certbot == Start("import", NoArgs, 0)
(* renew reads everything from the renewal configuration: the account URL  *)
(* too, but not the delegation.                                            *)
cmd_renew ==
    /\ disk.renewal # NoRenewal
    /\ Start("issue", [names |-> disk.renewal.names, challenge |-> disk.renewal.challenge, delegation |-> FALSE], disk.renewal.account)
cmd_issue == \E q \in IssueArgs : Start("issue", q, 0)

(* The keys: every command but import wants the account key.               *)
LoadKey ==
    /\ cmd.step = "key" /\ cmd.kind # "import"
    /\ IF cmd.kind \in {"issue", "register"} THEN load_or_generate_key("account")
       ELSE /\ UNCHANGED <<disk, keys>>
            /\ IF disk.akey > 0 /\ disk.sidecar > 0
               THEN cmd' = [cmd EXCEPT !.key = disk.akey, !.account = disk.sidecar, !.step = cmd.kind] /\ UNCHANGED listener
               ELSE Exit("failed")
    /\ UNCHANGED <<srv, records, commands, faults, abandoned>>

(* The account: named explicitly, found in the sidecar, or registered.     *)
UseAccount ==
    /\ cmd.step = "account" /\ cmd.kind = "issue"
    /\ cmd.account # 0 \/ disk.sidecar # Absent
    /\ cmd' = [cmd EXCEPT !.account = IF @ # 0 THEN @ ELSE disk.sidecar, !.step = "check"]
    /\ UNCHANGED <<disk, srv, listener, records, keys, commands, faults, abandoned>>
(* new_account: the server returns the account of a known key.             *)
new_account ==
    /\ cmd.step = "account" /\ (cmd.kind = "register" \/ (cmd.account = 0 /\ disk.sidecar = Absent))
    /\ LET known == {a \in DOMAIN srv.accounts : srv.accounts[a].key = cmd.key} IN
       IF known # {} THEN cmd' = [cmd EXCEPT !.account = CHOOSE a \in known : TRUE, !.step = "saveUrl"] /\ UNCHANGED srv
       ELSE /\ srv' = [srv EXCEPT !.accounts = Append(@, [key |-> cmd.key, active |-> TRUE])]
            /\ cmd' = [cmd EXCEPT !.account = Len(srv.accounts) + 1, !.step = "saveUrl"]
    /\ UNCHANGED <<disk, listener, records, keys, commands, faults, abandoned>>
save_account_url_for_ca ==
    /\ cmd.step = "saveUrl"
    /\ disk' = [disk EXCEPT !.sidecar = cmd.account]
    /\ IF cmd.kind = "register" THEN Exit("ok") ELSE Go("check") /\ UNCHANGED listener
    /\ UNCHANGED <<srv, records, keys, commands, faults, abandoned>>

-----------------------------------------------------------------------------
(* The order and its challenges.                                           *)

(* Arguments are looked at after the account was registered.               *)
check_arguments ==
    /\ cmd.step = "check"
    /\ IF ~cmd.delegation /\ cmd.challenge \in {"http-01", "tls-alpn-01"} /\ cmd.names \cap Wildcards # {}
       THEN Exit("failed") ELSE Go("order") /\ UNCHANGED listener
    /\ UNCHANGED <<disk, srv, records, keys, commands, faults, abandoned>>
(* new_order: authorizations may already be valid (RFC 9444); an order for *)
(* a delegation has none.                                                  *)
place_order(valid) ==
    /\ cmd.step = "order" /\ Accepted
    /\ valid \in {{}, cmd.names}
    /\ srv' = [srv EXCEPT !.order = [account |-> cmd.account, id |-> commands, challenge |-> cmd.challenge, csr |-> 0, key |-> 0,
                 authz |-> [n \in IF cmd.delegation THEN {} ELSE cmd.names |-> IF n \in valid THEN "valid" ELSE "pending"]]]
    /\ cmd' = [cmd EXCEPT !.step = "present", !.todo = IF cmd.delegation THEN {} ELSE cmd.names \ valid]
    /\ UNCHANGED <<disk, listener, records, keys, commands, faults, abandoned>>
(* The solvers put the response in place - a token in the store of the     *)
(* listener, a certificate in that of the TLS listener, a record by the    *)
(* hook or by hand - before the challenge is triggered.                    *)
Record(n) == [name |-> n, order |-> IF cmd.challenge = "dns-persist-01" THEN 0 ELSE commands, by |-> cmd.challenge]
OfOrder == {x \in records : x.order = commands /\ x.by = "dns-hook"}
Presenting(n, challenge) == cmd.step = "present" /\ n \in cmd.todo /\ cmd.challenge = challenge
ThenTrigger(n) == cmd' = [cmd EXCEPT !.deferred = {n}, !.step = "trigger"]
http_present(n) ==
    /\ Presenting(n, "http-01") /\ listener' = listener \union {n} /\ ThenTrigger(n)
    /\ UNCHANGED <<disk, srv, records, keys, commands, faults, abandoned>>
tls_alpn_present(n) ==
    /\ Presenting(n, "tls-alpn-01") /\ listener' = listener \union {n} /\ ThenTrigger(n)
    /\ UNCHANGED <<disk, srv, records, keys, commands, faults, abandoned>>
deploy(n) ==
    /\ Presenting(n, "dns-hook") /\ records' = records \union {Record(n)} /\ ThenTrigger(n)
    /\ UNCHANGED <<disk, srv, listener, keys, commands, faults, abandoned>>
(* By hand: triggered in phase 2.                                          *)
place_by_hand(n) ==
    /\ Presenting(n, "dns-manual") /\ records' = records \union {Record(n)}
    /\ cmd' = [cmd EXCEPT !.todo = @ \ {n}, !.deferred = @ \union {n}]
    /\ UNCHANGED <<disk, srv, listener, keys, commands, faults, abandoned>>
(* This record is meant to stay.                                           *)
deploy_persist(n) ==
    /\ Presenting(n, "dns-persist-01") /\ records' = records \union {Record(n)} /\ ThenTrigger(n)
    /\ UNCHANGED <<disk, srv, listener, keys, commands, faults, abandoned>>
(* The response is in the request: a CSR, or a token fetched from the      *)
(* authority with a GSSAPI exchange.                                       *)
build_onion_csr(n) ==
    /\ Presenting(n, "onion-csr-01") /\ ThenTrigger(n)
    /\ UNCHANGED <<disk, srv, listener, records, keys, commands, faults, abandoned>>
fetch_authority_token(n) ==
    /\ Presenting(n, "tkauth-01") /\ ThenTrigger(n)
    /\ UNCHANGED <<disk, srv, listener, records, keys, commands, faults, abandoned>>
present(n) ==
    \/ http_present(n) \/ tls_alpn_present(n) \/ deploy(n) \/ place_by_hand(n) \/ deploy_persist(n)
    \/ build_onion_csr(n) \/ fetch_authority_token(n)
(* trigger_challenge for the response just placed.                         *)
Triggered(ns) == srv' = [srv EXCEPT !.order.authz = [n \in DOMAIN @ |-> IF n \in ns /\ @[n] = "pending" THEN "processing" ELSE @[n]]]
trigger_challenge ==
    /\ cmd.step = "trigger" /\ Accepted
    /\ Triggered(cmd.deferred)
    /\ cmd' = [cmd EXCEPT !.todo = @ \ cmd.deferred, !.deferred = {}, !.step = "present"]
    /\ UNCHANGED <<disk, listener, records, keys, commands, faults, abandoned>>
(* Phase 2: what was placed by hand is triggered together.                 *)
Phase2 ==
    /\ cmd.step = "present" /\ cmd.todo = {}
    /\ Triggered(cmd.deferred)
    /\ cmd' = [cmd EXCEPT !.deferred = {}, !.step = IF \A n \in DOMAIN srv.order.authz : srv.order.authz[n] = "valid" THEN "clean" ELSE "poll"]
    /\ UNCHANGED <<disk, listener, records, keys, commands, faults, abandoned>>
(* poll_authorization: until all are valid, one is not, or the deadline    *)
(* has passed.                                                             *)
poll_authorization ==
    /\ cmd.step = "poll"
    /\ \/ (\A n \in DOMAIN srv.order.authz : srv.order.authz[n] = "valid") /\ Go("pollOrder") /\ UNCHANGED faults
       \/ /\ \E n \in DOMAIN srv.order.authz : srv.order.authz[n] = "invalid"
          /\ cmd' = [cmd EXCEPT !.ok = FALSE, !.step = "clean"] /\ UNCHANGED faults
       \/ /\ \E n \in DOMAIN srv.order.authz : srv.order.authz[n] = "processing"
          /\ faults < MaxFaults /\ faults' = faults + 1
          /\ cmd' = [cmd EXCEPT !.ok = FALSE, !.step = "clean"]
    /\ UNCHANGED <<disk, srv, listener, records, keys, commands, abandoned>>
(* poll_order: an order whose authorizations are valid is ready; after the *)
(* finalization it is asked for its certificate.                           *)
poll_order ==
    \/ /\ cmd.step = "pollOrder" /\ Go("clean")
       /\ UNCHANGED <<disk, srv, listener, records, keys, commands, faults, abandoned>>
    \/ /\ cmd.step = "pollCert"
       /\ \/ srv.order.key # 0 /\ Go("download") /\ UNCHANGED <<faults, listener>>
          \/ srv.order.key = 0 /\ faults < MaxFaults /\ faults' = faults + 1 /\ Exit("failed")
       /\ UNCHANGED <<disk, srv, records, keys, commands, abandoned>>
(* Phase 4 always runs, after a failure too; a hook that fails to remove   *)
(* its record only warns.                                                  *)
cleanup ==
    /\ cmd.step = "clean"
    /\ \/ records' = records \ OfOrder /\ UNCHANGED <<faults, abandoned>>
       \/ /\ OfOrder # {} /\ faults < MaxFaults /\ faults' = faults + 1
          /\ abandoned' = abandoned \union OfOrder
          /\ UNCHANGED records
    /\ IF cmd.ok THEN Go("certKey") /\ listener' = {} ELSE Exit("failed")
    /\ UNCHANGED <<disk, srv, keys, commands>>

-----------------------------------------------------------------------------
(* The certificate.                                                        *)

(* An existing key is used again.                                          *)
(* Mutant: every order gets a new key.                                     *)
MutCertKey ==
    /\ cmd.step = "certKey"
    /\ IF keys = MaxKeys THEN Exit("failed") /\ UNCHANGED <<disk, keys>>
       ELSE keys' = NewKey /\ disk' = [disk EXCEPT !.certKey = NewKey] /\ Go("finalize") /\ UNCHANGED listener
    /\ UNCHANGED <<srv, records, commands, faults, abandoned>>
CertKey ==
    /\ cmd.step = "certKey"
    /\ \/ disk.certKey > 0 /\ Go("finalize") /\ UNCHANGED <<disk, keys, listener>>
       \/ disk.certKey = Torn /\ Exit("failed") /\ UNCHANGED <<disk, keys>>
       \/ /\ disk.certKey = Absent /\ keys < MaxKeys
          /\ keys' = NewKey /\ disk' = [disk EXCEPT !.certKey = NewKey]
          /\ Go("finalize") /\ UNCHANGED listener
    /\ UNCHANGED <<srv, records, commands, faults, abandoned>>
finalize ==
    /\ cmd.step = "finalize" /\ Accepted
    /\ srv' = [srv EXCEPT !.order.csr = disk.certKey, !.order.key = IF cmd.delegation THEN 0 ELSE disk.certKey]
    /\ Go(IF cmd.delegation THEN "pollCert" ELSE "download")
    /\ UNCHANGED <<disk, listener, records, keys, commands, faults, abandoned>>
download_certificate ==
    /\ cmd.step = "download" /\ Accepted
    /\ cmd' = [cmd EXCEPT !.cert = [key |-> srv.order.key, names |-> cmd.names, from |-> "acme"], !.step = "writeCert"]
    /\ UNCHANGED <<disk, srv, listener, records, keys, commands, faults, abandoned>>
WriteCert ==
    /\ cmd.step = "writeCert"
    /\ disk' = [disk EXCEPT !.cert = cmd.cert]
    /\ Go("writeRenewal")
    /\ UNCHANGED <<srv, listener, records, keys, commands, faults, abandoned>>
WriteRenewal ==
    /\ cmd.step = "writeRenewal"
    /\ disk' = [disk EXCEPT !.renewal = [account |-> cmd.account, names |-> cmd.names, challenge |-> cmd.challenge, delegation |-> FALSE]]
    /\ Exit("ok")
    /\ UNCHANGED <<srv, records, keys, commands, faults, abandoned>>

-----------------------------------------------------------------------------
(* key_change: the new key is on disk before the server hears of it, and   *)
(* replaces the account key when the server has answered.                  *)
LoadNewKey ==
    /\ cmd.step = "keyChange"
    /\ \/ disk.newKey > 0 /\ cmd' = [cmd EXCEPT !.cert.key = disk.newKey, !.step = "changeKey"] /\ UNCHANGED <<disk, keys, listener>>
       \/ disk.newKey = Torn /\ Exit("failed") /\ UNCHANGED <<disk, keys>>
       \/ /\ disk.newKey = Absent /\ keys < MaxKeys
          /\ keys' = NewKey /\ disk' = [disk EXCEPT !.newKey = NewKey]
          /\ cmd' = [cmd EXCEPT !.cert.key = NewKey, !.step = "changeKey"] /\ UNCHANGED listener
    /\ UNCHANGED <<srv, records, commands, faults, abandoned>>
key_change ==
    /\ cmd.step = "changeKey" /\ Accepted
    /\ \A a \in DOMAIN srv.accounts : srv.accounts[a].key # cmd.cert.key
    /\ srv' = [srv EXCEPT !.accounts[cmd.account].key = cmd.cert.key]
    /\ Go("writeKey")
    /\ UNCHANGED <<disk, listener, records, keys, commands, faults, abandoned>>
WriteKey ==
    /\ cmd.step = "writeKey"
    /\ disk' = [disk EXCEPT !.akey = cmd.cert.key]
    /\ Exit("ok")
    /\ UNCHANGED <<srv, records, keys, commands, faults, abandoned>>
deactivate_account ==
    /\ cmd.step = "deregister" /\ Accepted
    /\ srv' = [srv EXCEPT !.accounts[cmd.account].active = FALSE]
    /\ Go("unlink")
    /\ UNCHANGED <<disk, listener, records, keys, commands, faults, abandoned>>
RemoveSidecar ==
    /\ cmd.step = "unlink"
    /\ disk' = [disk EXCEPT !.sidecar = Absent]
    /\ Exit("ok")
    /\ UNCHANGED <<srv, records, keys, commands, faults, abandoned>>

(* import certbot: the key certbot has (here: of an account the server     *)
(* has), then URL, chain, key, renewal configuration, one file at a time.  *)
(* The name of the key must be free.                                       *)
ImportKey ==
    /\ cmd.step = "key" /\ cmd.kind = "import"
    /\ IF disk.akey # Absent \/ keys = MaxKeys THEN Exit("failed") /\ UNCHANGED <<disk, keys, srv>>
       ELSE /\ keys' = NewKey /\ srv' = [srv EXCEPT !.accounts = Append(@, [key |-> NewKey, active |-> TRUE])]
            /\ disk' = [disk EXCEPT !.akey = NewKey]
            /\ cmd' = [cmd EXCEPT !.account = Len(srv.accounts) + 1, !.step = "importUrl"] /\ UNCHANGED listener
    /\ UNCHANGED <<records, commands, faults, abandoned>>
ImportUrl ==
    /\ cmd.step = "importUrl"
    /\ disk' = [disk EXCEPT !.sidecar = cmd.account]
    /\ Go("importChain")
    /\ UNCHANGED <<keys, srv, listener, records, commands, faults, abandoned>>
(* The chain is copied before its key.                                     *)
ImportChain ==
    /\ cmd.step = "importChain" /\ keys < MaxKeys /\ keys' = NewKey
    /\ disk' = [disk EXCEPT !.cert = [key |-> NewKey, names |-> CliNames \ Wildcards, from |-> "certbot"]]
    /\ Go("importKey")
    /\ UNCHANGED <<srv, listener, records, commands, faults, abandoned>>
copy_private_file ==
    /\ cmd.step = "importKey"
    /\ disk' = [disk EXCEPT !.certKey = disk.cert.key]
    /\ Go("importRenewal")
    /\ UNCHANGED <<keys, srv, listener, records, commands, faults, abandoned>>
build_renewal_config ==
    /\ cmd.step = "importRenewal"
    /\ disk' = [disk EXCEPT !.renewal = [account |-> cmd.account, names |-> CliNames \ Wildcards, challenge |-> "http-01", delegation |-> FALSE]]
    /\ Exit("ok")
    /\ UNCHANGED <<keys, srv, records, commands, faults, abandoned>>

-----------------------------------------------------------------------------
(* What goes wrong.                                                        *)

(* The file that a step writes, by truncation and then contents.           *)
Writing ==
    CASE cmd.step = "key" /\ disk.akey = Absent /\ cmd.kind \in {"issue", "register", "import"} -> "akey"
      [] cmd.step \in {"saveUrl", "importUrl"} -> "sidecar"
      [] cmd.step = "certKey" /\ disk.certKey = Absent -> "certKey"
      [] cmd.step = "importKey" -> "certKey"
      [] cmd.step \in {"writeCert", "importChain"} -> "cert"
      [] cmd.step = "keyChange" /\ disk.newKey = Absent -> "newKey"
      [] cmd.step = "writeKey" -> "akey"
      [] OTHER -> "none"
Interrupted == IF Writing = "cert" THEN [disk EXCEPT !.cert = [NoCert EXCEPT !.key = Torn]]
               ELSE IF Writing = "none" THEN disk ELSE [disk EXCEPT ![Writing] = Torn]
(* Records of the current order that nobody will remove.                   *)
LeftBehind == IF cmd.step \in {"present", "trigger", "poll", "pollOrder", "clean"} THEN OfOrder ELSE {}
Kill ==
    /\ Running /\ faults < MaxFaults /\ faults' = faults + 1
    /\ disk' \in {disk, Interrupted}
    /\ Exit("killed")
    /\ abandoned' = abandoned \union LeftBehind
    /\ UNCHANGED <<srv, records, keys, commands>>
(* A request that is refused, lost, or whose answer is lost; before the    *)
(* polling the command returns at once, without phase 4.                   *)
Asks == cmd.step \in {"account", "order", "present", "trigger", "finalize", "download", "changeKey", "deregister"}
Refused ==
    /\ Asks /\ cmd.step \notin {"account", "present"} /\ ~(Accepted /\ (cmd.step = "changeKey" => \A a \in DOMAIN srv.accounts : srv.accounts[a].key # cmd.cert.key))
    /\ Exit("failed") /\ abandoned' = abandoned \union LeftBehind
    /\ UNCHANGED <<disk, srv, records, keys, commands, faults>>
LostRequest ==
    /\ Asks /\ faults < MaxFaults /\ faults' = faults + 1
    /\ Exit("failed") /\ abandoned' = abandoned \union LeftBehind
    /\ UNCHANGED <<disk, srv, records, keys, commands>>
(* The answers to a change of key and to a finalization are lost.          *)
LostAnswer ==
    /\ cmd.step \in {"changeKey", "finalize"} /\ Accepted /\ faults < MaxFaults /\ faults' = faults + 1
    /\ \/ cmd.step = "finalize" /\ srv' = [srv EXCEPT !.order.csr = disk.certKey, !.order.key = disk.certKey]
       \/ /\ cmd.step = "changeKey" /\ \A a \in DOMAIN srv.accounts : srv.accounts[a].key # cmd.cert.key
          /\ srv' = [srv EXCEPT !.accounts[cmd.account].key = cmd.cert.key]
    /\ Exit("failed")
    /\ UNCHANGED <<disk, records, keys, commands, abandoned>>

(* What the validator finds: handle_challenge answers from the token store *)
(* and SniResolver from the certificates, records are read in the DNS, and *)
(* the other two brought their proof along.                                *)
handle_challenge(n) == n \in listener
Provable(n) ==
    \/ handle_challenge(n) \/ \E x \in records : x.name = n /\ x.order \in {0, srv.order.id}
    \/ srv.order.challenge \in {"onion-csr-01", "tkauth-01"}
(* The server validates a challenge when it gets to it.                    *)
Validate(n) ==
    /\ n \in DOMAIN srv.order.authz /\ srv.order.authz[n] = "processing"
    /\ srv' = [srv EXCEPT !.order.authz[n] = IF Provable(n) THEN "valid" ELSE "invalid"]
    /\ UNCHANGED <<disk, cmd, listener, records, keys, commands, faults, abandoned>>

(* The certificate of a delegation comes from upstream, later.             *)
UpstreamIssues ==
    /\ srv.order.csr # 0 /\ srv.order.key = 0
    /\ srv' = [srv EXCEPT !.order.key = srv.order.csr]
    /\ UNCHANGED <<disk, cmd, listener, records, keys, commands, faults, abandoned>>

-----------------------------------------------------------------------------
CliInit ==
    /\ disk = [akey |-> Absent, newKey |-> Absent, sidecar |-> Absent, certKey |-> Absent, cert |-> NoCert, renewal |-> NoRenewal]
    /\ cmd = Idle /\ srv = [accounts |-> <<>>, order |-> NoOrder]
    /\ listener = {} /\ records = {} /\ keys = 0 /\ commands = 0 /\ faults = 0 /\ abandoned = {}
CliStart == cmd_issue \/ cmd_renew \/ cmd_register \/ cmd_key_change \/ cmd_deregister \/ cmd_import_certbot
CliStep ==
    \/ LoadKey \/ UseAccount \/ new_account \/ save_account_url_for_ca
    \/ check_arguments \/ (\E v \in SUBSET CliNames : place_order(v)) \/ (\E n \in CliNames : present(n)) \/ trigger_challenge \/ Phase2
    \/ poll_authorization \/ poll_order \/ cleanup \/ CertKey \/ finalize \/ download_certificate \/ WriteCert \/ WriteRenewal
    \/ LoadNewKey \/ key_change \/ WriteKey \/ deactivate_account \/ RemoveSidecar
    \/ ImportKey \/ ImportUrl \/ ImportChain \/ copy_private_file \/ build_renewal_config
CliFault == Kill \/ Refused \/ LostRequest \/ LostAnswer
CliNext == CliStart \/ CliStep \/ CliFault \/ (\E n \in CliNames : Validate(n)) \/ UpstreamIssues
CliSpec == CliInit /\ [][CliNext]_cliVars

-----------------------------------------------------------------------------
(* A certificate this client fetched always lies beside its private key,   *)
(* however often commands were killed in between (cmd_issue writes the key *)
(* before it finalizes and uses an existing one again).                    *)
CertHasItsKey == disk.cert.key > 0 /\ disk.cert.from = "acme" => disk.certKey = disk.cert.key

(* The key the server has for the account named in the sidecar is in the   *)
(* account key file or, after an interrupted or unanswered key change, in  *)
(* the new key's file (cmd_key_change).                                    *)
AccountKeyKept ==
    disk.sidecar > 0 /\ srv.accounts[disk.sidecar].active => srv.accounts[disk.sidecar].key \in {disk.akey, disk.newKey}

(* A command that reports success has done it: issue leaves the            *)
(* certificate it ordered, its key and a renewal configuration that orders *)
(* the same names by the same challenge with the same account; a key       *)
(* change leaves the account usable with the key file (cmd_issue,          *)
(* cmd_renew, cmd_key_change).                                             *)
SuccessIsInstalled ==
    cmd.exit = "ok" =>
        /\ cmd.kind = "issue" =>
            /\ disk.cert = [key |-> disk.certKey, names |-> cmd.names, from |-> "acme"]
            /\ disk.certKey = srv.order.key
            /\ disk.renewal = [account |-> cmd.account, names |-> cmd.names, challenge |-> cmd.challenge, delegation |-> FALSE]
        /\ cmd.kind \in {"keyChange", "register"} =>
            disk.akey = srv.accounts[disk.sidecar].key

(* A record outlives its command only if the command was killed, failed    *)
(* before it polled, or its hook failed to remove it (phase 4 of           *)
(* cmd_issue, run also when the polling failed).                           *)
ResponsesWithdrawn ==
    cmd.step \notin {"present", "trigger", "poll", "pollOrder", "clean"} => {x \in records : x.by = "dns-hook"} \subseteq abandoned

-----------------------------------------------------------------------------
(* When a certificate is renewed: the daily timer that install-timer sets   *)
(* up, the window the server suggests (routes/renewal_info.rs) and the      *)
(* client's decision (renew.rs, install.rs); and the date arithmetic both   *)
(* sides wrote for themselves, month by month.                             *)

CONSTANTS
    Lifetimes,    \* lifetimes of certificates, in hours
    MaxFailures,
    LastYear

ASSUME RenewalAssumption == Lifetimes \subseteq Nat /\ MaxFailures \in Nat /\ LastYear \in 1970..2399

VARIABLES
    age, delay, failures, lifetime,   \* of the certificate that a run of the timer found
    renewed,                          \* by that run
    year, month, days                 \* a month and the days before it since 1970-01-01
renewalVars == <<age, delay, failures, lifetime, renewed, year, month, days>>

Max2(a, b) == IF a >= b THEN a ELSE b

-----------------------------------------------------------------------------
(* The window, in hours of the certificate's age.                          *)
get_renewal_info(life, now) == [start |-> Max2((life * 2) \div 3, now), end |-> Max2(life - 24, (life * 2) \div 3)]
(* The client goes by the start alone; past the end it only warns.         *)
check_ari_window(w, now) == now >= w.start
(* OnCalendar=daily, RandomizedDelaySec=1h: a run within the first hour of *)
(* every day.  Its renewal may fail.                                       *)
RunTimer(d, ok) ==
    LET now == (IF renewed THEN 0 ELSE age) + 24 + d - delay
        due == check_ari_window(get_renewal_info(lifetime, now), now)
        failed == IF renewed THEN 0 ELSE failures
    IN  /\ delay' = d /\ age' = now
        /\ due \/ ok
        /\ renewed' = (due /\ ok)
        /\ IF due /\ ~ok THEN failed < MaxFailures /\ failures' = failed + 1 ELSE failures' = failed
        /\ UNCHANGED <<lifetime, year, month, days>>

-----------------------------------------------------------------------------
(* Dates.                                                                  *)
is_leap(y) == (y % 4 = 0 /\ y % 100 # 0) \/ y % 400 = 0
max_day(y, m) == IF m \in {1, 3, 5, 7, 8, 10, 12} THEN 31 ELSE IF m # 2 THEN 30 ELSE IF is_leap(y) THEN 29 ELSE 28
BadDate == -1
ValidDate(y, m, d) == y \in 1970..9999 /\ m \in 1..12 /\ d >= 1 /\ d <= max_day(y, m)
days_since_epoch(y, m, d) ==
    IF ~ValidDate(y, m, d) THEN BadDate
    ELSE LET mm == IF m <= 2 THEN m + 12 ELSE m
             yy == IF m <= 2 THEN y - 1 ELSE y
         IN  d + (153 * mm - 457) \div 5 + 365 * yy + yy \div 4 - yy \div 100 + yy \div 400 - 719469
parse_rfc3339_utc(y, m, d) ==
    IF ~ValidDate(y, m, d) THEN BadDate
    ELSE LET yy == IF m <= 2 THEN y - 1 ELSE y
             mm == IF m <= 2 THEN m + 9 ELSE m - 3
         IN  365 * yy + yy \div 4 - yy \div 100 + yy \div 400 + (153 * mm + 2) \div 5 + d - 1 - 719468
(* 0 is Sunday.                                                            *)
fmt_http_date(y, m, d) ==
    LET t == <<0, 3, 2, 5, 0, 3, 5, 1, 4, 6, 2, 4>>
        yy == IF m < 3 THEN y - 1 ELSE y
    IN  (yy + yy \div 4 - yy \div 100 + yy \div 400 + t[m] + d) % 7

(* The calendar itself, for comparison.                                    *)
LeapYears == {4 * k : k \in 493..600} \ {2100, 2200, 2300}
MonthLength(y, m) == IF m = 2 /\ y \in LeapYears THEN 29 ELSE <<31, 28, 31, 30, 31, 30, 31, 31, 30, 31, 30, 31>>[m]
NextMonth ==
    /\ year < LastYear
    /\ days' = days + MonthLength(year, month)
    /\ IF month = 12 THEN year' = year + 1 /\ month' = 1 ELSE month' = month + 1 /\ UNCHANGED year
    /\ UNCHANGED <<age, delay, failures, lifetime, renewed>>

-----------------------------------------------------------------------------
RenewalInit ==
    /\ age = 0 /\ renewed = TRUE /\ delay \in {0, 1} /\ failures = 0 /\ lifetime \in Lifetimes
    /\ year = 1970 /\ month = 1 /\ days = 0
RunNext == \E d \in {0, 1}, ok \in BOOLEAN : RunTimer(d, ok)
RenewalSpec == RenewalInit /\ [][RunNext \/ NextMonth]_renewalVars

-----------------------------------------------------------------------------
(* The timer never finds an expired certificate, as long as the last third *)
(* of its lifetime has room for one run more than have failed: the window  *)
(* the server computes, the client's comparison and the timer's period fit *)
(* together.                                                               *)
RenewedInTime == lifetime - (lifetime * 2) \div 3 >= 25 * (failures + 1) => age < lifetime

(* The server's reading of notBefore and notAfter, the client's of the     *)
(* renewal window and the day of the week in HTTP dates agree with the     *)
(* calendar on the first and last days of every month, and no day beyond   *)
(* the last is accepted (order.rs, renew.rs, star_cert.rs).                *)
DatesAgree ==
    LET last == MonthLength(year, month) IN
    /\ \A d \in {1, 15, last} :
        /\ days_since_epoch(year, month, d) = days + d - 1
        /\ parse_rfc3339_utc(year, month, d) = days + d - 1
        /\ fmt_http_date(year, month, d) = (4 + days + d - 1) % 7
    /\ days_since_epoch(year, month, last + 1) = BadDate /\ parse_rfc3339_utc(year, month, last + 1) = BadDate

(* The client's installation keeps fitting together through kills, lost      *)
(* answers and unattended renewals: keys, certificates, account and          *)
(* challenge responses, and the renewal comes in time (akamu-cli); what its  *)
(* account key signs the server verifies (akamu-jose).                      *)
InstallationHolds ==
    /\ CertHasItsKey /\ AccountKeyKept /\ SuccessIsInstalled /\ ResponsesWithdrawn /\ RenewedInTime /\ DatesAgree
    /\ SignaturesVerify /\ ThumbprintsAgree
=============================================================================
