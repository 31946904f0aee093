------------------------------- MODULE Startup -------------------------------
(***************************************************************************)
(* One start of the server after another over one data directory and one   *)
(* database (src/src/main.rs, ca/init.rs, tls/init.rs, admin/init.rs,      *)
(* mtc/log.rs).  A start reads or creates, in this order, the node's       *)
(* gossip keys, the CA's key and certificate, the MTC key and log, the TLS *)
(* pair and the first operator.  It may be killed anywhere, in the middle  *)
(* of a write too; the administrator may change the configuration, or      *)
(* remove a half-written pair, between two starts.                         *)
(***************************************************************************)
EXTENDS Integers, FiniteSets

CONSTANTS
    Configs,        \* configurations of the server
    MaxStarts,
    MaxKills

AdminModes == {"none", "gssapi", "p12", "pem"}
ASSUME StartupAssumption ==
    /\ Configs \subseteq [signer : {"file", "hsm", "dogtag"}, admin : AdminModes, tls : BOOLEAN, mtc : BOOLEAN,
                          listen : {"tcp", "unix"}, gssapi : SUBSET SUBSET {"keytab_file", "gssproxy"},
                          flaw : {"none", "section", "algorithm", "late", "webui"}]
    /\ MaxStarts \in Nat /\ MaxKills \in Nat

VARIABLES
    config,
    disk,           \* the files; a key is a number, a certificate the key it is for and the key that signed it
    rows,           \* node_keys and operators
    proc,           \* the running process: where it is, and the keys it works with
    keys,           \* keys generated so far
    starts, kills,
    refused,        \* why the last start ended in an error
    served,         \* configurations that were served since an operator row was edited
    announced,      \* node identities that took part in gossip
    edited, unseeded
startupVars == <<config, disk, rows, proc, keys, starts, kills, refused, served, announced, edited, unseeded>>
-----------------------------------------------------------------------------
Absent == 0
Torn == -1          \* opened and truncated, not yet written
HsmKey == 1000
DogtagKey == 1001
Principal == 2000   \* bootstrap_operator_gssapi_principal
Pair(key, issuer) == [key |-> key, issuer |-> issuer]
NoPair == Pair(Absent, Absent)
TornPair == Pair(Torn, Torn)
NoTable == [sign |-> Torn, kem |-> Torn]
NoRow == [sign |-> Absent, kem |-> Absent]
NewKey == keys + 1
Off == [step |-> "off", node |-> Absent, ca |-> Absent, key |-> Absent]
At(step) == proc.step = step
Go(step) == proc' = [proc EXCEPT !.step = step]
Stop(why) == proc' = Off /\ refused' = why
history == <<starts, kills, served, announced, edited, unseeded>>

(* Config::validate.  A section may name an unknown CA, a relative path, a *)
(* short secret or a zero interval; TLS does not go with a Unix socket; a  *)
(* GSSAPI acceptor has a keytab or gssproxy, not both.                     *)
SectionsOk == config.flaw # "section"
ListenOk == ~(config.tls /\ config.listen = "unix")
AcceptorsOk == \A section \in config.gssapi : Cardinality(section) = 1
validate_config ==
    /\ At("config")
    /\ IF SectionsOk /\ ListenOk /\ AcceptorsOk THEN Go("validate") /\ UNCHANGED refused ELSE Stop("config")
    /\ UNCHANGED <<config, disk, rows, keys, history>>
(* SHA-1, or accounts per CA.                                              *)
validate_startup_config ==
    /\ At("validate")
    /\ IF config.flaw # "algorithm" THEN Go("database") /\ UNCHANGED refused ELSE Stop("config")
    /\ UNCHANGED <<config, disk, rows, keys, history>>
(* Each database may not answer.  The CRDT database's tables are created   *)
(* if they are not there: what a later start finds is what was saved.      *)
open_databases ==
    /\ At("database")
    /\ \/ Stop("database")
       \/ Go("crdtDatabase") /\ UNCHANGED refused
    /\ UNCHANGED <<config, disk, rows, keys, history>>
open_crdt_db ==
    /\ At("crdtDatabase")
    /\ \/ Stop("database") /\ UNCHANGED rows
       \/ /\ rows' = [rows EXCEPT !.node = IF @ = NoTable THEN NoRow ELSE @]
          /\ Go("nodeKeys") /\ UNCHANGED refused
    /\ UNCHANGED <<config, disk, keys, history>>

(* load_or_generate_node_keys: the identity is the signing key; a row of an*)
(* older version has no usable KEM key and is completed.                   *)
load_node_keys == rows.node
load_or_generate_node_keys ==
    /\ At("nodeKeys")
    /\ IF load_node_keys # NoRow
       THEN /\ proc' = [proc EXCEPT !.node = load_node_keys.sign, !.step = IF load_node_keys.kem # Absent THEN "cas" ELSE "saveNodeKeys"]
            /\ UNCHANGED keys
       ELSE proc' = [proc EXCEPT !.node = NewKey, !.step = "saveNodeKeys"] /\ keys' = NewKey
    /\ UNCHANGED <<config, disk, rows, refused, history>>
save_node_keys ==
    /\ At("saveNodeKeys")
    /\ rows' = [rows EXCEPT !.node = [sign |-> proc.node, kem |-> proc.node]]
    /\ Go("cas")
    /\ UNCHANGED <<config, disk, keys, refused, history>>

-----------------------------------------------------------------------------
(* load_cas.  What is loaded is parsed but not compared: nothing checks    *)
(* that the certificate is the key's.                                      *)
AfterCa == IF config.mtc THEN "mtcKey" ELSE "tls"
UseCa(key) == proc' = [proc EXCEPT !.ca = key, !.step = AfterCa] /\ UNCHANGED <<keys, refused>>
load ==
    /\ At("cas") /\ config.signer = "file" /\ disk.caKey # Absent /\ disk.caCert # NoPair
    /\ IF disk.caKey = Torn \/ disk.caCert = TornPair THEN Stop("caFiles") /\ UNCHANGED keys ELSE UseCa(disk.caKey)
    /\ UNCHANGED <<config, disk, rows, history>>
generate ==
    /\ At("cas") /\ config.signer = "file" /\ disk.caKey = Absent /\ disk.caCert = NoPair
    /\ proc' = [proc EXCEPT !.ca = NewKey, !.step = "writeCaKey"] /\ keys' = NewKey
    /\ UNCHANGED <<config, disk, rows, refused, history>>
(* One file without the other.                                             *)
(* Mutant: the missing certificate is signed with a fresh key.             *)
MutHalfPair ==
    /\ At("cas") /\ config.signer = "file" /\ (disk.caKey = Absent) # (disk.caCert = NoPair)
    /\ proc' = [proc EXCEPT !.ca = NewKey, !.step = "writeCaCert"] /\ keys' = NewKey
    /\ UNCHANGED <<config, disk, rows, refused, history>>
half_pair ==
    /\ At("cas") /\ config.signer = "file" /\ (disk.caKey = Absent) # (disk.caCert = NoPair)
    /\ Stop("caFiles")
    /\ UNCHANGED <<config, disk, rows, keys, history>>
load_pkcs11 ==
    /\ At("cas") /\ config.signer = "hsm" /\ disk.caCert # NoPair
    /\ IF disk.caCert = TornPair THEN Stop("caFiles") /\ UNCHANGED keys ELSE UseCa(HsmKey)
    /\ UNCHANGED <<config, disk, rows, history>>
generate_cert_for_hsm_key ==
    /\ At("cas") /\ config.signer = "hsm" /\ disk.caCert = NoPair
    /\ proc' = [proc EXCEPT !.ca = HsmKey, !.step = "writeCaCert"]
    /\ UNCHANGED <<config, disk, rows, keys, refused, history>>
(* An external signer: the administrator installs its certificate.         *)
load_dogtag ==
    /\ At("cas") /\ config.signer = "dogtag"
    /\ IF disk.caCert = NoPair THEN Stop("caFiles") /\ UNCHANGED keys ELSE UseCa(disk.caCert.key)
    /\ UNCHANGED <<config, disk, rows, history>>
write_key_file ==
    /\ At("writeCaKey")
    /\ disk' = [disk EXCEPT !.caKey = proc.ca]
    /\ Go("writeCaCert")
    /\ UNCHANGED <<config, rows, keys, refused, history>>
write_ca_cert ==
    /\ At("writeCaCert")
    /\ disk' = [disk EXCEPT !.caCert = Pair(proc.ca, proc.ca)]
    /\ Go(AfterCa)
    /\ UNCHANGED <<config, rows, keys, refused, history>>

(* init_mtc_for_ca: its signing key, and the log with its null entry.      *)
load_or_generate_mtc_key ==
    /\ At("mtcKey")
    /\ \/ disk.mtcKey = Absent /\ disk' = [disk EXCEPT !.mtcKey = NewKey] /\ keys' = NewKey /\ Go("mtcLog") /\ UNCHANGED refused
       \/ disk.mtcKey > 0 /\ Go("mtcLog") /\ UNCHANGED <<disk, keys, refused>>
       \/ disk.mtcKey = Torn /\ Stop("mtcKey") /\ UNCHANGED <<disk, keys>>
    /\ UNCHANGED <<config, rows, history>>
(* Another process holds the lock on the log.                              *)
acquire_log_lock ==
    /\ At("mtcLog") /\ Stop("locked")
    /\ UNCHANGED <<config, disk, rows, keys, history>>
open_or_create ==
    /\ At("mtcLog")
    /\ disk' = [disk EXCEPT !.log = IF @ = "none" THEN "empty" ELSE @]
    /\ Go(IF disk.log = "none" THEN "seedLog" ELSE "tls")
    /\ UNCHANGED <<config, rows, keys, refused, history>>
append_null_entry ==
    /\ At("seedLog")
    /\ disk' = [disk EXCEPT !.log = "seeded"]
    /\ Go("tls")
    /\ UNCHANGED <<config, rows, keys, refused, history>>

-----------------------------------------------------------------------------
(* tls::init::load_or_generate.                                            *)
skip_tls ==
    /\ At("tls") /\ ~config.tls /\ Go("admin")
    /\ UNCHANGED <<config, disk, rows, keys, refused, history>>
tls_load_or_generate ==
    /\ At("tls") /\ config.tls
    /\ \/ config.signer = "dogtag" /\ Stop("external") /\ UNCHANGED keys
       \/ /\ config.signer # "dogtag" /\ disk.tlsKey # Absent /\ disk.tlsCert # NoPair
          /\ Go("admin") /\ UNCHANGED <<keys, refused>>
       \/ config.signer # "dogtag" /\ (disk.tlsKey = Absent) # (disk.tlsCert = NoPair) /\ Stop("tlsFiles") /\ UNCHANGED keys
       \/ /\ config.signer # "dogtag" /\ disk.tlsKey = Absent /\ disk.tlsCert = NoPair
          /\ proc' = [proc EXCEPT !.key = NewKey, !.step = "writeTlsKey"] /\ keys' = NewKey /\ UNCHANGED refused
    /\ UNCHANGED <<config, disk, rows, history>>
write_tls_key ==
    /\ At("writeTlsKey")
    /\ disk' = [disk EXCEPT !.tlsKey = proc.key]
    /\ Go("writeTlsCert")
    /\ UNCHANGED <<config, rows, keys, refused, history>>
write_tls_cert ==
    /\ At("writeTlsCert")
    /\ disk' = [disk EXCEPT !.tlsCert = Pair(proc.key, proc.ca)]
    /\ Go("admin")
    /\ UNCHANGED <<config, rows, keys, refused, history>>

(* bootstrap_operator_if_needed.  An operator row is known by the          *)
(* fingerprint of its certificate (here the key's number), by a principal, *)
(* or both.                                                                *)
(* The certificate of the configured credentials: the bundle's, or the    *)
(* file next to the key.                                                   *)
Credentials == IF config.admin = "p12" THEN disk.p12 ELSE disk.opCert
Fingerprints == {o.fingerprint : o \in rows.operators} \ {Absent}
skip_admin ==
    /\ At("admin") /\ config.admin = "none" /\ Go("services")
    /\ UNCHANGED <<config, disk, rows, keys, refused, history>>
external_signer ==
    /\ At("admin") /\ config.admin # "none" /\ config.signer = "dogtag" /\ Stop("external")
    /\ UNCHANGED <<config, disk, rows, keys, history>>
bootstrap_gssapi ==
    /\ At("admin") /\ config.admin = "gssapi" /\ config.signer # "dogtag"
    /\ IF \E o \in rows.operators : o.principal = Principal THEN Go("services") /\ UNCHANGED <<rows, refused>>
       ELSE IF rows.operators # {} THEN Stop("operators") /\ UNCHANGED rows
       ELSE rows' = [rows EXCEPT !.operators = {[fingerprint |-> Absent, principal |-> Principal]}] /\ Go("services") /\ UNCHANGED refused
    /\ UNCHANGED <<config, disk, keys, history>>
(* The credentials exist: their row must, too.                             *)
credentials_exist ==
    /\ At("admin") /\ config.signer # "dogtag" /\ config.admin \in {"p12", "pem"} /\ Credentials # NoPair /\ (config.admin = "pem" => disk.opKey # Absent)
    /\ IF Credentials = TornPair \/ Credentials.key \notin Fingerprints THEN Stop("operatorFile") ELSE Go("services") /\ UNCHANGED refused
    /\ UNCHANGED <<config, disk, rows, keys, history>>
half_credentials ==
    /\ At("admin") /\ config.signer # "dogtag" /\ config.admin = "pem" /\ (disk.opKey = Absent) # (disk.opCert = NoPair)
    /\ Stop("operatorFile")
    /\ UNCHANGED <<config, disk, rows, keys, history>>
new_credentials ==
    /\ At("admin") /\ config.signer # "dogtag" /\ config.admin \in {"p12", "pem"} /\ Credentials = NoPair
    /\ config.admin = "pem" => disk.opKey = Absent
    /\ IF rows.operators # {} THEN Stop("operators") /\ UNCHANGED keys
       ELSE proc' = [proc EXCEPT !.key = NewKey, !.step = "writeCredentials"] /\ keys' = NewKey /\ UNCHANGED refused
    /\ UNCHANGED <<config, disk, rows, history>>
write_secret_file ==        \* the bundle, or the key of the pair
    /\ At("writeCredentials")
    /\ IF config.admin = "p12" THEN disk' = [disk EXCEPT !.p12 = Pair(proc.key, proc.ca)] /\ Go("insertOperator")
       ELSE disk' = [disk EXCEPT !.opKey = proc.key] /\ Go("writeOpCert")
    /\ UNCHANGED <<config, rows, keys, refused, history>>
write_operator_cert ==
    /\ At("writeOpCert")
    /\ disk' = [disk EXCEPT !.opCert = Pair(proc.key, proc.ca)] /\ Go("insertOperator")
    /\ UNCHANGED <<config, rows, keys, refused, history>>
insert_if_absent ==
    /\ At("insertOperator")
    /\ rows' = [rows EXCEPT !.operators = @ \union {[fingerprint |-> proc.key, principal |-> Absent]}]
    /\ Go("services")
    /\ UNCHANGED <<config, disk, keys, refused, history>>

-----------------------------------------------------------------------------
(* Credentials, trust anchors, secrets, profiles, linters and the policy   *)
(* engine: each may refuse, none leaves anything behind.                   *)
build_state ==
    /\ At("services")
    /\ IF config.flaw = "late" THEN Stop("config") ELSE Go("listen") /\ UNCHANGED refused
    /\ UNCHANGED <<config, disk, rows, keys, history>>
(* serve_router: the TLS files are read now, and their keys compared; a    *)
(* socket left by a killed server is removed first.                        *)
bind_unix == [disk EXCEPT !.socket = TRUE]
serve_router ==
    /\ At("listen")
    /\ IF config.flaw = "webui" THEN Stop("config") /\ UNCHANGED <<disk, served, announced>>
       ELSE IF config.tls /\ (disk.tlsKey = Torn \/ disk.tlsCert = TornPair \/ disk.tlsKey # disk.tlsCert.key)
       THEN Stop("tlsFiles") /\ UNCHANGED <<disk, served, announced>>
       ELSE /\ disk' = IF config.listen = "unix" THEN bind_unix ELSE disk
            /\ Go("serving") /\ served' = served \union {config} /\ announced' = announced \union {proc.node} /\ UNCHANGED refused
    /\ UNCHANGED <<config, rows, keys, starts, kills, edited, unseeded>>
graceful_shutdown ==
    /\ At("serving")
    /\ disk' = [disk EXCEPT !.socket = IF config.listen = "unix" THEN FALSE ELSE @]
    /\ proc' = Off
    /\ UNCHANGED <<config, rows, keys, refused, history>>
(* PUT /admin/operators/{id} gives the operator another certificate.       *)
put_operator ==
    /\ At("serving") /\ ~edited /\ Fingerprints # {}
    /\ rows' = [rows EXCEPT !.operators = {[o EXCEPT !.fingerprint = IF @ = Absent THEN @ ELSE 3000] : o \in @}]
    /\ edited' = TRUE /\ served' = {}
    /\ UNCHANGED <<config, disk, proc, keys, starts, kills, refused, announced, unseeded>>

-----------------------------------------------------------------------------
(* What a write that is cut short leaves.                                  *)
CutShort ==
    CASE At("writeCaKey") -> [disk EXCEPT !.caKey = Torn]
      [] At("writeCaCert") -> [disk EXCEPT !.caCert = TornPair]
      [] At("mtcKey") /\ disk.mtcKey = Absent -> [disk EXCEPT !.mtcKey = Torn]
      [] At("writeTlsKey") -> [disk EXCEPT !.tlsKey = Torn]
      [] At("writeTlsCert") -> [disk EXCEPT !.tlsCert = TornPair]
      [] At("writeCredentials") /\ config.admin = "p12" -> [disk EXCEPT !.p12 = TornPair]
      [] At("writeCredentials") /\ config.admin = "pem" -> [disk EXCEPT !.opKey = Torn]
      [] At("writeOpCert") -> [disk EXCEPT !.opCert = TornPair]
      [] OTHER -> disk
Kill ==
    /\ ~At("off") /\ kills < MaxKills /\ kills' = kills + 1
    /\ disk' \in {disk, CutShort}
    /\ unseeded' = (unseeded \/ At("seedLog"))
    /\ proc' = Off /\ refused' = "no"
    /\ UNCHANGED <<config, rows, keys, starts, served, announced, edited>>
begin ==
    /\ At("off") /\ starts < MaxStarts /\ starts' = starts + 1
    /\ Go("config") /\ refused' = "no"
    /\ UNCHANGED <<config, disk, rows, keys, kills, served, announced, edited, unseeded>>
(* The administrator edits the configuration, and clears away what an      *)
(* error message complained about.                                         *)
Reconfigure ==
    /\ At("off")
    /\ \E c \in Configs : c.signer = config.signer /\ c # config /\ config' = c
    /\ refused' = "no"
    /\ UNCHANGED <<disk, rows, proc, keys, history>>
Repair ==
    /\ At("off")
    /\ disk' = CASE refused = "caFiles" /\ config.signer # "dogtag" -> [disk EXCEPT !.caKey = Absent, !.caCert = NoPair]
                 [] refused = "mtcKey" -> [disk EXCEPT !.mtcKey = Absent]
                 [] refused = "tlsFiles" -> [disk EXCEPT !.tlsKey = Absent, !.tlsCert = NoPair]
                 [] refused = "operatorFile" /\ config.admin = "p12" -> [disk EXCEPT !.p12 = NoPair]
                 [] refused = "operatorFile" /\ config.admin = "pem" -> [disk EXCEPT !.opKey = Absent, !.opCert = NoPair]
                 [] OTHER -> disk
    /\ disk' # disk /\ refused' = "no"
    /\ UNCHANGED <<config, rows, proc, keys, history>>

StartupInit ==
    /\ config \in Configs
    /\ disk = [caKey |-> Absent, caCert |-> IF config.signer = "dogtag" THEN Pair(DogtagKey, DogtagKey) ELSE NoPair, mtcKey |-> Absent, log |-> "none",
               tlsKey |-> Absent, tlsCert |-> NoPair, opKey |-> Absent, opCert |-> NoPair, p12 |-> NoPair, socket |-> FALSE]
    /\ announced \in {{}, {1}}         \* {1}: an older version ran here
    /\ rows = [node |-> IF announced = {} THEN NoTable ELSE [sign |-> 1, kem |-> Absent], operators |-> {}]
    /\ proc = Off /\ keys = 1 /\ starts = 0 /\ kills = 0 /\ refused = "no"
    /\ served = {} /\ edited = FALSE /\ unseeded = FALSE
Databases ==
    \/ validate_config \/ validate_startup_config \/ open_databases \/ open_crdt_db
    \/ load_or_generate_node_keys \/ save_node_keys
LoadCas == load \/ generate \/ half_pair \/ load_pkcs11 \/ generate_cert_for_hsm_key \/ load_dogtag \/ write_key_file \/ write_ca_cert
Mtc == load_or_generate_mtc_key \/ acquire_log_lock \/ open_or_create \/ append_null_entry
Tls == skip_tls \/ tls_load_or_generate \/ write_tls_key \/ write_tls_cert
Operator ==
    \/ skip_admin \/ external_signer \/ bootstrap_gssapi \/ credentials_exist \/ half_credentials \/ new_credentials
    \/ write_secret_file \/ write_operator_cert \/ insert_if_absent
StartupNext ==
    \/ begin \/ Databases \/ LoadCas \/ Mtc \/ Tls \/ Operator \/ build_state \/ serve_router
    \/ graceful_shutdown \/ put_operator \/ Kill \/ Reconfigure \/ Repair
StartupSpec == StartupInit /\ [][StartupNext]_startupVars
-----------------------------------------------------------------------------
(* Whatever was interrupted, repaired and reconfigured before: a server    *)
(* that serves signs with the key its CA certificate is for, although load *)
(* never compares them, and its TLS and operator certificates were signed  *)
(* by that key (ca::init::load_or_generate, sign_server_cert,              *)
(* sign_admin_cert).                                                       *)
KeysMatch ==
    At("serving") =>
        /\ disk.caCert.key = proc.ca
        /\ config.signer = "file" => disk.caKey = proc.ca
        /\ config.tls => disk.tlsCert = Pair(disk.tlsKey, proc.ca)
        /\ config.admin \in {"p12", "pem"} => Credentials.issuer = proc.ca
        /\ config.admin = "pem" => disk.opCert.key = disk.opKey

(* The cluster sees one identity of this node, for ever: gossip ownership, *)
(* CRDT counters and nonce prefixes are tied to it                         *)
(* (load_or_generate_node_keys).                                           *)
OneNodeIdentity == Cardinality(announced) <= 1

(* A configuration that was served starts again, after a kill as well as   *)
(* after a stop, unless the database is down, another process has the log  *)
(* or an operator row was edited in between (load_or_generate,             *)
(* bootstrap_operator_if_needed, remove_stale_socket).                     *)
StartsAgain == config \in served => refused \in {"no", "database", "locked"}

(* A server with an admin API has an operator that can log in with the     *)
(* configured credentials, unless its row was edited                       *)
(* (bootstrap_operator_if_needed).                                         *)
NoLockout ==
    At("serving") /\ ~edited =>
        /\ config.admin = "gssapi" => \E o \in rows.operators : o.principal = Principal
        /\ config.admin \in {"p12", "pem"} => Credentials.key \in Fingerprints

(* The log a server appends to begins with its null entry, unless a start  *)
(* was killed between creating the log and appending it (open_or_create).  *)
LogSeeded == At("serving") /\ config.mtc => disk.log = "seeded" \/ unseeded

(* Any sequence of starts, kills, repairs and reconfigurations over one data *)
(* directory leaves a server that fits together.                            *)
StartsFit == KeysMatch /\ OneNodeIdentity /\ StartsAgain /\ NoLockout /\ LogSeeded
=============================================================================
