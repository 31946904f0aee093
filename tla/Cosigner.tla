------------------------------ MODULE Cosigner ------------------------------
(***************************************************************************)
(* Starting the external cosigner (crates/akamu-cosigner main.rs, acme.rs, *)
(* key.rs, config.rs): its signing key, the ACME bootstrap of its TLS      *)
(* certificate, its identity certificate and its listener, with kills      *)
(* between any two writes, restarts and the passing of time.               *)
(*                                                                         *)
(* A file is {} while it does not exist, {Torn} after it was created or    *)
(* truncated and not yet written, and otherwise holds [key, until]: the    *)
(* key (or the certificate's key) and the certificate's last moment.       *)
(***************************************************************************)
EXTENDS Integers

CONSTANTS
    CosignerConfigs, \* [boot, type, hook, tls, unix]: what cosigner.toml may say
    Lifetime,        \* of a certificate from the ACME server
    RenewBefore,     \* 30 days
    LongLife,        \* of a self-signed certificate, ten years
    MaxNow, MaxStartUps, MaxKilled   \* bounds

(* A certificate shorter than the renewal window is due again at once, and  *)
(* would then be replaced by a self-signed one of the other key.            *)
ASSUME CosignerAssumption ==
    /\ {Lifetime, RenewBefore, LongLife, MaxNow, MaxStartUps, MaxKilled} \subseteq Nat
    /\ Lifetime >= RenewBefore /\ LongLife >= RenewBefore

VARIABLES
    conf,     \* the configuration
    cpc,      \* where the process is
    mem,      \* [sign, acct, tlsCert, tlsKey]: what it has loaded
    files,    \* [sign, acct, cert, key, id]
    minted,   \* keys generated so far
    now, starts, killed
cosVars == <<conf, cpc, mem, files, minted, now, starts, killed>>

Torn == [key |-> 0, until |-> 0]
KeyFile(k) == {[key |-> k, until |-> MaxNow + LongLife]}
NoMem == [sign |-> 0, acct |-> 0, tlsCert |-> 0, tlsKey |-> 0]

CosignerInit ==
    /\ conf \in CosignerConfigs /\ cpc = "down" /\ mem = NoMem
    /\ files = [sign |-> {}, acct |-> {}, cert |-> {}, key |-> {}, id |-> {}]
    /\ minted = 0 /\ now = 0 /\ starts = 0 /\ killed = 0

-----------------------------------------------------------------------------
(* An explicit [tls] section wins over the bootstrap's files.               *)
effective_tls(c) == IF c.tls THEN "files" ELSE IF c.boot THEN "bootstrap" ELSE "none"

from_file ==
    /\ cpc = "down" /\ starts < MaxStartUps
    /\ cpc' = IF effective_tls(conf) # "none" /\ conf.unix THEN "refused" ELSE "load_key"
    /\ starts' = starts + 1
    /\ UNCHANGED <<conf, mem, files, minted, now, killed>>

(* The signing key is generated once.  The file is opened (and created) and  *)
(* then written: write_private_file.  One that cannot be parsed is fatal.   *)
(* Mutant: a new key at every start. *)
Mutload_or_generate ==
    /\ cpc = "load_key"
    /\ cpc' = "write_key" /\ files' = [files EXCEPT !.sign = {Torn}] /\ UNCHANGED mem
    /\ UNCHANGED <<conf, minted, now, starts, killed>>
load_or_generate ==
    /\ cpc = "load_key"
    /\ \/ files.sign = {} /\ cpc' = "write_key" /\ files' = [files EXCEPT !.sign = {Torn}] /\ UNCHANGED mem
       \/ files.sign = {Torn} /\ cpc' = "stuck" /\ UNCHANGED <<files, mem>>
       \/ \E k \in files.sign \ {Torn} : cpc' = "bootstrap" /\ mem' = [mem EXCEPT !.sign = k.key] /\ UNCHANGED files
    /\ UNCHANGED <<conf, minted, now, starts, killed>>
WriteKey ==
    /\ cpc = "write_key"
    /\ minted' = minted + 1 /\ mem' = [mem EXCEPT !.sign = minted + 1]
    /\ files' = [files EXCEPT !.sign = KeyFile(minted + 1)] /\ cpc' = "bootstrap"
    /\ UNCHANGED <<conf, now, starts, killed>>

(* Missing, unreadable, or ending within the window.                        *)
cert_needs_renewal(f) == \A c \in f : c = Torn \/ c.until - now < RenewBefore

-----------------------------------------------------------------------------
(* run_bootstrap.                                                          *)

(* The account key, which is also the key of the CSR and so of the TLS       *)
(* certificate, is kept in a file of its own.                              *)
AccountKey ==
    /\ cpc = "bootstrap"
    /\ \/ (~conf.boot \/ ~cert_needs_renewal(files.cert)) /\ cpc' = "id" /\ UNCHANGED <<files, mem>>
       \/ /\ conf.boot /\ cert_needs_renewal(files.cert)
          /\ \/ files.acct = {} /\ cpc' = "write_acct" /\ files' = [files EXCEPT !.acct = {Torn}] /\ UNCHANGED mem
             \/ files.acct = {Torn} /\ cpc' = "stuck" /\ UNCHANGED <<files, mem>>
             \/ \E k \in files.acct \ {Torn} : cpc' = "order" /\ mem' = [mem EXCEPT !.acct = k.key] /\ UNCHANGED files
    /\ UNCHANGED <<conf, minted, now, starts, killed>>
WriteAccountKey ==
    /\ cpc = "write_acct"
    /\ minted' = minted + 1 /\ mem' = [mem EXCEPT !.acct = minted + 1]
    /\ files' = [files EXCEPT !.acct = KeyFile(minted + 1)] /\ cpc' = "order"
    /\ UNCHANGED <<conf, now, starts, killed>>

(* Whether the challenges can be met: an authorization may be valid already; *)
(* the tokens of http-01 are only served once the router listens, which is   *)
(* later; the two dns types need a hook that succeeds.                      *)
solvable(valid, hookOk) ==
    \/ valid
    \/ conf.type = "tls-alpn-01"
    \/ conf.type \in {"dns-01", "dns-persist-01"} /\ conf.hook /\ hookOk

(* Account, order, challenges, finalization and download; the server may     *)
(* refuse any of them.                                                     *)
run_bootstrap ==
    /\ cpc = "order"
    /\ \E served \in BOOLEAN, valid \in BOOLEAN, hookOk \in BOOLEAN :
         cpc' = IF served /\ solvable(valid, hookOk) THEN "open_cert" ELSE "acme_failed"
    /\ UNCHANGED <<conf, mem, files, minted, now, starts, killed>>

(* The certificate is written first, then its key.                          *)
OpenCert ==
    /\ cpc = "open_cert" /\ cpc' = "write_cert" /\ files' = [files EXCEPT !.cert = {Torn}]
    /\ UNCHANGED <<conf, mem, minted, now, starts, killed>>
WriteCert ==
    /\ cpc = "write_cert" /\ cpc' = "open_tls_key"
    /\ files' = [files EXCEPT !.cert = {[key |-> mem.acct, until |-> now + Lifetime]}]
    /\ UNCHANGED <<conf, mem, minted, now, starts, killed>>
OpenTlsKey ==
    /\ cpc = "open_tls_key" /\ cpc' = "write_tls_key" /\ files' = [files EXCEPT !.key = {Torn}]
    /\ UNCHANGED <<conf, mem, minted, now, starts, killed>>
WriteTlsKey ==
    /\ cpc = "write_tls_key" /\ cpc' = "id" /\ files' = [files EXCEPT !.key = KeyFile(mem.acct)]
    /\ UNCHANGED <<conf, mem, minted, now, starts, killed>>

-----------------------------------------------------------------------------
(* The configured identity certificate, else the bootstrap's certificate,    *)
(* else the configured path again, to be created.                          *)
effective_cosigner_id_cert == IF files.id = {} /\ conf.boot /\ files.cert # {} THEN "cert" ELSE "id"

generate_self_signed_cert ==
    /\ cpc = "id"
    /\ IF cert_needs_renewal(files[effective_cosigner_id_cert])
       THEN cpc' = "write_id" /\ files' = [files EXCEPT ![effective_cosigner_id_cert] = {Torn}]
       ELSE cpc' = "tls" /\ UNCHANGED files
    /\ UNCHANGED <<conf, mem, minted, now, starts, killed>>
(* The path was chosen before the file was opened.                          *)
WriteId ==
    /\ cpc = "write_id" /\ cpc' = "tls"
    /\ LET p == IF files.id = {} THEN "cert" ELSE "id"
       IN  files' = [files EXCEPT ![p] = {[key |-> mem.sign, until |-> now + LongLife]}]
    /\ UNCHANGED <<conf, mem, minted, now, starts, killed>>

(* Certificate and key are loaded once, and served until the process ends.   *)
start_tls_server ==
    /\ cpc = "tls"
    /\ IF effective_tls(conf) # "bootstrap" THEN cpc' = "serving" /\ UNCHANGED mem
       ELSE IF files.key \subseteq {Torn} \/ files.cert \subseteq {Torn} THEN cpc' = "stuck" /\ UNCHANGED mem
       ELSE /\ cpc' = "serving"
            /\ \E c \in files.cert, k \in files.key : mem' = [mem EXCEPT !.tlsCert = c.key, !.tlsKey = k.key]
    /\ UNCHANGED <<conf, files, minted, now, starts, killed>>

(* SIGTERM, an error's exit, or a kill.                                     *)
Exit ==
    /\ cpc \in {"serving", "stuck", "acme_failed"} /\ cpc' = "down" /\ mem' = NoMem
    /\ UNCHANGED <<conf, files, minted, now, starts, killed>>
Killed ==
    /\ killed < MaxKilled /\ cpc \notin {"down", "refused", "stuck", "acme_failed"}
    /\ killed' = killed + 1 /\ cpc' = "down" /\ mem' = NoMem
    /\ UNCHANGED <<conf, files, minted, now, starts>>
(* A start is short against the renewal window.                             *)
TimePasses ==
    /\ cpc \in {"down", "serving"} /\ now < MaxNow /\ now' = now + 1
    /\ UNCHANGED <<conf, cpc, mem, files, minted, starts, killed>>

CosignerNext ==
    \/ from_file \/ load_or_generate \/ WriteKey \/ AccountKey \/ WriteAccountKey \/ run_bootstrap
    \/ OpenCert \/ WriteCert \/ OpenTlsKey \/ WriteTlsKey \/ generate_self_signed_cert \/ WriteId
    \/ start_tls_server \/ Exit \/ Killed \/ TimePasses

CosignerSpec == CosignerInit /\ [][CosignerNext]_cosVars

-----------------------------------------------------------------------------
(* The TLS certificate the cosigner serves is always the one of the key it   *)
(* serves, although they are two files written one after the other, are      *)
(* renewed, and the process may be killed in between (acme.rs run_bootstrap: *)
(* all certificates are of the one stored account key).                     *)
TlsPairMatches == cpc = "serving" /\ mem.tlsKey # 0 => mem.tlsCert = mem.tlsKey

(* Without an ACME bootstrap the identity certificate, which a CA configures *)
(* to verify cosignatures, names the key that signs them, over restarts and  *)
(* renewals (main.rs, key.rs load_or_generate).                             *)
IdNamesSigningKey ==
    cpc = "serving" /\ ~conf.boot => \A c \in files.id : c = Torn \/ c.key = mem.sign

(* A start never fails on what an earlier one left behind unless a kill tore *)
(* a write: a torn private key, or a certificate without its key.            *)
RestartsUnlessTorn ==
    cpc = "stuck" => killed > 0 /\ ({Torn} \in {files.sign, files.acct, files.key} \/ files.key = {})

(* Keys and certificates stay together through renewals, kills and starts.   *)
CosignerKeysFit == TlsPairMatches /\ IdNamesSigningKey /\ RestartsUnlessTorn
=============================================================================
