------------------------------ MODULE Envelope ------------------------------
(***************************************************************************)
(* How a gossip exchange is protected (src/src/gossip: crypto.rs,          *)
(* envelope.rs, handlers.rs and the loop's half in gossip_loop.rs): a push *)
(* is sealed to the keys an operator registered for the peer, signed,      *)
(* stamped with the sender's clock and a nonce; its answer likewise, but   *)
(* nobody looks at the answer's nonce.  Module Gossip has what the         *)
(* exchange carries; here a replica is only its cluster_nodes.             *)
(*                                                                         *)
(* A round is followed with one peer: its exchanges share nothing that     *)
(* these properties are about but the moment the round began.              *)
(***************************************************************************)
EXTENDS Integers, FiniteSets

CONSTANTS
    Members,        \* hosts of the cluster, known by their gossip URL
    Offset,         \* how far each host's clock is ahead
    OldPeers,       \* hosts of a version that sends no nonce
    EnvelopeMaxAge, \* gossip_envelope_max_age_secs
    ClockSkew,      \* clock_skew_tolerance_secs
    NonceCacheMax,  \* GOSSIP_NONCE_CACHE_MAX
    MaxSecond, MaxPushes, MaxInstalls, MaxFaults,      \* bounds
    FanOut, MaxGeneration   \* of the rotation at the end

ASSUME EnvelopeAssumption ==
    /\ Offset \in [Members -> Int] /\ OldPeers \subseteq Members
    /\ EnvelopeMaxAge \in Nat /\ ClockSkew \in Nat /\ NonceCacheMax \in Nat
    /\ FanOut \in Nat /\ MaxGeneration \in Nat
    /\ MaxSecond \in Nat /\ MaxPushes \in Nat /\ MaxInstalls \in Nat \ {0} /\ MaxFaults \in Nat

VARIABLES
    second,         \* true time
    installed,      \* host -> which installation it is; each has keys of its own
    pins, saved,    \* host -> identities in cluster_nodes: in memory, in the CRDT database
    nonce_cache,    \* host -> gossip_nonce_cache: nonce -> when it came in
    pushes,         \* every push ever sent; it may arrive late, again, or never
    round,          \* host -> its exchange
    faults,         \* restarts, reinstallations and failed writes
    enrolled,       \* history: identities an operator registered somewhere
    heeded,         \* history: identities whose pushes or answers somebody merged
    taken,          \* history: host -> the pushes with a nonce it merged in this run of its process
    again,          \* history: host -> pushes it merged a second time in one run
    refusals        \* history: answers that were refused
VARIABLES
    generation,     \* CRDT_GENERATION of one node
    peer_last_gen,  \* peer -> the generation it was given
    waited          \* history: peer -> rounds it was left out since, while it lacked something
rotVars == <<generation, peer_last_gen, waited>>
histories == <<enrolled, heeded, taken, again, refusals>>
envVars == <<second, installed, pins, saved, nonce_cache, pushes, round, faults, histories>>

NoOffset == [h \in Members |-> 0]
Identities == Members \X (1..MaxInstalls)
Identity(h) == <<h, installed[h]>>
UnixNow(h) == second + Offset[h]
-----------------------------------------------------------------------------
(* crypto.rs, with ideal primitives: what was made with one key fits no    *)
(* other.  A result is {} for an error.                                    *)
encapsulate(key) == [ct |-> <<"kem", key>>, secret |-> <<"secret", key>>]
(* ML-KEM does not fail on a ciphertext for somebody else: the secret is   *)
(* merely another one.                                                     *)
decapsulate(key, ct) == IF ct = <<"kem", key>> THEN <<"secret", key>> ELSE <<"rejected", key>>
hkdf_sha256_kek(secret, ct) == <<secret, ct>>
aes_key_wrap(kek, cek) == [under |-> kek, cek |-> cek]
aes_key_unwrap(kek, wrapped) == IF wrapped.under = kek THEN {wrapped.cek} ELSE {}
(* KEMRecipientInfo, in an OtherRecipientInfo.                             *)
build_kem_ori(key, cek) ==
    LET kem == encapsulate(key)
    IN  [kemct |-> kem.ct, encrypted_key |-> aes_key_wrap(hkdf_sha256_kek(kem.secret, kem.ct), cek)]
seal_raw(plain, keys, cek) == [infos |-> {build_kem_ori(k, cek) : k \in keys}, under |-> cek, content |-> plain]
(* The first recipient info whose key unwraps decides.                     *)
open_raw(enveloped, key) ==
    LET ceks == UNION {aes_key_unwrap(hkdf_sha256_kek(decapsulate(key, i.kemct), i.kemct), i.encrypted_key) : i \in enveloped.infos}
    IN  IF enveloped.under \in ceks THEN {enveloped.content} ELSE {}
sign_and_seal(plain, keys, signer) ==
    [cert |-> signer, signer |-> signer, body |-> seal_raw(plain, keys, <<"cek", plain>>)]
verify_and_open(signed, key, sender) ==
    IF signed.cert # sender \/ signed.signer # signed.cert THEN {} ELSE open_raw(signed.body, key)

(* GossipEnvelope: the replica, issued_at and the nonce (0: none); a nonce *)
(* is 16 bytes long, as gossip_sync wants it.                              *)
Envelope(h, nonce) == [pins |-> pins[h], issued_at |-> UnixNow(h), nonce |-> nonce]
random_nonce(h) == IF h \in OldPeers THEN 0 ELSE Cardinality(pushes) + 1

-----------------------------------------------------------------------------
(* run: the round reads the clock, then persists and collects; only later  *)
(* are envelopes built.                                                    *)
Idle == [step |-> "idle"]
RoundBegin(h) ==
    /\ round[h] = Idle
    /\ round' = [round EXCEPT ![h] = [step |-> "begun", now |-> UnixNow(h), at |-> second]]
    /\ UNCHANGED <<second, installed, pins, saved, nonce_cache, pushes, faults, histories>>
(* Any entry with the peer's URL may be found first.                       *)
urls_match(url, id) == id[1] = url
PinnedAt(h, url) == {id \in pins[h] : id # Identity(h) /\ urls_match(url, id)}
Push(h, url, peer) ==
    LET plain == Envelope(h, random_nonce(h))
        push == [to |-> url, from |-> Identity(h), for |-> peer, plain |-> plain, number |-> Cardinality(pushes) + 1]
    IN  /\ round[h].step = "begun" /\ Cardinality(pushes) < MaxPushes
        /\ peer \in PinnedAt(h, url)
        /\ pushes' = pushes \union {push}
        /\ round' = [round EXCEPT ![h] = [step |-> "waiting", now |-> @.now, at |-> @.at, peer |-> peer, push |-> push]]
        /\ UNCHANGED <<second, installed, pins, saved, nonce_cache, faults, histories>>
(* No peer is enrolled, the request failed, or there was no answer in time.*)
GiveUp(h) ==
    /\ round[h].step \in {"begun", "waiting"}
    /\ round' = [round EXCEPT ![h] = Idle]
    /\ UNCHANGED <<second, installed, pins, saved, nonce_cache, pushes, faults, histories>>

(* gossip_sync, in the order of its early returns.                         *)
Body(p) == sign_and_seal(p.plain, {p.for}, p.from)
Opens(p) == p.from \in pins[p.to] /\ verify_and_open(Body(p), Identity(p.to), p.from) # {}
(* Mutant: entries leave the cache a second early.                         *)
MutEvicted(h) == {n \in DOMAIN nonce_cache[h] : nonce_cache[h][n] > UnixNow(h) - EnvelopeMaxAge}
Evicted(h) == {n \in DOMAIN nonce_cache[h] : nonce_cache[h][n] >= UnixNow(h) - EnvelopeMaxAge}
gossip_sync(p) ==
    LET h == p.to
    IN  IF ~Opens(p) THEN "unauthorized"
        ELSE IF p.plain.issued_at > UnixNow(h) + ClockSkew THEN "future"
        ELSE IF p.plain.issued_at < UnixNow(h) - EnvelopeMaxAge THEN "stale"
        ELSE IF p.plain.nonce = 0 THEN "ok"
        ELSE IF Cardinality(Evicted(h)) >= NonceCacheMax THEN "full"
        ELSE IF p.plain.nonce \in Evicted(h) THEN "duplicate"
        ELSE "ok"
(* Only a push with a nonce touches the cache, and a duplicate renews its  *)
(* entry.                                                                  *)
CacheAfter(p, verdict) ==
    LET h == p.to
        kept == Evicted(h)
        dom == IF verdict = "full" THEN kept ELSE kept \union {p.plain.nonce}
    IN  IF p.plain.nonce = 0 \/ verdict \in {"unauthorized", "future", "stale"} THEN nonce_cache[h]
        ELSE [n \in dom |-> IF verdict # "full" /\ n = p.plain.nonce THEN UnixNow(h) ELSE nonce_cache[h][n]]
Before(p) == {x \in taken[p.to] : x.push = p}
(* The answer, sealed to the key pinned before the merge; the caller may   *)
(* be gone, or not hear it.                                                *)
Response(p) == [body |-> sign_and_seal([pins |-> pins[p.to] \union p.plain.pins, issued_at |-> UnixNow(p.to), nonce |-> 0], {p.from}, Identity(p.to)),
              at |-> second]
Waits(p) == round[p.from[1]].step = "waiting" /\ round[p.from[1]].push = p
Receive(p, heard) ==
    LET verdict == gossip_sync(p)
        h == p.to
        c == p.from[1]
    IN  /\ heard => Waits(p)
        /\ nonce_cache' = [nonce_cache EXCEPT ![h] = CacheAfter(p, verdict)]
        /\ pins' = IF verdict = "ok" THEN [pins EXCEPT ![h] = @ \union p.plain.pins] ELSE pins
        /\ heeded' = IF verdict = "ok" THEN heeded \union {p.from} ELSE heeded
        /\ taken' = IF verdict = "ok" /\ p.plain.nonce # 0 THEN [taken EXCEPT ![h] = @ \union {[push |-> p, at |-> UnixNow(h)]}] ELSE taken
        /\ again' = IF verdict = "ok" THEN [again EXCEPT ![h] = @ \union Before(p)] ELSE again
        /\ round' = IF ~heard THEN round
                    ELSE IF verdict = "ok" THEN [round EXCEPT ![c] = [step |-> "answered", now |-> @.now, at |-> @.at, peer |-> @.peer, answer |-> Response(p)]]
                    ELSE [round EXCEPT ![c] = Idle]
        /\ UNCHANGED <<second, installed, saved, pushes, faults, enrolled, refusals>>

(* The loop checks the answer with the key it found when it built the      *)
(* push, against the moment the round began.                               *)
Verdict(h) ==
    LET r == round[h]
        opened == verify_and_open(r.answer.body, Identity(h), r.peer)
    IN  IF opened = {} THEN "unopened"
        ELSE IF \A e \in opened : e.issued_at > r.now + ClockSkew THEN "future"
        ELSE IF \A e \in opened : e.issued_at < r.now - EnvelopeMaxAge THEN "stale"
        ELSE "ok"
RoundEnd(h) ==
    /\ round[h].step = "answered"
    /\ heeded' = IF Verdict(h) = "ok" THEN heeded \union {round[h].answer.body.signer} ELSE heeded
    /\ pins' = IF Verdict(h) = "ok" THEN [pins EXCEPT ![h] = @ \union round[h].answer.body.body.content.pins] ELSE pins
    /\ refusals' = IF Verdict(h) = "ok" THEN refusals
                   ELSE refusals \union {[why |-> Verdict(h), took |-> round[h].answer.at - round[h].at, ahead |-> Offset[round[h].peer[1]] - Offset[h]]}
    /\ round' = [round EXCEPT ![h] = Idle]
    /\ UNCHANGED <<second, installed, saved, nonce_cache, pushes, faults, enrolled, taken, again>>

-----------------------------------------------------------------------------
(* An operator gives a node the keys of another; the whole replica is      *)
(* persisted at once, or the operator sees an error but memory keeps it.   *)
gossip_register(h, id) ==
    /\ id # Identity(h)
    /\ pins' = [pins EXCEPT ![h] = @ \union {id}]
    /\ \/ saved' = [saved EXCEPT ![h] = pins'[h]] /\ UNCHANGED faults
       \/ faults < MaxFaults /\ faults' = faults + 1 /\ UNCHANGED saved
    /\ enrolled' = enrolled \union {id}
    /\ UNCHANGED <<second, installed, nonce_cache, pushes, round, heeded, taken, again, refusals>>
persist_crdt_cluster(h) ==
    /\ saved' = [saved EXCEPT ![h] = pins[h]]
    /\ UNCHANGED <<second, installed, pins, nonce_cache, pushes, round, faults, histories>>
Fresh(h, kept) ==
    /\ pins' = [pins EXCEPT ![h] = kept]
    /\ nonce_cache' = [nonce_cache EXCEPT ![h] = <<>>]
    /\ round' = [round EXCEPT ![h] = Idle]
    /\ taken' = [taken EXCEPT ![h] = {}] /\ again' = [again EXCEPT ![h] = {}]
(* The process starts again: nonces and rounds were in memory.             *)
RestartNode(h) ==
    /\ faults < MaxFaults /\ faults' = faults + 1
    /\ Fresh(h, saved[h])
    /\ UNCHANGED <<second, installed, saved, pushes, enrolled, heeded, refusals>>
(* The host is set up anew, with new keys under its old URL.               *)
Reinstall(h) ==
    /\ faults < MaxFaults /\ faults' = faults + 1
    /\ installed[h] < MaxInstalls /\ installed' = [installed EXCEPT ![h] = @ + 1]
    /\ saved' = [saved EXCEPT ![h] = {}]
    /\ Fresh(h, {})
    /\ UNCHANGED <<second, pushes, enrolled, heeded, refusals>>
Tick ==
    /\ second < MaxSecond /\ second' = second + 1
    /\ UNCHANGED <<installed, pins, saved, nonce_cache, pushes, round, faults, histories>>

EnvelopeInit ==
    /\ second = 0 /\ installed = [h \in Members |-> 1] /\ pushes = {} /\ faults = 0
    /\ pins = [h \in Members |-> {}] /\ saved = [h \in Members |-> {}]
    /\ nonce_cache = [h \in Members |-> <<>>] /\ round = [h \in Members |-> Idle]
    /\ enrolled = {} /\ heeded = {} /\ refusals = {}
    /\ taken = [h \in Members |-> {}] /\ again = [h \in Members |-> {}]
EnvelopeNext ==
    \/ \E h \in Members : RoundBegin(h) \/ GiveUp(h) \/ RoundEnd(h) \/ persist_crdt_cluster(h) \/ RestartNode(h) \/ Reinstall(h)
    \/ \E h \in Members, url \in Members, peer \in Identities : Push(h, url, peer)
    \/ \E p \in pushes, heard \in BOOLEAN : Receive(p, heard)
    \/ \E h \in Members, g \in Members : gossip_register(h, Identity(g))
    \/ Tick
EnvelopeSpec == EnvelopeInit /\ [][EnvelopeNext]_envVars
-----------------------------------------------------------------------------
(* However often and however late a push with a nonce arrives, one run of  *)
(* a process merges it once, unless its sender's clock was ahead of the    *)
(* receiver's: then it stays fresh longer than the cache remembers it      *)
(* (gossip_sync: retain, insert, the issued_at window).                    *)
MergedOnce == \A h \in Members : \A x \in again[h] : x.push.plain.issued_at > x.at

(* Trust comes from operators only: whom a node knows, now or after a      *)
(* restart, and whose pushes and answers were merged, somebody registered  *)
(* somewhere, however the entry travelled (gossip_register,                *)
(* verify_and_open, merge).                                                *)
TrustRooted == heeded \subseteq enrolled /\ \A h \in Members : pins[h] \union saved[h] \subseteq enrolled

(* An answer that arrives can be opened and is the peer's, whatever was    *)
(* restarted or set up anew since the push was built; it is refused only   *)
(* for its time: it was made more than the tolerated skew after the round  *)
(* began, or by a clock that is off (run, phase D).                        *)
AnswersExplained ==
    \A x \in refusals :
        \/ x.why = "future" /\ x.took + x.ahead > ClockSkew
        \/ x.why = "stale" /\ x.took >= 0 /\ x.ahead < -EnvelopeMaxAge

(* What a compromised peer could fill stays bounded (GOSSIP_NONCE_CACHE_MAX).*)
CacheBounded == \A h \in Members : Cardinality(DOMAIN nonce_cache[h]) <= NonceCacheMax

(* The protection of an exchange (gossip_sync, run).                        *)
EnvelopesSound == MergedOnce /\ TrustRooted /\ AnswersExplained /\ CacheBounded
-----------------------------------------------------------------------------
(* Which peers a round contacts, out of as many as Members has: a window   *)
(* of FanOut that starts where the generation says.                        *)
AllPeers == 0 .. Cardinality(Members) - 1
gossip_peers ==
    IF FanOut = 0 \/ Cardinality(Members) <= FanOut THEN AllPeers
    ELSE {(generation + i) % Cardinality(Members) : i \in 0 .. FanOut - 1}
LocalWrite ==
    /\ generation < MaxGeneration /\ generation' = generation + 1
    /\ UNCHANGED <<peer_last_gen, waited>>
Round ==
    LET contacted == {p \in gossip_peers : peer_last_gen[p] # generation}
    IN  /\ generation' \in IF contacted = {} \/ generation = MaxGeneration THEN {generation} ELSE {generation, generation + 1}
        /\ peer_last_gen' = [p \in AllPeers |-> IF p \in contacted THEN generation' ELSE peer_last_gen[p]]
        /\ waited' = [p \in AllPeers |-> IF p \in gossip_peers \/ peer_last_gen[p] = generation THEN 0 ELSE waited[p] + 1]
RotationInit == generation = 1 /\ peer_last_gen = [p \in AllPeers |-> 0] /\ waited = [p \in AllPeers |-> 0]
RotationSpec == EnvelopeInit /\ RotationInit /\ [][(LocalWrite \/ Round) /\ UNCHANGED envVars]_<<envVars, rotVars>>

(* "A rotating window (indexed by current_gen) cycles through all peers so *)
(* each is reached within ceil(N / fan_out) rounds" (run, gossip_loop.rs). *)
ReachedInTime == \A p \in AllPeers : waited[p] < (Cardinality(Members) + FanOut - 1) \div FanOut
=============================================================================
