----------------------------- MODULE NodeProofs -----------------------------
(***************************************************************************)
(* Proofs about a node at its edges: the protection of gossip (Envelope),  *)
(* the requests of clients (AcmeTransport), what a start leaves behind     *)
(* (Startup), the profiles a finalization applies (Profiles), the          *)
(* certificates it signs (LeafIssuance), the resources clients are shown   *)
(* (OrderApi) and the proofs of control (Validators).                      *)
(***************************************************************************)
EXTENDS Envelope, AcmeTransport, Startup, Profiles, LeafIssuance, OrderApi, Validators, FiniteSetTheorems, SequenceTheorems,
        WellFoundedInduction, NaturalsInduction, TLAPS

-----------------------------------------------------------------------------
(* Gossip envelopes.                                                       *)
Plains == [pins : SUBSET Identities, issued_at : Int, nonce : Nat]
PushRecords == [to : Members, from : Identities, for : Identities, plain : Plains, number : Nat]

EnvelopeTypeOK ==
    /\ second \in Nat /\ installed \in [Members -> 1..MaxInstalls] /\ faults \in Nat
    /\ pins \in [Members -> SUBSET Identities] /\ saved \in [Members -> SUBSET Identities]
    /\ pushes \in SUBSET PushRecords /\ IsFiniteSet(pushes)
    /\ DOMAIN nonce_cache = Members /\ DOMAIN round = Members
    /\ DOMAIN taken = Members /\ DOMAIN again = Members

(* What is trusted, in memory, on disk or under way, was enrolled.         *)
Trusted ==
    /\ heeded \subseteq enrolled
    /\ \A h \in Members : pins[h] \subseteq enrolled /\ saved[h] \subseteq enrolled
    /\ \A p \in pushes : p.plain.pins \subseteq enrolled /\ p.for \in enrolled /\ p.for[1] = p.to

(* Where an exchange stands: the keys and the times it has to do with.     *)
BegunRound(h, at) == at <= second /\ round[h] = [step |-> "begun", now |-> at + Offset[h], at |-> at]
WaitingRound(h, at, p) ==
    /\ at <= second
    /\ round[h] = [step |-> "waiting", now |-> at + Offset[h], at |-> at, peer |-> p.for, push |-> p]
    /\ p.from = Identity(h)
AnsweredRound(h, at, peer, c, made) ==
    /\ at <= made /\ made <= second
    /\ round[h] = [step |-> "answered", now |-> at + Offset[h], at |-> at, peer |-> peer,
                   answer |-> [body |-> sign_and_seal(c, {Identity(h)}, peer), at |-> made]]
    /\ c.issued_at = made + Offset[peer[1]]
    /\ c.pins \subseteq enrolled /\ peer \in enrolled
RoundOK(h) ==
    \/ round[h] = Idle
    \/ \E at \in Nat : BegunRound(h, at)
    \/ \E at \in Nat, p \in pushes : WaitingRound(h, at, p)
    \/ \E at \in Nat, peer \in Identities, c \in Plains, made \in Nat : AnsweredRound(h, at, peer, c, made)
RoundsOK == \A h \in Members : RoundOK(h)

(* A merged push is remembered until it is too old to be taken again,      *)
(* counted from when it came in.                                           *)
Remembered(h, x) ==
    \/ x.push.plain.nonce \in DOMAIN nonce_cache[h] /\ nonce_cache[h][x.push.plain.nonce] >= x.at
    \/ UnixNow(h) > x.at + EnvelopeMaxAge
Taken == [push : PushRecords, at : Int]
TakenOK ==
    \A h \in Members :
        /\ taken[h] \subseteq Taken /\ again[h] \subseteq Taken
        /\ \A x \in taken[h] : x.push.plain.nonce # 0 /\ x.at <= UnixNow(h) /\ Remembered(h, x)
CachesOK ==
    \A h \in Members :
        /\ IsFiniteSet(DOMAIN nonce_cache[h]) /\ Cardinality(DOMAIN nonce_cache[h]) <= NonceCacheMax
        /\ \A n \in DOMAIN nonce_cache[h] : nonce_cache[h][n] \in Int

EnvelopeInv == EnvelopeTypeOK /\ Trusted /\ RoundsOK /\ TakenOK /\ CachesOK /\ MergedOnce /\ AnswersExplained

-----------------------------------------------------------------------------
(* What was sealed to a key opens with that key and no other, and only as  *)
(* its signer's.                                                           *)
LEMMA OpensForItsKey ==
    ASSUME NEW plain, NEW key, NEW signer
    PROVE  verify_and_open(sign_and_seal(plain, {key}, signer), key, signer) = {plain}
<1> DEFINE cek == <<"cek", plain>>
           kemct == <<"kem", key>>
           kek == <<<<"secret", key>>, kemct>>
           ori == [kemct |-> kemct, encrypted_key |-> [under |-> kek, cek |-> cek]]
           sealed == [infos |-> {ori}, under |-> cek, content |-> plain]
<1>1. build_kem_ori(key, cek) = ori
  BY DEF build_kem_ori, encapsulate, aes_key_wrap, hkdf_sha256_kek
<1>2. seal_raw(plain, {key}, cek) = sealed
  BY <1>1 DEF seal_raw
<1>3. aes_key_unwrap(hkdf_sha256_kek(decapsulate(key, ori.kemct), ori.kemct), ori.encrypted_key) = {cek}
  BY DEF aes_key_unwrap, hkdf_sha256_kek, decapsulate
<1>4. cek \in UNION {aes_key_unwrap(hkdf_sha256_kek(decapsulate(key, i.kemct), i.kemct), i.encrypted_key) : i \in {ori}}
  <2> HIDE DEF ori, cek
  <2> QED BY <1>3
<1>5. open_raw(sealed, key) = {plain}
  BY <1>4 DEF open_raw
<1> QED BY <1>2, <1>5 DEF verify_and_open, sign_and_seal

LEMMA OpensForNoOther ==
    ASSUME NEW plain, NEW key, NEW other, NEW signer, NEW sender, other # key
    PROVE  verify_and_open(sign_and_seal(plain, {key}, signer), other, sender) = {}
<1> DEFINE cek == <<"cek", plain>>
           kemct == <<"kem", key>>
           kek == <<<<"secret", key>>, kemct>>
           ori == [kemct |-> kemct, encrypted_key |-> [under |-> kek, cek |-> cek]]
           sealed == [infos |-> {ori}, under |-> cek, content |-> plain]
<1>1. build_kem_ori(key, cek) = ori
  BY DEF build_kem_ori, encapsulate, aes_key_wrap, hkdf_sha256_kek
<1>2. seal_raw(plain, {key}, cek) = sealed
  BY <1>1 DEF seal_raw
<1>3. aes_key_unwrap(hkdf_sha256_kek(decapsulate(other, ori.kemct), ori.kemct), ori.encrypted_key) = {}
  BY DEF aes_key_unwrap, hkdf_sha256_kek, decapsulate
<1>4. cek \notin UNION {aes_key_unwrap(hkdf_sha256_kek(decapsulate(other, i.kemct), i.kemct), i.encrypted_key) : i \in {ori}}
  <2> HIDE DEF ori, cek
  <2> QED BY <1>3
<1>5. open_raw(sealed, other) = {}
  BY <1>4 DEF open_raw
<1> QED BY <1>2, <1>5 DEF verify_and_open, sign_and_seal

-----------------------------------------------------------------------------
LEMMA EnvelopeStart == ASSUME EnvelopeInit PROVE EnvelopeInv
<1> USE EnvelopeAssumption DEF EnvelopeInit
<1>1. EnvelopeTypeOK BY FS_EmptySet DEF EnvelopeTypeOK
<1>2. Trusted BY DEF Trusted
<1>3. RoundsOK BY DEF RoundsOK, RoundOK
<1>4. TakenOK BY DEF TakenOK
<1>5. CachesOK
  <2>1. \A h \in Members : DOMAIN nonce_cache[h] = {} OBVIOUS
  <2> QED BY <2>1, FS_EmptySet DEF CachesOK
<1>6. MergedOnce /\ AnswersExplained BY DEF MergedOnce, AnswersExplained
<1> QED BY <1>1, <1>2, <1>3, <1>4, <1>5, <1>6 DEF EnvelopeInv

(* A round depends on nothing but itself, its host's installation and what *)
(* only grows.                                                             *)
LEMMA RoundStays ==
    ASSUME EnvelopeTypeOK, NEW h \in Members, RoundOK(h), round'[h] = round[h], installed'[h] = installed[h],
           second' \in Nat, second <= second', pushes \subseteq pushes', enrolled \subseteq enrolled'
    PROVE  RoundOK(h)'
<1>1. Identity(h)' = Identity(h) BY DEF Identity
<1>2. CASE round[h] = Idle BY <1>2 DEF RoundOK, Idle
<1>3. ASSUME NEW at \in Nat, BegunRound(h, at) PROVE RoundOK(h)'
  <2>1. BegunRound(h, at)' BY <1>3 DEF BegunRound, EnvelopeTypeOK
  <2> QED BY <2>1 DEF RoundOK
<1>4. ASSUME NEW at \in Nat, NEW p \in pushes, WaitingRound(h, at, p) PROVE RoundOK(h)'
  <2>1. WaitingRound(h, at, p)' BY <1>1, <1>4 DEF WaitingRound, EnvelopeTypeOK
  <2> QED BY <2>1 DEF RoundOK
<1>5. ASSUME NEW at \in Nat, NEW peer \in Identities, NEW c \in Plains, NEW made \in Nat, AnsweredRound(h, at, peer, c, made)
      PROVE  RoundOK(h)'
  <2>1. AnsweredRound(h, at, peer, c, made)' BY <1>1, <1>5 DEF AnsweredRound, EnvelopeTypeOK
  <2>2. Identities' = Identities /\ Plains' = Plains BY DEF Identities, Plains
  <2> QED BY <2>1, <2>2 DEF RoundOK
<1> QED BY <1>2, <1>3, <1>4, <1>5 DEF RoundOK

(* What is remembered stays so while the cache keeps it and time goes on.  *)
LEMMA MemoryStays ==
    ASSUME EnvelopeAssumption, EnvelopeTypeOK, NEW h \in Members, TakenOK, nonce_cache'[h] = nonce_cache[h], CachesOK,
           taken'[h] = taken[h], second' \in Nat, second <= second'
    PROVE  \A x \in taken'[h] : x.push.plain.nonce # 0 /\ x.at <= UnixNow(h)' /\ Remembered(h, x)'
<1> SUFFICES ASSUME NEW x \in taken[h] PROVE x.push.plain.nonce # 0 /\ x.at <= UnixNow(h)' /\ Remembered(h, x)'
  OBVIOUS
<1>1. x \in Taken /\ x.push.plain.nonce # 0 /\ x.at <= UnixNow(h) /\ Remembered(h, x) BY DEF TakenOK
<1>2. x.at \in Int BY <1>1 DEF Taken
<1>3. UnixNow(h) \in Int /\ UnixNow(h)' \in Int /\ UnixNow(h) <= UnixNow(h)' BY EnvelopeAssumption DEF UnixNow, EnvelopeTypeOK
<1> QED BY <1>1, <1>2, <1>3, EnvelopeAssumption DEF Remembered

-----------------------------------------------------------------------------
(* The steps of a round before an answer, and time.                        *)
LEMMA RoundBeginKeeps ==
    ASSUME EnvelopeAssumption, EnvelopeInv, NEW h \in Members, RoundBegin(h)
    PROVE  EnvelopeInv'
<1> USE EnvelopeAssumption
<1>0. EnvelopeTypeOK /\ Trusted /\ RoundsOK /\ TakenOK /\ CachesOK /\ MergedOnce /\ AnswersExplained BY DEF EnvelopeInv
<1>1. UNCHANGED <<second, installed, pins, saved, nonce_cache, pushes, faults, enrolled, heeded, taken, again, refusals>>
  BY DEF RoundBegin, histories
<1>2. EnvelopeTypeOK' BY <1>0, <1>1 DEF EnvelopeTypeOK, RoundBegin
<1>3. Trusted' BY <1>0, <1>1 DEF Trusted
<1>4. RoundsOK'
  <2> SUFFICES ASSUME NEW g \in Members PROVE RoundOK(g)' BY DEF RoundsOK
  <2>1. CASE g = h
    <3>1. BegunRound(h, second)' BY <1>0, <1>1 DEF RoundBegin, BegunRound, EnvelopeTypeOK, UnixNow
    <3>2. second' \in Nat BY <1>0, <1>1 DEF EnvelopeTypeOK
    <3>3. PICK at \in Nat : at = second' BY <3>2
    <3>4. BegunRound(h, at)' BY <3>1, <3>3, <1>1 DEF BegunRound
    <3> QED BY <2>1, <3>4 DEF RoundOK
  <2>2. CASE g # h
    <3>1. round'[g] = round[g] BY <1>0, <2>2 DEF RoundBegin, EnvelopeTypeOK
    <3> QED BY <3>1, <1>0, <1>1, RoundStays DEF RoundsOK, EnvelopeTypeOK
  <2> QED BY <2>1, <2>2
<1>5. TakenOK' BY <1>0, <1>1 DEF TakenOK, Remembered, UnixNow, Taken, PushRecords, Plains, Identities
<1>6. CachesOK' BY <1>0, <1>1 DEF CachesOK
<1>7. MergedOnce' /\ AnswersExplained' BY <1>0, <1>1 DEF MergedOnce, AnswersExplained
<1> QED BY <1>2, <1>3, <1>4, <1>5, <1>6, <1>7 DEF EnvelopeInv

LEMMA GiveUpKeeps ==
    ASSUME EnvelopeAssumption, EnvelopeInv, NEW h \in Members, GiveUp(h)
    PROVE  EnvelopeInv'
<1> USE EnvelopeAssumption
<1>0. EnvelopeTypeOK /\ Trusted /\ RoundsOK /\ TakenOK /\ CachesOK /\ MergedOnce /\ AnswersExplained BY DEF EnvelopeInv
<1>1. UNCHANGED <<second, installed, pins, saved, nonce_cache, pushes, faults, enrolled, heeded, taken, again, refusals>>
  BY DEF GiveUp, histories
<1>2. EnvelopeTypeOK' BY <1>0, <1>1 DEF EnvelopeTypeOK, GiveUp
<1>3. Trusted' BY <1>0, <1>1 DEF Trusted
<1>4. RoundsOK'
  <2> SUFFICES ASSUME NEW g \in Members PROVE RoundOK(g)' BY DEF RoundsOK
  <2>1. CASE g = h BY <2>1, <1>0 DEF GiveUp, RoundOK, EnvelopeTypeOK, Idle
  <2>2. CASE g # h
    <3>1. round'[g] = round[g] BY <1>0, <2>2 DEF GiveUp, EnvelopeTypeOK
    <3> QED BY <3>1, <1>0, <1>1, RoundStays DEF RoundsOK, EnvelopeTypeOK
  <2> QED BY <2>1, <2>2
<1>5. TakenOK' BY <1>0, <1>1 DEF TakenOK, Remembered, UnixNow, Taken, PushRecords, Plains, Identities
<1>6. CachesOK' BY <1>0, <1>1 DEF CachesOK
<1>7. MergedOnce' /\ AnswersExplained' BY <1>0, <1>1 DEF MergedOnce, AnswersExplained
<1> QED BY <1>2, <1>3, <1>4, <1>5, <1>6, <1>7 DEF EnvelopeInv

LEMMA PushKeeps ==
    ASSUME EnvelopeAssumption, EnvelopeInv, NEW h \in Members, NEW url \in Members, NEW peer \in Identities, Push(h, url, peer)
    PROVE  EnvelopeInv'
<1> USE EnvelopeAssumption
<1>0. EnvelopeTypeOK /\ Trusted /\ RoundsOK /\ TakenOK /\ CachesOK /\ MergedOnce /\ AnswersExplained BY DEF EnvelopeInv
<1>1. UNCHANGED <<second, installed, pins, saved, nonce_cache, faults, enrolled, heeded, taken, again, refusals>>
  BY DEF Push, histories
<1> DEFINE plain == Envelope(h, random_nonce(h))
           push == [to |-> url, from |-> Identity(h), for |-> peer, plain |-> plain, number |-> Cardinality(pushes) + 1]
<1>2. pushes' = pushes \union {push} BY DEF Push
<1>3. Cardinality(pushes) \in Nat BY <1>0, FS_CardinalityType DEF EnvelopeTypeOK
<1>4. Identity(h) \in Identities BY <1>0 DEF Identity, Identities, EnvelopeTypeOK
<1>5. plain \in Plains /\ plain.pins = pins[h]
  <2>1. random_nonce(h) \in Nat BY <1>3 DEF random_nonce
  <2>2. UnixNow(h) \in Int BY <1>0 DEF UnixNow, EnvelopeTypeOK
  <2> QED BY <2>1, <2>2, <1>0 DEF Envelope, Plains, EnvelopeTypeOK
<1>6. push \in PushRecords
  <2> HIDE DEF plain
  <2> QED BY <1>3, <1>4, <1>5 DEF PushRecords
<1>7. peer \in pins[h] /\ peer[1] = url /\ peer \in enrolled BY <1>0 DEF Push, PinnedAt, urls_match, Trusted
<1>p. push.plain = plain /\ push.for = peer /\ push.to = url /\ push.from = Identity(h) OBVIOUS
<1> HIDE DEF push, plain
<1>8. EnvelopeTypeOK'
  <2>1. IsFiniteSet(pushes') BY <1>0, <1>2, FS_AddElement DEF EnvelopeTypeOK
  <2>2. DOMAIN round' = Members BY <1>0 DEF Push, EnvelopeTypeOK
  <2>3. PushRecords' = PushRecords /\ Identities' = Identities BY DEF PushRecords, Identities, Plains
  <2> QED BY <1>0, <1>1, <1>2, <1>6, <2>1, <2>2, <2>3 DEF EnvelopeTypeOK
<1>9. Trusted' BY <1>0, <1>1, <1>2, <1>5, <1>7, <1>p DEF Trusted
<1>10. RoundsOK'
  <2> SUFFICES ASSUME NEW g \in Members PROVE RoundOK(g)' BY DEF RoundsOK
  <2>1. CASE g = h
    <3>1. PICK at \in Nat : BegunRound(h, at)
      <4>1. round[h].step = "begun" BY DEF Push
      <4>2. ~ (round[h] = Idle) BY <4>1 DEF Idle
      <4>3. \A a \in Nat, p \in pushes : ~WaitingRound(h, a, p) BY <4>1 DEF WaitingRound
      <4>4. \A a \in Nat, pe \in Identities, c \in Plains, made \in Nat : ~AnsweredRound(h, a, pe, c, made)
        BY <4>1 DEF AnsweredRound
      <4> QED BY <4>2, <4>3, <4>4, <1>0 DEF RoundsOK, RoundOK
    <3>2. round'[h] = [step |-> "waiting", now |-> at + Offset[h], at |-> at, peer |-> peer, push |-> push]
      BY <3>1, <1>0 DEF Push, BegunRound, push, plain, EnvelopeTypeOK
    <3>3. Identity(h)' = Identity(h) BY <1>1 DEF Identity
    <3>4. PICK q \in pushes' : q = push BY <1>2
    <3>5. WaitingRound(h, at, q)' BY <3>1, <3>2, <3>3, <3>4, <1>1, <1>p DEF WaitingRound, BegunRound
    <3> QED BY <2>1, <3>4, <3>5 DEF RoundOK
  <2>2. CASE g # h
    <3>1. round'[g] = round[g] BY <1>0, <2>2 DEF Push, EnvelopeTypeOK
    <3> QED BY <3>1, <1>0, <1>1, <1>2, RoundStays DEF RoundsOK, EnvelopeTypeOK
  <2> QED BY <2>1, <2>2
<1>11. TakenOK' BY <1>0, <1>1 DEF TakenOK, Remembered, UnixNow, Taken, PushRecords, Plains, Identities
<1>12. CachesOK' BY <1>0, <1>1 DEF CachesOK
<1>13. MergedOnce' /\ AnswersExplained' BY <1>0, <1>1 DEF MergedOnce, AnswersExplained
<1> QED BY <1>8, <1>9, <1>10, <1>11, <1>12, <1>13 DEF EnvelopeInv

LEMMA TickKeeps ==
    ASSUME EnvelopeAssumption, EnvelopeInv, Tick
    PROVE  EnvelopeInv'
<1> USE EnvelopeAssumption
<1>0. EnvelopeTypeOK /\ Trusted /\ RoundsOK /\ TakenOK /\ CachesOK /\ MergedOnce /\ AnswersExplained BY DEF EnvelopeInv
<1>1. UNCHANGED <<installed, pins, saved, nonce_cache, pushes, round, faults, enrolled, heeded, taken, again, refusals>>
  BY DEF Tick, histories
<1>t. second' \in Nat /\ second <= second' BY <1>0 DEF Tick, EnvelopeTypeOK
<1>2. EnvelopeTypeOK' BY <1>0, <1>1, <1>t DEF EnvelopeTypeOK, PushRecords, Plains, Identities
<1>3. Trusted' BY <1>0, <1>1 DEF Trusted
<1>4. RoundsOK'
  <2> SUFFICES ASSUME NEW g \in Members PROVE RoundOK(g)' BY DEF RoundsOK
  <2> QED BY <1>0, <1>1, <1>t, RoundStays DEF RoundsOK
<1>5. TakenOK'
  <2> SUFFICES ASSUME NEW g \in Members
               PROVE  /\ taken'[g] \subseteq Taken' /\ again'[g] \subseteq Taken'
                      /\ \A x \in taken'[g] : x.push.plain.nonce # 0 /\ x.at <= UnixNow(g)' /\ Remembered(g, x)'
    BY DEF TakenOK
  <2>1. taken'[g] \subseteq Taken' /\ again'[g] \subseteq Taken' BY <1>0, <1>1 DEF TakenOK, Taken, PushRecords, Plains, Identities
  <2> QED BY <2>1, <1>0, <1>1, <1>t, MemoryStays
<1>6. CachesOK' BY <1>0, <1>1 DEF CachesOK
<1>7. MergedOnce' /\ AnswersExplained' BY <1>0, <1>1 DEF MergedOnce, AnswersExplained
<1> QED BY <1>2, <1>3, <1>4, <1>5, <1>6, <1>7 DEF EnvelopeInv

LEMMA RegisterKeeps ==
    ASSUME EnvelopeAssumption, EnvelopeInv, NEW h \in Members, NEW g \in Members, gossip_register(h, Identity(g))
    PROVE  EnvelopeInv'
<1> USE EnvelopeAssumption
<1>0. EnvelopeTypeOK /\ Trusted /\ RoundsOK /\ TakenOK /\ CachesOK /\ MergedOnce /\ AnswersExplained BY DEF EnvelopeInv
<1>1. UNCHANGED <<second, installed, nonce_cache, pushes, round, heeded, taken, again, refusals>>
  BY DEF gossip_register
<1>i. PICK id \in Identities : id = Identity(g) BY <1>0 DEF Identity, Identities, EnvelopeTypeOK
<1>p. pins' = [pins EXCEPT ![h] = pins[h] \union {id}] /\ enrolled' = enrolled \union {id} BY <1>i DEF gossip_register
<1>s. (saved' = [saved EXCEPT ![h] = pins'[h]] \/ saved' = saved) /\ faults' \in Nat BY <1>0 DEF gossip_register, EnvelopeTypeOK
<1>2. EnvelopeTypeOK'
  <2>1. pins' \in [Members -> SUBSET Identities] BY <1>0, <1>p DEF EnvelopeTypeOK
  <2>2. saved' \in [Members -> SUBSET Identities] BY <1>0, <1>s, <2>1 DEF EnvelopeTypeOK
  <2>3. PushRecords' = PushRecords /\ Identities' = Identities BY DEF PushRecords, Identities, Plains
  <2> QED BY <1>0, <1>1, <1>s, <2>1, <2>2, <2>3 DEF EnvelopeTypeOK
<1>3. Trusted'
  <2>1. \A f \in Members : pins'[f] \subseteq enrolled' BY <1>0, <1>p DEF Trusted, EnvelopeTypeOK
  <2>2. \A f \in Members : saved'[f] \subseteq enrolled' BY <1>0, <1>p, <1>s, <2>1 DEF Trusted, EnvelopeTypeOK
  <2> QED BY <1>0, <1>1, <1>p, <2>1, <2>2 DEF Trusted
<1>4. RoundsOK'
  <2> SUFFICES ASSUME NEW f \in Members PROVE RoundOK(f)' BY DEF RoundsOK
  <2> QED BY <1>0, <1>1, <1>p, RoundStays DEF RoundsOK, EnvelopeTypeOK
<1>5. TakenOK' BY <1>0, <1>1 DEF TakenOK, Remembered, UnixNow, Taken, PushRecords, Plains, Identities
<1>6. CachesOK' BY <1>0, <1>1 DEF CachesOK
<1>7. MergedOnce' /\ AnswersExplained' BY <1>0, <1>1 DEF MergedOnce, AnswersExplained
<1> QED BY <1>2, <1>3, <1>4, <1>5, <1>6, <1>7 DEF EnvelopeInv

LEMMA PersistClusterKeeps ==
    ASSUME EnvelopeAssumption, EnvelopeInv, NEW h \in Members, persist_crdt_cluster(h)
    PROVE  EnvelopeInv'
<1> USE EnvelopeAssumption
<1>0. EnvelopeTypeOK /\ Trusted /\ RoundsOK /\ TakenOK /\ CachesOK /\ MergedOnce /\ AnswersExplained BY DEF EnvelopeInv
<1>1. UNCHANGED <<second, installed, pins, nonce_cache, pushes, round, faults, enrolled, heeded, taken, again, refusals>>
  BY DEF persist_crdt_cluster, histories
<1>s. saved' = [saved EXCEPT ![h] = pins[h]] BY DEF persist_crdt_cluster
<1>2. EnvelopeTypeOK' BY <1>0, <1>1, <1>s DEF EnvelopeTypeOK, PushRecords, Plains, Identities
<1>3. Trusted' BY <1>0, <1>1, <1>s DEF Trusted, EnvelopeTypeOK
<1>4. RoundsOK'
  <2> SUFFICES ASSUME NEW g \in Members PROVE RoundOK(g)' BY DEF RoundsOK
  <2> QED BY <1>0, <1>1, RoundStays DEF RoundsOK, EnvelopeTypeOK
<1>5. TakenOK' BY <1>0, <1>1 DEF TakenOK, Remembered, UnixNow, Taken, PushRecords, Plains, Identities
<1>6. CachesOK' BY <1>0, <1>1 DEF CachesOK
<1>7. MergedOnce' /\ AnswersExplained' BY <1>0, <1>1 DEF MergedOnce, AnswersExplained
<1> QED BY <1>2, <1>3, <1>4, <1>5, <1>6, <1>7 DEF EnvelopeInv

(* A host that starts afresh forgets its nonces, and what it took with     *)
(* them.                                                                   *)
LEMMA FreshKeeps ==
    ASSUME EnvelopeAssumption, EnvelopeInv, NEW h \in Members, NEW kept \in SUBSET Identities, kept \subseteq enrolled,
           Fresh(h, kept), UNCHANGED <<second, pushes, enrolled, heeded, refusals>>, faults' \in Nat,
           installed' \in [Members -> 1..MaxInstalls], \A g \in Members : g # h => installed'[g] = installed[g],
           saved' \in [Members -> SUBSET Identities], \A g \in Members : saved'[g] \subseteq saved[g]
    PROVE  EnvelopeInv'
<1> USE EnvelopeAssumption
<1>0. EnvelopeTypeOK /\ Trusted /\ RoundsOK /\ TakenOK /\ CachesOK /\ MergedOnce /\ AnswersExplained BY DEF EnvelopeInv
<1>1. /\ pins' = [pins EXCEPT ![h] = kept] /\ nonce_cache' = [nonce_cache EXCEPT ![h] = <<>>]
      /\ round' = [round EXCEPT ![h] = Idle]
      /\ taken' = [taken EXCEPT ![h] = {}] /\ again' = [again EXCEPT ![h] = {}]
  BY DEF Fresh
<1>d. /\ nonce_cache'[h] = <<>> /\ round'[h] = Idle /\ taken'[h] = {} /\ again'[h] = {}
      /\ \A g \in Members : g # h => /\ nonce_cache'[g] = nonce_cache[g] /\ round'[g] = round[g]
                                     /\ taken'[g] = taken[g] /\ again'[g] = again[g]
  BY <1>0, <1>1 DEF EnvelopeTypeOK
<1>2. EnvelopeTypeOK'
  <2>1. PushRecords' = PushRecords /\ Identities' = Identities BY DEF PushRecords, Identities, Plains
  <2> QED BY <1>0, <1>1, <2>1 DEF EnvelopeTypeOK
<1>3. Trusted' BY <1>0, <1>1 DEF Trusted, EnvelopeTypeOK
<1>4. RoundsOK'
  <2> SUFFICES ASSUME NEW g \in Members PROVE RoundOK(g)' BY DEF RoundsOK
  <2>1. CASE g = h BY <2>1, <1>d DEF RoundOK, Idle
  <2>2. CASE g # h BY <2>2, <1>0, <1>d, RoundStays DEF RoundsOK, EnvelopeTypeOK
  <2> QED BY <2>1, <2>2
<1>5. TakenOK'
  <2> SUFFICES ASSUME NEW g \in Members
               PROVE  /\ taken'[g] \subseteq Taken' /\ again'[g] \subseteq Taken'
                      /\ \A x \in taken'[g] : x.push.plain.nonce # 0 /\ x.at <= UnixNow(g)' /\ Remembered(g, x)'
    BY DEF TakenOK
  <2>0. Taken' = Taken BY DEF Taken, PushRecords, Plains, Identities
  <2>1. CASE g = h BY <2>1, <1>d
  <2>2. CASE g # h
    <3>1. nonce_cache'[g] = nonce_cache[g] /\ taken'[g] = taken[g] /\ again'[g] = again[g] BY <2>2, <1>d
    <3>2. taken'[g] \subseteq Taken' /\ again'[g] \subseteq Taken' BY <3>1, <2>0, <1>0 DEF TakenOK
    <3>3. second' \in Nat /\ second <= second' BY <1>0 DEF EnvelopeTypeOK
    <3> QED BY <3>1, <3>2, <3>3, <1>0, MemoryStays
  <2> QED BY <2>1, <2>2
<1>6. CachesOK'
  <2>1. DOMAIN nonce_cache'[h] = {} BY <1>d
  <2> QED BY <2>1, <1>0, <1>d, FS_EmptySet DEF CachesOK
<1>7. MergedOnce'
  <2>1. \A g \in Members : again'[g] \subseteq again[g] BY <1>d
  <2> QED BY <1>0, <2>1 DEF MergedOnce
<1>8. AnswersExplained' BY <1>0 DEF AnswersExplained
<1> QED BY <1>2, <1>3, <1>4, <1>5, <1>6, <1>7, <1>8 DEF EnvelopeInv

LEMMA RestartsKeep ==
    ASSUME EnvelopeAssumption, EnvelopeInv, NEW h \in Members, RestartNode(h) \/ Reinstall(h)
    PROVE  EnvelopeInv'
<1> USE EnvelopeAssumption
<1>0. EnvelopeTypeOK /\ Trusted BY DEF EnvelopeInv
<1>1. CASE RestartNode(h)
  <2>1. PICK kept \in SUBSET Identities : kept = saved[h] BY <1>0 DEF EnvelopeTypeOK
  <2>2. Fresh(h, kept) /\ kept \subseteq enrolled BY <1>0, <1>1, <2>1 DEF RestartNode, Trusted
  <2>3. UNCHANGED <<second, installed, saved, pushes, enrolled, heeded, refusals>> /\ faults' \in Nat
    BY <1>0, <1>1 DEF RestartNode, EnvelopeTypeOK
  <2> QED BY <2>2, <2>3, <1>0, FreshKeeps DEF EnvelopeTypeOK
<1>2. CASE Reinstall(h)
  <2>1. PICK kept \in SUBSET Identities : kept = {} OBVIOUS
  <2>2. Fresh(h, kept) /\ kept \subseteq enrolled BY <1>2, <2>1 DEF Reinstall
  <2>3. UNCHANGED <<second, pushes, enrolled, heeded, refusals>> /\ faults' \in Nat
    BY <1>0, <1>2 DEF Reinstall, EnvelopeTypeOK
  <2>4. /\ installed' \in [Members -> 1..MaxInstalls] /\ \A g \in Members : g # h => installed'[g] = installed[g]
        /\ saved' \in [Members -> SUBSET Identities] /\ \A g \in Members : saved'[g] \subseteq saved[g]
    BY <1>0, <1>2 DEF Reinstall, EnvelopeTypeOK
  <2> QED BY <2>2, <2>3, <2>4, FreshKeeps
<1> QED BY <1>1, <1>2

-----------------------------------------------------------------------------
(* Receiving a push.                                                       *)
LEMMA OpenedIsForUs ==
    ASSUME NEW p, Opens(p)
    PROVE  p.from \in pins[p.to] /\ Identity(p.to) = p.for
<1>1. CASE Identity(p.to) # p.for BY <1>1, OpensForNoOther DEF Opens, Body
<1> QED BY <1>1 DEF Opens

(* Whatever gossip_sync decides, the cache keeps its bound and, for what   *)
(* it dropped, time has passed.                                            *)
LEMMA CacheStep ==
    ASSUME EnvelopeAssumption, EnvelopeTypeOK, CachesOK, NEW p \in pushes, NEW after, after = CacheAfter(p, gossip_sync(p))
    PROVE  /\ IsFiniteSet(DOMAIN after) /\ Cardinality(DOMAIN after) <= NonceCacheMax
           /\ \A n \in DOMAIN after : after[n] \in Int
           /\ \A n \in DOMAIN nonce_cache[p.to] :
                 \/ n \in DOMAIN after /\ (after[n] = nonce_cache[p.to][n] \/ after[n] = UnixNow(p.to))
                 \/ nonce_cache[p.to][n] < UnixNow(p.to) - EnvelopeMaxAge
           /\ gossip_sync(p) = "ok" /\ p.plain.nonce # 0 =>
                 /\ p.plain.nonce \in DOMAIN after /\ after[p.plain.nonce] = UnixNow(p.to)
                 /\ p.plain.nonce \in DOMAIN nonce_cache[p.to] => nonce_cache[p.to][p.plain.nonce] < UnixNow(p.to) - EnvelopeMaxAge
<1> USE EnvelopeAssumption
<1> DEFINE h == p.to
           verdict == gossip_sync(p)
           nonce == p.plain.nonce
           kept == Evicted(h)
           cache == nonce_cache[h]
           now == UnixNow(h)
<1>1. p \in PushRecords /\ h \in Members BY DEF EnvelopeTypeOK, PushRecords
<1>2. now \in Int BY <1>1 DEF UnixNow, EnvelopeTypeOK
<1>3. /\ IsFiniteSet(DOMAIN cache) /\ Cardinality(DOMAIN cache) <= NonceCacheMax
      /\ \A n \in DOMAIN cache : cache[n] \in Int
  BY <1>1 DEF CachesOK
<1>4. kept = {n \in DOMAIN cache : cache[n] >= now - EnvelopeMaxAge} BY DEF Evicted
<1>5. IsFiniteSet(kept) /\ Cardinality(kept) \in Nat /\ Cardinality(kept) <= NonceCacheMax /\ Cardinality(DOMAIN cache) \in Nat
  <2>1. kept \subseteq DOMAIN cache BY <1>4
  <2>2. IsFiniteSet(kept) /\ Cardinality(kept) <= Cardinality(DOMAIN cache) BY <2>1, <1>3, FS_Subset
  <2> QED BY <2>2, <1>3, FS_CardinalityType
<1>6. CASE nonce = 0 \/ verdict \in {"unauthorized", "future", "stale"}
  <2>1. after = cache BY <1>6 DEF CacheAfter
  <2>2. ~(verdict = "ok" /\ nonce # 0) BY <1>6
  <2> HIDE DEF verdict, nonce, cache, now
  <2> QED BY <2>1, <2>2, <1>3 DEF verdict, nonce, cache, now, h
<1>7. CASE nonce # 0 /\ verdict = "full"
  <2>1. after = [n \in kept |-> cache[n]] BY <1>7 DEF CacheAfter
  <2>2. DOMAIN after = kept /\ \A n \in kept : after[n] = cache[n] BY <2>1
  <2>3. \A n \in DOMAIN cache : n \in kept \/ cache[n] < now - EnvelopeMaxAge BY <1>2, <1>3, <1>4
  <2>4. \A n \in kept : cache[n] \in Int BY <1>3, <1>4
  <2>5. verdict # "ok" BY <1>7
  <2> HIDE DEF verdict, cache, now, kept
  <2> QED BY <2>2, <2>3, <2>4, <2>5, <1>5 DEF verdict, cache, now, h
<1>8. CASE nonce # 0 /\ verdict \in {"duplicate", "ok"}
  <2>1. after = [n \in kept \union {nonce} |-> IF n = nonce THEN now ELSE cache[n]] BY <1>8 DEF CacheAfter
  <2>2. DOMAIN after = kept \union {nonce} /\ after[nonce] = now /\ \A n \in kept : after[n] = cache[n] \/ after[n] = now
    BY <2>1
  <2>3. \A n \in DOMAIN cache : n \in kept \/ cache[n] < now - EnvelopeMaxAge BY <1>2, <1>3, <1>4
  <2>4. \A n \in DOMAIN after : after[n] \in Int BY <1>2, <1>3, <1>4, <2>2
  <2>5. Cardinality(kept \union {nonce}) <= NonceCacheMax /\ IsFiniteSet(kept \union {nonce})
    <3>1. CASE verdict = "duplicate"
      <4>1. nonce \in kept BY <3>1, <1>8 DEF gossip_sync
      <4>2. kept \union {nonce} = kept BY <4>1
      <4> QED BY <4>2, <1>5
    <3>2. CASE verdict = "ok"
      <4>1. ~(Cardinality(kept) >= NonceCacheMax) /\ nonce \notin kept BY <3>2, <1>8 DEF gossip_sync
      <4>2. Cardinality(kept \union {nonce}) = Cardinality(kept) + 1 /\ IsFiniteSet(kept \union {nonce})
        BY <1>5, <4>1, FS_AddElement
      <4> QED BY <4>1, <4>2, <1>5
    <3> QED BY <1>8, <3>1, <3>2
  <2>6. verdict = "ok" => nonce \notin kept BY <1>8 DEF gossip_sync
  <2> HIDE DEF verdict, cache, now, kept, nonce
  <2>7. verdict = "ok" => (nonce \in DOMAIN cache => cache[nonce] < now - EnvelopeMaxAge) BY <2>3, <2>6
  <2>8. \A n \in DOMAIN cache : (n \in DOMAIN after /\ (after[n] = cache[n] \/ after[n] = now)) \/ cache[n] < now - EnvelopeMaxAge
    BY <2>2, <2>3
  <2>9. IsFiniteSet(DOMAIN after) /\ Cardinality(DOMAIN after) <= NonceCacheMax /\ nonce \in DOMAIN after BY <2>2, <2>5
  <2> QED BY <2>2, <2>4, <2>7, <2>8, <2>9 DEF verdict, cache, now, nonce, h
<1>9. verdict \in {"unauthorized", "future", "stale", "ok", "full", "duplicate"} BY DEF gossip_sync
<1> QED BY <1>6, <1>7, <1>8, <1>9

LEMMA ReceiveKeeps ==
    ASSUME EnvelopeAssumption, EnvelopeInv, NEW p \in pushes, NEW heard \in BOOLEAN, Receive(p, heard)
    PROVE  EnvelopeInv'
<1> USE EnvelopeAssumption
<1>0. EnvelopeTypeOK /\ Trusted /\ RoundsOK /\ TakenOK /\ CachesOK /\ MergedOnce /\ AnswersExplained BY DEF EnvelopeInv
<1>1. UNCHANGED <<second, installed, saved, pushes, faults, enrolled, refusals>> BY DEF Receive
<1> DEFINE c == p.from[1]
           verdict == gossip_sync(p)
<1>2. PICK h \in Members : h = p.to BY <1>0 DEF EnvelopeTypeOK, PushRecords
<1>3. p \in PushRecords /\ p.plain \in Plains /\ p.plain.pins \subseteq Identities /\ p.plain.nonce \in Nat
      /\ p.plain.issued_at \in Int /\ p.plain.pins \subseteq enrolled
  BY <1>0 DEF EnvelopeTypeOK, PushRecords, Plains, Trusted
<1>4. UnixNow(h) \in Int /\ UnixNow(h)' = UnixNow(h) BY <1>0, <1>1 DEF UnixNow, EnvelopeTypeOK
<1>5. PICK after : after = CacheAfter(p, verdict) OBVIOUS
<1>6. /\ IsFiniteSet(DOMAIN after) /\ Cardinality(DOMAIN after) <= NonceCacheMax
      /\ \A n \in DOMAIN after : after[n] \in Int
      /\ \A n \in DOMAIN nonce_cache[h] :
            \/ n \in DOMAIN after /\ (after[n] = nonce_cache[h][n] \/ after[n] = UnixNow(h))
            \/ nonce_cache[h][n] < UnixNow(h) - EnvelopeMaxAge
      /\ verdict = "ok" /\ p.plain.nonce # 0 =>
            /\ p.plain.nonce \in DOMAIN after /\ after[p.plain.nonce] = UnixNow(h)
            /\ p.plain.nonce \in DOMAIN nonce_cache[h] => nonce_cache[h][p.plain.nonce] < UnixNow(h) - EnvelopeMaxAge
  BY <1>0, <1>2, <1>5, CacheStep
<1>7. nonce_cache' = [nonce_cache EXCEPT ![h] = after] BY <1>2, <1>5 DEF Receive
<1>8. verdict = "ok" => p.from \in pins[h] /\ p.for = Identity(h) /\ p.plain.issued_at >= UnixNow(h) - EnvelopeMaxAge
  <2> SUFFICES ASSUME verdict = "ok" PROVE p.from \in pins[h] /\ p.for = Identity(h) /\ p.plain.issued_at >= UnixNow(h) - EnvelopeMaxAge
    OBVIOUS
  <2>1. Opens(p) /\ ~(p.plain.issued_at < UnixNow(p.to) - EnvelopeMaxAge) BY DEF gossip_sync
  <2> QED BY <2>1, <1>2, <1>3, <1>4, OpenedIsForUs
<1>9. pins' = IF verdict = "ok" THEN [pins EXCEPT ![h] = pins[h] \union p.plain.pins] ELSE pins BY <1>2 DEF Receive
<1>10. heeded' = IF verdict = "ok" THEN heeded \union {p.from} ELSE heeded BY DEF Receive
<1>11. taken' = IF verdict = "ok" /\ p.plain.nonce # 0 THEN [taken EXCEPT ![h] = taken[h] \union {[push |-> p, at |-> UnixNow(h)]}] ELSE taken
  BY <1>2 DEF Receive
<1>12. again' = IF verdict = "ok" THEN [again EXCEPT ![h] = again[h] \union Before(p)] ELSE again BY <1>2 DEF Receive
<1>13. round' = IF ~heard THEN round
                ELSE IF verdict = "ok" THEN [round EXCEPT ![c] = [step |-> "answered", now |-> round[c].now, at |-> round[c].at, peer |-> round[c].peer, answer |-> Response(p)]]
                ELSE [round EXCEPT ![c] = Idle]
  BY DEF Receive
<1>14. heard => Waits(p) BY DEF Receive
<1>r. Before(p) = {x \in taken[h] : x.push = p} BY <1>2 DEF Before
<1>s. PushRecords' = PushRecords /\ Identities' = Identities /\ Plains' = Plains /\ Taken' = Taken BY DEF PushRecords, Identities, Plains, Taken
<1>20. EnvelopeTypeOK'
  <2>1. pins' \in [Members -> SUBSET Identities] BY <1>0, <1>3, <1>9 DEF EnvelopeTypeOK
  <2>2. DOMAIN nonce_cache' = Members /\ DOMAIN round' = Members /\ DOMAIN taken' = Members /\ DOMAIN again' = Members
    BY <1>0, <1>7, <1>11, <1>12, <1>13 DEF EnvelopeTypeOK
  <2> QED BY <1>0, <1>1, <1>s, <2>1, <2>2 DEF EnvelopeTypeOK
<1>21. Trusted'
  <2>1. \A g \in Members : pins'[g] \subseteq enrolled BY <1>0, <1>3, <1>9 DEF Trusted, EnvelopeTypeOK
  <2>2. heeded' \subseteq enrolled
    <3>1. verdict = "ok" => p.from \in enrolled BY <1>0, <1>8 DEF Trusted
    <3> HIDE DEF verdict
    <3> QED BY <3>1, <1>0, <1>10 DEF Trusted
  <2> QED BY <1>0, <1>1, <2>1, <2>2 DEF Trusted
<1>22. RoundsOK'
  <2> SUFFICES ASSUME NEW g \in Members PROVE RoundOK(g)' BY DEF RoundsOK
  <2>1. CASE round'[g] = round[g] BY <2>1, <1>0, <1>1, RoundStays DEF RoundsOK, EnvelopeTypeOK
  <2>2. CASE round'[g] # round[g]
    <3>1. heard /\ g = c BY <2>2, <1>0, <1>13 DEF EnvelopeTypeOK
    <3>2. CASE verdict # "ok"
      <4>1. round'[g] = Idle BY <3>1, <3>2, <1>0, <1>13 DEF EnvelopeTypeOK
      <4> QED BY <4>1 DEF RoundOK, Idle
    <3>3. CASE verdict = "ok"
      <4>1. round[g].step = "waiting" /\ round[g].push = p BY <3>1, <1>14 DEF Waits
      <4>2. PICK at \in Nat, q \in pushes : WaitingRound(g, at, q)
        <5>1. ~ (round[g] = Idle) BY <4>1 DEF Idle
        <5>2. \A a \in Nat : ~BegunRound(g, a) BY <4>1 DEF BegunRound
        <5>3. \A a \in Nat, pe \in Identities, e \in Plains, made \in Nat : ~AnsweredRound(g, a, pe, e, made)
          BY <4>1 DEF AnsweredRound
        <5> QED BY <5>1, <5>2, <5>3, <1>0 DEF RoundsOK, RoundOK
      <4>3. q = p BY <4>1, <4>2 DEF WaitingRound
      <4>4. /\ at <= second /\ round[g].now = at + Offset[g] /\ round[g].at = at /\ round[g].peer = p.for /\ p.from = Identity(g)
        BY <4>2, <4>3 DEF WaitingRound
      <4>5. PICK e \in Plains : e = [pins |-> pins[h] \union p.plain.pins, issued_at |-> UnixNow(h), nonce |-> 0]
        BY <1>0, <1>3, <1>4 DEF Plains, EnvelopeTypeOK
      <4>6. Response(p) = [body |-> sign_and_seal(e, {Identity(g)}, p.for), at |-> second]
        BY <4>4, <4>5, <3>3, <1>2, <1>8 DEF Response
      <4>7. round'[g] = [step |-> "answered", now |-> at + Offset[g], at |-> at, peer |-> p.for,
                         answer |-> [body |-> sign_and_seal(e, {Identity(g)}, p.for), at |-> second]]
        BY <3>1, <3>3, <4>4, <4>6, <1>0, <1>13 DEF EnvelopeTypeOK
      <4>8. PICK made \in Nat : made = second BY <1>0 DEF EnvelopeTypeOK
      <4>9. PICK peer \in Identities : peer = p.for BY <1>3 DEF PushRecords
      <4>10. peer[1] = h /\ peer \in enrolled BY <4>9, <1>0, <1>2 DEF Trusted
      <4>11. e.issued_at = made + Offset[peer[1]] BY <4>5, <4>8, <4>10 DEF UnixNow
      <4>12. e.pins \subseteq enrolled BY <4>5, <1>0, <1>3 DEF Trusted
      <4>13. Identity(g)' = Identity(g) BY <1>1 DEF Identity
      <4>14. AnsweredRound(g, at, peer, e, made)'
        BY <4>4, <4>7, <4>8, <4>9, <4>10, <4>11, <4>12, <4>13, <1>1 DEF AnsweredRound
      <4> QED BY <4>14, <1>s DEF RoundOK
    <3> QED BY <3>2, <3>3
  <2> QED BY <2>1, <2>2
<1>23. TakenOK'
  <2> SUFFICES ASSUME NEW g \in Members
               PROVE  /\ taken'[g] \subseteq Taken' /\ again'[g] \subseteq Taken'
                      /\ \A x \in taken'[g] : x.push.plain.nonce # 0 /\ x.at <= UnixNow(g)' /\ Remembered(g, x)'
    BY DEF TakenOK
  <2>1. CASE g # h
    <3>1. nonce_cache'[g] = nonce_cache[g] /\ taken'[g] = taken[g] /\ again'[g] = again[g]
      BY <2>1, <1>0, <1>7, <1>11, <1>12 DEF EnvelopeTypeOK
    <3>2. taken'[g] \subseteq Taken' /\ again'[g] \subseteq Taken' BY <3>1, <1>s, <1>0 DEF TakenOK
    <3>3. second' \in Nat /\ second <= second' BY <1>0, <1>1 DEF EnvelopeTypeOK
    <3> QED BY <3>1, <3>2, <3>3, <1>0, MemoryStays
  <2>2. CASE g = h
    <3>1. PICK new \in Taken : new = [push |-> p, at |-> UnixNow(h)] BY <1>3, <1>4 DEF Taken
    <3>2. taken[h] \subseteq Taken /\ again[h] \subseteq Taken BY <1>0 DEF TakenOK
    <3>3. taken'[h] \subseteq taken[h] \union {new} /\ (new \in taken'[h] /\ new \notin taken[h] => verdict = "ok" /\ p.plain.nonce # 0)
      BY <3>1, <1>0, <1>11 DEF EnvelopeTypeOK
    <3>4. again'[h] \subseteq again[h] \union taken[h] BY <1>0, <1>12, <1>r DEF EnvelopeTypeOK
    <3>5. nonce_cache'[h] = after BY <1>0, <1>7 DEF EnvelopeTypeOK
    <3>6. \A n \in DOMAIN nonce_cache[h] : nonce_cache[h][n] \in Int BY <1>0 DEF CachesOK
    <3>7. ASSUME NEW x \in taken[h] PROVE x.push.plain.nonce # 0 /\ x.at <= UnixNow(h)' /\ Remembered(h, x)'
      <4>1. x \in Taken /\ x.push.plain.nonce # 0 /\ x.at <= UnixNow(h) /\ Remembered(h, x) BY <1>0 DEF TakenOK
      <4>2. x.at \in Int BY <4>1 DEF Taken
      <4>3. CASE UnixNow(h) > x.at + EnvelopeMaxAge BY <4>1, <4>3, <1>4 DEF Remembered
      <4>4. CASE x.push.plain.nonce \in DOMAIN nonce_cache[h] /\ nonce_cache[h][x.push.plain.nonce] >= x.at
        <5>1. PICK n : n = x.push.plain.nonce OBVIOUS
        <5>2. CASE n \in DOMAIN after /\ (after[n] = nonce_cache[h][n] \/ after[n] = UnixNow(h))
          <6>1. after[n] >= x.at BY <5>1, <5>2, <4>1, <4>2, <4>4
          <6> QED BY <6>1, <5>1, <5>2, <4>1, <3>5, <1>4 DEF Remembered
        <5>3. CASE nonce_cache[h][n] < UnixNow(h) - EnvelopeMaxAge
          <6>1. nonce_cache[h][n] \in Int /\ nonce_cache[h][n] >= x.at BY <5>1, <4>4, <3>6
          <6>2. UnixNow(h) > x.at + EnvelopeMaxAge BY <6>1, <5>3, <4>2, <1>4
          <6> QED BY <6>2, <4>1, <1>4 DEF Remembered
        <5> QED BY <5>1, <5>2, <5>3, <4>4, <1>6
      <4> QED BY <4>1, <4>3, <4>4 DEF Remembered
    <3>8. verdict = "ok" /\ p.plain.nonce # 0 => new.push.plain.nonce # 0 /\ new.at <= UnixNow(h)' /\ Remembered(h, new)'
      <4> SUFFICES ASSUME verdict = "ok", p.plain.nonce # 0 PROVE new.push.plain.nonce # 0 /\ new.at <= UnixNow(h)' /\ Remembered(h, new)'
        OBVIOUS
      <4>1. new.push = p /\ new.at = UnixNow(h) BY <3>1
      <4>2. p.plain.nonce \in DOMAIN after /\ after[p.plain.nonce] = UnixNow(h) BY <1>6
      <4> HIDE DEF verdict
      <4> QED BY <4>1, <4>2, <3>5, <1>4 DEF Remembered
    <3> HIDE DEF verdict
    <3>9. \A x \in taken'[h] : x.push.plain.nonce # 0 /\ x.at <= UnixNow(h)' /\ Remembered(h, x)' BY <3>3, <3>7, <3>8
    <3> QED BY <2>2, <3>2, <3>3, <3>4, <3>9, <1>s
  <2> QED BY <2>1, <2>2
<1>24. CachesOK' BY <1>0, <1>6, <1>7 DEF CachesOK, EnvelopeTypeOK
<1>25. MergedOnce'
  <2> SUFFICES ASSUME NEW g \in Members, NEW x \in again'[g], x \notin again[g] PROVE x.push.plain.issued_at > x.at
    BY <1>0 DEF MergedOnce
  <2>1. verdict = "ok" /\ g = h /\ x \in Before(p) BY <1>0, <1>12 DEF EnvelopeTypeOK
  <2>2. x \in taken[h] /\ x.push = p BY <2>1, <1>r
  <2>3. x \in Taken /\ p.plain.nonce # 0 /\ Remembered(h, x) BY <2>2, <1>0 DEF TakenOK
  <2>4. x.at \in Int BY <2>3 DEF Taken
  <2>5. UnixNow(h) > x.at + EnvelopeMaxAge
    <3>1. CASE UnixNow(h) > x.at + EnvelopeMaxAge BY <3>1
    <3>2. CASE p.plain.nonce \in DOMAIN nonce_cache[h] /\ nonce_cache[h][p.plain.nonce] >= x.at
      <4>1. nonce_cache[h][p.plain.nonce] < UnixNow(h) - EnvelopeMaxAge BY <3>2, <2>1, <2>3, <1>6
      <4>2. nonce_cache[h][p.plain.nonce] \in Int BY <3>2, <1>0 DEF CachesOK
      <4> QED BY <4>1, <4>2, <3>2, <2>4, <1>4
    <3> QED BY <3>1, <3>2, <2>2, <2>3 DEF Remembered
  <2>6. p.plain.issued_at >= UnixNow(h) - EnvelopeMaxAge BY <1>8, <2>1
  <2> HIDE DEF verdict
  <2> QED BY <2>2, <2>4, <2>5, <2>6, <1>3, <1>4
<1>26. AnswersExplained' BY <1>0, <1>1 DEF AnswersExplained
<1> QED BY <1>20, <1>21, <1>22, <1>23, <1>24, <1>25, <1>26 DEF EnvelopeInv

LEMMA RoundEndKeeps ==
    ASSUME EnvelopeAssumption, EnvelopeInv, NEW h \in Members, RoundEnd(h)
    PROVE  EnvelopeInv'
<1> USE EnvelopeAssumption
<1>0. EnvelopeTypeOK /\ Trusted /\ RoundsOK /\ TakenOK /\ CachesOK /\ MergedOnce /\ AnswersExplained BY DEF EnvelopeInv
<1>1. UNCHANGED <<second, installed, saved, nonce_cache, pushes, faults, enrolled, taken, again>> BY DEF RoundEnd
<1>2. PICK at \in Nat, peer \in Identities, c \in Plains, made \in Nat : AnsweredRound(h, at, peer, c, made)
  <2>1. round[h].step = "answered" BY DEF RoundEnd
  <2>2. ~ (round[h] = Idle) BY <2>1 DEF Idle
  <2>3. \A a \in Nat : ~BegunRound(h, a) BY <2>1 DEF BegunRound
  <2>4. \A a \in Nat, p \in pushes : ~WaitingRound(h, a, p) BY <2>1 DEF WaitingRound
  <2> QED BY <2>2, <2>3, <2>4, <1>0 DEF RoundsOK, RoundOK
<1> DEFINE r == round[h]
<1>3. /\ r.now = at + Offset[h] /\ r.at = at /\ r.peer = peer /\ r.answer.at = made
      /\ r.answer.body = sign_and_seal(c, {Identity(h)}, peer)
  BY <1>2 DEF AnsweredRound
<1>4. r.answer.body.signer = peer /\ r.answer.body.body.content = c BY <1>3 DEF sign_and_seal, seal_raw
<1>5. /\ at <= made /\ c.issued_at = made + Offset[peer[1]] /\ c.issued_at \in Int
      /\ c.pins \subseteq enrolled /\ c.pins \subseteq Identities /\ peer \in enrolled /\ peer[1] \in Members
  BY <1>2 DEF AnsweredRound, Plains, Identities
<1>6. verify_and_open(r.answer.body, Identity(h), r.peer) = {c} BY <1>3, OpensForItsKey
<1>7. Verdict(h) = IF c.issued_at > r.now + ClockSkew THEN "future"
                   ELSE IF c.issued_at < r.now - EnvelopeMaxAge THEN "stale" ELSE "ok"
  BY <1>6 DEF Verdict
<1>8. heeded' \subseteq heeded \union {peer} BY <1>4 DEF RoundEnd
<1>9. pins' = [pins EXCEPT ![h] = pins[h] \union c.pins] \/ pins' = pins BY <1>4 DEF RoundEnd
<1>10. round' = [round EXCEPT ![h] = Idle] BY DEF RoundEnd
<1>s. PushRecords' = PushRecords /\ Identities' = Identities /\ Taken' = Taken BY DEF PushRecords, Identities, Plains, Taken
<1>11. EnvelopeTypeOK'
  <2>1. pins' \in [Members -> SUBSET Identities] BY <1>0, <1>5, <1>9 DEF EnvelopeTypeOK
  <2> QED BY <1>0, <1>1, <1>10, <1>s, <2>1 DEF EnvelopeTypeOK
<1>12. Trusted'
  <2>1. \A g \in Members : pins'[g] \subseteq enrolled BY <1>0, <1>5, <1>9 DEF Trusted, EnvelopeTypeOK
  <2> QED BY <1>0, <1>1, <1>5, <1>8, <2>1 DEF Trusted
<1>13. RoundsOK'
  <2> SUFFICES ASSUME NEW g \in Members PROVE RoundOK(g)' BY DEF RoundsOK
  <2>1. CASE g = h BY <2>1, <1>0, <1>10 DEF RoundOK, EnvelopeTypeOK, Idle
  <2>2. CASE g # h
    <3>1. round'[g] = round[g] BY <1>0, <1>10, <2>2 DEF EnvelopeTypeOK
    <3> QED BY <3>1, <1>0, <1>1, RoundStays DEF RoundsOK, EnvelopeTypeOK
  <2> QED BY <2>1, <2>2
<1>14. TakenOK' BY <1>0, <1>1, <1>s DEF TakenOK, Remembered, UnixNow
<1>15. CachesOK' BY <1>0, <1>1 DEF CachesOK
<1>16. MergedOnce' BY <1>0, <1>1 DEF MergedOnce
<1>17. AnswersExplained'
  <2> DEFINE new == [why |-> Verdict(h), took |-> made - at, ahead |-> Offset[peer[1]] - Offset[h]]
  <2>1. Offset[h] \in Int /\ Offset[peer[1]] \in Int BY <1>5
  <2>2. refusals' = IF Verdict(h) = "ok" THEN refusals ELSE refusals \union {new} BY <1>3 DEF RoundEnd
  <2>3. CASE Verdict(h) = "ok" BY <2>2, <2>3, <1>0 DEF AnswersExplained
  <2>4. CASE Verdict(h) = "future"
    <3>1. c.issued_at > r.now + ClockSkew BY <2>4, <1>7
    <3>2. (made - at) + (Offset[peer[1]] - Offset[h]) > ClockSkew
      <4> HIDE DEF r
      <4> QED BY <3>1, <2>1, <1>3, <1>5 DEF r
    <3>3. new.why = "future" /\ new.took + new.ahead > ClockSkew BY <3>2, <2>4
    <3> HIDE DEF new
    <3> QED BY <3>3, <2>2, <2>4, <1>0 DEF AnswersExplained
  <2>5. CASE Verdict(h) = "stale"
    <3>1. c.issued_at < r.now - EnvelopeMaxAge BY <2>5, <1>7
    <3>2. made - at >= 0 /\ Offset[peer[1]] - Offset[h] < -EnvelopeMaxAge
      <4> HIDE DEF r
      <4> QED BY <3>1, <2>1, <1>3, <1>5 DEF r
    <3>3. new.why = "stale" /\ new.took >= 0 /\ new.ahead < -EnvelopeMaxAge BY <3>2, <2>5
    <3> HIDE DEF new
    <3> QED BY <3>3, <2>2, <2>5, <1>0 DEF AnswersExplained
  <2> QED BY <1>7, <2>3, <2>4, <2>5
<1> QED BY <1>11, <1>12, <1>13, <1>14, <1>15, <1>16, <1>17 DEF EnvelopeInv

(* The protection of gossip, for any hosts, clocks, limits and faults: one *)
(* run of a process merges a push once unless its sender's clock was       *)
(* ahead, trust comes from operators only, answers are refused only for    *)
(* their time, and the nonce cache keeps its bound (gossip_sync, run).     *)
THEOREM EnvelopesAreSound == EnvelopeSpec => []EnvelopesSound
<1> USE EnvelopeAssumption
<1>1. EnvelopeInit => EnvelopeInv BY EnvelopeStart
<1>2. EnvelopeInv /\ [EnvelopeNext]_envVars => EnvelopeInv'
  <2> SUFFICES ASSUME EnvelopeInv, [EnvelopeNext]_envVars PROVE EnvelopeInv' OBVIOUS
  <2>1. CASE UNCHANGED envVars
    <3>1. UNCHANGED <<second, installed, pins, saved, nonce_cache, pushes, round, faults, enrolled, heeded, taken, again, refusals>>
      BY <2>1 DEF envVars, histories
    <3>2. EnvelopeTypeOK /\ Trusted /\ RoundsOK /\ TakenOK /\ CachesOK /\ MergedOnce /\ AnswersExplained BY DEF EnvelopeInv
    <3>s. PushRecords' = PushRecords /\ Identities' = Identities /\ Taken' = Taken BY DEF PushRecords, Identities, Plains, Taken
    <3>3. EnvelopeTypeOK' BY <3>1, <3>2, <3>s DEF EnvelopeTypeOK
    <3>4. Trusted' BY <3>1, <3>2 DEF Trusted
    <3>5. RoundsOK'
      <4> SUFFICES ASSUME NEW g \in Members PROVE RoundOK(g)' BY DEF RoundsOK
      <4> QED BY <3>1, <3>2, RoundStays DEF RoundsOK, EnvelopeTypeOK
    <3>6. TakenOK' BY <3>1, <3>2, <3>s DEF TakenOK, Remembered, UnixNow
    <3>7. CachesOK' /\ MergedOnce' /\ AnswersExplained' BY <3>1, <3>2 DEF CachesOK, MergedOnce, AnswersExplained
    <3> QED BY <3>3, <3>4, <3>5, <3>6, <3>7 DEF EnvelopeInv
  <2>2. CASE EnvelopeNext
    BY <2>2, RoundBeginKeeps, GiveUpKeeps, RoundEndKeeps, PersistClusterKeeps, RestartsKeep, PushKeeps, ReceiveKeeps,
       RegisterKeeps, TickKeeps DEF EnvelopeNext
  <2> QED BY <2>1, <2>2
<1>3. EnvelopeInv => EnvelopesSound
  <2> SUFFICES ASSUME EnvelopeInv PROVE EnvelopesSound OBVIOUS
  <2>1. Trusted /\ CachesOK /\ MergedOnce /\ AnswersExplained BY DEF EnvelopeInv
  <2>2. TrustRooted BY <2>1 DEF TrustRooted, Trusted
  <2>3. CacheBounded BY <2>1 DEF CacheBounded, CachesOK
  <2> QED BY <2>1, <2>2, <2>3 DEF EnvelopesSound
<1> QED BY <1>1, <1>2, <1>3, PTL DEF EnvelopeSpec

-----------------------------------------------------------------------------
(* Requests of the client library.                                         *)
Steps == {"inner", "outer", "headInner", "head", "send", "answered", "check", "done", "limit", "failed"}
RequestRecords == [step : Steps, attempt : 0..(MaxAttempts - 1), nonce : Nat, ok : BOOLEAN, second : BOOLEAN]
TransportTypeOK ==
    /\ requests \in [Tasks -> RequestRecords] /\ cached_nonce \in Nat
    /\ executed \in [Tasks -> Nat] /\ restarts \in Nat
(* Every nonce is in one place, and none that was sent is still anywhere.  *)
NoncesApart ==
    /\ \A t \in Tasks : requests[t].nonce # None => requests[t].nonce # cached_nonce
    /\ \A t, u \in Tasks : t # u /\ requests[t].nonce # None => requests[t].nonce # requests[u].nonce
    /\ \A t \in Tasks : requests[t].step = "send" => requests[t].nonce # None
    /\ sent = {} /\ live \subseteq Held
Effects ==
    \A t \in Tasks :
        /\ requests[t].step \in {"inner", "outer", "headInner", "head", "send", "limit"} => executed[t] = 0
        /\ requests[t].step \in {"answered", "check"} => executed[t] = IF requests[t].ok THEN 1 ELSE 0
        /\ requests[t].step = "done" => executed[t] = 1
        /\ executed[t] <= 1
(* Attempts of a request that failed or are bound to fail: with its own    *)
(* nonce, with the cached one, or with one another task is about to cache. *)
Dead(n) == n # None /\ n \notin live
Queue(t) == {u \in Tasks \ {t} : requests[u].step = "answered" /\ Dead(requests[u].nonce)}
Doomed(t) ==
    \/ requests[t].step = "send" /\ Dead(requests[t].nonce)
    \/ requests[t].step \in {"inner", "outer", "headInner"} /\ Dead(cached_nonce)
    \/ requests[t].step \in {"answered", "check"} /\ ~requests[t].ok
Own(t) == IF Doomed(t) THEN 1 ELSE 0
Restarted == Cardinality(Tasks) * restarts
Counted(t) ==
    /\ requests[t].attempt + Cardinality(Queue(t)) + Own(t) <= Restarted
    /\ requests[t].step = "limit" => Restarted >= MaxAttempts
FirstRun == restarts = 0 => ~Dead(cached_nonce) /\ \A t \in Tasks : ~Dead(requests[t].nonce)
TransportInv == TransportTypeOK /\ NoncesApart /\ Effects /\ FirstRun /\ \A t \in Tasks : Counted(t)

-----------------------------------------------------------------------------
(* There is always a number that nobody holds.                             *)
LEMMA FreshIsNew ==
    ASSUME TransportAssumption, TransportTypeOK
    PROVE  FreshNonce \in Nat \ {0} /\ FreshNonce \notin Held
<1> DEFINE N == Cardinality(Tasks)
           theirs == {requests[t].nonce : t \in Tasks}
<1>1. IsFiniteSet(Tasks) /\ N \in Nat BY FS_CardinalityType DEF TransportAssumption
<1>2. IsFiniteSet(theirs) /\ Cardinality(theirs) <= N
  <2>1. PICK f : f = [t \in Tasks |-> requests[t].nonce] OBVIOUS
  <2>2. theirs = {f[t] : t \in Tasks} BY <2>1
  <2>3. f \in [Tasks -> theirs] BY <2>1
  <2> HIDE DEF theirs
  <2>4. f \in Surjection(Tasks, theirs) BY <2>2, <2>3 DEF Surjection
  <2> QED BY <1>1, <2>4, FS_Surjection
<1>3. IsFiniteSet({cached_nonce}) /\ Cardinality({cached_nonce}) = 1 BY FS_Singleton
<1>4. PICK all : all = {cached_nonce} \union theirs OBVIOUS
<1>5. IsFiniteSet(all) /\ Cardinality(all) <= N + 1
  <2> HIDE DEF theirs, N
  <2>1. Cardinality(theirs) \in Nat BY <1>2, FS_CardinalityType
  <2>2. IsFiniteSet(all) BY <1>2, <1>3, <1>4, FS_Union
  <2>3. PICK both : both = {cached_nonce} \intersect theirs OBVIOUS
  <2>4. IsFiniteSet(both) /\ Cardinality(both) \in Nat
    <3>1. both \subseteq {cached_nonce} BY <2>3
    <3> QED BY <3>1, <1>3, FS_Subset, FS_CardinalityType
  <2>5. Cardinality(all) = Cardinality({cached_nonce}) + Cardinality(theirs) - Cardinality(both)
    BY <1>2, <1>3, <1>4, <2>3, FS_Union
  <2> QED BY <2>1, <2>2, <2>4, <2>5, <1>1, <1>2, <1>3
<1>6. \E n \in 1..(N + 2) : n \notin Held
  <2> HIDE DEF N, theirs
  <2> SUFFICES ASSUME \A n \in 1..(N + 2) : n \in Held PROVE FALSE OBVIOUS
  <2>1. 1..(N + 2) \subseteq all BY <1>4 DEF Held, theirs
  <2>2. IsFiniteSet(1..(N + 2)) /\ Cardinality(1..(N + 2)) = N + 2 BY <1>1, FS_Interval
  <2>3. Cardinality(1..(N + 2)) <= Cardinality(all) BY <2>1, <1>5, FS_Subset
  <2>4. Cardinality(all) \in Nat BY <1>5, FS_CardinalityType
  <2> QED BY <2>2, <2>3, <2>4, <1>1, <1>5
<1>7. FreshNonce \in 1..(N + 2) /\ FreshNonce \notin Held BY <1>6 DEF FreshNonce
<1> HIDE DEF N
<1> QED BY <1>1, <1>7

(* What a task's step leaves of the others: their records, and the life of *)
(* the nonces they hold.                                                   *)
Alone(t) == requests' \in [Tasks -> RequestRecords] /\ \A u \in Tasks : u # t => requests'[u] = requests[u]

LEMMA OthersLive ==
    ASSUME TransportTypeOK, NoncesApart, NEW t \in Tasks, Alone(t), NEW alive,
           live \ {requests[t].nonce} \subseteq alive, live' = alive \cap Held'
    PROVE  /\ \A u \in Tasks : u # t /\ Dead(requests[u].nonce)' => Dead(requests[u].nonce)
           /\ cached_nonce' = cached_nonce /\ Dead(cached_nonce)' => Dead(cached_nonce)
<1>1. ASSUME NEW u \in Tasks, u # t, Dead(requests[u].nonce)' PROVE Dead(requests[u].nonce)
  <2>1. requests'[u] = requests[u] BY <1>1 DEF Alone
  <2>2. PICK n : n = requests[u].nonce OBVIOUS
  <2>3. n # None /\ n \notin live' BY <1>1, <2>1, <2>2 DEF Dead
  <2>4. n \in Held' BY <2>1, <2>2, <2>3 DEF Held
  <2>5. n # requests[t].nonce BY <1>1, <2>2, <2>3 DEF NoncesApart
  <2> QED BY <2>2, <2>3, <2>4, <2>5 DEF Dead
<1>2. ASSUME cached_nonce' = cached_nonce, Dead(cached_nonce)' PROVE Dead(cached_nonce)
  <2>1. cached_nonce # None /\ cached_nonce \notin live' BY <1>2 DEF Dead
  <2>2. cached_nonce \in Held' BY <1>2, <2>1 DEF Held
  <2>3. cached_nonce # requests[t].nonce BY <2>1 DEF NoncesApart
  <2> QED BY <2>1, <2>2, <2>3 DEF Dead
<1> QED BY <1>1, <1>2

LEMMA QueueFinite ==
    ASSUME TransportAssumption, NEW t \in Tasks
    PROVE  IsFiniteSet(Queue(t)) /\ Cardinality(Queue(t)) \in Nat /\ Cardinality(Queue(t)) + 1 <= Cardinality(Tasks)
           /\ Cardinality(Tasks) \in Nat
<1>1. IsFiniteSet(Tasks) /\ Cardinality(Tasks) \in Nat BY FS_CardinalityType DEF TransportAssumption
<1>2. IsFiniteSet(Tasks \ {t}) /\ Cardinality(Tasks \ {t}) = Cardinality(Tasks) - 1 BY <1>1, FS_RemoveElement
<1>3. Queue(t) \subseteq Tasks \ {t} BY DEF Queue
<1>4. IsFiniteSet(Queue(t)) /\ Cardinality(Queue(t)) <= Cardinality(Tasks \ {t}) BY <1>2, <1>3, FS_Subset
<1> QED BY <1>1, <1>2, <1>4, FS_CardinalityType

(* The count of a request does not grow while nothing dies.                *)
LEMMA CountHolds ==
    ASSUME TransportAssumption, TransportTypeOK, NEW t \in Tasks, Counted(t), restarts' = restarts,
           requests'[t].attempt \in Nat, Queue(t)' \subseteq Queue(t), requests'[t].attempt + Own(t)' <= requests[t].attempt + Own(t),
           requests'[t].step # "limit" \/ requests[t].step = "limit"
    PROVE  Counted(t)'
<1>1. IsFiniteSet(Queue(t)) /\ Cardinality(Queue(t)) \in Nat /\ Cardinality(Tasks) \in Nat BY QueueFinite
<1>2. PICK q : q = Queue(t)' OBVIOUS
<1>3. IsFiniteSet(q) /\ Cardinality(q) \in Nat /\ Cardinality(q) <= Cardinality(Queue(t)) BY <1>1, <1>2, FS_Subset, FS_CardinalityType
<1>4. Own(t) \in Nat /\ Own(t)' \in Nat BY DEF Own
<1>5. requests[t].attempt \in Nat BY DEF TransportTypeOK, RequestRecords
<1>6. Restarted' = Restarted BY DEF Restarted
<1>7. Restarted \in Nat
  <2>1. restarts \in Nat BY DEF TransportTypeOK
  <2> QED BY <1>1, <2>1 DEF Restarted
<1>8. requests'[t].attempt + Cardinality(q) + Own(t)' <= Restarted' BY <1>1, <1>3, <1>4, <1>5, <1>6, <1>7 DEF Counted
<1> QED BY <1>2, <1>6, <1>8 DEF Counted

LEMMA CountSpent ==
    ASSUME TransportAssumption, TransportTypeOK, NEW t \in Tasks, NEW v \in Tasks, v # t, Counted(v), restarts' = restarts,
           requests'[v] = requests[v], t \in Queue(v), Queue(v)' \subseteq Queue(v) \ {t}
    PROVE  Counted(v)'
<1>1. IsFiniteSet(Queue(v)) /\ Cardinality(Queue(v)) \in Nat /\ Cardinality(Tasks) \in Nat BY QueueFinite
<1>2. PICK q : q = Queue(v)' OBVIOUS
<1>3. IsFiniteSet(Queue(v) \ {t}) /\ Cardinality(Queue(v) \ {t}) = Cardinality(Queue(v)) - 1 BY <1>1, FS_RemoveElement
<1>4. Cardinality(q) \in Nat /\ Cardinality(q) <= Cardinality(Queue(v)) - 1 BY <1>2, <1>3, FS_Subset, FS_CardinalityType
<1>5. Own(v) \in Nat /\ Own(v)' \in Nat /\ Own(v)' <= 1 BY DEF Own
<1>6. requests[v].attempt \in Nat BY DEF TransportTypeOK, RequestRecords
<1>7. Restarted' = Restarted /\ Restarted \in Nat
  <2>1. restarts \in Nat BY DEF TransportTypeOK
  <2> QED BY <1>1, <2>1 DEF Restarted
<1>8. requests'[v].attempt + Cardinality(q) + Own(v)' <= Restarted' BY <1>1, <1>4, <1>5, <1>6, <1>7 DEF Counted
<1> QED BY <1>2, <1>7, <1>8 DEF Counted

(* A request that begins: nothing has failed yet, and a run of the server  *)
(* spoils at most one nonce for each task.                                 *)
LEMMA CountBegins ==
    ASSUME TransportAssumption, TransportTypeOK', FirstRun', NEW t \in Tasks, requests'[t].attempt = 0,
           requests'[t].step \in {"inner", "outer"}
    PROVE  Counted(t)'
<1>1. PICK q : q = Queue(t)' OBVIOUS
<1>2. PICK n : n = Cardinality(Tasks) OBVIOUS
<1>3. Cardinality(q) \in Nat /\ Cardinality(q) + 1 <= n /\ n \in Nat
  <2>1. IsFiniteSet(Tasks) /\ n \in Nat BY <1>2, FS_CardinalityType DEF TransportAssumption
  <2>2. IsFiniteSet(Tasks \ {t}) /\ Cardinality(Tasks \ {t}) = n - 1 BY <1>2, <2>1, FS_RemoveElement
  <2>3. q \subseteq Tasks \ {t} BY <1>1 DEF Queue
  <2>4. IsFiniteSet(q) /\ Cardinality(q) <= Cardinality(Tasks \ {t}) BY <2>2, <2>3, FS_Subset
  <2> QED BY <2>1, <2>2, <2>4, FS_CardinalityType
<1>4. Own(t)' \in Nat /\ Own(t)' <= 1 BY DEF Own
<1>5. PICK r \in Nat : r = restarts' BY DEF TransportTypeOK
<1>6. Restarted' = n * r BY <1>2, <1>5 DEF Restarted
<1>7. Cardinality(q) + Own(t)' <= n * r
  <2>1. CASE r = 0
    <3>1. q = {} BY <1>1, <1>5, <2>1 DEF FirstRun, Queue
    <3>2. ~Doomed(t)' BY <1>5, <2>1 DEF FirstRun, Doomed
    <3>3. Own(t)' = 0 BY <3>2 DEF Own
    <3> QED BY <3>1, <3>3, <2>1, <1>3, FS_EmptySet
  <2>2. CASE r >= 1
    <3>0. n \in Nat /\ r \in Nat BY <1>3
    <3>p. PICK p \in Nat : r = p + 1
      <4>1. r - 1 \in Nat /\ r = (r - 1) + 1 BY <2>2, <3>0
      <4> QED BY <4>1
    <3>m. n * (p + 1) = n * p + n /\ n * p \in Nat BY <3>0
    <3>1. n <= n * r BY <3>0, <3>p, <3>m
    <3>2. n * r \in Nat BY <3>0
    <3> QED BY <3>1, <3>2, <1>3, <1>4
  <2> QED BY <2>1, <2>2, <1>5
<1> QED BY <1>1, <1>3, <1>4, <1>6, <1>7 DEF Counted

(* What a step of a task may do to nonces, to their life, to what the      *)
(* server carried out and to the count of attempts.                        *)
NonceFlow(t) ==
    /\ requests'[t].nonce # None =>
          requests'[t].nonce # cached_nonce' /\ \A u \in Tasks : u # t => requests'[t].nonce # requests[u].nonce
    /\ cached_nonce' # None => cached_nonce' = cached_nonce \/ cached_nonce' = requests[t].nonce
    /\ requests'[t].step = "send" => requests'[t].nonce # None
DeadFlow(t) ==
    /\ Dead(requests[t].nonce)' => Dead(requests[t].nonce) \/ Dead(cached_nonce)
    /\ Dead(cached_nonce)' => Dead(cached_nonce) \/ (requests[t].step = "answered" /\ Dead(requests[t].nonce))
    /\ requests'[t].step = "answered" => ~Dead(requests[t].nonce)'
EffectOf(t) ==
    /\ executed' \in [Tasks -> Nat] /\ \A u \in Tasks : u # t => executed'[u] = executed[u]
    /\ requests'[t].step \in {"inner", "outer", "headInner", "head", "send", "limit"} => executed'[t] = 0
    /\ requests'[t].step \in {"answered", "check"} => executed'[t] = IF requests'[t].ok THEN 1 ELSE 0
    /\ requests'[t].step = "done" => executed'[t] = 1
    /\ executed'[t] <= 1
CountOf(t) ==
    /\ \/ requests'[t].attempt + Own(t)' <= requests[t].attempt + Own(t)
       \/ requests'[t].attempt = 0 /\ requests'[t].step \in {"inner", "outer"}
    /\ requests'[t].step = "limit" => requests[t].step = "check" /\ ~requests[t].ok /\ requests[t].attempt = MaxAttempts - 1

LEMMA TaskStepKeeps ==
    ASSUME TransportAssumption, TransportInv, NEW t \in Tasks, Alone(t), cached_nonce' \in Nat, restarts' = restarts,
           NEW alive, live \ {requests[t].nonce} \subseteq alive, live' = alive \cap Held', sent' = {},
           NonceFlow(t), DeadFlow(t), EffectOf(t), CountOf(t)
    PROVE  TransportInv'
<1>0. TransportTypeOK /\ NoncesApart /\ Effects /\ FirstRun /\ \A v \in Tasks : Counted(v) BY DEF TransportInv
<1>1. TransportTypeOK'
  <2>1. RequestRecords' = RequestRecords BY DEF RequestRecords, Steps, MaxAttempts
  <2> QED BY <1>0, <2>1 DEF TransportTypeOK, Alone, EffectOf
<1>2. \A u \in Tasks : u # t => requests'[u] = requests[u] BY DEF Alone
<1>3. /\ \A u \in Tasks : u # t /\ Dead(requests[u].nonce)' => Dead(requests[u].nonce)
  BY <1>0, OthersLive
<1>4. NoncesApart'
  <2>1. \A u \in Tasks : requests'[u].nonce # None => requests'[u].nonce # cached_nonce'
    <3> SUFFICES ASSUME NEW u \in Tasks, requests'[u].nonce # None PROVE requests'[u].nonce # cached_nonce' OBVIOUS
    <3>1. CASE u = t BY <3>1 DEF NonceFlow
    <3>2. CASE u # t BY <3>2, <1>0, <1>2 DEF NoncesApart, NonceFlow
    <3> QED BY <3>1, <3>2
  <2>2. \A u, w \in Tasks : u # w /\ requests'[u].nonce # None => requests'[u].nonce # requests'[w].nonce
    <3> SUFFICES ASSUME NEW u \in Tasks, NEW w \in Tasks, u # w, requests'[u].nonce # None
                 PROVE  requests'[u].nonce # requests'[w].nonce
      OBVIOUS
    <3>1. CASE u = t BY <3>1, <1>2 DEF NonceFlow
    <3>2. CASE w = t BY <3>2, <1>2 DEF NonceFlow
    <3>3. CASE u # t /\ w # t BY <3>3, <1>0, <1>2 DEF NoncesApart
    <3> QED BY <3>1, <3>2, <3>3
  <2>3. \A u \in Tasks : requests'[u].step = "send" => requests'[u].nonce # None BY <1>0, <1>2 DEF NoncesApart, NonceFlow
  <2> QED BY <2>1, <2>2, <2>3 DEF NoncesApart, None
<1>5. Effects'
  <2> SUFFICES ASSUME NEW u \in Tasks
               PROVE  /\ requests'[u].step \in {"inner", "outer", "headInner", "head", "send", "limit"} => executed'[u] = 0
                      /\ requests'[u].step \in {"answered", "check"} => executed'[u] = IF requests'[u].ok THEN 1 ELSE 0
                      /\ requests'[u].step = "done" => executed'[u] = 1
                      /\ executed'[u] <= 1
    BY DEF Effects
  <2>1. CASE u = t BY <2>1 DEF EffectOf
  <2>2. CASE u # t BY <2>2, <1>0, <1>2 DEF Effects, EffectOf
  <2> QED BY <2>1, <2>2
<1>6. FirstRun' BY <1>0, <1>3 DEF FirstRun, DeadFlow
<1>7. Queue(t)' \subseteq Queue(t) BY <1>2, <1>3 DEF Queue
<1>8. \A v \in Tasks : v # t => Queue(v)' \subseteq Queue(v) \ {t} \/ (Queue(v)' \subseteq Queue(v) /\ t \notin Queue(v))
  BY <1>2, <1>3 DEF Queue, DeadFlow
<1>9. requests'[t].attempt \in Nat BY DEF Alone, RequestRecords
<1>10. Counted(t)'
  <2>1. CASE requests'[t].attempt = 0 /\ requests'[t].step \in {"inner", "outer"} BY <2>1, <1>1, <1>6, CountBegins
  <2>2. CASE requests'[t].attempt + Own(t)' <= requests[t].attempt + Own(t) /\ requests'[t].step # "limit"
    BY <2>2, <1>0, <1>7, <1>9, CountHolds
  <2>3. CASE requests'[t].attempt + Own(t)' <= requests[t].attempt + Own(t) /\ requests'[t].step = "limit"
    <3>1. requests[t].step = "check" /\ ~requests[t].ok /\ requests[t].attempt = MaxAttempts - 1 BY <2>3 DEF CountOf
    <3>2. Own(t) = 1 BY <3>1 DEF Own, Doomed
    <3>3. PICK q : q = Queue(t)' OBVIOUS
    <3>4. IsFiniteSet(Queue(t)) /\ Cardinality(Queue(t)) \in Nat /\ Cardinality(Tasks) \in Nat BY QueueFinite
    <3>5. IsFiniteSet(q) /\ Cardinality(q) \in Nat /\ Cardinality(q) <= Cardinality(Queue(t))
      BY <3>3, <3>4, <1>7, FS_Subset, FS_CardinalityType
    <3>6. Restarted' = Restarted /\ Restarted \in Nat
      <4>1. restarts \in Nat BY <1>0 DEF TransportTypeOK
      <4> QED BY <3>4, <4>1 DEF Restarted
    <3>7. Own(t)' \in Nat BY DEF Own
    <3>8. requests[t].attempt + Cardinality(Queue(t)) + Own(t) <= Restarted BY <1>0 DEF Counted
    <3>9. Restarted' >= MaxAttempts BY <3>1, <3>2, <3>4, <3>6, <3>8 DEF MaxAttempts
    <3>10. requests'[t].attempt + Cardinality(q) + Own(t)' <= Restarted'
      <4>1. requests[t].attempt \in Nat BY <3>1 DEF MaxAttempts
      <4> QED BY <2>3, <3>2, <3>4, <3>5, <3>6, <3>7, <3>8, <4>1, <1>9
    <3>11. MaxAttempts' = MaxAttempts BY DEF MaxAttempts
    <3> QED BY <3>3, <3>9, <3>10, <3>11 DEF Counted
  <2> QED BY <2>1, <2>2, <2>3 DEF CountOf
<1>11. ASSUME NEW v \in Tasks, v # t PROVE Counted(v)'
  <2>0. requests'[v] = requests[v] /\ requests'[v].attempt \in Nat BY <1>0, <1>2, <1>11 DEF TransportTypeOK, RequestRecords
  <2>1. CASE Dead(cached_nonce)' => Dead(cached_nonce)
    <3>1. Doomed(v)' => Doomed(v) BY <2>0, <2>1, <1>3, <1>11 DEF Doomed
    <3>2. Own(v)' <= Own(v) /\ Own(v) \in Nat /\ Own(v)' \in Nat BY <3>1 DEF Own
    <3>3. requests'[v].attempt + Own(v)' <= requests[v].attempt + Own(v) BY <2>0, <3>2
    <3> QED BY <2>0, <3>3, <1>0, <1>8, <1>11, CountHolds
  <2>2. CASE requests[t].step = "answered" /\ Dead(requests[t].nonce)
    <3>1. t \in Queue(v) BY <2>2, <1>11 DEF Queue
    <3>2. Queue(v)' \subseteq Queue(v) \ {t} BY <3>1, <1>8, <1>11
    <3> QED BY <2>0, <3>1, <3>2, <1>0, <1>11, CountSpent
  <2> QED BY <2>1, <2>2 DEF DeadFlow
<1> QED BY <1>1, <1>4, <1>5, <1>6, <1>10, <1>11 DEF TransportInv

(* The shapes a request's record takes.                                    *)
LEMMA Replaced ==
    ASSUME TransportTypeOK, NEW t \in Tasks, NEW r \in RequestRecords, requests' = [requests EXCEPT ![t] = r]
    PROVE  Alone(t) /\ requests'[t] = r
BY DEF Alone, TransportTypeOK

LEMMA Moved ==
    ASSUME TransportTypeOK, NEW t \in Tasks, NEW step \in Steps, NEW nonce \in Nat,
           requests' = [requests EXCEPT ![t].step = step, ![t].nonce = nonce]
    PROVE  /\ Alone(t) /\ requests'[t].step = step /\ requests'[t].nonce = nonce
           /\ requests'[t].attempt = requests[t].attempt /\ requests'[t].ok = requests[t].ok
<1>1. requests[t] \in RequestRecords BY DEF TransportTypeOK
<1>2. PICK r \in RequestRecords : r = [requests[t] EXCEPT !.step = step, !.nonce = nonce] BY <1>1 DEF RequestRecords
<1>3. requests' = [requests EXCEPT ![t] = r] BY <1>2
<1>4. r.step = step /\ r.nonce = nonce /\ r.attempt = requests[t].attempt BY <1>1, <1>2 DEF RequestRecords
<1>5. r.ok = requests[t].ok BY <1>1, <1>2 DEF RequestRecords
<1> QED BY <1>3, <1>4, <1>5 DEF Alone, TransportTypeOK

LEMMA Retried ==
    ASSUME TransportTypeOK, NEW t \in Tasks, requests[t].attempt + 1 \in 0..(MaxAttempts - 1), Again(t)
    PROVE  /\ Alone(t) /\ requests'[t].step = "outer" /\ requests'[t].nonce = requests[t].nonce
           /\ requests'[t].attempt = requests[t].attempt + 1
<1>1. requests[t] \in RequestRecords BY DEF TransportTypeOK
<1>2. PICK r \in RequestRecords : r = [requests[t] EXCEPT !.step = "outer", !.attempt = requests[t].attempt + 1]
  BY <1>1 DEF RequestRecords, Steps
<1>3. requests' = [requests EXCEPT ![t] = r] BY <1>2 DEF Again
<1>4. r.step = "outer" /\ r.nonce = requests[t].nonce /\ r.attempt = requests[t].attempt + 1 BY <1>1, <1>2 DEF RequestRecords
<1> QED BY <1>3, <1>4 DEF Alone, TransportTypeOK

LEMMA ReplyRead ==
    ASSUME TransportTypeOK, NEW t \in Tasks, NEW nonce \in Nat, NEW good \in BOOLEAN,
           requests' = [requests EXCEPT ![t].step = "answered", ![t].ok = good, ![t].nonce = nonce]
    PROVE  /\ Alone(t) /\ requests'[t].step = "answered" /\ requests'[t].nonce = nonce
           /\ requests'[t].attempt = requests[t].attempt /\ requests'[t].ok = good
<1>1. requests[t] \in RequestRecords BY DEF TransportTypeOK
<1>2. PICK r1 \in RequestRecords : r1 = [requests[t] EXCEPT !.step = "answered"] BY <1>1 DEF RequestRecords, Steps
<1>3. PICK r2 \in RequestRecords : r2 = [r1 EXCEPT !.ok = good] BY DEF RequestRecords
<1>4. PICK r \in RequestRecords : r = [r2 EXCEPT !.nonce = nonce] BY DEF RequestRecords
<1>5. requests' = [requests EXCEPT ![t] = r] BY <1>2, <1>3, <1>4
<1>6. r1.step = "answered" /\ r1.attempt = requests[t].attempt BY <1>1, <1>2 DEF RequestRecords
<1>7. r2.step = r1.step /\ r2.attempt = r1.attempt BY <1>3 DEF RequestRecords
<1>8. r2.ok = good BY <1>3 DEF RequestRecords
<1>9. r.step = r2.step /\ r.attempt = r2.attempt /\ r.nonce = nonce BY <1>4 DEF RequestRecords
<1>10. r.ok = r2.ok BY <1>4 DEF RequestRecords
<1>11. requests'[t] = r /\ Alone(t) BY <1>5, Replaced
<1>12. r.step = "answered" /\ r.nonce = nonce /\ r.attempt = requests[t].attempt BY <1>6, <1>7, <1>9
<1>13. r.ok = good BY <1>8, <1>10
<1> QED BY <1>11, <1>12, <1>13

LEMMA Begun ==
    ASSUME TransportTypeOK, NEW t \in Tasks, NEW step \in Steps,
           requests' = [requests EXCEPT ![t].step = step, ![t].attempt = 0, ![t].ok = FALSE, ![t].second = TRUE]
    PROVE  /\ Alone(t) /\ requests'[t].step = step /\ requests'[t].nonce = requests[t].nonce /\ requests'[t].attempt = 0
<1>1. requests[t] \in RequestRecords BY DEF TransportTypeOK
<1>z. 0 \in 0..(MaxAttempts - 1) BY DEF MaxAttempts
<1>2. PICK r1 \in RequestRecords : r1 = [requests[t] EXCEPT !.step = step, !.attempt = 0] BY <1>1, <1>z DEF RequestRecords
<1>3. PICK r2 \in RequestRecords : r2 = [r1 EXCEPT !.ok = FALSE] BY DEF RequestRecords
<1>4. PICK r \in RequestRecords : r = [r2 EXCEPT !.second = TRUE] BY DEF RequestRecords
<1>5. requests' = [requests EXCEPT ![t] = r] BY <1>2, <1>3, <1>4
<1>6. r1.step = step /\ r1.attempt = 0 /\ r1.nonce = requests[t].nonce BY <1>1, <1>2 DEF RequestRecords
<1>7. r2.step = r1.step /\ r2.attempt = r1.attempt /\ r2.nonce = r1.nonce BY <1>3 DEF RequestRecords
<1>8. r.step = r2.step /\ r.attempt = r2.attempt /\ r.nonce = r2.nonce BY <1>4 DEF RequestRecords
<1>9. r.step = step /\ r.attempt = 0 /\ r.nonce = requests[t].nonce BY <1>6, <1>7, <1>8
<1>10. requests'[t] = r /\ Alone(t) BY <1>5, Replaced
<1> QED BY <1>9, <1>10

-----------------------------------------------------------------------------
(* The steps of a task.                                                    *)
LEMMA FetchKeeps ==
    ASSUME TransportAssumption, TransportInv, NEW t \in Tasks, fetch_nonce(t)
    PROVE  TransportInv'
<1>0. TransportTypeOK /\ NoncesApart /\ Effects /\ FirstRun BY DEF TransportInv
<1>1. requests[t] \in RequestRecords /\ cached_nonce \in Nat /\ requests[t].nonce \in Nat /\ requests[t].attempt \in Nat
  BY <1>0 DEF TransportTypeOK, RequestRecords
<1>2. UNCHANGED <<executed, restarts>> /\ live' = live \cap Held' /\ sent' = {}
  BY <1>0 DEF fetch_nonce, Nonces, NoncesApart
<1>3. requests[t].step \in {"inner", "outer"} BY DEF fetch_nonce
<1>4. CASE cached_nonce # None
  <2>1. PICK s \in Steps : s = IF requests[t].step = "inner" THEN "outer" ELSE "send" BY DEF Steps
  <2>2. requests' = [requests EXCEPT ![t].step = s, ![t].nonce = cached_nonce] BY <1>4, <2>1 DEF fetch_nonce
  <2>3. cached_nonce' = None BY <1>4 DEF fetch_nonce
  <2>4. /\ Alone(t) /\ requests'[t].step = s /\ requests'[t].nonce = cached_nonce
        /\ requests'[t].attempt = requests[t].attempt /\ requests'[t].ok = requests[t].ok
    BY <2>2, <1>0, <1>1, Moved
  <2>5. Dead(requests[t].nonce)' => Dead(cached_nonce)
    <3>1. requests'[t].nonce \in Held' \/ cached_nonce = None BY <2>4 DEF Held
    <3> QED BY <3>1, <2>4, <1>2 DEF Dead
  <2>6. ~Dead(cached_nonce)' BY <2>3 DEF Dead
  <2>7. Doomed(t)' => Doomed(t) BY <1>3, <2>1, <2>4, <2>5, <2>6 DEF Doomed
  <2>8. requests'[t].attempt + Own(t)' <= requests[t].attempt + Own(t) BY <1>1, <2>4, <2>7 DEF Own
  <2>9. \A u \in Tasks : u # t => requests'[t].nonce # requests[u].nonce BY <1>0, <1>4, <2>4 DEF NoncesApart
  <2>10. executed'[t] = 0 /\ executed' \in [Tasks -> Nat] BY <1>0, <1>2, <1>3 DEF Effects, TransportTypeOK
  <2>11. cached_nonce' \in Nat /\ requests'[t].nonce # cached_nonce' BY <2>3, <2>4, <1>4 DEF None
  <2>12. s \in {"outer", "send"} BY <2>1
  <2>13. cached_nonce' = None /\ requests'[t].nonce # None /\ s \notin {"answered", "check", "done", "limit"} BY <2>3, <2>4, <2>12, <1>4
  <2>14. NonceFlow(t) BY <2>9, <2>11, <2>13 DEF NonceFlow
  <2>15. DeadFlow(t) BY <2>4, <2>5, <2>6, <2>13 DEF DeadFlow
  <2>16. EffectOf(t) BY <2>4, <2>10, <2>13, <1>2 DEF EffectOf
  <2>17. CountOf(t) BY <2>4, <2>8, <2>13 DEF CountOf
  <2>18. live \ {requests[t].nonce} \subseteq live OBVIOUS
  <2> QED BY <1>2, <2>4, <2>11, <2>14, <2>15, <2>16, <2>17, <2>18, TaskStepKeeps
<1>5. CASE cached_nonce = None
  <2>1. PICK s \in Steps : s = IF requests[t].step = "inner" THEN "headInner" ELSE "head" BY DEF Steps
  <2>2. requests' = [requests EXCEPT ![t].step = s] /\ cached_nonce' = cached_nonce BY <1>5, <2>1 DEF fetch_nonce
  <2>3. requests' = [requests EXCEPT ![t].step = s, ![t].nonce = requests[t].nonce]
    <3>1. requests[t] = [requests[t] EXCEPT !.nonce = requests[t].nonce] BY <1>1 DEF RequestRecords
    <3>2. [requests[t] EXCEPT !.step = s] = [requests[t] EXCEPT !.step = s, !.nonce = requests[t].nonce] BY <1>1 DEF RequestRecords
    <3> QED BY <2>2, <3>2
  <2>4. /\ Alone(t) /\ requests'[t].step = s /\ requests'[t].nonce = requests[t].nonce
        /\ requests'[t].attempt = requests[t].attempt /\ requests'[t].ok = requests[t].ok
    BY <2>3, <1>0, <1>1, Moved
  <2>5. Dead(requests[t].nonce)' => Dead(requests[t].nonce)
    <3>1. requests'[t].nonce \in Held' \/ requests[t].nonce = None BY <2>4 DEF Held
    <3> QED BY <3>1, <2>4, <1>2 DEF Dead
  <2>6. ~Dead(cached_nonce)' BY <2>2, <1>5 DEF Dead
  <2>12. s \in {"headInner", "head"} BY <2>1
  <2>7. ~Doomed(t)' BY <2>4, <2>6, <2>12 DEF Doomed
  <2>8. requests'[t].attempt + Own(t)' <= requests[t].attempt + Own(t) BY <1>1, <2>4, <2>7 DEF Own
  <2>9. requests'[t].nonce # None => requests'[t].nonce # cached_nonce' /\ \A u \in Tasks : u # t => requests'[t].nonce # requests[u].nonce
    BY <1>0, <2>2, <2>4 DEF NoncesApart
  <2>10. executed'[t] = 0 /\ executed' \in [Tasks -> Nat] BY <1>0, <1>2, <1>3 DEF Effects, TransportTypeOK
  <2>13. cached_nonce' \in Nat /\ s \notin {"send", "answered", "check", "done", "limit"} BY <2>2, <2>12, <1>1
  <2>14. NonceFlow(t) BY <2>2, <2>4, <2>9, <2>13 DEF NonceFlow
  <2>15. DeadFlow(t) BY <2>4, <2>5, <2>6, <2>13 DEF DeadFlow
  <2>16. EffectOf(t) BY <2>4, <2>10, <2>13, <1>2 DEF EffectOf
  <2>17. CountOf(t) BY <2>4, <2>8, <2>13 DEF CountOf
  <2>18. live \ {requests[t].nonce} \subseteq live OBVIOUS
  <2> QED BY <1>2, <2>4, <2>13, <2>14, <2>15, <2>16, <2>17, <2>18, TaskStepKeeps
<1> QED BY <1>4, <1>5

LEMMA NewNonceKeeps ==
    ASSUME TransportAssumption, TransportInv, NEW t \in Tasks, new_nonce(t)
    PROVE  TransportInv'
<1>0. TransportTypeOK /\ NoncesApart /\ Effects /\ FirstRun BY DEF TransportInv
<1>1. requests[t] \in RequestRecords /\ cached_nonce \in Nat /\ requests[t].nonce \in Nat /\ requests[t].attempt \in Nat
  BY <1>0 DEF TransportTypeOK, RequestRecords
<1>f. PICK f : f = FreshNonce OBVIOUS
<1>g. f \in Nat /\ f # None /\ f # cached_nonce /\ \A u \in Tasks : f # requests[u].nonce
  <2>1. f \in Nat \ {0} /\ f \notin Held BY <1>0, <1>f, FreshIsNew
  <2> QED BY <2>1 DEF Held, None
<1>2. UNCHANGED <<cached_nonce, executed, restarts>> /\ live' = (live \union {f}) \cap Held' /\ sent' = {}
  BY <1>0, <1>f DEF new_nonce, Nonces, NoncesApart
<1>3. requests[t].step \in {"headInner", "head"} BY DEF new_nonce
<1>4. PICK s \in Steps : s = IF requests[t].step = "headInner" THEN "outer" ELSE "send" BY DEF Steps
<1>5. requests' = [requests EXCEPT ![t].step = s, ![t].nonce = f] BY <1>4, <1>f DEF new_nonce
<1>6. /\ Alone(t) /\ requests'[t].step = s /\ requests'[t].nonce = f
      /\ requests'[t].attempt = requests[t].attempt /\ requests'[t].ok = requests[t].ok
  BY <1>5, <1>0, <1>g, Moved
<1>7. ~Dead(requests[t].nonce)'
  <2>1. requests'[t].nonce \in Held' BY <1>6, <1>g DEF Held
  <2> QED BY <2>1, <1>2, <1>6 DEF Dead
<1>p. live \ {requests[t].nonce} \subseteq live \union {f} OBVIOUS
<1>8. Dead(cached_nonce)' => Dead(cached_nonce) BY <1>0, <1>2, <1>6, <1>p, OthersLive
<1>9. Doomed(t)' => Doomed(t) BY <1>3, <1>4, <1>6, <1>7, <1>8 DEF Doomed
<1>10. requests'[t].attempt + Own(t)' <= requests[t].attempt + Own(t) BY <1>1, <1>6, <1>9 DEF Own
<1>11. executed'[t] = 0 /\ executed' \in [Tasks -> Nat] BY <1>0, <1>2, <1>3 DEF Effects, TransportTypeOK
<1>12. s \in {"outer", "send"} BY <1>4
<1>13. cached_nonce' \in Nat /\ s \notin {"answered", "check", "done", "limit"} BY <1>1, <1>2, <1>12
<1>14. requests'[t].nonce # None /\ requests'[t].nonce # cached_nonce' /\ \A u \in Tasks : u # t => requests'[t].nonce # requests[u].nonce
  BY <1>g, <1>2, <1>6
<1>15. NonceFlow(t) BY <1>2, <1>14 DEF NonceFlow
<1>16. DeadFlow(t) BY <1>7, <1>8 DEF DeadFlow
<1>17. EffectOf(t) BY <1>2, <1>6, <1>11, <1>13 DEF EffectOf
<1>18. CountOf(t) BY <1>6, <1>10, <1>13 DEF CountOf
<1> QED BY <1>2, <1>p, <1>6, <1>13, <1>15, <1>16, <1>17, <1>18, TaskStepKeeps

(* A step that drops the task's nonce and keeps the cache.                 *)
LEMMA DropKeeps ==
    ASSUME TransportAssumption, TransportInv, NEW t \in Tasks, NEW s \in {"failed", "done", "limit"}, Goto(t, s),
           UNCHANGED <<cached_nonce, executed, restarts>>, Nonces(live, sent),
           s = "done" => requests[t].step = "check" /\ requests[t].ok,
           s = "limit" => requests[t].step = "check" /\ ~requests[t].ok /\ requests[t].attempt = MaxAttempts - 1
    PROVE  TransportInv'
<1>0. TransportTypeOK /\ NoncesApart /\ Effects /\ FirstRun BY DEF TransportInv
<1>1. requests[t] \in RequestRecords /\ cached_nonce \in Nat /\ requests[t].attempt \in Nat BY <1>0 DEF TransportTypeOK, RequestRecords
<1>2. live' = live \cap Held' /\ sent' = {} BY <1>0 DEF Nonces, NoncesApart
<1>3. s \in Steps /\ None \in Nat BY DEF Steps, None
<1>4. requests' = [requests EXCEPT ![t].step = s, ![t].nonce = None] BY DEF Goto
<1>5. /\ Alone(t) /\ requests'[t].step = s /\ requests'[t].nonce = None
      /\ requests'[t].attempt = requests[t].attempt /\ requests'[t].ok = requests[t].ok
  BY <1>0, <1>3, <1>4, Moved
<1>p. live \ {requests[t].nonce} \subseteq live OBVIOUS
<1>6. Dead(cached_nonce)' => Dead(cached_nonce) BY <1>0, <1>2, <1>5, <1>p, OthersLive
<1>7. ~Dead(requests[t].nonce)' BY <1>5 DEF Dead
<1>8. ~Doomed(t)' BY <1>5 DEF Doomed
<1>9. requests'[t].attempt + Own(t)' <= requests[t].attempt + Own(t) BY <1>1, <1>5, <1>8 DEF Own
<1>10. NonceFlow(t) BY <1>5 DEF NonceFlow
<1>11. DeadFlow(t) BY <1>6, <1>7 DEF DeadFlow
<1>12. EffectOf(t)
  <2>1. executed' \in [Tasks -> Nat] /\ executed'[t] = executed[t] /\ executed[t] <= 1 BY <1>0 DEF TransportTypeOK, Effects
  <2>2. s = "done" => executed[t] = 1 BY <1>0 DEF Effects
  <2>3. s = "limit" => executed[t] = 0 BY <1>0 DEF Effects
  <2> QED BY <1>5, <2>1, <2>2, <2>3 DEF EffectOf
<1>13. CountOf(t) BY <1>5, <1>9 DEF CountOf
<1> QED BY <1>1, <1>2, <1>5, <1>p, <1>10, <1>11, <1>12, <1>13, TaskStepKeeps

LEMMA HttpErrorKeeps ==
    ASSUME TransportAssumption, TransportInv, NEW t \in Tasks, HttpError(t) \/ post_jws_once(t)
    PROVE  TransportInv'
<1>1. Goto(t, "failed") /\ UNCHANGED <<cached_nonce, executed, restarts>> /\ Nonces(live, sent) BY DEF HttpError, post_jws_once
<1> QED BY <1>1, DropKeeps

LEMMA ServeKeeps ==
    ASSUME TransportAssumption, TransportInv, NEW t \in Tasks, NEW header \in BOOLEAN, Serve(t, header)
    PROVE  TransportInv'
<1>0. TransportTypeOK /\ NoncesApart /\ Effects /\ FirstRun BY DEF TransportInv
<1>1. requests[t] \in RequestRecords /\ cached_nonce \in Nat /\ requests[t].nonce \in Nat /\ requests[t].attempt \in Nat
  BY <1>0 DEF TransportTypeOK, RequestRecords
<1>f. PICK f : f = FreshNonce OBVIOUS
<1>g. f \in Nat /\ f # None /\ f # cached_nonce /\ \A u \in Tasks : f # requests[u].nonce
  <2>1. f \in Nat \ {0} /\ f \notin Held BY <1>0, <1>f, FreshIsNew
  <2> QED BY <2>1 DEF Held, None
<1>n. PICK n \in Nat : n = requests[t].nonce BY <1>1
<1>k. PICK good \in BOOLEAN : good = (n \in live)
  <2>1. (n \in live) \in BOOLEAN OBVIOUS
  <2> QED BY <2>1
<1>m. PICK m \in Nat : m = IF header THEN f ELSE None BY <1>g DEF None
<1>2. requests[t].step = "send" /\ UNCHANGED <<cached_nonce, restarts>> BY DEF Serve
<1>3. requests' = [requests EXCEPT ![t].step = "answered", ![t].ok = good, ![t].nonce = m] BY <1>f, <1>n, <1>k, <1>m DEF Serve
<1>4. executed' = IF good THEN [executed EXCEPT ![t] = executed[t] + 1] ELSE executed BY <1>n, <1>k DEF Serve
<1>5. live' = ((live \ {n}) \union {f}) \cap Held' /\ sent' = (sent \union {n}) \cap Held' BY <1>f, <1>n DEF Serve, Nonces
<1>6. /\ Alone(t) /\ requests'[t].step = "answered" /\ requests'[t].nonce = m
      /\ requests'[t].attempt = requests[t].attempt /\ requests'[t].ok = good
  BY <1>0, <1>3, ReplyRead
<1>7. n # None BY <1>0, <1>2, <1>n DEF NoncesApart
<1>8. n \notin Held'
  <2>1. n # cached_nonce' BY <1>0, <1>2, <1>n, <1>7 DEF NoncesApart
  <2>2. n # m BY <1>g, <1>m, <1>n, <1>7
  <2>3. \A u \in Tasks : n # requests'[u].nonce
    <3> TAKE u \in Tasks
    <3>1. CASE u = t BY <3>1, <2>2, <1>6
    <3>2. CASE u # t BY <3>2, <1>0, <1>6, <1>n, <1>7 DEF Alone, NoncesApart
    <3> QED BY <3>1, <3>2
  <2> QED BY <2>1, <2>3 DEF Held
<1>9. sent' = {} BY <1>0, <1>5, <1>8 DEF NoncesApart
<1>p. live \ {requests[t].nonce} \subseteq (live \ {n}) \union {f} BY <1>n
<1>10. Dead(cached_nonce)' => Dead(cached_nonce) BY <1>0, <1>2, <1>5, <1>6, <1>p, OthersLive
<1>11. ~Dead(requests[t].nonce)'
  <2>1. m # None => m = f /\ m \in Held' BY <1>m, <1>6 DEF Held
  <2> QED BY <2>1, <1>5, <1>6 DEF Dead
<1>12. Doomed(t)' <=> ~good BY <1>6 DEF Doomed
<1>13. Doomed(t) <=> ~good BY <1>2, <1>7, <1>k, <1>n DEF Doomed, Dead
<1>14. requests'[t].attempt + Own(t)' <= requests[t].attempt + Own(t) BY <1>1, <1>6, <1>12, <1>13 DEF Own
<1>15. NonceFlow(t) BY <1>g, <1>m, <1>2, <1>6 DEF NonceFlow
<1>16. DeadFlow(t) BY <1>10, <1>11 DEF DeadFlow
<1>17. EffectOf(t)
  <2>1. executed[t] = 0 /\ executed \in [Tasks -> Nat] BY <1>0, <1>2 DEF Effects, TransportTypeOK
  <2>2. executed' \in [Tasks -> Nat] /\ \A u \in Tasks : u # t => executed'[u] = executed[u] BY <1>4, <2>1
  <2>3. executed'[t] = IF good THEN 1 ELSE 0 BY <1>4, <2>1
  <2> QED BY <1>6, <2>2, <2>3 DEF EffectOf
<1>18. CountOf(t) BY <1>6, <1>14 DEF CountOf
<1>19. cached_nonce' \in Nat /\ restarts' = restarts BY <1>1, <1>2
<1> QED BY <1>5, <1>6, <1>9, <1>p, <1>15, <1>16, <1>17, <1>18, <1>19, TaskStepKeeps

LEMMA PostRawKeeps ==
    ASSUME TransportAssumption, TransportInv, NEW t \in Tasks, http_post_raw(t)
    PROVE  TransportInv'
<1>0. TransportTypeOK /\ NoncesApart /\ Effects /\ FirstRun BY DEF TransportInv
<1>1. requests[t] \in RequestRecords /\ cached_nonce \in Nat /\ requests[t].nonce \in Nat /\ requests[t].attempt \in Nat
  BY <1>0 DEF TransportTypeOK, RequestRecords
<1>2. requests[t].step = "answered" /\ UNCHANGED <<executed, restarts>> /\ live' = live \cap Held' /\ sent' = {}
  BY <1>0 DEF http_post_raw, Nonces, NoncesApart
<1>3. cached_nonce' = IF requests[t].nonce # None THEN requests[t].nonce ELSE cached_nonce BY DEF http_post_raw
<1>4. requests' = [requests EXCEPT ![t].step = "check", ![t].nonce = None] BY DEF http_post_raw, Goto
<1>s. "check" \in Steps /\ None \in Nat BY DEF Steps, None
<1>5. /\ Alone(t) /\ requests'[t].step = "check" /\ requests'[t].nonce = None
      /\ requests'[t].attempt = requests[t].attempt /\ requests'[t].ok = requests[t].ok
  BY <1>0, <1>s, <1>4, Moved
<1>p. live \ {requests[t].nonce} \subseteq live OBVIOUS
<1>6. Dead(cached_nonce)' => Dead(cached_nonce) \/ Dead(requests[t].nonce)
  <2>1. cached_nonce' # None => cached_nonce' \in Held' BY DEF Held
  <2> QED BY <2>1, <1>2, <1>3 DEF Dead
<1>7. ~Dead(requests[t].nonce)' BY <1>5 DEF Dead
<1>8. Doomed(t)' => Doomed(t) BY <1>2, <1>5 DEF Doomed
<1>9. requests'[t].attempt + Own(t)' <= requests[t].attempt + Own(t) BY <1>1, <1>5, <1>8 DEF Own
<1>10. NonceFlow(t) BY <1>3, <1>5 DEF NonceFlow
<1>11. DeadFlow(t) BY <1>2, <1>5, <1>6, <1>7 DEF DeadFlow
<1>12. EffectOf(t)
  <2>1. executed' \in [Tasks -> Nat] /\ executed[t] <= 1 /\ executed[t] = IF requests[t].ok THEN 1 ELSE 0
    BY <1>0, <1>2 DEF TransportTypeOK, Effects
  <2> QED BY <1>2, <1>5, <2>1 DEF EffectOf
<1>13. CountOf(t) BY <1>5, <1>9 DEF CountOf
<1>14. cached_nonce' \in Nat /\ restarts' = restarts BY <1>1, <1>2, <1>3
<1> QED BY <1>2, <1>5, <1>p, <1>10, <1>11, <1>12, <1>13, <1>14, TaskStepKeeps

LEMMA LoopKeeps ==
    ASSUME TransportAssumption, TransportInv, NEW t \in Tasks, BadNonceLoop(t)
    PROVE  TransportInv'
<1>0. TransportTypeOK /\ NoncesApart /\ Effects /\ FirstRun BY DEF TransportInv
<1>1. requests[t] \in RequestRecords /\ cached_nonce \in Nat /\ requests[t].nonce \in Nat /\ requests[t].attempt \in 0..(MaxAttempts - 1)
  BY <1>0 DEF TransportTypeOK, RequestRecords
<1>2. requests[t].step = "check" /\ UNCHANGED <<executed, restarts>> /\ Nonces(live, sent) BY DEF BadNonceLoop
<1>3. CASE requests[t].ok
  <2>1. Goto(t, "done") /\ UNCHANGED cached_nonce BY <1>3 DEF BadNonceLoop
  <2> QED BY <1>2, <1>3, <2>1, DropKeeps
<1>4. CASE ~requests[t].ok /\ requests[t].attempt = MaxAttempts - 1
  <2>1. Goto(t, "limit") /\ UNCHANGED cached_nonce BY <1>4 DEF BadNonceLoop
  <2> QED BY <1>2, <1>4, <2>1, DropKeeps
<1>5. CASE ~requests[t].ok /\ requests[t].attempt # MaxAttempts - 1
  <2>1. Again(t) /\ cached_nonce' = None BY <1>5 DEF BadNonceLoop, Again
  <2>2. requests[t].attempt + 1 \in 0..(MaxAttempts - 1) /\ requests[t].attempt \in Nat BY <1>1, <1>5 DEF MaxAttempts
  <2>3. /\ Alone(t) /\ requests'[t].step = "outer" /\ requests'[t].nonce = requests[t].nonce
        /\ requests'[t].attempt = requests[t].attempt + 1
    BY <1>0, <2>1, <2>2, Retried
  <2>4. live' = live \cap Held' /\ sent' = {} BY <1>0, <1>2 DEF Nonces, NoncesApart
  <2>5. ~Dead(cached_nonce)' BY <2>1 DEF Dead
  <2>6. Dead(requests[t].nonce)' => Dead(requests[t].nonce)
    <3>1. requests'[t].nonce \in Held' \/ requests[t].nonce = None BY <2>3 DEF Held
    <3> QED BY <3>1, <2>3, <2>4 DEF Dead
  <2>7. ~Doomed(t)' /\ Doomed(t) BY <1>2, <1>5, <2>3, <2>5 DEF Doomed
  <2>8. requests'[t].attempt + Own(t)' <= requests[t].attempt + Own(t) BY <2>2, <2>3, <2>7 DEF Own
  <2>9. NonceFlow(t) BY <1>0, <2>1, <2>3 DEF NonceFlow, NoncesApart
  <2>10. DeadFlow(t) BY <2>3, <2>5, <2>6 DEF DeadFlow
  <2>11. EffectOf(t)
    <3>1. executed[t] = 0 /\ executed' \in [Tasks -> Nat] BY <1>0, <1>2, <1>5 DEF Effects, TransportTypeOK
    <3> QED BY <3>1, <1>2, <2>3 DEF EffectOf
  <2>12. CountOf(t) BY <2>3, <2>8 DEF CountOf
  <2>13. cached_nonce' \in Nat /\ restarts' = restarts /\ live \ {requests[t].nonce} \subseteq live BY <2>1, <1>2 DEF None
  <2> QED BY <2>3, <2>4, <2>9, <2>10, <2>11, <2>12, <2>13, TaskStepKeeps
<1> QED BY <1>3, <1>4, <1>5

LEMMA NextRequestKeeps ==
    ASSUME TransportAssumption, TransportInv, NEW t \in Tasks, NextRequest(t)
    PROVE  TransportInv'
<1>0. TransportTypeOK /\ NoncesApart /\ Effects /\ FirstRun BY DEF TransportInv
<1>1. requests[t] \in RequestRecords /\ cached_nonce \in Nat BY <1>0 DEF TransportTypeOK, RequestRecords
<1>2. UNCHANGED <<cached_nonce, live, sent, restarts>> /\ sent' = {} BY <1>0 DEF NextRequest, NoncesApart
<1>3. PICK s \in Steps : s = FirstStep(plan[t][2]) BY DEF FirstStep, Steps
<1>4. s \in {"inner", "outer"} BY <1>3 DEF FirstStep
<1>5. requests' = [requests EXCEPT ![t].step = s, ![t].attempt = 0, ![t].ok = FALSE, ![t].second = TRUE] BY <1>3 DEF NextRequest
<1>6. Alone(t) /\ requests'[t].step = s /\ requests'[t].nonce = requests[t].nonce /\ requests'[t].attempt = 0 BY <1>0, <1>5, Begun
<1>7. Held' = Held
  <2>1. \A u \in Tasks : requests'[u].nonce = requests[u].nonce BY <1>6 DEF Alone
  <2> QED BY <1>2, <2>1 DEF Held
<1>8. live' = live \cap Held' BY <1>0, <1>2, <1>7 DEF NoncesApart
<1>9. Dead(requests[t].nonce)' => Dead(requests[t].nonce) BY <1>2, <1>6 DEF Dead
<1>10. Dead(cached_nonce)' => Dead(cached_nonce) BY <1>2 DEF Dead
<1>11. NonceFlow(t) BY <1>0, <1>2, <1>4, <1>6 DEF NonceFlow, NoncesApart
<1>12. DeadFlow(t) BY <1>4, <1>6, <1>9, <1>10 DEF DeadFlow
<1>13. executed' = [executed EXCEPT ![t] = 0] /\ executed \in [Tasks -> Nat] BY <1>0 DEF NextRequest, TransportTypeOK
<1>14. EffectOf(t) BY <1>4, <1>6, <1>13 DEF EffectOf
<1>15. CountOf(t) BY <1>4, <1>6 DEF CountOf
<1>16. cached_nonce' \in Nat /\ restarts' = restarts /\ live \ {requests[t].nonce} \subseteq live BY <1>1, <1>2
<1> QED BY <1>2, <1>6, <1>8, <1>11, <1>12, <1>14, <1>15, <1>16, TaskStepKeeps

(* A restart spoils what every task holds: one attempt for each.           *)
LEMMA RestartKeeps ==
    ASSUME TransportAssumption, TransportInv, ServerRestart
    PROVE  TransportInv'
<1>0. TransportTypeOK /\ NoncesApart /\ Effects /\ FirstRun /\ \A v \in Tasks : Counted(v) BY DEF TransportInv
<1>1. /\ restarts' = restarts + 1 /\ live' = {} /\ sent' = {} /\ UNCHANGED <<cached_nonce, requests, executed>>
  BY <1>0 DEF ServerRestart, NoncesApart
<1>2. restarts \in Nat /\ restarts' # 0 /\ restarts' \in Nat BY <1>0, <1>1 DEF TransportTypeOK
<1>3. TransportTypeOK' BY <1>0, <1>1, <1>2 DEF TransportTypeOK, RequestRecords, Steps, MaxAttempts
<1>4. NoncesApart' BY <1>0, <1>1 DEF NoncesApart, None
<1>5. Effects' BY <1>0, <1>1 DEF Effects
<1>6. FirstRun' BY <1>2 DEF FirstRun
<1>7. ASSUME NEW t \in Tasks PROVE Counted(t)'
  <2>1. PICK q : q = Queue(t)' OBVIOUS
  <2>2. PICK n : n = Cardinality(Tasks) OBVIOUS
  <2>3. Cardinality(q) \in Nat /\ Cardinality(q) + 1 <= n /\ n \in Nat
    <3>1. IsFiniteSet(Tasks) /\ n \in Nat BY <2>2, FS_CardinalityType DEF TransportAssumption
    <3>2. IsFiniteSet(Tasks \ {t}) /\ Cardinality(Tasks \ {t}) = n - 1 BY <2>2, <3>1, FS_RemoveElement
    <3>3. q \subseteq Tasks \ {t} BY <2>1 DEF Queue
    <3>4. IsFiniteSet(q) /\ Cardinality(q) <= Cardinality(Tasks \ {t}) BY <3>2, <3>3, FS_Subset
    <3> QED BY <3>1, <3>2, <3>4, FS_CardinalityType
  <2>4. Own(t)' \in Nat /\ Own(t)' <= 1 BY DEF Own
  <2>5. PICK r \in Nat : r = restarts BY <1>2
  <2>6. n * (r + 1) = n * r + n /\ n * r \in Nat
    <3>1. n \in Nat /\ r \in Nat BY <2>3
    <3> QED BY <3>1
  <2>7. Restarted' = n * (r + 1) /\ Restarted = n * r BY <1>1, <2>2, <2>5 DEF Restarted
  <2>8. PICK c \in Nat : c = Cardinality(Queue(t)) BY QueueFinite
  <2>9. PICK o \in Nat : o = Own(t) BY DEF Own
  <2>10. PICK a \in Nat : a = requests[t].attempt BY <1>0 DEF TransportTypeOK, RequestRecords
  <2>11. a + c + o <= n * r BY <1>0, <2>7, <2>8, <2>9, <2>10 DEF Counted
  <2>12. PICK d \in Nat : d = Cardinality(q) BY <2>3
  <2>13. PICK e \in Nat : e = Own(t)' BY <2>4
  <2>14. a + d + e <= n * (r + 1)
    <3>1. d + 1 <= n /\ e <= 1 BY <2>3, <2>4, <2>12, <2>13
    <3>2. PICK p \in Nat : p = n * r BY <2>6
    <3>3. a + d + e <= p + n BY <2>3, <2>11, <3>1, <3>2
    <3> QED BY <2>6, <3>2, <3>3
  <2>15. requests'[t].attempt = a /\ requests'[t].step = requests[t].step BY <1>1, <2>10
  <2>16. requests[t].step = "limit" => n * r >= MaxAttempts BY <1>0, <2>7 DEF Counted
  <2>17. requests[t].step = "limit" => n * (r + 1) >= MaxAttempts
    <3>1. PICK p \in Nat : p = n * r BY <2>6
    <3> QED BY <3>1, <2>3, <2>6, <2>16 DEF MaxAttempts
  <2>18. MaxAttempts' = MaxAttempts BY DEF MaxAttempts
  <2> QED BY <2>1, <2>7, <2>12, <2>13, <2>14, <2>15, <2>17, <2>18 DEF Counted
<1> QED BY <1>3, <1>4, <1>5, <1>6, <1>7 DEF TransportInv

LEMMA TransportStarts ==
    ASSUME TransportAssumption, TransportInit
    PROVE  TransportInv
<1>1. \A t \in Tasks : /\ requests[t].step \in {"inner", "outer"} /\ requests[t].attempt = 0 /\ requests[t].nonce = None
                       /\ requests[t].ok = FALSE /\ requests[t].second = FALSE
  BY DEF TransportInit, FirstStep
<1>2. cached_nonce = None /\ live = {} /\ sent = {} /\ restarts = 0 /\ executed = [t \in Tasks |-> 0] BY DEF TransportInit
<1>3. requests \in [Tasks -> RequestRecords]
  <2>1. 0 \in 0..(MaxAttempts - 1) /\ None \in Nat BY DEF MaxAttempts, None
  <2>2. \A t \in Tasks : FirstStep(plan[t][1]) \in Steps BY DEF FirstStep, Steps
  <2> QED BY <2>1, <2>2 DEF TransportInit, RequestRecords
<1>4. TransportTypeOK BY <1>2, <1>3 DEF TransportTypeOK, None
<1>5. NoncesApart BY <1>1, <1>2 DEF NoncesApart
<1>6. Effects BY <1>1, <1>2 DEF Effects
<1>7. ~Dead(cached_nonce) /\ \A t \in Tasks : ~Dead(requests[t].nonce) BY <1>1, <1>2 DEF Dead
<1>8. FirstRun BY <1>7 DEF FirstRun
<1>9. ASSUME NEW t \in Tasks PROVE Counted(t)
  <2>1. Queue(t) = {} BY <1>7 DEF Queue
  <2>2. Own(t) = 0 BY <1>1, <1>7 DEF Own, Doomed
  <2>3. Cardinality(Tasks) \in Nat BY FS_CardinalityType DEF TransportAssumption
  <2>4. Restarted = 0 BY <1>2, <2>3 DEF Restarted
  <2> QED BY <1>1, <2>1, <2>2, <2>4, FS_EmptySet DEF Counted
<1> QED BY <1>4, <1>5, <1>6, <1>8, <1>9 DEF TransportInv

(* Over any number of tasks and server restarts, and whatever requests and *)
(* responses are lost: no nonce is sent twice, the server carries a        *)
(* request out at most once and exactly once when the client reports       *)
(* success, and a request is given up for badNonce only after restarts     *)
(* times tasks reached MaxAttempts (fetch_nonce, http_post_raw and the     *)
(* retry loop of post_kid and its copies).                                 *)
THEOREM RequestsTakeEffectOnce == TransportSpec => []RequestsOnce
<1>1. TransportInit => TransportInv BY TransportAssumption, TransportStarts
<1>2. TransportInv /\ [TransportNext]_transportVars => TransportInv'
  <2> SUFFICES ASSUME TransportInv, [TransportNext]_transportVars PROVE TransportInv' OBVIOUS
  <2>0. TransportAssumption BY TransportAssumption
  <2>1. ASSUME NEW t \in Tasks, fetch_nonce(t) PROVE TransportInv' BY <2>0, <2>1, FetchKeeps
  <2>2. ASSUME NEW t \in Tasks, new_nonce(t) PROVE TransportInv' BY <2>0, <2>2, NewNonceKeeps
  <2>3. ASSUME NEW t \in Tasks, NEW h \in BOOLEAN, Serve(t, h) PROVE TransportInv' BY <2>0, <2>3, ServeKeeps
  <2>4. ASSUME NEW t \in Tasks, http_post_raw(t) PROVE TransportInv' BY <2>0, <2>4, PostRawKeeps
  <2>5. ASSUME NEW t \in Tasks, NextRequest(t) PROVE TransportInv' BY <2>0, <2>5, NextRequestKeeps
  <2>6. ASSUME NEW t \in Tasks, Post(t) PROVE TransportInv'
    <3>1. BadNonceLoop(t)
      BY <2>6 DEF Post, post_kid, post_kid_raw, post_new_account, post_find_account, revoke_certificate_with_cert_key
    <3> QED BY <2>0, <2>6, <3>1, LoopKeeps
  <2>7. ASSUME NEW t \in Tasks, HttpError(t) \/ post_jws_once(t) PROVE TransportInv' BY <2>0, <2>7, HttpErrorKeeps
  <2>8. CASE ServerRestart BY <2>0, <2>8, RestartKeeps
  <2>9. CASE UNCHANGED transportVars
    BY <2>9 DEF transportVars, TransportInv, TransportTypeOK, RequestRecords, Steps, MaxAttempts, NoncesApart, Held, Effects,
                FirstRun, Dead, Counted, Queue, Own, Doomed, Restarted
  <2> QED BY <2>1, <2>2, <2>3, <2>4, <2>5, <2>6, <2>7, <2>8, <2>9 DEF TransportNext, TaskStep
<1>3. TransportInv => RequestsOnce
  <2> SUFFICES ASSUME TransportInv PROVE RequestsOnce OBVIOUS
  <2>1. NonceSentOnce BY DEF TransportInv, NoncesApart, NonceSentOnce
  <2>2. CarriedOutOnce BY DEF TransportInv, Effects, CarriedOutOnce
  <2>3. RestartsSurvived
    <3>1. PICK n \in Nat : n = Cardinality(Tasks) BY TransportAssumption, FS_CardinalityType DEF TransportAssumption
    <3>2. PICK r \in Nat : r = restarts BY DEF TransportInv, TransportTypeOK
    <3>3. r * n = n * r
      <4>1. n \in Nat /\ r \in Nat OBVIOUS
      <4> QED BY <4>1
    <3>4. restarts * Cardinality(Tasks) = Restarted BY <3>1, <3>2, <3>3 DEF Restarted
    <3> QED BY <3>4 DEF TransportInv, Counted, RestartsSurvived
  <2> QED BY <2>1, <2>2, <2>3 DEF RequestsOnce
<1> QED BY <1>1, <1>2, <1>3, PTL DEF TransportSpec

-----------------------------------------------------------------------------
(* One start after another over the same files.                            *)
StartSteps ==
    {"off", "config", "validate", "database", "crdtDatabase", "nodeKeys", "saveNodeKeys", "cas", "writeCaKey", "writeCaCert", "mtcKey",
     "mtcLog", "seedLog", "tls", "writeTlsKey", "writeTlsCert", "admin", "writeCredentials", "writeOpCert", "insertOperator",
     "services", "listen", "serving"}
PastParse == StartSteps \ {"off", "config"}
Named == {"cas", "writeCaKey", "writeCaCert"}
Serving == {"services", "listen", "serving"}
Enrolling == {"writeCredentials", "writeOpCert", "insertOperator"}
TlsDone == {"admin"} \union Enrolling \union Serving
MtcDone == {"tls", "writeTlsKey", "writeTlsCert"} \union TlsDone
CaDone == {"mtcKey", "mtcLog", "seedLog"} \union MtcDone

PairRecords == [key : Int, issuer : Int]
DiskRecords ==
    [caKey : Int, caCert : PairRecords, mtcKey : Int, log : {"none", "empty", "seeded"}, tlsKey : Int, tlsCert : PairRecords,
     opKey : Int, opCert : PairRecords, p12 : PairRecords, socket : BOOLEAN]
RowRecords == [node : [sign : Int, kem : Int], operators : SUBSET [fingerprint : Int, principal : Int]]
ProcRecords == [step : StartSteps, node : Int, ca : Int, key : Int]
StartupTypeOK ==
    /\ config \in Configs /\ disk \in DiskRecords /\ rows \in RowRecords /\ proc \in ProcRecords /\ keys \in Nat
    /\ served \subseteq Configs

(* What lies on disk: a certificate is missing, half written, or fits the  *)
(* key beside it and was signed by the CA that is there.                   *)
CaWhole == disk.caCert.key > 0
CaFits ==
    /\ disk.caCert = NoPair \/ disk.caCert = TornPair \/ CaWhole
    /\ config.signer = "file" /\ CaWhole => disk.caKey = disk.caCert.key
    /\ config.signer = "hsm" /\ CaWhole => disk.caCert.key = HsmKey
    /\ config.signer = "dogtag" => disk.caCert = Pair(DogtagKey, DogtagKey)
Issued(p) == p = NoPair \/ p = TornPair \/ (p.key > 0 /\ CaWhole /\ p.issuer = disk.caCert.key)
FilesFit ==
    /\ CaFits /\ Issued(disk.tlsCert) /\ Issued(disk.opCert) /\ Issued(disk.p12)
    /\ disk.tlsCert.key > 0 => disk.tlsKey = disk.tlsCert.key
    /\ disk.opCert.key > 0 => disk.opKey = disk.opCert.key

(* What a configuration needs to be served.                                *)
CredentialsThere(c) ==
    /\ c.admin = "p12" => disk.p12.key > 0
    /\ c.admin = "pem" => disk.opCert.key > 0 /\ disk.opKey # Absent
OperatorKnown(c) ==
    /\ c.admin = "gssapi" => \E o \in rows.operators : o.principal = Principal
    /\ c.admin = "p12" => disk.p12.key \in Fingerprints
    /\ c.admin = "pem" => disk.opCert.key \in Fingerprints
Sections(c) == c.flaw # "section" /\ ~(c.tls /\ c.listen = "unix") /\ \A section \in c.gssapi : Cardinality(section) = 1
Signs(c) == c.signer = config.signer /\ (c.tls \/ c.admin # "none" => c.signer # "dogtag")
Fit(c) ==
    /\ Sections(c) /\ c.flaw \notin {"algorithm", "late", "webui"} /\ Signs(c)
    /\ CaWhole /\ (c.mtc => disk.mtcKey > 0) /\ (c.tls => disk.tlsCert.key > 0)
    /\ CredentialsThere(c) /\ OperatorKnown(c)
ServedFit == \A c \in served : Fit(c)

(* Where a start is, and what it has made sure of.                         *)
Checked ==
    /\ proc.step \in PastParse => Sections(config)
    /\ proc.step \in PastParse \ {"validate"} => config.flaw # "algorithm"
    /\ proc.step \in {"listen", "serving"} => config.flaw # "late"
CaStep ==
    /\ proc.step = "writeCaKey" => config.signer = "file" /\ disk.caCert = NoPair /\ proc.ca > 0
    /\ proc.step = "writeCaCert" =>
          /\ disk.caCert = NoPair /\ proc.ca > 0 /\ config.signer # "dogtag"
          /\ config.signer = "file" => disk.caKey = proc.ca
          /\ config.signer = "hsm" => proc.ca = HsmKey
    /\ proc.step \in CaDone => CaWhole /\ proc.ca = disk.caCert.key
MtcStep ==
    /\ proc.step \in {"mtcKey", "mtcLog", "seedLog"} => config.mtc
    /\ proc.step \in {"mtcLog", "seedLog"} => disk.mtcKey > 0
    /\ proc.step \in MtcDone /\ config.mtc => disk.mtcKey > 0 /\ disk.log # "none"
    /\ disk.log = "empty" => unseeded \/ proc.step = "seedLog"
TlsStep ==
    /\ proc.step \in {"writeTlsKey", "writeTlsCert"} => disk.tlsCert = NoPair /\ proc.key > 0 /\ config.tls /\ config.signer # "dogtag"
    /\ proc.step = "writeTlsCert" => disk.tlsKey = proc.key
    /\ proc.step \in TlsDone /\ config.tls => disk.tlsCert # NoPair /\ config.signer # "dogtag"
    /\ proc.step = "serving" /\ config.tls => disk.tlsCert.key > 0
AdminStep ==
    /\ proc.step \in Enrolling =>
          config.admin \in {"p12", "pem"} /\ config.signer # "dogtag" /\ rows.operators = {} /\ proc.key > 0
    /\ proc.step = "writeCredentials" => Credentials = NoPair
    /\ proc.step = "writeOpCert" => config.admin = "pem" /\ disk.opCert = NoPair /\ disk.opKey = proc.key
    /\ proc.step = "insertOperator" => Credentials = Pair(proc.key, proc.ca) /\ (config.admin = "pem" => disk.opKey = proc.key)
    /\ proc.step \in Serving => CredentialsThere(config) /\ (config.admin # "none" => config.signer # "dogtag")
    /\ proc.step \in Serving => OperatorKnown(config) \/ (proc.step = "serving" /\ edited)
NodeStep ==
    /\ announced \subseteq {rows.node.sign}
    /\ announced # {} => rows.node.sign > 0
    /\ rows.node = NoTable \/ rows.node = NoRow \/ rows.node.sign > 0
    /\ proc.step = "nodeKeys" => rows.node # NoTable
    /\ proc.step = "saveNodeKeys" => proc.node > 0 /\ (rows.node = NoRow \/ proc.node = rows.node.sign)
    /\ proc.step \in Named \union CaDone => proc.node > 0 /\ proc.node = rows.node.sign

(* Why the last start ended, as long as nothing was changed since.         *)
Because(why) ==
    /\ why = "caFiles" => ~CaWhole
    /\ why = "mtcKey" => disk.mtcKey = Torn
    /\ why = "tlsFiles" => ~(disk.tlsCert.key > 0)
    /\ why = "operatorFile" => config.admin \in {"p12", "pem"} /\ ~(CredentialsThere(config) /\ OperatorKnown(config))
    /\ why \notin {"no", "database", "locked"} => ~Fit(config)
RefusedFor == (refused # "no" => proc.step = "off") /\ Because(refused)
StartInv == StartupTypeOK /\ FilesFit /\ ServedFit /\ Checked /\ CaStep /\ MtcStep /\ TlsStep /\ AdminStep /\ NodeStep /\ RefusedFor

-----------------------------------------------------------------------------
(* Writing one file.                                                       *)
CaSame == disk'.caKey = disk.caKey /\ disk'.caCert = disk.caCert
MtcSame == disk'.mtcKey = disk.mtcKey /\ disk'.log = disk.log
TlsSame == disk'.tlsKey = disk.tlsKey /\ disk'.tlsCert = disk.tlsCert
OpSame == disk'.opKey = disk.opKey /\ disk'.opCert = disk.opCert /\ disk'.p12 = disk.p12

LEMMA CaKeyWritten ==
    ASSUME disk \in DiskRecords, NEW v \in Int, disk' = [disk EXCEPT !.caKey = v]
    PROVE  disk' \in DiskRecords /\ disk'.caKey = v /\ disk'.caCert = disk.caCert /\ MtcSame /\ TlsSame /\ OpSame
BY DEF DiskRecords, MtcSame, TlsSame, OpSame

LEMMA CaCertWritten ==
    ASSUME disk \in DiskRecords, NEW v \in PairRecords, disk' = [disk EXCEPT !.caCert = v]
    PROVE  disk' \in DiskRecords /\ disk'.caCert = v /\ disk'.caKey = disk.caKey /\ MtcSame /\ TlsSame /\ OpSame
BY DEF DiskRecords, MtcSame, TlsSame, OpSame

LEMMA MtcKeyWritten ==
    ASSUME disk \in DiskRecords, NEW v \in Int, disk' = [disk EXCEPT !.mtcKey = v]
    PROVE  disk' \in DiskRecords /\ disk'.mtcKey = v /\ disk'.log = disk.log /\ CaSame /\ TlsSame /\ OpSame
BY DEF DiskRecords, CaSame, TlsSame, OpSame

LEMMA LogWritten ==
    ASSUME disk \in DiskRecords, NEW v \in {"none", "empty", "seeded"}, disk' = [disk EXCEPT !.log = v]
    PROVE  disk' \in DiskRecords /\ disk'.log = v /\ disk'.mtcKey = disk.mtcKey /\ CaSame /\ TlsSame /\ OpSame
BY DEF DiskRecords, CaSame, TlsSame, OpSame

LEMMA TlsKeyWritten ==
    ASSUME disk \in DiskRecords, NEW v \in Int, disk' = [disk EXCEPT !.tlsKey = v]
    PROVE  disk' \in DiskRecords /\ disk'.tlsKey = v /\ disk'.tlsCert = disk.tlsCert /\ CaSame /\ MtcSame /\ OpSame
BY DEF DiskRecords, CaSame, MtcSame, OpSame

LEMMA TlsCertWritten ==
    ASSUME disk \in DiskRecords, NEW v \in PairRecords, disk' = [disk EXCEPT !.tlsCert = v]
    PROVE  disk' \in DiskRecords /\ disk'.tlsCert = v /\ disk'.tlsKey = disk.tlsKey /\ CaSame /\ MtcSame /\ OpSame
BY DEF DiskRecords, CaSame, MtcSame, OpSame

LEMMA OpKeyWritten ==
    ASSUME disk \in DiskRecords, NEW v \in Int, disk' = [disk EXCEPT !.opKey = v]
    PROVE  disk' \in DiskRecords /\ disk'.opKey = v /\ disk'.opCert = disk.opCert /\ disk'.p12 = disk.p12 /\ CaSame /\ MtcSame /\ TlsSame
BY DEF DiskRecords, CaSame, MtcSame, TlsSame

LEMMA OpCertWritten ==
    ASSUME disk \in DiskRecords, NEW v \in PairRecords, disk' = [disk EXCEPT !.opCert = v]
    PROVE  disk' \in DiskRecords /\ disk'.opCert = v /\ disk'.opKey = disk.opKey /\ disk'.p12 = disk.p12 /\ CaSame /\ MtcSame /\ TlsSame
BY DEF DiskRecords, CaSame, MtcSame, TlsSame

LEMMA P12Written ==
    ASSUME disk \in DiskRecords, NEW v \in PairRecords, disk' = [disk EXCEPT !.p12 = v]
    PROVE  disk' \in DiskRecords /\ disk'.p12 = v /\ disk'.opKey = disk.opKey /\ disk'.opCert = disk.opCert /\ CaSame /\ MtcSame /\ TlsSame
BY DEF DiskRecords, CaSame, MtcSame, TlsSame

LEMMA SocketWritten ==
    ASSUME disk \in DiskRecords, NEW v \in BOOLEAN, disk' = [disk EXCEPT !.socket = v]
    PROVE  disk' \in DiskRecords /\ disk'.socket = v /\ CaSame /\ MtcSame /\ TlsSame /\ OpSame
BY DEF DiskRecords, CaSame, MtcSame, TlsSame, OpSame
(* A start that moves on without a write.                                  *)
LEMMA Went ==
    ASSUME proc \in ProcRecords, NEW s \in StartSteps, Go(s)
    PROVE  proc' \in ProcRecords /\ proc'.step = s /\ proc'.node = proc.node /\ proc'.ca = proc.ca /\ proc'.key = proc.key
BY DEF ProcRecords, Go

LEMMA FilesStay ==
    ASSUME FilesFit, config'.signer = config.signer, CaSame, TlsSame, OpSame
    PROVE  FilesFit'
BY DEF FilesFit, CaFits, CaWhole, Issued, CaSame, TlsSame, OpSame, NoPair, TornPair, Pair, HsmKey, DogtagKey, Absent, Torn

LEMMA FitStays ==
    ASSUME NEW c, Fit(c), config'.signer = config.signer, CaWhole => CaWhole',
           c.mtc /\ disk.mtcKey > 0 => disk'.mtcKey > 0, c.tls /\ disk.tlsCert.key > 0 => disk'.tlsCert.key > 0,
           CredentialsThere(c) => CredentialsThere(c)', CredentialsThere(c) /\ OperatorKnown(c) => OperatorKnown(c)'
    PROVE  Fit(c)'
BY DEF Fit, Sections, Signs

(* An operator row that is there stays what it is.                         *)
LEMMA AdminStays ==
    ASSUME NEW c, OpSame, rows.operators \subseteq rows'.operators
    PROVE  /\ CredentialsThere(c) => CredentialsThere(c)'
           /\ OperatorKnown(c) => OperatorKnown(c)'
BY DEF OpSame, CredentialsThere, OperatorKnown, Fingerprints, Absent, Principal

LEMMA GoWith ==
    ASSUME StartInv, proc.step # "off", UNCHANGED <<config, refused>>, served' = served, keys' \in Nat, proc' \in ProcRecords,
           disk' \in DiskRecords, rows' \in RowRecords, FilesFit', ServedFit',
           Checked', CaStep', MtcStep', TlsStep', AdminStep', NodeStep'
    PROVE  StartInv'
<1>0. StartupTypeOK /\ RefusedFor BY DEF StartInv
<1>4. RefusedFor' BY <1>0 DEF RefusedFor, Because
<1>5. StartupTypeOK' BY <1>0 DEF StartupTypeOK, DiskRecords, PairRecords, RowRecords, ProcRecords, StartSteps
<1> QED BY <1>4, <1>5 DEF StartInv

LEMMA GoOn ==
    ASSUME StartInv, proc.step # "off", UNCHANGED <<config, disk, rows, refused, history>>, keys' \in Nat, proc' \in ProcRecords,
           Checked', CaStep', MtcStep', TlsStep', AdminStep', NodeStep'
    PROVE  StartInv'
<1>0. StartupTypeOK /\ FilesFit /\ ServedFit BY DEF StartInv
<1>1. CaSame /\ MtcSame /\ TlsSame /\ OpSame BY DEF CaSame, MtcSame, TlsSame, OpSame
<1>2. FilesFit' BY <1>0, <1>1, FilesStay
<1>3. ServedFit'
  <2> SUFFICES ASSUME NEW c \in served PROVE Fit(c)' BY DEF ServedFit, history
  <2>1. Fit(c) BY <1>0 DEF ServedFit
  <2>2. (CredentialsThere(c) => CredentialsThere(c)') /\ (OperatorKnown(c) => OperatorKnown(c)')
    <3>1. rows.operators \subseteq rows'.operators OBVIOUS
    <3> QED BY <1>1, <3>1, AdminStays
  <2>3. CaWhole => CaWhole' BY DEF CaWhole
  <2>4. disk' = disk /\ config' = config OBVIOUS
  <2> QED BY <2>1, <2>2, <2>3, <2>4, FitStays
<1>4. disk' \in DiskRecords /\ rows' \in RowRecords /\ served' = served BY <1>0 DEF StartupTypeOK, history
<1> QED BY <1>2, <1>3, <1>4, GoWith

(* A start that ends in an error.                                          *)
LEMMA Stopped ==
    ASSUME StartInv, proc.step \notin {"off", "seedLog"}, UNCHANGED <<config, disk, rows, keys, history>>,
           NEW why, Stop(why), Because(why)
    PROVE  StartInv'
<1>0. StartupTypeOK /\ FilesFit /\ ServedFit /\ MtcStep /\ NodeStep BY DEF StartInv
<1>1. CaSame /\ MtcSame /\ TlsSame /\ OpSame BY DEF CaSame, MtcSame, TlsSame, OpSame
<1>2. FilesFit' BY <1>0, <1>1, FilesStay
<1>3. ASSUME NEW c, Fit(c) PROVE Fit(c)' BY <1>3 DEF Fit, Sections, Signs, CaWhole, CredentialsThere, OperatorKnown, Fingerprints
<1>4. ServedFit' BY <1>0, <1>3 DEF ServedFit, history
<1>5. proc' = Off /\ refused' = why BY DEF Stop
<1>6. proc'.step = "off" /\ proc' \in ProcRecords BY <1>5 DEF Off, ProcRecords, StartSteps, Absent
<1>7. RefusedFor'
  <2>1. Because(why)' BY DEF Because, Fit, Sections, Signs, CaWhole, CredentialsThere, OperatorKnown, Fingerprints, Torn, Absent, Principal
  <2> QED BY <1>5, <1>6, <2>1 DEF RefusedFor, Because
<1>8. StartupTypeOK' BY <1>0, <1>6 DEF StartupTypeOK, DiskRecords, PairRecords, RowRecords, ProcRecords, StartSteps, history
<1>9. Checked' /\ CaStep' /\ TlsStep' /\ AdminStep'
  BY <1>6 DEF Checked, CaStep, TlsStep, AdminStep, PastParse, StartSteps, CaDone, MtcDone, TlsDone, Enrolling, Serving
<1>10. MtcStep' BY <1>0, <1>1, <1>6 DEF MtcStep, MtcSame, MtcDone, TlsDone, Enrolling, Serving, history
<1>11. NodeStep' BY <1>0, <1>6 DEF NodeStep, Named, CaDone, MtcDone, TlsDone, Enrolling, Serving, history, NoTable, NoRow, Torn, Absent
<1> QED BY <1>2, <1>4, <1>7, <1>8, <1>9, <1>10, <1>11 DEF StartInv
-----------------------------------------------------------------------------
(* What a start has made sure of stays so, and what it has not come to yet *)
(* asks for nothing.                                                       *)
LEMMA CheckedStays ==
    ASSUME Checked, config' = config, proc.step \in PastParse \ {"validate"}, proc'.step \in PastParse \ {"validate", "listen", "serving"}
    PROVE  Checked'
BY DEF Checked, Sections, PastParse, StartSteps

LEMMA NodeStays ==
    ASSUME NodeStep, proc.step \in Named \union CaDone, proc'.step \in Named \union CaDone, proc'.node = proc.node,
           rows'.node = rows.node, announced' = announced
    PROVE  NodeStep'
BY DEF NodeStep, Named, CaDone, MtcDone, TlsDone, Enrolling, Serving, NoTable, NoRow, Torn, Absent

LEMMA CaStays ==
    ASSUME CaStep, CaSame, proc.step \in CaDone, proc'.step \in CaDone, proc'.ca = proc.ca
    PROVE  CaStep'
BY DEF CaStep, CaSame, CaWhole, CaDone, MtcDone, TlsDone, Enrolling, Serving

LEMMA MtcStays ==
    ASSUME MtcStep, MtcSame, config' = config, unseeded => unseeded', proc.step \in MtcDone, proc'.step \in MtcDone
    PROVE  MtcStep'
BY DEF MtcStep, MtcSame, MtcDone, TlsDone, Enrolling, Serving

LEMMA MtcAhead ==
    ASSUME MtcStep, MtcSame, unseeded => unseeded', proc.step # "seedLog", proc'.step \notin MtcDone \union {"mtcKey", "mtcLog", "seedLog"}
    PROVE  MtcStep'
BY DEF MtcStep, MtcSame

LEMMA TlsStays ==
    ASSUME TlsStep, TlsSame, config' = config, proc.step \in TlsDone, proc'.step \in TlsDone \ {"serving"}
    PROVE  TlsStep'
BY DEF TlsStep, TlsSame, TlsDone, Enrolling, Serving, NoPair, Pair, Absent

LEMMA TlsAhead ==
    ASSUME proc'.step \notin TlsDone \union {"writeTlsKey", "writeTlsCert"}
    PROVE  TlsStep'
BY DEF TlsStep, TlsDone, Enrolling, Serving

LEMMA AdminAhead ==
    ASSUME proc'.step \notin Enrolling \union Serving
    PROVE  AdminStep'
BY DEF AdminStep, Enrolling, Serving

LEMMA CaAhead ==
    ASSUME proc'.step \notin CaDone \union {"writeCaKey", "writeCaCert"}
    PROVE  CaStep'
BY DEF CaStep, CaDone, MtcDone, TlsDone, Enrolling, Serving

LEMMA Parts ==
    ASSUME StartInv
    PROVE  /\ StartupTypeOK /\ FilesFit /\ ServedFit /\ Checked /\ CaStep /\ MtcStep /\ TlsStep /\ AdminStep /\ NodeStep /\ RefusedFor
           /\ config \in Configs /\ disk \in DiskRecords /\ rows \in RowRecords /\ proc \in ProcRecords /\ keys \in Nat
           /\ proc.step # "off" => refused = "no"
BY DEF StartInv, StartupTypeOK, RefusedFor

LEMMA NothingWritten ==
    ASSUME UNCHANGED disk
    PROVE  CaSame /\ MtcSame /\ TlsSame /\ OpSame
BY DEF CaSame, MtcSame, TlsSame, OpSame

(* The configuration, the databases and the node's keys.                   *)
LEMMA EarlyGo ==
    ASSUME StartInv, proc.step \notin {"off", "seedLog"}, UNCHANGED <<config, disk, rows, keys, refused, history>>,
           NEW s \in {"validate", "database", "crdtDatabase"}, Go(s), Checked'
    PROVE  StartInv'
<1>0. MtcStep /\ NodeStep /\ proc \in ProcRecords /\ keys \in Nat BY Parts
<1>1. s \in StartSteps BY DEF StartSteps
<1>2. proc' \in ProcRecords /\ proc'.step = s BY <1>0, <1>1, Went
<1>3. CaSame /\ MtcSame /\ TlsSame /\ OpSame BY NothingWritten
<1>4. proc'.step \notin CaDone \union MtcDone \union TlsDone \union Enrolling \union Serving \union Named
  BY <1>2 DEF CaDone, MtcDone, TlsDone, Enrolling, Serving, Named
<1>5. CaStep' /\ TlsStep' /\ AdminStep' BY <1>2, <1>4, CaAhead, TlsAhead, AdminAhead
<1>6. MtcStep' BY <1>0, <1>2, <1>3, <1>4, MtcAhead DEF history
<1>7. NodeStep' BY <1>0, <1>2, <1>4 DEF NodeStep, history, NoTable, NoRow, Torn, Absent
<1> QED BY <1>0, <1>2, <1>5, <1>6, <1>7, GoOn

LEMMA ValidateKeeps ==
    ASSUME StartInv, validate_config
    PROVE  StartInv'
<1>0. proc \in ProcRecords BY Parts
<1>1. proc.step = "config" /\ UNCHANGED <<config, disk, rows, keys, history>> BY DEF validate_config, At
<1>2. SectionsOk /\ ListenOk /\ AcceptorsOk <=> Sections(config) BY DEF SectionsOk, ListenOk, AcceptorsOk, Sections
<1>3. CASE Sections(config)
  <2>1. Go("validate") /\ UNCHANGED refused BY <1>2, <1>3 DEF validate_config
  <2>2. "validate" \in StartSteps BY DEF StartSteps
  <2>3. proc'.step = "validate" BY <1>0, <2>1, <2>2, Went
  <2>4. Checked' BY <1>1, <1>3, <2>3 DEF Checked, Sections, PastParse, StartSteps
  <2> QED BY <1>1, <2>1, <2>4, EarlyGo
<1>4. CASE ~Sections(config)
  <2>1. Stop("config") BY <1>2, <1>4 DEF validate_config
  <2>2. Because("config") BY <1>4 DEF Because, Fit
  <2> QED BY <1>1, <2>1, <2>2, Stopped
<1> QED BY <1>3, <1>4

LEMMA ValidateStartupKeeps ==
    ASSUME StartInv, validate_startup_config
    PROVE  StartInv'
<1>0. Checked /\ proc \in ProcRecords BY Parts
<1>1. proc.step = "validate" /\ UNCHANGED <<config, disk, rows, keys, history>> BY DEF validate_startup_config, At
<1>2. CASE config.flaw # "algorithm"
  <2>1. Go("database") /\ UNCHANGED refused BY <1>2 DEF validate_startup_config
  <2>2. "database" \in StartSteps BY DEF StartSteps
  <2>3. proc'.step = "database" BY <1>0, <2>1, <2>2, Went
  <2>4. Checked' BY <1>0, <1>1, <1>2, <2>3 DEF Checked, Sections, PastParse, StartSteps
  <2> QED BY <1>1, <2>1, <2>4, EarlyGo
<1>3. CASE config.flaw = "algorithm"
  <2>1. Stop("config") BY <1>3 DEF validate_startup_config
  <2>2. Because("config") BY <1>3 DEF Because, Fit
  <2> QED BY <1>1, <2>1, <2>2, Stopped
<1> QED BY <1>2, <1>3

LEMMA DatabasesKeep ==
    ASSUME StartInv, open_databases
    PROVE  StartInv'
<1>0. Checked /\ proc \in ProcRecords BY Parts
<1>1. proc.step = "database" /\ UNCHANGED <<config, disk, rows, keys, history>> BY DEF open_databases, At
<1>2. CASE Go("crdtDatabase") /\ UNCHANGED refused
  <2>1. "crdtDatabase" \in StartSteps BY DEF StartSteps
  <2>2. proc'.step = "crdtDatabase" BY <1>0, <1>2, <2>1, Went
  <2>3. Checked' BY <1>0, <1>1, <2>2 DEF Checked, Sections, PastParse, StartSteps
  <2> QED BY <1>1, <1>2, <2>3, EarlyGo
<1>3. CASE Stop("database")
  <2>1. Because("database") BY DEF Because
  <2> QED BY <1>1, <1>3, <2>1, Stopped
<1> QED BY <1>2, <1>3 DEF open_databases

(* Rows are written and no file is: what was served fits as long as no     *)
(* operator is lost.                                                       *)
LEMMA RowsServe ==
    ASSUME StartInv, UNCHANGED <<config, disk>>, served' = served, rows.operators \subseteq rows'.operators
    PROVE  FilesFit' /\ ServedFit'
<1>0. FilesFit /\ ServedFit BY Parts
<1>1. CaSame /\ MtcSame /\ TlsSame /\ OpSame BY NothingWritten
<1>2. FilesFit' BY <1>0, <1>1, FilesStay
<1>3. ServedFit'
  <2> SUFFICES ASSUME NEW c \in served PROVE Fit(c)' BY DEF ServedFit
  <2>1. Fit(c) BY <1>0 DEF ServedFit
  <2>2. (CredentialsThere(c) => CredentialsThere(c)') /\ (OperatorKnown(c) => OperatorKnown(c)') BY <1>1, AdminStays
  <2>3. CaWhole => CaWhole' BY DEF CaWhole
  <2>4. disk' = disk /\ config' = config OBVIOUS
  <2> QED BY <2>1, <2>2, <2>3, <2>4, FitStays
<1> QED BY <1>2, <1>3

LEMMA CrdtDbKeeps ==
    ASSUME StartInv, open_crdt_db
    PROVE  StartInv'
<1>0. Checked /\ MtcStep /\ NodeStep /\ proc \in ProcRecords /\ keys \in Nat /\ rows \in RowRecords /\ disk \in DiskRecords BY Parts
<1>1. proc.step = "crdtDatabase" /\ UNCHANGED <<config, disk, keys, history>> /\ served' = served BY DEF open_crdt_db, At, history
<1>2. CASE Stop("database") /\ UNCHANGED rows
  <2>1. Because("database") BY DEF Because
  <2> QED BY <1>1, <1>2, <2>1, Stopped
<1>3. CASE /\ rows' = [rows EXCEPT !.node = IF @ = NoTable THEN NoRow ELSE @]
           /\ Go("nodeKeys") /\ UNCHANGED refused
  <2>1. "nodeKeys" \in StartSteps BY DEF StartSteps
  <2>2. proc' \in ProcRecords /\ proc'.step = "nodeKeys" BY <1>0, <1>3, <2>1, Went
  <2>3. CaSame /\ MtcSame /\ TlsSame /\ OpSame BY <1>1, NothingWritten
  <2>4. /\ rows' \in RowRecords /\ rows'.operators = rows.operators
        /\ rows'.node = IF rows.node = NoTable THEN NoRow ELSE rows.node
    BY <1>0, <1>3 DEF RowRecords, NoRow, Absent
  <2>5. Checked' BY <1>0, <1>1, <2>2, CheckedStays DEF PastParse, StartSteps
  <2>6. proc'.step \notin CaDone \union MtcDone \union TlsDone \union Enrolling \union Serving \union Named
    BY <2>2 DEF CaDone, MtcDone, TlsDone, Enrolling, Serving, Named
  <2>7. CaStep' /\ TlsStep' /\ AdminStep' BY <2>2, <2>6, CaAhead, TlsAhead, AdminAhead
  <2>8. MtcStep' BY <1>0, <1>1, <2>2, <2>3, <2>6, MtcAhead DEF history
  <2>9. NodeStep'
    <3>1. announced' = announced BY <1>1 DEF history
    <3>2. NoTable # NoRow /\ NoRow.sign = 0 /\ NoTable.sign = -1 BY DEF NoTable, NoRow, Torn, Absent
    <3>3. rows'.node # NoTable /\ (rows.node # NoTable => rows'.node = rows.node) BY <2>4, <3>2
    <3>4. announced # {} => rows'.node = rows.node BY <1>0, <3>2, <3>3 DEF NodeStep
    <3>5. rows'.node = NoRow \/ rows'.node.sign > 0 BY <1>0, <2>4 DEF NodeStep
    <3>6. announced' \subseteq {rows'.node.sign} /\ (announced' # {} => rows'.node.sign > 0) BY <1>0, <3>1, <3>4 DEF NodeStep
    <3>7. rows'.node # NoTable' /\ (rows'.node = NoRow' \/ rows'.node.sign > 0) BY <3>3, <3>5 DEF NoTable, NoRow, Torn, Absent
    <3> QED BY <2>2, <2>6, <3>6, <3>7 DEF NodeStep
  <2>10. FilesFit' /\ ServedFit' BY <1>1, <2>4, RowsServe
  <2> QED BY <1>0, <1>1, <1>3, <2>2, <2>4, <2>5, <2>7, <2>8, <2>9, <2>10, GoWith
<1> QED BY <1>2, <1>3 DEF open_crdt_db
LEMMA NodeKeysKeep ==
    ASSUME StartInv, load_or_generate_node_keys
    PROVE  StartInv'
<1>0. Checked /\ MtcStep /\ NodeStep /\ proc \in ProcRecords /\ keys \in Nat /\ rows \in RowRecords BY Parts
<1>1. proc.step = "nodeKeys" /\ UNCHANGED <<config, disk, rows, refused, history>> /\ announced' = announced
  BY DEF load_or_generate_node_keys, At, history
<1>2. rows.node # NoTable BY <1>0, <1>1 DEF NodeStep
<1>3. PICK n, s : /\ proc' = [proc EXCEPT !.node = n, !.step = s] /\ keys' \in Nat /\ n \in Int /\ n > 0 /\ s \in {"cas", "saveNodeKeys"}
                  /\ s = "cas" => n = rows.node.sign
                  /\ rows.node = NoRow \/ n = rows.node.sign
  <2>1. CASE load_node_keys # NoRow
    <3>1. PICK s : s = IF load_node_keys.kem # Absent THEN "cas" ELSE "saveNodeKeys" OBVIOUS
    <3>2. PICK n : n = rows.node.sign OBVIOUS
    <3>3. proc' = [proc EXCEPT !.node = n, !.step = s] /\ keys' = keys BY <2>1, <3>1, <3>2 DEF load_or_generate_node_keys, load_node_keys
    <3>4. n \in Int /\ n > 0 BY <1>0, <1>2, <2>1, <3>2 DEF NodeStep, RowRecords, load_node_keys
    <3> QED BY <1>0, <3>1, <3>2, <3>3, <3>4
  <2>2. CASE load_node_keys = NoRow
    <3>1. proc' = [proc EXCEPT !.node = NewKey, !.step = "saveNodeKeys"] /\ keys' = NewKey BY <2>2 DEF load_or_generate_node_keys
    <3>2. PICK n : n = NewKey OBVIOUS
    <3>3. n \in Nat /\ n \in Int /\ n > 0 BY <1>0, <3>2 DEF NewKey
    <3>4. PICK s : s = "saveNodeKeys" OBVIOUS
    <3>5. proc' = [proc EXCEPT !.node = n, !.step = s] /\ keys' \in Nat BY <3>1, <3>2, <3>3, <3>4
    <3>6. rows.node = NoRow /\ s # "cas" /\ s \in {"cas", "saveNodeKeys"} BY <2>2, <3>4 DEF load_node_keys
    <3> QED BY <3>3, <3>4, <3>5, <3>6
  <2> QED BY <2>1, <2>2
<1>4. s \in StartSteps BY <1>3 DEF StartSteps
<1>5. proc' \in ProcRecords /\ proc'.step = s /\ proc'.node = n BY <1>0, <1>3, <1>4 DEF ProcRecords
<1>6. CaSame /\ MtcSame /\ TlsSame /\ OpSame BY <1>1, NothingWritten
<1>7. Checked' BY <1>0, <1>1, <1>3, <1>5, CheckedStays DEF PastParse, StartSteps
<1>8. proc'.step \notin CaDone \union MtcDone \union TlsDone \union Enrolling \union Serving
  BY <1>3, <1>5 DEF CaDone, MtcDone, TlsDone, Enrolling, Serving
<1>9. CaStep' /\ TlsStep' /\ AdminStep' BY <1>3, <1>5, <1>8, CaAhead, TlsAhead, AdminAhead
<1>10. MtcStep' BY <1>0, <1>1, <1>3, <1>5, <1>6, <1>8, MtcAhead DEF history
<1>11. NodeStep'
  <2>1. NoTable' = NoTable /\ NoRow' = NoRow BY DEF NoTable, NoRow, Torn, Absent
  <2> QED BY <1>0, <1>1, <1>2, <1>3, <1>5, <1>8, <2>1 DEF NodeStep, Named
<1> QED BY <1>1, <1>3, <1>5, <1>7, <1>9, <1>10, <1>11, GoOn

LEMMA SaveNodeKeysKeep ==
    ASSUME StartInv, save_node_keys
    PROVE  StartInv'
<1>0. Checked /\ MtcStep /\ NodeStep /\ proc \in ProcRecords /\ keys \in Nat /\ rows \in RowRecords /\ disk \in DiskRecords BY Parts
<1>1. proc.step = "saveNodeKeys" /\ UNCHANGED <<config, disk, keys, refused, history>> /\ announced' = announced /\ served' = served
  BY DEF save_node_keys, At, history
<1>2. proc.node > 0 /\ proc.node \in Int /\ (rows.node = NoRow \/ proc.node = rows.node.sign) BY <1>0, <1>1 DEF NodeStep, ProcRecords
<1>3. rows' = [rows EXCEPT !.node = [sign |-> proc.node, kem |-> proc.node]] BY DEF save_node_keys
<1>4. rows' \in RowRecords /\ rows'.operators = rows.operators /\ rows'.node.sign = proc.node BY <1>0, <1>2, <1>3 DEF RowRecords
<1>5. "cas" \in StartSteps BY DEF StartSteps
<1>6. proc' \in ProcRecords /\ proc'.step = "cas" /\ proc'.node = proc.node BY <1>0, <1>5, Went DEF save_node_keys
<1>7. CaSame /\ MtcSame /\ TlsSame /\ OpSame BY <1>1, NothingWritten
<1>8. Checked' BY <1>0, <1>1, <1>6, CheckedStays DEF PastParse, StartSteps
<1>9. proc'.step \notin CaDone \union MtcDone \union TlsDone \union Enrolling \union Serving
  BY <1>6 DEF CaDone, MtcDone, TlsDone, Enrolling, Serving
<1>10. CaStep' /\ TlsStep' /\ AdminStep' BY <1>6, <1>9, CaAhead, TlsAhead, AdminAhead
<1>11. MtcStep' BY <1>0, <1>1, <1>6, <1>7, <1>9, MtcAhead DEF history
<1>12. NodeStep'
  <2>1. NoRow.sign = 0 BY DEF NoRow, Absent
  <2>2. announced # {} => rows'.node.sign = rows.node.sign BY <1>0, <1>2, <1>4, <2>1 DEF NodeStep
  <2>3. announced \subseteq {rows'.node.sign} BY <1>0, <2>2 DEF NodeStep
  <2> QED BY <1>1, <1>2, <1>4, <1>6, <1>9, <2>3 DEF NodeStep
<1>13. FilesFit' /\ ServedFit' BY <1>1, <1>4, RowsServe
<1> QED BY <1>0, <1>1, <1>4, <1>6, <1>8, <1>10, <1>11, <1>12, <1>13, GoWith

-----------------------------------------------------------------------------
(* The CA.                                                                 *)
(* A start whose CA is there goes on to the MTC log, or past it.           *)
LEMMA CaFound ==
    ASSUME StartInv, proc.step \in {"cas", "writeCaCert"}, UNCHANGED <<config, announced>>, unseeded' = unseeded, rows' = rows,
           NEW k, proc' = [proc EXCEPT !.ca = k, !.step = AfterCa], k \in Int, disk' \in DiskRecords,
           CaWhole', k = disk'.caCert.key, MtcSame
    PROVE  proc' \in ProcRecords /\ Checked' /\ CaStep' /\ MtcStep' /\ TlsStep' /\ AdminStep' /\ NodeStep'
<1>0. Checked /\ MtcStep /\ NodeStep /\ proc \in ProcRecords BY Parts
<1>1. PICK s : s = AfterCa OBVIOUS
<1>2. s \in {"mtcKey", "tls"} /\ (s = "tls" => ~config.mtc) /\ (s = "mtcKey" => config.mtc) BY <1>1 DEF AfterCa
<1>3. s \in StartSteps BY <1>2 DEF StartSteps
<1>4. proc' \in ProcRecords /\ proc'.step = s /\ proc'.node = proc.node /\ proc'.ca = k BY <1>0, <1>1, <1>3 DEF ProcRecords
<1>5. Checked' BY <1>0, <1>2, <1>4, CheckedStays DEF PastParse, StartSteps
<1>6. proc'.step \in CaDone /\ proc'.step \notin TlsDone \union Enrolling \union Serving
  BY <1>2, <1>4 DEF CaDone, MtcDone, TlsDone, Enrolling, Serving
<1>7. CaStep' BY <1>2, <1>4, <1>6 DEF CaStep
<1>8. TlsStep' /\ AdminStep' BY <1>2, <1>4, <1>6, TlsAhead, AdminAhead
<1>9. MtcStep' BY <1>0, <1>2, <1>4 DEF MtcStep, MtcSame, MtcDone, TlsDone, Enrolling, Serving
<1>10. NodeStep' BY <1>0, <1>4, <1>6, NodeStays DEF Named
<1> QED BY <1>4, <1>5, <1>7, <1>8, <1>9, <1>10

LEMMA LoadKeeps ==
    ASSUME StartInv, load \/ load_pkcs11 \/ load_dogtag
    PROVE  StartInv'
<1>0. FilesFit /\ proc \in ProcRecords /\ keys \in Nat /\ disk \in DiskRecords BY Parts
<1>1. /\ proc.step = "cas" /\ UNCHANGED <<config, disk, rows, history>>
      /\ announced' = announced /\ unseeded' = unseeded /\ keys' = keys
  BY DEF load, load_pkcs11, load_dogtag, At, UseCa, history
<1>2. CASE Stop("caFiles")
  <2>1. ~CaWhole
    <3>1. CASE load /\ Stop("caFiles")
      <4>1. config.signer = "file" /\ disk.caCert # NoPair /\ (disk.caKey = Torn \/ disk.caCert = TornPair)
        BY <3>1 DEF load, UseCa, Stop, Off, AfterCa
      <4>2. TornPair.key = -1 /\ Torn = -1 BY DEF TornPair, Pair, Torn
      <4> QED BY <1>0, <4>1, <4>2 DEF FilesFit, CaFits, CaWhole
    <3>2. CASE load_pkcs11 /\ Stop("caFiles")
      <4>1. disk.caCert = TornPair BY <3>2 DEF load_pkcs11, UseCa, Stop, Off, AfterCa
      <4> QED BY <4>1 DEF CaWhole, TornPair, Pair, Torn
    <3>3. CASE load_dogtag /\ Stop("caFiles")
      <4>1. disk.caCert = NoPair BY <3>3 DEF load_dogtag, UseCa, Stop, Off, AfterCa
      <4> QED BY <4>1 DEF CaWhole, NoPair, Pair, Absent
    <3> QED BY <1>2, <3>1, <3>2, <3>3
  <2>2. Because("caFiles") BY <2>1 DEF Because, Fit
  <2> QED BY <1>1, <1>2, <2>2, Stopped
<1>3. ASSUME NEW k, UseCa(k), k \in Int, k = disk.caCert.key, CaWhole PROVE StartInv'
  <2>1. proc' = [proc EXCEPT !.ca = k, !.step = AfterCa] /\ UNCHANGED <<keys, refused>> BY <1>3 DEF UseCa
  <2>2. CaSame /\ MtcSame BY <1>1, NothingWritten
  <2>3. CaWhole' /\ k = disk'.caCert.key BY <1>1, <1>3 DEF CaWhole
  <2>4. proc' \in ProcRecords /\ Checked' /\ CaStep' /\ MtcStep' /\ TlsStep' /\ AdminStep' /\ NodeStep'
    BY <1>0, <1>1, <1>3, <2>1, <2>2, <2>3, CaFound
  <2> QED BY <1>0, <1>1, <2>1, <2>4, GoOn
<1>4. CASE load /\ ~Stop("caFiles")
  <2>1. config.signer = "file" /\ disk.caCert # NoPair /\ disk.caCert # TornPair /\ UseCa(disk.caKey) BY <1>4 DEF load
  <2>2. CaWhole /\ disk.caKey = disk.caCert.key BY <1>0, <2>1 DEF FilesFit, CaFits
  <2> QED BY <1>0, <1>3, <2>1, <2>2 DEF DiskRecords
<1>5. CASE load_pkcs11 /\ ~Stop("caFiles")
  <2>1. config.signer = "hsm" /\ disk.caCert # NoPair /\ disk.caCert # TornPair /\ UseCa(HsmKey) BY <1>5 DEF load_pkcs11
  <2>2. CaWhole /\ HsmKey = disk.caCert.key BY <1>0, <2>1 DEF FilesFit, CaFits
  <2> QED BY <1>3, <2>1, <2>2 DEF HsmKey
<1>6. CASE load_dogtag /\ ~Stop("caFiles")
  <2>1. config.signer = "dogtag" /\ UseCa(disk.caCert.key) BY <1>6 DEF load_dogtag
  <2>2. disk.caCert.key = DogtagKey BY <1>0, <2>1 DEF FilesFit, CaFits, Pair
  <2>3. CaWhole /\ disk.caCert.key \in Int BY <2>2 DEF CaWhole, DogtagKey
  <2> QED BY <1>3, <2>1, <2>3
<1> QED BY <1>2, <1>4, <1>5, <1>6
LEMMA HalfPairKeeps ==
    ASSUME StartInv, half_pair
    PROVE  StartInv'
<1>0. FilesFit /\ disk \in DiskRecords BY Parts
<1>1. /\ proc.step = "cas" /\ UNCHANGED <<config, disk, rows, keys, history>> /\ Stop("caFiles")
      /\ config.signer = "file" /\ (disk.caKey = Absent) # (disk.caCert = NoPair)
  BY DEF half_pair, At
<1>2. ~CaWhole BY <1>0, <1>1 DEF FilesFit, CaFits, CaWhole, NoPair, TornPair, Pair, Absent, Torn
<1>3. Because("caFiles") BY <1>2 DEF Because, Fit
<1> QED BY <1>1, <1>3, Stopped

(* A start that is about to write a CA file: there is no CA yet, so        *)
(* nothing was served and nothing was signed.                              *)
LEMMA NoCaYet ==
    ASSUME StartInv, ~CaWhole
    PROVE  served = {} /\ \A p : Issued(p) => p = NoPair \/ p = TornPair
<1>0. ServedFit BY Parts
<1> QED BY <1>0 DEF ServedFit, Fit, Issued

LEMMA GenerateKeeps ==
    ASSUME StartInv, generate \/ generate_cert_for_hsm_key
    PROVE  StartInv'
<1>0. Checked /\ MtcStep /\ NodeStep /\ FilesFit /\ proc \in ProcRecords /\ keys \in Nat BY Parts
<1>1. /\ proc.step = "cas" /\ UNCHANGED <<config, disk, rows, refused, history>> /\ announced' = announced /\ unseeded' = unseeded
      /\ disk.caCert = NoPair /\ config.signer \in {"file", "hsm"}
  BY DEF generate, generate_cert_for_hsm_key, At, history
<1>2. PICK k, s : /\ proc' = [proc EXCEPT !.ca = k, !.step = s] /\ keys' \in Nat /\ k \in Int /\ k > 0 /\ s \in {"writeCaKey", "writeCaCert"}
                  /\ s = "writeCaKey" => config.signer = "file"
                  /\ s = "writeCaCert" => config.signer = "hsm" /\ k = HsmKey
  <2>1. CASE generate
    <3>1. PICK k : k = NewKey OBVIOUS
    <3>2. PICK s : s = "writeCaKey" OBVIOUS
    <3>3. proc' = [proc EXCEPT !.ca = k, !.step = s] /\ keys' = k /\ config.signer = "file" BY <2>1, <3>1, <3>2 DEF generate
    <3>4. k \in Int /\ k \in Nat /\ k > 0 BY <1>0, <3>1 DEF NewKey
    <3>5. s # "writeCaCert" /\ s \in {"writeCaKey", "writeCaCert"} /\ keys' \in Nat BY <3>2, <3>3, <3>4
    <3> QED BY <3>3, <3>4, <3>5
  <2>2. CASE generate_cert_for_hsm_key
    <3>1. PICK k : k = HsmKey OBVIOUS
    <3>2. PICK s : s = "writeCaCert" OBVIOUS
    <3>3. proc' = [proc EXCEPT !.ca = k, !.step = s] /\ keys' = keys /\ config.signer = "hsm" BY <2>2, <3>1, <3>2 DEF generate_cert_for_hsm_key
    <3>4. k \in Int /\ k > 0 BY <3>1 DEF HsmKey
    <3>5. s # "writeCaKey" /\ s \in {"writeCaKey", "writeCaCert"} /\ keys' \in Nat BY <1>0, <3>2, <3>3
    <3> QED BY <3>1, <3>3, <3>4, <3>5
  <2> QED BY <2>1, <2>2
<1>3. s \in StartSteps BY <1>2 DEF StartSteps
<1>4. proc' \in ProcRecords /\ proc'.step = s /\ proc'.node = proc.node /\ proc'.ca = k BY <1>0, <1>2, <1>3 DEF ProcRecords
<1>5. CaSame /\ MtcSame /\ TlsSame /\ OpSame BY <1>1, NothingWritten
<1>6. Checked' BY <1>0, <1>1, <1>2, <1>4, CheckedStays DEF PastParse, StartSteps
<1>7. proc'.step \notin CaDone \union MtcDone \union TlsDone \union Enrolling \union Serving
  BY <1>2, <1>4 DEF CaDone, MtcDone, TlsDone, Enrolling, Serving
<1>8. TlsStep' /\ AdminStep' BY <1>2, <1>4, <1>7, TlsAhead, AdminAhead
<1>9. MtcStep' BY <1>0, <1>1, <1>2, <1>4, <1>5, <1>7, MtcAhead
<1>10. NodeStep' BY <1>0, <1>1, <1>2, <1>4, NodeStays DEF Named
<1>11. CaStep'
  <2>1. NoPair' = NoPair /\ HsmKey' = HsmKey BY DEF NoPair, Pair, Absent, HsmKey
  <2> QED BY <1>1, <1>2, <1>4, <1>7, <2>1 DEF CaStep
<1> QED BY <1>1, <1>2, <1>4, <1>6, <1>8, <1>9, <1>10, <1>11, GoOn

LEMMA WriteCaKeyKeeps ==
    ASSUME StartInv, write_key_file
    PROVE  StartInv'
<1>0. Checked /\ MtcStep /\ NodeStep /\ CaStep /\ FilesFit /\ proc \in ProcRecords /\ keys \in Nat /\ disk \in DiskRecords /\ rows \in RowRecords BY Parts
<1>1. /\ proc.step = "writeCaKey" /\ UNCHANGED <<config, rows, keys, refused, history>>
      /\ announced' = announced /\ unseeded' = unseeded /\ served' = served
  BY DEF write_key_file, At, history
<1>2. config.signer = "file" /\ disk.caCert = NoPair /\ proc.ca > 0 /\ proc.ca \in Int BY <1>0, <1>1 DEF CaStep, ProcRecords
<1>3. PICK k \in Int : k = proc.ca BY <1>2
<1>4. disk' = [disk EXCEPT !.caKey = k] /\ Go("writeCaCert") BY <1>3 DEF write_key_file
<1>5. /\ disk' \in DiskRecords /\ disk'.caKey = k /\ disk'.caCert = disk.caCert /\ MtcSame /\ TlsSame /\ OpSame
  BY <1>0, <1>4, CaKeyWritten
<1>6. "writeCaCert" \in StartSteps BY DEF StartSteps
<1>7. proc' \in ProcRecords /\ proc'.step = "writeCaCert" /\ proc'.node = proc.node /\ proc'.ca = k BY <1>0, <1>3, <1>4, <1>6, Went
<1>8. Checked' BY <1>0, <1>1, <1>7, CheckedStays DEF PastParse, StartSteps
<1>9. proc'.step \notin CaDone \union MtcDone \union TlsDone \union Enrolling \union Serving
  BY <1>7 DEF CaDone, MtcDone, TlsDone, Enrolling, Serving
<1>10. TlsStep' /\ AdminStep' BY <1>7, <1>9, TlsAhead, AdminAhead
<1>11. MtcStep' BY <1>0, <1>1, <1>5, <1>7, <1>9, MtcAhead
<1>12. NodeStep' BY <1>0, <1>1, <1>7, NodeStays DEF Named
<1>13. CaStep'
  <2>1. NoPair' = NoPair BY DEF NoPair, Pair, Absent
  <2> QED BY <1>1, <1>2, <1>3, <1>5, <1>7, <1>9, <2>1 DEF CaStep
<1>14. ~CaWhole /\ ~CaWhole' BY <1>2, <1>5 DEF CaWhole, NoPair, Pair, Absent
<1>15. served = {} /\ \A p : Issued(p) => p = NoPair \/ p = TornPair BY <1>14, NoCaYet
<1>16. FilesFit'
  <2>1. Issued(disk.tlsCert) /\ Issued(disk.opCert) /\ Issued(disk.p12) BY <1>0 DEF FilesFit
  <2>2. NoPair' = NoPair /\ TornPair' = TornPair BY DEF NoPair, TornPair, Pair, Absent, Torn
  <2>3. CaFits' BY <1>1, <1>2, <1>5, <1>14, <2>2 DEF CaFits
  <2>4. Issued(disk.tlsCert)' /\ Issued(disk.opCert)' /\ Issued(disk.p12)' BY <1>5, <1>15, <2>1, <2>2 DEF Issued, TlsSame, OpSame
  <2>5. (disk'.tlsCert.key > 0 => disk'.tlsKey = disk'.tlsCert.key) /\ (disk'.opCert.key > 0 => disk'.opKey = disk'.opCert.key)
    BY <1>0, <1>5 DEF FilesFit, TlsSame, OpSame
  <2> QED BY <2>3, <2>4, <2>5 DEF FilesFit
<1>17. ServedFit' BY <1>1, <1>15 DEF ServedFit
<1> QED BY <1>0, <1>1, <1>5, <1>7, <1>8, <1>10, <1>11, <1>12, <1>13, <1>16, <1>17, GoWith

LEMMA WriteCaCertKeeps ==
    ASSUME StartInv, write_ca_cert
    PROVE  StartInv'
<1>0. CaStep /\ FilesFit /\ proc \in ProcRecords /\ keys \in Nat /\ disk \in DiskRecords /\ rows \in RowRecords BY Parts
<1>1. /\ proc.step = "writeCaCert" /\ UNCHANGED <<config, rows, keys, refused, history>>
      /\ announced' = announced /\ unseeded' = unseeded /\ served' = served
  BY DEF write_ca_cert, At, history
<1>2. /\ disk.caCert = NoPair /\ proc.ca > 0 /\ config.signer # "dogtag"
      /\ config.signer = "file" => disk.caKey = proc.ca
      /\ config.signer = "hsm" => proc.ca = HsmKey
  BY <1>0, <1>1 DEF CaStep
<1>3. PICK k \in Int : k = proc.ca BY <1>0 DEF ProcRecords
<1>4. PICK p \in PairRecords : p = Pair(k, k) BY DEF PairRecords, Pair
<1>5. p.key = k BY <1>4 DEF Pair
<1>6. disk' = [disk EXCEPT !.caCert = p] /\ Go(AfterCa) BY <1>3, <1>4 DEF write_ca_cert
<1>7. /\ disk' \in DiskRecords /\ disk'.caCert = p /\ disk'.caKey = disk.caKey /\ MtcSame /\ TlsSame /\ OpSame
  BY <1>0, <1>6, CaCertWritten
<1>8. proc' = [proc EXCEPT !.ca = k, !.step = AfterCa] BY <1>0, <1>3, <1>6 DEF Go, ProcRecords
<1>9. CaWhole' /\ k = disk'.caCert.key BY <1>2, <1>3, <1>5, <1>7 DEF CaWhole
<1>10. proc' \in ProcRecords /\ Checked' /\ CaStep' /\ MtcStep' /\ TlsStep' /\ AdminStep' /\ NodeStep'
  BY <1>1, <1>7, <1>8, <1>9, CaFound
<1>11. ~CaWhole BY <1>2 DEF CaWhole, NoPair, Pair, Absent
<1>12. served = {} /\ \A q : Issued(q) => q = NoPair \/ q = TornPair BY <1>11, NoCaYet
<1>13. FilesFit'
  <2>1. Issued(disk.tlsCert) /\ Issued(disk.opCert) /\ Issued(disk.p12) BY <1>0 DEF FilesFit
  <2>2. NoPair' = NoPair /\ TornPair' = TornPair /\ HsmKey' = HsmKey BY DEF NoPair, TornPair, Pair, Absent, Torn, HsmKey
  <2>3. CaFits' BY <1>1, <1>2, <1>3, <1>5, <1>7, <1>9, <2>2 DEF CaFits
  <2>4. Issued(disk.tlsCert)' /\ Issued(disk.opCert)' /\ Issued(disk.p12)' BY <1>7, <1>12, <2>1, <2>2 DEF Issued, TlsSame, OpSame
  <2>5. (disk'.tlsCert.key > 0 => disk'.tlsKey = disk'.tlsCert.key) /\ (disk'.opCert.key > 0 => disk'.opKey = disk'.opCert.key)
    BY <1>0, <1>7 DEF FilesFit, TlsSame, OpSame
  <2> QED BY <2>3, <2>4, <2>5 DEF FilesFit
<1>14. ServedFit' BY <1>1, <1>12 DEF ServedFit
<1> QED BY <1>0, <1>1, <1>7, <1>10, <1>13, <1>14, GoWith
-----------------------------------------------------------------------------
(* The MTC log and TLS.                                                    *)
LEMMA ServedStays ==
    ASSUME ServedFit, served' = served, config' = config, CaSame, disk.mtcKey > 0 => disk'.mtcKey > 0,
           disk.tlsCert.key > 0 => disk'.tlsCert.key > 0, OpSame, rows.operators \subseteq rows'.operators
    PROVE  ServedFit'
<1> SUFFICES ASSUME NEW c \in served PROVE Fit(c)' BY DEF ServedFit
<1>1. Fit(c) BY DEF ServedFit
<1>2. (CredentialsThere(c) => CredentialsThere(c)') /\ (OperatorKnown(c) => OperatorKnown(c)') BY AdminStays
<1>3. CaWhole => CaWhole' BY DEF CaWhole, CaSame
<1> QED BY <1>1, <1>2, <1>3, FitStays

LEMMA MtcKeyKeeps ==
    ASSUME StartInv, load_or_generate_mtc_key
    PROVE  StartInv'
<1>0. /\ Checked /\ MtcStep /\ NodeStep /\ CaStep /\ FilesFit /\ ServedFit
      /\ proc \in ProcRecords /\ keys \in Nat /\ disk \in DiskRecords /\ rows \in RowRecords
  BY Parts
<1>1. /\ proc.step = "mtcKey" /\ UNCHANGED <<config, rows, history>>
      /\ announced' = announced /\ unseeded' = unseeded /\ served' = served
  BY DEF load_or_generate_mtc_key, At, history
<1>2. CASE disk.mtcKey = Torn /\ Stop("mtcKey") /\ UNCHANGED <<disk, keys>>
  <2>1. Because("mtcKey") BY <1>0, <1>1, <1>2 DEF Because, Fit, MtcStep, Torn
  <2> QED BY <1>1, <1>2, <2>1, Stopped
<1>3. ASSUME Go("mtcLog"), UNCHANGED refused, keys' \in Nat, disk' \in DiskRecords, disk'.mtcKey > 0, disk'.log = disk.log, CaSame, TlsSame, OpSame
      PROVE  StartInv'
  <2>1. "mtcLog" \in StartSteps BY DEF StartSteps
  <2>2. proc' \in ProcRecords /\ proc'.step = "mtcLog" /\ proc'.node = proc.node /\ proc'.ca = proc.ca BY <1>0, <1>3, <2>1, Went
  <2>3. proc.step \in CaDone /\ proc'.step \in CaDone /\ proc'.step \notin MtcDone \union TlsDone \union Enrolling \union Serving
    BY <1>1, <2>2 DEF CaDone, MtcDone, TlsDone, Enrolling, Serving
  <2>4. Checked' BY <1>0, <1>1, <2>2, CheckedStays DEF PastParse, StartSteps
  <2>5. CaStep' BY <1>0, <1>3, <2>2, <2>3, CaStays
  <2>6. NodeStep' BY <1>0, <1>1, <2>2, <2>3, NodeStays
  <2>7. TlsStep' /\ AdminStep' BY <2>2, <2>3, TlsAhead, AdminAhead
  <2>8. MtcStep' BY <1>0, <1>1, <1>3, <2>2, <2>3 DEF MtcStep
  <2>9. FilesFit' BY <1>0, <1>1, <1>3, FilesStay
  <2>10. disk'.tlsCert = disk.tlsCert BY <1>3 DEF TlsSame
  <2>11. ServedFit' BY <1>0, <1>1, <1>3, <2>10, ServedStays
  <2> QED BY <1>0, <1>1, <1>3, <2>2, <2>4, <2>5, <2>6, <2>7, <2>8, <2>9, <2>11, GoWith
<1>4. CASE disk.mtcKey > 0 /\ Go("mtcLog") /\ UNCHANGED <<disk, keys, refused>>
  <2>1. CaSame /\ MtcSame /\ TlsSame /\ OpSame BY <1>4, NothingWritten
  <2> QED BY <1>0, <1>3, <1>4, <2>1
<1>5. CASE disk.mtcKey = Absent /\ disk' = [disk EXCEPT !.mtcKey = NewKey] /\ keys' = NewKey /\ Go("mtcLog") /\ UNCHANGED refused
  <2>1. PICK k : k = NewKey OBVIOUS
  <2>2. k \in Int /\ k \in Nat /\ k > 0 BY <1>0, <2>1 DEF NewKey
  <2>3. disk' = [disk EXCEPT !.mtcKey = k] BY <1>5, <2>1
  <2>4. disk' \in DiskRecords /\ disk'.mtcKey = k /\ disk'.log = disk.log /\ CaSame /\ TlsSame /\ OpSame BY <1>0, <2>2, <2>3, MtcKeyWritten
  <2> QED BY <1>3, <1>5, <2>1, <2>2, <2>4
<1> QED BY <1>2, <1>4, <1>5 DEF load_or_generate_mtc_key

LEMMA LogLockKeeps ==
    ASSUME StartInv, acquire_log_lock
    PROVE  StartInv'
<1>1. proc.step = "mtcLog" /\ Stop("locked") /\ UNCHANGED <<config, disk, rows, keys, history>> BY DEF acquire_log_lock, At
<1>2. Because("locked") BY DEF Because
<1> QED BY <1>1, <1>2, Stopped

LEMMA LogKeeps ==
    ASSUME StartInv, open_or_create \/ append_null_entry
    PROVE  StartInv'
<1>0. /\ Checked /\ MtcStep /\ NodeStep /\ CaStep /\ FilesFit /\ ServedFit
      /\ proc \in ProcRecords /\ keys \in Nat /\ disk \in DiskRecords /\ rows \in RowRecords
  BY Parts
<1>1. /\ proc.step \in {"mtcLog", "seedLog"} /\ UNCHANGED <<config, rows, keys, refused, history>>
      /\ announced' = announced /\ unseeded' = unseeded /\ served' = served
  BY DEF open_or_create, append_null_entry, At, history
<1>2. PICK l, s : /\ disk' = [disk EXCEPT !.log = l] /\ Go(s) /\ l \in {"none", "empty", "seeded"} /\ s \in {"seedLog", "tls"}
                  /\ l # "none" /\ (l = "empty" => unseeded \/ s = "seedLog")
  <2>1. CASE open_or_create
    <3>1. PICK l : l = IF disk.log = "none" THEN "empty" ELSE disk.log OBVIOUS
    <3>2. PICK s : s = IF disk.log = "none" THEN "seedLog" ELSE "tls" OBVIOUS
    <3>3. disk' = [disk EXCEPT !.log = l] /\ Go(s) /\ proc.step = "mtcLog" BY <2>1, <3>1, <3>2 DEF open_or_create, At
    <3>4. l \in {"none", "empty", "seeded"} /\ l # "none" /\ s \in {"seedLog", "tls"} BY <1>0, <3>1, <3>2 DEF DiskRecords
    <3>5. l = "empty" => unseeded \/ s = "seedLog" BY <1>0, <3>1, <3>2, <3>3 DEF MtcStep
    <3> QED BY <3>3, <3>4, <3>5
  <2>2. CASE append_null_entry
    <3>1. PICK l : l = "seeded" OBVIOUS
    <3>2. PICK s : s = "tls" OBVIOUS
    <3>3. disk' = [disk EXCEPT !.log = l] /\ Go(s) BY <2>2, <3>1, <3>2 DEF append_null_entry
    <3>4. l \in {"none", "empty", "seeded"} /\ l # "none" /\ l # "empty" /\ s \in {"seedLog", "tls"} BY <3>1, <3>2
    <3> QED BY <3>3, <3>4
  <2> QED BY <2>1, <2>2
<1>3. disk' \in DiskRecords /\ disk'.log = l /\ disk'.mtcKey = disk.mtcKey /\ CaSame /\ TlsSame /\ OpSame BY <1>0, <1>2, LogWritten
<1>4. s \in StartSteps BY <1>2 DEF StartSteps
<1>5. proc' \in ProcRecords /\ proc'.step = s /\ proc'.node = proc.node /\ proc'.ca = proc.ca BY <1>0, <1>2, <1>4, Went
<1>6. proc.step \in CaDone /\ proc'.step \in CaDone /\ proc'.step \notin TlsDone \union Enrolling \union Serving
  BY <1>1, <1>2, <1>5 DEF CaDone, MtcDone, TlsDone, Enrolling, Serving
<1>7. Checked' BY <1>0, <1>1, <1>2, <1>5, CheckedStays DEF PastParse, StartSteps
<1>8. CaStep' BY <1>0, <1>3, <1>5, <1>6, CaStays
<1>9. NodeStep' BY <1>0, <1>1, <1>5, <1>6, NodeStays
<1>10. TlsStep' /\ AdminStep' BY <1>2, <1>5, <1>6, TlsAhead, AdminAhead
<1>11. MtcStep'
  <2>1. disk.mtcKey > 0 /\ config.mtc BY <1>0, <1>1 DEF MtcStep
  <2> QED BY <1>1, <1>2, <1>3, <1>5, <2>1 DEF MtcStep
<1>12. FilesFit' BY <1>0, <1>1, <1>3, FilesStay
<1>13. disk'.tlsCert = disk.tlsCert BY <1>3 DEF TlsSame
<1>14. ServedFit' BY <1>0, <1>1, <1>3, <1>13, ServedStays
<1> QED BY <1>0, <1>1, <1>3, <1>5, <1>7, <1>8, <1>9, <1>10, <1>11, <1>12, <1>14, GoWith

(* A start that has its CA and its log, and has not looked for operators   *)
(* yet.                                                                    *)
LEMMA OnwardKeeps ==
    ASSUME StartInv, proc.step \in {"tls", "writeTlsKey", "writeTlsCert"}, UNCHANGED <<config, rows, refused, history>>, keys' \in Nat,
           proc' \in ProcRecords, proc'.step \in {"writeTlsKey", "writeTlsCert", "admin"}, proc'.node = proc.node, proc'.ca = proc.ca,
           disk' \in DiskRecords, CaSame, MtcSame, OpSame, TlsStep', FilesFit', disk.tlsCert.key > 0 => disk'.tlsCert.key > 0
    PROVE  StartInv'
<1>0. Checked /\ MtcStep /\ NodeStep /\ CaStep /\ ServedFit /\ rows \in RowRecords BY Parts
<1>1. announced' = announced /\ unseeded' = unseeded /\ served' = served BY DEF history
<1>2. /\ proc.step \in CaDone /\ proc'.step \in CaDone /\ proc.step \in MtcDone /\ proc'.step \in MtcDone
      /\ proc'.step \notin Enrolling \union Serving
  BY DEF CaDone, MtcDone, TlsDone, Enrolling, Serving
<1>3. Checked' BY <1>0, CheckedStays DEF PastParse, StartSteps
<1>4. CaStep' BY <1>0, <1>2, CaStays
<1>5. NodeStep' BY <1>0, <1>1, <1>2, NodeStays
<1>6. AdminStep' BY <1>2, AdminAhead
<1>7. MtcStep' BY <1>0, <1>1, <1>2, MtcStays
<1>8. disk'.mtcKey = disk.mtcKey BY DEF MtcSame
<1>9. ServedFit' BY <1>0, <1>1, <1>8, ServedStays
<1> QED BY <1>0, <1>1, <1>3, <1>4, <1>5, <1>6, <1>7, <1>9, GoWith
LEMMA SkipTlsKeeps ==
    ASSUME StartInv, skip_tls
    PROVE  StartInv'
<1>0. FilesFit /\ proc \in ProcRecords /\ keys \in Nat /\ disk \in DiskRecords BY Parts
<1>1. proc.step = "tls" /\ ~config.tls /\ Go("admin") /\ UNCHANGED <<config, disk, rows, keys, refused, history>> BY DEF skip_tls, At
<1>2. "admin" \in StartSteps BY DEF StartSteps
<1>3. proc' \in ProcRecords /\ proc'.step = "admin" /\ proc'.node = proc.node /\ proc'.ca = proc.ca BY <1>0, <1>1, <1>2, Went
<1>4. CaSame /\ MtcSame /\ TlsSame /\ OpSame BY <1>1, NothingWritten
<1>5. TlsStep' BY <1>1, <1>3 DEF TlsStep
<1>6. FilesFit' BY <1>0, <1>1, <1>4, FilesStay
<1> QED BY <1>0, <1>1, <1>3, <1>4, <1>5, <1>6, OnwardKeeps

LEMMA TlsKeeps ==
    ASSUME StartInv, tls_load_or_generate
    PROVE  StartInv'
<1>0. FilesFit /\ proc \in ProcRecords /\ keys \in Nat /\ disk \in DiskRecords BY Parts
<1>1. proc.step = "tls" /\ config.tls /\ UNCHANGED <<config, disk, rows, history>> BY DEF tls_load_or_generate, At
<1>2. CaSame /\ MtcSame /\ TlsSame /\ OpSame BY <1>1, NothingWritten
<1>3. FilesFit' BY <1>0, <1>1, <1>2, FilesStay
<1>4. NoPair' = NoPair BY DEF NoPair, Pair, Absent
<1>5. CASE config.signer = "dogtag" /\ Stop("external") /\ UNCHANGED keys
  <2>1. Because("external") BY <1>1, <1>5 DEF Because, Fit, Signs
  <2> QED BY <1>1, <1>5, <2>1, Stopped
<1>6. CASE /\ config.signer # "dogtag" /\ disk.tlsKey # Absent /\ disk.tlsCert # NoPair
           /\ Go("admin") /\ UNCHANGED <<keys, refused>>
  <2>1. "admin" \in StartSteps BY DEF StartSteps
  <2>2. proc' \in ProcRecords /\ proc'.step = "admin" /\ proc'.node = proc.node /\ proc'.ca = proc.ca BY <1>0, <1>6, <2>1, Went
  <2>3. TlsStep' BY <1>1, <1>4, <1>6, <2>2 DEF TlsStep
  <2> QED BY <1>0, <1>1, <1>2, <1>3, <1>6, <2>2, <2>3, OnwardKeeps
<1>7. CASE config.signer # "dogtag" /\ (disk.tlsKey = Absent) # (disk.tlsCert = NoPair) /\ Stop("tlsFiles") /\ UNCHANGED keys
  <2>1. ~(disk.tlsCert.key > 0) BY <1>0, <1>7 DEF FilesFit, NoPair, Pair, Absent
  <2>2. Because("tlsFiles") BY <1>1, <2>1 DEF Because, Fit
  <2> QED BY <1>1, <1>7, <2>2, Stopped
<1>8. CASE /\ config.signer # "dogtag" /\ disk.tlsKey = Absent /\ disk.tlsCert = NoPair
           /\ proc' = [proc EXCEPT !.key = NewKey, !.step = "writeTlsKey"] /\ keys' = NewKey /\ UNCHANGED refused
  <2>1. PICK k : k = NewKey OBVIOUS
  <2>2. k \in Int /\ k \in Nat /\ k > 0 BY <1>0, <2>1 DEF NewKey
  <2>3. proc' = [proc EXCEPT !.key = k, !.step = "writeTlsKey"] /\ keys' \in Nat BY <1>8, <2>1, <2>2
  <2>4. "writeTlsKey" \in StartSteps BY DEF StartSteps
  <2>5. proc' \in ProcRecords /\ proc'.step = "writeTlsKey" /\ proc'.node = proc.node /\ proc'.ca = proc.ca /\ proc'.key = k
    BY <1>0, <2>2, <2>3, <2>4 DEF ProcRecords
  <2>6. TlsStep' BY <1>1, <1>4, <1>8, <2>2, <2>5 DEF TlsStep, TlsDone, Enrolling, Serving
  <2> QED BY <1>0, <1>1, <1>2, <1>3, <1>8, <2>3, <2>5, <2>6, OnwardKeeps
<1> QED BY <1>5, <1>6, <1>7, <1>8 DEF tls_load_or_generate

LEMMA WriteTlsKeyKeeps ==
    ASSUME StartInv, write_tls_key
    PROVE  StartInv'
<1>0. FilesFit /\ TlsStep /\ proc \in ProcRecords /\ keys \in Nat /\ disk \in DiskRecords BY Parts
<1>1. proc.step = "writeTlsKey" /\ UNCHANGED <<config, rows, keys, refused, history>> BY DEF write_tls_key, At
<1>2. disk.tlsCert = NoPair /\ proc.key > 0 /\ config.tls /\ config.signer # "dogtag" BY <1>0, <1>1 DEF TlsStep
<1>3. PICK k \in Int : k = proc.key BY <1>0 DEF ProcRecords
<1>4. disk' = [disk EXCEPT !.tlsKey = k] /\ Go("writeTlsCert") BY <1>3 DEF write_tls_key
<1>5. disk' \in DiskRecords /\ disk'.tlsKey = k /\ disk'.tlsCert = disk.tlsCert /\ CaSame /\ MtcSame /\ OpSame BY <1>0, <1>4, TlsKeyWritten
<1>6. "writeTlsCert" \in StartSteps BY DEF StartSteps
<1>7. proc' \in ProcRecords /\ proc'.step = "writeTlsCert" /\ proc'.node = proc.node /\ proc'.ca = proc.ca /\ proc'.key = proc.key
  BY <1>0, <1>4, <1>6, Went
<1>8. NoPair' = NoPair BY DEF NoPair, Pair, Absent
<1>9. TlsStep' BY <1>1, <1>2, <1>3, <1>5, <1>7, <1>8 DEF TlsStep, TlsDone, Enrolling, Serving
<1>10. disk.tlsCert.key = 0 BY <1>2 DEF NoPair, Pair, Absent
<1>11. FilesFit'
  BY <1>0, <1>1, <1>5, <1>10 DEF FilesFit, CaFits, CaWhole, Issued, CaSame, OpSame, NoPair, TornPair, Pair, HsmKey, DogtagKey, Absent, Torn
<1> QED BY <1>0, <1>1, <1>5, <1>7, <1>9, <1>11, OnwardKeeps

LEMMA WriteTlsCertKeeps ==
    ASSUME StartInv, write_tls_cert
    PROVE  StartInv'
<1>0. FilesFit /\ TlsStep /\ CaStep /\ proc \in ProcRecords /\ keys \in Nat /\ disk \in DiskRecords BY Parts
<1>1. proc.step = "writeTlsCert" /\ UNCHANGED <<config, rows, keys, refused, history>> BY DEF write_tls_cert, At
<1>2. disk.tlsCert = NoPair /\ proc.key > 0 /\ config.tls /\ config.signer # "dogtag" /\ disk.tlsKey = proc.key BY <1>0, <1>1 DEF TlsStep
<1>3. CaWhole /\ proc.ca = disk.caCert.key BY <1>0, <1>1 DEF CaStep, CaDone, MtcDone
<1>4. PICK p \in PairRecords : p = Pair(proc.key, proc.ca) BY <1>0 DEF ProcRecords, PairRecords, Pair
<1>5. p.key = proc.key /\ p.issuer = proc.ca BY <1>4 DEF Pair
<1>6. disk' = [disk EXCEPT !.tlsCert = p] /\ Go("admin") BY <1>4 DEF write_tls_cert
<1>7. disk' \in DiskRecords /\ disk'.tlsCert = p /\ disk'.tlsKey = disk.tlsKey /\ CaSame /\ MtcSame /\ OpSame BY <1>0, <1>6, TlsCertWritten
<1>8. "admin" \in StartSteps BY DEF StartSteps
<1>9. proc' \in ProcRecords /\ proc'.step = "admin" /\ proc'.node = proc.node /\ proc'.ca = proc.ca BY <1>0, <1>6, <1>8, Went
<1>10. p # NoPair' BY <1>2, <1>5 DEF NoPair, Pair, Absent
<1>11. TlsStep' BY <1>1, <1>2, <1>7, <1>9, <1>10 DEF TlsStep
<1>12. FilesFit'
  <2>1. CaFits' /\ Issued(disk.opCert)' /\ Issued(disk.p12)' /\ (disk'.opCert.key > 0 => disk'.opKey = disk'.opCert.key)
    BY <1>0, <1>1, <1>7 DEF FilesFit, CaFits, CaWhole, Issued, CaSame, OpSame, NoPair, TornPair, Pair, HsmKey, DogtagKey, Absent, Torn
  <2>2. Issued(disk.tlsCert)' BY <1>2, <1>3, <1>5, <1>7 DEF Issued, CaWhole, CaSame
  <2>3. disk'.tlsKey = disk'.tlsCert.key BY <1>2, <1>5, <1>7
  <2> QED BY <2>1, <2>2, <2>3 DEF FilesFit
<1>13. disk'.tlsCert.key > 0 BY <1>2, <1>5, <1>7
<1> QED BY <1>0, <1>1, <1>7, <1>9, <1>11, <1>12, <1>13, OnwardKeeps
-----------------------------------------------------------------------------
(* The first operator.                                                     *)
LEMMA LateKeeps ==
    ASSUME StartInv, proc.step \in {"admin", "services"} \union Enrolling, UNCHANGED <<config, refused, history>>, keys' \in Nat,
           proc' \in ProcRecords, proc'.step \in {"services", "listen"} \union Enrolling, proc'.node = proc.node, proc'.ca = proc.ca,
           disk' \in DiskRecords, rows' \in RowRecords, rows'.node = rows.node, CaSame, MtcSame, TlsSame, FilesFit', ServedFit', AdminStep',
           proc'.step = "listen" => config.flaw # "late"
    PROVE  StartInv'
<1>0. Checked /\ MtcStep /\ NodeStep /\ CaStep /\ TlsStep BY Parts
<1>1. announced' = announced /\ unseeded' = unseeded /\ served' = served BY DEF history
<1>2. /\ proc.step \in CaDone /\ proc'.step \in CaDone /\ proc.step \in MtcDone /\ proc'.step \in MtcDone
      /\ proc.step \in TlsDone /\ proc'.step \in TlsDone \ {"serving"} /\ proc.step # "off"
  BY DEF CaDone, MtcDone, TlsDone, Enrolling, Serving
<1>3. Checked' BY <1>0 DEF Checked, Sections, PastParse, StartSteps, Enrolling
<1>4. CaStep' BY <1>0, <1>2, CaStays
<1>5. NodeStep' BY <1>0, <1>1, <1>2, NodeStays
<1>6. TlsStep' BY <1>0, <1>2, TlsStays
<1>7. MtcStep' BY <1>0, <1>1, <1>2, MtcStays
<1> QED BY <1>1, <1>2, <1>3, <1>4, <1>5, <1>6, <1>7, GoWith

(* Nothing is written, and the start goes on to its services.              *)
LEMMA OperatorFound ==
    ASSUME StartInv, proc.step = "admin", Go("services"), UNCHANGED <<config, disk, keys, refused, history>>,
           rows' \in RowRecords, rows'.node = rows.node, rows.operators \subseteq rows'.operators,
           CredentialsThere(config), config.admin # "none" => config.signer # "dogtag", OperatorKnown(config)'
    PROVE  StartInv'
<1>0. proc \in ProcRecords /\ keys \in Nat /\ disk \in DiskRecords BY Parts
<1>1. "services" \in StartSteps BY DEF StartSteps
<1>2. proc' \in ProcRecords /\ proc'.step = "services" /\ proc'.node = proc.node /\ proc'.ca = proc.ca BY <1>0, <1>1, Went
<1>3. CaSame /\ MtcSame /\ TlsSame /\ OpSame BY NothingWritten
<1>4. FilesFit' /\ ServedFit' BY RowsServe DEF history
<1>5. AdminStep'
  <2>1. CredentialsThere(config)' BY DEF CredentialsThere, Absent
  <2> QED BY <1>2, <2>1 DEF AdminStep, Enrolling
<1> QED BY <1>0, <1>2, <1>3, <1>4, <1>5, LateKeeps

LEMMA SkipAdminKeeps ==
    ASSUME StartInv, skip_admin
    PROVE  StartInv'
<1>0. rows \in RowRecords BY Parts
<1>1. /\ proc.step = "admin" /\ config.admin = "none" /\ Go("services") /\ UNCHANGED <<config, disk, rows, keys, refused, history>>
  BY DEF skip_admin, At
<1>2. CredentialsThere(config) /\ OperatorKnown(config)' BY <1>1 DEF CredentialsThere, OperatorKnown
<1> QED BY <1>0, <1>1, <1>2, OperatorFound

LEMMA ExternalSignerKeeps ==
    ASSUME StartInv, external_signer
    PROVE  StartInv'
<1>1. /\ proc.step = "admin" /\ config.admin # "none" /\ config.signer = "dogtag" /\ Stop("external")
      /\ UNCHANGED <<config, disk, rows, keys, history>>
  BY DEF external_signer, At
<1>2. Because("external") BY <1>1 DEF Because, Fit, Signs
<1> QED BY <1>1, <1>2, Stopped

LEMMA BootstrapGssapiKeeps ==
    ASSUME StartInv, bootstrap_gssapi
    PROVE  StartInv'
<1>0. rows \in RowRecords BY Parts
<1>1. proc.step = "admin" /\ config.admin = "gssapi" /\ config.signer # "dogtag" /\ UNCHANGED <<config, disk, keys, history>>
  BY DEF bootstrap_gssapi, At
<1>2. CredentialsThere(config) BY <1>1 DEF CredentialsThere
<1>3. CASE \E o \in rows.operators : o.principal = Principal
  <2>1. Go("services") /\ UNCHANGED <<rows, refused>> BY <1>3 DEF bootstrap_gssapi
  <2>2. OperatorKnown(config)' BY <1>1, <1>3, <2>1 DEF OperatorKnown, Principal
  <2> QED BY <1>0, <1>1, <1>2, <2>1, <2>2, OperatorFound
<1>4. CASE ~(\E o \in rows.operators : o.principal = Principal) /\ rows.operators # {}
  <2>1. Stop("operators") /\ UNCHANGED rows BY <1>4 DEF bootstrap_gssapi
  <2>2. Because("operators") BY <1>1, <1>4 DEF Because, Fit, OperatorKnown
  <2> QED BY <1>1, <2>1, <2>2, Stopped
<1>5. CASE ~(\E o \in rows.operators : o.principal = Principal) /\ rows.operators = {}
  <2>1. /\ rows' = [rows EXCEPT !.operators = {[fingerprint |-> Absent, principal |-> Principal]}]
        /\ Go("services") /\ UNCHANGED refused
    BY <1>5 DEF bootstrap_gssapi
  <2>2. PICK o \in [fingerprint : Int, principal : Int] : o = [fingerprint |-> Absent, principal |-> Principal]
    <3>1. Absent \in Int /\ Principal \in Int BY DEF Absent, Principal
    <3>2. [fingerprint |-> Absent, principal |-> Principal] \in [fingerprint : Int, principal : Int] BY <3>1
    <3> QED BY <3>2
  <2>3. o.principal = Principal BY <2>2
  <2>4. rows' = [rows EXCEPT !.operators = {o}] BY <2>1, <2>2
  <2>5. rows' \in RowRecords /\ rows'.operators = {o} /\ rows'.node = rows.node BY <1>0, <2>4 DEF RowRecords
  <2>6. OperatorKnown(config)' BY <1>1, <2>3, <2>5 DEF OperatorKnown, Principal
  <2>7. rows.operators \subseteq rows'.operators BY <1>5
  <2> QED BY <1>1, <1>2, <2>1, <2>5, <2>6, <2>7, OperatorFound
<1> QED BY <1>3, <1>4, <1>5

LEMMA CredentialsExistKeeps ==
    ASSUME StartInv, credentials_exist
    PROVE  StartInv'
<1>0. FilesFit /\ rows \in RowRecords BY Parts
<1>1. /\ proc.step = "admin" /\ config.signer # "dogtag" /\ config.admin \in {"p12", "pem"} /\ Credentials # NoPair
      /\ config.admin = "pem" => disk.opKey # Absent
      /\ UNCHANGED <<config, disk, rows, keys, history>>
  BY DEF credentials_exist, At
<1>2. /\ config.admin = "p12" => Credentials = disk.p12
      /\ config.admin = "pem" => Credentials = disk.opCert
  BY DEF Credentials
<1>3. CASE Credentials = TornPair \/ Credentials.key \notin Fingerprints
  <2>1. Stop("operatorFile") BY <1>3 DEF credentials_exist
  <2>2. ~(CredentialsThere(config) /\ OperatorKnown(config))
    <3>1. CASE Credentials = TornPair BY <1>1, <1>2, <3>1 DEF CredentialsThere, TornPair, Pair, Torn
    <3>2. CASE Credentials.key \notin Fingerprints BY <1>1, <1>2, <3>2 DEF OperatorKnown
    <3> QED BY <1>3, <3>1, <3>2
  <2>3. Because("operatorFile") BY <1>1, <2>2 DEF Because, Fit
  <2> QED BY <1>1, <2>1, <2>3, Stopped
<1>4. CASE Credentials # TornPair /\ Credentials.key \in Fingerprints
  <2>1. Go("services") /\ UNCHANGED refused BY <1>4 DEF credentials_exist
  <2>2. Credentials.key > 0
    <3>1. Issued(Credentials) BY <1>0, <1>1, <1>2 DEF FilesFit
    <3> QED BY <1>1, <1>4, <3>1 DEF Issued
  <2>3. CredentialsThere(config) BY <1>1, <1>2, <2>2 DEF CredentialsThere
  <2>4. OperatorKnown(config) BY <1>1, <1>2, <1>4 DEF OperatorKnown
  <2>5. CaSame /\ MtcSame /\ TlsSame /\ OpSame BY <1>1, NothingWritten
  <2>6. OperatorKnown(config)' BY <1>1, <2>4 DEF OperatorKnown, Fingerprints, Absent, Principal
  <2> QED BY <1>0, <1>1, <2>1, <2>3, <2>6, OperatorFound
<1> QED BY <1>3, <1>4

LEMMA HalfCredentialsKeep ==
    ASSUME StartInv, half_credentials
    PROVE  StartInv'
<1>1. /\ proc.step = "admin" /\ config.admin = "pem" /\ (disk.opKey = Absent) # (disk.opCert = NoPair) /\ Stop("operatorFile")
      /\ UNCHANGED <<config, disk, rows, keys, history>>
  BY DEF half_credentials, At
<1>2. ~CredentialsThere(config) BY <1>1 DEF CredentialsThere, NoPair, Pair, Absent
<1>3. Because("operatorFile") BY <1>1, <1>2 DEF Because, Fit
<1> QED BY <1>1, <1>3, Stopped
(* Before there is an operator, no admin API was served.                   *)
LEMMA NoOperatorYet ==
    ASSUME StartupAssumption, StartInv, rows.operators = {}
    PROVE  \A c \in served : c.admin = "none"
<1>0. ServedFit /\ served \subseteq Configs BY Parts DEF StartupTypeOK
<1> SUFFICES ASSUME NEW c \in served PROVE c.admin = "none" OBVIOUS
<1>1. c.admin \in AdminModes BY <1>0 DEF StartupAssumption
<1>2. OperatorKnown(c) BY <1>0 DEF ServedFit, Fit
<1>3. Fingerprints = {} BY DEF Fingerprints
<1> QED BY <1>1, <1>2, <1>3 DEF OperatorKnown, AdminModes

LEMMA NewCredentialsKeep ==
    ASSUME StartInv, new_credentials
    PROVE  StartInv'
<1>0. proc \in ProcRecords /\ keys \in Nat /\ disk \in DiskRecords /\ rows \in RowRecords BY Parts
<1>1. /\ proc.step = "admin" /\ config.signer # "dogtag" /\ config.admin \in {"p12", "pem"} /\ Credentials = NoPair
      /\ UNCHANGED <<config, disk, rows, history>>
  BY DEF new_credentials, At
<1>2. CASE rows.operators # {}
  <2>1. Stop("operators") /\ UNCHANGED keys BY <1>2 DEF new_credentials
  <2>2. ~CredentialsThere(config) BY <1>1 DEF Credentials, CredentialsThere, NoPair, Pair, Absent
  <2>3. Because("operators") BY <2>2 DEF Because, Fit
  <2> QED BY <1>1, <2>1, <2>3, Stopped
<1>3. CASE rows.operators = {}
  <2>1. PICK k : k = NewKey OBVIOUS
  <2>2. k \in Int /\ k \in Nat /\ k > 0 BY <1>0, <2>1 DEF NewKey
  <2>3. proc' = [proc EXCEPT !.key = k, !.step = "writeCredentials"] /\ keys' = k /\ UNCHANGED refused BY <1>3, <2>1 DEF new_credentials
  <2>4. "writeCredentials" \in StartSteps BY DEF StartSteps
  <2>5. proc' \in ProcRecords /\ proc'.step = "writeCredentials" /\ proc'.node = proc.node /\ proc'.ca = proc.ca /\ proc'.key = k
    BY <1>0, <2>2, <2>3, <2>4 DEF ProcRecords
  <2>6. CaSame /\ MtcSame /\ TlsSame /\ OpSame BY <1>1, NothingWritten
  <2>7. FilesFit' /\ ServedFit' BY <1>1, RowsServe DEF history
  <2>8. Credentials' = Credentials /\ NoPair' = NoPair BY <1>1 DEF Credentials, NoPair, Pair, Absent
  <2>9. AdminStep' BY <1>1, <1>3, <2>2, <2>5, <2>8 DEF AdminStep, Serving
  <2>10. proc'.step \in Enrolling BY <2>5 DEF Enrolling
  <2>11. keys' \in Nat /\ proc'.step # "listen" BY <2>2, <2>3, <2>5
  <2> QED BY <1>0, <1>1, <2>3, <2>5, <2>6, <2>7, <2>9, <2>10, <2>11, LateKeeps
<1> QED BY <1>2, <1>3

(* Credentials are written while nobody is an operator.                    *)
LEMMA CredentialWritten ==
    ASSUME StartupAssumption, StartInv, proc.step \in Enrolling, UNCHANGED <<config, rows, keys, refused, history>>,
           NEW s \in Enrolling, Go(s), disk' \in DiskRecords, CaSame, MtcSame, TlsSame,
           Issued(disk.opCert)', Issued(disk.p12)', disk'.opCert.key > 0 => disk'.opKey = disk'.opCert.key, AdminStep'
    PROVE  StartInv'
<1>0. AdminStep /\ FilesFit /\ ServedFit /\ proc \in ProcRecords /\ keys \in Nat /\ rows \in RowRecords BY Parts
<1>1. s \in StartSteps BY DEF Enrolling, StartSteps
<1>2. proc' \in ProcRecords /\ proc'.step = s /\ proc'.node = proc.node /\ proc'.ca = proc.ca BY <1>0, <1>1, Went
<1>3. rows.operators = {} BY <1>0 DEF AdminStep
<1>4. \A c \in served : c.admin = "none" BY <1>3, NoOperatorYet
<1>5. ServedFit'
  <2> SUFFICES ASSUME NEW c \in served PROVE Fit(c)' BY DEF ServedFit, history
  <2>1. Fit(c) BY <1>0 DEF ServedFit
  <2>2. CredentialsThere(c)' /\ OperatorKnown(c)' BY <1>4 DEF CredentialsThere, OperatorKnown
  <2>3. CaWhole => CaWhole' BY DEF CaWhole, CaSame
  <2>4. disk'.mtcKey = disk.mtcKey /\ disk'.tlsCert = disk.tlsCert BY DEF MtcSame, TlsSame
  <2> QED BY <2>1, <2>2, <2>3, <2>4, FitStays
<1>6. FilesFit'
  <2>1. CaFits' /\ Issued(disk.tlsCert)' /\ (disk'.tlsCert.key > 0 => disk'.tlsKey = disk'.tlsCert.key)
    BY <1>0 DEF FilesFit, CaFits, CaWhole, Issued, CaSame, TlsSame, NoPair, TornPair, Pair, HsmKey, DogtagKey, Absent, Torn
  <2> QED BY <2>1 DEF FilesFit
<1>7. s # "listen" BY DEF Enrolling
<1> QED BY <1>0, <1>2, <1>5, <1>6, <1>7, LateKeeps

LEMMA WriteSecretKeeps ==
    ASSUME StartupAssumption, StartInv, write_secret_file
    PROVE  StartInv'
<1>0. AdminStep /\ CaStep /\ FilesFit /\ proc \in ProcRecords /\ disk \in DiskRecords BY Parts
<1>1. proc.step = "writeCredentials" /\ UNCHANGED <<config, rows, keys, refused, history>> BY DEF write_secret_file, At
<1>2. /\ proc.step \in Enrolling /\ "insertOperator" \in Enrolling /\ "writeOpCert" \in Enrolling
      /\ "insertOperator" \in StartSteps /\ "writeOpCert" \in StartSteps
  BY <1>1 DEF Enrolling, StartSteps
<1>3. /\ config.admin \in {"p12", "pem"} /\ config.signer # "dogtag" /\ rows.operators = {} /\ proc.key > 0 /\ Credentials = NoPair
  BY <1>0, <1>1, <1>2 DEF AdminStep
<1>4. CaWhole /\ proc.ca = disk.caCert.key BY <1>0, <1>1 DEF CaStep, CaDone, MtcDone, TlsDone, Enrolling
<1>5. CASE config.admin = "p12"
  <2>1. PICK p \in PairRecords : p = Pair(proc.key, proc.ca) BY <1>0 DEF ProcRecords, PairRecords, Pair
  <2>2. p.key = proc.key /\ p.issuer = proc.ca BY <2>1 DEF Pair
  <2>3. disk' = [disk EXCEPT !.p12 = p] /\ Go("insertOperator") BY <1>5, <2>1 DEF write_secret_file
  <2>4. /\ disk' \in DiskRecords /\ disk'.p12 = p /\ disk'.opKey = disk.opKey /\ disk'.opCert = disk.opCert
        /\ CaSame /\ MtcSame /\ TlsSame
    BY <1>0, <2>3, P12Written
  <2>5. proc'.step = "insertOperator" /\ proc'.key = proc.key /\ proc'.ca = proc.ca BY <1>0, <1>2, <2>3, Went
  <2>6. Issued(disk.p12)' BY <1>3, <1>4, <2>2, <2>4 DEF Issued, CaWhole, CaSame
  <2>7. Issued(disk.opCert)' /\ (disk'.opCert.key > 0 => disk'.opKey = disk'.opCert.key)
    BY <1>0, <2>4 DEF FilesFit, Issued, CaWhole, CaSame, NoPair, TornPair, Pair, Absent, Torn
  <2>8. Credentials' = Pair(proc'.key, proc'.ca) BY <1>1, <1>5, <2>1, <2>4, <2>5 DEF Credentials
  <2>9. AdminStep' BY <1>1, <1>3, <1>5, <2>5, <2>8 DEF AdminStep, Serving, Pair
  <2> QED BY <1>1, <1>2, <2>3, <2>4, <2>6, <2>7, <2>9, CredentialWritten
<1>6. CASE config.admin = "pem"
  <2>1. PICK k \in Int : k = proc.key BY <1>0 DEF ProcRecords
  <2>2. disk' = [disk EXCEPT !.opKey = k] /\ Go("writeOpCert") BY <1>6, <2>1 DEF write_secret_file
  <2>3. /\ disk' \in DiskRecords /\ disk'.opKey = k /\ disk'.opCert = disk.opCert /\ disk'.p12 = disk.p12
        /\ CaSame /\ MtcSame /\ TlsSame
    BY <1>0, <2>2, OpKeyWritten
  <2>4. proc'.step = "writeOpCert" /\ proc'.key = proc.key BY <1>0, <1>2, <2>2, Went
  <2>5. disk.opCert = NoPair BY <1>3, <1>6 DEF Credentials
  <2>6. Issued(disk.opCert)' /\ Issued(disk.p12)'
    BY <1>0, <2>3 DEF FilesFit, Issued, CaWhole, CaSame, NoPair, TornPair, Pair, Absent, Torn
  <2>7. ~(disk'.opCert.key > 0) /\ NoPair' = NoPair BY <2>3, <2>5 DEF NoPair, Pair, Absent
  <2>8. AdminStep' BY <1>1, <1>3, <1>6, <2>1, <2>3, <2>4, <2>5, <2>7 DEF AdminStep, Serving
  <2> QED BY <1>1, <1>2, <2>2, <2>3, <2>6, <2>7, <2>8, CredentialWritten
<1> QED BY <1>3, <1>5, <1>6

LEMMA WriteOperatorCertKeeps ==
    ASSUME StartupAssumption, StartInv, write_operator_cert
    PROVE  StartInv'
<1>0. AdminStep /\ CaStep /\ FilesFit /\ proc \in ProcRecords /\ disk \in DiskRecords BY Parts
<1>1. proc.step = "writeOpCert" /\ UNCHANGED <<config, rows, keys, refused, history>> BY DEF write_operator_cert, At
<1>2. proc.step \in Enrolling /\ "insertOperator" \in Enrolling /\ "insertOperator" \in StartSteps BY <1>1 DEF Enrolling, StartSteps
<1>3. /\ config.admin = "pem" /\ config.signer # "dogtag" /\ rows.operators = {} /\ proc.key > 0
      /\ disk.opCert = NoPair /\ disk.opKey = proc.key
  BY <1>0, <1>1, <1>2 DEF AdminStep
<1>4. CaWhole /\ proc.ca = disk.caCert.key BY <1>0, <1>1 DEF CaStep, CaDone, MtcDone, TlsDone, Enrolling
<1>5. PICK p \in PairRecords : p = Pair(proc.key, proc.ca) BY <1>0 DEF ProcRecords, PairRecords, Pair
<1>6. p.key = proc.key /\ p.issuer = proc.ca BY <1>5 DEF Pair
<1>7. disk' = [disk EXCEPT !.opCert = p] /\ Go("insertOperator") BY <1>5 DEF write_operator_cert
<1>8. /\ disk' \in DiskRecords /\ disk'.opCert = p /\ disk'.opKey = disk.opKey /\ disk'.p12 = disk.p12
      /\ CaSame /\ MtcSame /\ TlsSame
  BY <1>0, <1>7, OpCertWritten
<1>9. proc'.step = "insertOperator" /\ proc'.key = proc.key /\ proc'.ca = proc.ca BY <1>0, <1>2, <1>7, Went
<1>10. Issued(disk.opCert)' BY <1>3, <1>4, <1>6, <1>8 DEF Issued, CaWhole, CaSame
<1>11. Issued(disk.p12)' BY <1>0, <1>8 DEF FilesFit, Issued, CaWhole, CaSame, NoPair, TornPair, Pair, Absent, Torn
<1>12. Credentials' = Pair(proc'.key, proc'.ca) BY <1>1, <1>3, <1>5, <1>8, <1>9 DEF Credentials
<1>13. AdminStep' BY <1>1, <1>3, <1>8, <1>9, <1>12 DEF AdminStep, Serving, Pair
<1>14. disk'.opKey = disk'.opCert.key BY <1>3, <1>6, <1>8
<1> QED BY <1>1, <1>2, <1>7, <1>8, <1>10, <1>11, <1>13, <1>14, CredentialWritten
LEMMA InsertOperatorKeeps ==
    ASSUME StartInv, insert_if_absent
    PROVE  StartInv'
<1>0. AdminStep /\ proc \in ProcRecords /\ keys \in Nat /\ disk \in DiskRecords /\ rows \in RowRecords BY Parts
<1>1. proc.step = "insertOperator" /\ Go("services") /\ UNCHANGED <<config, disk, keys, refused, history>> BY DEF insert_if_absent, At
<1>2. proc.step \in Enrolling /\ "services" \in StartSteps BY <1>1 DEF Enrolling, StartSteps
<1>3. /\ config.admin \in {"p12", "pem"} /\ config.signer # "dogtag" /\ proc.key > 0 /\ Credentials = Pair(proc.key, proc.ca)
      /\ config.admin = "pem" => disk.opKey = proc.key
  BY <1>0, <1>1, <1>2 DEF AdminStep
<1>4. PICK o \in [fingerprint : Int, principal : Int] : o = [fingerprint |-> proc.key, principal |-> Absent]
  <2>1. proc.key \in Int /\ Absent \in Int BY <1>0 DEF ProcRecords, Absent
  <2>2. [fingerprint |-> proc.key, principal |-> Absent] \in [fingerprint : Int, principal : Int] BY <2>1
  <2> QED BY <2>2
<1>5. o.fingerprint = proc.key BY <1>4
<1>6. rows' = [rows EXCEPT !.operators = rows.operators \union {o}] BY <1>4 DEF insert_if_absent
<1>7. rows' \in RowRecords /\ rows'.operators = rows.operators \union {o} /\ rows'.node = rows.node BY <1>0, <1>6 DEF RowRecords
<1>8. proc' \in ProcRecords /\ proc'.step = "services" /\ proc'.node = proc.node /\ proc'.ca = proc.ca BY <1>0, <1>1, <1>2, Went
<1>9. CaSame /\ MtcSame /\ TlsSame /\ OpSame BY <1>1, NothingWritten
<1>10. FilesFit' /\ ServedFit' BY <1>1, <1>7, RowsServe DEF history
<1>11. Credentials.key = proc.key BY <1>3 DEF Pair
<1>12. CredentialsThere(config)' BY <1>1, <1>3, <1>11 DEF CredentialsThere, Credentials, Absent
<1>13. OperatorKnown(config)'
  <2>1. proc.key \in Fingerprints' BY <1>3, <1>5, <1>7 DEF Fingerprints, Absent
  <2>2. /\ config'.admin \in {"p12", "pem"}
        /\ config'.admin = "p12" => disk'.p12.key = proc.key
        /\ config'.admin = "pem" => disk'.opCert.key = proc.key
    BY <1>1, <1>3, <1>11 DEF Credentials
  <2> QED BY <2>1, <2>2 DEF OperatorKnown
<1>14. AdminStep' BY <1>1, <1>3, <1>8, <1>12, <1>13 DEF AdminStep, Enrolling
<1> QED BY <1>0, <1>1, <1>2, <1>7, <1>8, <1>9, <1>10, <1>14, LateKeeps

-----------------------------------------------------------------------------
(* Services, serving, and the end of a process.                            *)
LEMMA BuildStateKeeps ==
    ASSUME StartInv, build_state
    PROVE  StartInv'
<1>0. AdminStep /\ proc \in ProcRecords /\ keys \in Nat /\ disk \in DiskRecords /\ rows \in RowRecords BY Parts
<1>1. proc.step = "services" /\ UNCHANGED <<config, disk, rows, keys, history>> BY DEF build_state, At
<1>2. CASE config.flaw = "late"
  <2>1. Stop("config") BY <1>2 DEF build_state
  <2>2. Because("config") BY <1>2 DEF Because, Fit
  <2> QED BY <1>1, <2>1, <2>2, Stopped
<1>3. CASE config.flaw # "late"
  <2>1. Go("listen") /\ UNCHANGED refused BY <1>3 DEF build_state
  <2>2. "listen" \in StartSteps BY DEF StartSteps
  <2>3. proc' \in ProcRecords /\ proc'.step = "listen" /\ proc'.node = proc.node /\ proc'.ca = proc.ca BY <1>0, <2>1, <2>2, Went
  <2>4. CaSame /\ MtcSame /\ TlsSame /\ OpSame BY <1>1, NothingWritten
  <2>5. FilesFit' /\ ServedFit' BY <1>1, RowsServe DEF history
  <2>6. CredentialsThere(config) /\ OperatorKnown(config) /\ (config.admin # "none" => config.signer # "dogtag")
    BY <1>0, <1>1 DEF AdminStep, Serving
  <2>7. CredentialsThere(config)' /\ OperatorKnown(config)'
    BY <1>1, <2>6 DEF CredentialsThere, OperatorKnown, Fingerprints, Absent, Principal
  <2>8. AdminStep' BY <1>1, <2>3, <2>6, <2>7 DEF AdminStep, Enrolling
  <2> QED BY <1>0, <1>1, <1>3, <2>1, <2>3, <2>4, <2>5, <2>8, LateKeeps
<1> QED BY <1>2, <1>3

(* Everything a served configuration needs has been made sure of.          *)
LEMMA ListenIsFit ==
    ASSUME StartInv, proc.step = "listen", config.flaw # "webui", config.tls => disk.tlsCert.key > 0
    PROVE  Fit(config)
<1>0. Checked /\ CaStep /\ MtcStep /\ TlsStep /\ AdminStep BY Parts
<1>1. Sections(config) /\ config.flaw \notin {"algorithm", "late", "webui"} BY <1>0 DEF Checked, PastParse, StartSteps
<1>2. proc.step \in CaDone /\ proc.step \in MtcDone /\ proc.step \in TlsDone /\ proc.step \in Serving
  BY DEF CaDone, MtcDone, TlsDone, Serving
<1>3. CaWhole /\ (config.mtc => disk.mtcKey > 0) BY <1>0, <1>2 DEF CaStep, MtcStep
<1>4. config.tls => config.signer # "dogtag" BY <1>0, <1>2 DEF TlsStep
<1>5. /\ CredentialsThere(config) /\ OperatorKnown(config)
      /\ config.admin # "none" => config.signer # "dogtag"
  BY <1>0, <1>2 DEF AdminStep
<1>6. Signs(config) BY <1>4, <1>5 DEF Signs
<1> QED BY <1>1, <1>3, <1>5, <1>6 DEF Fit

LEMMA ServeKeepsFit ==
    ASSUME StartInv, serve_router
    PROVE  StartInv'
<1>0. /\ FilesFit /\ ServedFit /\ Checked /\ CaStep /\ MtcStep /\ TlsStep /\ AdminStep /\ NodeStep
      /\ config \in Configs /\ disk \in DiskRecords /\ rows \in RowRecords /\ proc \in ProcRecords /\ keys \in Nat
      /\ refused = "no" /\ proc.step = "listen" /\ served \subseteq Configs
  BY Parts DEF serve_router, At, StartupTypeOK
<1>1. UNCHANGED <<config, rows, keys, starts, kills, edited, unseeded>> BY DEF serve_router
<1>2. CASE config.flaw = "webui"
  <2>1. Stop("config") /\ UNCHANGED <<disk, served, announced>> BY <1>2 DEF serve_router
  <2>2. Because("config") BY <1>2 DEF Because, Fit
  <2>3. UNCHANGED history BY <1>1, <2>1 DEF history
  <2> QED BY <1>0, <1>1, <2>1, <2>2, <2>3, Stopped
<1>3. CASE /\ config.flaw # "webui"
           /\ config.tls /\ (disk.tlsKey = Torn \/ disk.tlsCert = TornPair \/ disk.tlsKey # disk.tlsCert.key)
  <2>1. Stop("tlsFiles") /\ UNCHANGED <<disk, served, announced>> BY <1>3 DEF serve_router
  <2>2. ~(disk.tlsCert.key > 0) BY <1>0, <1>3 DEF FilesFit, TornPair, Pair, Torn
  <2>3. Because("tlsFiles") BY <1>3, <2>2 DEF Because, Fit
  <2>4. UNCHANGED history BY <1>1, <2>1 DEF history
  <2> QED BY <1>0, <1>1, <2>1, <2>3, <2>4, Stopped
<1>4. CASE /\ config.flaw # "webui"
           /\ ~(config.tls /\ (disk.tlsKey = Torn \/ disk.tlsCert = TornPair \/ disk.tlsKey # disk.tlsCert.key))
  <2>1. /\ disk' = IF config.listen = "unix" THEN bind_unix ELSE disk
        /\ Go("serving") /\ served' = served \union {config} /\ announced' = announced \union {proc.node} /\ UNCHANGED refused
    BY <1>4 DEF serve_router
  <2>2. disk' \in DiskRecords /\ CaSame /\ MtcSame /\ TlsSame /\ OpSame
    <3>1. CASE config.listen = "unix"
      <4>1. disk' = [disk EXCEPT !.socket = TRUE] BY <2>1, <3>1 DEF bind_unix
      <4>2. TRUE \in BOOLEAN OBVIOUS
      <4> QED BY <1>0, <4>1, <4>2, SocketWritten
    <3>2. CASE config.listen # "unix"
      <4>1. UNCHANGED disk BY <2>1, <3>2
      <4> QED BY <1>0, <4>1, NothingWritten
    <3> QED BY <3>1, <3>2
  <2>3. "serving" \in StartSteps BY DEF StartSteps
  <2>4. proc' \in ProcRecords /\ proc'.step = "serving" /\ proc'.node = proc.node /\ proc'.ca = proc.ca BY <1>0, <2>1, <2>3, Went
  <2>5. /\ proc.step \in CaDone /\ proc'.step \in CaDone /\ proc.step \in MtcDone /\ proc'.step \in MtcDone
        /\ proc.step \in TlsDone /\ proc.step \in Serving /\ proc'.step \in Serving
    BY <1>0, <2>4 DEF CaDone, MtcDone, TlsDone, Serving
  <2>6. config.tls => disk.tlsCert.key > 0
    <3>1. config.tls => disk.tlsCert # NoPair /\ disk.tlsCert # TornPair BY <1>0, <1>4, <2>5 DEF TlsStep
    <3> QED BY <1>0, <3>1 DEF FilesFit, Issued
  <2>7. Fit(config) BY <1>0, <1>4, <2>6, ListenIsFit
  <2>8. ASSUME NEW c, Fit(c) PROVE Fit(c)'
    <3>1. (CredentialsThere(c) => CredentialsThere(c)') /\ (OperatorKnown(c) => OperatorKnown(c)')
      <4>1. rows.operators \subseteq rows'.operators BY <1>1
      <4> QED BY <2>2, <4>1, AdminStays
    <3>2. CaWhole => CaWhole' BY <2>2 DEF CaWhole, CaSame
    <3>3. disk'.mtcKey = disk.mtcKey /\ disk'.tlsCert = disk.tlsCert /\ config' = config BY <1>1, <2>2 DEF MtcSame, TlsSame
    <3> QED BY <2>8, <3>1, <3>2, <3>3, FitStays
  <2>9. ServedFit' BY <1>0, <2>1, <2>7, <2>8 DEF ServedFit
  <2>10. FilesFit' BY <1>0, <1>1, <2>2, FilesStay
  <2>11. Checked' BY <1>0, <1>1, <2>4 DEF Checked, Sections, PastParse, StartSteps
  <2>12. CaStep' BY <1>0, <2>2, <2>4, <2>5, CaStays
  <2>13. MtcStep' BY <1>0, <1>1, <2>2, <2>5, MtcStays
  <2>14. TlsStep'
    <3>1. config.tls => config.signer # "dogtag" /\ disk'.tlsCert.key > 0 BY <1>0, <2>2, <2>5, <2>6 DEF TlsStep, TlsSame
    <3>2. config.tls => disk'.tlsCert # NoPair' BY <3>1 DEF NoPair, Pair, Absent
    <3> QED BY <1>1, <2>4, <3>1, <3>2 DEF TlsStep
  <2>15. AdminStep'
    <3>1. CredentialsThere(config) /\ OperatorKnown(config) /\ (config.admin # "none" => config.signer # "dogtag")
      BY <1>0, <2>5 DEF AdminStep
    <3>2. CredentialsThere(config)' /\ OperatorKnown(config)'
      BY <1>1, <2>2, <3>1 DEF CredentialsThere, OperatorKnown, Fingerprints, Absent, Principal, OpSame
    <3> QED BY <1>1, <2>4, <3>1, <3>2 DEF AdminStep, Enrolling
  <2>16. NodeStep'
    <3>1. proc.node > 0 /\ proc.node = rows.node.sign BY <1>0, <2>5 DEF NodeStep
    <3>2. announced' \subseteq {rows'.node.sign} /\ rows'.node.sign > 0 BY <1>0, <1>1, <2>1, <3>1 DEF NodeStep
    <3> QED BY <1>1, <2>4, <3>1, <3>2 DEF NodeStep
  <2>17. RefusedFor' BY <1>0, <2>1 DEF RefusedFor, Because
  <2>18. StartupTypeOK'
    <3>1. served' \subseteq Configs BY <1>0, <2>1
    <3> QED BY <1>0, <1>1, <2>2, <2>4, <3>1 DEF StartupTypeOK, DiskRecords, PairRecords, RowRecords, ProcRecords, StartSteps
  <2> QED BY <2>9, <2>10, <2>11, <2>12, <2>13, <2>14, <2>15, <2>16, <2>17, <2>18 DEF StartInv
<1> QED BY <1>2, <1>3, <1>4
LEMMA PutOperatorKeeps ==
    ASSUME StartInv, put_operator
    PROVE  StartInv'
<1>0. /\ FilesFit /\ Checked /\ CaStep /\ MtcStep /\ TlsStep /\ AdminStep /\ NodeStep
      /\ config \in Configs /\ disk \in DiskRecords /\ rows \in RowRecords /\ proc \in ProcRecords /\ keys \in Nat
      /\ refused = "no" /\ proc.step = "serving"
  BY Parts DEF put_operator, At
<1>1. UNCHANGED <<config, disk, proc, keys, refused, announced, unseeded>> /\ edited' = TRUE /\ served' = {} BY DEF put_operator
<1>2. PICK ops : ops = {[o EXCEPT !.fingerprint = IF o.fingerprint = Absent THEN o.fingerprint ELSE 3000] : o \in rows.operators} OBVIOUS
<1>3. rows' = [rows EXCEPT !.operators = ops] BY <1>2 DEF put_operator
<1>4. ops \subseteq [fingerprint : Int, principal : Int]
  <2> SUFFICES ASSUME NEW o \in rows.operators
               PROVE  [o EXCEPT !.fingerprint = IF o.fingerprint = Absent THEN o.fingerprint ELSE 3000] \in [fingerprint : Int, principal : Int]
    BY <1>2
  <2>1. o \in [fingerprint : Int, principal : Int] BY <1>0 DEF RowRecords
  <2>2. PICK f \in Int : f = IF o.fingerprint = Absent THEN o.fingerprint ELSE 3000 BY <2>1
  <2> QED BY <2>1, <2>2
<1>5. rows' \in RowRecords /\ rows'.node = rows.node BY <1>0, <1>3, <1>4 DEF RowRecords
<1>6. CaSame /\ MtcSame /\ TlsSame /\ OpSame BY <1>1, NothingWritten
<1>7. proc.step \in CaDone /\ proc.step \in MtcDone /\ proc.step \in Serving BY <1>0 DEF CaDone, MtcDone, TlsDone, Serving
<1>8. FilesFit' BY <1>0, <1>1, <1>6, FilesStay
<1>9. ServedFit' BY <1>1 DEF ServedFit
<1>10. Checked' BY <1>0, <1>1 DEF Checked, Sections, PastParse, StartSteps
<1>11. CaStep' BY <1>0, <1>1, <1>6, <1>7, CaStays
<1>12. MtcStep' BY <1>0, <1>1, <1>6, <1>7, MtcStays
<1>13. NodeStep' BY <1>0, <1>1, <1>5, <1>7, NodeStays
<1>14. TlsStep' BY <1>0, <1>1 DEF TlsStep, TlsDone, Enrolling, Serving, NoPair, Pair, Absent
<1>15. AdminStep'
  <2>1. CredentialsThere(config) /\ (config.admin # "none" => config.signer # "dogtag") BY <1>0, <1>7 DEF AdminStep
  <2>2. CredentialsThere(config)' BY <1>1, <2>1 DEF CredentialsThere, Absent
  <2> QED BY <1>0, <1>1, <2>1, <2>2 DEF AdminStep, Enrolling
<1>16. RefusedFor' BY <1>0, <1>1 DEF RefusedFor, Because
<1>17. StartupTypeOK' BY <1>0, <1>1, <1>5 DEF StartupTypeOK, DiskRecords, PairRecords, RowRecords, ProcRecords, StartSteps
<1> QED BY <1>8, <1>9, <1>10, <1>11, <1>12, <1>13, <1>14, <1>15, <1>16, <1>17 DEF StartInv

(* No process runs, or it has not read its configuration yet.              *)
LEMMA AtRest ==
    ASSUME StartInv, proc' \in ProcRecords, proc'.step \in {"off", "config"}, refused' = "no", config' \in Configs, disk' \in DiskRecords,
           rows' = rows, keys' = keys, announced' = announced, served' = served, disk'.log = "empty" => unseeded', FilesFit', ServedFit'
    PROVE  StartInv'
<1>0. NodeStep /\ rows \in RowRecords /\ keys \in Nat /\ served \subseteq Configs BY Parts DEF StartupTypeOK
<1>1. proc'.step \notin CaDone \union MtcDone \union TlsDone \union Enrolling \union Serving \union Named
  BY DEF CaDone, MtcDone, TlsDone, Enrolling, Serving, Named
<1>2. Checked' BY DEF Checked, PastParse, StartSteps
<1>3. CaStep' /\ TlsStep' /\ AdminStep' BY <1>1, CaAhead, TlsAhead, AdminAhead
<1>4. MtcStep' BY <1>1 DEF MtcStep
<1>5. NodeStep' BY <1>0, <1>1 DEF NodeStep, NoTable, NoRow, Torn, Absent
<1>6. RefusedFor' BY DEF RefusedFor, Because
<1>7. StartupTypeOK' BY <1>0 DEF StartupTypeOK, DiskRecords, PairRecords, RowRecords, ProcRecords, StartSteps
<1> QED BY <1>2, <1>3, <1>4, <1>5, <1>6, <1>7 DEF StartInv

LEMMA OffIsRest == Off \in ProcRecords /\ Off.step = "off"
BY DEF Off, ProcRecords, StartSteps, Absent

LEMMA BeginKeeps ==
    ASSUME StartInv, begin
    PROVE  StartInv'
<1>0. MtcStep /\ config \in Configs /\ proc \in ProcRecords /\ disk \in DiskRecords BY Parts
<1>1. /\ proc.step = "off" /\ Go("config") /\ refused' = "no"
      /\ UNCHANGED <<config, disk, rows, keys, served, announced, unseeded>>
  BY DEF begin, At
<1>2. "config" \in StartSteps BY DEF StartSteps
<1>3. proc' \in ProcRecords /\ proc'.step = "config" BY <1>0, <1>1, <1>2, Went
<1>4. FilesFit' /\ ServedFit' BY <1>1, RowsServe
<1>5. disk'.log = "empty" => unseeded' BY <1>0, <1>1 DEF MtcStep
<1> QED BY <1>0, <1>1, <1>3, <1>4, <1>5, AtRest

LEMMA ReconfigureKeeps ==
    ASSUME StartInv, Reconfigure
    PROVE  StartInv'
<1>0. FilesFit /\ ServedFit /\ MtcStep /\ proc \in ProcRecords /\ disk \in DiskRecords BY Parts
<1>1. /\ proc.step = "off" /\ refused' = "no" /\ UNCHANGED <<disk, rows, proc, keys, served, announced, unseeded>>
      /\ config' \in Configs /\ config'.signer = config.signer
  BY DEF Reconfigure, At, history
<1>2. CaSame /\ MtcSame /\ TlsSame /\ OpSame BY <1>1, NothingWritten
<1>3. FilesFit' BY <1>0, <1>1, <1>2, FilesStay
<1>4. ServedFit'
  <2> SUFFICES ASSUME NEW c \in served PROVE Fit(c)' BY <1>1 DEF ServedFit
  <2>1. Fit(c) BY <1>0 DEF ServedFit
  <2>2. (CredentialsThere(c) => CredentialsThere(c)') /\ (OperatorKnown(c) => OperatorKnown(c)')
    <3>1. rows.operators \subseteq rows'.operators BY <1>1
    <3> QED BY <1>2, <3>1, AdminStays
  <2>3. CaWhole => CaWhole' BY <1>1 DEF CaWhole
  <2> QED BY <1>1, <2>1, <2>2, <2>3, FitStays
<1>5. disk'.log = "empty" => unseeded' BY <1>0, <1>1 DEF MtcStep
<1> QED BY <1>0, <1>1, <1>3, <1>4, <1>5, AtRest

LEMMA ShutdownKeeps ==
    ASSUME StartInv, graceful_shutdown
    PROVE  StartInv'
<1>0. FilesFit /\ ServedFit /\ MtcStep /\ config \in Configs /\ disk \in DiskRecords /\ refused = "no" /\ proc.step = "serving"
  BY Parts DEF graceful_shutdown, At
<1>1. /\ proc' = Off /\ UNCHANGED <<config, rows, keys, refused, served, announced, unseeded>>
      /\ disk' = [disk EXCEPT !.socket = IF config.listen = "unix" THEN FALSE ELSE disk.socket]
  BY DEF graceful_shutdown, history
<1>2. PICK b \in BOOLEAN : b = IF config.listen = "unix" THEN FALSE ELSE disk.socket
  <2>1. disk.socket \in BOOLEAN BY <1>0 DEF DiskRecords
  <2>2. CASE config.listen = "unix" BY <2>2
  <2>3. CASE config.listen # "unix" BY <2>1, <2>3
  <2> QED BY <2>2, <2>3
<1>3. disk' = [disk EXCEPT !.socket = b] BY <1>1, <1>2
<1>4. disk' \in DiskRecords /\ CaSame /\ MtcSame /\ TlsSame /\ OpSame BY <1>0, <1>3, SocketWritten
<1>5. FilesFit' BY <1>0, <1>1, <1>4, FilesStay
<1>6. disk'.mtcKey = disk.mtcKey /\ disk'.log = disk.log /\ disk'.tlsCert = disk.tlsCert BY <1>4 DEF MtcSame, TlsSame
<1>7. ServedFit' BY <1>0, <1>1, <1>4, <1>6, ServedStays
<1>8. disk'.log = "empty" => unseeded' BY <1>0, <1>1, <1>6 DEF MtcStep
<1>9. proc' \in ProcRecords /\ proc'.step = "off" BY <1>1, OffIsRest
<1>10. refused' = "no" /\ config' \in Configs BY <1>0, <1>1
<1> QED BY <1>1, <1>4, <1>5, <1>7, <1>8, <1>9, <1>10, AtRest
(* A write that is cut short spoils one file, which nobody relied on.      *)
LEMMA CutFits ==
    ASSUME StartupAssumption, StartInv, UNCHANGED <<config, rows, served>>, disk' = CutShort
    PROVE  disk' \in DiskRecords /\ disk'.log = disk.log /\ FilesFit' /\ ServedFit'
<1>0. /\ FilesFit /\ ServedFit /\ CaStep /\ TlsStep /\ AdminStep /\ disk \in DiskRecords BY Parts
<1>1. Torn \in Int /\ Torn = -1 BY DEF Torn
<1>2. PICK t \in PairRecords : t = TornPair
  <2>1. TornPair \in PairRecords BY <1>1 DEF PairRecords, TornPair, Pair
  <2> QED BY <2>1
<1>3. t.key = -1 /\ NoPair.key = 0 /\ NoPair' = NoPair /\ TornPair' = t BY <1>2 DEF TornPair, NoPair, Pair, Torn, Absent
<1>4. rows.operators \subseteq rows'.operators /\ config' = config /\ served' = served OBVIOUS
<1>5. CASE UNCHANGED disk
  <2>1. CaSame /\ MtcSame /\ TlsSame /\ OpSame BY <1>5, NothingWritten
  <2> QED BY <1>0, <1>4, <1>5, <2>1, FilesStay, ServedStays
<1>6. CASE proc.step \in {"writeCaKey", "writeCaCert"}
  <2>1. disk.caCert = NoPair /\ config.signer # "dogtag" /\ (config.signer = "hsm" => proc.step = "writeCaCert") BY <1>0, <1>6 DEF CaStep
  <2>2. ~CaWhole BY <1>3, <2>1 DEF CaWhole
  <2>3. served = {} /\ \A p : Issued(p) => p = NoPair \/ p = TornPair BY <2>2, NoCaYet
  <2>4. /\ disk' \in DiskRecords /\ MtcSame /\ TlsSame /\ OpSame
        /\ disk'.caCert = NoPair \/ disk'.caCert = t
    <3>1. CASE proc.step = "writeCaKey"
      <4>1. disk' = [disk EXCEPT !.caKey = Torn] BY <3>1 DEF CutShort, At
      <4> QED BY <1>0, <1>1, <2>1, <4>1, CaKeyWritten
    <3>2. CASE proc.step = "writeCaCert"
      <4>1. disk' = [disk EXCEPT !.caCert = t] BY <1>2, <3>2 DEF CutShort, At
      <4> QED BY <1>0, <4>1, CaCertWritten
    <3> QED BY <1>6, <3>1, <3>2
  <2>5. ~CaWhole' BY <1>3, <2>4 DEF CaWhole
  <2>6. CaFits' BY <1>3, <2>1, <2>4, <2>5 DEF CaFits
  <2>7. Issued(disk.tlsCert)' /\ Issued(disk.opCert)' /\ Issued(disk.p12)'
    BY <1>0, <1>2, <1>3, <2>3, <2>4 DEF FilesFit, Issued, TlsSame, OpSame
  <2>8. FilesFit' BY <1>0, <2>4, <2>6, <2>7 DEF FilesFit, TlsSame, OpSame
  <2>9. ServedFit' /\ disk'.log = disk.log BY <2>3, <2>4 DEF ServedFit, MtcSame
  <2> QED BY <2>4, <2>8, <2>9
<1>7. CASE proc.step = "mtcKey" /\ disk.mtcKey = Absent
  <2>1. disk' = [disk EXCEPT !.mtcKey = Torn] BY <1>7 DEF CutShort, At
  <2>2. disk' \in DiskRecords /\ disk'.log = disk.log /\ CaSame /\ TlsSame /\ OpSame BY <1>0, <1>1, <2>1, MtcKeyWritten
  <2>3. ~(disk.mtcKey > 0) /\ disk'.tlsCert = disk.tlsCert BY <1>7, <2>2 DEF Absent, TlsSame
  <2> QED BY <1>0, <1>4, <2>2, <2>3, FilesStay, ServedStays
<1>8. CASE proc.step \in {"writeTlsKey", "writeTlsCert"}
  <2>1. disk.tlsCert = NoPair BY <1>0, <1>8 DEF TlsStep
  <2>2. /\ disk' \in DiskRecords /\ CaSame /\ MtcSame /\ OpSame
        /\ disk'.tlsCert = NoPair \/ disk'.tlsCert = t
    <3>1. CASE proc.step = "writeTlsKey"
      <4>1. disk' = [disk EXCEPT !.tlsKey = Torn] BY <3>1 DEF CutShort, At
      <4> QED BY <1>0, <1>1, <2>1, <4>1, TlsKeyWritten
    <3>2. CASE proc.step = "writeTlsCert"
      <4>1. disk' = [disk EXCEPT !.tlsCert = t] BY <1>2, <3>2 DEF CutShort, At
      <4> QED BY <1>0, <4>1, TlsCertWritten
    <3> QED BY <1>8, <3>1, <3>2
  <2>3. ~(disk.tlsCert.key > 0) /\ ~(disk'.tlsCert.key > 0) BY <1>3, <2>1, <2>2
  <2>4. CaFits' /\ Issued(disk.opCert)' /\ Issued(disk.p12)' /\ (disk'.opCert.key > 0 => disk'.opKey = disk'.opCert.key)
    BY <1>0, <2>2 DEF FilesFit, CaFits, CaWhole, Issued, CaSame, OpSame, NoPair, TornPair, Pair, HsmKey, DogtagKey, Absent, Torn
  <2>5. Issued(disk.tlsCert)' BY <1>3, <2>2 DEF Issued
  <2>6. FilesFit' BY <2>3, <2>4, <2>5 DEF FilesFit
  <2>7. disk'.mtcKey = disk.mtcKey /\ disk'.log = disk.log BY <2>2 DEF MtcSame
  <2> QED BY <1>0, <1>4, <2>2, <2>3, <2>6, <2>7, ServedStays
<1>9. CASE proc.step \in {"writeCredentials", "writeOpCert"}
  <2>0. proc.step \in Enrolling BY <1>9 DEF Enrolling
  <2>1. rows.operators = {} /\ config.admin \in {"p12", "pem"} BY <1>0, <2>0 DEF AdminStep
  <2>2. config.admin = "pem" => disk.opCert = NoPair BY <1>0, <1>9 DEF AdminStep, Credentials
  <2>3. /\ disk' \in DiskRecords /\ CaSame /\ MtcSame /\ TlsSame
        /\ \/ disk'.p12 = t /\ disk'.opKey = disk.opKey /\ disk'.opCert = disk.opCert
           \/ disk'.p12 = disk.p12 /\ (disk'.opCert = NoPair \/ disk'.opCert = t)
    <3>1. CASE proc.step = "writeCredentials" /\ config.admin = "p12"
      <4>1. disk' = [disk EXCEPT !.p12 = t] BY <1>2, <3>1 DEF CutShort, At
      <4> QED BY <1>0, <4>1, P12Written
    <3>2. CASE proc.step = "writeCredentials" /\ config.admin = "pem"
      <4>1. disk' = [disk EXCEPT !.opKey = Torn] BY <3>2 DEF CutShort, At
      <4> QED BY <1>0, <1>1, <2>2, <3>2, <4>1, OpKeyWritten
    <3>3. CASE proc.step = "writeOpCert"
      <4>1. disk' = [disk EXCEPT !.opCert = t] BY <1>2, <3>3 DEF CutShort, At
      <4> QED BY <1>0, <4>1, OpCertWritten
    <3> QED BY <1>9, <2>1, <3>1, <3>2, <3>3
  <2>4. CaFits' /\ Issued(disk.tlsCert)' /\ (disk'.tlsCert.key > 0 => disk'.tlsKey = disk'.tlsCert.key)
    BY <1>0, <2>3 DEF FilesFit, CaFits, CaWhole, Issued, CaSame, TlsSame, NoPair, TornPair, Pair, HsmKey, DogtagKey, Absent, Torn
  <2>5. Issued(disk.opCert)' /\ Issued(disk.p12)'
    <3>1. ASSUME NEW p, Issued(p) PROVE Issued(p)' BY <2>3, <3>1 DEF Issued, CaWhole, CaSame, NoPair, TornPair, Pair, Absent, Torn
    <3>2. Issued(t)' /\ Issued(NoPair)' BY <1>3 DEF Issued
    <3>3. PICK p, q : p = disk.opCert /\ q = disk.p12 /\ Issued(p)' /\ Issued(q)' BY <1>0, <3>1 DEF FilesFit
    <3>4. /\ disk'.opCert = p \/ disk'.opCert = NoPair \/ disk'.opCert = t
          /\ disk'.p12 = q \/ disk'.p12 = t
      BY <2>3, <3>3
    <3> QED BY <1>3, <3>3, <3>4 DEF Issued
  <2>6. disk'.opCert.key > 0 => disk'.opKey = disk'.opCert.key BY <1>0, <1>3, <2>3 DEF FilesFit
  <2>7. FilesFit' BY <2>4, <2>5, <2>6 DEF FilesFit
  <2>8. \A c \in served : c.admin = "none" BY <2>1, NoOperatorYet
  <2>9. ServedFit'
    <3> SUFFICES ASSUME NEW c \in served PROVE Fit(c)' BY DEF ServedFit
    <3>1. Fit(c) BY <1>0 DEF ServedFit
    <3>2. CredentialsThere(c)' /\ OperatorKnown(c)' BY <2>8 DEF CredentialsThere, OperatorKnown
    <3>3. CaWhole => CaWhole' BY <2>3 DEF CaWhole, CaSame
    <3>4. disk'.mtcKey = disk.mtcKey /\ disk'.tlsCert = disk.tlsCert BY <2>3 DEF MtcSame, TlsSame
    <3> QED BY <1>4, <3>1, <3>2, <3>3, <3>4, FitStays
  <2>10. disk'.log = disk.log BY <2>3 DEF MtcSame
  <2> QED BY <2>3, <2>7, <2>9, <2>10
<1>10. CASE /\ proc.step \notin {"writeCaKey", "writeCaCert", "writeTlsKey", "writeTlsCert", "writeCredentials", "writeOpCert"}
            /\ ~(proc.step = "mtcKey" /\ disk.mtcKey = Absent)
  <2>1. UNCHANGED disk BY <1>10 DEF CutShort, At
  <2> QED BY <1>5, <2>1
<1> QED BY <1>6, <1>7, <1>8, <1>9, <1>10

LEMMA KillKeeps ==
    ASSUME StartupAssumption, StartInv, Kill
    PROVE  StartInv'
<1>0. MtcStep /\ config \in Configs /\ disk \in DiskRecords BY Parts
<1>1. proc' = Off /\ refused' = "no" /\ UNCHANGED <<config, rows, keys, served, announced>> BY DEF Kill
<1>2. proc' \in ProcRecords /\ proc'.step = "off" BY <1>1, OffIsRest
<1>3. disk' \in DiskRecords /\ disk'.log = disk.log /\ FilesFit' /\ ServedFit'
  <2>1. CASE disk' = disk BY <1>0, <1>1, <2>1, RowsServe
  <2>2. CASE disk' = CutShort BY <1>1, <2>2, CutFits
  <2> QED BY <2>1, <2>2 DEF Kill
<1>4. unseeded \/ proc.step = "seedLog" => unseeded' BY DEF Kill, At
<1>5. disk'.log = "empty" => unseeded' BY <1>0, <1>3, <1>4 DEF MtcStep
<1> QED BY <1>0, <1>1, <1>2, <1>3, <1>5, AtRest
(* What the administrator clears away was of no use to anything served.    *)
LEMMA RepairKeeps ==
    ASSUME StartupAssumption, StartInv, Repair
    PROVE  StartInv'
<1>0. /\ FilesFit /\ ServedFit /\ MtcStep /\ RefusedFor /\ config \in Configs /\ disk \in DiskRecords /\ proc \in ProcRecords
      /\ served \subseteq Configs
  BY Parts DEF StartupTypeOK
<1>1. proc.step = "off" /\ refused' = "no" /\ UNCHANGED <<config, rows, proc, keys, served, announced, unseeded>> BY DEF Repair, At, history
<1>2. Absent \in Int /\ NoPair \in PairRecords /\ NoPair.key = 0 /\ NoPair' = NoPair BY DEF NoPair, Pair, PairRecords, Absent
<1>3. rows.operators \subseteq rows'.operators /\ config' = config /\ served' = served BY <1>1
<1>4. disk' \in DiskRecords /\ disk'.log = disk.log /\ FilesFit' /\ ServedFit'
  <2>1. CASE refused = "caFiles" /\ config.signer # "dogtag"
    <3>1. ~CaWhole BY <1>0, <2>1 DEF RefusedFor, Because
    <3>2. served = {} /\ \A p : Issued(p) => p = NoPair \/ p = TornPair BY <3>1, NoCaYet
    <3>3. PICK d : d = [disk EXCEPT !.caKey = Absent] OBVIOUS
    <3>4. disk' = [d EXCEPT !.caCert = NoPair] BY <2>1, <3>3 DEF Repair
    <3>5. d \in DiskRecords /\ d.mtcKey = disk.mtcKey /\ d.log = disk.log /\ d.tlsKey = disk.tlsKey /\ d.tlsCert = disk.tlsCert
          /\ d.opKey = disk.opKey /\ d.opCert = disk.opCert /\ d.p12 = disk.p12
      BY <1>0, <1>2, <3>3 DEF DiskRecords
    <3>6. disk' \in DiskRecords /\ disk'.caCert = NoPair /\ disk'.log = d.log /\ disk'.tlsKey = d.tlsKey /\ disk'.tlsCert = d.tlsCert
          /\ disk'.opKey = d.opKey /\ disk'.opCert = d.opCert /\ disk'.p12 = d.p12
      BY <1>2, <3>4, <3>5 DEF DiskRecords
    <3>7. ~CaWhole' BY <1>2, <3>6 DEF CaWhole
    <3>8. CaFits' BY <1>1, <1>2, <2>1, <3>6, <3>7 DEF CaFits
    <3>9. TornPair' = TornPair BY DEF TornPair, Pair, Torn
    <3>10. Issued(disk.tlsCert)' /\ Issued(disk.opCert)' /\ Issued(disk.p12)'
      BY <1>0, <1>2, <3>2, <3>5, <3>6, <3>9 DEF FilesFit, Issued
    <3>11. FilesFit' BY <1>0, <3>5, <3>6, <3>8, <3>10 DEF FilesFit
    <3>12. ServedFit' BY <1>1, <3>2 DEF ServedFit
    <3> QED BY <3>5, <3>6, <3>11, <3>12
  <2>2. CASE refused = "mtcKey"
    <3>1. disk.mtcKey = -1 BY <1>0, <2>2 DEF RefusedFor, Because, Torn
    <3>2. disk' = [disk EXCEPT !.mtcKey = Absent] BY <2>2 DEF Repair
    <3>3. disk' \in DiskRecords /\ disk'.log = disk.log /\ CaSame /\ TlsSame /\ OpSame BY <1>0, <1>2, <3>2, MtcKeyWritten
    <3>4. ~(disk.mtcKey > 0) /\ disk'.tlsCert = disk.tlsCert BY <3>1, <3>3 DEF TlsSame
    <3> QED BY <1>0, <1>3, <3>3, <3>4, FilesStay, ServedStays
  <2>3. CASE refused = "tlsFiles"
    <3>1. ~(disk.tlsCert.key > 0) BY <1>0, <2>3 DEF RefusedFor, Because
    <3>2. PICK d : d = [disk EXCEPT !.tlsKey = Absent] OBVIOUS
    <3>3. disk' = [d EXCEPT !.tlsCert = NoPair] BY <2>3, <3>2 DEF Repair
    <3>4. d \in DiskRecords /\ d.mtcKey = disk.mtcKey /\ d.log = disk.log /\ d.caKey = disk.caKey /\ d.caCert = disk.caCert
          /\ d.opKey = disk.opKey /\ d.opCert = disk.opCert /\ d.p12 = disk.p12
      BY <1>0, <1>2, <3>2 DEF DiskRecords
    <3>5. disk' \in DiskRecords /\ disk'.tlsCert = NoPair /\ disk'.mtcKey = d.mtcKey /\ disk'.log = d.log /\ disk'.caKey = d.caKey
          /\ disk'.caCert = d.caCert /\ disk'.opKey = d.opKey /\ disk'.opCert = d.opCert /\ disk'.p12 = d.p12
      BY <1>2, <3>3, <3>4 DEF DiskRecords
    <3>6. CaSame /\ OpSame /\ disk'.mtcKey = disk.mtcKey /\ disk'.log = disk.log BY <3>4, <3>5 DEF CaSame, OpSame
    <3>7. CaFits' /\ Issued(disk.opCert)' /\ Issued(disk.p12)' /\ (disk'.opCert.key > 0 => disk'.opKey = disk'.opCert.key)
      BY <1>0, <1>1, <3>6 DEF FilesFit, CaFits, CaWhole, Issued, CaSame, OpSame, NoPair, TornPair, Pair, HsmKey, DogtagKey, Absent, Torn
    <3>8. Issued(disk.tlsCert)' /\ ~(disk'.tlsCert.key > 0) BY <1>2, <3>5 DEF Issued
    <3>9. FilesFit' BY <3>7, <3>8 DEF FilesFit
    <3>10. ServedFit' BY <1>0, <1>3, <3>1, <3>6, ServedStays
    <3> QED BY <3>5, <3>6, <3>9, <3>10
  <2>4. CASE refused = "operatorFile"
    <3>1. config.admin \in {"p12", "pem"} /\ ~(CredentialsThere(config) /\ OperatorKnown(config)) BY <1>0, <2>4 DEF RefusedFor, Because
    <3>2. \A c \in served : c.admin # config.admin
      <4> SUFFICES ASSUME NEW c \in served, c.admin = config.admin PROVE FALSE OBVIOUS
      <4>1. CredentialsThere(c) /\ OperatorKnown(c) BY <1>0 DEF ServedFit, Fit
      <4>2. CredentialsThere(config) /\ OperatorKnown(config) BY <4>1 DEF CredentialsThere, OperatorKnown
      <4> QED BY <3>1, <4>2
    <3>3. /\ disk' \in DiskRecords /\ CaSame /\ MtcSame /\ TlsSame
          /\ config.admin = "p12" => disk'.p12 = NoPair /\ disk'.opKey = disk.opKey /\ disk'.opCert = disk.opCert
          /\ config.admin = "pem" => disk'.p12 = disk.p12 /\ disk'.opCert = NoPair
      <4>1. CASE config.admin = "p12"
        <5>1. disk' = [disk EXCEPT !.p12 = NoPair] BY <2>4, <4>1 DEF Repair
        <5> QED BY <1>0, <1>2, <4>1, <5>1, P12Written
      <4>2. CASE config.admin = "pem"
        <5>1. PICK d : d = [disk EXCEPT !.opKey = Absent] OBVIOUS
        <5>2. disk' = [d EXCEPT !.opCert = NoPair] BY <2>4, <4>2, <5>1 DEF Repair
        <5>3. d \in DiskRecords /\ d.mtcKey = disk.mtcKey /\ d.log = disk.log /\ d.caKey = disk.caKey /\ d.caCert = disk.caCert
              /\ d.tlsKey = disk.tlsKey /\ d.tlsCert = disk.tlsCert /\ d.p12 = disk.p12
          BY <1>0, <1>2, <5>1 DEF DiskRecords
        <5>4. disk' \in DiskRecords /\ disk'.opCert = NoPair /\ disk'.mtcKey = d.mtcKey /\ disk'.log = d.log /\ disk'.caKey = d.caKey
              /\ disk'.caCert = d.caCert /\ disk'.tlsKey = d.tlsKey /\ disk'.tlsCert = d.tlsCert /\ disk'.p12 = d.p12
          BY <1>2, <5>2, <5>3 DEF DiskRecords
        <5>5. CaSame /\ MtcSame /\ TlsSame BY <5>3, <5>4 DEF CaSame, MtcSame, TlsSame
        <5> QED BY <4>2, <5>3, <5>4, <5>5
      <4> QED BY <3>1, <4>1, <4>2
    <3>4. CaFits' /\ Issued(disk.tlsCert)' /\ (disk'.tlsCert.key > 0 => disk'.tlsKey = disk'.tlsCert.key)
      BY <1>0, <1>1, <3>3 DEF FilesFit, CaFits, CaWhole, Issued, CaSame, TlsSame, NoPair, TornPair, Pair, HsmKey, DogtagKey, Absent, Torn
    <3>5. Issued(disk.opCert)' /\ Issued(disk.p12)'
      BY <1>0, <1>2, <3>1, <3>3 DEF FilesFit, Issued, CaWhole, CaSame, TornPair, Pair, Torn
    <3>6. disk'.opCert.key > 0 => disk'.opKey = disk'.opCert.key BY <1>0, <1>2, <3>1, <3>3 DEF FilesFit
    <3>7. FilesFit' BY <3>4, <3>5, <3>6 DEF FilesFit
    <3>8. ServedFit'
      <4> SUFFICES ASSUME NEW c \in served PROVE Fit(c)' BY <1>1 DEF ServedFit
      <4>1. Fit(c) BY <1>0 DEF ServedFit
      <4>2. c.admin # config.admin BY <3>2
      <4>3. (CredentialsThere(c) => CredentialsThere(c)') /\ (OperatorKnown(c) => OperatorKnown(c)')
        <5>1. c.admin = "p12" => disk'.p12 = disk.p12 BY <3>1, <3>3, <4>2
        <5>2. c.admin = "pem" => disk'.opKey = disk.opKey /\ disk'.opCert = disk.opCert BY <3>1, <3>3, <4>2
        <5>3. rows' = rows BY <1>1
        <5> QED BY <5>1, <5>2, <5>3 DEF CredentialsThere, OperatorKnown, Fingerprints, Absent, Principal
      <4>4. CaWhole => CaWhole' BY <3>3 DEF CaWhole, CaSame
      <4>5. disk'.mtcKey = disk.mtcKey /\ disk'.tlsCert = disk.tlsCert BY <3>3 DEF MtcSame, TlsSame
      <4> QED BY <1>3, <4>1, <4>3, <4>4, <4>5, FitStays
    <3>9. disk'.log = disk.log BY <3>3 DEF MtcSame
    <3> QED BY <3>3, <3>7, <3>8, <3>9
  <2>5. (refused = "caFiles" /\ config.signer # "dogtag") \/ refused \in {"mtcKey", "tlsFiles", "operatorFile"} BY DEF Repair
  <2> QED BY <2>1, <2>2, <2>3, <2>4, <2>5
<1>5. disk'.log = "empty" => unseeded' BY <1>0, <1>1, <1>4 DEF MtcStep
<1>6. proc' \in ProcRecords /\ proc'.step = "off" /\ config' \in Configs BY <1>0, <1>1
<1> QED BY <1>1, <1>4, <1>5, <1>6, AtRest

LEMMA StartupBegins ==
    ASSUME StartupAssumption, StartupInit
    PROVE  StartInv
<1>1. /\ config \in Configs /\ proc = Off /\ keys = 1 /\ refused = "no" /\ served = {}
      /\ announced = {} \/ announced = {1}
      /\ rows = [node |-> IF announced = {} THEN NoTable ELSE [sign |-> 1, kem |-> Absent], operators |-> {}]
  BY DEF StartupInit
<1>2. PICK ca : ca = IF config.signer = "dogtag" THEN Pair(DogtagKey, DogtagKey) ELSE NoPair OBVIOUS
<1>3. disk = [caKey |-> Absent, caCert |-> ca, mtcKey |-> Absent, log |-> "none",
              tlsKey |-> Absent, tlsCert |-> NoPair, opKey |-> Absent, opCert |-> NoPair, p12 |-> NoPair, socket |-> FALSE]
  BY <1>2 DEF StartupInit
<1>4. ca \in PairRecords /\ NoPair \in PairRecords /\ Absent \in Int /\ NoPair.key = 0
  BY <1>2 DEF PairRecords, Pair, NoPair, Absent, DogtagKey
<1>5. disk \in DiskRecords BY <1>3, <1>4 DEF DiskRecords
<1>6. disk.caCert = ca /\ disk.tlsCert = NoPair /\ disk.opCert = NoPair /\ disk.p12 = NoPair /\ disk.log = "none" BY <1>3
<1>7. proc \in ProcRecords /\ proc.step = "off" BY <1>1, OffIsRest
<1>8. PICK node : node = IF announced = {} THEN NoTable ELSE [sign |-> 1, kem |-> Absent] OBVIOUS
<1>9. node \in [sign : Int, kem : Int] BY <1>8 DEF NoTable, Torn, Absent
<1>10. rows \in RowRecords /\ rows.node = node BY <1>1, <1>8, <1>9 DEF RowRecords
<1>11. StartupTypeOK BY <1>1, <1>5, <1>7, <1>10 DEF StartupTypeOK
<1>12. FilesFit
  <2>1. CaFits
    <3>1. CASE config.signer = "dogtag" BY <1>2, <1>6, <3>1 DEF CaFits, CaWhole, Pair, DogtagKey
    <3>2. CASE config.signer # "dogtag"
      <4>1. disk.caCert = NoPair /\ ~CaWhole BY <1>2, <1>4, <1>6, <3>2 DEF CaWhole
      <4> QED BY <3>2, <4>1 DEF CaFits
    <3> QED BY <3>1, <3>2
  <2>2. Issued(disk.tlsCert) /\ Issued(disk.opCert) /\ Issued(disk.p12) BY <1>6 DEF Issued
  <2> QED BY <1>4, <1>6, <2>1, <2>2 DEF FilesFit
<1>13. ServedFit /\ RefusedFor BY <1>1 DEF ServedFit, RefusedFor, Because
<1>14. proc.step \notin CaDone \union MtcDone \union TlsDone \union Enrolling \union Serving \union Named \union PastParse
  BY <1>7 DEF CaDone, MtcDone, TlsDone, Enrolling, Serving, Named, PastParse
<1>15. Checked /\ CaStep /\ TlsStep /\ AdminStep BY <1>7, <1>14 DEF Checked, CaStep, TlsStep, AdminStep
<1>16. MtcStep BY <1>6, <1>7, <1>14 DEF MtcStep
<1>17. NodeStep
  <2>1. CASE announced = {} BY <1>7, <1>8, <1>10, <1>14, <2>1 DEF NodeStep
  <2>2. CASE announced = {1}
    <3>1. node.sign = 1 BY <1>8, <2>2
    <3> QED BY <1>7, <1>10, <1>14, <2>2, <3>1 DEF NodeStep
  <2> QED BY <1>1, <2>1, <2>2
<1> QED BY <1>11, <1>12, <1>13, <1>15, <1>16, <1>17 DEF StartInv

(* What the administrator may count on follows from the invariant.         *)
LEMMA StartInvFits ==
    ASSUME StartupAssumption, StartInv
    PROVE  StartsFit
<1>0. /\ FilesFit /\ ServedFit /\ CaStep /\ MtcStep /\ TlsStep /\ AdminStep /\ NodeStep /\ RefusedFor
      /\ config \in Configs /\ disk \in DiskRecords
  BY Parts
<1>1. proc.step = "serving" => proc.step \in CaDone /\ proc.step \in MtcDone /\ proc.step \in TlsDone /\ proc.step \in Serving
  BY DEF CaDone, MtcDone, TlsDone, Serving
<1>2. KeysMatch
  <2> SUFFICES ASSUME proc.step = "serving"
               PROVE  /\ disk.caCert.key = proc.ca
                      /\ config.signer = "file" => disk.caKey = proc.ca
                      /\ config.tls => disk.tlsCert = Pair(disk.tlsKey, proc.ca)
                      /\ config.admin \in {"p12", "pem"} => Credentials.issuer = proc.ca
                      /\ config.admin = "pem" => disk.opCert.key = disk.opKey
    BY DEF KeysMatch, At
  <2>1. CaWhole /\ disk.caCert.key = proc.ca BY <1>0, <1>1 DEF CaStep
  <2>2. config.signer = "file" => disk.caKey = proc.ca BY <1>0, <2>1 DEF FilesFit, CaFits
  <2>3. ASSUME NEW p, Issued(p), p.key > 0 PROVE p.issuer = proc.ca
    BY <2>1, <2>3 DEF Issued, NoPair, TornPair, Pair, Absent, Torn
  <2>4. ASSUME config.tls PROVE disk.tlsCert = Pair(disk.tlsKey, proc.ca)
    <3>1. disk.tlsCert.key > 0 BY <1>0, <2>4 DEF TlsStep
    <3>2. disk.tlsCert.issuer = proc.ca /\ disk.tlsKey = disk.tlsCert.key BY <1>0, <2>3, <3>1 DEF FilesFit
    <3>3. disk.tlsCert \in [key : Int, issuer : Int] BY <1>0 DEF DiskRecords, PairRecords
    <3> QED BY <3>2, <3>3 DEF Pair
  <2>5. CredentialsThere(config) BY <1>0, <1>1 DEF AdminStep
  <2>6. config.admin \in {"p12", "pem"} => Credentials.issuer = proc.ca
    BY <1>0, <2>3, <2>5 DEF CredentialsThere, Credentials, FilesFit
  <2>7. config.admin = "pem" => disk.opCert.key = disk.opKey BY <1>0, <2>5 DEF CredentialsThere, FilesFit
  <2> QED BY <2>1, <2>2, <2>4, <2>6, <2>7
<1>3. OneNodeIdentity
  <2>1. PICK n : n = rows.node.sign OBVIOUS
  <2>2. announced \subseteq {n} BY <1>0, <2>1 DEF NodeStep
  <2>3. IsFiniteSet({n}) /\ Cardinality({n}) = 1 BY FS_Singleton
  <2>4. Cardinality(announced) <= 1 BY <2>2, <2>3, FS_Subset
  <2> QED BY <2>4 DEF OneNodeIdentity
<1>4. StartsAgain BY <1>0 DEF StartsAgain, RefusedFor, Because, ServedFit
<1>5. NoLockout
  <2>1. proc.step = "serving" /\ ~edited => OperatorKnown(config) BY <1>0, <1>1 DEF AdminStep
  <2> QED BY <2>1 DEF NoLockout, At, OperatorKnown, Credentials
<1>6. LogSeeded
  <2>1. disk.log \in {"none", "empty", "seeded"} BY <1>0 DEF DiskRecords
  <2>2. proc.step = "serving" /\ config.mtc => disk.log # "none" BY <1>0, <1>1 DEF MtcStep
  <2>3. proc.step = "serving" /\ disk.log = "empty" => unseeded BY <1>0 DEF MtcStep
  <2> QED BY <2>1, <2>2, <2>3 DEF LogSeeded, At
<1> QED BY <1>2, <1>3, <1>4, <1>5, <1>6 DEF StartsFit

(* For any set of configurations and any number of starts and kills, in    *)
(* the middle of a write too: a server that serves signs with the key its  *)
(* certificates are for, shows the cluster one identity, has an operator   *)
(* who can log in and a log that begins with its null entry, and starts    *)
(* again under every configuration it was served under (main.rs,           *)
(* ca/init.rs, tls/init.rs, admin/init.rs).                                *)
THEOREM StartsFitTogether == StartupSpec => []StartsFit
<1>1. StartupInit => StartInv BY StartupAssumption, StartupBegins
<1>2. StartInv /\ [StartupNext]_startupVars => StartInv'
  <2> SUFFICES ASSUME StartInv, [StartupNext]_startupVars PROVE StartInv' OBVIOUS
  <2>0. StartupAssumption BY StartupAssumption
  <2>1. CASE Databases
    BY <2>1, ValidateKeeps, ValidateStartupKeeps, DatabasesKeep, CrdtDbKeeps, NodeKeysKeep, SaveNodeKeysKeep DEF Databases
  <2>2. CASE LoadCas BY <2>2, LoadKeeps, GenerateKeeps, HalfPairKeeps, WriteCaKeyKeeps, WriteCaCertKeeps DEF LoadCas
  <2>3. CASE Mtc BY <2>3, MtcKeyKeeps, LogLockKeeps, LogKeeps DEF Mtc
  <2>4. CASE Tls BY <2>4, SkipTlsKeeps, TlsKeeps, WriteTlsKeyKeeps, WriteTlsCertKeeps DEF Tls
  <2>5. CASE Operator
    BY <2>0, <2>5, SkipAdminKeeps, ExternalSignerKeeps, BootstrapGssapiKeeps, CredentialsExistKeeps, HalfCredentialsKeep,
       NewCredentialsKeep, WriteSecretKeeps, WriteOperatorCertKeeps, InsertOperatorKeeps
    DEF Operator
  <2>6. CASE begin \/ build_state \/ serve_router \/ graceful_shutdown \/ put_operator
    BY <2>6, BeginKeeps, BuildStateKeeps, ServeKeepsFit, ShutdownKeeps, PutOperatorKeeps
  <2>7. CASE Kill \/ Reconfigure \/ Repair BY <2>0, <2>7, KillKeeps, ReconfigureKeeps, RepairKeeps
  <2>8. CASE UNCHANGED startupVars
    BY <2>8 DEF startupVars, StartInv, StartupTypeOK, FilesFit, CaFits, CaWhole, Issued, ServedFit, Fit, Sections, Signs, CredentialsThere,
                OperatorKnown, Fingerprints, Checked, CaStep, MtcStep, TlsStep, AdminStep, Credentials, NodeStep, RefusedFor, Because,
                NoPair, TornPair, Pair, Absent, Torn, HsmKey, DogtagKey, Principal, NoTable, NoRow
  <2> QED BY <2>1, <2>2, <2>3, <2>4, <2>5, <2>6, <2>7, <2>8 DEF StartupNext
<1>3. StartInv => StartsFit BY StartupAssumption, StartInvFits
<1> QED BY <1>1, <1>2, <1>3, PTL DEF StartupSpec

-----------------------------------------------------------------------------
(* Profiles.                                                               *)

FzShape ==
    /\ fz = [pc |-> fz.pc, named |-> fz.named, profile |-> fz.profile, applied |-> fz.applied, names |-> fz.names,
             params |-> fz.params, held |-> fz.held, unread |-> fz.unread, groups |-> fz.groups]
    /\ fz.pc \in {"idle", "hook", "grant", "policy", "refused", "denied", "issued"}
    /\ fz.held \in BOOLEAN

(* The profile checked is the one applied, and it is one profile.            *)
OneProfile == fz.applied # {} /\ fz.pc # "refused" => fz.profile = fz.applied /\ \E p \in ProfileIds \cup {"default"} : fz.applied = {p}

(* Past the profile's own checks the names are ones it permits.              *)
NamesPermitted == fz.applied # {} /\ fz.pc # "refused" => check_identifier_patterns(fz.params, fz.names)

(* While the grant is looked up and after, what the account holds or held is *)
(* recorded.                                                               *)
GrantHeld ==
    /\ fz.pc = "grant" /\ Holds(grants, fz.applied) => fz.held
    /\ fz.pc \in {"policy", "issued"} /\ fz.applied # {} /\ fz.params.grant => fz.held

(* The rules derived from profiles only allow.                               *)
CompatAllows == \A r \in engine.compat : r.deny = FALSE

ProfInv == FzShape /\ OneProfile /\ NamesPermitted /\ GrantHeld /\ CompatAllows /\ CompatAgrees

LEMMA ProfilesStart == ProfilesInit => ProfInv
<1> SUFFICES ASSUME ProfilesInit PROVE ProfInv
  OBVIOUS
<1>1. fz = IdleFz
  BY DEF ProfilesInit
<1>2. FzShape /\ OneProfile /\ NamesPermitted /\ GrantHeld /\ CompatAgrees
  BY <1>1 DEF FzShape, OneProfile, NamesPermitted, GrantHeld, CompatAgrees, IdleFz
<1>3. CompatAllows
  BY DEF ProfilesInit, CompatAllows, build_policy_engine, translate_profile_to_rule, Rule
<1> QED
  BY <1>2, <1>3 DEF ProfInv

(* What is resolved for an order is of the profile it names or of the        *)
(* default, if of any.                                                     *)
LEMMA ResolvedIsApplied ==
    ASSUME NEW named \in {{}} \cup {{p} : p \in ProfileIds}, NEW r \in resolve_cert_params(named), r.applied # {}
    PROVE  /\ effective_profile(named, r.applied) = r.applied
           /\ \E p \in ProfileIds \cup {"default"} : r.applied = {p}
<1>1. CASE \A p \in ProfileIds : registry[p] = {}
  BY <1>1 DEF resolve_cert_params
<1>2. CASE ~(\A p \in ProfileIds : registry[p] = {}) /\ named # {}
  <2>1. r.applied = named
    BY <1>2 DEF resolve_cert_params
  <2>2. PICK p \in ProfileIds : named = {p}
    BY <1>2
  <2> QED
    BY <2>1, <2>2, <1>2 DEF effective_profile
<1>3. CASE ~(\A p \in ProfileIds : registry[p] = {}) /\ named = {}
  <2>1. r.applied = {"default"}
    BY <1>3 DEF resolve_cert_params
  <2> QED
    BY <2>1, <1>3 DEF effective_profile
<1> QED
  BY <1>1, <1>2, <1>3

LEMMA FinalizeProfInv ==
    ASSUME ProfInv, NEW named \in {{}} \cup {{p} : p \in ProfileIds}, NEW names \in (SUBSET Names) \ {{}}, finalize(named, names)
    PROVE  ProfInv'
<1>1. CompatAllows'
  BY DEF ProfInv, CompatAllows, finalize
<1>2. CASE fz' = [fz EXCEPT !.pc = "refused"]
  <2>1. fz'.pc = "refused" /\ FzShape'
    BY <1>2 DEF ProfInv, FzShape
  <2> QED
    BY <2>1, <1>1 DEF ProfInv, OneProfile, NamesPermitted, GrantHeld, CompatAgrees
<1>3. CASE ~(fz' = [fz EXCEPT !.pc = "refused"])
  <2> DEFINE prof(r) == effective_profile(named, r.applied)
             next(r) == IF prof(r) = {} THEN "policy" ELSE IF ~check_identifier_patterns(r.params, names) THEN "refused"
                        ELSE IF r.params.hook THEN "hook" ELSE "grant"
  <2>1. PICK r \in resolve_cert_params(named) :
            fz' = [IdleFz EXCEPT !.pc = next(r), !.named = named, !.profile = prof(r), !.applied = r.applied, !.names = names,
                                 !.params = r.params, !.held = next(r) \in {"grant", "policy"} /\ Holds(grants, r.applied)]
    BY <1>3 DEF finalize
  <2>2. grants' = grants
    BY DEF finalize
  <2> HIDE DEF prof, next
  <2>3. /\ fz' = [pc |-> next(r), named |-> named, profile |-> prof(r), applied |-> r.applied, names |-> names, params |-> r.params,
                  held |-> (next(r) \in {"grant", "policy"} /\ Holds(grants, r.applied)), unread |-> FALSE, groups |-> {}]
    BY <2>1 DEF IdleFz
  <2>4. next(r) \in {"policy", "refused", "hook", "grant"}
    BY DEF next
  <2>5. FzShape'
    BY <2>3, <2>4 DEF FzShape
  <2>6. OneProfile'
    BY <2>3, ResolvedIsApplied DEF OneProfile, prof
  <2>7. NamesPermitted'
    <3> SUFFICES ASSUME r.applied # {}, next(r) # "refused" PROVE check_identifier_patterns(r.params, names)
      BY <2>3 DEF NamesPermitted, check_identifier_patterns
    <3>1. prof(r) # {}
      BY ResolvedIsApplied DEF prof
    <3> QED
      BY <3>1 DEF next
  <2>8. GrantHeld'
    <3>1. fz'.pc = "grant" /\ Holds(grants', fz'.applied) => fz'.held
      BY <2>2, <2>3
    <3>2. fz'.pc = "policy" => fz'.applied = {}
      <4> SUFFICES ASSUME next(r) = "policy", r.applied # {} PROVE FALSE
        BY <2>3
      <4>1. prof(r) # {}
        BY ResolvedIsApplied DEF prof
      <4> QED
        BY <4>1 DEF next
    <3>3. fz'.pc # "issued"
      BY <2>3, <2>4
    <3> QED
      BY <3>1, <3>2, <3>3 DEF GrantHeld
  <2>9. CompatAgrees'
    BY <2>3, <2>4 DEF CompatAgrees
  <2> QED
    BY <1>1, <2>5, <2>6, <2>7, <2>8, <2>9 DEF ProfInv
<1> QED
  BY <1>2, <1>3

LEMMA HookProfInv == ASSUME ProfInv, check_auth_hook PROVE ProfInv'
<1>1. CompatAllows'
  BY DEF ProfInv, CompatAllows, check_auth_hook
<1>2. CASE fz' = [fz EXCEPT !.pc = "refused"]
  <2>1. fz'.pc = "refused" /\ FzShape'
    BY <1>2 DEF ProfInv, FzShape
  <2> QED
    BY <2>1, <1>1 DEF ProfInv, OneProfile, NamesPermitted, GrantHeld, CompatAgrees
<1>3. CASE fz' = [fz EXCEPT !.pc = "grant", !.held = Holds(grants, fz.applied)]
  <2>1. grants' = grants /\ fz.pc = "hook"
    BY DEF check_auth_hook
  <2>2. fz' = [pc |-> "grant", named |-> fz.named, profile |-> fz.profile, applied |-> fz.applied, names |-> fz.names,
               params |-> fz.params, held |-> Holds(grants, fz.applied), unread |-> fz.unread, groups |-> fz.groups]
    BY <1>3 DEF ProfInv, FzShape
  <2>3. Holds(grants, fz.applied) \in BOOLEAN
    BY DEF Holds
  <2>4. FzShape'
    BY <2>2, <2>3 DEF FzShape
  <2>5. OneProfile' /\ NamesPermitted'
    BY <2>1, <2>2 DEF ProfInv, OneProfile, NamesPermitted, check_identifier_patterns
  <2>6. GrantHeld'
    BY <2>1, <2>2 DEF GrantHeld
  <2>7. CompatAgrees'
    BY <2>2 DEF CompatAgrees
  <2> QED
    BY <1>1, <2>4, <2>5, <2>6, <2>7 DEF ProfInv
<1> QED
  BY <1>2, <1>3 DEF check_auth_hook

LEMMA GrantProfInv == ASSUME ProfInv, check_account_grant PROVE ProfInv'
<1>1. CompatAllows'
  BY DEF ProfInv, CompatAllows, check_account_grant
<1>2. CASE fz' = [fz EXCEPT !.pc = "refused"]
  <2>1. fz'.pc = "refused" /\ FzShape'
    BY <1>2 DEF ProfInv, FzShape
  <2> QED
    BY <2>1, <1>1 DEF ProfInv, OneProfile, NamesPermitted, GrantHeld, CompatAgrees
<1>3. CASE fz' = [fz EXCEPT !.pc = "policy"] /\ (fz.params.grant => Holds(grants, fz.profile))
  <2>1. fz.pc = "grant"
    BY DEF check_account_grant
  <2>2. fz' = [pc |-> "policy", named |-> fz.named, profile |-> fz.profile, applied |-> fz.applied, names |-> fz.names,
               params |-> fz.params, held |-> fz.held, unread |-> fz.unread, groups |-> fz.groups]
    BY <1>3 DEF ProfInv, FzShape
  <2>3. FzShape'
    BY <2>2 DEF ProfInv, FzShape
  <2>4. OneProfile' /\ NamesPermitted'
    BY <2>1, <2>2 DEF ProfInv, OneProfile, NamesPermitted, check_identifier_patterns
  <2>5. fz.applied # {} /\ fz.params.grant => fz.held
    BY <1>3, <2>1 DEF ProfInv, GrantHeld, OneProfile
  <2>6. GrantHeld'
    BY <2>2, <2>5 DEF GrantHeld
  <2>7. CompatAgrees'
    BY <2>2 DEF CompatAgrees
  <2> QED
    BY <1>1, <2>3, <2>4, <2>6, <2>7 DEF ProfInv
<1>4. fz.params.grant /\ ~Holds(grants, fz.profile) => fz' = [fz EXCEPT !.pc = "refused"]
  BY DEF check_account_grant
<1>5. ~(fz.params.grant /\ ~Holds(grants, fz.profile)) => fz' = [fz EXCEPT !.pc = "policy"]
  BY DEF check_account_grant
<1> QED
  BY <1>2, <1>3, <1>4, <1>5

(* The rule a profile is turned into allows what the profile's own checks    *)
(* permit.                                                                 *)
LEMMA DerivedRuleMatches ==
    ASSUME NEW p, NEW par, NEW names, NEW groups, NEW n \in names,
           par.all, \A x \in par.patterns : x.hits = x.whole,
           check_identifier_patterns(par, names), par.grant => p \in groups
    PROVE  RuleMatches(translate_profile_to_rule(p, par), [profile |-> {p}, groups |-> groups, name |-> n])
<1> DEFINE r == translate_profile_to_rule(p, par)
           q == [profile |-> {p}, groups |-> groups, name |-> n]
<1>1. \A v \in r.profile : q.profile \subseteq v /\ q.profile # {}
  BY DEF translate_profile_to_rule, Rule
<1>2. \A v \in r.group : v \cap (q.groups \cup {"_account_"}) # {}
  <2>1. CASE par.grant
    <3>1. r.group = {{p}} /\ q.groups = groups
      BY <2>1 DEF translate_profile_to_rule, Rule
    <3> QED
      BY <2>1, <3>1
  <2>2. CASE ~par.grant
    BY <2>2 DEF translate_profile_to_rule, Rule
  <2> QED
    BY <2>1, <2>2
<1>3. \A v \in r.identifier : \E x \in v : q.name \in get_or_compile(x)
  <2>1. CASE par.patterns = {}
    BY <2>1 DEF translate_profile_to_rule, Rule
  <2>2. CASE par.patterns # {}
    <3>1. r.identifier = {par.patterns} /\ q.name = n
      BY <2>2 DEF translate_profile_to_rule, Rule
    <3>2. {m \in names : \E x \in par.patterns : m \in x.hits} = names
      BY <2>2 DEF check_identifier_patterns
    <3>3. PICK x \in par.patterns : n \in x.hits
      BY <3>2
    <3>4. n \in get_or_compile(x)
      BY <3>3 DEF get_or_compile
    <3> QED
      BY <3>1, <3>3, <3>4
  <2> QED
    BY <2>1, <2>2
<1> HIDE DEF r, q
<1> QED
  BY <1>1, <1>2, <1>3 DEF RuleMatches, r, q

LEMMA PolicyProfInv == ASSUME ProfInv, evaluate_issuance_policy PROVE ProfInv'
<1>1. CompatAllows'
  BY DEF ProfInv, CompatAllows, evaluate_issuance_policy
<1>2. fz.pc = "policy" /\ engine' = engine /\ grants' = grants
  BY DEF evaluate_issuance_policy
<1> DEFINE grps == (IF grants.row = "list" THEN grants.list ELSE {}) \cup AccountPrincipal
           allows == \A n \in fz.names : evaluate(engine.compat \cup engine.rules, [profile |-> fz.profile, groups |-> grps, name |-> n])
<1>3. PICK unread \in BOOLEAN :
          fz' = [fz EXCEPT !.pc = IF engine.mode = "enforce" /\ (unread \/ ~allows) THEN "denied" ELSE "issued", !.unread = unread, !.groups = grps]
  BY DEF evaluate_issuance_policy
<1>4. PICK pc \in {"denied", "issued"} : pc = (IF engine.mode = "enforce" /\ (unread \/ ~allows) THEN "denied" ELSE "issued")
  OBVIOUS
<1>5. pc = "denied" => unread \/ ~allows
  BY <1>4
<1> HIDE DEF grps, allows
<1>6. fz' = [pc |-> pc, named |-> fz.named, profile |-> fz.profile, applied |-> fz.applied, names |-> fz.names,
             params |-> fz.params, held |-> fz.held, unread |-> unread, groups |-> grps]
  BY <1>3, <1>4 DEF ProfInv, FzShape
<1>7. FzShape'
  BY <1>6 DEF ProfInv, FzShape
<1>8. OneProfile' /\ NamesPermitted'
  BY <1>2, <1>6 DEF ProfInv, OneProfile, NamesPermitted, check_identifier_patterns
<1>9. GrantHeld'
  BY <1>2, <1>6 DEF ProfInv, GrantHeld
<1>10. CompatAgrees'
  <2> SUFFICES ASSUME pc = "denied", fz.applied # {}, fz.params.all, \A p \in fz.params.patterns : p.hits = p.whole,
                      \A p \in fz.applied : translate_profile_to_rule(p, fz.params) \in engine.compat,
                      \A r \in engine.rules : ~r.deny, ~unread, fz.params.grant => fz.applied \subseteq grps
               PROVE  FALSE
    BY <1>2, <1>6 DEF CompatAgrees
  <2>1. PICK n \in fz.names : ~evaluate(engine.compat \cup engine.rules, [profile |-> fz.profile, groups |-> grps, name |-> n])
    BY <1>5 DEF allows
  <2>2. PICK p : fz.applied = {p} /\ fz.profile = {p}
    BY <1>2 DEF ProfInv, OneProfile
  <2>3. check_identifier_patterns(fz.params, fz.names)
    BY <1>2 DEF ProfInv, NamesPermitted
  <2>4. RuleMatches(translate_profile_to_rule(p, fz.params), [profile |-> {p}, groups |-> grps, name |-> n])
    BY <2>2, <2>3, DerivedRuleMatches
  <2>5. translate_profile_to_rule(p, fz.params) \in engine.compat \cup engine.rules /\ ~translate_profile_to_rule(p, fz.params).deny
    BY <2>2 DEF translate_profile_to_rule, Rule
  <2>6. \A r \in engine.compat \cup engine.rules : ~r.deny
    BY DEF ProfInv, CompatAllows
  <2> QED
    BY <2>1, <2>2, <2>4, <2>5, <2>6 DEF evaluate
<1> QED
  BY <1>1, <1>7, <1>8, <1>9, <1>10 DEF ProfInv

(* Edits and reloads leave a finalization and the engine alone; a change of  *)
(* the grants is recorded.                                                 *)
LEMMA QuietProfInv == ASSUME ProfInv, UNCHANGED <<engine, grants, fz>> PROVE ProfInv'
  BY DEF ProfInv, FzShape, OneProfile, NamesPermitted, check_identifier_patterns, GrantHeld, Holds, CompatAllows, CompatAgrees

LEMMA EditGrantsProfInv == ASSUME ProfInv, EditGrants PROVE ProfInv'
<1>1. CompatAllows'
  BY DEF ProfInv, CompatAllows, EditGrants
<1>2. engine' = engine /\ fz.pc \notin {"refused", "denied", "issued"}
  BY DEF EditGrants, MayEdit
<1>3. PICK h \in BOOLEAN : h = (fz.held \/ (fz.pc \in {"grant", "policy"} /\ Holds(grants', fz.applied)))
  OBVIOUS
<1>4. fz' = [pc |-> fz.pc, named |-> fz.named, profile |-> fz.profile, applied |-> fz.applied, names |-> fz.names,
             params |-> fz.params, held |-> h, unread |-> fz.unread, groups |-> fz.groups]
  BY <1>3 DEF ProfInv, FzShape, EditGrants
<1>5. FzShape'
  BY <1>4 DEF ProfInv, FzShape
<1>6. OneProfile' /\ NamesPermitted'
  BY <1>4 DEF ProfInv, OneProfile, NamesPermitted, check_identifier_patterns
<1>7. GrantHeld'
  <2>1. fz.pc = "grant" /\ Holds(grants', fz.applied) => h
    BY <1>3
  <2>2. fz.pc \in {"policy", "issued"} /\ fz.applied # {} /\ fz.params.grant => h
    BY <1>3 DEF ProfInv, GrantHeld
  <2> QED
    BY <1>4, <2>1, <2>2 DEF GrantHeld
<1>8. CompatAgrees'
  BY <1>2, <1>4 DEF CompatAgrees
<1> QED
  BY <1>1, <1>5, <1>6, <1>7, <1>8 DEF ProfInv

LEMMA ProfilesKept == ASSUME ProfInv, [ProfilesNext]_profVars PROVE ProfInv'
<1>1. CASE UNCHANGED profVars
  BY <1>1, QuietProfInv DEF profVars
<1>2. CASE refresh
  BY <1>2, QuietProfInv DEF refresh
<1>3. CASE EditProfile
  BY <1>3, QuietProfInv DEF EditProfile
<1>4. CASE EditDirectory
  BY <1>4, QuietProfInv DEF EditDirectory
<1>5. ASSUME NEW named \in {{}} \cup {{p} : p \in ProfileIds}, NEW names \in (SUBSET Names) \ {{}}, finalize(named, names)
      PROVE  ProfInv'
  BY <1>5, FinalizeProfInv
<1> QED
  BY <1>1, <1>2, <1>3, <1>4, <1>5, HookProfInv, GrantProfInv, PolicyProfInv, EditGrantsProfInv DEF ProfilesNext

(* Whatever is issued or refused under a profile is as the profile says      *)
(* (finalize.rs run_profile_and_csr_checks, auth.rs check_profile_auth,      *)
(* compat.rs translate_profile_to_rule): the certificate goes to an account  *)
(* that held the grant the profile asks for once its hook had answered, and  *)
(* is for names its patterns permit; and enforcing the policy refuses none   *)
(* of the profile's own, for any profiles, patterns, rules and grants and    *)
(* any number of edits and reloads.                                         *)
THEOREM ProfilesAreHonoured == ProfilesSpec => []ProfilesHonoured
<1>1. ProfInv => ProfilesHonoured
  <2> SUFFICES ASSUME ProfInv, fz.pc = "issued", fz.applied # {} PROVE IssuedAsProfileSays
    BY DEF ProfInv, ProfilesHonoured, IssuedAsProfileSays
  <2>1. fz.params.grant => fz.held
    BY DEF ProfInv, GrantHeld
  <2>2. check_identifier_patterns(fz.params, fz.names)
    BY DEF ProfInv, NamesPermitted
  <2>3. LET ok == {n \in fz.names : \E p \in fz.params.patterns : n \in p.hits}
        IN  fz.params.patterns = {} \/ ok = fz.names \/ (~fz.params.all /\ ok # {})
    BY <2>2 DEF check_identifier_patterns
  <2> QED
    BY <2>1, <2>3 DEF IssuedAsProfileSays
<1> QED
  BY <1>1, ProfilesStart, ProfilesKept, PTL DEF ProfilesSpec

-----------------------------------------------------------------------------
(* Leaf certificates.                                                      *)

(* What was signed is what signing the request yields.                       *)
SignedFrom ==
    \/ leafReq.kind = "none" /\ leafOut = {}
    \/ leafReq \in Requests /\ leafOut = issue_leaf_certificate(leafReq)
    \/ leafReq \in Others /\ leafOut = Sign(leafReq)

LEMMA SignedFromStart == LeafInit => SignedFrom
  BY DEF LeafInit, SignedFrom
LEMMA SignedFromKept == ASSUME SignedFrom, [LeafNext]_leafVars PROVE SignedFrom'
<1>1. CASE UNCHANGED leafVars
  BY <1>1 DEF leafVars, SignedFrom
<1>2. CASE LeafNext
  <2>1. ASSUME NEW q \in Requests, Finalize(q) PROVE SignedFrom'
    <3>1. leafReq' = q /\ leafOut' = issue_leaf_certificate(q)
      BY <2>1 DEF Finalize
    <3>2. leafReq' \in Requests /\ leafOut' = issue_leaf_certificate(leafReq')
      BY <3>1
    <3> QED
      BY <3>2 DEF SignedFrom
  <2>2. ASSUME NEW o \in Others, SignOther(o) PROVE SignedFrom'
    <3>1. leafReq' = o /\ leafOut' = Sign(o)
      BY <2>2 DEF SignOther
    <3>2. leafReq' \in Others /\ leafOut' = Sign(leafReq')
      BY <3>1
    <3> QED
      BY <3>2 DEF SignedFrom
  <2> QED
    BY <1>2, <2>1, <2>2 DEF LeafNext
<1> QED
  BY <1>1, <1>2

LEMMA IssuedIsAccepted ==
    ASSUME NEW q, NEW c \in issue_leaf_certificate(q)
    PROVE  /\ AcceptsCsr(q)
           /\ \E eku, pol : c = CertificateOf(q, Validity(q), eku, pol)
           /\ ~TooLong(Validity(q), q.ca)
           /\ \E lint : TRUE \in lint_issued_cert(c, q.ca, lint, q.now)
<1>1. AcceptsCsr(q) /\ c \in UNION {issue_with_params(q, lint) : lint \in resolve(linter_name(q))}
  BY DEF issue_leaf_certificate
<1>2. PICK lint : c \in issue_with_params(q, lint)
  BY <1>1
<1>3. ~TooLong(Validity(q), q.ca) /\ TRUE \in lint_issued_cert(c, q.ca, lint, q.now)
  <2> DEFINE made == {CertificateOf(q, Validity(q), eku, pol) :
                        eku \in build_eku(q.profile.eku), pol \in build_certificate_policies(q.profile.policies)}
  <2>1. issue_with_params(q, lint) = {x \in made : ~TooLong(Validity(q), q.ca) /\ TRUE \in lint_issued_cert(x, q.ca, lint, q.now)}
    BY DEF issue_with_params
  <2> HIDE DEF made
  <2> QED
    BY <1>2, <2>1
<1>4. \E eku, pol : c = CertificateOf(q, Validity(q), eku, pol)
  BY <1>2 DEF issue_with_params
<1> QED
  BY <1>1, <1>3, <1>4

AttestedNames(q) == {<<"dns", d>> : d \in q.attested}
FieldsFit(q, c) ==
    /\ c.key = q.csr.key /\ c.subject = q.csr.subject /\ c.ca = FALSE
    /\ c.nb = Validity(q).nb /\ c.na = Validity(q).na
    /\ c.critical <=> q.csr.subject = {}
    /\ c.sans = CsrSans(q.csr) \cup (OtherNames(q) \cup q.hook) \cup AttestedNames(q)
LEMMA FieldsOfCertificate ==
    ASSUME NEW q, NEW eku, NEW pol
    PROVE  FieldsFit(q, CertificateOf(q, Validity(q), eku, pol))
<1> DEFINE san == build_san_from_csr(q.csr, OtherNames(q) \cup q.hook, q.attested)
           c == CertificateOf(q, Validity(q), eku, pol)
<1>1. san.names = CsrSans(q.csr) \cup (OtherNames(q) \cup q.hook) \cup AttestedNames(q) /\ (san.critical <=> q.csr.subject = {})
  BY DEF build_san_from_csr, AttestedNames
<1>2. c = [key |-> q.csr.key, subject |-> q.csr.subject, sans |-> san.names, critical |-> san.critical, ku |-> q.profile.ku,
           eku |-> eku, ca |-> FALSE, path |-> 0, nb |-> Validity(q).nb, na |-> Validity(q).na, policies |-> pol]
  BY DEF CertificateOf
<1> HIDE DEF san, c
<1>3. FieldsFit(q, c)
  BY <1>1, <1>2 DEF FieldsFit
<1> QED
  BY <1>3 DEF c

LEMMA CsrSansRecognised ==
    ASSUME NEW csr, NEW n \in CsrSans(csr)
    PROVE  n[1] \in Recognised /\ n = <<n[1], n[2]>>
<1>1. PICK m \in csr.sans : m[1] \in Recognised /\ n = <<m[1], IF m[1] = "dns" THEN m[2] ELSE bytes_to_ip_string(m[2])>>
  BY DEF CsrSans
<1> QED
  BY <1>1

(* A principal name of the certificate comes from a template or from the     *)
(* account.                                                                *)
PrincipalExplained(q, n) ==
    \/ q.profile.inject /\ \E p \in q.principal : n = <<"kpn", p.name, p.realm>>
    \/ \E t \in q.profile.kpn : n[3] = t.realm /\ (n[2] = t.name \/ <<"dns", n[2]>> \in CsrSans(q.csr))
LEMMA OtherNamesExplained ==
    ASSUME NEW q, NEW n \in OtherNames(q)
    PROVE  n[1] = "upn" \/ (n[1] = "kpn" /\ PrincipalExplained(q, n))
<1>1. ASSUME NEW d \in DnsNames(q) PROVE <<"dns", d>> \in CsrSans(q.csr)
  <2>1. PICK m \in CsrSans(q.csr) : m[1] = "dns" /\ d = m[2]
    BY DEF DnsNames
  <2>2. m = <<m[1], m[2]>>
    BY CsrSansRecognised
  <2> QED
    BY <2>1, <2>2
<1>2. \/ \E t \in q.profile.kpn : n \in expand_kpn_template(t, DnsNames(q))
      \/ \E t \in q.profile.upn : n \in expand_ms_upn_template(t, DnsNames(q))
      \/ q.profile.inject /\ \E p \in q.principal : n = encode_principal_str_other_name(p)
  <2>1. n \in KpnNames(q) => \E t \in q.profile.kpn : n \in expand_kpn_template(t, DnsNames(q))
    BY DEF KpnNames
  <2>2. n \in UpnNames(q) => \E t \in q.profile.upn : n \in expand_ms_upn_template(t, DnsNames(q))
    BY DEF UpnNames
  <2>3. n \in PrincipalNames(q) => q.profile.inject /\ \E p \in q.principal : n = encode_principal_str_other_name(p)
    BY DEF PrincipalNames
  <2> QED
    BY <2>1, <2>2, <2>3 DEF OtherNames
<1>3. ASSUME NEW t \in q.profile.kpn, n \in expand_kpn_template(t, DnsNames(q)) PROVE n[1] = "kpn" /\ PrincipalExplained(q, n)
  <2>1. CASE t.dns
    <3>1. PICK d \in DnsNames(q) : n = <<"kpn", d, t.realm>>
      BY <1>3, <2>1 DEF expand_kpn_template, encode_krb5_principal_other_name
    <3> QED
      BY <3>1, <1>1 DEF PrincipalExplained
  <2>2. CASE ~t.dns
    <3>1. n = <<"kpn", t.name, t.realm>>
      BY <1>3, <2>2 DEF expand_kpn_template, encode_krb5_principal_other_name
    <3> QED
      BY <3>1 DEF PrincipalExplained
  <2> QED
    BY <2>1, <2>2
<1>4. ASSUME NEW t \in q.profile.upn, n \in expand_ms_upn_template(t, DnsNames(q)) PROVE n[1] = "upn"
  <2>1. \E x : n = <<"upn", x>>
    BY <1>4 DEF expand_ms_upn_template
  <2> QED
    BY <2>1
<1>5. ASSUME q.profile.inject, NEW p \in q.principal, n = encode_principal_str_other_name(p) PROVE n[1] = "kpn" /\ PrincipalExplained(q, n)
  BY <1>5 DEF encode_principal_str_other_name, PrincipalExplained
<1> QED
  BY <1>2, <1>3, <1>4, <1>5

LEMMA NamesAsOrdered ==
    ASSUME NEW q \in Requests, NEW c \in issue_leaf_certificate(q)
    PROVE  /\ OfType(c.sans, Recognised) = OfType(q.order, Recognised) \union {<<"dns", d>> : d \in q.attested}
           /\ OfType(c.sans, {"uri", "other"}) \subseteq q.hook
           /\ c.key.id = q.csr.signer /\ ~c.ca
           /\ c.critical <=> c.subject = {}
           /\ \A n \in OfType(c.sans, {"kpn"}) \ q.hook :
                \/ q.profile.inject /\ \E p \in q.principal : n = <<"kpn", p.name, p.realm>>
                \/ \E t \in q.profile.kpn : n[3] = t.realm /\ (n[2] = t.name \/ <<"dns", n[2]>> \in q.order)
<1>1. PICK eku, pol : c = CertificateOf(q, Validity(q), eku, pol)
  BY IssuedIsAccepted
<1>2. AcceptsCsr(q)
  BY IssuedIsAccepted
<1>3. /\ c.key = q.csr.key /\ c.subject = q.csr.subject /\ c.ca = FALSE /\ (c.critical <=> q.csr.subject = {})
      /\ c.sans = CsrSans(q.csr) \cup (OtherNames(q) \cup q.hook) \cup AttestedNames(q)
  <2>1. FieldsFit(q, c)
    BY <1>1, FieldsOfCertificate
  <2> QED
    BY <2>1 DEF FieldsFit
<1>4. /\ q.csr.signer = q.csr.key.id /\ CsrSans(q.csr) \subseteq q.order
      /\ OfType(q.order, Recognised) \subseteq CsrSans(q.csr)
  BY <1>2 DEF AcceptsCsr, validate_csr, OfType
<1>5. \A n \in CsrSans(q.csr) : n[1] \in Recognised
  BY CsrSansRecognised
<1>6. \A n \in OtherNames(q) : n[1] = "upn" \/ (n[1] = "kpn" /\ PrincipalExplained(q, n))
  BY OtherNamesExplained
<1>7. \A n \in q.hook : n[1] \in {"kpn", "upn", "other"}
  BY RequestsAssumption
<1>8. \A n \in AttestedNames(q) : n[1] = "dns"
  BY DEF AttestedNames
<1>9. OfType(c.sans, Recognised) = OfType(q.order, Recognised) \union AttestedNames(q)
  BY <1>3, <1>4, <1>5, <1>6, <1>7, <1>8 DEF OfType, Recognised
<1>10. OfType(c.sans, {"uri", "other"}) \subseteq q.hook
  BY <1>3, <1>5, <1>6, <1>7, <1>8 DEF OfType, Recognised
<1>11. ASSUME NEW n \in OfType(c.sans, {"kpn"}) \ q.hook
       PROVE  \/ q.profile.inject /\ \E p \in q.principal : n = <<"kpn", p.name, p.realm>>
              \/ \E t \in q.profile.kpn : n[3] = t.realm /\ (n[2] = t.name \/ <<"dns", n[2]>> \in q.order)
  <2>1. n \in OtherNames(q)
    BY <1>3, <1>5, <1>8 DEF OfType, Recognised
  <2>2. PrincipalExplained(q, n)
    BY <1>6, <2>1 DEF OfType
  <2> QED
    BY <2>2, <1>4 DEF PrincipalExplained
<1>12. c.key.id = q.csr.signer /\ ~c.ca /\ (c.critical <=> c.subject = {})
  BY <1>3, <1>4
<1> QED
  BY <1>9, <1>10, <1>11, <1>12 DEF AttestedNames

LEMMA ValidityClamped ==
    ASSUME NEW now \in Int, NEW nb \in SUBSET Int, NEW na \in SUBSET Int, NEW days \in Nat, NEW v, v = clamped_validity(now, nb, na, days)
    PROVE  v.nb \in Int /\ v.na \in Int /\ v.nb >= now - Grace /\ v.na >= v.nb /\ (days > 0 => v.na > v.nb)
<1> DEFINE wanted == IF nb = {} THEN now ELSE CHOOSE x \in nb : TRUE
           start == IF wanted < now - Grace THEN now - Grace ELSE wanted
           end == IF na = {} THEN start + days * Day ELSE CHOOSE x \in na : TRUE
<1>1. wanted \in Int
  OBVIOUS
<1>2. Grace \in Int /\ days * Day \in Int /\ days * Day >= 0 /\ (days > 0 => days * Day > 0)
  BY DEF Grace, Day
<1> HIDE DEF wanted
<1>3. start \in Int /\ start >= now - Grace
  BY <1>1, <1>2
<1> HIDE DEF start
<1>4. end \in Int
  <2>1. CASE na = {}
    BY <1>2, <1>3, <2>1
  <2>2. CASE na # {}
    BY <2>2
  <2> QED
    BY <2>1, <2>2
<1>5. v = [nb |-> start, na |-> IF end <= start THEN start + days * Day ELSE end]
  BY DEF clamped_validity, start, end, wanted
<1> HIDE DEF end
<1> QED
  BY <1>2, <1>3, <1>4, <1>5

LEMMA CapHolds ==
    ASSUME NEW d \in Int, ~(d \div Day > MaxDays)
    PROVE  d < 201 * Day
  BY DEF Day, MaxDays

LEMMA LintedInTime ==
    ASSUME NEW c, NEW ca, NEW lint, NEW now, TRUE \in lint_issued_cert(c, ca, lint, now), ~ca.mtc
    PROVE  c.nb <= now /\ now <= c.na
<1> DEFINE complaints == Complaints(c, ca, lint, now)
<1>1. "mtc" \notin complaints
  BY DEF Complaints
<1>2. "time" \notin complaints => c.nb <= now /\ now <= c.na
  BY DEF Complaints
<1>3. complaints = {} \/ TRUE \in {k = "mtc" : k \in complaints}
  BY DEF lint_issued_cert, verify_and_map_mtc_fallback
<1> HIDE DEF complaints
<1> QED
  BY <1>1, <1>2, <1>3

LEMMA ValidWithinBounds ==
    ASSUME NEW q \in Requests, NEW c \in issue_leaf_certificate(q)
    PROVE  /\ c.nb >= q.now - Grace /\ c.na >= c.nb /\ (q.profile.days > 0 => c.na > c.nb)
           /\ q.ca.cap => c.na - c.nb < 201 * Day
           /\ ~q.ca.mtc => c.nb <= q.now /\ q.now <= c.na
<1>1. PICK eku, pol : c = CertificateOf(q, Validity(q), eku, pol)
  BY IssuedIsAccepted
<1>2. c.nb = Validity(q).nb /\ c.na = Validity(q).na
  <2>1. FieldsFit(q, c)
    BY <1>1, FieldsOfCertificate
  <2> QED
    BY <2>1 DEF FieldsFit
<1>3. q.now \in Int /\ q.nb \in SUBSET Int /\ q.na \in SUBSET Int /\ q.profile.days \in Nat
  BY RequestsAssumption
<1>4. c.nb \in Int /\ c.na \in Int /\ c.nb >= q.now - Grace /\ c.na >= c.nb /\ (q.profile.days > 0 => c.na > c.nb)
  BY <1>2, <1>3, ValidityClamped DEF Validity
<1>5. ~TooLong(Validity(q), q.ca)
  BY IssuedIsAccepted
<1>6. q.ca.cap => ~((c.na - c.nb) \div Day > MaxDays)
  BY <1>2, <1>5 DEF TooLong
<1>7. q.ca.cap => c.na - c.nb < 201 * Day
  BY <1>4, <1>6, CapHolds
<1>8. PICK lint : TRUE \in lint_issued_cert(c, q.ca, lint, q.now)
  BY IssuedIsAccepted
<1>9. ~q.ca.mtc => c.nb <= q.now /\ q.now <= c.na
  BY <1>8, LintedInTime
<1> QED
  BY <1>4, <1>7, <1>9

LEMMA WithinTemplate ==
    ASSUME NEW q \in Requests, NEW c \in issue_leaf_certificate(q), NEW t \in q.template
    PROVE  /\ \E s \in t.keyTypes : s.size \in {0, c.key.size} /\ (c.key.type = "rsa" <=> s.type = "RSA")
           /\ LET named == {f \in DOMAIN t.subject : t.subject[f].kind # "none"} IN
              named # {} =>
                /\ {a[1] : a \in c.subject} \subseteq named
                /\ \A f \in named : t.subject[f].kind = "literal" => <<f, t.subject[f].value>> \in c.subject
                /\ \A f \in named : t.subject[f].kind = "mandatory" => \E a \in c.subject : a[1] = f
           /\ t.ext.san = "required" /\ OfType(q.csr.sans, Recognised) = q.csr.sans => c.sans # {}
<1>1. PICK eku, pol : c = CertificateOf(q, Validity(q), eku, pol)
  BY IssuedIsAccepted
<1>2. c.key = q.csr.key /\ c.subject = q.csr.subject /\ CsrSans(q.csr) \subseteq c.sans
  <2>1. FieldsFit(q, c)
    BY <1>1, FieldsOfCertificate
  <2> QED
    BY <2>1 DEF FieldsFit
<1>3. validate_csr_against_template(q.csr, t)
  BY IssuedIsAccepted DEF AcceptsCsr
<1>4. \E s \in t.keyTypes : s.size \in {0, c.key.size} /\ (c.key.type = "rsa" <=> s.type = "RSA")
  <2>1. PICK s \in t.keyTypes : key_type_matches(s, q.csr.key)
    BY <1>3 DEF validate_csr_against_template, validate_key_type
  <2> QED
    BY <1>2, <2>1 DEF key_type_matches
<1> DEFINE named == {f \in DOMAIN t.subject : t.subject[f].kind # "none"}
<1>5. ASSUME named # {}
      PROVE  /\ {a[1] : a \in c.subject} \subseteq named
             /\ \A f \in named : t.subject[f].kind = "literal" => <<f, t.subject[f].value>> \in c.subject
             /\ \A f \in named : t.subject[f].kind = "mandatory" => \E a \in c.subject : a[1] = f
  <2>1. /\ \A f \in DOMAIN t.subject : check_dn_field(q.csr, f, t.subject[f])
        /\ \A a \in q.csr.subject : a[1] \in DOMAIN t.subject
    BY <1>3, <1>5 DEF validate_csr_against_template, validate_subject
  <2>2. \A a \in q.csr.subject : a[2] \in Values(q.csr, a[1])
    BY DEF Values
  <2>3. \A f, x : x \in Values(q.csr, f) => \E a \in q.csr.subject : a[1] = f /\ a[2] = x
    BY DEF Values
  <2>4. ASSUME NEW a \in q.csr.subject PROVE a[1] \in named
    <3>1. a[1] \in DOMAIN t.subject /\ check_dn_field(q.csr, a[1], t.subject[a[1]])
      BY <2>1
    <3>2. t.subject[a[1]].kind # "none"
      BY <3>1, <2>2 DEF check_dn_field
    <3> QED
      BY <3>1, <3>2
  <2>5. ASSUME NEW f \in named, t.subject[f].kind = "literal" PROVE <<f, t.subject[f].value>> \in q.csr.subject
    <3>1. Values(q.csr, f) = {t.subject[f].value}
      BY <2>1, <2>5 DEF check_dn_field
    <3>2. PICK a \in q.csr.subject : a[1] = f /\ a[2] = t.subject[f].value
      BY <2>3, <3>1
    <3>3. a = <<a[1], a[2]>>
      BY RequestsAssumption DEF Pairs
    <3> QED
      BY <3>2, <3>3
  <2>6. ASSUME NEW f \in named, t.subject[f].kind = "mandatory" PROVE \E a \in q.csr.subject : a[1] = f
    <3>1. Values(q.csr, f) # {}
      BY <2>1, <2>6 DEF check_dn_field
    <3> QED
      BY <2>3, <3>1
  <2> QED
    BY <1>2, <2>4, <2>5, <2>6
<1>6. ASSUME t.ext.san = "required", OfType(q.csr.sans, Recognised) = q.csr.sans PROVE c.sans # {}
  <2>1. validate_extensions(q.csr, t.ext)
    BY <1>3 DEF validate_csr_against_template
  <2>2. q.csr.sans # {}
    BY <1>6, <2>1 DEF validate_extensions
  <2>3. CsrSans(q.csr) # {}
    BY <1>6, <2>2 DEF CsrSans, OfType
  <2> QED
    BY <1>2, <2>3
<1> QED
  BY <1>4, <1>5, <1>6

LEMMA CanonicalAccepted ==
    ASSUME NEW q \in Requests, q.csr.signer = q.csr.key.id, OfType(q.csr.sans, Recognised) = OfType(q.order, Recognised),
           \A n \in q.order : Canon(n[2]) = n[2]
    PROVE  validate_csr(q)
<1> DEFINE R == OfType(q.order, Recognised)
<1>1. CsrSans(q.csr) = {<<n[1], IF n[1] = "dns" THEN n[2] ELSE bytes_to_ip_string(n[2])>> : n \in R}
  BY DEF CsrSans, OfType
<1>2. \A n \in R : n \in q.order /\ Canon(n[2]) = n[2] /\ n = <<n[1], n[2]>>
  BY RequestsAssumption DEF OfType, Pairs
<1>3. \A n \in R : <<n[1], IF n[1] = "dns" THEN n[2] ELSE bytes_to_ip_string(n[2])>> = n
  BY <1>2 DEF bytes_to_ip_string
<1> HIDE DEF R
<1>4. CsrSans(q.csr) = R
  BY <1>1, <1>3
<1> QED
  BY <1>2, <1>4 DEF validate_csr, R, OfType

LEMMA OthersAsAsked ==
    ASSUME NEW o \in Others, NEW c \in Sign(o)
    PROVE  /\ c.ca <=> o.kind = "cross"
           /\ c.ca => c.path = 0 /\ o.subjectCa /\ c.eku = {}
           /\ ~c.ca => Cardinality(c.sans) = 1 /\ "keyCertSign" \notin c.ku
           /\ "server_auth" \in c.eku <=> o.kind = "server"
<1>1. CASE o.kind = "server"
  <2>1. PICK s : s = <<IF o.ip THEN "ip" ELSE "dns", o.name>>
    OBVIOUS
  <2>2. c \in {sign_standard_leaf(o.key, {<<"cn", o.name>>}, {s}, {"server_auth"}, o.days, o.now)}
    BY <1>1, <2>1 DEF Sign, sign_server_cert
  <2>3. c.ca = FALSE /\ c.sans = {s} /\ c.ku = {"digitalSignature"} /\ c.eku = {"server_auth"}
    BY <2>2 DEF sign_standard_leaf
  <2> QED
    BY <1>1, <2>3, FS_Singleton
<1>2. CASE o.kind = "admin"
  <2>1. PICK s : c.ca = FALSE /\ c.sans = {s} /\ c.ku = {"digitalSignature"} /\ c.eku = {"client_auth"}
    BY <1>2 DEF Sign, sign_admin_cert, sign_standard_leaf
  <2> QED
    BY <1>2, <2>1, FS_Singleton
<1>3. CASE o.kind = "cross"
  <2>1. c \in issue_ca_cert(o)
    BY <1>3 DEF Sign
  <2>2. c.ca = TRUE /\ c.path = 0 /\ c.eku = {} /\ o.subjectCa
    BY <2>1 DEF issue_ca_cert, check_is_ca_cert
  <2> QED
    BY <1>3, <2>2
<1> QED
  BY <1>1, <1>2, <1>3, RequestsAssumption

(* What the CA signs is what was ordered (validate_csr, build_san_from_csr,  *)
(* resolve_clamped_validity, validate_csr_against_template, issue_ca_cert):  *)
(* for any requests, the names of the order and no others of those kinds,    *)
(* the CSR's key, a validity within the limits, what the delegation's        *)
(* template admits, a CA certificate for another CA only; and a canonical    *)
(* order is never refused for its CSR.                                      *)
THEOREM CertificatesAreSignedAsOrdered == LeafSpec => []SignedAsOrdered
<1>1. SignedFrom => SignedAsOrdered
  <2> SUFFICES ASSUME SignedFrom PROVE SignedAsOrdered
    OBVIOUS
  <2>1. CASE leafReq.kind = "none" /\ leafOut = {}
    BY <2>1 DEF SignedAsOrdered, Ordered, IssuedAsOrdered, ValidityBounded, DelegatedWithinTemplate, CanonicalOrderCanFinish, OnlyCrossIsCa
  <2>2. CASE leafReq \in Requests /\ leafOut = issue_leaf_certificate(leafReq)
    <3>1. IssuedAsOrdered
      BY <2>2, NamesAsOrdered DEF IssuedAsOrdered
    <3>2. ValidityBounded
      BY <2>2, ValidWithinBounds DEF ValidityBounded
    <3>3. DelegatedWithinTemplate
      BY <2>2, WithinTemplate DEF DelegatedWithinTemplate
    <3>4. CanonicalOrderCanFinish
      BY <2>2, CanonicalAccepted DEF CanonicalOrderCanFinish
    <3>5. OnlyCrossIsCa
      BY <2>2, RequestsAssumption DEF OnlyCrossIsCa
    <3> QED
      BY <3>1, <3>2, <3>3, <3>4, <3>5 DEF SignedAsOrdered
  <2>3. CASE leafReq \in Others /\ leafOut = Sign(leafReq)
    <3>1. ~Ordered
      BY <2>3, RequestsAssumption DEF Ordered
    <3>2. OnlyCrossIsCa
      BY <2>3, OthersAsAsked DEF OnlyCrossIsCa
    <3> QED
      BY <3>1, <3>2 DEF SignedAsOrdered, IssuedAsOrdered, ValidityBounded, DelegatedWithinTemplate, CanonicalOrderCanFinish
  <2> QED
    BY <2>1, <2>2, <2>3 DEF SignedFrom
<1> QED
  BY <1>1, SignedFromStart, SignedFromKept, PTL DEF LeafSpec

-----------------------------------------------------------------------------
(* Views of the ACME resources.                                            *)

OrderRows == [account : ApiAccounts, ca : ApiCas, names : SUBSET DOMAIN ParentNames,
              status : {"pending", "ready", "valid", "invalid"}, star : BOOLEAN, starGet : BOOLEAN, canceled : BOOLEAN,
              delegation : {q.delegation : q \in OrderRequests}, certGet : BOOLEAN, cert : Nat, links : SUBSET Nat, reused : SUBSET Nat]
AuthzRows == [order : Nat, account : ApiAccounts, ca : ApiCas, name : DOMAIN ParentNames, sub : BOOLEAN,
              status : {"pending", "valid", "invalid"}, expired : BOOLEAN]
CertRows == [order : Nat, account : ApiAccounts, ca : ApiCas, names : SUBSET DOMAIN ParentNames]
ApiTypeOK == aOrders \in Seq(OrderRows) /\ aAuthzs \in Seq(AuthzRows) /\ aCerts \in Seq(CertRows)

(* Every authorization is of an order there is, or of none.                  *)
AuthzsPlaced == \A z \in DOMAIN aAuthzs : aAuthzs[z].order <= Len(aOrders)

(* An order's links lead to authorizations of its account, under its CA or   *)
(* the default one; its own are exactly those it did not reuse, and those    *)
(* it reused were valid.                                                   *)
LinksOK(o) ==
    /\ aOrders[o].links \subseteq DOMAIN aAuthzs /\ aOrders[o].reused \subseteq aOrders[o].links
    /\ get_with_authz_ids(o) = aOrders[o].links \ aOrders[o].reused
    /\ \A z \in aOrders[o].links : aAuthzs[z].account = aOrders[o].account /\ SameCa(aAuthzs[z], aOrders[o].ca)
    /\ \A z \in aOrders[o].reused : aAuthzs[z].status = "valid"

(* Each name of an order has an authorization among its links that would     *)
(* prove it.                                                               *)
Proves(z, n) == aAuthzs[z].name = n \/ (aAuthzs[z].sub /\ \E i \in DOMAIN ParentNames[n] : ParentNames[n][i] = aAuthzs[z].name)
CoveredOK(o) ==
    aOrders[o].delegation = "none" => \A n \in aOrders[o].names : \E z \in aOrders[o].links : Proves(z, n)
(* Once the order is ready, all of its links are proved.                     *)
ReadyOK(o) ==
    aOrders[o].delegation = "none" /\ aOrders[o].status \in {"ready", "valid"} => \A z \in aOrders[o].links : aAuthzs[z].status = "valid"

(* An order names a delegation of its account only.                         *)
DelegatedOK(o) ==
    /\ aOrders[o].delegation # "none" =>
         ApiConfig.delegation /\ aOrders[o].delegation \in DOMAIN Delegations /\ Delegations[aOrders[o].delegation] = aOrders[o].account
    /\ aOrders[o].certGet => aOrders[o].delegation # "none"

(* An order that is valid has a certificate: its own latest.                *)
CertOK(o) ==
    /\ aOrders[o].status = "valid" => aOrders[o].cert # 0
    /\ aOrders[o].cert # 0 =>
         /\ aOrders[o].cert \in DOMAIN aCerts
         /\ aCerts[aOrders[o].cert].order = o /\ aCerts[aOrders[o].cert].account = aOrders[o].account
         /\ aCerts[aOrders[o].cert].names = aOrders[o].names
         /\ \A j \in DOMAIN aCerts : aCerts[j].order = o => j <= aOrders[o].cert
CertsPlaced == \A k \in DOMAIN aCerts : aCerts[k].order \in DOMAIN aOrders

ApiInv ==
    /\ ApiTypeOK /\ AuthzsPlaced /\ CertsPlaced
    /\ \A o \in DOMAIN aOrders : LinksOK(o) /\ CoveredOK(o) /\ ReadyOK(o) /\ DelegatedOK(o) /\ CertOK(o)

LEMMA ApiStart == ApiInit => ApiInv
  BY DEF ApiInit, ApiInv, ApiTypeOK, AuthzsPlaced, CertsPlaced

(* What never changes of an order and of an authorization.                   *)
SameOrder(o) ==
    /\ aOrders'[o].account = aOrders[o].account /\ aOrders'[o].ca = aOrders[o].ca /\ aOrders'[o].names = aOrders[o].names
    /\ aOrders'[o].delegation = aOrders[o].delegation /\ aOrders'[o].certGet = aOrders[o].certGet
    /\ aOrders'[o].links = aOrders[o].links /\ aOrders'[o].reused = aOrders[o].reused
SameAuthz(z) ==
    /\ aAuthzs'[z].order = aAuthzs[z].order /\ aAuthzs'[z].account = aAuthzs[z].account /\ aAuthzs'[z].ca = aAuthzs[z].ca
    /\ aAuthzs'[z].name = aAuthzs[z].name /\ aAuthzs'[z].sub = aAuthzs[z].sub
    /\ aAuthzs[z].status = "valid" => aAuthzs'[z].status = "valid"

LEMMA OrderKept ==
    ASSUME ApiInv, NEW o \in DOMAIN aOrders, SameOrder(o), DOMAIN aAuthzs \subseteq DOMAIN aAuthzs',
           \A z \in DOMAIN aAuthzs : SameAuthz(z),
           \A z \in DOMAIN aAuthzs' \ DOMAIN aAuthzs : aAuthzs'[z].order # o
    PROVE  LinksOK(o)' /\ CoveredOK(o)' /\ DelegatedOK(o)'
<1>1. LinksOK(o) /\ CoveredOK(o) /\ DelegatedOK(o)
  BY DEF ApiInv
<1>2. get_with_authz_ids(o)' = get_with_authz_ids(o)
  BY DEF get_with_authz_ids, SameAuthz
<1>3. LinksOK(o)'
  <2>1. aOrders'[o].links \subseteq DOMAIN aAuthzs' /\ aOrders'[o].reused \subseteq aOrders'[o].links
    BY <1>1 DEF LinksOK, SameOrder
  <2>2. get_with_authz_ids(o)' = aOrders'[o].links \ aOrders'[o].reused
    BY <1>1, <1>2 DEF LinksOK, SameOrder
  <2>3. \A z \in aOrders'[o].links : aAuthzs'[z].account = aOrders'[o].account /\ aAuthzs'[z].ca \in {aOrders'[o].ca, Default}
    BY <1>1 DEF LinksOK, SameOrder, SameAuthz, SameCa
  <2>4. \A z \in aOrders'[o].reused : aAuthzs'[z].status = "valid"
    BY <1>1 DEF LinksOK, SameOrder, SameAuthz
  <2> QED
    BY <2>1, <2>2, <2>3, <2>4 DEF LinksOK, SameCa
<1>4. CoveredOK(o)'
  <2> SUFFICES ASSUME aOrders'[o].delegation = "none", NEW n \in aOrders'[o].names
               PROVE  \E z \in aOrders'[o].links : Proves(z, n)'
    BY DEF CoveredOK
  <2>1. PICK z \in aOrders[o].links : Proves(z, n)
    BY <1>1 DEF CoveredOK, SameOrder
  <2>2. SameAuthz(z)
    BY <1>1, <2>1 DEF LinksOK
  <2>3. Proves(z, n)'
    BY <2>1, <2>2 DEF Proves, SameAuthz
  <2> QED
    BY <2>1, <2>3 DEF SameOrder
<1>5. DelegatedOK(o)'
  BY <1>1 DEF DelegatedOK, SameOrder
<1> QED
  BY <1>3, <1>4, <1>5

LEMMA ReadyKept ==
    ASSUME ApiInv, NEW o \in DOMAIN aOrders, SameOrder(o), \A z \in DOMAIN aAuthzs : SameAuthz(z),
           aOrders'[o].status \in {"ready", "valid"} => aOrders[o].status \in {"ready", "valid"}
    PROVE  ReadyOK(o)'
<1>1. LinksOK(o) /\ ReadyOK(o)
  BY DEF ApiInv
<1>2. aOrders[o].links \subseteq DOMAIN aAuthzs
  BY <1>1 DEF LinksOK
<1>3. aOrders'[o].links = aOrders[o].links /\ aOrders'[o].delegation = aOrders[o].delegation
  BY DEF SameOrder
<1>4. \A z \in DOMAIN aAuthzs : aAuthzs[z].status = "valid" => aAuthzs'[z].status = "valid"
  BY DEF SameAuthz
<1> QED
  BY <1>1, <1>2, <1>3, <1>4 DEF ReadyOK

LEMMA CertKept ==
    ASSUME ApiInv, NEW o \in DOMAIN aOrders, SameOrder(o), aCerts' = aCerts,
           aOrders'[o].cert = aOrders[o].cert, aOrders'[o].status = "valid" => aOrders[o].status = "valid"
    PROVE  CertOK(o)'
<1>1. CertOK(o)
  BY DEF ApiInv
<1> QED
  BY <1>1 DEF CertOK, SameOrder

LEMMA OrderTyped ==
    ASSUME ApiInv, NEW o \in DOMAIN aOrders
    PROVE  aOrders[o] \in OrderRows /\ o \in 1..Len(aOrders)
  BY DEF ApiInv, ApiTypeOK
LEMMA AuthzTyped ==
    ASSUME ApiInv, NEW z \in DOMAIN aAuthzs
    PROVE  aAuthzs[z] \in AuthzRows /\ z \in 1..Len(aAuthzs)
  BY DEF ApiInv, ApiTypeOK

LEMMA NewAuthzApiInv ==
    ASSUME ApiInv, NEW a \in ApiAccounts, NEW c \in ApiCas, NEW q \in AuthzRequests, new_authz(a, c, q)
    PROVE  ApiInv'
<1> DEFINE row == AuthzRow(0, a, c, q.name, q.sub)
<1>1. row \in AuthzRows /\ row.order = 0
  BY ApiAssumption DEF AuthzRow, AuthzRows
<1>2. aAuthzs' = Append(aAuthzs, row) /\ aOrders' = aOrders /\ aCerts' = aCerts
  BY DEF new_authz
<1> HIDE DEF row
<1>3. aOrders \in Seq(OrderRows) /\ aAuthzs \in Seq(AuthzRows) /\ aCerts \in Seq(CertRows)
  BY DEF ApiInv, ApiTypeOK
<1>4. /\ aAuthzs' \in Seq(AuthzRows) /\ DOMAIN aAuthzs' = 1..(Len(aAuthzs) + 1) /\ DOMAIN aAuthzs = 1..Len(aAuthzs)
      /\ \A z \in DOMAIN aAuthzs : aAuthzs'[z] = aAuthzs[z]
      /\ \A z \in DOMAIN aAuthzs' \ DOMAIN aAuthzs : aAuthzs'[z] = row
  BY <1>1, <1>2, <1>3
<1>5. ApiTypeOK'
  BY <1>2, <1>3, <1>4 DEF ApiTypeOK
<1>6. AuthzsPlaced'
  <2>1. Len(aOrders) \in Nat
    BY <1>3
  <2> QED
    BY <1>1, <1>2, <1>4, <2>1 DEF ApiInv, AuthzsPlaced
<1>7. CertsPlaced'
  BY <1>2 DEF ApiInv, CertsPlaced
<1>8. ASSUME NEW o \in DOMAIN aOrders PROVE LinksOK(o)' /\ CoveredOK(o)' /\ ReadyOK(o)' /\ DelegatedOK(o)' /\ CertOK(o)'
  <2>1. SameOrder(o) /\ \A z \in DOMAIN aAuthzs : SameAuthz(z)
    BY <1>2, <1>4 DEF SameOrder, SameAuthz
  <2>2. o # 0
    BY OrderTyped
  <2>3. DOMAIN aAuthzs \subseteq DOMAIN aAuthzs' /\ \A z \in DOMAIN aAuthzs' \ DOMAIN aAuthzs : aAuthzs'[z].order # o
    BY <1>1, <1>3, <1>4, <2>2
  <2>4. LinksOK(o)' /\ CoveredOK(o)' /\ DelegatedOK(o)'
    BY <2>1, <2>3, OrderKept
  <2>5. ReadyOK(o)'
    BY <1>2, <2>1, ReadyKept
  <2>6. CertOK(o)'
    BY <1>2, <2>1, CertKept
  <2> QED
    BY <2>4, <2>5, <2>6
<1> QED
  BY <1>2, <1>5, <1>6, <1>7, <1>8 DEF ApiInv

LEMMA CancelStarApiInv ==
    ASSUME ApiInv, NEW a \in ApiAccounts, NEW c \in ApiCas, NEW x \in DOMAIN aOrders, cancel_star(a, c, x)
    PROVE  ApiInv'
<1> DEFINE row == [aOrders[x] EXCEPT !.canceled = TRUE]
<1>1. aOrders' = [aOrders EXCEPT ![x] = row] /\ aAuthzs' = aAuthzs /\ aCerts' = aCerts
  BY DEF cancel_star
<1>2. aOrders[x] \in OrderRows /\ aOrders \in Seq(OrderRows)
  BY OrderTyped DEF ApiInv, ApiTypeOK
<1>3. /\ row \in OrderRows
      /\ row.account = aOrders[x].account /\ row.ca = aOrders[x].ca /\ row.names = aOrders[x].names
      /\ row.delegation = aOrders[x].delegation /\ row.certGet = aOrders[x].certGet
      /\ row.links = aOrders[x].links /\ row.reused = aOrders[x].reused /\ row.status = aOrders[x].status /\ row.cert = aOrders[x].cert
  BY <1>2 DEF OrderRows
<1> HIDE DEF row
<1>4. aOrders' \in Seq(OrderRows) /\ Len(aOrders') = Len(aOrders) /\ DOMAIN aOrders' = DOMAIN aOrders
  BY <1>1, <1>2, <1>3
<1>5. \A o \in DOMAIN aOrders : aOrders'[o] = IF o = x THEN row ELSE aOrders[o]
  BY <1>1, <1>2
<1>6. ApiTypeOK' /\ AuthzsPlaced' /\ CertsPlaced'
  BY <1>1, <1>4 DEF ApiInv, ApiTypeOK, AuthzsPlaced, CertsPlaced
<1>7. ASSUME NEW o \in DOMAIN aOrders PROVE LinksOK(o)' /\ CoveredOK(o)' /\ ReadyOK(o)' /\ DelegatedOK(o)' /\ CertOK(o)'
  <2>1. SameOrder(o) /\ aOrders'[o].status = aOrders[o].status /\ aOrders'[o].cert = aOrders[o].cert
    <3>1. CASE o = x
      BY <1>3, <1>5, <3>1 DEF SameOrder
    <3>2. CASE o # x
      BY <1>5, <3>2 DEF SameOrder
    <3> QED
      BY <3>1, <3>2
  <2>2. \A z \in DOMAIN aAuthzs : SameAuthz(z)
    BY <1>1 DEF SameAuthz
  <2>3. DOMAIN aAuthzs \subseteq DOMAIN aAuthzs' /\ \A z \in DOMAIN aAuthzs' \ DOMAIN aAuthzs : aAuthzs'[z].order # o
    BY <1>1
  <2>4. LinksOK(o)' /\ CoveredOK(o)' /\ DelegatedOK(o)'
    BY <2>1, <2>2, <2>3, OrderKept
  <2>5. ReadyOK(o)'
    BY <2>1, <2>2, ReadyKept
  <2>6. CertOK(o)'
    BY <1>1, <2>1, CertKept
  <2> QED
    BY <2>4, <2>5, <2>6
<1> QED
  BY <1>4, <1>6, <1>7 DEF ApiInv

(* A change of an authorization's status or expiry only.                     *)
LEMMA AuthzReplaced ==
    ASSUME ApiInv, NEW x \in DOMAIN aAuthzs, NEW row \in AuthzRows, aAuthzs' = [aAuthzs EXCEPT ![x] = row],
           row.order = aAuthzs[x].order, row.account = aAuthzs[x].account, row.ca = aAuthzs[x].ca,
           row.name = aAuthzs[x].name, row.sub = aAuthzs[x].sub, aAuthzs[x].status = "valid" => row.status = "valid"
    PROVE  /\ aAuthzs' \in Seq(AuthzRows) /\ DOMAIN aAuthzs' = DOMAIN aAuthzs /\ \A z \in DOMAIN aAuthzs : SameAuthz(z)
<1>1. aAuthzs \in Seq(AuthzRows)
  BY DEF ApiInv, ApiTypeOK
<1>2. aAuthzs' \in Seq(AuthzRows) /\ DOMAIN aAuthzs' = DOMAIN aAuthzs
  BY <1>1
<1>3. \A z \in DOMAIN aAuthzs : aAuthzs'[z] = IF z = x THEN row ELSE aAuthzs[z]
  BY <1>1
<1>4. ASSUME NEW z \in DOMAIN aAuthzs PROVE SameAuthz(z)
  <2>1. CASE z = x
    BY <1>3, <2>1 DEF SameAuthz
  <2>2. CASE z # x
    BY <1>3, <2>2 DEF SameAuthz
  <2> QED
    BY <2>1, <2>2
<1> QED
  BY <1>2, <1>4

LEMMA ExpireApiInv ==
    ASSUME ApiInv, NEW x \in DOMAIN aAuthzs, Expire(x)
    PROVE  ApiInv'
<1> DEFINE row == [aAuthzs[x] EXCEPT !.expired = TRUE]
<1>1. aAuthzs' = [aAuthzs EXCEPT ![x] = row] /\ aOrders' = aOrders /\ aCerts' = aCerts
  BY DEF Expire
<1>2. aAuthzs[x] \in AuthzRows
  BY AuthzTyped
<1>3. /\ row \in AuthzRows /\ row.order = aAuthzs[x].order /\ row.account = aAuthzs[x].account /\ row.ca = aAuthzs[x].ca
      /\ row.name = aAuthzs[x].name /\ row.sub = aAuthzs[x].sub /\ row.status = aAuthzs[x].status
  BY <1>2 DEF AuthzRows
<1> HIDE DEF row
<1>4. aAuthzs' \in Seq(AuthzRows) /\ DOMAIN aAuthzs' = DOMAIN aAuthzs /\ \A z \in DOMAIN aAuthzs : SameAuthz(z)
  BY <1>1, <1>3, AuthzReplaced
<1>5. ApiTypeOK' /\ AuthzsPlaced' /\ CertsPlaced'
  BY <1>1, <1>4 DEF ApiInv, ApiTypeOK, AuthzsPlaced, CertsPlaced, SameAuthz
<1>6. ASSUME NEW o \in DOMAIN aOrders PROVE LinksOK(o)' /\ CoveredOK(o)' /\ ReadyOK(o)' /\ DelegatedOK(o)' /\ CertOK(o)'
  <2>1. SameOrder(o)
    BY <1>1 DEF SameOrder
  <2>2. DOMAIN aAuthzs \subseteq DOMAIN aAuthzs' /\ \A z \in DOMAIN aAuthzs' \ DOMAIN aAuthzs : aAuthzs'[z].order # o
    BY <1>4
  <2>3. LinksOK(o)' /\ CoveredOK(o)' /\ DelegatedOK(o)'
    BY <1>4, <2>1, <2>2, OrderKept
  <2>4. ReadyOK(o)'
    BY <1>1, <1>4, <2>1, ReadyKept
  <2>5. CertOK(o)'
    BY <1>1, <2>1, CertKept
  <2> QED
    BY <2>3, <2>4, <2>5
<1> QED
  BY <1>1, <1>5, <1>6 DEF ApiInv
LEMMA ValidatedApiInv ==
    ASSUME ApiInv, NEW x \in DOMAIN aAuthzs, NEW ok \in BOOLEAN, Validated(x, ok)
    PROVE  ApiInv'
<1>1. PICK st \in {"valid", "invalid"} : st = (IF ok THEN "valid" ELSE "invalid")
  OBVIOUS
<1> DEFINE row == [aAuthzs[x] EXCEPT !.status = st]
<1>2. aAuthzs' = [aAuthzs EXCEPT ![x] = row] /\ aCerts' = aCerts /\ aAuthzs[x].status = "pending"
  BY <1>1 DEF Validated
<1>3. aAuthzs[x] \in AuthzRows
  BY AuthzTyped
<1>4. /\ row \in AuthzRows /\ row.order = aAuthzs[x].order /\ row.account = aAuthzs[x].account /\ row.ca = aAuthzs[x].ca
      /\ row.name = aAuthzs[x].name /\ row.sub = aAuthzs[x].sub
  BY <1>3 DEF AuthzRows
<1> HIDE DEF row
<1>5. aAuthzs' \in Seq(AuthzRows) /\ DOMAIN aAuthzs' = DOMAIN aAuthzs /\ \A z \in DOMAIN aAuthzs : SameAuthz(z)
  BY <1>2, <1>4, AuthzReplaced
(* An order becomes invalid, ready when all of its own are valid, or stays.  *)
<1> DEFINE next(o) == IF o # aAuthzs[x].order \/ aOrders[o].status # "pending" THEN aOrders[o]
                      ELSE IF ~ok THEN [aOrders[o] EXCEPT !.status = "invalid"]
                      ELSE IF \A y \in get_with_authz_ids(o) : aAuthzs'[y].status = "valid" THEN [aOrders[o] EXCEPT !.status = "ready"]
                      ELSE aOrders[o]
<1>6. aOrders' = [o \in DOMAIN aOrders |-> next(o)]
  BY DEF Validated
<1>7. aOrders \in Seq(OrderRows) /\ DOMAIN aOrders = 1..Len(aOrders) /\ Len(aOrders) \in Nat
  BY DEF ApiInv, ApiTypeOK
<1>8. ASSUME NEW o \in DOMAIN aOrders
      PROVE  /\ next(o) \in OrderRows
             /\ \/ next(o) = aOrders[o]
                \/ next(o) = [aOrders[o] EXCEPT !.status = "invalid"]
                \/ next(o) = [aOrders[o] EXCEPT !.status = "ready"] /\ \A y \in get_with_authz_ids(o) : aAuthzs'[y].status = "valid"
  <2>1. aOrders[o] \in OrderRows
    BY OrderTyped
  <2>2. [aOrders[o] EXCEPT !.status = "invalid"] \in OrderRows /\ [aOrders[o] EXCEPT !.status = "ready"] \in OrderRows
    BY <2>1 DEF OrderRows
  <2> QED
    BY <2>1, <2>2
<1> HIDE DEF next
<1>9. aOrders' \in Seq(OrderRows) /\ DOMAIN aOrders' = DOMAIN aOrders /\ Len(aOrders') = Len(aOrders) /\ \A o \in DOMAIN aOrders : aOrders'[o] = next(o)
  BY <1>6, <1>7, <1>8
<1>10. ApiTypeOK' /\ AuthzsPlaced' /\ CertsPlaced'
  BY <1>2, <1>5, <1>9 DEF ApiInv, ApiTypeOK, AuthzsPlaced, CertsPlaced, SameAuthz
<1>11. ASSUME NEW o \in DOMAIN aOrders PROVE LinksOK(o)' /\ CoveredOK(o)' /\ ReadyOK(o)' /\ DelegatedOK(o)' /\ CertOK(o)'
  <2>1. aOrders[o] \in OrderRows
    BY OrderTyped
  <2>2. /\ SameOrder(o) /\ aOrders'[o].cert = aOrders[o].cert
        /\ \/ aOrders'[o].status = aOrders[o].status
           \/ aOrders'[o].status = "invalid"
           \/ aOrders'[o].status = "ready" /\ \A y \in get_with_authz_ids(o) : aAuthzs'[y].status = "valid"
    <3>1. CASE next(o) = aOrders[o]
      BY <1>9, <3>1 DEF SameOrder
    <3>2. CASE next(o) = [aOrders[o] EXCEPT !.status = "invalid"]
      BY <1>9, <2>1, <3>2 DEF SameOrder, OrderRows
    <3>3. CASE next(o) = [aOrders[o] EXCEPT !.status = "ready"] /\ \A y \in get_with_authz_ids(o) : aAuthzs'[y].status = "valid"
      BY <1>9, <2>1, <3>3 DEF SameOrder, OrderRows
    <3> QED
      BY <1>8, <3>1, <3>2, <3>3
  <2>3. DOMAIN aAuthzs \subseteq DOMAIN aAuthzs' /\ \A z \in DOMAIN aAuthzs' \ DOMAIN aAuthzs : aAuthzs'[z].order # o
    BY <1>5
  <2>4. LinksOK(o)' /\ CoveredOK(o)' /\ DelegatedOK(o)'
    BY <1>5, <2>2, <2>3, OrderKept
  <2>5. ReadyOK(o)'
    <3>1. CASE aOrders'[o].status = aOrders[o].status \/ aOrders'[o].status = "invalid"
      BY <1>5, <2>2, <3>1, ReadyKept
    <3>2. CASE \A y \in get_with_authz_ids(o) : aAuthzs'[y].status = "valid"
      <4>1. /\ get_with_authz_ids(o) = aOrders[o].links \ aOrders[o].reused /\ \A z \in aOrders[o].reused : aAuthzs[z].status = "valid"
            /\ aOrders[o].links \subseteq DOMAIN aAuthzs
        BY DEF ApiInv, LinksOK
      <4>2. \A z \in aOrders[o].links : aAuthzs'[z].status = "valid"
        BY <1>5, <3>2, <4>1 DEF SameAuthz
      <4> QED
        BY <2>2, <4>2 DEF ReadyOK, SameOrder
    <3> QED
      BY <2>2, <3>1, <3>2
  <2>6. CertOK(o)'
    BY <1>2, <2>2, CertKept
  <2> QED
    BY <2>4, <2>5, <2>6
<1> QED
  BY <1>9, <1>10, <1>11 DEF ApiInv

LEMMA IssueApiInv ==
    ASSUME ApiInv, NEW x \in DOMAIN aOrders, Issue(x)
    PROVE  ApiInv'
<1> DEFINE k == Len(aCerts) + 1
           row == [aOrders[x] EXCEPT !.status = "valid", !.cert = k]
           cert == [order |-> x, account |-> aOrders[x].account, ca |-> aOrders[x].ca, names |-> aOrders[x].names]
<1>1. /\ aOrders' = [aOrders EXCEPT ![x] = row] /\ aAuthzs' = aAuthzs /\ aCerts' = Append(aCerts, cert)
      /\ aOrders[x].status \in {"ready", "valid"}
  <2>1. aOrders' = [aOrders EXCEPT ![x] = row]
    BY DEF Issue
  <2> QED
    BY <2>1 DEF Issue
<1>2. aOrders[x] \in OrderRows /\ x \in 1..Len(aOrders) /\ aOrders \in Seq(OrderRows) /\ aCerts \in Seq(CertRows)
  BY OrderTyped DEF ApiInv, ApiTypeOK
<1>3. k \in Nat /\ k = Len(aCerts) + 1 /\ k # 0
  BY <1>2
<1> HIDE DEF k
<1>4. /\ row \in OrderRows
      /\ row.account = aOrders[x].account /\ row.ca = aOrders[x].ca /\ row.names = aOrders[x].names
      /\ row.delegation = aOrders[x].delegation /\ row.certGet = aOrders[x].certGet
      /\ row.links = aOrders[x].links /\ row.reused = aOrders[x].reused /\ row.status = "valid" /\ row.cert = k
  BY <1>2, <1>3 DEF OrderRows
<1>5. /\ cert \in CertRows /\ cert.order = x /\ cert.account = aOrders[x].account /\ cert.names = aOrders[x].names
  BY <1>2 DEF OrderRows, CertRows
<1> HIDE DEF row, cert
<1>6. aOrders' \in Seq(OrderRows) /\ Len(aOrders') = Len(aOrders) /\ DOMAIN aOrders' = DOMAIN aOrders
  BY <1>1, <1>2, <1>4
<1>7. \A o \in DOMAIN aOrders : aOrders'[o] = IF o = x THEN row ELSE aOrders[o]
  BY <1>1, <1>2
<1>8. /\ aCerts' \in Seq(CertRows) /\ DOMAIN aCerts' = 1..k /\ DOMAIN aCerts = 1..Len(aCerts) /\ aCerts'[k] = cert
      /\ \A j \in DOMAIN aCerts : aCerts'[j] = aCerts[j]
  BY <1>1, <1>2, <1>3, <1>5
<1>9. /\ DOMAIN aCerts \subseteq DOMAIN aCerts'
      /\ \A j \in DOMAIN aCerts' : j = k \/ j \in DOMAIN aCerts
      /\ \A j \in DOMAIN aCerts' : j <= k
      /\ k \in DOMAIN aCerts'
  BY <1>2, <1>3, <1>8
<1>10. ApiTypeOK' /\ AuthzsPlaced'
  BY <1>1, <1>6, <1>8 DEF ApiInv, ApiTypeOK, AuthzsPlaced
<1>11. CertsPlaced'
  BY <1>5, <1>6, <1>8, <1>9 DEF ApiInv, CertsPlaced
<1>12. ASSUME NEW o \in DOMAIN aOrders PROVE LinksOK(o)' /\ CoveredOK(o)' /\ ReadyOK(o)' /\ DelegatedOK(o)' /\ CertOK(o)'
  <2>1. SameOrder(o) /\ (aOrders'[o].status \in {"ready", "valid"} => aOrders[o].status \in {"ready", "valid"})
    <3>1. CASE o = x
      BY <1>1, <1>4, <1>7, <3>1 DEF SameOrder
    <3>2. CASE o # x
      BY <1>7, <3>2 DEF SameOrder
    <3> QED
      BY <3>1, <3>2
  <2>2. \A z \in DOMAIN aAuthzs : SameAuthz(z)
    BY <1>1 DEF SameAuthz
  <2>3. DOMAIN aAuthzs \subseteq DOMAIN aAuthzs' /\ \A z \in DOMAIN aAuthzs' \ DOMAIN aAuthzs : aAuthzs'[z].order # o
    BY <1>1
  <2>4. LinksOK(o)' /\ CoveredOK(o)' /\ DelegatedOK(o)'
    BY <2>1, <2>2, <2>3, OrderKept
  <2>5. ReadyOK(o)'
    BY <2>1, <2>2, ReadyKept
  <2>6. CertOK(o)'
    <3>1. CASE o = x
      <4>1. aOrders'[o] = row
        BY <1>7, <3>1
      <4> QED
        BY <1>3, <1>4, <1>5, <1>8, <1>9, <3>1, <4>1 DEF CertOK
    <3>2. CASE o # x
      <4>1. aOrders'[o] = aOrders[o] /\ CertOK(o)
        BY <1>7, <3>2 DEF ApiInv
      <4>2. \A j \in DOMAIN aCerts' : aCerts'[j].order = o => j \in DOMAIN aCerts /\ aCerts'[j] = aCerts[j]
        BY <1>5, <1>8, <1>9, <3>2
      <4> QED
        BY <1>8, <1>9, <4>1, <4>2 DEF CertOK
    <3> QED
      BY <3>1, <3>2
  <2> QED
    BY <2>4, <2>5, <2>6
<1> QED
  BY <1>6, <1>10, <1>11, <1>12 DEF ApiInv
LEMMA SetAsSeqLists ==
    ASSUME NEW S, IsFiniteSet(S)
    PROVE  /\ Cardinality(S) \in Nat /\ SetAsSeq(S) \in [1..Cardinality(S) -> S]
           /\ \A x \in S : \E i \in 1..Cardinality(S) : SetAsSeq(S)[i] = x
           /\ S = {} => Cardinality(S) = 0
<1>1. Cardinality(S) \in Nat /\ ExistsBijection(1..Cardinality(S), S)
  BY FS_CardinalityType
<1>2. PICK f \in Bijection(1..Cardinality(S), S) : TRUE
  BY <1>1 DEF ExistsBijection
<1>3. f \in [1..Cardinality(S) -> S] /\ \A x \in S : \E i \in 1..Cardinality(S) : f[i] = x
  BY <1>2 DEF Bijection, Surjection
<1>4. \E g \in [1..Cardinality(S) -> S] : \A x \in S : \E i \in DOMAIN g : g[i] = x
  BY <1>3
<1>5. SetAsSeq(S) \in [1..Cardinality(S) -> S] /\ \A x \in S : \E i \in DOMAIN SetAsSeq(S) : SetAsSeq(S)[i] = x
  BY <1>4 DEF SetAsSeq
<1>6. S = {} => Cardinality(S) = 0
  BY FS_EmptySet
<1> QED
  BY <1>1, <1>5, <1>6

LEMMA LeastOf ==
    ASSUME NEW T, T \subseteq Nat, T # {}
    PROVE  \E i \in T : \A j \in T : i <= j
<1>1. \E x \in T : \A y \in T : ~(<<y, x>> \in OpToRel(<, Nat))
  BY NatLessThanWellFounded, WFMin, Zenon
<1>2. PICK x \in T : \A y \in T : ~(<<y, x>> \in OpToRel(<, Nat))
  BY <1>1
<1>3. \A y \in T : ~(y < x)
  BY <1>2 DEF OpToRel
<1> QED
  BY <1>3

(* What a reused authorization stands for.                                   *)
ReuseOK(z, a, c, n) ==
    /\ z \in DOMAIN aAuthzs /\ aAuthzs[z].account = a /\ SameCa(aAuthzs[z], c) /\ aAuthzs[z].status = "valid"
    /\ aAuthzs[z].sub /\ \E i \in DOMAIN ParentNames[n] : ParentNames[n][i] = aAuthzs[z].name
LEMMA NearestAncestor ==
    ASSUME NEW a, NEW c, NEW n \in DOMAIN ParentNames, NEW z \in find_valid_subdomain_ancestor(a, n, c)
    PROVE  ReuseOK(z, a, c, n)
<1> DEFINE at == {i \in DOMAIN ParentNames[n] : AncestorAuthzs(a, ParentNames[n][i], c) # {}}
           least == CHOOSE i \in at : \A j \in at : i <= j
<1>1. at # {} /\ z \in AncestorAuthzs(a, ParentNames[n][least], c)
  BY DEF find_valid_subdomain_ancestor
<1>2. at \subseteq DOMAIN ParentNames[n] /\ at \subseteq Nat
  <2>1. ParentNames[n] \in Seq(DOMAIN ParentNames)
    BY ApiAssumption
  <2> QED
    BY <2>1
<1> HIDE DEF at
<1>3. least \in at
  BY <1>1, <1>2, LeastOf
<1> HIDE DEF least
<1>4. /\ z \in DOMAIN aAuthzs /\ aAuthzs[z].account = a /\ SameCa(aAuthzs[z], c) /\ aAuthzs[z].status = "valid"
      /\ aAuthzs[z].sub /\ aAuthzs[z].name = ParentNames[n][least]
  BY <1>1 DEF AncestorAuthzs
<1> QED
  BY <1>2, <1>3, <1>4 DEF ReuseOK

LEMMA NewOrderApiInv ==
    ASSUME ApiInv, NEW a \in ApiAccounts, NEW c \in ApiCas, NEW q \in OrderRequests, new_order(a, c, q)
    PROVE  ApiInv'
<1>0. PICK x : x = Len(aOrders) + 1
  OBVIOUS
<1> DEFINE own == IF q.delegation = "none" THEN {id \in q.ids : Reused(a, id, c) = {}} ELSE {}
           reused == IF q.delegation = "none" THEN {CHOOSE z \in Reused(a, id, c) : TRUE : id \in q.ids \ own} ELSE {}
           plans == SetAsSeq(own)
           authz(i) == AuthzRow(x, a, c, IF plans[i].ancestor = "none" THEN plans[i].name ELSE plans[i].ancestor, plans[i].ancestor # "none")
           made == [i \in DOMAIN plans |-> authz(i)]
           links == reused \union {Len(aAuthzs) + i : i \in DOMAIN plans}
           row == OrderRow(a, c, q, own, links, reused)
           m == Cardinality(own)
<1>1. aOrders' = Append(aOrders, row) /\ aAuthzs' = aAuthzs \o made /\ aCerts' = aCerts /\ new_order_checks(a, q)
  BY <1>0 DEF new_order
<1>2. /\ aOrders \in Seq(OrderRows) /\ aAuthzs \in Seq(AuthzRows) /\ aCerts \in Seq(CertRows)
      /\ Len(aOrders) \in Nat /\ Len(aAuthzs) \in Nat
      /\ DOMAIN aOrders = 1..Len(aOrders) /\ DOMAIN aAuthzs = 1..Len(aAuthzs)
  BY DEF ApiInv, ApiTypeOK
<1>3. own \subseteq q.ids /\ IsFiniteSet(own)
  <2>1. own \subseteq q.ids
    OBVIOUS
  <2> QED
    BY <2>1, ApiAssumption, FS_Subset
<1>4. \A id \in q.ids : id.name \in DOMAIN ParentNames /\ id.ancestor \in {"none"} \union DOMAIN ParentNames
  BY ApiAssumption
<1>5. /\ m \in Nat /\ plans \in [1..m -> own] /\ (own = {} => m = 0)
      /\ \A id \in own : \E i \in 1..m : plans[i] = id
  <2> HIDE DEF own
  <2> QED
    BY <1>3, SetAsSeqLists
(* Reused authorizations.                                                    *)
<1>6. ASSUME NEW id \in q.ids, id \notin own, q.delegation = "none"
      PROVE  \E z \in reused : ReuseOK(z, a, c, id.name)
  <2>1. Reused(a, id, c) # {}
    BY <1>6
  <2>2. PICK z : z = CHOOSE y \in Reused(a, id, c) : TRUE
    OBVIOUS
  <2>3. z \in Reused(a, id, c)
    BY <2>1, <2>2
  <2>4. z \in find_valid_subdomain_ancestor(a, id.name, c)
    BY <2>3 DEF Reused
  <2>5. ReuseOK(z, a, c, id.name)
    BY <1>4, <2>4, NearestAncestor
  <2>6. z \in reused
    BY <1>6, <2>2
  <2> QED
    BY <2>5, <2>6
<1>7. ASSUME NEW z \in reused PROVE \E n : ReuseOK(z, a, c, n)
  <2>1. PICK id \in q.ids \ own : z = CHOOSE y \in Reused(a, id, c) : TRUE
    OBVIOUS
  <2>2. q.delegation = "none"
    OBVIOUS
  <2>3. Reused(a, id, c) # {}
    BY <2>1, <2>2
  <2>4. z \in Reused(a, id, c)
    BY <2>1, <2>3
  <2>5. z \in find_valid_subdomain_ancestor(a, id.name, c)
    BY <2>4 DEF Reused
  <2> QED
    BY <1>4, <2>5, NearestAncestor
<1>8. q.delegation # "none" => own = {} /\ reused = {}
  OBVIOUS
<1> HIDE DEF own, reused, plans, m
<1>9. reused \subseteq DOMAIN aAuthzs
  BY <1>7 DEF ReuseOK
(* New authorizations.                                                       *)
<1>10. ASSUME NEW i \in 1..m PROVE /\ plans[i] \in q.ids /\ authz(i) \in AuthzRows
  <2>1. plans[i] \in q.ids /\ plans[i] \in own
    BY <1>3, <1>5
  <2>2. PICK nm : nm = IF plans[i].ancestor = "none" THEN plans[i].name ELSE plans[i].ancestor
    OBVIOUS
  <2>3. nm \in DOMAIN ParentNames
    BY <1>4, <2>1, <2>2
  <2>4. PICK sub \in BOOLEAN : sub = (plans[i].ancestor # "none")
    OBVIOUS
  <2>5. authz(i) = [order |-> x, account |-> a, ca |-> c, name |-> nm, sub |-> sub, status |-> "pending", expired |-> FALSE]
    BY <2>2, <2>4 DEF AuthzRow
  <2>6. authz(i) \in AuthzRows
    <3>1. x \in Nat
      BY <1>0, <1>2
    <3> HIDE DEF authz
    <3> QED
      BY <2>3, <2>5, <3>1 DEF AuthzRows
  <2> QED
    BY <2>1, <2>6
<1>11. ASSUME NEW i \in 1..m
       PROVE  /\ authz(i).order = x /\ authz(i).account = a /\ authz(i).ca = c /\ authz(i).sub = (plans[i].ancestor # "none")
              /\ authz(i).name = IF plans[i].ancestor = "none" THEN plans[i].name ELSE plans[i].ancestor
  BY DEF AuthzRow
<1>12. x \in Nat /\ x = Len(aOrders) + 1
  BY <1>0, <1>2
<1> HIDE DEF authz
<1>13. made \in Seq(AuthzRows) /\ Len(made) = m /\ \A i \in 1..m : made[i] = authz(i)
  <2>1. DOMAIN plans = 1..m
    BY <1>5
  <2>2. made \in [1..m -> AuthzRows]
    BY <2>1, <1>10
  <2> QED
    BY <1>5, <2>1, <2>2
<1>14. links = reused \union {Len(aAuthzs) + i : i \in 1..m}
  BY <1>5
<1> HIDE DEF made, links
<1>15. /\ aAuthzs' \in Seq(AuthzRows) /\ DOMAIN aAuthzs' = 1..(Len(aAuthzs) + m)
       /\ \A z \in DOMAIN aAuthzs : aAuthzs'[z] = aAuthzs[z]
       /\ \A i \in 1..m : aAuthzs'[Len(aAuthzs) + i] = authz(i)
  <2>1. /\ aAuthzs' \in Seq(AuthzRows) /\ Len(aAuthzs') = Len(aAuthzs) + m
        /\ \A z \in 1..(Len(aAuthzs) + m) : aAuthzs'[z] = IF z <= Len(aAuthzs) THEN aAuthzs[z] ELSE made[z - Len(aAuthzs)]
    BY <1>1, <1>2, <1>13, ConcatProperties
  <2>2. DOMAIN aAuthzs' = 1..(Len(aAuthzs) + m)
    BY <2>1
  <2>3. \A z \in DOMAIN aAuthzs : aAuthzs'[z] = aAuthzs[z]
    BY <1>2, <1>5, <2>1
  <2>4. ASSUME NEW i \in 1..m PROVE aAuthzs'[Len(aAuthzs) + i] = authz(i)
    <3>1. PICK z : z = Len(aAuthzs) + i
      OBVIOUS
    <3>2. z \in 1..(Len(aAuthzs) + m) /\ ~(z <= Len(aAuthzs)) /\ z - Len(aAuthzs) = i
      BY <1>2, <1>5, <3>1
    <3> QED
      BY <1>13, <2>1, <3>1, <3>2
  <2> QED
    BY <2>1, <2>2, <2>3, <2>4
<1>16. /\ DOMAIN aAuthzs \subseteq DOMAIN aAuthzs'
       /\ \A z \in DOMAIN aAuthzs' \ DOMAIN aAuthzs : \E i \in 1..m : z = Len(aAuthzs) + i
       /\ \A i \in 1..m : Len(aAuthzs) + i \in DOMAIN aAuthzs' /\ Len(aAuthzs) + i \notin DOMAIN aAuthzs
  <2>1. DOMAIN aAuthzs \subseteq DOMAIN aAuthzs'
    BY <1>2, <1>5, <1>15
  <2>2. ASSUME NEW z \in DOMAIN aAuthzs' \ DOMAIN aAuthzs PROVE \E i \in 1..m : z = Len(aAuthzs) + i
    <3>1. m \in Nat /\ Len(aAuthzs) \in Nat /\ DOMAIN aAuthzs = 1..Len(aAuthzs) /\ DOMAIN aAuthzs' = 1..(Len(aAuthzs) + m)
      BY <1>2, <1>5, <1>15
    <3>2. z \in Int /\ z <= Len(aAuthzs) + m /\ ~(z <= Len(aAuthzs))
      BY <3>1
    <3>3. PICK i \in Int : i = z - Len(aAuthzs)
      BY <3>1, <3>2
    <3>4. i \in 1..m /\ z = Len(aAuthzs) + i
      BY <3>1, <3>2, <3>3
    <3> QED
      BY <3>4
  <2>3. \A i \in 1..m : Len(aAuthzs) + i \in DOMAIN aAuthzs' /\ Len(aAuthzs) + i \notin DOMAIN aAuthzs
    BY <1>2, <1>5, <1>15
  <2> QED
    BY <2>1, <2>2, <2>3
(* The order.                                                                *)
<1>17. PICK st \in {"ready", "pending"} : st = IF q.delegation # "none" \/ (own = {} /\ links # {}) THEN "ready" ELSE "pending"
  OBVIOUS
<1>18. /\ row.account = a /\ row.ca = c /\ row.names = {id.name : id \in q.ids} /\ row.status = st
       /\ row.delegation = q.delegation /\ row.cert = 0 /\ row.links = links /\ row.reused = reused
       /\ row.certGet => q.delegation # "none"
  BY <1>17 DEF OrderRow
<1>19. row \in OrderRows
  <2>1. PICK sg \in BOOLEAN : sg = (q.star /\ q.get)
    OBVIOUS
  <2>2. PICK cg \in BOOLEAN : cg = (q.delegation # "none" /\ q.get /\ ApiConfig.certGet)
    OBVIOUS
  <2>3. row = [account |-> a, ca |-> c, names |-> {id.name : id \in q.ids}, status |-> st, star |-> q.star, starGet |-> sg,
               canceled |-> FALSE, delegation |-> q.delegation, certGet |-> cg, cert |-> 0, links |-> links, reused |-> reused]
    BY <1>17, <2>1, <2>2 DEF OrderRow
  <2>4. q.star \in BOOLEAN /\ {id.name : id \in q.ids} \in SUBSET DOMAIN ParentNames /\ q.delegation \in {p.delegation : p \in OrderRequests}
    BY <1>4, ApiAssumption
  <2>5. reused \in SUBSET Nat
    BY <1>2, <1>9
  <2>6. links \in SUBSET Nat
    <3>1. \A i \in 1..m : Len(aAuthzs) + i \in Nat
      BY <1>2, <1>5
    <3> QED
      BY <1>14, <2>5, <3>1
  <2> HIDE DEF row
  <2> QED
    BY <2>3, <2>4, <2>5, <2>6 DEF OrderRows
<1> HIDE DEF row
<1>20. /\ aOrders' \in Seq(OrderRows) /\ DOMAIN aOrders' = 1..x /\ Len(aOrders') = x /\ aOrders'[x] = row
       /\ \A o \in DOMAIN aOrders : aOrders'[o] = aOrders[o]
  BY <1>1, <1>2, <1>12, <1>19
<1>21. \A o \in DOMAIN aOrders' : o = x \/ o \in DOMAIN aOrders
  BY <1>2, <1>12, <1>20
<1>22. ApiTypeOK'
  BY <1>1, <1>2, <1>15, <1>20 DEF ApiTypeOK
<1>23. \A z \in DOMAIN aAuthzs : aAuthzs[z].order \in Nat /\ aAuthzs[z].order <= Len(aOrders)
  BY AuthzTyped DEF ApiInv, AuthzsPlaced, AuthzRows
<1>24. AuthzsPlaced'
  <2> SUFFICES ASSUME NEW z \in DOMAIN aAuthzs' PROVE aAuthzs'[z].order <= Len(aOrders')
    BY DEF AuthzsPlaced
  <2>1. CASE z \in DOMAIN aAuthzs
    BY <2>1, <1>2, <1>12, <1>15, <1>20, <1>23
  <2>2. CASE z \notin DOMAIN aAuthzs
    <3>1. PICK i \in 1..m : z = Len(aAuthzs) + i
      BY <1>16, <2>2
    <3> QED
      BY <3>1, <1>11, <1>12, <1>15, <1>20
  <2> QED
    BY <2>1, <2>2
<1>25. CertsPlaced'
  BY <1>1, <1>2, <1>12, <1>20 DEF ApiInv, CertsPlaced
<1>26. ASSUME NEW o \in DOMAIN aOrders PROVE LinksOK(o)' /\ CoveredOK(o)' /\ ReadyOK(o)' /\ DelegatedOK(o)' /\ CertOK(o)'
  <2>1. SameOrder(o) /\ aOrders'[o] = aOrders[o]
    BY <1>20 DEF SameOrder
  <2>2. \A z \in DOMAIN aAuthzs : SameAuthz(z)
    BY <1>15 DEF SameAuthz
  <2>3. o # x
    BY <1>2, <1>12
  <2>4. \A z \in DOMAIN aAuthzs' \ DOMAIN aAuthzs : aAuthzs'[z].order # o
    BY <1>11, <1>15, <1>16, <2>3
  <2>5. LinksOK(o)' /\ CoveredOK(o)' /\ DelegatedOK(o)'
    BY <1>16, <2>1, <2>2, <2>4, OrderKept
  <2>6. ReadyOK(o)'
    BY <2>1, <2>2, ReadyKept
  <2>7. CertOK(o)'
    BY <1>1, <2>1, CertKept
  <2> QED
    BY <2>5, <2>6, <2>7
<1>27. LinksOK(x)'
  <2>1. links \subseteq DOMAIN aAuthzs' /\ reused \subseteq links
    BY <1>9, <1>14, <1>16
  <2>2. links \ reused = {Len(aAuthzs) + i : i \in 1..m}
    BY <1>9, <1>14, <1>16
  <2>3. {z \in DOMAIN aAuthzs' : aAuthzs'[z].order = x} = {Len(aAuthzs) + i : i \in 1..m}
    <3>1. ASSUME NEW z \in DOMAIN aAuthzs', aAuthzs'[z].order = x PROVE \E i \in 1..m : z = Len(aAuthzs) + i
      <4>1. z \notin DOMAIN aAuthzs
        BY <1>2, <1>12, <1>15, <1>23, <3>1
      <4> QED
        BY <1>16, <4>1
    <3>2. \A i \in 1..m : aAuthzs'[Len(aAuthzs) + i].order = x
      BY <1>11, <1>15
    <3> QED
      BY <1>16, <3>1, <3>2
  <2>4. ASSUME NEW z \in links PROVE aAuthzs'[z].account = a /\ aAuthzs'[z].ca \in {c, Default}
    <3>1. CASE z \in reused
      <4>1. PICK n : ReuseOK(z, a, c, n)
        BY <1>7, <3>1
      <4> QED
        BY <4>1, <1>15 DEF ReuseOK, SameCa
    <3>2. CASE z \notin reused
      <4>1. PICK i \in 1..m : z = Len(aAuthzs) + i
        BY <1>14, <3>2
      <4> QED
        BY <4>1, <1>11, <1>15
    <3> QED
      BY <3>1, <3>2
  <2>5. ASSUME NEW z \in reused PROVE aAuthzs'[z].status = "valid"
    <3>1. PICK n : ReuseOK(z, a, c, n)
      BY <1>7
    <3> QED
      BY <3>1, <1>15 DEF ReuseOK
  <2>6. get_with_authz_ids(x)' = links \ reused
    BY <1>12, <1>1, <2>2, <2>3 DEF get_with_authz_ids
  <2> QED
    BY <2>1, <2>4, <2>5, <2>6, <1>18, <1>20 DEF LinksOK, SameCa
<1>28. CoveredOK(x)'
  <2> SUFFICES ASSUME q.delegation = "none", NEW id \in q.ids PROVE \E z \in links : Proves(z, id.name)'
    <3>1. row.delegation = q.delegation /\ row.names = {id.name : id \in q.ids} /\ row.links = links
      BY <1>18
    <3> QED
      BY <3>1, <1>20 DEF CoveredOK
  <2>1. CASE id \in own
    <3>1. PICK i \in 1..m : plans[i] = id
      BY <1>5, <2>1
    <3>2. PICK z : z = Len(aAuthzs) + i
      OBVIOUS
    <3>3. z \in links /\ aAuthzs'[z] = authz(i)
      BY <1>14, <1>15, <3>2
    <3>4. aAuthzs'[z].name = (IF id.ancestor = "none" THEN id.name ELSE id.ancestor) /\ aAuthzs'[z].sub = (id.ancestor # "none")
      BY <1>11, <3>1, <3>3
    <3>5. id.ancestor # "none" => \E j \in DOMAIN ParentNames[id.name] : ParentNames[id.name][j] = id.ancestor
      BY <1>1 DEF new_order_checks, ancestor_ok
    <3>6. Proves(z, id.name)'
      <4>1. CASE id.ancestor = "none"
        BY <3>4, <4>1 DEF Proves
      <4>2. CASE id.ancestor # "none"
        BY <3>4, <3>5, <4>2 DEF Proves
      <4> QED
        BY <4>1, <4>2
    <3> QED
      BY <3>3, <3>6
  <2>2. CASE id \notin own
    <3>1. PICK z \in reused : ReuseOK(z, a, c, id.name)
      BY <1>6, <2>2
    <3>2. z \in links /\ aAuthzs'[z] = aAuthzs[z]
      BY <1>14, <1>15, <3>1 DEF ReuseOK
    <3>3. Proves(z, id.name)'
      BY <3>1, <3>2 DEF ReuseOK, Proves
    <3> QED
      BY <3>2, <3>3
  <2> QED
    BY <2>1, <2>2
<1>29. ReadyOK(x)'
  <2> SUFFICES ASSUME q.delegation = "none", st = "ready", NEW z \in links PROVE aAuthzs'[z].status = "valid"
    BY <1>18, <1>20 DEF ReadyOK
  <2>1. own = {} /\ m = 0
    BY <1>5, <1>17
  <2>2. z \in reused
    BY <1>14, <2>1
  <2>3. PICK n : ReuseOK(z, a, c, n)
    BY <1>7, <2>2
  <2> QED
    BY <2>3, <1>15 DEF ReuseOK
<1>30. DelegatedOK(x)'
  <2>1. q.delegation # "none" => ApiConfig.delegation /\ q.delegation \in DOMAIN Delegations /\ Delegations[q.delegation] = a
    BY <1>1 DEF new_order_checks, delegation_ok
  <2> QED
    BY <1>18, <1>20, <2>1 DEF DelegatedOK
<1>31. CertOK(x)'
  BY <1>17, <1>18, <1>20 DEF CertOK
<1> QED
  BY <1>21, <1>22, <1>24, <1>25, <1>26, <1>27, <1>28, <1>29, <1>30, <1>31 DEF ApiInv

LEMMA ApiKept == ASSUME ApiInv, [ApiNext]_apiVars PROVE ApiInv'
<1>1. CASE UNCHANGED apiVars
  BY <1>1 DEF apiVars, ApiInv, ApiTypeOK, AuthzsPlaced, CertsPlaced, LinksOK, get_with_authz_ids, SameCa, CoveredOK, Proves, ReadyOK, DelegatedOK, CertOK
<1>2. CASE ApiNext
  <2>1. ASSUME NEW a \in ApiAccounts, NEW c \in ApiCas, NEW q \in OrderRequests, new_order(a, c, q) PROVE ApiInv'
    BY <2>1, NewOrderApiInv
  <2>2. ASSUME NEW a \in ApiAccounts, NEW c \in ApiCas, NEW q \in AuthzRequests, new_authz(a, c, q) PROVE ApiInv'
    BY <2>2, NewAuthzApiInv
  <2>3. ASSUME NEW a \in ApiAccounts, NEW c \in ApiCas, NEW o \in DOMAIN aOrders, cancel_star(a, c, o) PROVE ApiInv'
    BY <2>3, CancelStarApiInv
  <2>4. ASSUME NEW z \in DOMAIN aAuthzs, Expire(z) PROVE ApiInv'
    BY <2>4, ExpireApiInv
  <2>5. ASSUME NEW z \in DOMAIN aAuthzs, NEW ok \in BOOLEAN, Validated(z, ok) PROVE ApiInv'
    BY <2>5, ValidatedApiInv
  <2>6. ASSUME NEW o \in DOMAIN aOrders, Issue(o) PROVE ApiInv'
    BY <2>6, IssueApiInv
  <2> QED
    BY <1>2, <2>1, <2>2, <2>3, <2>4, <2>5, <2>6 DEF ApiNext
<1> QED
  BY <1>1, <1>2
LEMMA ErrorCode ==
    ASSUME NEW c, NEW a, NEW code
    PROVE  ErrorReply(c, a, code).code = code /\ ErrorReply(c, a, code).kind = "error" /\ ErrorReply(c, a, code).links = {}
  BY DEF ErrorReply, NoReply

(* A view of an order is its row as its account sees it under its CA.        *)
IsViewOf(r, o, L) ==
    /\ o \in DOMAIN aOrders /\ (L = aOrders[o].links \/ L = get_with_authz_ids(o))
    /\ r = order_json(o, aOrders[o], L, aOrders[o].ca, aOrders[o].account)
LEMMA OrderViewed ==
    ASSUME NEW r \in OrderViews
    PROVE  \E o, L : IsViewOf(r, o, L)
<1>1. CASE r \in {NewOrderView(o) : o \in DOMAIN aOrders}
  <2>1. PICK o \in DOMAIN aOrders : r = NewOrderView(o)
    BY <1>1
  <2>2. IsViewOf(r, o, aOrders[o].links)
    BY <2>1 DEF NewOrderView, IsViewOf
  <2> QED
    BY <2>2
<1>2. CASE r \in {OrderView(a, c, o) : a \in ApiAccounts, c \in ApiCas, o \in DOMAIN aOrders} /\ r.code = 200
  <2>1. PICK a \in ApiAccounts, c \in ApiCas, o \in DOMAIN aOrders : r = OrderView(a, c, o)
    BY <1>2
  <2>2. aOrders[o].ca = c
    <3> SUFFICES ASSUME aOrders[o].ca # c PROVE r = ErrorReply(c, a, 404)
      BY <1>2, ErrorCode
    <3> QED
      BY <2>1 DEF OrderView, get_by_id
  <2>3. aOrders[o].account = a
    <3> SUFFICES ASSUME aOrders[o].account # a PROVE r = ErrorReply(c, a, 401)
      BY <1>2, ErrorCode
    <3> QED
      BY <2>1, <2>2 DEF OrderView, get_by_id
  <2>4. r = order_json(o, aOrders[o], get_with_authz_ids(o), c, a)
    BY <2>1, <2>2, <2>3 DEF OrderView, get_by_id
  <2>5. IsViewOf(r, o, get_with_authz_ids(o))
    BY <2>2, <2>3, <2>4 DEF IsViewOf
  <2> QED
    BY <2>5
<1> QED
  BY <1>1, <1>2 DEF OrderViews

LEMMA ViewFields ==
    ASSUME NEW r, NEW o, NEW L, IsViewOf(r, o, L)
    PROVE  /\ r.account = aOrders[o].account /\ r.ca = aOrders[o].ca /\ r.id = o /\ r.links = L
           /\ r.delegation = aOrders[o].delegation
           /\ r.cert # 0 => r.cert = aOrders[o].cert
           /\ r.star # 0 => r.star = o /\ aOrders[o].status = "valid"
  BY DEF IsViewOf, order_json

LEMMA GetAuthz ==
    ASSUME NEW a, NEW c, NEW z
    PROVE  /\ aAuthzs[z].account = a /\ SameCa(aAuthzs[z], c) => get_authz(a, c, z) = authz_json(z, c, a)
           /\ get_authz(a, c, z).code = 200 => aAuthzs[z].account = a /\ SameCa(aAuthzs[z], c)
<1>1. aAuthzs[z].account # a => get_authz(a, c, z) = ErrorReply(c, a, 401)
  BY DEF get_authz
<1>2. aAuthzs[z].account = a /\ ~SameCa(aAuthzs[z], c) => get_authz(a, c, z) = ErrorReply(c, a, 404)
  BY DEF get_authz
<1>3. aAuthzs[z].account = a /\ SameCa(aAuthzs[z], c) => get_authz(a, c, z) = authz_json(z, c, a)
  BY DEF get_authz
<1> QED
  BY <1>1, <1>2, <1>3, ErrorCode
LEMMA AuthzJson ==
    ASSUME NEW a, NEW c, NEW z
    PROVE  authz_json(z, c, a).code = 200 /\ authz_json(z, c, a).account = a /\ authz_json(z, c, a).ca = c /\ authz_json(z, c, a).id = z
  BY DEF authz_json, NoReply
LEMMA AuthzViewed ==
    ASSUME NEW r \in AuthzViews
    PROVE  aAuthzs[r.id].account = r.account /\ SameCa(aAuthzs[r.id], r.ca) /\ get_authz(r.account, r.ca, r.id).code = 200
<1>1. \E a, c, z : r = authz_json(z, c, a) /\ aAuthzs[z].account = a /\ SameCa(aAuthzs[z], c)
  <2>1. CASE r \in {get_authz(a, c, z) : a \in ApiAccounts, c \in ApiCas, z \in DOMAIN aAuthzs} /\ r.code = 200
    <3>1. PICK a \in ApiAccounts, c \in ApiCas, z \in DOMAIN aAuthzs : r = get_authz(a, c, z)
      BY <2>1
    <3> QED
      BY <2>1, <3>1, GetAuthz
  <2>2. CASE r \in UNION {new_authz_view(a, c, q) : a \in ApiAccounts, c \in ApiCas, q \in AuthzRequests}
    <3>1. PICK a \in ApiAccounts, c \in ApiCas, q \in AuthzRequests : r \in new_authz_view(a, c, q)
      BY <2>2
    <3>2. PICK z \in find_valid_by_account_and_identifier(a, q.name, c) : r = authz_json(z, c, a)
      BY <3>1 DEF new_authz_view
    <3>3. aAuthzs[z].account = a /\ SameCa(aAuthzs[z], c)
      BY DEF find_valid_by_account_and_identifier
    <3> QED
      BY <3>2, <3>3
  <2> QED
    BY <2>1, <2>2 DEF AuthzViews
<1>2. PICK a, c, z : r = authz_json(z, c, a) /\ aAuthzs[z].account = a /\ SameCa(aAuthzs[z], c)
  BY <1>1
<1>3. r.code = 200 /\ r.account = a /\ r.ca = c /\ r.id = z
  BY <1>2, AuthzJson
<1>4. get_authz(a, c, z) = r
  BY <1>2, GetAuthz
<1> QED
  BY <1>2, <1>3, <1>4

LEMMA OwnAuthzLinked ==
    ASSUME ApiInv, NEW r, NEW o, NEW L, IsViewOf(r, o, L), NEW z \in L
    PROVE  aAuthzs[z].account = aOrders[o].account /\ SameCa(aAuthzs[z], aOrders[o].ca)
<1>1. LinksOK(o)
  BY DEF ApiInv, IsViewOf
<1>2. z \in aOrders[o].links
  BY <1>1 DEF LinksOK, IsViewOf
<1> QED
  BY <1>1, <1>2 DEF LinksOK

LEMMA DelegationShown ==
    ASSUME NEW a, NEW c, NEW d, ApiConfig.delegation, d \in DOMAIN Delegations, Delegations[d] = a
    PROVE  get_delegation(a, c, d).code = 200
  BY DEF get_delegation, NoReply

LEMMA StarServed ==
    ASSUME ApiInv, NEW o \in DOMAIN aOrders, aOrders[o].status = "valid", ~aOrders[o].canceled
    PROVE  star_cert_post(aOrders[o].account, aOrders[o].ca, o).code = 200
<1>1. CertOK(o)
  BY DEF ApiInv
<1>2. aOrders[o].cert \in get_latest_for_order(o)
  BY <1>1 DEF CertOK, get_latest_for_order
<1>3. serve_star_cert(aOrders[o].account, aOrders[o].ca, o)
          = [NoReply EXCEPT !.kind = "star", !.code = 200, !.ca = aOrders[o].ca, !.account = aOrders[o].account, !.id = o]
  BY <1>2 DEF serve_star_cert, get_by_id
<1>4. star_cert_post(aOrders[o].account, aOrders[o].ca, o) = serve_star_cert(aOrders[o].account, aOrders[o].ca, o)
  BY DEF star_cert_post, get_by_id
<1> QED
  BY <1>3, <1>4 DEF NoReply

LEMMA CertServed ==
    ASSUME ApiInv, NEW o \in DOMAIN aOrders, aOrders[o].cert # 0, NEW c
    PROVE  download_cert_post(aOrders[o].account, c, aOrders[o].cert).code = 200 /\ aCerts[aOrders[o].cert].names = aOrders[o].names
<1>1. CertOK(o)
  BY DEF ApiInv
<1>2. aCerts[aOrders[o].cert].account = aOrders[o].account /\ aCerts[aOrders[o].cert].names = aOrders[o].names
  BY <1>1 DEF CertOK
<1>3. download_cert_post(aOrders[o].account, c, aOrders[o].cert)
          = [NoReply EXCEPT !.kind = "certPost", !.code = 200, !.ca = c, !.account = aOrders[o].account, !.id = aOrders[o].cert]
  BY <1>2 DEF download_cert_post
<1> QED
  BY <1>2, <1>3 DEF NoReply

LEMMA LinksDoFollow == ASSUME ApiInv PROVE LinksFollow
<1>1. ASSUME NEW r \in OrderViews
      PROVE  /\ OrderView(r.account, r.ca, r.id).code = 200
             /\ \A z \in r.links : get_authz(r.account, r.ca, z).code = 200
             /\ r.cert # 0 => download_cert_post(r.account, r.ca, r.cert).code = 200 /\ aCerts[r.cert].names = aOrders[r.id].names
             /\ r.star # 0 /\ ~aOrders[r.star].canceled => star_cert_post(r.account, r.ca, r.star).code = 200
             /\ r.delegation # "none" => get_delegation(r.account, r.ca, r.delegation).code = 200
  <2>1. PICK o, L : IsViewOf(r, o, L)
    BY OrderViewed
  <2>2. /\ r.account = aOrders[o].account /\ r.ca = aOrders[o].ca /\ r.id = o /\ r.links = L
        /\ r.delegation = aOrders[o].delegation
        /\ r.cert # 0 => r.cert = aOrders[o].cert
        /\ r.star # 0 => r.star = o /\ aOrders[o].status = "valid"
    BY <2>1, ViewFields
  <2>3. o \in DOMAIN aOrders
    BY <2>1 DEF IsViewOf
  <2>4. OrderView(r.account, r.ca, r.id).code = 200
    <3>1. OrderView(r.account, r.ca, r.id) = order_json(o, aOrders[o], get_with_authz_ids(o), r.ca, r.account)
      BY <2>2 DEF OrderView, get_by_id
    <3> QED
      BY <3>1 DEF order_json
  <2>5. ASSUME NEW z \in r.links PROVE get_authz(r.account, r.ca, z).code = 200
    <3>1. aAuthzs[z].account = r.account /\ SameCa(aAuthzs[z], r.ca)
      BY <2>1, <2>2, OwnAuthzLinked
    <3> QED
      BY <3>1, GetAuthz, AuthzJson
  <2>6. r.cert # 0 => download_cert_post(r.account, r.ca, r.cert).code = 200 /\ aCerts[r.cert].names = aOrders[r.id].names
    BY <2>2, <2>3, CertServed
  <2>7. r.star # 0 /\ ~aOrders[r.star].canceled => star_cert_post(r.account, r.ca, r.star).code = 200
    BY <2>2, <2>3, StarServed
  <2>8. r.delegation # "none" => get_delegation(r.account, r.ca, r.delegation).code = 200
    <3>1. DelegatedOK(o)
      BY <2>3 DEF ApiInv
    <3> QED
      BY <2>2, <3>1, DelegationShown DEF DelegatedOK
  <2> QED
    BY <2>4, <2>5, <2>6, <2>7, <2>8
<1>2. \A r \in AuthzViews : get_authz(r.account, r.ca, r.id).code = 200
  BY AuthzViewed
<1>3. ASSUME NEW a \in ApiAccounts, NEW c \in ApiCas, NEW d \in list_delegations(a, c, a).links PROVE get_delegation(a, c, d).code = 200
  <2>1. ApiConfig.delegation
    <3> SUFFICES ASSUME ~ApiConfig.delegation PROVE list_delegations(a, c, a) = ErrorReply(c, a, 401)
      BY ErrorCode
    <3> QED
      BY DEF list_delegations
  <2>2. list_delegations(a, c, a) = [NoReply EXCEPT !.kind = "delegations", !.code = 200, !.ca = c, !.account = a,
                                                    !.links = {e \in DOMAIN Delegations : Delegations[e] = a}]
    BY <2>1 DEF list_delegations
  <2>3. list_delegations(a, c, a).links = {e \in DOMAIN Delegations : Delegations[e] = a}
    BY <2>2 DEF NoReply
  <2> QED
    BY <2>1, <2>3, DelegationShown
<1> QED
  BY <1>1, <1>2, <1>3 DEF LinksFollow

(* The views other than those of orders and authorizations.                  *)
LEMMA CertPostOwned ==
    ASSUME ApiInv, NEW a, NEW c, NEW k \in DOMAIN aCerts, NEW r, r = download_cert_post(a, c, k), r.code = 200
    PROVE  r.kind = "certPost" /\ r.id = k /\ (aCerts[k].account = a \/ aOrders[aCerts[k].order].delegation # "none") /\ r.account = a
<1>1. get_by_id(aCerts[k].order).certGet \/ aCerts[k].account = a
  <2> SUFFICES ASSUME ~(get_by_id(aCerts[k].order).certGet \/ aCerts[k].account = a) PROVE r = ErrorReply(c, a, 401)
    BY ErrorCode
  <2> QED
    BY DEF download_cert_post
<1>2. r = [NoReply EXCEPT !.kind = "certPost", !.code = 200, !.ca = c, !.account = a, !.id = k]
  BY <1>1 DEF download_cert_post
<1>3. aCerts[k].order \in DOMAIN aOrders
  BY DEF ApiInv, CertsPlaced
<1>4. DelegatedOK(aCerts[k].order)
  BY <1>3 DEF ApiInv
<1>5. aCerts[k].account = a \/ aOrders[aCerts[k].order].delegation # "none"
  BY <1>1, <1>4 DEF DelegatedOK, get_by_id
<1> QED
  BY <1>2, <1>5 DEF NoReply

StarReply(r, a, c, o) == r.kind = "star" /\ r.id = o /\ r.ca = c /\ r.account = a /\ ~aOrders[o].canceled
LEMMA StarShown ==
    ASSUME NEW a, NEW c, NEW o, NEW r, r = serve_star_cert(a, c, o), r.code = 200
    PROVE  StarReply(r, a, c, o)
<1>1. ~aOrders[o].canceled
  <2> SUFFICES ASSUME aOrders[o].canceled PROVE r = ErrorReply(c, a, 403)
    BY ErrorCode
  <2> QED
    BY DEF serve_star_cert, get_by_id
<1>2. aOrders[o].status = "valid"
  <2> SUFFICES ASSUME aOrders[o].status # "valid" PROVE r = ErrorReply(c, a, 400)
    BY ErrorCode
  <2> QED
    BY <1>1 DEF serve_star_cert, get_by_id
<1>3. get_latest_for_order(o) # {}
  <2> SUFFICES ASSUME get_latest_for_order(o) = {} PROVE r = ErrorReply(c, a, 404)
    BY ErrorCode
  <2> QED
    BY <1>1, <1>2 DEF serve_star_cert, get_by_id
<1>4. r = [NoReply EXCEPT !.kind = "star", !.code = 200, !.ca = c, !.account = a, !.id = o]
  BY <1>1, <1>2, <1>3 DEF serve_star_cert, get_by_id
<1> QED
  BY <1>1, <1>4 DEF NoReply, StarReply
LEMMA StarPostOwned ==
    ASSUME NEW a, NEW c, NEW o, NEW r, r = star_cert_post(a, c, o), r.code = 200
    PROVE  StarReply(r, a, c, o) /\ aOrders[o].account = a /\ aOrders[o].ca = c
<1>1. aOrders[o].account = a
  <2> SUFFICES ASSUME aOrders[o].account # a PROVE r = ErrorReply(c, a, 401)
    BY ErrorCode
  <2> QED
    BY DEF star_cert_post, get_by_id
<1>2. aOrders[o].ca = c
  <2> SUFFICES ASSUME aOrders[o].ca # c PROVE r = ErrorReply(c, a, 404)
    BY ErrorCode
  <2> QED
    BY <1>1 DEF star_cert_post, get_by_id
<1>3. r = serve_star_cert(a, c, o)
  BY <1>1, <1>2 DEF star_cert_post, get_by_id
<1> QED
  BY <1>1, <1>2, <1>3, StarShown
LEMMA StarGetOwned ==
    ASSUME NEW c, NEW o, NEW r, r = star_cert_get(c, o), r.code = 200
    PROVE  StarReply(r, "none", c, o) /\ aOrders[o].starGet /\ aOrders[o].ca = c
<1>1. ApiConfig.starGet
  <2> SUFFICES ASSUME ~ApiConfig.starGet PROVE r = ErrorReply(c, "none", 401)
    BY ErrorCode
  <2> QED
    BY DEF star_cert_get
<1>2. aOrders[o].starGet
  <2> SUFFICES ASSUME ~aOrders[o].starGet PROVE r = ErrorReply(c, "none", 401)
    BY ErrorCode
  <2> QED
    BY <1>1 DEF star_cert_get, get_by_id
<1>3. aOrders[o].ca = c
  <2> SUFFICES ASSUME aOrders[o].ca # c PROVE r = ErrorReply(c, "none", 404)
    BY ErrorCode
  <2> QED
    BY <1>1, <1>2 DEF star_cert_get, get_by_id
<1>4. r = serve_star_cert("none", c, o)
  BY <1>1, <1>2, <1>3 DEF star_cert_get, get_by_id
<1> QED
  BY <1>2, <1>3, <1>4, StarShown
LEMMA DelegationOwned ==
    ASSUME NEW a, NEW c, NEW d, NEW r, r = get_delegation(a, c, d), r.code = 200
    PROVE  r.kind = "delegation" /\ r.delegation = d /\ r.account = a /\ Delegations[d] = a
<1>1. ApiConfig.delegation /\ d \in DOMAIN Delegations
  <2> SUFFICES ASSUME ~ApiConfig.delegation \/ d \notin DOMAIN Delegations PROVE r = ErrorReply(c, a, 404)
    BY ErrorCode
  <2> QED
    BY DEF get_delegation
<1>2. Delegations[d] = a
  <2> SUFFICES ASSUME Delegations[d] # a PROVE r = ErrorReply(c, a, 404)
    BY ErrorCode
  <2> QED
    BY <1>1 DEF get_delegation
<1>3. r = [NoReply EXCEPT !.kind = "delegation", !.code = 200, !.ca = c, !.account = a, !.delegation = d]
  BY <1>1, <1>2 DEF get_delegation
<1> QED
  BY <1>2, <1>3 DEF NoReply

OtherOwned(r) ==
    /\ r.kind = "certPost" => aCerts[r.id].account = r.account \/ aOrders[aCerts[r.id].order].delegation # "none"
    /\ r.kind = "star" => /\ ~aOrders[r.id].canceled /\ aOrders[r.id].ca = r.ca
                          /\ aOrders[r.id].account = r.account \/ (r.account = "none" /\ aOrders[r.id].starGet)
    /\ r.kind = "delegation" => Delegations[r.delegation] = r.account
LEMMA OthersOwned == ASSUME ApiInv, NEW r \in OtherViews PROVE OtherOwned(r)
<1>1. r.code = 200
  BY DEF OtherViews
<1>2. CASE r \in {download_cert_post(a, c, k) : a \in ApiAccounts, c \in ApiCas, k \in DOMAIN aCerts}
  <2>1. PICK a \in ApiAccounts, c \in ApiCas, k \in DOMAIN aCerts : r = download_cert_post(a, c, k)
    BY <1>2
  <2>2. r.kind = "certPost" /\ r.id = k /\ (aCerts[k].account = a \/ aOrders[aCerts[k].order].delegation # "none") /\ r.account = a
    BY <1>1, <2>1, CertPostOwned
  <2> QED
    BY <2>2 DEF OtherOwned
<1>3. CASE r \in {star_cert_post(a, c, o) : a \in ApiAccounts, c \in ApiCas, o \in DOMAIN aOrders}
  <2>1. PICK a \in ApiAccounts, c \in ApiCas, o \in DOMAIN aOrders : r = star_cert_post(a, c, o)
    BY <1>3
  <2>2. StarReply(r, a, c, o) /\ aOrders[o].account = a /\ aOrders[o].ca = c
    BY <1>1, <2>1, StarPostOwned
  <2> QED
    BY <2>2 DEF OtherOwned, StarReply
<1>4. CASE r \in {star_cert_get(c, o) : c \in ApiCas, o \in DOMAIN aOrders}
  <2>1. PICK c \in ApiCas, o \in DOMAIN aOrders : r = star_cert_get(c, o)
    BY <1>4
  <2>2. StarReply(r, "none", c, o) /\ aOrders[o].starGet /\ aOrders[o].ca = c
    BY <1>1, <2>1, StarGetOwned
  <2> QED
    BY <2>2 DEF OtherOwned, StarReply
<1>5. CASE r \in {get_delegation(a, c, d) : a \in ApiAccounts, c \in ApiCas, d \in DOMAIN Delegations}
  <2>1. PICK a \in ApiAccounts, c \in ApiCas, d \in DOMAIN Delegations : r = get_delegation(a, c, d)
    BY <1>5
  <2>2. r.kind = "delegation" /\ r.delegation = d /\ r.account = a /\ Delegations[d] = a
    BY <1>1, <2>1, DelegationOwned
  <2> QED
    BY <2>2 DEF OtherOwned
<1> QED
  BY <1>2, <1>3, <1>4, <1>5 DEF OtherViews

LEMMA ViewsAreOwn == ASSUME ApiInv PROVE OwnOnly
<1>1. ASSUME NEW r \in OrderViews PROVE aOrders[r.id].account = r.account /\ aOrders[r.id].ca = r.ca
  <2>1. PICK o, L : IsViewOf(r, o, L)
    BY OrderViewed
  <2> QED
    BY <2>1, ViewFields
<1>2. \A r \in AuthzViews : aAuthzs[r.id].account = r.account /\ aAuthzs[r.id].ca \in {r.ca, Default}
  BY AuthzViewed DEF SameCa
<1>3. \A r \in OtherViews : OtherOwned(r)
  BY OthersOwned
<1> QED
  BY <1>1, <1>2, <1>3 DEF OwnOnly, OtherOwned

LEMMA AuthorizationsSame == ASSUME ApiInv PROVE SameAuthorizations
<1> SUFFICES ASSUME NEW r \in OrderViews
             PROVE  \/ r.links = aOrders[r.id].links
                    \/ r.links = aOrders[r.id].links \ aOrders[r.id].reused /\ \A z \in aOrders[r.id].reused : aAuthzs[z].status = "valid"
  BY DEF SameAuthorizations
<1>1. PICK o, L : IsViewOf(r, o, L)
  BY OrderViewed
<1>2. r.id = o /\ r.links = L
  BY <1>1, ViewFields
<1>3. LinksOK(o)
  BY <1>1 DEF ApiInv, IsViewOf
<1> QED
  BY <1>1, <1>2, <1>3 DEF LinksOK, IsViewOf

LEMMA ReadyProved == ASSUME ApiInv PROVE ReadyIsProved
<1> SUFFICES ASSUME NEW o \in DOMAIN aOrders, aOrders[o].status \in {"ready", "valid"}, aOrders[o].delegation = "none",
                    NEW n \in aOrders[o].names
             PROVE  \E z \in aOrders[o].links :
                      /\ aAuthzs[z].status = "valid" /\ aAuthzs[z].account = aOrders[o].account
                      /\ aAuthzs[z].ca \in {aOrders[o].ca, Default}
                      /\ \/ aAuthzs[z].name = n
                         \/ aAuthzs[z].sub /\ \E i \in DOMAIN ParentNames[n] : ParentNames[n][i] = aAuthzs[z].name
  BY DEF ReadyIsProved
<1>1. LinksOK(o) /\ CoveredOK(o) /\ ReadyOK(o)
  BY DEF ApiInv
<1>2. PICK z \in aOrders[o].links : Proves(z, n)
  BY <1>1 DEF CoveredOK
<1>3. aAuthzs[z].status = "valid" /\ aAuthzs[z].account = aOrders[o].account /\ aAuthzs[z].ca \in {aOrders[o].ca, Default}
  BY <1>1 DEF ReadyOK, LinksOK, SameCa
<1> QED
  BY <1>2, <1>3 DEF Proves

(* What the ACME resources show agrees (routes/order.rs, authz.rs,           *)
(* certificate.rs, star_cert.rs, delegation.rs): for any accounts, CAs,      *)
(* requests and delegations, each account sees its own only, every link it   *)
(* was given works for it, later views of an order list what new-order       *)
(* listed unless it was proved already, and an order is ready only when each *)
(* of its names is delegated or proved.                                     *)
THEOREM ResourceViewsAgree == ApiSpec => []ViewsAgree
<1>1. ApiInv => ViewsAgree
  BY LinksDoFollow, ViewsAreOwn, AuthorizationsSame, ReadyProved DEF ViewsAgree
<1> QED
  BY <1>1, ApiStart, ApiKept, PTL DEF ApiSpec

-----------------------------------------------------------------------------
(* Proofs of control.                                                      *)

(* What each validator accepts was placed for this challenge.                *)
LEMMA AcceptedWasPlaced == ProofShowsControl
<1> DEFINE q == question
           Shows(e) == /\ e.at = q.id.name /\ e.for \intersect {q.ka, q.uri} # {}
                       /\ q.id.wild => e.kind \in {"dns", "key"}
<1> SUFFICES ASSUME dispatch(q) PROVE \E e \in Evidence(q.world) : Shows(e)
  BY DEF ProofShowsControl
<1>1. CASE q.type = "dns-01"
  <2>1. dns01(q)
    BY <1>1 DEF dispatch
  <2>2. PICK t \in q.world.acme_challenge : t.at = q.id.name /\ t.value = <<"sha256", q.ka>>
    BY <2>1 DEF dns01, dns_query
  <2> DEFINE e == [kind |-> "dns", at |-> t.at, for |-> {t.value[2]}]
  <2>3. e \in Evidence(q.world)
    BY DEF Evidence
  <2>4. Shows(e)
    BY <2>2
  <2> QED
    BY <2>3, <2>4
<1>2. CASE q.type = "dns-persist-01"
  <2>1. dns_persist_01(q)
    BY <1>2 DEF dispatch
  <2>2. PICK t \in q.world.validation_persist : t.at = q.id.name /\ q.uri \in t.value.uris
    BY <2>1 DEF dns_persist_01, dns_query, matches_record
  <2> DEFINE e == [kind |-> "dns", at |-> t.at, for |-> t.value.uris]
  <2>3. e \in Evidence(q.world)
    BY DEF Evidence
  <2>4. Shows(e)
    BY <2>2
  <2> QED
    BY <2>3, <2>4
<1>3. CASE q.type = "tls-alpn-01"
  <2>1. tls_alpn_01(q)
    BY <1>3 DEF dispatch
  <2>2. q.world.tls.present /\ ~q.id.wild /\ q.world.tls.answers[2] = q.id.name /\ q.world.tls.digest[2] = q.ka
    BY <2>1 DEF tls_alpn_01, ip_to_reverse_dns, verify_acme_cert
  <2> DEFINE e == [kind |-> "tls", at |-> q.world.tls.answers[2], for |-> {q.world.tls.digest[2]}]
  <2>3. e \in Evidence(q.world)
    BY <2>2 DEF Evidence
  <2>4. Shows(e)
    BY <2>2
  <2> QED
    BY <2>3, <2>4
<1>4. CASE q.type = "onion-csr-01"
  <2>1. onion_csr_01(q)
    BY <1>4 DEF dispatch
  <2>2. q.world.csr.present /\ q.world.csr.signer = q.id.name /\ q.world.csr.nonce = q.ka
    BY <2>1 DEF onion_csr_01, verify_hidden_service_signature, decode_onion_pubkey
  <2> DEFINE e == [kind |-> "key", at |-> q.world.csr.signer, for |-> {q.world.csr.nonce}]
  <2>3. e \in Evidence(q.world)
    BY <2>2 DEF Evidence
  <2>4. Shows(e)
    BY <2>2
  <2> QED
    BY <2>3, <2>4
<1> QED
  BY <1>1, <1>2, <1>3, <1>4 DEF dispatch

(* Of what is offered for an identifier, something can be answered.          *)
LEMMA AcceptedCanBeProved == ASSUME question \in Questions PROVE OfferedAreProvable
<1> DEFINE q == question
           offered == eligible_challenge_types(q.id, q.cfg)
           Easy == offered \intersect {"tkauth-01", "email-reply-00", "http-01"} # {} /\ ~q.id.wild
<1> SUFFICES ASSUME accepts_identifier(q.id, q.cfg)
             PROVE  Easy \/ \E type \in offered : dispatch(Answered(q, type))
  BY DEF OfferedAreProvable
<1>0. q.id.wellFormed /\ q.id.wild => q.id.type \in {"dns", "email"}
  BY QuestionsAssumption
<1>1. CASE q.id.type = "dns" /\ q.id.onion
  <2>0. q.id.v3
    BY <1>1 DEF accepts_identifier, validate_onion_v3, TokenTypes
  <2>a. offered = {"onion-csr-01"} \union (IF q.cfg.tor THEN {"http-01", "tls-alpn-01"} ELSE {})
    BY <1>1 DEF eligible_challenge_types, TokenTypes
  <2>1. q.id.v3 /\ "onion-csr-01" \in offered
    BY <2>0, <2>a
  <2>2. onion_csr_01(Answered(q, "onion-csr-01"))
    BY <2>1 DEF onion_csr_01, Answered, Published, verify_hidden_service_signature, decode_onion_pubkey, MAX_NONCE_AGE
  <2>3. Answered(q, "onion-csr-01").type = "onion-csr-01"
    BY DEF Answered
  <2>4. dispatch(Answered(q, "onion-csr-01"))
    BY <2>2, <2>3 DEF dispatch
  <2> QED
    BY <2>1, <2>4
<1>2. CASE q.id.type = "dns" /\ ~q.id.onion /\ q.id.wild
  <2>0. offered = {"dns-01"} \union (IF q.cfg.issuers = {} THEN {} ELSE {"dns-persist-01"})
    BY <1>2 DEF eligible_challenge_types, TokenTypes
  <2>1. "dns-01" \in offered
    BY <2>0
  <2>2. dns01(Answered(q, "dns-01"))
    <3> DEFINE a == Answered(q, "dns-01")
               t == [at |-> q.id.name, value |-> <<"sha256", q.ka>>]
    <3>1. a.world.dns = "ok" /\ a.world.acme_challenge = {t} /\ a.id.name = q.id.name /\ a.ka = q.ka
      BY DEF Answered, Published
    <3>2. t \in dns_query(a.world, a.world.acme_challenge, a.id.name)
      BY <3>1 DEF dns_query
    <3>3. t.value = <<"sha256", a.ka>>
      BY <3>1
    <3> QED
      BY <3>2, <3>3 DEF dns01
  <2>3. Answered(q, "dns-01").type = "dns-01"
    BY DEF Answered
  <2>4. dispatch(Answered(q, "dns-01"))
    BY <2>2, <2>3 DEF dispatch
  <2> QED
    BY <2>1, <2>4
<1>3. CASE q.id.type = "dns" /\ ~q.id.onion /\ ~q.id.wild
  <2>1. CASE q.cfg.tkauth /\ q.cfg.dnsSan
    BY <1>3, <2>1 DEF eligible_challenge_types
  <2>2. CASE ~(q.cfg.tkauth /\ q.cfg.dnsSan)
    BY <1>3, <2>2 DEF eligible_challenge_types
  <2> QED
    BY <2>1, <2>2
<1>4. CASE q.id.type = "ip"
  BY <1>0, <1>4 DEF accepts_identifier, eligible_challenge_types, TokenTypes
<1>5. CASE q.id.type = "email"
  BY <1>5 DEF accepts_identifier, eligible_challenge_types, TokenTypes
<1>6. CASE q.id.type \in TokenTypes
  BY <1>0, <1>6 DEF accepts_identifier, eligible_challenge_types, TokenTypes
<1>7. q.id.type \in {"dns", "ip", "email"} \/ q.id.type \in TokenTypes
  BY DEF accepts_identifier, TokenTypes
<1> QED
  BY <1>1, <1>2, <1>3, <1>4, <1>5, <1>6, <1>7

(* Following redirects: every fetch so far leads to the next, and the count  *)
(* of fetches and the redirects left add up.                                 *)
Fetches == [url : DOMAIN Site, addr : UNION Addresses, moved : BOOLEAN]
HttpTypeOK ==
    /\ http = [pc |-> http.pc, url |-> http.url, left |-> http.left, seen |-> http.seen]
    /\ http.pc \in {"idle", "check", "get", "valid", "refused"} /\ http.left \in Int
    /\ fetched \in Seq(Fetches) /\ moves \in [Hosts -> Nat] /\ addrs \in [Hosts -> SUBSET UNION Addresses]
    /\ question \in Questions
Linked ==
    /\ Len(fetched) > 0 => fetched[1].url \in StartUrls
    /\ \A n \in 1 .. Len(fetched) - 1 : Site[fetched[n].url].to = fetched[n + 1].url
Chained ==
    /\ Len(fetched) <= MAX_REDIRECTS + 1 /\ Linked
    /\ http.pc = "idle" => Len(fetched) = 0 /\ http.left = MAX_REDIRECTS + 1
    /\ http.pc \in {"check", "get"} =>
         /\ http.url \in DOMAIN Site /\ http.left >= 1 /\ Len(fetched) + http.left = MAX_REDIRECTS + 1
         /\ Len(fetched) = 0 => http.url \in StartUrls
         /\ Len(fetched) > 0 => Site[fetched[Len(fetched)].url].to = http.url
    /\ http.pc = "valid" => Len(fetched) > 0 /\ Site[fetched[Len(fetched)].url].body = KeyAuth
    /\ ~asked => http.pc = "idle"
(* A host that did not move since it was checked has no blocked address.     *)
CheckedHost ==
    http.pc = "get" =>
        LET h == http.url.host IN
        /\ http.seen \in Nat /\ http.seen <= moves[h]
        /\ http.seen = moves[h] /\ ~AllowPrivate => ~\E a \in addrs[h] : is_blocked_ip(a)
HttpInv == HttpTypeOK /\ Chained /\ CheckedHost /\ FetchesChecked

LEMMA HttpStart == ValInit => HttpInv
<1> SUFFICES ASSUME ValInit PROVE HttpInv
  OBVIOUS
<1>1. HttpTypeOK
  BY QuestionsAssumption, ValidatorsAssumption DEF ValInit, HttpTypeOK
<1>2. Chained
  BY ValidatorsAssumption DEF ValInit, Chained, Linked
<1>3. CheckedHost /\ FetchesChecked
  BY DEF ValInit, CheckedHost, FetchesChecked
<1> QED
  BY <1>1, <1>2, <1>3 DEF HttpInv

LEMMA HttpKept == ASSUME HttpInv, [ValNext]_valVars PROVE HttpInv'
<1>a. HttpTypeOK /\ Chained /\ CheckedHost /\ FetchesChecked
  BY DEF HttpInv
<1>b. MAX_REDIRECTS \in Nat /\ Len(fetched) \in Nat /\ StartUrls \subseteq DOMAIN Site
  BY <1>a, ValidatorsAssumption DEF HttpTypeOK
<1>1. CASE UNCHANGED valVars
  BY <1>1 DEF valVars, HttpInv, HttpTypeOK, Chained, Linked, CheckedHost, FetchesChecked
<1>2. ASSUME NEW q \in Questions, validate_challenge(q) PROVE HttpInv'
  <2>1. /\ asked' = TRUE /\ question' = q /\ addrs' = addrs /\ moves' = moves /\ http' = http /\ fetched' = fetched
    BY <1>2 DEF validate_challenge
  <2> QED
    BY <1>a, <2>1 DEF HttpInv, HttpTypeOK, Chained, Linked, CheckedHost, FetchesChecked
<1>3. ASSUME NEW u \in StartUrls, NEW as \in [Hosts -> Addresses], BeginHttp(u, as) PROVE HttpInv'
  <2>1. /\ ~asked /\ asked' = TRUE /\ question' = question /\ addrs' = as /\ moves' = moves /\ fetched' = fetched
        /\ http' = [http EXCEPT !.pc = "check", !.url = u]
    BY <1>3 DEF BeginHttp
  <2>2. http' = [pc |-> "check", url |-> u, left |-> http.left, seen |-> http.seen]
    BY <1>a, <2>1 DEF HttpTypeOK
  <2>3. http.pc = "idle"
    BY <1>a, <2>1 DEF Chained
  <2>4. HttpTypeOK'
    BY <1>a, <2>1, <2>2 DEF HttpTypeOK
  <2>5. Chained'
    BY <1>a, <1>b, <2>1, <2>2, <2>3 DEF Chained, Linked, HttpTypeOK
  <2>6. CheckedHost' /\ FetchesChecked'
    BY <1>a, <2>1, <2>2 DEF CheckedHost, FetchesChecked
  <2> QED
    BY <2>4, <2>5, <2>6 DEF HttpInv
<1>4. ASSUME CheckHost PROVE HttpInv'
  <2> DEFINE h == http.url.host
             to == IF check_redirect_host(h) THEN "get" ELSE "refused"
  <2>1. /\ http.pc = "check" /\ http' = [http EXCEPT !.pc = to, !.seen = moves[h]]
        /\ asked' = asked /\ question' = question /\ addrs' = addrs /\ moves' = moves /\ fetched' = fetched
    BY <1>4 DEF CheckHost
  <2>2. http' = [pc |-> to, url |-> http.url, left |-> http.left, seen |-> moves[h]]
    BY <1>a, <2>1 DEF HttpTypeOK
  <2>3. h \in Hosts
    BY <1>a, <2>1, ValidatorsAssumption DEF Chained
  <2>4. HttpTypeOK'
    BY <1>a, <2>1, <2>2 DEF HttpTypeOK
  <2>5. Chained'
    BY <1>a, <2>1, <2>2 DEF Chained, Linked
  <2>6. CheckedHost'
    BY <1>a, <2>1, <2>2, <2>3 DEF CheckedHost, check_redirect_host, HttpTypeOK
  <2>7. FetchesChecked'
    BY <1>a, <2>1 DEF FetchesChecked
  <2> QED
    BY <2>4, <2>5, <2>6, <2>7 DEF HttpInv
<1>5. ASSUME NEW a \in UNION Addresses, Get(a) PROVE HttpInv'
  <2> DEFINE h == http.url.host
             r == Site[http.url]
             f == [url |-> http.url, addr |-> a, moved |-> moves[h] # http.seen]
  <2>1. /\ http.pc = "get" /\ a \in addrs[h] /\ fetched' = Append(fetched, f)
        /\ asked' = asked /\ question' = question /\ addrs' = addrs /\ moves' = moves
    BY <1>5 DEF Get
  <2>2. /\ http.url \in DOMAIN Site /\ http.left >= 1 /\ Len(fetched) + http.left = MAX_REDIRECTS + 1
        /\ Len(fetched) = 0 => http.url \in StartUrls
        /\ Len(fetched) > 0 => Site[fetched[Len(fetched)].url].to = http.url
        /\ http.left \in Int /\ fetched \in Seq(Fetches) /\ asked
    BY <1>a, <2>1 DEF Chained, HttpTypeOK
  <2>3. f \in Fetches
    BY <2>2 DEF Fetches
  <2>4. \/ r.status = "redirect" /\ r.to \in DOMAIN Site /\ http.left # 1 /\ http' = [http EXCEPT !.pc = "check", !.url = r.to, !.left = @ - 1]
        \/ r.body = KeyAuth /\ http' = [http EXCEPT !.pc = "valid"]
        \/ http' = [http EXCEPT !.pc = "refused"]
    <3>1. http' = CASE r.status = "redirect" ->
                      IF r.to \notin DOMAIN Site \/ http.left = 1 THEN [http EXCEPT !.pc = "refused"]
                      ELSE [http EXCEPT !.pc = "check", !.url = r.to, !.left = @ - 1]
                 [] r.status = "ok" ->
                      [http EXCEPT !.pc = IF r.body = KeyAuth THEN "valid" ELSE "refused"]
                 [] OTHER -> [http EXCEPT !.pc = "refused"]
      BY <1>5 DEF Get
    <3> HIDE DEF r
    <3>2. CASE r.status = "redirect"
      BY <3>1, <3>2
    <3>3. CASE r.status = "ok"
      BY <3>1, <3>3
    <3>4. CASE r.status \notin {"redirect", "ok"}
      BY <3>1, <3>4
    <3> QED
      BY <3>2, <3>3, <3>4
  <2>5. \/ r.to \in DOMAIN Site /\ http.left # 1 /\ http' = [pc |-> "check", url |-> r.to, left |-> http.left - 1, seen |-> http.seen]
        \/ r.body = KeyAuth /\ http' = [pc |-> "valid", url |-> http.url, left |-> http.left, seen |-> http.seen]
        \/ http' = [pc |-> "refused", url |-> http.url, left |-> http.left, seen |-> http.seen]
    BY <1>a, <2>4 DEF HttpTypeOK
  <2> HIDE DEF f
  <2>6. /\ fetched' \in Seq(Fetches) /\ Len(fetched') = Len(fetched) + 1 /\ fetched'[Len(fetched) + 1] = f
        /\ \A n \in 1 .. Len(fetched) : fetched'[n] = fetched[n]
    BY <2>1, <2>2, <2>3
  <2>7. HttpTypeOK'
    BY <1>a, <2>1, <2>2, <2>5, <2>6 DEF HttpTypeOK
  <2>8. f.url = http.url /\ f.addr = a /\ f.moved = (moves[h] # http.seen)
    BY DEF f
  <2>9. Linked'
    <3>1. fetched'[1].url \in StartUrls
      BY <1>a, <1>b, <2>2, <2>6, <2>8 DEF Chained, Linked
    <3>2. ASSUME NEW n \in 1 .. Len(fetched) PROVE Site[fetched'[n].url].to = fetched'[n + 1].url
      <4>1. CASE n = Len(fetched)
        BY <1>b, <2>2, <2>6, <2>8, <4>1
      <4>2. CASE n < Len(fetched)
        BY <1>a, <1>b, <2>6, <4>2 DEF Chained, Linked
      <4> QED
        BY <1>b, <4>1, <4>2
    <3>3. Len(fetched') - 1 = Len(fetched)
      BY <1>b, <2>6
    <3> QED
      BY <3>1, <3>2, <3>3 DEF Linked
  <2>10. Len(fetched') <= MAX_REDIRECTS + 1
    BY <1>b, <2>2, <2>6
  <2>11. Chained'
    <3>1. fetched'[Len(fetched')].url = http.url
      BY <2>6, <2>8
    <3>2. CASE r.to \in DOMAIN Site /\ http.left # 1 /\ http' = [pc |-> "check", url |-> r.to, left |-> http.left - 1, seen |-> http.seen]
      <4>1. http'.left >= 1 /\ Len(fetched') + http'.left = MAX_REDIRECTS + 1 /\ Len(fetched') > 0
        BY <1>b, <2>2, <2>6, <3>2
      <4> QED
        BY <2>1, <2>2, <2>9, <2>10, <3>1, <3>2, <4>1 DEF Chained
    <3>3. CASE r.body = KeyAuth /\ http' = [pc |-> "valid", url |-> http.url, left |-> http.left, seen |-> http.seen]
      BY <1>b, <2>1, <2>2, <2>6, <2>9, <2>10, <3>1, <3>3 DEF Chained
    <3>4. CASE http' = [pc |-> "refused", url |-> http.url, left |-> http.left, seen |-> http.seen]
      BY <2>1, <2>2, <2>9, <2>10, <3>4 DEF Chained
    <3> QED
      BY <2>5, <3>2, <3>3, <3>4
  <2>12. CheckedHost'
    BY <2>5 DEF CheckedHost
  <2>13. FetchesChecked'
    <3> SUFFICES ASSUME ~AllowPrivate, NEW n \in DOMAIN fetched', is_blocked_ip(fetched'[n].addr) PROVE fetched'[n].moved
      BY DEF FetchesChecked
    <3>1. CASE n \in DOMAIN fetched
      BY <1>a, <2>2, <2>6, <3>1 DEF FetchesChecked
    <3>2. CASE n \notin DOMAIN fetched
      <4>1. n = Len(fetched) + 1
        BY <1>b, <2>2, <2>6, <3>2
      <4>2. is_blocked_ip(a) /\ fetched'[n] = f
        BY <2>6, <2>8, <4>1
      <4>3. http.seen # moves[h]
        BY <1>a, <2>1, <4>2 DEF CheckedHost
      <4> QED
        BY <2>8, <4>2, <4>3
    <3> QED
      BY <3>1, <3>2
  <2> QED
    BY <2>7, <2>11, <2>12, <2>13 DEF HttpInv
<1>6. ASSUME NEW x \in Hosts, NEW s \in Addresses, HostMoves(x, s) PROVE HttpInv'
  <2>1. /\ addrs' = [addrs EXCEPT ![x] = s] /\ moves' = [moves EXCEPT ![x] = @ + 1]
        /\ asked' = asked /\ question' = question /\ http' = http /\ fetched' = fetched
    BY <1>6 DEF HostMoves
  <2>2. HttpTypeOK'
    BY <1>a, <2>1 DEF HttpTypeOK
  <2>3. Chained' /\ FetchesChecked'
    BY <1>a, <2>1 DEF Chained, Linked, FetchesChecked
  <2>4. CheckedHost'
    <3> SUFFICES ASSUME http.pc = "get" PROVE CheckedHost'
      BY <2>1 DEF CheckedHost
    <3> DEFINE h == http.url.host
    <3>1. h \in Hosts
      BY <1>a, ValidatorsAssumption DEF Chained
    <3>2. http.seen \in Nat /\ http.seen <= moves[h] /\ moves[h] \in Nat
      BY <1>a, <3>1 DEF CheckedHost, HttpTypeOK
    <3>3. CASE h = x
      <4>1. moves'[h] = moves[h] + 1
        BY <1>a, <2>1, <3>1, <3>3 DEF HttpTypeOK
      <4> QED
        BY <2>1, <3>2, <4>1 DEF CheckedHost
    <3>4. CASE h # x
      <4>1. moves'[h] = moves[h] /\ addrs'[h] = addrs[h]
        BY <1>a, <2>1, <3>1, <3>4 DEF HttpTypeOK
      <4> QED
        BY <1>a, <2>1, <4>1 DEF CheckedHost
    <3> QED
      BY <3>3, <3>4
  <2> QED
    BY <2>2, <2>3, <2>4 DEF HttpInv
<1> QED
  BY <1>1, <1>2, <1>3, <1>4, <1>5, <1>6 DEF ValNext

LEMMA HttpGives == HttpInv => ProofShowsControl /\ OfferedAreProvable /\ FetchesChecked /\ ChainFromIdentifier
<1> SUFFICES ASSUME HttpInv PROVE OfferedAreProvable /\ FetchesChecked /\ ChainFromIdentifier
  BY AcceptedWasPlaced
<1>1. OfferedAreProvable
  BY AcceptedCanBeProved DEF HttpInv, HttpTypeOK
<1>2. FetchesChecked
  BY DEF HttpInv
<1>3. ChainFromIdentifier
  BY DEF HttpInv, Chained, Linked, ChainFromIdentifier
<1> QED
  BY <1>1, <1>2, <1>3

(* CAA.  The names still to ask are the rest of the walk from a position p;  *)
(* those before it were seen empty.  While one name at most changed, all of  *)
(* it was seen in the tree as it was before or in the tree as it is.         *)
Rest(labels, p) == [n \in 1 .. Len(labels) - p |-> Suffix(labels, n + p - 1)]
Places(i) == {p \in Nat : p = 1 \/ (1 <= p /\ p <= Len(i.labels))}
Zones == [CaaNames -> RecordSets]
SawEmpty(z, i, p) == \A n \in 1 .. p - 1 : z[Suffix(i.labels, n)] = {}
OneApart(y, z) == \E x : \A n \in CaaNames : n # x => y[n] = z[n]
SeenIn(i, p, y) ==
    /\ y \in Zones /\ OneApart(y, zone) /\ (zchanges = 0 => y = zone)
    /\ TreeAllows(y, i) \in zverdicts[i] /\ TreeAllows(zone, i) \in zverdicts[i]
    /\ SawEmpty(y, i, p) \/ SawEmpty(zone, i, p)
WalkOK(i) ==
    /\ walk[i].answer = "none" => \E p \in Places(i), y \in Zones : walk[i].names = Rest(i.labels, p) /\ SeenIn(i, p, y)
    /\ walk[i].answer = "allowed" => TRUE \in zverdicts[i]
CaaTypeOK ==
    /\ zone \in Zones /\ zchanges \in Nat /\ caa \in {"idle", "running", "allowed", "refused"}
    /\ walk = [i \in CaaIds |-> [names |-> walk[i].names, answer |-> walk[i].answer]]
    /\ \A i \in CaaIds : walk[i].answer \in {"none", "allowed", "refused"}
    /\ DOMAIN zverdicts = CaaIds
CaaInv ==
    /\ CaaTypeOK
    /\ caa = "idle" => zchanges = 0
    /\ caa = "running" => CaaIdentities # {}
    /\ caa # "idle" /\ zchanges <= 1 =>
         /\ CaaIdentities # {} => \A i \in CaaIds : WalkOK(i)
         /\ caa = "allowed" /\ CaaIdentities # {} => \A i \in CaaIds : walk[i].answer = "allowed"
         /\ caa = "refused" => caaFailed \/ \E i \in CaaIds : FALSE \in zverdicts[i]

(* What a tree says is decided by the first name seen with records.          *)
LEMMA SuffixesDiffer ==
    ASSUME NEW l \in Seq(STRING), NEW n \in 1 .. Len(l), NEW k \in 1 .. Len(l), n # k
    PROVE  Suffix(l, n) # Suffix(l, k)
<1>1. Len(Suffix(l, n)) = Len(l) - n + 1 /\ Len(Suffix(l, k)) = Len(l) - k + 1
  BY DEF Suffix
<1> QED
  BY <1>1
LEMMA NamesWalked ==
    ASSUME NEW i \in CaaIds, NEW n \in 1 .. Len(i.labels) - 1 PROVE Suffix(i.labels, n) \in CaaNames
BY DEF CaaNames
LEMMA FirstDecides ==
    ASSUME NEW z, NEW i \in CaaIds, NEW p \in 1 .. Len(i.labels) - 1, SawEmpty(z, i, p), z[Suffix(i.labels, p)] # {}
    PROVE  TreeAllows(z, i) = evaluate_caa_record_set(z[Suffix(i.labels, p)], i)
<1> DEFINE set == {n \in 1 .. Len(i.labels) - 1 : z[Suffix(i.labels, n)] # {}}
<1>0. Len(i.labels) \in Nat
  BY CaaAssumption
<1>1. p \in set /\ \A n \in set : p <= n
  <2>1. p \in set
    OBVIOUS
  <2>2. ASSUME NEW n \in set, ~(p <= n) PROVE FALSE
    <3>1. n \in 1 .. p - 1
      BY <1>0, <2>2
    <3> QED
      BY <3>1 DEF SawEmpty
  <2> QED
    BY <2>1, <2>2
<1>2. \A n \in set : (\A k \in set : n <= k) => n = p
  BY <1>0, <1>1
<1>3. TreeAllows(z, i) = (set = {} \/ \E n \in set : (\A k \in set : n <= k) /\ evaluate_caa_record_set(z[Suffix(i.labels, n)], i))
  BY DEF TreeAllows
<1> HIDE DEF set
<1>4. evaluate_caa_record_set(z[Suffix(i.labels, p)], i) \in BOOLEAN
  BY DEF evaluate_caa_record_set
<1> QED
  BY <1>1, <1>2, <1>3, <1>4
LEMMA NoRecordsAllow ==
    ASSUME NEW z, NEW i \in CaaIds, NEW p \in Places(i), Len(i.labels) <= p, SawEmpty(z, i, p)
    PROVE  TreeAllows(z, i) = TRUE
<1>0. Len(i.labels) \in Nat /\ p \in Nat
  BY CaaAssumption DEF Places
<1>1. 1 .. Len(i.labels) - 1 \subseteq 1 .. p - 1
  BY <1>0
<1> QED
  BY <1>1 DEF TreeAllows, SawEmpty

(* A name read now was seen in one of the two trees, together with all those *)
(* before.                                                                   *)
LEMMA ReadInOneTree ==
    ASSUME NEW i \in CaaIds, NEW p \in 1 .. Len(i.labels) - 1, NEW y, SeenIn(i, p, y)
    PROVE  \E z \in {y, zone} : SawEmpty(z, i, p) /\ z[Suffix(i.labels, p)] = zone[Suffix(i.labels, p)]
<1>1. CASE SawEmpty(zone, i, p)
  BY <1>1
<1>2. CASE SawEmpty(y, i, p) /\ ~SawEmpty(zone, i, p)
  <2>0. Len(i.labels) \in Nat /\ i.labels \in Seq(STRING)
    BY CaaAssumption
  <2>1. PICK n \in 1 .. p - 1 : zone[Suffix(i.labels, n)] # {}
    BY <1>2 DEF SawEmpty
  <2>2. y[Suffix(i.labels, n)] = {}
    BY <1>2, <2>1 DEF SawEmpty
  <2>3. PICK x : \A m \in CaaNames : m # x => y[m] = zone[m]
    BY DEF SeenIn, OneApart
  <2>4. n \in 1 .. Len(i.labels) - 1
    BY <2>0
  <2>5. Suffix(i.labels, n) \in CaaNames /\ Suffix(i.labels, p) \in CaaNames
    BY <2>4, NamesWalked
  <2>6. x = Suffix(i.labels, n)
    BY <2>1, <2>2, <2>3, <2>5
  <2>7. Suffix(i.labels, p) # Suffix(i.labels, n)
    BY <2>0, <2>4, SuffixesDiffer
  <2>8. y[Suffix(i.labels, p)] = zone[Suffix(i.labels, p)]
    BY <2>3, <2>5, <2>6, <2>7
  <2> QED
    BY <1>2, <2>8
<1> QED
  BY <1>1, <1>2 DEF SeenIn

(* The rest of a walk: empty at its end, else a name and the rest after it.  *)
LEMMA RestIsSeq ==
    ASSUME NEW i \in CaaIds, NEW p \in Nat, 1 <= p, p <= Len(i.labels)
    PROVE  /\ Rest(i.labels, p) \in Seq(CaaNames) /\ Len(Rest(i.labels, p)) = Len(i.labels) - p
           /\ \A n \in 1 .. Len(i.labels) - p : Rest(i.labels, p)[n] = Suffix(i.labels, n + p - 1)
<1>0. Len(i.labels) \in Nat
  BY CaaAssumption
<1>1. PICK m \in Nat : m = Len(i.labels) - p
  BY <1>0
<1>2. \A n \in 1 .. m : Suffix(i.labels, n + p - 1) \in CaaNames
  <2>1. \A n \in 1 .. m : n + p - 1 \in 1 .. Len(i.labels) - 1
    BY <1>0, <1>1
  <2> QED
    BY <2>1, NamesWalked
<1>3. Rest(i.labels, p) \in [1 .. m -> CaaNames] /\ \A n \in 1 .. m : Rest(i.labels, p)[n] = Suffix(i.labels, n + p - 1)
  BY <1>1, <1>2 DEF Rest
<1>4. Rest(i.labels, p) \in Seq(CaaNames) /\ Len(Rest(i.labels, p)) = m
  <2>1. PICK r \in [1 .. m -> CaaNames] : r = Rest(i.labels, p)
    BY <1>3
  <2>2. r \in Seq(CaaNames) /\ Len(r) = m
    OBVIOUS
  <2> QED
    BY <2>1, <2>2
<1> QED
  BY <1>1, <1>3, <1>4
LEMMA RestEnds ==
    ASSUME NEW i \in CaaIds, NEW p \in Places(i) PROVE Rest(i.labels, p) = <<>> <=> Len(i.labels) <= p
<1>0. Len(i.labels) \in Nat /\ p \in Nat /\ (p = 1 \/ (1 <= p /\ p <= Len(i.labels)))
  BY CaaAssumption DEF Places
<1>1. CASE p <= Len(i.labels)
  BY <1>0, <1>1, RestIsSeq, EmptySeq
<1>2. CASE ~(p <= Len(i.labels))
  <2>1. 1 .. Len(i.labels) - p = {}
    BY <1>0, <1>2
  <2>2. Rest(i.labels, p) = <<>>
    BY <2>1 DEF Rest
  <2> QED
    BY <1>0, <1>2, <2>2
<1> QED
  BY <1>1, <1>2
LEMMA RestGoesOn ==
    ASSUME NEW i \in CaaIds, NEW p \in 1 .. Len(i.labels) - 1
    PROVE  Head(Rest(i.labels, p)) = Suffix(i.labels, p) /\ Tail(Rest(i.labels, p)) = Rest(i.labels, p + 1)
<1>0. Len(i.labels) \in Nat
  BY CaaAssumption
<1>1. PICK m \in Nat : m = p + 1
  OBVIOUS
<1>2. p \in Nat /\ 1 <= p /\ p <= Len(i.labels) /\ 1 <= m /\ m <= Len(i.labels)
  BY <1>0, <1>1
<1> DEFINE r == Rest(i.labels, p)
           t == Rest(i.labels, m)
<1>3. /\ r \in Seq(CaaNames) /\ Len(r) = Len(i.labels) - p
      /\ \A n \in 1 .. Len(i.labels) - p : r[n] = Suffix(i.labels, n + p - 1)
  BY <1>2, RestIsSeq
<1>4. /\ t \in Seq(CaaNames) /\ Len(t) = Len(i.labels) - m
      /\ \A n \in 1 .. Len(i.labels) - m : t[n] = Suffix(i.labels, n + m - 1)
  BY <1>2, RestIsSeq
<1> HIDE DEF r, t
<1>5. r # <<>>
  BY <1>0, <1>3
<1>6. Tail(r) \in Seq(CaaNames) /\ Len(Tail(r)) = Len(r) - 1 /\ \A n \in 1 .. Len(Tail(r)) : Tail(r)[n] = r[n + 1]
  BY <1>3, <1>5, HeadTailProperties
<1>7. Len(Tail(r)) = Len(t)
  BY <1>0, <1>1, <1>3, <1>4, <1>6
<1>8. ASSUME NEW n \in 1 .. Len(Tail(r)) PROVE Tail(r)[n] = t[n]
  <2>1. n + 1 \in 1 .. Len(i.labels) - p /\ n \in 1 .. Len(i.labels) - m
    BY <1>0, <1>1, <1>3, <1>6
  <2>2. (n + 1) + p - 1 = n + m - 1
    BY <1>1, <2>1
  <2> QED
    BY <1>3, <1>4, <1>6, <2>1, <2>2
<1>9. Tail(r) = t
  BY <1>4, <1>6, <1>7, <1>8, SeqEqual
<1>10. Head(r) = Suffix(i.labels, p)
  <2>1. Head(r) = r[1]
    BY <1>3, <1>5
  <2>2. 1 \in 1 .. Len(i.labels) - p /\ 1 + p - 1 = p
    BY <1>0
  <2> QED
    BY <1>3, <2>1, <2>2
<1> QED
  BY <1>1, <1>9, <1>10 DEF r, t

LEMMA CaaStart == CaaInit => CaaInv
<1> SUFFICES ASSUME CaaInit PROVE CaaInv
  OBVIOUS
<1>1. zone \in Zones
  BY CaaAssumption DEF CaaInit, Zones
<1> QED
  BY <1>1 DEF CaaInit, CaaInv, CaaTypeOK

LEMMA CaaBegins ==
    ASSUME CaaInv, NEW z \in Zones, check_caa_for_order(z) PROVE CaaInv'
<1>1. /\ caa = "idle" /\ zone' = z /\ zchanges' = zchanges /\ caaFailed' = caaFailed
      /\ walk' = [i \in CaaIds |-> [names |-> build_name_walk(i.labels), answer |-> "none"]]
      /\ caa' = IF CaaIdentities = {} THEN "allowed" ELSE "running"
      /\ zverdicts' = [i \in CaaIds |-> {TreeAllows(z, i)}]
  BY DEF check_caa_for_order
<1>2. CaaTypeOK'
  BY <1>1 DEF CaaInv, CaaTypeOK
<1>3. ASSUME NEW i \in CaaIds PROVE WalkOK(i)'
  <2>1. build_name_walk(i.labels) = Rest(i.labels, 1)
    <3>1. Len(i.labels) \in Nat
      BY CaaAssumption
    <3>2. \A n \in 1 .. Len(i.labels) - 1 : n + 1 - 1 = n
      BY <3>1
    <3> QED
      BY <3>2 DEF build_name_walk, Rest
  <2>2. 1 \in Places(i)
    BY DEF Places
  <2>3. walk'[i].names = Rest(i.labels, 1) /\ walk'[i].answer = "none" /\ zverdicts'[i] = {TreeAllows(z, i)}
    BY <1>1, <2>1
  <2>4. OneApart(z, zone')
    BY <1>1 DEF OneApart
  <2>5. SawEmpty(z, i, 1)
    BY DEF SawEmpty
  <2>6. SeenIn(i, 1, z)'
    BY <1>1, <2>3, <2>4, <2>5 DEF SeenIn
  <2> QED
    BY <2>2, <2>3, <2>6 DEF WalkOK
<1>4. caa' # "refused" /\ caa' # "idle" /\ (CaaIdentities # {} => caa' # "allowed") /\ (caa' = "running" => CaaIdentities # {})
  BY <1>1
<1> QED
  BY <1>2, <1>3, <1>4 DEF CaaInv

(* The other walks stay as they are when one goes on.                        *)
LEMMA OtherWalks ==
    ASSUME NEW k \in CaaIds, WalkOK(k), zone' = zone, zchanges' = zchanges, zverdicts' = zverdicts, walk'[k] = walk[k]
    PROVE  WalkOK(k)'
<1>1. \A p \in Places(k), y \in Zones : SeenIn(k, p, y) => SeenIn(k, p, y)'
  BY DEF SeenIn, SawEmpty, OneApart
<1> QED
  BY <1>1 DEF WalkOK

LEMMA AnswerKept ==
    ASSUME CaaInv, NEW i \in CaaIds, NEW a \in {"allowed", "refused"}, Answer(i, a), caa = "running",
           zone' = zone, zchanges' = zchanges, zverdicts' = zverdicts,
           zchanges <= 1 => /\ a = "allowed" => TRUE \in zverdicts[i]
                            /\ a = "refused" => caaFailed' \/ FALSE \in zverdicts[i]
    PROVE  CaaInv'
<1> DEFINE w == [walk EXCEPT ![i].answer = a]
<1>0. CaaTypeOK /\ CaaIdentities # {}
  BY DEF CaaInv
<1>1. /\ walk' = w
      /\ caa' = IF a = "refused" THEN "refused"
                ELSE IF \A k \in CaaIds : w[k].answer = "allowed" THEN "allowed" ELSE caa
  BY DEF Answer
<1>2. /\ walk'[i] = [names |-> walk[i].names, answer |-> a] /\ DOMAIN walk' = CaaIds
      /\ \A k \in CaaIds : k # i => walk'[k] = walk[k]
  BY <1>0, <1>1 DEF CaaTypeOK
<1> HIDE DEF w
<1>3. CaaTypeOK'
  <2>1. walk' = [k \in CaaIds |-> walk'[k]]
    BY <1>0, <1>1 DEF w, CaaTypeOK
  <2>2. \A k \in CaaIds : walk'[k] = [names |-> walk'[k].names, answer |-> walk'[k].answer]
    BY <1>0, <1>2 DEF CaaTypeOK
  <2>3. walk' = [k \in CaaIds |-> [names |-> walk'[k].names, answer |-> walk'[k].answer]]
    BY <2>1, <2>2
  <2>4. \A k \in CaaIds : walk'[k].answer \in {"none", "allowed", "refused"}
    BY <1>0, <1>2 DEF CaaTypeOK
  <2>5. caa' \in {"idle", "running", "allowed", "refused"}
    BY <1>1
  <2> QED
    BY <1>0, <2>3, <2>4, <2>5 DEF CaaTypeOK
<1>4. caa' # "idle" /\ (caa' = "refused" => a = "refused")
  BY <1>1
<1>5. caa' = "allowed" => \A k \in CaaIds : walk'[k].answer = "allowed"
  BY <1>1
<1>6. ASSUME zchanges <= 1, NEW k \in CaaIds PROVE WalkOK(k)'
  <2>1. WalkOK(k)
    BY <1>0, <1>6 DEF CaaInv
  <2>2. CASE k # i
    BY <1>2, <2>1, <2>2, OtherWalks
  <2>3. CASE k = i
    <3>1. walk'[k].answer = a /\ zverdicts'[k] = zverdicts[k]
      BY <1>2, <2>3
    <3>2. a = "allowed" => TRUE \in zverdicts'[k]
      BY <1>6, <2>3
    <3> QED
      BY <3>1, <3>2 DEF WalkOK
  <2> QED
    BY <2>2, <2>3
<1>7. ASSUME zchanges <= 1, caa' = "refused" PROVE caaFailed' \/ \E k \in CaaIds : FALSE \in zverdicts'[k]
  BY <1>4, <1>7
<1> QED
  BY <1>0, <1>3, <1>4, <1>5, <1>6, <1>7 DEF CaaInv

LEMMA WalkStep ==
    ASSUME CaaInv, NEW i \in CaaIds, NEW ok \in BOOLEAN, check_caa(i, ok) PROVE CaaInv'
<1>1. caa = "running" /\ walk[i].answer = "none" /\ zone' = zone /\ zchanges' = zchanges /\ zverdicts' = zverdicts
  BY DEF check_caa
<1>2. CaaTypeOK /\ CaaIdentities # {} /\ Len(i.labels) \in Nat
  BY <1>1, CaaAssumption DEF CaaInv
<1>3. ASSUME zchanges <= 1
      PROVE  \E p \in Places(i), y \in Zones : walk[i].names = Rest(i.labels, p) /\ SeenIn(i, p, y)
  BY <1>1, <1>2, <1>3 DEF CaaInv, WalkOK
<1>4. \A p \in Places(i) : Rest(i.labels, p) = <<>> <=> Len(i.labels) <= p
  BY RestEnds
<1>5. CASE walk[i].names = <<>>
  <2>1. Answer(i, "allowed")
    BY <1>5 DEF check_caa
  <2>2. ASSUME zchanges <= 1 PROVE TRUE \in zverdicts[i]
    <3>1. PICK p \in Places(i), y \in Zones : walk[i].names = Rest(i.labels, p) /\ SeenIn(i, p, y)
      BY <1>3, <2>2
    <3>2. Len(i.labels) <= p
      BY <1>4, <1>5, <3>1
    <3>3. TreeAllows(y, i) = TRUE \/ TreeAllows(zone, i) = TRUE
      BY <3>1, <3>2, NoRecordsAllow DEF SeenIn
    <3> QED
      BY <3>1, <3>3 DEF SeenIn
  <2> QED
    BY <1>1, <2>1, <2>2, AnswerKept
<1>6. CASE walk[i].names # <<>> /\ ~ok
  <2>1. Answer(i, "refused") /\ caaFailed' = (caaFailed \/ ~ok)
    BY <1>6 DEF check_caa
  <2>2. caaFailed'
    BY <1>6, <2>1
  <2> QED
    BY <1>1, <2>1, <2>2, AnswerKept
(* A name with records decides.                                              *)
<1>7. CASE walk[i].names # <<>> /\ ok /\ zone[Head(walk[i].names)] # {}
  <2> DEFINE records == zone[Head(walk[i].names)]
             verdict == evaluate_caa_record_set(records, i)
  <2>1. Answer(i, IF verdict THEN "allowed" ELSE "refused")
    BY <1>7 DEF check_caa
  <2>2. ASSUME zchanges <= 1 PROVE verdict \in zverdicts[i]
    <3>1. PICK p \in Places(i), y \in Zones : walk[i].names = Rest(i.labels, p) /\ SeenIn(i, p, y)
      BY <1>3, <2>2
    <3>2. p \in 1 .. Len(i.labels) - 1
      BY <1>2, <1>4, <1>7, <3>1 DEF Places
    <3>3. Head(walk[i].names) = Suffix(i.labels, p)
      BY <3>1, <3>2, RestGoesOn
    <3>4. PICK z \in {y, zone} : SawEmpty(z, i, p) /\ z[Suffix(i.labels, p)] = zone[Suffix(i.labels, p)]
      BY <3>1, <3>2, ReadInOneTree
    <3>5. z[Suffix(i.labels, p)] = records /\ records # {}
      BY <1>7, <3>3, <3>4
    <3>6. TreeAllows(z, i) = verdict
      BY <3>2, <3>4, <3>5, FirstDecides
    <3> QED
      BY <3>1, <3>4, <3>6 DEF SeenIn
  <2>3. verdict \in BOOLEAN
    BY DEF evaluate_caa_record_set
  <2> HIDE DEF verdict
  <2>4. CASE verdict = TRUE
    <3>1. Answer(i, "allowed")
      BY <2>1, <2>4
    <3> QED
      BY <1>1, <2>2, <2>4, <3>1, AnswerKept
  <2>5. CASE verdict = FALSE
    <3>1. Answer(i, "refused")
      BY <2>1, <2>5
    <3> QED
      BY <1>1, <2>2, <2>5, <3>1, AnswerKept
  <2> QED
    BY <2>3, <2>4, <2>5
(* A name without records leads to its parent.                               *)
<1>8. CASE walk[i].names # <<>> /\ ok /\ zone[Head(walk[i].names)] = {}
  <2>1. walk' = [walk EXCEPT ![i].names = Tail(@)] /\ caa' = caa /\ caaFailed' = (caaFailed \/ ~ok)
    BY <1>8 DEF check_caa
  <2>2. /\ walk'[i] = [names |-> Tail(walk[i].names), answer |-> "none"]
        /\ \A k \in CaaIds : k # i => walk'[k] = walk[k]
    <3>a. PICK t : t = Tail(walk[i].names)
      OBVIOUS
    <3>b. walk[i] = [names |-> walk[i].names, answer |-> walk[i].answer] /\ DOMAIN walk = CaaIds
      BY <1>2 DEF CaaTypeOK
    <3>c. walk' = [walk EXCEPT ![i] = [walk[i] EXCEPT !.names = t]]
      BY <2>1, <3>a
    <3>d. [walk[i] EXCEPT !.names = t] = [names |-> t, answer |-> walk[i].answer]
      BY <3>b
    <3>1. walk'[i] = [names |-> Tail(walk[i].names), answer |-> walk[i].answer]
      BY <3>a, <3>b, <3>c, <3>d
    <3>2. \A k \in CaaIds : k # i => walk'[k] = walk[k]
      BY <1>2, <2>1 DEF CaaTypeOK
    <3> QED
      BY <1>1, <3>1, <3>2
  <2>3. CaaTypeOK'
    <3>1. walk' = [k \in CaaIds |-> walk'[k]]
      BY <1>2, <2>1 DEF CaaTypeOK
    <3>2. ASSUME NEW k \in CaaIds PROVE walk'[k] = [names |-> walk'[k].names, answer |-> walk'[k].answer]
      <4>1. walk[k] = [names |-> walk[k].names, answer |-> walk[k].answer]
        BY <1>2 DEF CaaTypeOK
      <4>2. CASE k = i
        BY <2>2, <4>2
      <4>3. CASE k # i
        BY <2>2, <4>1, <4>3
      <4> QED
        BY <4>2, <4>3
    <3>3. walk' = [k \in CaaIds |-> [names |-> walk'[k].names, answer |-> walk'[k].answer]]
      BY <3>1, <3>2
    <3>4. ASSUME NEW k \in CaaIds PROVE walk'[k].answer \in {"none", "allowed", "refused"}
      <4>1. walk[k].answer \in {"none", "allowed", "refused"}
        BY <1>2 DEF CaaTypeOK
      <4>2. walk'[i].answer = "none"
        BY <2>2
      <4> QED
        BY <2>2, <4>1, <4>2
    <3> QED
      BY <1>1, <1>2, <2>1, <3>3, <3>4 DEF CaaTypeOK
  <2>4. ASSUME zchanges <= 1 PROVE WalkOK(i)'
    <3>1. PICK p \in Places(i), y \in Zones : walk[i].names = Rest(i.labels, p) /\ SeenIn(i, p, y)
      BY <1>3, <2>4
    <3>2. p \in 1 .. Len(i.labels) - 1
      BY <1>2, <1>4, <1>8, <3>1 DEF Places
    <3>3. Head(walk[i].names) = Suffix(i.labels, p) /\ Tail(walk[i].names) = Rest(i.labels, p + 1)
      BY <3>1, <3>2, RestGoesOn
    <3>4. PICK z \in {y, zone} : SawEmpty(z, i, p) /\ z[Suffix(i.labels, p)] = zone[Suffix(i.labels, p)]
      BY <3>1, <3>2, ReadInOneTree
    <3>5. SawEmpty(z, i, p + 1)
      <4>1. z[Suffix(i.labels, p)] = {}
        BY <1>8, <3>3, <3>4
      <4>2. \A n \in 1 .. (p + 1) - 1 : n \in 1 .. p - 1 \/ n = p
        BY <3>2
      <4> QED
        BY <3>4, <4>1, <4>2 DEF SawEmpty
    <3>6. p + 1 \in Places(i)
      BY <1>2, <3>2 DEF Places
    <3>7. SeenIn(i, p + 1, y)
      BY <3>1, <3>4, <3>5 DEF SeenIn
    <3>8. PICK m \in Places(i) : m = p + 1
      BY <3>6
    <3>9. SeenIn(i, m, y)'
      BY <1>1, <3>7, <3>8 DEF SeenIn, SawEmpty, OneApart
    <3>10. walk'[i].names = Rest(i.labels, m) /\ walk'[i].answer = "none"
      BY <2>2, <3>3, <3>8
    <3> QED
      BY <3>9, <3>10 DEF WalkOK
  <2>5. ASSUME zchanges <= 1, NEW k \in CaaIds PROVE WalkOK(k)'
    <3>1. WalkOK(k)
      BY <1>1, <1>2, <2>5 DEF CaaInv
    <3>2. CASE k # i
      BY <1>1, <2>2, <3>1, <3>2, OtherWalks
    <3> QED
      BY <2>4, <2>5, <3>2
  <2> QED
    BY <1>1, <1>2, <2>1, <2>3, <2>5 DEF CaaInv
<1> QED
  BY <1>5, <1>6, <1>7, <1>8

LEMMA ZoneStep ==
    ASSUME CaaInv, NEW name \in CaaNames, NEW records \in RecordSets, ZoneChange(name, records) PROVE CaaInv'
<1>1. PICK z : z = [zone EXCEPT ![name] = records]
  OBVIOUS
<1>2. /\ caa = "running" /\ zone' = z /\ zchanges' = zchanges + 1 /\ walk' = walk /\ caa' = caa /\ caaFailed' = caaFailed
      /\ zverdicts' = [i \in CaaIds |-> zverdicts[i] \union {TreeAllows(z, i)}]
  BY <1>1 DEF ZoneChange
<1>3. CaaTypeOK /\ CaaIdentities # {}
  BY <1>2 DEF CaaInv
<1>4. z \in Zones /\ OneApart(zone, z)
  BY <1>1, <1>3 DEF CaaTypeOK, Zones, OneApart
<1>5. CaaTypeOK'
  BY <1>2, <1>3, <1>4 DEF CaaTypeOK
<1>6. ASSUME zchanges' <= 1, NEW i \in CaaIds PROVE WalkOK(i)'
  <2>1. zchanges = 0
    BY <1>2, <1>3, <1>6 DEF CaaTypeOK
  <2>2. WalkOK(i)
    BY <1>2, <1>3, <2>1 DEF CaaInv
  <2>3. zverdicts'[i] = zverdicts[i] \union {TreeAllows(z, i)}
    BY <1>2
  <2>4. CASE walk[i].answer = "none"
    <3>1. PICK p \in Places(i), y \in Zones : walk[i].names = Rest(i.labels, p) /\ SeenIn(i, p, y)
      BY <2>2, <2>4 DEF WalkOK
    <3>2. PICK old \in Zones : old = zone
      BY <1>3 DEF CaaTypeOK
    <3>3. SawEmpty(old, i, p) /\ TreeAllows(old, i) \in zverdicts[i] /\ OneApart(old, z)
      BY <1>4, <2>1, <3>1, <3>2 DEF SeenIn
    <3>4. zchanges' # 0
      BY <1>2, <2>1
    <3>5. SeenIn(i, p, old)'
      BY <1>2, <2>3, <3>3, <3>4 DEF SeenIn
    <3> QED
      BY <1>2, <2>4, <3>1, <3>5 DEF WalkOK
  <2>5. CASE walk[i].answer # "none"
    BY <1>2, <2>2, <2>3, <2>5 DEF WalkOK
  <2> QED
    BY <2>4, <2>5
<1> QED
  BY <1>2, <1>3, <1>5, <1>6 DEF CaaInv

LEMMA CaaKept == ASSUME CaaInv, [CaaNext]_caaVars PROVE CaaInv'
<1>1. CASE UNCHANGED caaVars
  <2>1. zone' = zone /\ walk' = walk /\ caa' = caa /\ caaFailed' = caaFailed /\ zchanges' = zchanges /\ zverdicts' = zverdicts
    BY <1>1 DEF caaVars
  <2>2. \A k \in CaaIds : WalkOK(k) => WalkOK(k)'
    BY <2>1, OtherWalks
  <2>3. CaaTypeOK'
    BY <2>1 DEF CaaInv, CaaTypeOK
  <2> QED
    BY <2>1, <2>2, <2>3 DEF CaaInv
<1>2. CASE CaaNext
  BY <1>2, CaaBegins, WalkStep, ZoneStep DEF CaaNext, Zones
<1> QED
  BY <1>1, <1>2

LEMMA CaaGives == CaaInv => CaaAsPublished
<1> SUFFICES ASSUME CaaInv, zchanges <= 1
             PROVE  /\ caa = "allowed" /\ CaaIdentities # {} => \A i \in CaaIds : TRUE \in zverdicts[i]
                    /\ caa = "refused" => caaFailed \/ \E i \in CaaIds : FALSE \in zverdicts[i]
  BY DEF CaaAsPublished
<1> QED
  BY DEF CaaInv, WalkOK

(* For any identifiers, challenges, worlds, redirects, addresses that        *)
(* change, CAA records and one change of a zone during a check: what the     *)
(* validators accept was placed at the identifier for this challenge, what   *)
(* is accepted can be proved, http-01 fetches from checked addresses along   *)
(* a chain that begins at the identifier, and the CAA check answers as the   *)
(* tree did at some moment (validation/mod.rs, http01.rs, caa.rs).           *)
THEOREM ControlIsShown == ValSpec /\ CaaSpec => []ControlIsProved
<1>1. ValSpec => []HttpInv
  BY HttpStart, HttpKept, PTL DEF ValSpec
<1>2. CaaSpec => []CaaInv
  BY CaaStart, CaaKept, PTL DEF CaaSpec
<1>3. HttpInv /\ CaaInv => ControlIsProved
  BY HttpGives, CaaGives DEF ControlIsProved
<1> QED
  BY <1>1, <1>2, <1>3, PTL

=============================================================================
