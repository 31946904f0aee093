--------------------------------- MODULE Jws ---------------------------------
(***************************************************************************)
(* Signing a request and checking it: account keys of the client           *)
(* (src/crates/akamu-client/src/account.rs), JWKs and flattened JWS        *)
(* (src/crates/akamu-jose/src/jwk.rs, jws.rs), which the server uses too.  *)
(* The signature primitives are external; what is modelled is the encoding *)
(* around them: big-endian numbers and their padding, DER and P1363, DER   *)
(* lengths, SubjectPublicKeyInfo, and which algorithm goes with which key. *)
(***************************************************************************)
EXTENDS Integers, Sequences

CONSTANT JwsSizes   \* how many significant bytes less than the curve's a number may have

ASSUME JwsAssumption == JwsSizes \subseteq Nat

VARIABLES signing, checked    \* what is signed, and what came of it
jwsVars == <<signing, checked>>

Curves == {"P-256", "P-384", "P-521"}
MlDsa == {"ML-DSA-44", "ML-DSA-65", "ML-DSA-87"}
RsaAlgs == {"RS256", "RS384", "RS512", "PS256", "PS384", "PS512"}
KeyTypes == Curves \union MlDsa \union {"RSA", "Ed25519", "Ed448"}
coord_size(curve) == CASE curve = "P-256" -> 32 [] curve = "P-384" -> 48 [] curve = "P-521" -> 66
pub_len(type) ==
    CASE type = "Ed25519" -> 32 [] type = "Ed448" -> 57
      [] type = "ML-DSA-44" -> 1312 [] type = "ML-DSA-65" -> 1952 [] type = "ML-DSA-87" -> 2592
expected_sig_len(alg) == CASE alg = "ML-DSA-44" -> 2420 [] alg = "ML-DSA-65" -> 3309 [] alg = "ML-DSA-87" -> 4627

(* A number is its significant bytes, the first of which may have its top  *)
(* bit set; octets hold it behind some zero bytes.                         *)
Number(size, high, value) == [size |-> size, high |-> high, value |-> value]
Octets(zeros, number) == [zeros |-> zeros, number |-> number]
Length(o) == o.zeros + o.number.size
-----------------------------------------------------------------------------
encode_asn1_length(len) ==
    IF len < 128 THEN <<len>>
    ELSE IF len < 256 THEN <<129, len % 256>>
    ELSE <<130, (len \div 256) % 256, len % 256>>
decode_der_len(buf) ==
    IF buf[1] < 128 THEN {buf[1]}
    ELSE IF buf[1] = 129 THEN {buf[2]}
    ELSE IF buf[1] = 130 THEN {256 * buf[2] + buf[3]}
    ELSE {}
(* Tag, length, value.  A value is taken out if its length is what the     *)
(* length bytes say.                                                       *)
Tlv(value) == [len |-> encode_asn1_length(Length(value)), value |-> value]
TlvSize(tlv) == 1 + Len(tlv.len) + Length(tlv.value)
encode_asn1_integer(o) == Tlv(Octets(IF o.number.size = 0 \/ o.number.high THEN 1 ELSE 0, o.number))
strip_integer(tlv) ==
    IF Length(tlv.value) \in decode_der_len(tlv.len) THEN {Octets(IF tlv.value.zeros > 0 THEN tlv.value.zeros - 1 ELSE 0, tlv.value.number)} ELSE {}
DerSequence(r, s) == [len |-> encode_asn1_length(TlvSize(r) + TlvSize(s)), r |-> r, s |-> s]
strip_tlv(der) == TlvSize(der.r) + TlvSize(der.s) \in decode_der_len(der.len)
p1363_to_der(sig, half) ==
    IF Length(sig.r) + Length(sig.s) # 2 * half THEN {} ELSE {DerSequence(encode_asn1_integer(sig.r), encode_asn1_integer(sig.s))}
Padded(o, half) == Octets(half - o.number.size, o.number)
ecdsa_der_to_p1363(der, half) ==
    IF ~strip_tlv(der) THEN {}
    ELSE {[r |-> Padded(r, half), s |-> Padded(s, half)] :
            r \in {x \in strip_integer(der.r) : Length(x) <= half}, s \in {x \in strip_integer(der.s) : Length(x) <= half}}

-----------------------------------------------------------------------------
(* external: a key pair as the backend has it.  Coordinates come with or   *)
(* without leading zeros; a signature is the canonical DER of two numbers, *)
(* or bytes.                                                               *)
BackendSignature(q) == IF q.type \in Curves THEN DerSequence(encode_asn1_integer(Octets(0, q.r)), encode_asn1_integer(Octets(0, q.s))) ELSE [len |-> IF q.type \in MlDsa THEN expected_sig_len(q.type) ELSE 64]
(* SubjectPublicKeyInfo: bits is what the length byte of its BIT STRING    *)
(* says, key what follows the zero byte.                                   *)
Spki(type, bits, key) == [type |-> type, bits |-> bits, key |-> key]
BackendSpki(q) ==
    CASE q.type \in Curves -> Spki(q.type, 2 + 2 * coord_size(q.type), <<Octets(q.zeros, q.x), Octets(0, q.y)>>)
      [] q.type = "RSA" -> Spki("RSA", 271, "modulus")
      [] OTHER -> Spki(q.type, 1 + pub_len(q.type), pub_len(q.type))

(* alg_for_key, and every algorithm a client may use with an RSA key.      *)
alg_for_key(type) ==
    CASE type = "P-256" -> "ES256" [] type = "P-384" -> "ES384" [] type = "P-521" -> "ES512"
      [] type = "RSA" -> "PS256"
      [] type \in {"Ed25519", "Ed448"} -> "EdDSA"
      [] OTHER -> type
generate_backend_key(type) == IF type \in KeyTypes THEN {type} ELSE {}
(* Only EC and RSA keys are imported, EC ones with full-length numbers.    *)
jwk_private_to_backend_key(type, lengths) ==
    IF type = "RSA" \/ (type \in Curves /\ lengths = {coord_size(type)}) THEN {type} ELSE {}

(* JWKs.                                                                   *)
pad_coord(o, size) == Octets(size - o.number.size, o.number)
from_public_key(spki) ==
    CASE spki.type \in Curves ->
           [kty |-> "EC", crv |-> spki.type, x |-> pad_coord(spki.key[1], coord_size(spki.type)), y |-> pad_coord(spki.key[2], coord_size(spki.type))]
      [] spki.type = "RSA" -> [kty |-> "RSA", n |-> spki.key]
      [] spki.type \in MlDsa -> [kty |-> "AKP", alg |-> spki.type, pub |-> spki.key]
      [] OTHER -> [kty |-> "OKP", crv |-> spki.type, x |-> spki.key]
thumbprint(jwk) == <<"sha256", jwk>>
ec_to_spki_der(jwk) == {Spki(jwk.crv, 2 + 2 * coord_size(jwk.crv), <<jwk.x, jwk.y>>)}
rsa_to_spki_der(jwk) == {Spki("RSA", 271, jwk.n)}
(* The prefix of each curve: its OID, and a BIT STRING of 33 or 57 bytes.  *)
build_okp_spki(jwk) ==
    IF jwk.x # pub_len(jwk.crv) THEN {} ELSE {Spki(jwk.crv, IF jwk.crv = "Ed25519" THEN 33 ELSE 57, jwk.x)}
build_ml_dsa_spki(jwk) == IF jwk.pub # pub_len(jwk.alg) THEN {} ELSE {Spki(jwk.alg, 1 + jwk.pub, jwk.pub)}
to_spki_der(jwk) ==
    CASE jwk.kty = "EC" -> ec_to_spki_der(jwk)
      [] jwk.kty = "RSA" -> rsa_to_spki_der(jwk)
      [] jwk.kty = "OKP" -> build_okp_spki(jwk)
      [] jwk.kty = "AKP" -> build_ml_dsa_spki(jwk)

-----------------------------------------------------------------------------
EcHalf(alg) == CASE alg = "ES256" -> 32 [] alg = "ES384" -> 48 [] alg = "ES512" -> 66
EcAlgs == {"ES256", "ES384", "ES512"}
sign(alg, backend) == IF alg \in EcAlgs THEN ecdsa_der_to_p1363(backend, EcHalf(alg)) ELSE {backend}
(* external: the backend accepts a well-formed key, an algorithm that goes *)
(* with it, and the very signature.  EdDSA is announced as Ed25519.        *)
AlgDer(alg) == IF alg = "EdDSA" THEN "Ed25519" ELSE alg
WellFormed(spki) == spki.type \in {"Ed25519", "Ed448"} \union MlDsa => spki.bits = 1 + spki.key
GoesWith(type, algDer) ==
    \/ type = "RSA" /\ algDer \in RsaAlgs
    \/ type \in Curves /\ algDer = alg_for_key(type)
    \/ type \in MlDsa \union {"Ed25519", "Ed448"} /\ algDer = type
verify_signature(spki, algDer, signature, backend) == WellFormed(spki) /\ GoesWith(spki.type, algDer) /\ signature = backend
verify_with_spki(alg, spki, raw, backend) ==
    IF alg \in MlDsa THEN raw.len = expected_sig_len(alg) /\ verify_signature(spki, alg, raw, backend)
    ELSE \E signature \in IF alg \in EcAlgs THEN p1363_to_der(raw, EcHalf(alg)) ELSE {raw} :
            verify_signature(spki, AlgDer(alg), signature, backend)

(* A client makes a key, or imports the one it made before, registers it   *)
(* and signs; the server keeps the thumbprint and the SPKI of the JWK, and *)
(* checks.                                                                 *)
Numbers(curve) == {Number(coord_size(curve) - d, h, 1) : d \in JwsSizes \cap (0 .. coord_size(curve)), h \in BOOLEAN}
Question(type, alg, r, s, x, zeros, import) ==
    [type |-> type, alg |-> alg, r |-> r, s |-> s, x |-> x, y |-> r, zeros |-> zeros, import |-> import]
Algs(type) == IF type = "RSA" THEN RsaAlgs ELSE {alg_for_key(type)}
CurveQuestions(c) ==
    {Question(c, alg_for_key(c), r, s, x, z, i) : r \in Numbers(c), s \in Numbers(c), x \in Numbers(c), z \in {0, 1}, i \in BOOLEAN}
NoNumber == Number(0, FALSE, 0)
OtherQuestions ==
    {Question(t, a, NoNumber, NoNumber, NoNumber, 0, i) : t \in KeyTypes \ Curves, a \in RsaAlgs \union {"EdDSA"} \union MlDsa, i \in BOOLEAN}
JwsQuestions == (UNION {CurveQuestions(c) : c \in Curves}) \union OtherQuestions
AccountKeys(q) ==
    IF q.import THEN jwk_private_to_backend_key(q.type, IF q.type \in Curves THEN {coord_size(q.type)} ELSE {0}) ELSE generate_backend_key(q.type)
NotSigned == [done |-> FALSE]
Verifies(q) ==
    LET jwk == from_public_key(BackendSpki(q))
        backend == BackendSignature(q)
    IN  \E spki \in to_spki_der(jwk), raw \in sign(q.alg, backend) : verify_with_spki(q.alg, spki, raw, backend)
SignAndVerify(q) ==
    /\ q.alg \in Algs(q.type) /\ AccountKeys(q) # {}
    /\ signing' = q
    /\ checked' = [done |-> TRUE, thumbprint |-> thumbprint(from_public_key(BackendSpki(q))), verified |-> Verifies(q)]
JwsInit == signing = NotSigned /\ checked = NotSigned
JwsNext == ~checked.done /\ \E q \in JwsQuestions : SignAndVerify(q)
JwsSpec == JwsInit /\ [][JwsNext]_jwsVars
-----------------------------------------------------------------------------
(* What a key signs verifies, however many leading zero bytes the numbers  *)
(* of the signature and of the key have, for every type of key but one:    *)
(* the SPKI that is built for Ed448 is malformed, its BIT STRING a byte    *)
(* short (OKP_ED448_SPKI_PREFIX), and its signatures are announced as      *)
(* Ed25519's (JwsFlattened::sign, verify, to_spki_der).                    *)
SignaturesVerify == checked.done => (checked.verified <=> signing.type # "Ed448")

(* The thumbprint, and with it the account, depends on the key alone, not  *)
(* on how the backend writes its coordinates (from_public_key, pad_coord). *)
ThumbprintsAgree ==
    checked.done => checked.thumbprint = thumbprint(from_public_key(BackendSpki([signing EXCEPT !.zeros = 0])))
=============================================================================
