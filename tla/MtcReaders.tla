----------------------------- MODULE MtcReaders -----------------------------
(***************************************************************************)
(* Reading a Merkle log while it grows: the public MTC endpoints           *)
(* (routes/mtc.rs), their administrators' twins (routes/admin/mtc.rs), the *)
(* tiles and signed notes of mtc/tlog.rs, the locked reads of mtc/log.rs,  *)
(* and the client that verifies a standalone certificate against what it   *)
(* reads (akamu-client mtc_client.rs, mtc_verify.rs, akamu-cli mtc.rs).    *)
(*                                                                         *)
(* A log only grows (MtcLog), so it is modelled by its size: leaf i of CA  *)
(* ca is <<"leaf", ca, i, 0>>, an interior node <<"node", left, right>>.   *)
(* Numbers of tile paths are written in groups of three digits, that is in *)
(* base 1000; GroupBase, TileSize and MaxTileLevel stand for 1000, 256, 6. *)
(***************************************************************************)
EXTENDS Integers, Sequences, FiniteSets, SequencesExt, Bitwise

CONSTANTS
    CaConf,        \* [CA id -> [log, key, anchor, contact]]: MtcState of each CA
    DefaultCa,     \* default_ca_id
    CertAt,        \* [certificate -> [ca, idx]]: the leaf of each certificate, idx -1 for none
    GroupBase, TileSize, MaxTileLevel,
    SerialIndex,   \* 2^48: a serial is log_number * SerialIndex + index
    MaxLeaves,     \* bound: [CA -> leaves]
    KeepMarks,     \* max_active_landmarks
    MaxMarks       \* bound: landmarks allocated

VARIABLES
    size,     \* [CA -> leaves in the log]
    rootAt,   \* [CA -> {} or {[size, root]}]: CachedLog.root_cache
    alone,    \* [certificate -> {} or {[start, end]}]: mtc_standalone_der
    marks,    \* [CA -> Seq([size, built, live])]: mtc_landmarks, sequence_no = position - 1
    req,      \* the request in flight
    ans,      \* the latest answer
    client,   \* the `akamu mtc verify' command
    topic     \* bound: what this behaviour's readers ask about
readVars == <<size, rootAt, alone, marks, req, ans, client, topic>>

Topics == {"tree", "proofs", "landmarks", "verify"}
LogCAs == {ca \in DOMAIN CaConf : CaConf[ca].log}

-----------------------------------------------------------------------------
(* Merkle trees.                                                           *)

Leaf(ca, i) == <<"leaf", ca, i, 0>>
Leaves(ca, a, b) == [i \in 1..(b - a) |-> Leaf(ca, a + i - 1)]

(* MTH of RFC 6962, section 2.1: split at the largest power of two smaller  *)
(* than the number of leaves.                                              *)
RECURSIVE Root(_)
Root(h) ==
    IF Len(h) = 1 THEN h[1]
    ELSE LET k == CHOOSE k \in 1..(Len(h) - 1) : \E e \in 0..Len(h) : k = 2^e /\ 2 * k >= Len(h)
         IN  <<"node", Root(SubSeq(h, 1, k)), Root(SubSeq(h, k + 1, Len(h)))>>

RootOf(ca, n) == Root(Leaves(ca, 0, n))

(* The siblings on the way from leaf i (from 0) to the root, lowest first.  *)
RECURSIVE Path(_, _)
Path(i, h) ==
    IF Len(h) = 1 THEN <<>>
    ELSE LET k == CHOOSE k \in 1..(Len(h) - 1) : \E e \in 0..Len(h) : k = 2^e /\ 2 * k >= Len(h)
         IN  IF i < k THEN Append(Path(i, SubSeq(h, 1, k)), Root(SubSeq(h, k + 1, Len(h))))
             ELSE Append(Path(i - k, SubSeq(h, k + 1, Len(h))), Root(SubSeq(h, 1, k)))

(* verify_inclusion_proof of the synta_mtc library (RFC 9162, 2.1.3.2): fn  *)
(* and sn walk up with the path.                                            *)
RECURSIVE Halve(_, _)
Halve(fn, sn) == IF fn % 2 = 1 \/ fn = 0 THEN <<fn, sn>> ELSE Halve(fn \div 2, sn \div 2)
RECURSIVE Climb(_, _, _, _)
Climb(fn, sn, h, p) ==
    IF p = <<>> THEN IF sn = 0 THEN <<h>> ELSE <<>>
    ELSE IF sn = 0 THEN <<>>
    ELSE IF fn % 2 = 1 \/ fn = sn
         THEN LET up == IF fn % 2 = 0 THEN Halve(fn, sn) ELSE <<fn, sn>>
              IN  Climb(up[1] \div 2, up[2] \div 2, <<"node", p[1], h>>, Tail(p))
         ELSE Climb(fn \div 2, sn \div 2, <<"node", h, p[1]>>, Tail(p))
verify_inclusion_proof(i, n, leaf, p, root) == i < n /\ Climb(i, n - 1, leaf, p) = <<root>>

-----------------------------------------------------------------------------
(* mtc/log.rs: each read holds the log's mutex once.                       *)

read_hash_range(ca, start, count) ==
    IF start >= size[ca] THEN <<>>
    ELSE Leaves(ca, start, IF start + count < size[ca] THEN start + count ELSE size[ca])

(* tree_size_and_root: from the cache when it is of this size.              *)
locked_size_and_root(ca) ==
    IF \E c \in rootAt[ca] : c.size = size[ca] THEN CHOOSE c \in rootAt[ca] : TRUE
    ELSE [size |-> size[ca], root |-> RootOf(ca, size[ca])]

proof_and_tree_size(ca, i) == [proof |-> Path(i, Leaves(ca, 0, size[ca])), size |-> size[ca]]

(* One lock: the roots of two prefixes.  The administrators' handler takes  *)
(* the lock for each of them.                                              *)
compute_root_at_size(ca, n) == Root(read_hash_range(ca, 0, n))
(* Mutant: the older root is taken one leaf short. *)
Mutcompute_roots_at_sizes(ca, from, to) ==
    LET h == read_hash_range(ca, 0, to) IN <<Root(SubSeq(h, 1, IF from > 1 THEN from - 1 ELSE 1)), Root(h)>>
compute_roots_at_sizes(ca, from, to) ==
    LET h == read_hash_range(ca, 0, to) IN <<Root(SubSeq(h, 1, from)), Root(h)>>

-----------------------------------------------------------------------------
(* mtc/tlog.rs: tiles.                                                     *)

(* 1 << (BITS - 1 - leading_zeros(n - 1)): the highest bit of n - 1.        *)
HighBit(m) == CHOOSE p \in {2^e : e \in 0..m} : p <= m /\ m < 2 * p
RECURSIVE mth(_)
mth(h) ==
    IF Len(h) = 1 THEN h[1]
    ELSE LET k == HighBit(Len(h) - 1) IN <<"node", mth(SubSeq(h, 1, k)), mth(SubSeq(h, k + 1, Len(h)))>>

(* The groups of a tile number, most significant first; all but the last    *)
(* carry an "x".                                                           *)
RECURSIVE Groups(_)
Groups(n) == IF n < GroupBase THEN <<n>> ELSE Append(Groups(n \div GroupBase), n % GroupBase)
tile_index_path(n) ==
    LET g == Groups(n) IN [i \in 1..Len(g) |-> [x |-> i < Len(g), part |-> g[i]]]

(* The "x" is optional on every component.                                  *)
decode_tile_index(path) == FoldLeft(LAMBDA n, c : n * GroupBase + c.part, 0, path)

(* A path names a level, a number and, for a partial tile, its width.       *)
parse_tile_path(path) ==
    IF path.width # {} /\ (\E w \in path.width : w = 0 \/ w >= TileSize) THEN {}
    ELSE IF path.level > MaxTileLevel \/ path.index = <<>> THEN {}
    ELSE {[level |-> path.level, tile_n |-> decode_tile_index(path.index), width |-> path.width]}

(* Level 0 reads leaf hashes; an entry above is the root of the tile below, *)
(* up to the first that is empty.                                          *)
RECURSIVE tile_entries(_, _, _, _)
tile_entries(ca, level, n, max) ==
    IF level = 0 THEN read_hash_range(ca, n * TileSize, max)
    ELSE LET sub == [i \in 1..max |-> tile_entries(ca, level - 1, n * TileSize + i - 1, TileSize)]
             m == CHOOSE m \in 0..max : (m = max \/ sub[m + 1] = <<>>) /\ \A i \in 1..m : sub[i] # <<>>
         IN  [i \in 1..m |-> mth(sub[i])]

(* A tile that has not the entries asked for does not exist.                *)
get_tile_bytes(ca, t) ==
    LET max == IF t.width = {} THEN TileSize ELSE CHOOSE w \in t.width : TRUE
        e == tile_entries(ca, t.level, t.tile_n, max)
    IN  IF Len(e) = max THEN <<e>> ELSE <<>>

-----------------------------------------------------------------------------
(* mtc/tlog.rs: signed notes.                                              *)

Origin(ca) == <<"oid", ca, "log">>
CosignerName(ca) == <<"oid", ca, "cosigner">>
OperatorRole == "operator"
CosignerRole == "cosigner"

NoteTypes == [ed25519 |-> [operator |-> 1, cosigner |-> 4], ec |-> [operator |-> 2, cosigner |-> 2],
              mldsa44 |-> [operator |-> 6, cosigner |-> 6]]

(* The key id is a hash of name, type and key, except for EC keys, where it *)
(* is one of the key alone.  Other key types have no type byte.             *)
compute_key_id(name, key, role) ==
    IF key \notin DOMAIN NoteTypes THEN {}
    ELSE {[type |-> NoteTypes[key][role], id |-> IF key = "ec" THEN <<"spki", key>> ELSE <<name, NoteTypes[key][role], key>>]}

format_vkey(name, key, role) ==
    {[name |-> name, id |-> k.id, type |-> k.type, key |-> key] : k \in compute_key_id(name, key, role)}

checkpoint_note_body(origin, n, root) == <<origin, n, root>>

(* The message of subtree/v1 (also akamu-mtc-wire): a timestamp is only     *)
(* allowed when the subtree starts at 0.                                   *)
build_ml_dsa_cosigned_message(name, time, origin, start, end, root) ==
    IF time # 0 /\ start # 0 THEN {} ELSE {<<"subtree/v1", name, time, origin, start, end, root>>}

Note(name, key, role, body, time, msg) ==
    {[name |-> name, id |-> k.id, body |-> body, time |-> time, sig |-> [key |-> key, msg |-> msg]] : k \in compute_key_id(name, key, role)}

Now == 7
sign_checkpoint_as_operator(name, key, origin, n, root) ==
    LET body == checkpoint_note_body(origin, n, root)
    IN  IF key = "mldsa44"
        THEN UNION {Note(name, key, OperatorRole, body, Now, m) : m \in build_ml_dsa_cosigned_message(name, Now, origin, 0, n, root)}
        ELSE Note(name, key, OperatorRole, body, 0, <<"note", body>>)

sign_checkpoint_as_cosigner(name, key, origin, n, root) ==
    LET body == checkpoint_note_body(origin, n, root)
    IN  CASE key = "ed25519" -> Note(name, key, CosignerRole, body, Now, <<"cosignature/v1", Now, body>>)
          [] key = "mldsa44" -> UNION {Note(name, key, CosignerRole, body, Now, m) :
                                         m \in build_ml_dsa_cosigned_message(name, Now, origin, 0, n, root)}
          [] OTHER -> Note(name, key, CosignerRole, body, 0, <<"note", body>>)

produce_operator_checkpoint(ca) ==
    LET h == locked_size_and_root(ca) IN sign_checkpoint_as_operator(Origin(ca), CaConf[ca].key, Origin(ca), h.size, h.root)
produce_cosigner_checkpoint(ca) ==
    LET h == locked_size_and_root(ca) IN sign_checkpoint_as_cosigner(CosignerName(ca), CaConf[ca].key, Origin(ca), h.size, h.root)

(* What a monitor does with a note and the key it was given for the log or  *)
(* the cosigner (c2sp.org/tlog-checkpoint, tlog-cosignature).               *)
NoteVerifies(note, vkey) ==
    /\ note.name = vkey.name /\ note.id = vkey.id /\ note.sig.key = vkey.key
    /\ note.sig.msg = CASE vkey.type \in {1, 2} -> <<"note", note.body>>
                        [] vkey.type = 4 -> <<"cosignature/v1", note.time, note.body>>
                        [] OTHER -> <<"subtree/v1", note.name, note.time, note.body[1], 0, note.body[2], note.body[3]>>

-----------------------------------------------------------------------------
(* Requests and answers.  A request comes from anybody (api "acme") or from *)
(* an operator, whose role may confine it to the CA in scope.               *)

Ask(op, api, ca, scope, cert, nums, tile) ==
    [op |-> op, api |-> api, ca |-> ca, scope |-> scope, cert |-> cert, nums |-> nums, tile |-> tile]
NoTile == [entries |-> FALSE, level |-> 0, index |-> <<>>, width |-> {}]
NoAsk == Ask("none", "acme", DefaultCa, {}, "none", <<>>, NoTile)
Reply(status) == [status |-> status, ask |-> NoAsk, of |-> {}, nums |-> <<>>, hashes |-> <<>>, der |-> {}, note |-> {}]
(* The properties look at `ask', the request, and `of', whose data it is.   *)
Found(ca) == [Reply(200) EXCEPT !.of = {ca}]

(* Lazily: the body is only looked at when the CA is there.                 *)
Checked(status, body) == IF status = 200 THEN body ELSE Reply(status)

Known(ca) == ca \in DOMAIN CaConf
PublicLog(r) == IF Known(r.ca) /\ CaConf[r.ca].log THEN 200 ELSE 404

(* An absent ca_id means the default CA, also for an operator confined to   *)
(* another one.                                                            *)
resolve_ca(r) == IF r.scope # {} /\ r.ca \notin r.scope THEN 404 ELSE IF Known(r.ca) THEN 200 ELSE 404
AdminLog(r) == IF resolve_ca(r) = 200 /\ CaConf[r.ca].log THEN 200 ELSE 404

(* Keyed endpoints: a signing key, then a trust anchor id.                  *)
Signer(ca) == IF CaConf[ca].key = "none" \/ ~CaConf[ca].anchor THEN 503 ELSE 200

get_tree_size(r) == Checked(PublicLog(r), [Found(r.ca) EXCEPT !.nums = <<size[r.ca]>>])
admin_get_tree_size(r) == Checked(AdminLog(r), [Found(r.ca) EXCEPT !.nums = <<size[r.ca]>>])

RootReply(ca) == LET h == locked_size_and_root(ca) IN [Found(ca) EXCEPT !.nums = <<h.size>>, !.hashes = <<h.root>>]
get_root(r) == Checked(PublicLog(r), RootReply(r.ca))
admin_get_root(r) == Checked(AdminLog(r), RootReply(r.ca))

(* certificates row: there once its leaf is in the log.                     *)
HasRow(c) == c \in DOMAIN CertAt /\ (CertAt[c].idx < 0 \/ CertAt[c].idx < size[CertAt[c].ca])

(* The index is the certificate's, the log that of the CA in the URL: of a  *)
(* foreign certificate the proof is of another leaf, or fails beyond the    *)
(* end of the log.                                                         *)
get_inclusion_proof(r) ==
    IF PublicLog(r) # 200 \/ ~HasRow(r.cert) \/ CertAt[r.cert].idx < 0 THEN Reply(404)
    ELSE IF CertAt[r.cert].idx >= size[r.ca] THEN Reply(500)
    ELSE LET p == proof_and_tree_size(r.ca, CertAt[r.cert].idx)
         IN  [Found(r.ca) EXCEPT !.nums = <<CertAt[r.cert].idx, p.size>>, !.hashes = p.proof]

(* The administrators' twin reads the log of the certificate's own CA.      *)
admin_get_inclusion_proof(r) ==
    IF ~HasRow(r.cert) THEN Reply(404)
    ELSE LET ca == CertAt[r.cert].ca IN
         IF r.scope # {} /\ ca \notin r.scope THEN Reply(404)
         ELSE IF ~CaConf[ca].log \/ CertAt[r.cert].idx < 0 THEN Reply(404)
         ELSE LET p == proof_and_tree_size(ca, CertAt[r.cert].idx)
              IN  [Found(ca) EXCEPT !.nums = <<CertAt[r.cert].idx, p.size>>, !.hashes = p.proof]

get_standalone(r) ==
    IF PublicLog(r) # 200 \/ ~HasRow(r.cert) THEN Reply(404)
    ELSE IF alone[r.cert] = {} THEN Reply(404)
    ELSE [Found(CertAt[r.cert].ca) EXCEPT !.der = alone[r.cert]]
admin_get_standalone(r) ==
    IF ~HasRow(r.cert) \/ (r.scope # {} /\ CertAt[r.cert].ca \notin r.scope) \/ alone[r.cert] = {} THEN Reply(404)
    ELSE [Found(CertAt[r.cert].ca) EXCEPT !.der = alone[r.cert]]

(* mtc_landmarks: list in order of sequence_no, get_by_seq, get_covering.   *)
list(ca) == {i \in 1..Len(marks[ca]) : marks[ca][i].live}
get_by_seq(ca, seq) == {i \in list(ca) : i - 1 = seq}
get_covering(ca, idx) ==
    LET over == {i \in list(ca) : marks[ca][i].size > idx}
    IN  {i \in over : \A j \in over : marks[ca][i].size <= marks[ca][j].size}
MarkReply(ca, found) ==
    LET i == CHOOSE i \in found : TRUE
    IN  IF marks[ca][i].built THEN [Found(ca) EXCEPT !.nums = <<marks[ca][i].size>>] ELSE Reply(503)

get_landmark_for_cert(r) ==
    IF PublicLog(r) # 200 \/ ~HasRow(r.cert) \/ CertAt[r.cert].idx < 0 THEN Reply(404)
    ELSE LET lm == get_covering(r.ca, CertAt[r.cert].idx)
         IN  IF lm = {} THEN Reply(503) ELSE MarkReply(r.ca, lm)

get_landmark_cert(r) ==
    Checked(PublicLog(r), LET lm == get_by_seq(r.ca, r.nums[1]) IN IF lm = {} THEN Reply(404) ELSE MarkReply(r.ca, lm))
admin_get_landmark_cert(r) ==
    Checked(AdminLog(r), LET lm == get_by_seq(r.ca, r.nums[1]) IN IF lm = {} THEN Reply(404) ELSE MarkReply(r.ca, lm))
get_landmark_cert_details(r) ==
    Checked(AdminLog(r), LET lm == get_by_seq(r.ca, r.nums[1]) IN IF lm = {} THEN Reply(404) ELSE MarkReply(r.ca, lm))

Ordered(S) == SetToSortSeq(S, <)
get_landmarks(r) ==
    Checked(PublicLog(r), [Found(r.ca) EXCEPT !.nums = [k \in 1..Cardinality(list(r.ca)) |-> Ordered(list(r.ca))[k] - 1]])
admin_get_landmarks(r) ==
    Checked(AdminLog(r), [Found(r.ca) EXCEPT !.nums = [k \in 1..Cardinality(list(r.ca)) |-> Ordered(list(r.ca))[k] - 1]])

(* "last count", then a line for each landmark, newest first, then 0.       *)
LandmarkLines(ca) ==
    LET ms == Ordered(list(ca)) IN
    IF ms = <<>> THEN <<>>
    ELSE <<Last(ms) - 1, Len(ms)>> \o [k \in 1..Len(ms) |-> marks[ca][Reverse(ms)[k]].size] \o <<0>>
get_landmark_list(r) == Checked(PublicLog(r), [Found(r.ca) EXCEPT !.nums = LandmarkLines(r.ca)])
admin_get_landmark_list(r) == Checked(AdminLog(r), [Found(r.ca) EXCEPT !.nums = LandmarkLines(r.ca)])

get_tlog_checkpoint(r) ==
    IF PublicLog(r) # 200 THEN Reply(404) ELSE IF Signer(r.ca) # 200 THEN Reply(503)
    ELSE LET n == produce_operator_checkpoint(r.ca) IN IF n = {} THEN Reply(500) ELSE [Found(r.ca) EXCEPT !.note = n]
admin_get_checkpoint(r) ==
    IF AdminLog(r) # 200 THEN Reply(404) ELSE IF Signer(r.ca) # 200 THEN Reply(503)
    ELSE LET n == produce_operator_checkpoint(r.ca) IN IF n = {} THEN Reply(500) ELSE [Found(r.ca) EXCEPT !.note = n]
get_tlog_cosignature(r) ==
    IF PublicLog(r) # 200 THEN Reply(404) ELSE IF Signer(r.ca) # 200 THEN Reply(503)
    ELSE LET n == produce_cosigner_checkpoint(r.ca) IN IF n = {} THEN Reply(500) ELSE [Found(r.ca) EXCEPT !.note = n]
admin_get_cosignature(r) ==
    IF AdminLog(r) # 200 THEN Reply(404) ELSE IF Signer(r.ca) # 200 THEN Reply(503)
    ELSE LET n == produce_cosigner_checkpoint(r.ca) IN IF n = {} THEN Reply(500) ELSE [Found(r.ca) EXCEPT !.note = n]

(* The vkey an operator publishes for the log.                              *)
get_log_list_entry(r) ==
    IF resolve_ca(r) # 200 THEN Reply(404)
    ELSE IF CaConf[r.ca].key = "none" \/ ~CaConf[r.ca].anchor THEN Reply(404)
    ELSE LET v == format_vkey(Origin(r.ca), CaConf[r.ca].key, OperatorRole)
         IN  IF v = {} THEN Reply(500) ELSE IF ~CaConf[r.ca].contact THEN Reply(404) ELSE Found(r.ca)

(* Discovery names the key and the base id.                                 *)
get_discovery(r) == IF PublicLog(r) # 200 THEN Reply(404) ELSE IF Signer(r.ca) # 200 THEN Reply(503) ELSE Found(r.ca)

get_tlog_tile(r) ==
    IF PublicLog(r) # 200 THEN Reply(404)
    ELSE IF r.tile.entries THEN Reply(501)
    ELSE LET t == parse_tile_path(r.tile) IN
         IF t = {} THEN Reply(400)
         ELSE LET e == get_tile_bytes(r.ca, CHOOSE x \in t : TRUE)
              IN  IF e = <<>> THEN Reply(404) ELSE [Found(r.ca) EXCEPT !.hashes = e[1]]

(* The two endpoints that take the log's lock more than once: first the      *)
(* bounds are checked against the size, then the hashes are read.           *)
get_consistency_proof(r) ==
    IF PublicLog(r) # 200 THEN 404
    ELSE IF r.nums[1] = 0 \/ r.nums[2] = 0 \/ r.nums[1] >= r.nums[2] \/ r.nums[2] > size[r.ca] THEN 400 ELSE 200
admin_get_consistency_proof(r) ==
    IF AdminLog(r) # 200 THEN 404
    ELSE IF Len(r.nums) # 2 THEN 400
    ELSE IF r.nums[1] = 0 \/ r.nums[2] = 0 \/ r.nums[1] >= r.nums[2] \/ r.nums[2] > size[r.ca] THEN 400 ELSE 200

(* checked_next_power_of_two. *)
PowerOver(n) == CHOOSE p \in {2^e : e \in 0..n} : n <= p /\ \A q \in {2^e : e \in 0..n} : n <= q => p <= q
get_subtree_root(r) ==
    IF PublicLog(r) # 200 THEN 404
    ELSE IF r.nums[1] >= r.nums[2] THEN 400
    ELSE IF r.nums[1] % PowerOver(r.nums[2] - r.nums[1]) # 0 \/ r.nums[2] > size[r.ca] THEN 400 ELSE 200
admin_get_subtree_root(r) ==
    IF AdminLog(r) # 200 THEN 404
    ELSE IF Len(r.nums) # 2 THEN 400
    ELSE IF r.nums[1] >= r.nums[2] THEN 400
    ELSE IF r.nums[1] % PowerOver(r.nums[2] - r.nums[1]) # 0 \/ r.nums[2] > size[r.ca] THEN 400 ELSE 200

-----------------------------------------------------------------------------
IdleClient == [pc |-> "idle", ca |-> DefaultCa, cert |-> "none", der |-> {}, verdict |-> "none"]

ReadersInit ==
    /\ size = [ca \in LogCAs |-> 1] /\ rootAt = [ca \in LogCAs |-> {}]
    /\ alone = [c \in DOMAIN CertAt |-> {}] /\ marks = [ca \in LogCAs |-> <<>>]
    /\ req = NoAsk /\ ans = Reply(0) /\ client = IdleClient /\ topic \in Topics

(* The writers, as MtcLog shows them: appends, standalone certificates over  *)
(* the whole tree or an aligned subtree, landmarks of the current size.     *)
GrowLog(ca) ==
    /\ size[ca] < MaxLeaves[ca] /\ (ca # DefaultCa => topic \in {"proofs", "verify"})
    /\ size' = [size EXCEPT ![ca] = @ + 1] /\ rootAt' = [rootAt EXCEPT ![ca] = {}]
    /\ UNCHANGED <<alone, marks, req, ans, client, topic>>
BuildStandalone(c) ==
    LET n == size[CertAt[c].ca] IN
    /\ topic \in {"proofs", "verify"} /\ HasRow(c) /\ CertAt[c].idx >= 0 /\ \A d \in DOMAIN CertAt : alone[d] = {}
    /\ \E start \in 0..CertAt[c].idx :
          /\ start % PowerOver(n - start) = 0
          /\ alone' = [alone EXCEPT ![c] = {[start |-> start, end |-> n]}]
    /\ UNCHANGED <<size, rootAt, marks, req, ans, client, topic>>
AllocateLandmark(ca) ==
    LET ms == Append(marks[ca], [size |-> size[ca], built |-> FALSE, live |-> TRUE]) IN
    /\ topic = "landmarks" /\ Len(marks[ca]) < MaxMarks
    /\ \A i \in 1..Len(marks[ca]) : marks[ca][i].size # size[ca]
    /\ marks' = [marks EXCEPT ![ca] = [i \in 1..Len(ms) |-> [ms[i] EXCEPT !.live = i > Len(ms) - KeepMarks]]]
    /\ UNCHANGED <<size, rootAt, alone, req, ans, client, topic>>
BuildLandmark(ca) ==
    /\ \E i \in list(ca) : ~marks[ca][i].built /\ marks' = [marks EXCEPT ![ca][i].built = TRUE]
    /\ UNCHANGED <<size, rootAt, alone, req, ans, client, topic>>

(* One lock, one answer.                                                    *)
Answer(r) ==
    CASE r.op = "tree-size" -> IF r.api = "acme" THEN get_tree_size(r) ELSE admin_get_tree_size(r)
      [] r.op = "root" -> IF r.api = "acme" THEN get_root(r) ELSE admin_get_root(r)
      [] r.op = "checkpoint" -> IF r.api = "acme" THEN get_tlog_checkpoint(r) ELSE admin_get_checkpoint(r)
      [] r.op = "cosignature" -> IF r.api = "acme" THEN get_tlog_cosignature(r) ELSE admin_get_cosignature(r)
      [] r.op = "tile" -> get_tlog_tile(r)
      [] r.op = "inclusion-proof" -> IF r.api = "acme" THEN get_inclusion_proof(r) ELSE admin_get_inclusion_proof(r)
      [] r.op = "standalone" -> IF r.api = "acme" THEN get_standalone(r) ELSE admin_get_standalone(r)
      [] r.op = "landmark-for" -> get_landmark_for_cert(r)
      [] r.op = "landmarks" -> IF r.api = "acme" THEN get_landmarks(r) ELSE admin_get_landmarks(r)
      [] r.op = "landmark-list" -> IF r.api = "acme" THEN get_landmark_list(r) ELSE admin_get_landmark_list(r)
      [] r.op = "landmark-cert" -> IF r.api = "acme" THEN get_landmark_cert(r) ELSE admin_get_landmark_cert(r)
      [] r.op = "landmark-details" -> get_landmark_cert_details(r)
      [] r.op = "log-list-entry" -> get_log_list_entry(r)
      [] OTHER -> get_discovery(r)
ReadsRoot(r) == r.op \in {"root", "checkpoint", "cosignature"}
Serve(r) ==
    /\ ans' = [Answer(r) EXCEPT !.ask = r]
    /\ rootAt' = IF ReadsRoot(r) /\ r.ca \in LogCAs /\ (r.api = "acme" \/ AdminLog(r) = 200) /\ (r.op = "root" \/ Signer(r.ca) = 200)
                 THEN [rootAt EXCEPT ![r.ca] = {locked_size_and_root(r.ca)}] ELSE rootAt
    /\ UNCHANGED <<size, alone, marks, req, client, topic>>

TwoLocks == {"consistency-proof", "subtree-root"}
Bounds(r) ==
    IF r.op = "consistency-proof" THEN IF r.api = "acme" THEN get_consistency_proof(r) ELSE admin_get_consistency_proof(r)
    ELSE IF r.api = "acme" THEN get_subtree_root(r) ELSE admin_get_subtree_root(r)
CheckBounds(r) ==
    /\ req' = IF Bounds(r) = 200 THEN r ELSE NoAsk
    /\ ans' = IF Bounds(r) = 200 THEN Reply(0) ELSE Reply(Bounds(r))
    /\ UNCHANGED <<size, rootAt, alone, marks, topic>>
(* The administrators' consistency handler takes the lock once more, for     *)
(* the newer root.                                                         *)
ReadOlder ==
    /\ req.op = "consistency-proof" /\ req.api = "admin" /\ ans.hashes = <<>>
    /\ ans' = [ans EXCEPT !.hashes = <<compute_root_at_size(req.ca, req.nums[1])>>]
    /\ UNCHANGED <<size, rootAt, alone, marks, req, client, topic>>
ReadHashes ==
    /\ req # NoAsk /\ (req.op = "consistency-proof" /\ req.api = "admin" => ans.hashes # <<>>)
    /\ ans' = [Found(req.ca) EXCEPT !.ask = req,
                 !.nums = req.nums,
                 !.hashes = IF req.op = "subtree-root" THEN <<Root(read_hash_range(req.ca, req.nums[1], req.nums[2] - req.nums[1]))>>
                            ELSE IF req.api = "acme" THEN compute_roots_at_sizes(req.ca, req.nums[1], req.nums[2])
                            ELSE Append(ans.hashes, compute_root_at_size(req.ca, req.nums[2]))]
    /\ req' = NoAsk
    /\ UNCHANGED <<size, rootAt, alone, marks, client, topic>>

-----------------------------------------------------------------------------
(* akamu mtc verify: fetch the standalone certificate, then the root of the  *)
(* subtree its proof names, then compare.                                  *)

(* The serial number of a standalone certificate, and what the client takes  *)
(* from it.                                                                *)
Serial(idx) == SerialIndex + idx
split_serial(n) == <<n % SerialIndex, n \div SerialIndex>>

(* The certificate's MtcProof: start, end and the path inside [start, end).  *)
extract_cert_and_proof(c, d) ==
    [entry_index |-> split_serial(Serial(CertAt[c].idx))[1], start |-> d.start, end |-> d.end,
     path |-> Path(CertAt[c].idx - d.start, Leaves(CertAt[c].ca, d.start, d.end))]
compute_leaf_hash(c) == Leaf(CertAt[c].ca, CertAt[c].idx)

(* An empty path is only good for a tree of one leaf; a proof relative to a  *)
(* later subtree is checked inside it.                                      *)
verify_standalone_inclusion(leaf, p, root) ==
    IF p.path = <<>> THEN p.end - p.start <= 1 /\ leaf = root
    ELSE IF p.start > 0 THEN verify_inclusion_proof(p.entry_index - p.start, p.end - p.start, leaf, p.path, root)
    ELSE verify_inclusion_proof(p.entry_index, p.end, leaf, p.path, root)

standalone_cert(c, ca) ==
    LET a == get_standalone(Ask("standalone", "acme", ca, {}, c, <<>>, NoTile)) IN
    /\ topic = "verify" /\ client = IdleClient /\ req = NoAsk
    /\ ans' = a
    /\ client' = [pc |-> IF a.status = 200 THEN "got" ELSE "idle", ca |-> ca, cert |-> c, der |-> a.der,
                  verdict |-> IF a.status = 200 THEN "none" ELSE "refused"]
    /\ UNCHANGED <<size, rootAt, alone, marks, req, topic>>
ProofOf(cl) == extract_cert_and_proof(cl.cert, CHOOSE d \in cl.der : TRUE)
subtree_root ==
    LET r == Ask("subtree-root", "acme", client.ca, {}, "none", <<ProofOf(client).start, ProofOf(client).end>>, NoTile) IN
    /\ client.pc = "got"
    /\ CheckBounds(r)
    /\ client' = IF Bounds(r) = 200 THEN [client EXCEPT !.pc = "asked"] ELSE [client EXCEPT !.pc = "idle", !.verdict = "refused"]
cmd_mtc_verify ==
    /\ client.pc = "asked" /\ req = NoAsk
    /\ client' = [client EXCEPT !.pc = "idle",
                    !.verdict = IF verify_standalone_inclusion(compute_leaf_hash(client.cert), ProofOf(client), ans.hashes[1])
                                THEN "passed" ELSE "failed"]
    /\ UNCHANGED <<size, rootAt, alone, marks, req, ans, topic>>

-----------------------------------------------------------------------------
(* What is asked (bounds): existing and unknown CAs, operators with and      *)
(* without a scope, sizes up to one beyond the log.                         *)
AskedCAs == DOMAIN CaConf \union {"nowhere"}
Callers == {<<"acme", {}>>} \union {<<"admin", s>> : s \in {{}, {DefaultCa}, {"b"}}}
Sizes == 0..(MaxLeaves[DefaultCa] + 1)
TileAsks ==
    {[entries |-> FALSE, level |-> l, index |-> tile_index_path(n), width |-> w] :
       l \in 0..(MaxTileLevel + 1), n \in 0..(MaxLeaves[DefaultCa] \div TileSize), w \in {{}} \union {{k} : k \in 0..TileSize}}
    \union {NoTile, [NoTile EXCEPT !.entries = TRUE]}
Asks ==
    CASE topic = "tree" ->
           {Ask(op, c[1], ca, c[2], "none", <<>>, NoTile) : op \in {"tree-size", "checkpoint", "cosignature"}, c \in Callers, ca \in AskedCAs}
           \union {Ask("root", c[1], ca, c[2], "none", <<>>, NoTile) : c \in Callers, ca \in {DefaultCa, "nowhere"}}
           \union {Ask("log-list-entry", c[1], ca, c[2], "none", <<>>, NoTile) : c \in {k \in Callers : k[1] = "admin"}, ca \in AskedCAs}
           \union {Ask("discovery", "acme", ca, {}, "none", <<>>, NoTile) : ca \in AskedCAs}
           \union {Ask("tile", "acme", DefaultCa, {}, "none", <<>>, t) : t \in TileAsks}
      [] topic = "landmarks" ->
           {Ask(op, c[1], DefaultCa, c[2], "none", <<n>>, NoTile) : op \in {"landmarks", "landmark-list", "landmark-cert"}, c \in Callers, n \in 0..MaxMarks}
           \union {Ask("landmark-details", "admin", DefaultCa, {}, "none", <<n>>, NoTile) : n \in 0..MaxMarks}
           \union {Ask("landmark-for", "acme", DefaultCa, {}, c, <<>>, NoTile) : c \in DOMAIN CertAt}
      [] topic = "proofs" ->
           {Ask(op, c[1], ca, c[2], x, <<>>, NoTile) : op \in {"inclusion-proof", "standalone"}, c \in Callers, ca \in LogCAs,
                                                      x \in DOMAIN CertAt \union {"none"}}
      [] OTHER -> {}
BoundedAsks ==
    IF topic # "tree" THEN {}
    ELSE {Ask(op, c[1], DefaultCa, c[2], "none", <<i, j>>, NoTile) : op \in TwoLocks, c \in Callers, i \in Sizes, j \in Sizes}
         \union {Ask(op, "admin", DefaultCa, {}, "none", <<>>, NoTile) : op \in TwoLocks}

Idle == req = NoAsk /\ ans = Reply(0) /\ client = IdleClient
(* The reader is done with an answer it may have held for any time.          *)
Forget ==
    /\ req = NoAsk /\ client.pc = "idle" /\ ~Idle
    /\ ans' = Reply(0) /\ client' = IdleClient
    /\ UNCHANGED <<size, rootAt, alone, marks, req, topic>>

ReadersNext ==
    \/ \E ca \in LogCAs : GrowLog(ca)
    \/ AllocateLandmark(DefaultCa) \/ BuildLandmark(DefaultCa)
    \/ \E c \in DOMAIN CertAt : BuildStandalone(c)
    \/ Idle /\ \E r \in Asks : Serve(r)
    \/ Idle /\ \E r \in BoundedAsks : CheckBounds(r) /\ UNCHANGED client
    \/ Forget
    \/ ReadOlder \/ ReadHashes
    \/ \E c \in DOMAIN CertAt, ca \in LogCAs : standalone_cert(c, ca)
    \/ subtree_root \/ cmd_mtc_verify

-----------------------------------------------------------------------------
Given(op) == ans.status = 200 /\ ans.ask.op = op

(* Every root a reader is given, by whichever endpoint and however the log   *)
(* grew between the locks a handler takes, is the root of the prefix whose   *)
(* size is given with it: no two answers can be held against each other     *)
(* (mtc/log.rs tree_size_and_root, compute_roots_at_sizes).                 *)
HeadsAgree ==
    /\ Given("root") => ans.hashes[1] = RootOf(ans.ask.ca, ans.nums[1])
    /\ \A n \in ans.note : n.body[3] = RootOf(ans.ask.ca, n.body[2])
    /\ Given("consistency-proof") => \A i \in {1, 2} : ans.hashes[i] = RootOf(ans.ask.ca, ans.nums[i])
    /\ \A ca \in LogCAs : \A c \in rootAt[ca] : c.size = size[ca] /\ c.root = RootOf(ca, c.size)

(* What a monitor makes of the tiles for a tree of n leaves: at each level   *)
(* the last, partial tile; the levels below it end in one more entry.       *)
TileOf(ca, level, n, w) ==
    get_tlog_tile(Ask("tile", "acme", ca, {}, "none", <<>>,
                      [entries |-> FALSE, level |-> level, index |-> tile_index_path(n), width |-> w])).hashes
RECURSIVE FromTiles(_, _, _, _)
FromTiles(ca, n, level, right) ==
    LET c == n \div TileSize^level
        w == c % TileSize
        part == (IF w = 0 THEN <<>> ELSE TileOf(ca, level, c \div TileSize, {w})) \o right
        up == IF part = <<>> THEN <<>> ELSE <<Root(part)>>
    IN  IF c < TileSize THEN up ELSE FromTiles(ca, n, level + 1, up)

(* A monitor that holds a signed checkpoint rebuilds its root from the hash  *)
(* tiles, however far the log has grown since: the partial tiles of an old   *)
(* size stay available under their paths (mtc/tlog.rs tile_entries,          *)
(* get_tile_bytes, parse_tile_path).                                        *)
TilesRebuildRoot ==
    \A n \in ans.note : n.body[2] < TileSize^(MaxTileLevel + 1) => FromTiles(ans.ask.ca, n.body[2], 0, <<>>) = <<n.body[3]>>

(* A signed checkpoint or cosignature verifies with the key published for    *)
(* its name and role, and not with that of the other role                   *)
(* (mtc/tlog.rs compute_key_id, format_vkey).                               *)
NotesVerify ==
    \A n \in ans.note :
        LET ca == ans.ask.ca
            role == IF ans.ask.op = "checkpoint" THEN OperatorRole ELSE CosignerRole
            vkey(r) == format_vkey(IF r = OperatorRole THEN Origin(ca) ELSE CosignerName(ca), CaConf[ca].key, r)
        IN  \A r \in {OperatorRole, CosignerRole} : (\E v \in vkey(r) : NoteVerifies(n, v)) <=> r = role

RECURSIVE Nodes(_)
Nodes(h) == {h} \union (IF h[1] = "leaf" THEN {} ELSE Nodes(h[2]) \union Nodes(h[3]))

(* The root of a subtree of 2^k leaves is a node of every later tree, so     *)
(* that a certificate's proof relative to it can be continued to any         *)
(* checkpoint (routes/mtc.rs get_subtree_root: the alignment test).         *)
SubtreesAreNodes ==
    Given("subtree-root") /\ PowerOver(ans.nums[2] - ans.nums[1]) = ans.nums[2] - ans.nums[1]
        => ans.hashes[1] \in Nodes(RootOf(ans.ask.ca, size[ans.ask.ca]))

(* An inclusion proof verifies for the certificate's leaf against the root   *)
(* of the tree size given with it.  Through the URL of another CA the        *)
(* public endpoint proves another leaf, so only its own CA's counts.        *)
InclusionVerifies ==
    Given("inclusion-proof") /\ (ans.ask.api = "acme" => ans.ask.ca = CertAt[ans.ask.cert].ca) =>
        LET at == CertAt[ans.ask.cert]
        IN  verify_inclusion_proof(ans.nums[1], ans.nums[2], Leaf(at.ca, at.idx), ans.hashes, RootOf(at.ca, ans.nums[2]))

(* An operator confined to one CA reads nothing of another, whether the      *)
(* request names a CA, a certificate or nothing.                            *)
ScopedReaders == ans.status = 200 /\ ans.ask.scope # {} => ans.of \subseteq ans.ask.scope

(* The k-th line of the landmark list is the tree size of landmark           *)
(* last - k + 1 for every active landmark, although old ones were pruned     *)
(* and new ones allocated since (routes/mtc.rs get_landmark_list).           *)
LinesNameLandmarks ==
    Given("landmark-list") /\ ans.nums # <<>> =>
        \A k \in 1..ans.nums[2] : ans.nums[k + 2] = marks[ans.ask.ca][ans.nums[1] - k + 2].size

(* `akamu mtc verify' passes for a certificate read from its own CA whenever *)
(* that CA has built its standalone certificate, over a subtree or the       *)
(* whole tree, although the log grows between the two requests; it never     *)
(* passes against another CA's log (akamu-client mtc_verify.rs).             *)
VerifyAgrees ==
    client.verdict \in {"passed", "failed"} => (client.verdict = "passed" <=> client.ca = CertAt[client.cert].ca)

-----------------------------------------------------------------------------
(* The validator of MTC test vectors (crates/akamu-mtc-validator): a log    *)
(* and its certificates' subtrees are built from a list of entries          *)
(* (generate.rs), checked against themselves (layer B) and against the      *)
(* tiles and checkpoint another implementation wrote (layer A).  Here a     *)
(* leaf hash is the entry's content, a root the sequence of its leaves.     *)

CONSTANTS
    VectorEntries,   \* [null, key, eku, repeat, certs, seqs]: what an entry may say
    MaxVectorLeaves, \* bound on the log
    MaxInterval,     \* bound on the intervals TwoSubtreesCover looks at
    VectorTile,      \* leaves of a tile, 256
    Word             \* 2^64

ASSUME VectorsAssumption == VectorTile \in Nat \ {0} /\ MaxVectorLeaves < Word /\ MaxInterval < Word

VARIABLES
    vpc,      \* "entry" | "leaf" | "done" | "failed"
    entry,    \* [of, todo]: the entry being written and its repetitions left
    hashes,   \* leaf_hashes
    vcerts,   \* Seq([leaf, cfg, start, end]): ResolvedCert
    seqSize,  \* [checkpoint sequence -> size]: checkpoint_seqs
    awaiting, \* [checkpoint sequence -> set of [cert, prev]]
    ref       \* the reference directory [log, note], once a command reads one
vecVars == <<vpc, entry, hashes, vcerts, seqSize, awaiting, ref>>

CheckpointSeqs == UNION {{e.seqs[i] : i \in DOMAIN e.seqs} \cup {e.certs[i].seq : i \in DOMAIN e.certs} : e \in VectorEntries} \ {""}
NoRef == [log |-> <<>>, note |-> FALSE]

VectorsInit ==
    /\ vpc = "entry" /\ entry = [of |-> CHOOSE e \in VectorEntries : TRUE, todo |-> 0]
    /\ hashes = <<>> /\ vcerts = <<>> /\ ref = NoRef
    /\ seqSize = [s \in CheckpointSeqs |-> 0] /\ awaiting = [s \in CheckpointSeqs |-> {}]

-----------------------------------------------------------------------------
(* generate.rs.                                                            *)

effective_repeat(e) == IF e.repeat = 0 THEN 1 ELSE e.repeat

(* An entry needs a key unless it is null, and every extended key usage it   *)
(* names must be known.                                                    *)
build_extensions(e) == e.eku \in {"none", "known"}
encode_entry(e) ==
    IF e.null THEN <<"null">> ELSE IF e.key = 0 \/ ~build_extensions(e) THEN <<>> ELSE <<"tbs", e.key, e.eku>>

bit_length(x) == CHOOSE b \in 0..x : x < 2^b /\ \A a \in 0..(b - 1) : x >= 2^a
Complement(x) == Word - 1 - x
Interval(s1, e1, s2, e2) == [s1 |-> s1, e1 |-> e1, s2 |-> s2, e2 |-> e2]

(* The at most two subtrees that cover the leaves of a checkpoint.           *)
(* Mutant: the low bits of the start are kept. *)
Mutsubtrees_for_interval(start, end) ==
    LET last == end - 1
        mask == 2^(bit_length(start ^^ last) - 1) - 1
        mid == last & Complement(mask)
    IN  IF end <= start THEN {}
        ELSE IF end - start = 1 THEN {Interval(start, end, start, end)}
        ELSE {Interval(start, mid, mid, end)}
subtrees_for_interval(start, end) ==
    LET last == end - 1
        mask == 2^(bit_length(start ^^ last) - 1) - 1
        mid == last & Complement(mask)
        low == 2^bit_length(Complement(start) & mask) - 1
    IN  IF end <= start THEN {}
        ELSE IF end - start = 1 THEN {Interval(start, end, start, end)}
        ELSE {Interval(start & Complement(low), mid, mid, end)}

StartEntry(e) ==
    /\ vpc = "entry" /\ Len(hashes) + effective_repeat(e) <= MaxVectorLeaves
    /\ entry' = [of |-> e, todo |-> effective_repeat(e)] /\ vpc' = "leaf"
    /\ UNCHANGED <<hashes, vcerts, seqSize, awaiting, ref>>

(* A certificate names its subtree or a checkpoint, and not both.           *)
WellFormed(c) == (c.end # 0) # (c.seq # "")

Resolve(c, p, n) ==
    LET t == CHOOSE t \in subtrees_for_interval(p.prev, n) : TRUE
    IN  IF c.leaf < t.e1 THEN [c EXCEPT !.start = t.s1, !.end = t.e1] ELSE [c EXCEPT !.start = t.s2, !.end = t.e2]

(* One repetition of an entry: its leaf, then its certificates, then the     *)
(* checkpoints after it, which resolve the certificates that wait for them   *)
(* and start the interval of the next.                                     *)
AppendLeaf ==
    /\ vpc = "leaf" /\ encode_entry(entry.of) # <<>> /\ \A i \in DOMAIN entry.of.certs : WellFormed(entry.of.certs[i])
    /\ LET new == entry.of.certs
           due == {entry.of.seqs[i] : i \in DOMAIN entry.of.seqs}
           all == vcerts \o [i \in DOMAIN new |-> [leaf |-> Len(hashes), cfg |-> new[i], start |-> new[i].start, end |-> new[i].end]]
           waiting == [s \in CheckpointSeqs |-> awaiting[s] \cup
                          {[cert |-> Len(vcerts) + i, prev |-> seqSize[s]] : i \in {i \in DOMAIN new : new[i].seq = s}}]
           settled == UNION {waiting[s] : s \in due}
       IN  /\ hashes' = Append(hashes, encode_entry(entry.of))
           /\ seqSize' = [s \in CheckpointSeqs |-> IF s \in due THEN Len(hashes) + 1 ELSE seqSize[s]]
           /\ vcerts' = [i \in DOMAIN all |-> IF \E p \in settled : p.cert = i
                                              THEN Resolve(all[i], CHOOSE p \in settled : p.cert = i, Len(hashes) + 1) ELSE all[i]]
           /\ awaiting' = [s \in CheckpointSeqs |-> IF s \in due THEN {} ELSE waiting[s]]
    /\ entry' = [entry EXCEPT !.todo = @ - 1] /\ vpc' = IF entry.todo = 1 THEN "entry" ELSE "leaf"
    /\ UNCHANGED ref
RefuseEntry ==
    /\ vpc = "leaf" /\ (encode_entry(entry.of) = <<>> \/ \E i \in DOMAIN entry.of.certs : ~WellFormed(entry.of.certs[i]))
    /\ vpc' = "failed" /\ UNCHANGED <<entry, hashes, vcerts, seqSize, awaiting, ref>>

(* A checkpoint somebody waits for and nobody wrote is an error.             *)
build_artifacts ==
    /\ vpc = "entry" /\ hashes # <<>>
    /\ vpc' = IF \E s \in CheckpointSeqs : awaiting[s] # {} THEN "failed" ELSE "done"
    /\ UNCHANGED <<entry, hashes, vcerts, seqSize, awaiting, ref>>

-----------------------------------------------------------------------------
(* validate.rs.                                                            *)

next_power_of_two(n) == CHOOSE p \in {2^k : k \in 0..n} : n <= p /\ \A k \in 0..n : n <= 2^k => p <= 2^k

check_subtree_alignment(c) == c.start < c.end /\ c.start % next_power_of_two(c.end - c.start) = 0

(* B8 takes a slice of the leaves and the leaf's place in it: the run ends   *)
(* there when the subtree leaves the log or starts after the leaf.          *)
Panics(c) == c.start # c.end /\ (c.end > Len(hashes) \/ c.start > c.end \/ c.leaf < c.start)
InclusionProof(c) == c.start = c.end \/ (c.leaf < c.end /\ check_subtree_alignment(c))

(* B1 to B4 and B10 compare the log with itself; B5 and B9 are the alignment. *)
validate_layer_b ==
    IF \E i \in DOMAIN vcerts : Panics(vcerts[i]) THEN "panic"
    ELSE IF \A i \in DOMAIN vcerts :
              LET c == vcerts[i] IN check_subtree_alignment(c) /\ c.end <= Len(hashes) /\ c.leaf \in c.start..(c.end - 1) /\ InclusionProof(c)
    THEN "pass" ELSE "fail"

(* A directory has the full tiles of its log and the partial tile of its     *)
(* last size.                                                              *)
HasTile(dir, i) == (i + 1) * VectorTile <= Len(dir.log)
HasPartial(dir, i, n) == Len(dir.log) = i * VectorTile + n
read_reference_leaf_hashes(dir, n) ==
    IF /\ \A i \in 0..((n \div VectorTile) - 1) : HasTile(dir, i)
       /\ n % VectorTile > 0 => HasPartial(dir, n \div VectorTile, n % VectorTile)
    THEN {SubSeq(dir.log, 1, n)} ELSE {}
read_reference_root(dir) == IF dir.note THEN {dir.log} ELSE {}

validate_layer_a(dir) == read_reference_leaf_hashes(dir, Len(hashes)) = {hashes} /\ read_reference_root(dir) = {hashes}

(* Reference directories of the same log, a shorter or a longer one, one     *)
(* with a differing leaf, and one without its checkpoint.                   *)
ReferenceLogs ==
    {SubSeq(hashes, 1, n) : n \in 0..Len(hashes)} \cup {Append(hashes, <<"null">>)}
    \cup {[hashes EXCEPT ![i] = <<"tbs", 0, "none">>] : i \in DOMAIN hashes}
cmd_validate ==
    /\ vpc = "done" /\ ref = NoRef
    /\ \E log \in ReferenceLogs, note \in BOOLEAN : ref' = [log |-> log, note |-> note]
    /\ UNCHANGED <<vpc, entry, hashes, vcerts, seqSize, awaiting>>

VectorsNext ==
    \/ vpc = "entry" /\ \E e \in VectorEntries : StartEntry(e)
    \/ AppendLeaf \/ RefuseEntry \/ build_artifacts \/ cmd_validate

-----------------------------------------------------------------------------
(* The nodes of the Merkle tree of end leaves that end at end: each is the   *)
(* part after the largest power of two of the one before (RFC 6962).        *)
RECURSIVE RightEdge(_, _)
RightEdge(lo, end) ==
    {lo} \cup IF end - lo <= 1 THEN {} ELSE LET k == CHOOSE k \in 1..(end - lo - 1) : (\E e \in 0..end : k = 2^e) /\ 2 * k >= end - lo
                                             IN  RightEdge(lo + k, end)

(* The interval between two checkpoints is covered by two subtrees that are  *)
(* nodes of the tree, meet, end at the checkpoint, and of which the left one *)
(* is the smallest that holds the interval's start (generate.rs             *)
(* subtrees_for_interval).  Looked at only while the first entry is begun.    *)
TwoSubtreesCover ==
    vpc = "leaf" /\ hashes = <<>> => \A end \in 1..MaxInterval : \A start \in 0..(end - 1) : \A t \in subtrees_for_interval(start, end) :
        /\ t.s2 \in RightEdge(0, t.e2) /\ t.s1 \in RightEdge(0, t.e1) /\ t.e2 = end
        /\ t.s1 <= start /\ (t.e1 = t.s2 \/ end - start = 1)
        /\ \A x \in RightEdge(0, t.e1) : x <= t.s1 \/ start < x

(* A certificate that names a checkpoint has, once the vectors are built, a  *)
(* subtree that proves its leaf, whatever other checkpoints and repetitions  *)
(* come before and after it: layer B passes vectors of such certificates.    *)
CheckpointCertsProve ==
    vpc = "done" =>
        /\ \A i \in DOMAIN vcerts : LET c == vcerts[i] IN
             c.cfg.seq # "" => c.leaf \in c.start..(c.end - 1) /\ c.end <= Len(hashes) /\ c.start \in RightEdge(0, c.end)
        /\ (\A i \in DOMAIN vcerts : vcerts[i].cfg.seq # "") => validate_layer_b = "pass"

(* Layer A passes exactly the directories of the same log: neither a log     *)
(* that goes on after a full tile nor one without its checkpoint.           *)
LayerAExact == ref # NoRef => (validate_layer_a(ref) <=> ref = [log |-> hashes, note |-> TRUE])

(* Generated vectors prove their leaves, and the validator accepts exactly   *)
(* the log they were generated from.                                        *)
VectorsProve == TwoSubtreesCover /\ CheckpointCertsProve /\ LayerAExact

(* Everybody who reads the log, through any endpoint and at any time, sees   *)
(* one tree: heads, tiles, notes, subtrees, proofs, landmarks, the client's  *)
(* own verification and the validator's vectors fit together, within the     *)
(* reader's scope.                                                         *)
ReadersSeeOneTree ==
    /\ HeadsAgree /\ TilesRebuildRoot /\ NotesVerify /\ SubtreesAreNodes /\ InclusionVerifies
    /\ ScopedReaders /\ LinesNameLandmarks /\ VerifyAgrees /\ VectorsProve
=============================================================================
