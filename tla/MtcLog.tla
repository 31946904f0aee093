------------------------------- MODULE MtcLog -------------------------------
(***************************************************************************)
(* The Merkle Tree Certificate side of the server: the disk-backed         *)
(* issuance log of each CA (mtc/log.rs), the finalize requests that append *)
(* to it (routes/finalize.rs), the checkpoint and landmark jobs            *)
(* (mtc/checkpoint.rs, mtc/landmark.rs, each run both by a background task *)
(* and by an administrator's request), the external cosigner               *)
(* (akamu-cosigner), and the hash tiles monitors read (mtc/tlog.rs).       *)
(*                                                                         *)
(* A Merkle root is modelled by the leaves it commits to, and an inclusion *)
(* proof by the leaves of the tree it was generated over together with the *)
(* position it proves: hashes are collision free.  Leaf indices count from *)
(* 0 as in the code, so index i is element i + 1 of the sequence.          *)
(***************************************************************************)
EXTENDS Integers, Sequences, FiniteSets

CONSTANTS
    CAs,               \* CAs with an enabled MTC log
    Certs,             \* certificates that may be issued
    MtcProfile,        \* the certificates issued under an issue_as = "mtc" profile
    Jobs,              \* checkpoint or landmark runs that may overlap
    TaskJobs,          \* those of the background tasks; the others are administrators' requests
    Cosigners,         \* configured external cosigners
    VerifiedCosigners, \* those with cosigner_id_cert_pem configured
    RetentionCount,    \* checkpoint_retention_count, 0 = keep all
    BatchLimit,        \* certificates one checkpoint builds, 500 in the code
    MaxActive,         \* max_active_landmarks, 0 = keep all
    TileWidth,         \* 256 in the code
    MaxRuns,           \* bound: checkpoint and landmark runs started
    NoRow,             \* no database row, no cached root
    NotBuilt           \* a NULL standalone or landmark certificate

NullEntry == "null_entry"
NoIndex == -1

ASSUME MtcAssumption ==
    /\ CAs # {} /\ IsFiniteSet(CAs) /\ IsFiniteSet(Certs)
    /\ TaskJobs \subseteq Jobs
    /\ MtcProfile \subseteq Certs /\ VerifiedCosigners \subseteq Cosigners
    /\ BatchLimit \in Nat \ {0}
    /\ RetentionCount \in Nat /\ MaxActive \in Nat
    /\ TileWidth \in Nat \ {0, 1} /\ MaxRuns \in Nat
    /\ NullEntry \notin Certs

(* The rows of the certificates table, and what is stored in them: a leaf   *)
(* of the log, a cosignature, a standalone certificate.                     *)
LogLeaf == Certs \union {NullEntry}
Cosignature == [by : Cosigners \union {"self"}, start : Nat, end : Nat, tree : Seq(LogLeaf)]
Standalone == [cert : Certs, idx : Nat, start : Nat, end : Nat, tree : Seq(LogLeaf), sigs : SUBSET Cosignature]
CertRow == [ca : CAs, idx : Nat \union {NoIndex}, standalone : Standalone \union {NotBuilt}]
ASSUME NoRowAssumption == NoRow \notin CertRow

VARIABLES
    leaves,     \* [CAs -> Seq]: the log files
    rootCache,  \* [CAs -> NoRow or [size, root]]: CachedLog.root_cache
    fin,        \* [Certs -> finalize request in flight]
    certs,      \* [Certs -> certificates row]
    ckpts,      \* [CAs -> set of mtc_checkpoints rows]
    lmarks,     \* [CAs -> set of mtc_landmarks rows]
    job,        \* [Jobs -> checkpoint or landmark run in flight]
    runs        \* runs started so far (bounded)

mvars == <<leaves, rootCache, fin, certs, ckpts, lmarks, job, runs>>

IdleFin == [pc |-> "idle", ca |-> NoRow, idx |-> NoIndex, der |-> NotBuilt]
IdleJob == [pc |-> "idle"]

TreeSize(ca) == Len(leaves[ca])

(* The leaves [a, b) of the log, which is also what a root over them commits to. *)
Range0(ca, a, b) == SubSeq(leaves[ca], a + 1, b)

BitCeil(n) == CHOOSE p \in {2^k : k \in 0..n} :
                /\ p >= n
                /\ \A q \in {2^k : k \in 0..n} : q >= n => p <= q

SetMax(S) == CHOOSE x \in S : \A y \in S : y <= x

(* open_or_create seeds every new log with the null entry at index 0. *)
Init ==
    /\ leaves = [ca \in CAs |-> <<NullEntry>>]
    /\ rootCache = [ca \in CAs |-> NoRow]
    /\ fin = [c \in Certs |-> IdleFin]
    /\ certs = [c \in Certs |-> NoRow]
    /\ ckpts = [ca \in CAs |-> {}]
    /\ lmarks = [ca \in CAs |-> {}]
    /\ job = [j \in Jobs |-> IdleJob]
    /\ runs = 0

-----------------------------------------------------------------------------
(* Finalize: sign, append to the log, store the row.                        *)

(* A standalone certificate: the claimed leaf index and certificate, the    *)
(* tree [start, end) its proof was generated over, the cosignatures kept.   *)
(* build_standalone_der keeps only cosignatures over exactly that range.    *)
build_standalone_der(c, idx, start, end, tree, cosigs) ==
    [cert |-> c, idx |-> idx, start |-> start, end |-> end, tree |-> tree,
     sigs |-> {g \in cosigs : g.start = start /\ g.end = end}]

(* append_leaf under the log mutex: the index is the old size.              *)
append_leaf(ca, c) ==
    /\ leaves' = [leaves EXCEPT ![ca] = Append(@, c)]
    /\ rootCache' = [rootCache EXCEPT ![ca] = NoRow]

(* Mutant: the size after the append is returned as the index. *)
MutIndexAfter(ca) == TreeSize(ca) + 1

leaf_index(ca) == TreeSize(ca)

(* build_mtc_outputs, append step.  A log failure aborts an MTC-profile      *)
(* request and only drops the index of an ordinary one.                     *)
FinAppend(c, ca) ==
    /\ fin[c].pc = "idle" /\ certs[c] = NoRow
    /\ \A other \in CAs : \A i \in 1..Len(leaves[other]) : leaves[other][i] # c
    /\ append_leaf(ca, c)
    /\ fin' = [fin EXCEPT ![c] = [pc |-> IF c \in MtcProfile THEN "proof" ELSE "persist",
                                  ca |-> ca, idx |-> leaf_index(ca), der |-> NotBuilt]]
    /\ UNCHANGED <<certs, ckpts, lmarks, job, runs>>

FinAppendFails(c, ca) ==
    /\ fin[c].pc = "idle" /\ certs[c] = NoRow
    /\ \A other \in CAs : \A i \in 1..Len(leaves[other]) : leaves[other][i] # c
    /\ c \notin MtcProfile
    /\ fin' = [fin EXCEPT ![c] = [pc |-> "persist", ca |-> ca, idx |-> NoIndex, der |-> NotBuilt]]
    /\ UNCHANGED <<leaves, rootCache, certs, ckpts, lmarks, job, runs>>

(* MTC profile: proof and tree size are read under one lock, after others    *)
(* may have appended; the certificate carries no cosignature.               *)
FinProof(c) ==
    LET f == fin[c] n == TreeSize(f.ca) IN
    /\ f.pc = "proof"
    /\ fin' = [fin EXCEPT ![c].pc = "persist",
                          ![c].der = build_standalone_der(c, f.idx, 0, n, Range0(f.ca, 0, n), {})]
    /\ UNCHANGED <<leaves, rootCache, certs, ckpts, lmarks, job, runs>>

(* persist_certificate commits the row with its log index.                  *)
FinPersist(c) ==
    /\ fin[c].pc = "persist"
    /\ certs' = [certs EXCEPT ![c] = [ca |-> fin[c].ca, idx |-> fin[c].idx, standalone |-> NotBuilt]]
    /\ fin' = [fin EXCEPT ![c] = IF @.der = NotBuilt THEN IdleFin ELSE [@ EXCEPT !.pc = "store"]]
    /\ UNCHANGED <<leaves, rootCache, ckpts, lmarks, job, runs>>

(* The transaction is refused (the order is no longer ready, or the database *)
(* fails): the leaf stays in the log without a certificate row.             *)
FinPersistFails(c) ==
    /\ fin[c].pc = "persist"
    /\ fin' = [fin EXCEPT ![c] = IdleFin]
    /\ UNCHANGED <<leaves, rootCache, certs, ckpts, lmarks, job, runs>>

(* The separate set_mtc_standalone_der after the transaction; its failure is *)
(* only logged, and a predecessor another order replaced ends the request    *)
(* before it.                                                               *)
FinStore(c) ==
    /\ fin[c].pc = "store"
    /\ \/ certs' = [certs EXCEPT ![c].standalone = fin[c].der]
       \/ UNCHANGED certs
    /\ fin' = [fin EXCEPT ![c] = IdleFin]
    /\ UNCHANGED <<leaves, rootCache, ckpts, lmarks, job, runs>>

-----------------------------------------------------------------------------
(* Checkpoints.                                                             *)

LatestCheckpoint(ca) == IF ckpts[ca] = {} THEN 0 ELSE SetMax({k.size : k \in ckpts[ca]})

(* get_pending_standalone has no ca_id condition; of equal indices (of two   *)
(* CAs) any may be among the first BatchLimit.                              *)
get_pending_standalone(maxLeaf) ==
    LET S == {c \in Certs : /\ certs[c] # NoRow
                            /\ certs[c].idx # NoIndex
                            /\ certs[c].idx < maxLeaf
                            /\ certs[c].standalone = NotBuilt}
    IN  {P \in SUBSET S : /\ Cardinality(P) = IF Cardinality(S) < BatchLimit
                                             THEN Cardinality(S) ELSE BatchLimit
                          /\ \A c \in P, d \in S \ P : certs[c].idx <= certs[d].idx}

CkStart(j, ca) ==
    /\ job[j].pc = "idle" /\ runs < MaxRuns
    /\ runs' = runs + 1
    /\ job' = [job EXCEPT ![j] = [pc |-> "ck_latest", ca |-> ca, size |-> TreeSize(ca)]]
    /\ UNCHANGED <<leaves, rootCache, fin, certs, ckpts, lmarks>>

(* The task's tick, once the interval is over, and the forced run.          *)
spawn_checkpoint_task(j, ca) == j \in TaskJobs /\ CkStart(j, ca)
post_force_checkpoint(j, ca) == j \notin TaskJobs /\ CkStart(j, ca)

(* Up to date: the run ends (it still prunes, see CkDone).                  *)
CkLatest(j) ==
    LET k == job[j] prev == LatestCheckpoint(k.ca) IN
    /\ k.pc = "ck_latest"
    /\ job' = [job EXCEPT ![j] =
          IF prev >= k.size THEN [pc |-> "ck_prune", ca |-> k.ca]
          ELSE [pc |-> "ck_pending", ca |-> k.ca, size |-> k.size, prev |-> prev]]
    /\ UNCHANGED <<leaves, rootCache, fin, certs, ckpts, lmarks, runs>>

CkPending(j) ==
    LET k == job[j] IN
    /\ k.pc = "ck_pending"
    /\ \E P \in get_pending_standalone(k.size) :
          job' = [job EXCEPT ![j] = [pc |-> "ck_sign", ca |-> k.ca, size |-> k.size,
                                        prev |-> k.prev, pending |-> P]]
    /\ UNCHANGED <<leaves, rootCache, fin, certs, ckpts, lmarks, runs>>

(* Mutant: the indices of the pending certificates are not looked at. *)
MutUseSubtree(prev, n, pending) ==
    prev > 0 /\ n > prev /\ prev % BitCeil(n - prev) = 0

(* Whether proofs are made relative to the subtree added since the previous  *)
(* checkpoint.                                                              *)
use_subtree(prev, n, pending) ==
    /\ prev > 0 /\ n > prev
    /\ prev % BitCeil(n - prev) = 0
    /\ \A c \in pending : certs[c].idx >= prev

(* Phase 1 under one lock of the log: the size is read again, the root and   *)
(* every proof are computed from the same tree; then checkpoint and          *)
(* signature.  A certificate whose index is beyond this log is skipped.     *)
CkSign(j) ==
    LET k == job[j]
        n == TreeSize(k.ca)
        start == IF use_subtree(k.prev, n, k.pending) THEN k.prev ELSE 0
    IN  /\ k.pc = "ck_sign"
        /\ rootCache' = [rootCache EXCEPT ![k.ca] = [size |-> n, root |-> Range0(k.ca, 0, n)]]
        /\ job' = [job EXCEPT ![j] = [pc |-> "ck_store", ca |-> k.ca, size |-> n, start |-> start,
                                      root |-> Range0(k.ca, 0, n), tree |-> Range0(k.ca, start, n),
                                      todo |-> {c \in k.pending : certs[c].idx < n}]]
        /\ UNCHANGED <<leaves, fin, certs, ckpts, lmarks, runs>>

(* checkpoints::upsert leaves an existing row of that size unchanged.        *)
upsert_checkpoint(rows, row) ==
    IF \E r \in rows : r.size = row.size THEN rows ELSE rows \cup {row}

CkStore(j) ==
    LET k == job[j] IN
    /\ k.pc = "ck_store"
    /\ ckpts' = [ckpts EXCEPT ![k.ca] =
          upsert_checkpoint(@, [size |-> k.size, root |-> k.root, cosigned |-> {}])]
    /\ job' = [job EXCEPT ![j].pc = "ck_cosign"]
    /\ UNCHANGED <<leaves, rootCache, fin, certs, lmarks, runs>>

(* The CA's own cosignature covers the subtree of the proofs.               *)
build_ca_self_cosignature(k) ==
    [by |-> "self", start |-> k.start, end |-> k.size, tree |-> k.tree]

(* akamu-cosigner post_sign signs the whole checkpoint, under an origin made *)
(* from the hash algorithm's OID.                                           *)
post_sign(k, s) ==
    [by |-> s, start |-> 0, end |-> k.size, tree |-> k.root, origin |-> "hash algorithm"]

(* verify_subtree_signature checks the message under the log's own origin.   *)
verify_subtree_signature(sig) == sig.origin = "log"

(* post_to_cosigner verifies only the answer of a configured identity.       *)
accepted(s, sig) == s \in VerifiedCosigners => verify_subtree_signature(sig)

(* gather_cosignatures: any subset of the cosigners answers before the       *)
(* timeout; the accepted answers count.                                     *)
gather_cosignatures(k, up) ==
    {[by |-> s, start |-> 0, end |-> k.size, tree |-> k.root] : s \in {s \in up : accepted(s, post_sign(k, s))}}

(* The CA's own cosignature and the gathered ones.                          *)
cosig_ders(k, up) == {build_ca_self_cosignature(k)} \cup gather_cosignatures(k, up)

(* They are stored with the checkpoint row when it is still there.          *)
upsert_cosignatures(rows, size, sigs) ==
    {IF r.size = size THEN [r EXCEPT !.cosigned = @ \cup {g.by : g \in sigs}] ELSE r : r \in rows}

CkCosign(j) ==
    LET k == job[j] IN
    /\ k.pc = "ck_cosign"
    /\ \E up \in SUBSET Cosigners :
         /\ ckpts' = [ckpts EXCEPT ![k.ca] = upsert_cosignatures(@, k.size, cosig_ders(k, up))]
         /\ job' = [job EXCEPT ![j] = [pc |-> "ck_build", ca |-> k.ca, size |-> k.size,
                                       start |-> k.start, tree |-> k.tree,
                                       sigs |-> cosig_ders(k, up), todo |-> k.todo]]
    /\ UNCHANGED <<leaves, rootCache, fin, certs, lmarks, runs>>

(* Phase 2: one row at a time.                                              *)
CkBuild(j, c) ==
    LET k == job[j] IN
    /\ k.pc = "ck_build" /\ c \in k.todo
    /\ certs' = [certs EXCEPT ![c].standalone =
          build_standalone_der(c, certs[c].idx, k.start, k.size, k.tree, k.sigs)]
    /\ job' = [job EXCEPT ![j].todo = @ \ {c}]
    /\ UNCHANGED <<leaves, rootCache, fin, ckpts, lmarks, runs>>

CkBuilt(j) ==
    /\ job[j].pc = "ck_build" /\ job[j].todo = {}
    /\ job' = [job EXCEPT ![j] = [pc |-> "ck_prune", ca |-> job[j].ca]]
    /\ UNCHANGED <<leaves, rootCache, fin, certs, ckpts, lmarks, runs>>

(* Mutant: ORDER BY tree_size ASC, the newest rows go. *)
MutPrune(rows, keep) ==
    IF keep = 0 THEN rows
    ELSE {r \in rows : Cardinality({s \in rows : s.size < r.size}) < keep}

(* checkpoints::prune_oldest keeps the RetentionCount largest sizes; the     *)
(* cosignatures of a deleted row go with it (foreign key).                  *)
prune_oldest(rows, keep) ==
    IF keep = 0 THEN rows
    ELSE {r \in rows : Cardinality({s \in rows : s.size > r.size}) < keep}

CkDone(j) ==
    LET k == job[j] IN
    /\ k.pc = "ck_prune"
    /\ ckpts' = [ckpts EXCEPT ![k.ca] = prune_oldest(@, RetentionCount)]
    /\ job' = [job EXCEPT ![j] = IdleJob]
    /\ UNCHANGED <<leaves, rootCache, fin, certs, lmarks, runs>>

-----------------------------------------------------------------------------
(* Landmarks.                                                               *)

NextSequenceNo(ca) == IF lmarks[ca] = {} THEN 0 ELSE SetMax({l.seq : l \in lmarks[ca]}) + 1

LatestLandmark(ca) == CHOOSE l \in lmarks[ca] : \A m \in lmarks[ca] : m.seq <= l.seq

(* get_representative_for_landmark: the smallest index, of any CA.           *)
Representatives(size) ==
    LET S == {c \in Certs : certs[c] # NoRow /\ certs[c].idx # NoIndex /\ certs[c].idx < size}
    IN  {c \in S : \A d \in S : certs[c].idx <= certs[d].idx}

LmStart(j, ca) ==
    /\ job[j].pc = "idle" /\ runs < MaxRuns
    /\ runs' = runs + 1
    /\ job' = [job EXCEPT ![j] = [pc |-> "lm_latest", ca |-> ca, size |-> TreeSize(ca)]]
    /\ UNCHANGED <<leaves, rootCache, fin, certs, ckpts, lmarks>>

spawn_landmark_task(j, ca) == j \in TaskJobs /\ LmStart(j, ca)
post_force_landmark(j, ca) == j \notin TaskJobs /\ LmStart(j, ca)

LmLatest(j) ==
    LET k == job[j] IN
    /\ k.pc = "lm_latest"
    /\ job' = [job EXCEPT ![j] =
          IF lmarks[k.ca] # {} /\ LatestLandmark(k.ca).size >= k.size THEN IdleJob
          ELSE [k EXCEPT !.pc = "lm_rep"]]
    /\ UNCHANGED <<leaves, rootCache, fin, certs, ckpts, lmarks, runs>>

LmRepresentative(j) ==
    LET k == job[j] IN
    /\ k.pc = "lm_rep"
    /\ \/ /\ Representatives(k.size) = {}
          /\ job' = [job EXCEPT ![j] = IdleJob]
       \/ \E c \in Representatives(k.size) :
            job' = [job EXCEPT ![j] = [pc |-> "lm_insert", ca |-> k.ca, size |-> k.size, rep |-> c]]
    /\ UNCHANGED <<leaves, rootCache, fin, certs, ckpts, lmarks, runs>>

(* One write transaction: insert the row under the next sequence number      *)
(* unless the size already has a landmark.                                  *)
LmInsert(j) ==
    LET k == job[j] seq == NextSequenceNo(k.ca) IN
    /\ k.pc = "lm_insert"
    /\ IF \E l \in lmarks[k.ca] : l.size = k.size
       THEN /\ job' = [job EXCEPT ![j] = IdleJob]
            /\ UNCHANGED lmarks
       ELSE /\ lmarks' = [lmarks EXCEPT ![k.ca] = @ \cup
                 {[seq |-> seq, size |-> k.size, der |-> NotBuilt]}]
            /\ job' = [job EXCEPT ![j] = [pc |-> "lm_build", ca |-> k.ca, size |-> k.size,
                                          rep |-> k.rep, seq |-> seq]]
    /\ UNCHANGED <<leaves, rootCache, fin, certs, ckpts, runs>>

(* read_hash_range(0, tree_size) of the landmark. *)
LandmarkTree(ca, size) == Range0(ca, 0, size)

build_landmark_cert_der(c, idx, size, tree) ==
    [cert |-> c, idx |-> idx, start |-> 0, end |-> size, tree |-> tree]

(* The leaves [0, size) are read again and the certificate of the            *)
(* representative is built over them; set_cert_der fails when the row was    *)
(* pruned meanwhile, and the run then ends before its own pruning.          *)
LmBuild(j) ==
    LET k == job[j]
        der == build_landmark_cert_der(k.rep, certs[k.rep].idx, k.size, LandmarkTree(k.ca, k.size))
    IN  /\ k.pc = "lm_build"
        /\ lmarks' = [lmarks EXCEPT ![k.ca] =
              {IF l.seq = k.seq THEN [l EXCEPT !.der = der] ELSE l : l \in @}]
        /\ job' = [job EXCEPT ![j] =
              IF \E l \in lmarks[k.ca] : l.seq = k.seq
              THEN [pc |-> "lm_prune", ca |-> k.ca] ELSE IdleJob]
        /\ UNCHANGED <<leaves, rootCache, fin, certs, ckpts, runs>>

prune_landmarks(rows, keep) ==
    IF keep = 0 THEN rows
    ELSE {l \in rows : Cardinality({m \in rows : m.seq > l.seq}) < keep}

LmDone(j) ==
    LET k == job[j] IN
    /\ k.pc = "lm_prune"
    /\ lmarks' = [lmarks EXCEPT ![k.ca] = prune_landmarks(@, MaxActive)]
    /\ job' = [job EXCEPT ![j] = IdleJob]
    /\ UNCHANGED <<leaves, rootCache, fin, certs, ckpts, runs>>

-----------------------------------------------------------------------------
(* The log's readers.                                                       *)

(* tree_size_and_root: the cached root is used only for the size it is of.   *)
tree_size_and_root(ca) ==
    LET n == TreeSize(ca) IN
    IF rootCache[ca] # NoRow /\ rootCache[ca].size = n THEN rootCache[ca]
    ELSE [size |-> n, root |-> Range0(ca, 0, n)]

(* GET root, the operator checkpoint note and the cosigner note.            *)
ReadRoot(ca) ==
    /\ rootCache' = [rootCache EXCEPT ![ca] = tree_size_and_root(ca)]
    /\ UNCHANGED <<leaves, fin, certs, ckpts, lmarks, job, runs>>

(* tile_entries: entry i of a level-0 tile is a leaf, of a higher tile the   *)
(* hash of the tile below it, cut at the end of the log.                    *)
TileEntries(ca, level, n) ==
    LET Below[l \in 0..level, m \in 0..(TileWidth * (n + 1))^(level + 1)] ==
            IF l = 0
            THEN SubSeq(leaves[ca], TileWidth * m + 1,
                        IF TileWidth * (m + 1) < TreeSize(ca) THEN TileWidth * (m + 1) ELSE TreeSize(ca))
            ELSE LET sub == [i \in 1..TileWidth |-> Below[l - 1, TileWidth * m + i - 1]]
                     used == {i \in 1..TileWidth : \A h \in 1..i : sub[h] # <<>>}
                 IN  [i \in 1..Cardinality(used) |-> sub[i]]
    IN  Below[level, n]

(* get_tile_bytes serves a full tile, cacheable, once it has TileWidth entries. *)
FullTileServed(ca, level, n) == Len(TileEntries(ca, level, n)) = TileWidth

(* A process restart: requests, jobs and the root cache are lost; the log    *)
(* file and the database stay.                                              *)
Restart ==
    /\ \/ \E c \in Certs : fin[c] # IdleFin
       \/ \E j \in Jobs : job[j] # IdleJob
       \/ \E ca \in CAs : rootCache[ca] # NoRow
    /\ fin' = [c \in Certs |-> IdleFin]
    /\ job' = [j \in Jobs |-> IdleJob]
    /\ rootCache' = [ca \in CAs |-> NoRow]
    /\ UNCHANGED <<leaves, certs, ckpts, lmarks, runs>>

FinNext(c) ==
    \/ \E ca \in CAs : FinAppend(c, ca) \/ FinAppendFails(c, ca)
    \/ FinProof(c) \/ FinPersist(c) \/ FinPersistFails(c) \/ FinStore(c)

CkNext(j) ==
    \/ \E ca \in CAs : spawn_checkpoint_task(j, ca) \/ post_force_checkpoint(j, ca)
    \/ CkLatest(j) \/ CkPending(j) \/ CkSign(j) \/ CkStore(j) \/ CkCosign(j)
    \/ \E c \in Certs : CkBuild(j, c)
    \/ CkBuilt(j) \/ CkDone(j)

LmNext(j) ==
    \/ \E ca \in CAs : spawn_landmark_task(j, ca) \/ post_force_landmark(j, ca)
    \/ LmLatest(j) \/ LmRepresentative(j) \/ LmInsert(j) \/ LmBuild(j) \/ LmDone(j)

Next ==
    \/ \E c \in Certs : FinNext(c)
    \/ \E j \in Jobs : CkNext(j) \/ LmNext(j)
    \/ \E ca \in CAs : ReadRoot(ca)
    \/ Restart

Spec == Init /\ [][Next]_mvars

-----------------------------------------------------------------------------
(* Properties.                                                              *)

(* Type correctness. *)
TypeOK ==
    /\ \A ca \in CAs : /\ leaves[ca][1] = NullEntry
                       /\ \A i \in 2..TreeSize(ca) : leaves[ca][i] \in Certs
                       /\ \A r \in ckpts[ca] : r.size \in 1..TreeSize(ca)
                       /\ \A l \in lmarks[ca] : l.size \in 1..TreeSize(ca) /\ l.seq \in Nat
    /\ \A c \in Certs : certs[c] # NoRow => certs[c].ca \in CAs
    /\ \A c \in Certs : fin[c].pc \in {"idle", "proof", "persist", "store"}
    /\ runs \in 0..MaxRuns

(* The index stored with a certificate is the place of its own leaf in its   *)
(* CA's log, whatever appends, failed transactions and restarts came         *)
(* between the append and the row (routes/finalize.rs, build_mtc_outputs     *)
(* before persist_certificate).                                             *)
CertIndexIsItsLeaf ==
    \A c \in Certs : certs[c] # NoRow /\ certs[c].idx # NoIndex =>
        certs[c].idx < TreeSize(certs[c].ca) /\ leaves[certs[c].ca][certs[c].idx + 1] = c

(* Every tree head the server signs or caches commits to exactly the first   *)
(* size leaves of the log: produce_checkpoint signs a size and a root of the *)
(* same tree although the log grows while it runs.                          *)
HeadsArePrefixes ==
    \A ca \in CAs :
        /\ \A r \in ckpts[ca] : r.root = Range0(ca, 0, r.size)
        /\ rootCache[ca] # NoRow => rootCache[ca].root = Range0(ca, 0, rootCache[ca].size)
        /\ \A j \in Jobs : job[j].pc = "ck_store" /\ job[j].ca = ca =>
                job[j].root = Range0(ca, 0, job[j].size)

ProofVerifies(s, ca) ==
    /\ s.start <= s.idx /\ s.idx < s.end /\ s.end <= TreeSize(ca)
    /\ s.start = 0 \/ s.start % BitCeil(s.end - s.start) = 0
    /\ s.tree = Range0(ca, s.start, s.end)
    /\ s.tree[s.idx - s.start + 1] = s.cert

(* A stored standalone certificate proves the inclusion of its own leaf in   *)
(* its own CA's log, over an aligned subtree (mtc/checkpoint.rs              *)
(* use_subtree; draft section 4.3.1), whichever of two overlapping           *)
(* checkpoint runs or the finalize request stored it last.                  *)
StandaloneVerifies ==
    \A c \in Certs : certs[c] # NoRow /\ certs[c].standalone # NotBuilt =>
        certs[c].standalone.cert = c /\ ProofVerifies(certs[c].standalone, certs[c].ca)

(* Every cosignature embedded in a standalone certificate is over the very   *)
(* subtree its inclusion proof ends in (mtc/standalone.rs                    *)
(* build_standalone_der).                                                   *)
CosignaturesCoverProof ==
    \A c \in Certs : certs[c] # NoRow /\ certs[c].standalone # NotBuilt =>
        \A g \in certs[c].standalone.sigs : g.tree = certs[c].standalone.tree

(* The newest stored checkpoint never gets smaller: pruning and a slower     *)
(* overlapping run never take a tree head back (db/checkpoints.rs            *)
(* prune_oldest, upsert).                                                   *)
LatestNeverRecedes == \A ca \in CAs : LatestCheckpoint(ca)' >= LatestCheckpoint(ca)

(* Sequence numbers name one landmark each, never go back to a pruned one's  *)
(* number, and no tree size has two (db/landmarks.rs insert).               *)
LandmarkNumbering ==
    \A ca \in CAs : \A l \in lmarks[ca]' \ lmarks[ca] :
        \/ \E m \in lmarks[ca] : m.seq = l.seq /\ m.size = l.size
        \/ \A m \in lmarks[ca] : m.seq < l.seq /\ m.size # l.size

(* A built landmark certificate is the representative's, proved over exactly *)
(* the landmark's tree although the log has grown since (mtc/landmark.rs).   *)
LandmarkVerifies ==
    \A ca \in CAs : \A l \in lmarks[ca] : l.der # NotBuilt =>
        ProofVerifies(l.der, ca) /\ l.der.end = l.size

(* What is served as a full tile, with a day's max-age, does not change    *)
(* when the log grows (mtc/tlog.rs tile_entries, get_tile_bytes), provided  *)
(* that the tiles below it were full too.                                  *)
FullTilesAreFinal ==
    \A ca \in CAs : leaves'[ca] # leaves[ca] =>
        \A l \in 0..1 : FullTileServed(ca, l, 0) /\ TreeSize(ca) >= TileWidth^(l + 1) =>
            TileEntries(ca, l, 0)' = TileEntries(ca, l, 0)

(* Stored and embedded proofs, cosignatures and heads are of this log.      *)
ProofsVerify == TypeOK /\ HeadsArePrefixes /\ StandaloneVerifies /\ CosignaturesCoverProof /\ LandmarkVerifies

(* What readers may have kept of the log is never taken back: the newest    *)
(* checkpoint, the landmarks' numbers and the full tiles.                   *)
LogHistoryStands == [][LatestNeverRecedes /\ LandmarkNumbering /\ FullTilesAreFinal]_mvars
=============================================================================
