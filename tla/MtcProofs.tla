----------------------------- MODULE MtcProofs -----------------------------
(***************************************************************************)
(* The Merkle tree certificates, for every value of the constants: the     *)
(* issuance log with its certificates, and the cosigner's keys.  The two   *)
(* parts share no state; each has its inductive invariant, introduced      *)
(* where it begins.                                                        *)
(***************************************************************************)
EXTENDS MtcLog, Cosigner, FiniteSetTheorems, WellFoundedInduction, TLAPS

(***************************************************************************)
(* The issuance log, for any number of logs, certificates, overlapping     *)
(* jobs and restarts.                                                      *)
(*                                                                         *)
(* Everything the server keeps about the log (a row's index, a cached or   *)
(* stored head, a proof, a landmark, and what a request or a job has read  *)
(* and not used yet) is a statement about a prefix of a log.  LogInv makes *)
(* that statement for each of them.  A log only grows and a row keeps its  *)
(* index (Extends, RowsKept), so what was true when it was read is true    *)
(* when it is used (lemma Stable): the interleavings need no further       *)
(* argument, and each action is left with the part it changes.             *)
(***************************************************************************)

(* i is the place of c's leaf in a's log, or no place.                     *)
IndexOk(c, a, i) == i = NoIndex \/ (i \in Nat /\ i < Len(leaves[a]) /\ leaves[a][i + 1] = c)

Aligned(start, end) == start = 0 \/ start % BitCeil(end - start) = 0

(* tree is the range [start, end) of some CA's log.                        *)
OfLog(tree, start, end) == \E b \in CAs : end <= Len(leaves[b]) /\ tree = SubSeq(leaves[b], start + 1, end)

(* A standalone certificate for c at index i.                              *)
DerOk(c, i, d) ==
    /\ d \in Standalone /\ d.cert = c /\ d.idx = i
    /\ d.start <= i /\ i < d.end /\ Aligned(d.start, d.end) /\ OfLog(d.tree, d.start, d.end)
    /\ \A g \in d.sigs : g.tree = d.tree

RowOk(c, x) ==
    /\ x \in CertRow /\ IndexOk(c, x.ca, x.idx)
    /\ x.standalone = NotBuilt \/ DerOk(c, x.idx, x.standalone)

(* A row with an index: what a job picks.                                  *)
Indexed(c) == certs[c] # NoRow /\ RowOk(c, certs[c]) /\ certs[c].idx \in Nat

(* A finalize request: until it has persisted there is no row; then the    *)
(* row has the request's CA and index.                                     *)
FinOk(c, f) ==
    \/ f = IdleFin
    \/ /\ f \in [pc : {"proof", "persist", "store"}, ca : CAs, idx : Nat \union {NoIndex}, der : Standalone \union {NotBuilt}]
       /\ IndexOk(c, f.ca, f.idx)
       /\ f.der = NotBuilt \/ DerOk(c, f.idx, f.der)
       /\ f.pc = "proof" => f.idx \in Nat
       /\ f.pc \in {"proof", "persist"} => certs[c] = NoRow
       /\ f.pc = "store" => certs[c] # NoRow /\ certs[c].ca = f.ca /\ certs[c].idx = f.idx /\ f.der # NotBuilt

(* A tree head of ca.                                                      *)
HeadOk(ca, n, root) == n \in 1..Len(leaves[ca]) /\ root = SubSeq(leaves[ca], 1, n)
Checkpoint == [size : Nat, root : Seq(LogLeaf), cosigned : SUBSET (Cosigners \union {"self"})]

(* A landmark: its certificate proves some CA's leaf over this CA's tree.  *)
MarkDer == [cert : Certs, idx : Nat, start : {0}, end : Nat, tree : Seq(LogLeaf)]
MarkDerOk(ca, n, d) ==
    /\ d \in MarkDer /\ d.end = n /\ d.idx < n /\ d.tree = SubSeq(leaves[ca], 1, n)
    /\ \E b \in CAs : d.idx < Len(leaves[b]) /\ leaves[b][d.idx + 1] = d.cert
MarkOk(ca, l) ==
    /\ l \in [seq : Nat, size : Nat, der : MarkDer \union {NotBuilt}]
    /\ l.size \in 1..Len(leaves[ca])
    /\ l.der = NotBuilt \/ MarkDerOk(ca, l.size, l.der)

(* The jobs, by what they have read.                                       *)
Sized(k) == k \in [pc : {"ck_latest", "lm_latest", "lm_rep"}, ca : CAs, size : Nat] /\ k.size \in 1..Len(leaves[k.ca])
Pending(k) == k \in [pc : {"ck_pending"}, ca : CAs, size : Nat, prev : Nat]
ToSign(k) ==
    /\ k \in [pc : {"ck_sign"}, ca : CAs, size : Nat, prev : Nat, pending : SUBSET Certs]
    /\ \A c \in k.pending : Indexed(c)
Span(k) ==
    /\ k.start < k.size /\ Aligned(k.start, k.size)
    /\ k.size \in 1..Len(leaves[k.ca]) /\ k.tree = SubSeq(leaves[k.ca], k.start + 1, k.size)
    /\ \A c \in k.todo : Indexed(c) /\ k.start <= certs[c].idx /\ certs[c].idx < k.size
Signed(k) ==
    /\ k \in [pc : {"ck_store", "ck_cosign"}, ca : CAs, size : Nat, start : Nat,
              root : Seq(LogLeaf), tree : Seq(LogLeaf), todo : SUBSET Certs]
    /\ Span(k) /\ HeadOk(k.ca, k.size, k.root)
Building(k) ==
    /\ k \in [pc : {"ck_build"}, ca : CAs, size : Nat, start : Nat,
              tree : Seq(LogLeaf), sigs : SUBSET Cosignature, todo : SUBSET Certs]
    /\ Span(k) /\ \A g \in k.sigs : g.start = k.start /\ g.end = k.size => g.tree = k.tree
Pruning(k) == k \in [pc : {"ck_prune", "lm_prune"}, ca : CAs]
Marking(k) ==
    /\ \/ k \in [pc : {"lm_insert"}, ca : CAs, size : Nat, rep : Certs]
       \/ k \in [pc : {"lm_build"}, ca : CAs, size : Nat, rep : Certs, seq : Nat]
    /\ k.size \in 1..Len(leaves[k.ca]) /\ Indexed(k.rep) /\ certs[k.rep].idx < k.size
JobOk(k) ==
    k = IdleJob \/ Sized(k) \/ Pending(k) \/ ToSign(k) \/ Signed(k) \/ Building(k) \/ Pruning(k) \/ Marking(k)

(* The logs and the tables as such.                                        *)
Tables ==
    /\ leaves \in [CAs -> Seq(LogLeaf)]
    /\ \A ca \in CAs : Len(leaves[ca]) >= 1 /\ leaves[ca][1] = NullEntry /\ \A i \in 2..Len(leaves[ca]) : leaves[ca][i] \in Certs
    /\ certs \in [Certs -> CertRow \union {NoRow}]
    /\ ckpts \in [CAs -> SUBSET Checkpoint]
    /\ DOMAIN rootCache = CAs /\ rootCache = [ca \in CAs |-> rootCache[ca]]
    /\ DOMAIN fin = Certs /\ fin = [c \in Certs |-> fin[c]]
    /\ DOMAIN lmarks = CAs /\ lmarks = [ca \in CAs |-> lmarks[ca]]
    /\ DOMAIN job = Jobs /\ job = [j \in Jobs |-> job[j]]
    /\ runs \in 0..MaxRuns
RowsOk == \A c \in Certs : certs[c] = NoRow \/ RowOk(c, certs[c])
FinsOk == \A c \in Certs : FinOk(c, fin[c])
CachedOk(ca, x) == x = NoRow \/ (x \in [size : Nat, root : Seq(LogLeaf)] /\ HeadOk(ca, x.size, x.root))
HeadsOk == \A ca \in CAs : CachedOk(ca, rootCache[ca]) /\ \A r \in ckpts[ca] : HeadOk(ca, r.size, r.root)
MarksOk == \A ca \in CAs : /\ \A l \in lmarks[ca] : MarkOk(ca, l)
                           /\ \E b \in Nat : \A l \in lmarks[ca] : l.seq <= b
JobsOk == \A j \in Jobs : JobOk(job[j])

(* A landmark job's row keeps its number: a newer number is never one that *)
(* the job still holds.                                                    *)
Held(ca, q, n) == (\E l \in lmarks[ca] : q <= l.seq) /\ \A l \in lmarks[ca] : l.seq = q => l.size = n
Numbered == \A j \in Jobs : job[j].pc = "lm_build" => Held(job[j].ca, job[j].seq, job[j].size)

LogInv == Tables /\ RowsOk /\ FinsOk /\ HeadsOk /\ MarksOk /\ JobsOk

-----------------------------------------------------------------------------
(* Sequences and sets of naturals.                                         *)

LEMMA SubSeqType ==
    ASSUME NEW S, NEW s \in Seq(S), NEW a \in Nat, NEW b \in Nat, b <= Len(s)
    PROVE  SubSeq(s, a + 1, b) \in Seq(S)
  OBVIOUS

LEMMA SubSeqSame ==
    ASSUME NEW S, NEW s \in Seq(S), NEW t \in Seq(S), NEW a \in Nat, NEW b \in Nat, b <= Len(s), b <= Len(t),
           \A i \in 1..b : s[i] = t[i]
    PROVE  SubSeq(s, a + 1, b) = SubSeq(t, a + 1, b)
  OBVIOUS

LEMMA SubSeqElement ==
    ASSUME NEW S, NEW s \in Seq(S), NEW a \in Nat, NEW b \in Nat, b <= Len(s), NEW i \in Nat, a <= i, i < b
    PROVE  SubSeq(s, a + 1, b)[i - a + 1] = s[i + 1]
  OBVIOUS

(* A set of naturals has a least element.                                  *)
LEMMA Least ==
    ASSUME NEW T, T \subseteq Nat, T # {}
    PROVE  \E x \in T : \A y \in T : ~(y < x)
<1>1. \E x \in T : \A y \in T : ~(<<y, x>> \in OpToRel(<, Nat))  BY NatLessThanWellFounded, WFMin, Zenon
<1>. QED  BY <1>1 DEF OpToRel

(* A bounded set of naturals has a greatest element, the one SetMax names. *)
LEMMA Greatest ==
    ASSUME NEW S, S \subseteq Nat, S # {}, NEW b \in Nat, \A x \in S : x <= b
    PROVE  SetMax(S) \in S /\ \A y \in S : y <= SetMax(S)
<1> DEFINE T == {b - x : x \in S}
<1>1. T \subseteq Nat  OBVIOUS
<1>2. T # {}
  <2>1. PICK x : x \in S  OBVIOUS
  <2>2. b - x \in T  BY <2>1
  <2>. QED  BY <2>2
<1>3. PICK m \in T : \A n \in T : m <= n
  <2> HIDE DEF T
  <2>1. PICK m \in T : \A n \in T : ~(n < m)  BY <1>1, <1>2, Least
  <2>. QED  BY <1>1, <2>1
<1>4. PICK x \in S : m = b - x  OBVIOUS
<1>5. \A y \in S : y <= x
  <2> SUFFICES ASSUME NEW y \in S PROVE y <= x  OBVIOUS
  <2>1. b - y \in T  OBVIOUS
  <2>. QED  BY <1>3, <1>4, <2>1
<1>. QED  BY <1>5 DEF SetMax

(* The newest checkpoint as a function of the rows.                        *)
NewestOf(rows) == IF rows = {} THEN 0 ELSE SetMax({k.size : k \in rows})

LEMMA Newest ==
    ASSUME NEW rows, NEW b \in Nat, \A r \in rows : r.size \in Nat /\ r.size <= b
    PROVE  /\ NewestOf(rows) \in Nat
           /\ \A r \in rows : r.size <= NewestOf(rows)
           /\ rows # {} => \E r \in rows : r.size = NewestOf(rows)
<1> DEFINE S == {k.size : k \in rows}
<1>1. S \subseteq Nat /\ \A x \in S : x <= b  OBVIOUS
<1>2. CASE rows = {}  BY <1>2 DEF NewestOf
<1>3. CASE rows # {}
  <2>1. SetMax(S) \in S /\ \A y \in S : y <= SetMax(S)  BY <1>1, <1>3, Greatest
  <2>. QED  BY <1>1, <1>3, <2>1 DEF NewestOf
<1>. QED  BY <1>2, <1>3

(* The sizes of the checkpoints, and the newest of them.                   *)
LEMMA LatestType ==
    ASSUME Tables, HeadsOk, NEW ca \in CAs
    PROVE  /\ LatestCheckpoint(ca) \in Nat
           /\ \A r \in ckpts[ca] : r.size <= LatestCheckpoint(ca)
           /\ ckpts[ca] # {} => \E r \in ckpts[ca] : r.size = LatestCheckpoint(ca)
<1>0. Len(leaves[ca]) \in Nat  BY DEF Tables
<1>1. PICK b \in Nat : b = Len(leaves[ca])  BY <1>0
<1>2. \A r \in ckpts[ca] : r.size \in Nat /\ r.size <= b  BY <1>1 DEF HeadsOk, HeadOk
<1>3. LatestCheckpoint(ca) = NewestOf(ckpts[ca])  BY DEF LatestCheckpoint, NewestOf
<1>. QED  BY <1>2, <1>3, Newest

-----------------------------------------------------------------------------
(* Logs only grow.                                                         *)
Extends ==
    /\ leaves' \in [CAs -> Seq(LogLeaf)]
    /\ \A ca \in CAs : /\ Len(leaves[ca]) <= Len(leaves'[ca])
                       /\ \A i \in 1..Len(leaves[ca]) : leaves'[ca][i] = leaves[ca][i]
(* An indexed row keeps its index.                                         *)
RowsKept == \A c \in Certs : Indexed(c) => Indexed(c)' /\ certs'[c].idx = certs[c].idx

LEMMA SameRange ==
    ASSUME Tables, Extends, NEW ca \in CAs, NEW a \in Nat, NEW b \in Nat, b <= Len(leaves[ca])
    PROVE  b <= Len(leaves'[ca]) /\ SubSeq(leaves'[ca], a + 1, b) = SubSeq(leaves[ca], a + 1, b)
<1>1. leaves[ca] \in Seq(LogLeaf) /\ leaves'[ca] \in Seq(LogLeaf)  BY DEF Tables, Extends
<1>2. Len(leaves[ca]) <= Len(leaves'[ca]) /\ \A i \in 1..Len(leaves[ca]) : leaves'[ca][i] = leaves[ca][i]  BY DEF Extends
<1> HIDE DEF Extends
<1>. QED  BY <1>1, <1>2, SubSeqSame

LEMMA IndexStable ==
    ASSUME Tables, Extends, NEW c, NEW a \in CAs, NEW i, IndexOk(c, a, i)
    PROVE  IndexOk(c, a, i)'
<1>1. leaves[a] \in Seq(LogLeaf) /\ leaves'[a] \in Seq(LogLeaf)  BY DEF Tables, Extends
<1>. QED  BY <1>1 DEF IndexOk, Extends

LEMMA DerStable ==
    ASSUME Tables, Extends, NEW c, NEW i, NEW d, DerOk(c, i, d)
    PROVE  DerOk(c, i, d)'
<1>1. d.start \in Nat /\ d.end \in Nat  BY DEF DerOk, Standalone
<1>2. OfLog(d.tree, d.start, d.end)'  BY <1>1, SameRange DEF OfLog, DerOk
<1>. QED  BY <1>2 DEF DerOk

LEMMA RowStable ==
    ASSUME Tables, Extends, NEW c, NEW x, RowOk(c, x)
    PROVE  RowOk(c, x)'
<1>1. x.ca \in CAs  BY DEF RowOk, CertRow
<1>. QED  BY <1>1, IndexStable, DerStable DEF RowOk

LEMMA HeadStable ==
    ASSUME Tables, Extends, NEW ca \in CAs, NEW n, NEW root, HeadOk(ca, n, root)
    PROVE  HeadOk(ca, n, root)'
<1>1. n \in Nat /\ n <= Len(leaves[ca]) /\ n >= 1 /\ Len(leaves[ca]) \in Nat /\ Len(leaves'[ca]) \in Nat
  BY DEF HeadOk, Tables, Extends
<1>2. n <= Len(leaves'[ca]) /\ SubSeq(leaves'[ca], 0 + 1, n) = SubSeq(leaves[ca], 0 + 1, n)  BY <1>1, SameRange
<1>. QED  BY <1>1, <1>2 DEF HeadOk

LEMMA MarkStable ==
    ASSUME Tables, Extends, NEW ca \in CAs, NEW l, MarkOk(ca, l)
    PROVE  MarkOk(ca, l)'
<1>1. l.size \in Nat /\ l.size >= 1 /\ l.size <= Len(leaves[ca]) /\ Len(leaves[ca]) \in Nat /\ Len(leaves'[ca]) \in Nat
  BY DEF MarkOk, Tables, Extends
<1>2. l.size <= Len(leaves'[ca]) /\ SubSeq(leaves'[ca], 0 + 1, l.size) = SubSeq(leaves[ca], 0 + 1, l.size)  BY <1>1, SameRange
<1>3. \A d \in MarkDer, b \in CAs : d.idx < Len(leaves[b]) /\ leaves[b][d.idx + 1] = d.cert =>
         d.idx < Len(leaves'[b]) /\ leaves'[b][d.idx + 1] = d.cert
  <2> TAKE d \in MarkDer, b \in CAs
  <2>1. d.idx \in Nat /\ Len(leaves[b]) \in Nat /\ Len(leaves'[b]) \in Nat  BY DEF MarkDer, Tables, Extends
  <2>2. Len(leaves[b]) <= Len(leaves'[b]) /\ \A i \in 1..Len(leaves[b]) : leaves'[b][i] = leaves[b][i]  BY DEF Extends
  <2>. QED  BY <2>1, <2>2
<1>4. ASSUME NEW d, MarkDerOk(ca, l.size, d) PROVE MarkDerOk(ca, l.size, d)'
  <2>1. d \in MarkDer /\ \E b \in CAs : d.idx < Len(leaves[b]) /\ leaves[b][d.idx + 1] = d.cert  BY <1>4 DEF MarkDerOk
  <2>2. \E b \in CAs : d.idx < Len(leaves'[b]) /\ leaves'[b][d.idx + 1] = d.cert  BY <1>3, <2>1
  <2>3. SubSeq(leaves'[ca], 1, l.size) = SubSeq(leaves[ca], 1, l.size)  BY <1>1, <1>2
  <2>4. d.end = l.size /\ d.idx < l.size /\ d.tree = SubSeq(leaves'[ca], 1, l.size)  BY <1>4, <2>3 DEF MarkDerOk
  <2>. QED  BY <2>1, <2>2, <2>4 DEF MarkDerOk
<1>. QED  BY <1>1, <1>2, <1>4 DEF MarkOk

LEMMA JobStable ==
    ASSUME Tables, Extends, RowsKept, NEW k, JobOk(k)
    PROVE  JobOk(k)'
<1>1. \A ca \in CAs : \A n \in 1..Len(leaves[ca]) : n \in 1..Len(leaves'[ca])
  <2> TAKE ca \in CAs
  <2>1. Len(leaves[ca]) \in Nat /\ Len(leaves'[ca]) \in Nat /\ Len(leaves[ca]) <= Len(leaves'[ca])  BY DEF Tables, Extends
  <2>. QED  BY <2>1
<1>2. ASSUME Span(k), k.ca \in CAs, k.size \in Nat, k.start \in Nat, k.todo \subseteq Certs PROVE Span(k)'
  <2>1. k.size <= Len(leaves[k.ca])  BY <1>2 DEF Span, Tables
  <2>2. SubSeq(leaves'[k.ca], k.start + 1, k.size) = SubSeq(leaves[k.ca], k.start + 1, k.size)  BY <1>2, <2>1, SameRange
  <2>3. \A c \in k.todo : Indexed(c)' /\ certs'[c].idx = certs[c].idx  BY <1>2 DEF Span, RowsKept
  <2>. QED  BY <1>1, <1>2, <2>2, <2>3 DEF Span
<1>3. CASE k = IdleJob \/ Pending(k) \/ Pruning(k)  BY <1>3 DEF JobOk, Pending, Pruning
<1>4. CASE Sized(k)  BY <1>1, <1>4 DEF JobOk, Sized
<1>5. CASE ToSign(k)  BY <1>5 DEF JobOk, ToSign, RowsKept
<1>6. CASE Signed(k)
  <2>1. Span(k)' /\ HeadOk(k.ca, k.size, k.root)'  BY <1>2, <1>6, HeadStable DEF Signed
  <2>. QED  BY <1>6, <2>1 DEF JobOk, Signed
<1>7. CASE Building(k)
  <2>1. Span(k)'  BY <1>2, <1>7 DEF Building
  <2>. QED  BY <1>7, <2>1 DEF JobOk, Building
<1>8. CASE Marking(k)
  <2>1. k.rep \in Certs /\ k.ca \in CAs  BY <1>8 DEF Marking
  <2>. QED  BY <1>1, <1>8, <2>1 DEF JobOk, Marking, RowsKept
<1>. QED  BY <1>3, <1>4, <1>5, <1>6, <1>7, <1>8 DEF JobOk

(* A finalize request is as good as it was when its row keeps what the     *)
(* request put there.                                                      *)
Kept(c) == /\ certs[c] = NoRow => certs'[c] = NoRow
           /\ certs[c] # NoRow => certs'[c] # NoRow /\ certs'[c].ca = certs[c].ca /\ certs'[c].idx = certs[c].idx

LEMMA FinStable ==
    ASSUME Tables, Extends, NEW c \in Certs, NEW f, FinOk(c, f), Kept(c)
    PROVE  FinOk(c, f)'
<1>1. CASE f = IdleFin  BY <1>1 DEF FinOk
<1>2. CASE f # IdleFin
  <2>1. f.ca \in CAs /\ f.pc \in {"proof", "persist", "store"}  BY <1>2 DEF FinOk
  <2>2. IndexOk(c, f.ca, f.idx)'  BY <1>2, <2>1, IndexStable DEF FinOk
  <2>3. (f.der = NotBuilt \/ DerOk(c, f.idx, f.der))'  BY <1>2, DerStable DEF FinOk
  <2>. QED  BY <1>2, <2>2, <2>3 DEF FinOk, Kept
<1>. QED  BY <1>1, <1>2

LEMMA SameExtends ==
    ASSUME Tables, leaves' = leaves
    PROVE  Extends
  BY DEF Tables, Extends

LEMMA SameRows ==
    ASSUME Tables, Extends, certs' = certs
    PROVE  RowsKept /\ \A c \in Certs : Kept(c)
<1>1. \A c \in Certs : RowOk(c, certs[c]) => RowOk(c, certs[c])'
  <2> SUFFICES ASSUME NEW c \in Certs, RowOk(c, certs[c]) PROVE RowOk(c, certs[c])'  OBVIOUS
  <2>1. PICK x : x = certs[c]  OBVIOUS
  <2>2. RowOk(c, x)'  BY <2>1, RowStable
  <2>. QED  BY <2>1, <2>2 DEF RowOk
<1>. QED  BY <1>1 DEF RowsKept, Indexed, Kept

(* What one job has read changes, and with it at most the tables of heads  *)
(* and landmarks.                                                          *)
LEMMA JobStep ==
    ASSUME LogInv, NEW j \in Jobs, NEW w, JobOk(w), job' = [job EXCEPT ![j] = w],
           UNCHANGED <<leaves, fin, certs>>, runs' \in 0..MaxRuns,
           ckpts' \in [CAs -> SUBSET Checkpoint],
           rootCache' = [ca \in CAs |-> rootCache'[ca]],
           lmarks' = [ca \in CAs |-> lmarks'[ca]],
           HeadsOk', MarksOk'
    PROVE  LogInv'
<1>1. Tables /\ RowsOk /\ FinsOk /\ JobsOk  BY DEF LogInv
<1>2. Tables'  BY <1>1 DEF Tables
<1>3. RowsOk' /\ FinsOk'
  BY <1>1 DEF RowsOk, RowOk, IndexOk, DerOk, OfLog, FinsOk, FinOk
<1>5. JobsOk'
  <2>1. Extends /\ RowsKept  BY <1>1, SameExtends, SameRows
  <2> SUFFICES ASSUME NEW i \in Jobs PROVE JobOk(job[i])'  BY DEF JobsOk
  <2>2. PICK k : k = job'[i]  OBVIOUS
  <2>3. k = w \/ k = job[i]  BY <1>1, <2>2 DEF Tables
  <2>4. JobOk(k)  BY <1>1, <2>3 DEF JobsOk
  <2>5. JobOk(k)'  BY <1>1, <2>1, <2>4, JobStable
  <2>. QED  BY <2>2, <2>5
<1>. QED  BY <1>2, <1>3, <1>5 DEF LogInv

(* A step of one finalize request: its log may grow and its row change.    *)
LEMMA FinStep ==
    ASSUME LogInv, Extends, NEW c \in Certs, NEW f, fin' = [fin EXCEPT ![c] = f], FinOk(c, f)',
           \A ca \in CAs : \A i \in 2..Len(leaves'[ca]) : leaves'[ca][i] \in Certs,
           certs' \in [Certs -> CertRow \union {NoRow}],
           \A d \in Certs \ {c} : certs'[d] = certs[d],
           certs'[c] = NoRow \/ RowOk(c, certs[c])',
           Indexed(c) => Indexed(c)' /\ certs'[c].idx = certs[c].idx,
           rootCache' = [ca \in CAs |-> rootCache'[ca]],
           \A ca \in CAs : rootCache'[ca] \in {NoRow, rootCache[ca]},
           UNCHANGED <<ckpts, lmarks, job, runs>>
    PROVE  LogInv'
<1>1. Tables /\ RowsOk /\ FinsOk /\ HeadsOk /\ MarksOk /\ JobsOk  BY DEF LogInv
<1>2. Tables'
  <2>1. \A ca \in CAs : leaves[ca] \in Seq(LogLeaf) /\ leaves'[ca] \in Seq(LogLeaf)  BY <1>1 DEF Tables, Extends
  <2>2. \A ca \in CAs : Len(leaves'[ca]) >= 1 /\ leaves'[ca][1] = NullEntry
    <3> TAKE ca \in CAs
    <3>1. Len(leaves[ca]) \in Nat /\ Len(leaves'[ca]) \in Nat /\ Len(leaves[ca]) >= 1 /\ leaves[ca][1] = NullEntry
      BY <1>1, <2>1 DEF Tables
    <3>2. Len(leaves[ca]) <= Len(leaves'[ca]) /\ \A i \in 1..Len(leaves[ca]) : leaves'[ca][i] = leaves[ca][i]  BY DEF Extends
    <3>3. 1 \in 1..Len(leaves[ca])  BY <3>1
    <3>. QED  BY <3>1, <3>2, <3>3
  <2>3. fin' = [d \in Certs |-> fin'[d]] /\ DOMAIN fin' = Certs  BY <1>1 DEF Tables
  <2>. QED  BY <1>1, <2>2, <2>3 DEF Tables, Extends
<1>3. \A d \in Certs : \A x : RowOk(d, x) => RowOk(d, x)'  BY <1>1, RowStable
<1>4. RowsOk'
  <2> SUFFICES ASSUME NEW d \in Certs PROVE certs'[d] = NoRow \/ RowOk(d, certs[d])'  BY DEF RowsOk
  <2>1. CASE d = c  BY <2>1
  <2>2. CASE d # c
    <3>1. PICK x : x = certs[d] /\ x = certs'[d]  BY <2>2
    <3>2. x = NoRow \/ RowOk(d, x)'  BY <1>1, <1>3, <3>1 DEF RowsOk
    <3>. QED  BY <3>1, <3>2
  <2>. QED  BY <2>1, <2>2
<1>5. RowsKept
  <2> SUFFICES ASSUME NEW d \in Certs, Indexed(d) PROVE Indexed(d)' /\ certs'[d].idx = certs[d].idx  BY DEF RowsKept
  <2>1. CASE d = c  BY <2>1
  <2>2. CASE d # c
    <3>1. certs'[d] = certs[d]  BY <2>2
    <3>2. RowOk(d, certs[d])'  BY <1>4, <3>1 DEF RowsOk, Indexed
    <3>. QED  BY <3>1, <3>2 DEF Indexed
  <2>. QED  BY <2>1, <2>2
<1>6. FinsOk'
  <2> SUFFICES ASSUME NEW d \in Certs PROVE FinOk(d, fin[d])'  BY DEF FinsOk
  <2>1. CASE d = c
    <3>1. fin'[d] = f  BY <1>1, <2>1 DEF Tables
    <3>. QED  BY <2>1, <3>1
  <2>2. CASE d # c
    <3>1. PICK x : x = fin[d] /\ x = fin'[d]  BY <1>1, <2>2 DEF Tables
    <3>2. Kept(d)  BY <2>2 DEF Kept
    <3>3. FinOk(d, x)  BY <1>1, <3>1 DEF FinsOk
    <3>4. FinOk(d, x)'  BY <1>1, <3>2, <3>3, FinStable
    <3>. QED  BY <3>1, <3>4
  <2>. QED  BY <2>1, <2>2
<1>7. HeadsOk'
  <2> SUFFICES ASSUME NEW ca \in CAs PROVE CachedOk(ca, rootCache[ca])' /\ \A r \in ckpts[ca] : HeadOk(ca, r.size, r.root)'
    BY DEF HeadsOk
  <2>1. PICK x : x = rootCache'[ca]  OBVIOUS
  <2>2. CachedOk(ca, x)  BY <1>1, <2>1 DEF HeadsOk, CachedOk
  <2>3. CachedOk(ca, x)'  BY <1>1, <2>2, HeadStable DEF CachedOk
  <2>4. CachedOk(ca, rootCache[ca])'  BY <2>1, <2>3
  <2>. QED  BY <1>1, <2>4, HeadStable DEF HeadsOk
<1>8. MarksOk'  BY <1>1, MarkStable DEF MarksOk
<1>9. JobsOk'
  <2> SUFFICES ASSUME NEW j \in Jobs PROVE JobOk(job[j])'  BY DEF JobsOk
  <2>1. PICK k : k = job[j] /\ k = job'[j]  OBVIOUS
  <2>2. JobOk(k)'  BY <1>1, <1>5, <2>1, JobStable DEF JobsOk
  <2>. QED  BY <2>1, <2>2
<1>. QED  BY <1>2, <1>4, <1>6, <1>7, <1>8, <1>9 DEF LogInv

(* The append: the old size is the index of the new leaf.                  *)
LEMMA FinAppendKeeps ==
    ASSUME LogInv, NEW c \in Certs, NEW ca \in CAs, FinAppend(c, ca)
    PROVE  LogInv'
<1>1. Tables /\ RowsOk  BY DEF LogInv
<1>2. PICK s \in Seq(LogLeaf) : s = leaves[ca]  BY <1>1 DEF Tables
<1>3. c \in LogLeaf  BY DEF LogLeaf
<1>4. /\ Append(s, c) \in Seq(LogLeaf) /\ Len(Append(s, c)) = Len(s) + 1
      /\ \A i \in 1..Len(s) : Append(s, c)[i] = s[i]
      /\ Append(s, c)[Len(s) + 1] = c
  BY <1>2, <1>3
<1>5. /\ certs[c] = NoRow /\ leaves' = [leaves EXCEPT ![ca] = Append(s, c)]
      /\ rootCache' = [rootCache EXCEPT ![ca] = NoRow]
      /\ UNCHANGED <<certs, ckpts, lmarks, job, runs>>
  BY <1>2 DEF FinAppend, append_leaf
<1>6. PICK q \in {"proof", "persist"} : q = IF c \in MtcProfile THEN "proof" ELSE "persist"  OBVIOUS
<1> DEFINE f == [pc |-> q, ca |-> ca, idx |-> Len(s), der |-> NotBuilt]
<1>7. fin' = [fin EXCEPT ![c] = f]  BY <1>2, <1>6 DEF FinAppend, leaf_index, TreeSize
<1>8. leaves'[ca] = Append(s, c) /\ \A b \in CAs \ {ca} : leaves'[b] = leaves[b]  BY <1>1, <1>5 DEF Tables
<1>9. Extends
  <2>1. leaves' \in [CAs -> Seq(LogLeaf)]  BY <1>1, <1>4, <1>5 DEF Tables
  <2>2. ASSUME NEW b \in CAs
        PROVE  Len(leaves[b]) <= Len(leaves'[b]) /\ \A i \in 1..Len(leaves[b]) : leaves'[b][i] = leaves[b][i]
    <3>1. CASE b = ca  BY <1>2, <1>4, <1>8, <3>1
    <3>2. CASE b # ca
      <4>1. leaves'[b] = leaves[b] /\ leaves[b] \in Seq(LogLeaf)  BY <1>1, <1>8, <3>2 DEF Tables
      <4>. QED  BY <4>1
    <3>. QED  BY <3>1, <3>2
  <2>. QED  BY <2>1, <2>2 DEF Extends
<1>10. \A b \in CAs : \A i \in 2..Len(leaves'[b]) : leaves'[b][i] \in Certs
  <2> TAKE b \in CAs
  <2>1. CASE b = ca
    <3> TAKE i \in 2..Len(leaves'[b])
    <3>1. i \in 2..Len(s) \/ i = Len(s) + 1  BY <1>2, <1>4, <1>8, <2>1
    <3>. QED  BY <1>1, <1>2, <1>4, <1>8, <2>1, <3>1 DEF Tables
  <2>2. CASE b # ca  BY <1>1, <1>8, <2>2 DEF Tables
  <2>. QED  BY <2>1, <2>2
<1>11. FinOk(c, f)'
  <2>1. f \in [pc : {"proof", "persist", "store"}, ca : CAs, idx : Nat \union {NoIndex}, der : Standalone \union {NotBuilt}]
    BY <1>2
  <2>2. f.pc = q /\ f.ca = ca /\ f.idx = Len(s) /\ f.der = NotBuilt  OBVIOUS
  <2> HIDE DEF f
  <2>3. IndexOk(c, f.ca, f.idx)'  BY <1>2, <1>4, <1>8, <2>2 DEF IndexOk
  <2>. QED  BY <1>2, <1>5, <2>1, <2>2, <2>3 DEF FinOk
<1> HIDE DEF f
<1>12. certs' \in [Certs -> CertRow \union {NoRow}] /\ ~Indexed(c)  BY <1>1, <1>5 DEF Tables, Indexed
<1>13. rootCache' = [b \in CAs |-> rootCache'[b]] /\ \A b \in CAs : rootCache'[b] \in {NoRow, rootCache[b]}
  BY <1>1, <1>5 DEF Tables
<1>. QED  BY <1>5, <1>7, <1>9, <1>10, <1>11, <1>12, <1>13, FinStep

(* The steps that leave the logs and the root caches alone.                *)
LEMMA FinRowStep ==
    ASSUME LogInv, NEW c \in Certs, NEW f, fin' = [fin EXCEPT ![c] = f], FinOk(c, f)',
           certs' \in [Certs -> CertRow \union {NoRow}],
           \A d \in Certs \ {c} : certs'[d] = certs[d],
           certs'[c] = NoRow \/ RowOk(c, certs[c])',
           Indexed(c) => Indexed(c)' /\ certs'[c].idx = certs[c].idx,
           UNCHANGED <<leaves, rootCache, ckpts, lmarks, job, runs>>
    PROVE  LogInv'
<1>1. Tables  BY DEF LogInv
<1>2. Extends  BY <1>1, SameExtends
<1>3. \A ca \in CAs : \A i \in 2..Len(leaves'[ca]) : leaves'[ca][i] \in Certs  BY <1>1 DEF Tables
<1>4. rootCache' = [ca \in CAs |-> rootCache'[ca]] /\ \A ca \in CAs : rootCache'[ca] \in {NoRow, rootCache[ca]}
  BY <1>1 DEF Tables
<1>. QED  BY <1>2, <1>3, <1>4, FinStep

LEMMA FinAloneStep ==
    ASSUME LogInv, NEW c \in Certs, NEW f, fin' = [fin EXCEPT ![c] = f], FinOk(c, f),
           UNCHANGED <<leaves, rootCache, certs, ckpts, lmarks, job, runs>>
    PROVE  LogInv'
<1>1. Tables /\ RowsOk  BY DEF LogInv
<1>2. Extends /\ RowsKept /\ Kept(c)  BY <1>1, SameExtends, SameRows
<1>3. FinOk(c, f)'  BY <1>1, <1>2, FinStable
<1>4. certs' \in [Certs -> CertRow \union {NoRow}]  BY <1>1 DEF Tables
<1>5. certs'[c] = NoRow \/ RowOk(c, certs[c])'
  <2>1. PICK x : x = certs[c] /\ x = certs'[c]  OBVIOUS
  <2>2. x = NoRow \/ RowOk(c, x)'  BY <1>1, <1>2, <2>1, RowStable DEF RowsOk
  <2>. QED  BY <2>1, <2>2
<1>6. Indexed(c) => Indexed(c)' /\ certs'[c].idx = certs[c].idx  BY <1>2 DEF RowsKept
<1>. QED  BY <1>3, <1>4, <1>5, <1>6, FinRowStep

(* An ordinary certificate whose append failed has no index.               *)
LEMMA FinAppendFailsKeeps ==
    ASSUME LogInv, NEW c \in Certs, NEW ca \in CAs, FinAppendFails(c, ca)
    PROVE  LogInv'
<1> DEFINE f == [pc |-> "persist", ca |-> ca, idx |-> NoIndex, der |-> NotBuilt]
<1>1. /\ certs[c] = NoRow /\ fin' = [fin EXCEPT ![c] = f]
      /\ UNCHANGED <<leaves, rootCache, certs, ckpts, lmarks, job, runs>>
  BY DEF FinAppendFails
<1>2. FinOk(c, f)  BY <1>1 DEF FinOk, IndexOk
<1>. QED  BY <1>1, <1>2, FinAloneStep

LEMMA FinPersistFailsKeeps ==
    ASSUME LogInv, NEW c \in Certs, FinPersistFails(c)
    PROVE  LogInv'
<1>1. FinOk(c, IdleFin)  BY DEF FinOk
<1>. QED  BY <1>1, FinAloneStep DEF FinPersistFails

(* The proof is over the log as it is now, of which the leaf is part.      *)
LEMMA FinProofKeeps ==
    ASSUME LogInv, NEW c \in Certs, FinProof(c)
    PROVE  LogInv'
<1>1. Tables /\ FinsOk  BY DEF LogInv
<1>2. PICK v : v = fin[c]  OBVIOUS
<1>3. /\ v \in [pc : {"proof", "persist", "store"}, ca : CAs, idx : Nat \union {NoIndex}, der : Standalone \union {NotBuilt}]
      /\ v.pc = "proof" /\ IndexOk(c, v.ca, v.idx) /\ v.idx \in Nat /\ certs[c] = NoRow
  BY <1>1, <1>2 DEF FinsOk, FinOk, FinProof, IdleFin
<1>4. PICK s \in Seq(LogLeaf) : s = leaves[v.ca]  BY <1>1, <1>3 DEF Tables
<1> DEFINE d == [cert |-> c, idx |-> v.idx, start |-> 0, end |-> Len(s), tree |-> SubSeq(s, 1, Len(s)), sigs |-> {}]
           f == [v EXCEPT !.pc = "persist", !.der = d]
<1>5. /\ fin' = [fin EXCEPT ![c] = f]
      /\ UNCHANGED <<leaves, rootCache, certs, ckpts, lmarks, job, runs>>
  <2>1. build_standalone_der(c, v.idx, 0, Len(s), Range0(v.ca, 0, Len(s)), {}) = d
    <3>1. Range0(v.ca, 0, Len(s)) = SubSeq(s, 1, Len(s))  BY <1>4 DEF Range0
    <3>2. {g \in {} : g.start = 0 /\ g.end = Len(s)} = {}  OBVIOUS
    <3>. QED  BY <3>1, <3>2 DEF build_standalone_der
  <2>2. fin' = [fin EXCEPT ![c].pc = "persist", ![c].der = d]  BY <1>2, <1>4, <2>1 DEF FinProof, TreeSize
  <2> HIDE DEF d
  <2>3. fin' = [fin EXCEPT ![c] = f]  BY <1>1, <1>2, <1>3, <2>2 DEF Tables
  <2>. QED  BY <2>3 DEF FinProof
<1>6. d \in Standalone /\ d.cert = c /\ d.idx = v.idx /\ d.start = 0 /\ d.end = Len(s) /\ d.tree = SubSeq(s, 1, Len(s)) /\ d.sigs = {}
  <2>1. Len(s) \in Nat /\ SubSeq(s, 1, Len(s)) \in Seq(LogLeaf)  BY <1>4
  <2>. QED  BY <1>3, <2>1 DEF Standalone
<1> HIDE DEF d
<1>7. f.pc = "persist" /\ f.ca = v.ca /\ f.idx = v.idx /\ f.der = d
      /\ f \in [pc : {"proof", "persist", "store"}, ca : CAs, idx : Nat \union {NoIndex}, der : Standalone \union {NotBuilt}]
  BY <1>3, <1>6
<1> HIDE DEF f
<1>9. DerOk(c, v.idx, d)
  <2>1. OfLog(d.tree, d.start, d.end)
    <3>1. Len(s) <= Len(leaves[v.ca]) /\ SubSeq(s, 1, Len(s)) = SubSeq(leaves[v.ca], 0 + 1, Len(s))  BY <1>4
    <3>. QED  BY <1>3, <1>6, <3>1 DEF OfLog
  <2>2. 0 <= v.idx /\ v.idx < Len(s)  BY <1>3, <1>4 DEF IndexOk, NoIndex
  <2>. QED  BY <1>6, <2>1, <2>2 DEF DerOk, Aligned
<1>10. FinOk(c, f)  BY <1>3, <1>7, <1>9 DEF FinOk
<1>. QED  BY <1>5, <1>10, FinAloneStep

(* The row takes the request's CA and index.                               *)
LEMMA FinPersistKeeps ==
    ASSUME LogInv, NEW c \in Certs, FinPersist(c)
    PROVE  LogInv'
<1>1. Tables /\ FinsOk  BY DEF LogInv
<1>2. PICK v : v = fin[c]  OBVIOUS
<1>3. /\ v \in [pc : {"proof", "persist", "store"}, ca : CAs, idx : Nat \union {NoIndex}, der : Standalone \union {NotBuilt}]
      /\ v.pc = "persist" /\ IndexOk(c, v.ca, v.idx) /\ certs[c] = NoRow /\ (v.der = NotBuilt \/ DerOk(c, v.idx, v.der))
  BY <1>1, <1>2 DEF FinsOk, FinOk, FinPersist, IdleFin
<1> DEFINE x == [ca |-> v.ca, idx |-> v.idx, standalone |-> NotBuilt]
           f == IF v.der = NotBuilt THEN IdleFin ELSE [v EXCEPT !.pc = "store"]
<1>4. /\ certs' = [certs EXCEPT ![c] = x] /\ fin' = [fin EXCEPT ![c] = f]
      /\ UNCHANGED <<leaves, rootCache, ckpts, lmarks, job, runs>>
  BY <1>1, <1>2 DEF FinPersist, Tables
<1>5. x \in CertRow /\ x.ca = v.ca /\ x.idx = v.idx /\ x.standalone = NotBuilt  BY <1>3 DEF CertRow
<1> HIDE DEF x
<1>6. x # NoRow  BY <1>5, NoRowAssumption
<1>7. certs' \in [Certs -> CertRow \union {NoRow}] /\ certs'[c] = x /\ \A d \in Certs \ {c} : certs'[d] = certs[d]
  BY <1>1, <1>4, <1>5 DEF Tables
<1>8. IndexOk(c, v.ca, v.idx)'  BY <1>3, <1>4 DEF IndexOk
<1>9. RowOk(c, certs[c])'
  <2>1. RowOk(c, x)'  BY <1>5, <1>8 DEF RowOk
  <2>. QED  BY <1>7, <2>1
<1>10. FinOk(c, f)'
  <2>1. CASE v.der = NotBuilt  BY <2>1 DEF FinOk
  <2>2. CASE v.der # NotBuilt
    <3>1. /\ f \in [pc : {"proof", "persist", "store"}, ca : CAs, idx : Nat \union {NoIndex}, der : Standalone \union {NotBuilt}]
          /\ f.pc = "store" /\ f.ca = v.ca /\ f.idx = v.idx /\ f.der = v.der
      BY <1>3, <2>2
    <3> HIDE DEF f
    <3>2. DerOk(c, v.idx, v.der)'  BY <1>3, <1>4, <2>2 DEF DerOk, OfLog
    <3>. QED  BY <1>5, <1>6, <1>7, <1>8, <2>2, <3>1, <3>2 DEF FinOk
  <2>. QED  BY <2>1, <2>2
<1>11. ~Indexed(c)  BY <1>3 DEF Indexed
<1>. QED  BY <1>4, <1>7, <1>9, <1>10, <1>11, FinRowStep

(* The standalone certificate of an MTC profile is stored, or is not.      *)
LEMMA FinStoreKeeps ==
    ASSUME LogInv, NEW c \in Certs, FinStore(c)
    PROVE  LogInv'
<1>1. Tables /\ FinsOk /\ RowsOk  BY DEF LogInv
<1>2. FinOk(c, IdleFin) /\ FinOk(c, IdleFin)'  BY DEF FinOk
<1>3. fin' = [fin EXCEPT ![c] = IdleFin] /\ UNCHANGED <<leaves, rootCache, ckpts, lmarks, job, runs>>  BY DEF FinStore
<1>4. CASE UNCHANGED certs  BY <1>2, <1>3, <1>4, FinAloneStep
<1>5. CASE certs' = [certs EXCEPT ![c].standalone = fin[c].der]
  <2>1. PICK v : v = fin[c]  OBVIOUS
  <2>2. /\ v.der \in Standalone \union {NotBuilt} /\ v.der # NotBuilt /\ DerOk(c, v.idx, v.der)
        /\ certs[c] # NoRow /\ certs[c].ca = v.ca /\ certs[c].idx = v.idx
    BY <1>1, <2>1 DEF FinsOk, FinOk, FinStore, IdleFin
  <2>3. PICK x \in CertRow : x = certs[c]  BY <1>1, <2>2 DEF Tables
  <2> DEFINE y == [x EXCEPT !.standalone = v.der]
  <2>4. certs' = [certs EXCEPT ![c] = y]  BY <1>1, <1>5, <2>1, <2>3 DEF Tables
  <2>5. y \in CertRow /\ y.ca = x.ca /\ y.idx = x.idx /\ y.standalone = v.der  BY <2>2, <2>3 DEF CertRow
  <2> HIDE DEF y
  <2>6. certs' \in [Certs -> CertRow \union {NoRow}] /\ certs'[c] = y /\ \A d \in Certs \ {c} : certs'[d] = certs[d]
    BY <1>1, <2>4, <2>5 DEF Tables
  <2>7. RowOk(c, y)'
    <3>1. RowOk(c, x)  BY <1>1, <2>2, <2>3 DEF RowsOk
    <3>2. IndexOk(c, y.ca, y.idx)'  BY <1>3, <2>5, <3>1 DEF RowOk, IndexOk
    <3>3. DerOk(c, y.idx, v.der)'  BY <1>3, <2>2, <2>3, <2>5 DEF DerOk, OfLog
    <3>. QED  BY <2>5, <3>2, <3>3 DEF RowOk
  <2>8. RowOk(c, certs[c])'  BY <2>6, <2>7
  <2>9. y # NoRow  BY <2>5, NoRowAssumption
  <2>10. Indexed(c) => Indexed(c)' /\ certs'[c].idx = certs[c].idx  BY <2>3, <2>5, <2>6, <2>8, <2>9 DEF Indexed
  <2>. QED  BY <1>2, <1>3, <2>6, <2>8, <2>10, FinRowStep
<1>. QED  BY <1>4, <1>5 DEF FinStore

-----------------------------------------------------------------------------
(* Jobs that only read.                                                    *)
LEMMA JobAlone ==
    ASSUME LogInv, NEW j \in Jobs, NEW w, JobOk(w), job' = [job EXCEPT ![j] = w],
           UNCHANGED <<leaves, rootCache, fin, certs, ckpts, lmarks>>, runs' \in 0..MaxRuns
    PROVE  LogInv'
<1>1. Tables /\ HeadsOk /\ MarksOk  BY DEF LogInv
<1>2. /\ ckpts' \in [CAs -> SUBSET Checkpoint]
      /\ rootCache' = [ca \in CAs |-> rootCache'[ca]] /\ lmarks' = [ca \in CAs |-> lmarks'[ca]]
  BY <1>1 DEF Tables
<1>3. HeadsOk' /\ MarksOk'  BY <1>1 DEF HeadsOk, CachedOk, HeadOk, MarksOk, MarkOk, MarkDerOk
<1>. QED  BY <1>2, <1>3, JobStep

LEMMA StartKeeps ==
    ASSUME LogInv, NEW j \in Jobs, NEW ca \in CAs, CkStart(j, ca) \/ LmStart(j, ca)
    PROVE  LogInv'
<1>1. Tables  BY DEF LogInv
<1>2. PICK q \in {"ck_latest", "lm_latest"} : job' = [job EXCEPT ![j] = [pc |-> q, ca |-> ca, size |-> Len(leaves[ca])]]
  BY DEF CkStart, LmStart, TreeSize
<1> DEFINE w == [pc |-> q, ca |-> ca, size |-> Len(leaves[ca])]
<1>3. w \in [pc : {"ck_latest", "lm_latest", "lm_rep"}, ca : CAs, size : Nat] /\ w.ca = ca /\ w.size = Len(leaves[ca])
  BY <1>1 DEF Tables
<1>4. JobOk(w)
  <2>1. Len(leaves[ca]) \in 1..Len(leaves[ca])  BY <1>1 DEF Tables
  <2> HIDE DEF w
  <2>. QED  BY <1>3, <2>1 DEF JobOk, Sized
<1>5. runs' \in 0..MaxRuns  BY <1>1, MtcAssumption DEF CkStart, LmStart, Tables
<1>6. UNCHANGED <<leaves, rootCache, fin, certs, ckpts, lmarks>>  BY DEF CkStart, LmStart
<1>. QED  BY <1>2, <1>4, <1>5, <1>6, JobAlone

(* Which disjunct of JobOk a job is in.                                    *)
LEMMA JobAt ==
    ASSUME NEW k, JobOk(k)
    PROVE  /\ k.pc \in {"ck_latest", "lm_latest", "lm_rep"} => Sized(k)
           /\ k.pc = "ck_pending" => Pending(k)
           /\ k.pc = "ck_sign" => ToSign(k)
           /\ k.pc \in {"ck_store", "ck_cosign"} => Signed(k)
           /\ k.pc = "ck_build" => Building(k)
           /\ k.pc \in {"ck_prune", "lm_prune"} => Pruning(k)
           /\ k.pc \in {"lm_insert", "lm_build"} => Marking(k)
<1>1. /\ Sized(k) => k.pc \in {"ck_latest", "lm_latest", "lm_rep"}
      /\ Pending(k) => k.pc = "ck_pending"
      /\ ToSign(k) => k.pc = "ck_sign"
      /\ Signed(k) => k.pc \in {"ck_store", "ck_cosign"}
      /\ Building(k) => k.pc = "ck_build"
      /\ Pruning(k) => k.pc \in {"ck_prune", "lm_prune"}
      /\ Marking(k) => k.pc \in {"lm_insert", "lm_build"}
      /\ k = IdleJob => k.pc = "idle"
  BY DEF Sized, Pending, ToSign, Signed, Building, Pruning, Marking, IdleJob
<1>. QED  BY <1>1 DEF JobOk

LEMMA CkLatestKeeps ==
    ASSUME LogInv, NEW j \in Jobs, CkLatest(j)
    PROVE  LogInv'
<1>1. Tables /\ HeadsOk /\ JobsOk /\ runs' \in 0..MaxRuns  BY DEF LogInv, CkLatest, Tables
<1>2. PICK k : k = job[j]  OBVIOUS
<1>3. Sized(k)  BY <1>1, <1>2, JobAt DEF JobsOk, CkLatest
<1>4. k.ca \in CAs /\ k.size \in Nat  BY <1>3 DEF Sized
<1>5. PICK prev \in Nat : prev = LatestCheckpoint(k.ca)  BY <1>1, <1>4, LatestType
<1> DEFINE w1 == [pc |-> "ck_prune", ca |-> k.ca]
           w2 == [pc |-> "ck_pending", ca |-> k.ca, size |-> k.size, prev |-> prev]
<1>6. job' = [job EXCEPT ![j] = w1] \/ job' = [job EXCEPT ![j] = w2]  BY <1>2, <1>5 DEF CkLatest
<1>7. JobOk(w1) /\ JobOk(w2)  BY <1>4 DEF JobOk, Pruning, Pending
<1> HIDE DEF w1, w2
<1>. QED  BY <1>1, <1>6, <1>7, JobAlone DEF CkLatest

(* Only rows with an index are picked.                                     *)
LEMMA CkPendingKeeps ==
    ASSUME LogInv, NEW j \in Jobs, CkPending(j)
    PROVE  LogInv'
<1>1. Tables /\ RowsOk /\ JobsOk /\ runs' \in 0..MaxRuns  BY DEF LogInv, CkPending, Tables
<1>2. PICK k : k = job[j]  OBVIOUS
<1>3. Pending(k)  BY <1>1, <1>2, JobAt DEF JobsOk, CkPending
<1>4. PICK P \in get_pending_standalone(k.size) :
         job' = [job EXCEPT ![j] = [pc |-> "ck_sign", ca |-> k.ca, size |-> k.size, prev |-> k.prev, pending |-> P]]
  BY <1>2 DEF CkPending
<1>5. P \subseteq Certs /\ \A c \in P : certs[c] # NoRow /\ certs[c].idx # NoIndex  BY DEF get_pending_standalone
<1>6. \A c \in P : Indexed(c)
  <2> SUFFICES ASSUME NEW c \in P PROVE Indexed(c)  OBVIOUS
  <2>1. RowOk(c, certs[c]) /\ certs[c] \in CertRow  BY <1>1, <1>5 DEF RowsOk, RowOk
  <2>2. certs[c].idx \in Nat  BY <1>5, <2>1 DEF CertRow
  <2>. QED  BY <1>5, <2>1, <2>2 DEF Indexed
<1> DEFINE w == [pc |-> "ck_sign", ca |-> k.ca, size |-> k.size, prev |-> k.prev, pending |-> P]
<1>7. w \in [pc : {"ck_sign"}, ca : CAs, size : Nat, prev : Nat, pending : SUBSET Certs] /\ w.pending = P
  BY <1>3, <1>5 DEF Pending
<1>8. job' = [job EXCEPT ![j] = w]  BY <1>4
<1> HIDE DEF w
<1>9. JobOk(w)  BY <1>6, <1>7 DEF JobOk, ToSign
<1>. QED  BY <1>1, <1>8, <1>9, JobAlone DEF CkPending

(* The head is of the log as it is now, and so is the tree of the proofs.  *)
LEMMA CkSignKeeps ==
    ASSUME LogInv, NEW j \in Jobs, CkSign(j)
    PROVE  LogInv'
<1>1. Tables /\ RowsOk /\ HeadsOk /\ MarksOk /\ JobsOk  BY DEF LogInv
<1>2. PICK k : k = job[j]  OBVIOUS
<1>3. ToSign(k)  BY <1>1, <1>2, JobAt DEF JobsOk, CkSign
<1>4. k.ca \in CAs /\ k.prev \in Nat /\ k.pending \subseteq Certs /\ \A c \in k.pending : Indexed(c)  BY <1>3 DEF ToSign
<1>5. PICK s \in Seq(LogLeaf) : s = leaves[k.ca]  BY <1>1, <1>4 DEF Tables
<1>6. PICK n \in Nat : n = Len(s) /\ n >= 1
  <2>1. Len(leaves[k.ca]) >= 1 /\ Len(s) \in Nat  BY <1>1, <1>4, <1>5 DEF Tables
  <2>. QED  BY <1>5, <2>1
<1>7. PICK start : start = IF use_subtree(k.prev, n, k.pending) THEN k.prev ELSE 0  OBVIOUS
<1>8. start \in Nat /\ start < n /\ Aligned(start, n) /\ \A c \in k.pending : start <= certs[c].idx
  <2>1. CASE use_subtree(k.prev, n, k.pending)
    <3>1. start = k.prev /\ n > k.prev /\ k.prev % BitCeil(n - k.prev) = 0 /\ \A c \in k.pending : certs[c].idx >= k.prev
      BY <1>7, <2>1 DEF use_subtree
    <3>. QED  BY <1>4, <3>1 DEF Aligned, Indexed
  <2>2. CASE ~use_subtree(k.prev, n, k.pending)
    <3>1. start = 0  BY <1>7, <2>2
    <3>. QED  BY <1>4, <1>6, <3>1 DEF Aligned, Indexed
  <2>. QED  BY <2>1, <2>2
<1> DEFINE root == SubSeq(s, 1, n)
           tree == SubSeq(s, start + 1, n)
           todo == {c \in k.pending : certs[c].idx < n}
           h == [size |-> n, root |-> root]
           w == [pc |-> "ck_store", ca |-> k.ca, size |-> n, start |-> start, root |-> root, tree |-> tree, todo |-> todo]
<1>9. root \in Seq(LogLeaf) /\ tree \in Seq(LogLeaf)
  <2>1. SubSeq(s, start + 1, n) \in Seq(LogLeaf)  BY <1>6, <1>8, SubSeqType
  <2>2. SubSeq(s, 0 + 1, n) \in Seq(LogLeaf)  BY <1>6, SubSeqType
  <2>. QED  BY <2>1, <2>2
<1>10. /\ rootCache' = [rootCache EXCEPT ![k.ca] = h] /\ job' = [job EXCEPT ![j] = w]
       /\ UNCHANGED <<leaves, fin, certs, ckpts, lmarks, runs>>
  <2>1. Range0(k.ca, 0, n) = root /\ Range0(k.ca, start, n) = tree /\ TreeSize(k.ca) = n  BY <1>5, <1>6 DEF Range0, TreeSize
  <2>2. start = IF use_subtree(job[j].prev, TreeSize(job[j].ca), job[j].pending) THEN job[j].prev ELSE 0  BY <1>2, <1>7, <2>1
  <2> HIDE DEF root, tree
  <2>. QED  BY <1>2, <2>1, <2>2 DEF CkSign
<1>11. HeadOk(k.ca, n, root)  BY <1>5, <1>6 DEF HeadOk
<1>12. tree = SubSeq(leaves[k.ca], start + 1, n)  BY <1>5
<1> HIDE DEF root, tree
<1>13. JobOk(w)
  <2>1. w \in [pc : {"ck_store", "ck_cosign"}, ca : CAs, size : Nat, start : Nat,
               root : Seq(LogLeaf), tree : Seq(LogLeaf), todo : SUBSET Certs]
    BY <1>4, <1>8, <1>9
  <2>2. w.ca = k.ca /\ w.size = n /\ w.start = start /\ w.root = root /\ w.tree = tree /\ w.todo = todo  OBVIOUS
  <2>3. \A c \in todo : Indexed(c) /\ start <= certs[c].idx /\ certs[c].idx < n  BY <1>4, <1>8
  <2> HIDE DEF w, todo
  <2>4. Span(w)  BY <1>5, <1>6, <1>8, <1>12, <2>2, <2>3 DEF Span
  <2>5. Signed(w)  BY <1>11, <2>1, <2>2, <2>4 DEF Signed
  <2>. QED  BY <2>5 DEF JobOk
<1>14. CachedOk(k.ca, h)
  <2>1. h \in [size : Nat, root : Seq(LogLeaf)] /\ h.size = n /\ h.root = root  BY <1>9
  <2>. QED  BY <1>11, <2>1 DEF CachedOk
<1> HIDE DEF w, h
<1>15. HeadsOk'
  <2> SUFFICES ASSUME NEW ca \in CAs PROVE CachedOk(ca, rootCache[ca])' /\ \A r \in ckpts[ca] : HeadOk(ca, r.size, r.root)'
    BY <1>10 DEF HeadsOk
  <2>1. PICK x : x = rootCache'[ca]  OBVIOUS
  <2>2. CachedOk(ca, x)  BY <1>1, <1>10, <1>14, <2>1 DEF Tables, HeadsOk
  <2>3. CachedOk(ca, x)'  BY <1>10, <2>2 DEF CachedOk, HeadOk
  <2>4. CachedOk(ca, rootCache[ca])'  BY <2>1, <2>3
  <2>. QED  BY <1>1, <1>10, <2>4 DEF HeadsOk, HeadOk
<1>16. MarksOk'  BY <1>1, <1>10 DEF MarksOk, MarkOk, MarkDerOk
<1>17. /\ ckpts' \in [CAs -> SUBSET Checkpoint] /\ runs' \in 0..MaxRuns
       /\ rootCache' = [ca \in CAs |-> rootCache'[ca]] /\ lmarks' = [ca \in CAs |-> lmarks'[ca]]
  BY <1>1, <1>10 DEF Tables
<1>. QED  BY <1>10, <1>13, <1>15, <1>16, <1>17, JobStep

(* Steps of a job that change the checkpoints of its CA.                   *)
LEMMA CkptsStep ==
    ASSUME LogInv, NEW j \in Jobs, NEW w, JobOk(w), job' = [job EXCEPT ![j] = w], NEW a \in CAs,
           NEW R, R \subseteq Checkpoint, \A r \in R : HeadOk(a, r.size, r.root), ckpts' = [ckpts EXCEPT ![a] = R],
           UNCHANGED <<leaves, rootCache, fin, certs, lmarks, runs>>
    PROVE  LogInv'
<1>1. Tables /\ HeadsOk /\ MarksOk  BY DEF LogInv
<1>2. /\ ckpts' \in [CAs -> SUBSET Checkpoint] /\ runs' \in 0..MaxRuns
      /\ rootCache' = [ca \in CAs |-> rootCache'[ca]] /\ lmarks' = [ca \in CAs |-> lmarks'[ca]]
  BY <1>1 DEF Tables
<1>3. MarksOk'  BY <1>1 DEF MarksOk, MarkOk, MarkDerOk
<1>4. \A ca \in CAs : \A r \in ckpts'[ca] : HeadOk(ca, r.size, r.root)
  <2> SUFFICES ASSUME NEW ca \in CAs, NEW r \in ckpts'[ca] PROVE HeadOk(ca, r.size, r.root)  OBVIOUS
  <2>1. CASE ca = a  BY <1>1, <2>1 DEF Tables
  <2>2. CASE ca # a  BY <1>1, <2>2 DEF Tables, HeadsOk
  <2>. QED  BY <2>1, <2>2
<1>5. HeadsOk'  BY <1>1, <1>4 DEF HeadsOk, CachedOk, HeadOk
<1>. QED  BY <1>2, <1>3, <1>5, JobStep

LEMMA CkStoreKeeps ==
    ASSUME LogInv, NEW j \in Jobs, CkStore(j)
    PROVE  LogInv'
<1>1. Tables /\ HeadsOk /\ JobsOk  BY DEF LogInv
<1>2. PICK k : k = job[j]  OBVIOUS
<1>3. Signed(k) /\ k.pc = "ck_store"  BY <1>1, <1>2, JobAt DEF JobsOk, CkStore
<1>4. k.ca \in CAs /\ k.size \in Nat /\ k.root \in Seq(LogLeaf) /\ HeadOk(k.ca, k.size, k.root)  BY <1>3 DEF Signed
<1> DEFINE row == [size |-> k.size, root |-> k.root, cosigned |-> {}]
           R == upsert_checkpoint(ckpts[k.ca], row)
           w == [k EXCEPT !.pc = "ck_cosign"]
<1>5. ckpts' = [ckpts EXCEPT ![k.ca] = R] /\ job' = [job EXCEPT ![j] = w] /\ UNCHANGED <<leaves, rootCache, fin, certs, lmarks, runs>>
  BY <1>1, <1>2 DEF CkStore, Tables
<1>6. row \in Checkpoint /\ row.size = k.size /\ row.root = k.root  BY <1>4 DEF Checkpoint
<1> HIDE DEF row
<1>7. R \subseteq Checkpoint /\ \A r \in R : HeadOk(k.ca, r.size, r.root)
  <2>1. R \subseteq ckpts[k.ca] \union {row}  BY DEF upsert_checkpoint
  <2>2. ckpts[k.ca] \subseteq Checkpoint /\ \A r \in ckpts[k.ca] : HeadOk(k.ca, r.size, r.root)  BY <1>1, <1>4 DEF Tables, HeadsOk
  <2> HIDE DEF R
  <2>. QED  BY <1>4, <1>6, <2>1, <2>2
<1>8. JobOk(w)
  <2>1. /\ w \in [pc : {"ck_store", "ck_cosign"}, ca : CAs, size : Nat, start : Nat,
                  root : Seq(LogLeaf), tree : Seq(LogLeaf), todo : SUBSET Certs]
        /\ w.ca = k.ca /\ w.size = k.size /\ w.start = k.start /\ w.root = k.root /\ w.tree = k.tree /\ w.todo = k.todo
    BY <1>3 DEF Signed
  <2> HIDE DEF w
  <2>2. Span(k)  BY <1>3 DEF Signed
  <2>3. Span(w)  BY <2>1, <2>2 DEF Span
  <2>. QED  BY <1>4, <2>1, <2>3 DEF JobOk, Signed
<1> HIDE DEF w, R
<1>. QED  BY <1>4, <1>5, <1>7, <1>8, CkptsStep

(* The CA's cosignature is over the tree of the proofs, the others over    *)
(* the whole; build_standalone_der will keep those over the former.        *)
LEMMA CkCosignKeeps ==
    ASSUME LogInv, NEW j \in Jobs, CkCosign(j)
    PROVE  LogInv'
<1>1. Tables /\ HeadsOk /\ JobsOk  BY DEF LogInv
<1>2. PICK k : k = job[j]  OBVIOUS
<1>3. Signed(k)  BY <1>1, <1>2, JobAt DEF JobsOk, CkCosign
<1>4. /\ k.ca \in CAs /\ k.size \in Nat /\ k.start \in Nat /\ k.root \in Seq(LogLeaf) /\ k.tree \in Seq(LogLeaf) /\ k.todo \subseteq Certs
      /\ HeadOk(k.ca, k.size, k.root) /\ Span(k)
  BY <1>3 DEF Signed
<1>5. PICK up \in SUBSET Cosigners :
         /\ ckpts' = [ckpts EXCEPT ![k.ca] = upsert_cosignatures(ckpts[k.ca], k.size, cosig_ders(k, up))]
         /\ job' = [job EXCEPT ![j] = [pc |-> "ck_build", ca |-> k.ca, size |-> k.size, start |-> k.start, tree |-> k.tree,
                                       sigs |-> cosig_ders(k, up), todo |-> k.todo]]
  BY <1>1, <1>2, <1>4 DEF CkCosign, Tables
<1>6. PICK sigs : sigs = cosig_ders(k, up)  OBVIOUS
<1>7. sigs \subseteq Cosignature /\ \A g \in sigs : g.start = k.start /\ g.end = k.size => g.tree = k.tree
  <2>1. build_ca_self_cosignature(k) \in Cosignature /\ build_ca_self_cosignature(k).tree = k.tree
    BY <1>4 DEF build_ca_self_cosignature, Cosignature
  <2>2. k.start = 0 => k.root = k.tree
    <3>1. k.root = SubSeq(leaves[k.ca], 1, k.size) /\ k.tree = SubSeq(leaves[k.ca], k.start + 1, k.size)  BY <1>4 DEF HeadOk, Span
    <3>. QED  BY <3>1
  <2> SUFFICES ASSUME NEW g \in sigs PROVE g \in Cosignature /\ (g.start = k.start /\ g.end = k.size => g.tree = k.tree)
    OBVIOUS
  <2>3. CASE g = build_ca_self_cosignature(k)  BY <2>1, <2>3
  <2>4. CASE g # build_ca_self_cosignature(k)
    <3>1. PICK s \in Cosigners : g = [by |-> s, start |-> 0, end |-> k.size, tree |-> k.root]
      BY <1>6, <2>4 DEF cosig_ders, gather_cosignatures
    <3>2. g \in Cosignature /\ g.start = 0 /\ g.tree = k.root  BY <1>4, <3>1 DEF Cosignature
    <3>. QED  BY <2>2, <3>2
  <2>. QED  BY <2>3, <2>4
<1> DEFINE R == upsert_cosignatures(ckpts[k.ca], k.size, sigs)
           w == [pc |-> "ck_build", ca |-> k.ca, size |-> k.size, start |-> k.start, tree |-> k.tree, sigs |-> sigs, todo |-> k.todo]
<1>8. ckpts' = [ckpts EXCEPT ![k.ca] = R] /\ job' = [job EXCEPT ![j] = w] /\ UNCHANGED <<leaves, rootCache, fin, certs, lmarks, runs>>
  BY <1>5, <1>6 DEF CkCosign
<1>9. JobOk(w)
  <2>1. /\ w \in [pc : {"ck_build"}, ca : CAs, size : Nat, start : Nat, tree : Seq(LogLeaf), sigs : SUBSET Cosignature, todo : SUBSET Certs]
        /\ w.ca = k.ca /\ w.size = k.size /\ w.start = k.start /\ w.tree = k.tree /\ w.todo = k.todo /\ w.sigs = sigs
    BY <1>4, <1>7
  <2> HIDE DEF w
  <2>2. Span(w)  BY <1>4, <2>1 DEF Span
  <2>. QED  BY <1>7, <2>1, <2>2 DEF JobOk, Building
<1> HIDE DEF w
<1>10. R \subseteq Checkpoint /\ \A r \in R : HeadOk(k.ca, r.size, r.root)
  <2>1. PICK by : by = {g.by : g \in sigs}  OBVIOUS
  <2>2. by \subseteq Cosigners \union {"self"}  BY <1>7, <2>1 DEF Cosignature
  <2>3. R = {IF r.size = k.size THEN [r EXCEPT !.cosigned = @ \cup by] ELSE r : r \in ckpts[k.ca]}
    BY <2>1 DEF upsert_cosignatures
  <2> SUFFICES ASSUME NEW r \in ckpts[k.ca], NEW q, q = IF r.size = k.size THEN [r EXCEPT !.cosigned = @ \cup by] ELSE r
              PROVE  q \in Checkpoint /\ HeadOk(k.ca, q.size, q.root)
    BY <2>3
  <2>4. r \in Checkpoint /\ HeadOk(k.ca, r.size, r.root)  BY <1>1, <1>4 DEF Tables, HeadsOk
  <2>5. q \in Checkpoint /\ q.size = r.size /\ q.root = r.root  BY <2>2, <2>4 DEF Checkpoint
  <2>. QED  BY <2>4, <2>5
<1> HIDE DEF R
<1>. QED  BY <1>4, <1>8, <1>9, <1>10, CkptsStep

LEMMA CkDoneKeeps ==
    ASSUME LogInv, NEW j \in Jobs, CkDone(j)
    PROVE  LogInv'
<1>1. Tables /\ HeadsOk /\ JobsOk  BY DEF LogInv
<1>2. PICK k : k = job[j]  OBVIOUS
<1>3. k.ca \in CAs  BY <1>1, <1>2, JobAt DEF JobsOk, CkDone, Pruning
<1> DEFINE R == prune_oldest(ckpts[k.ca], RetentionCount)
<1>4. R \subseteq ckpts[k.ca]  BY DEF prune_oldest
<1>5. ckpts' = [ckpts EXCEPT ![k.ca] = R] /\ job' = [job EXCEPT ![j] = IdleJob] /\ UNCHANGED <<leaves, rootCache, fin, certs, lmarks, runs>>
  BY <1>1, <1>2, <1>3 DEF CkDone, Tables
<1> HIDE DEF R
<1>6. R \subseteq Checkpoint /\ \A r \in R : HeadOk(k.ca, r.size, r.root)  BY <1>1, <1>3, <1>4 DEF Tables, HeadsOk
<1>7. JobOk(IdleJob)  BY DEF JobOk
<1>. QED  BY <1>3, <1>5, <1>6, <1>7, CkptsStep

(* A standalone certificate is built for a row the job picked earlier.     *)
LEMMA CkBuildKeeps ==
    ASSUME LogInv, NEW j \in Jobs, NEW c \in Certs, CkBuild(j, c)
    PROVE  LogInv'
<1>1. Tables /\ RowsOk /\ FinsOk /\ HeadsOk /\ MarksOk /\ JobsOk  BY DEF LogInv
<1>2. PICK k : k = job[j]  OBVIOUS
<1>3. Building(k) /\ c \in k.todo  BY <1>1, <1>2, JobAt DEF JobsOk, CkBuild
<1>4. /\ k \in [pc : {"ck_build"}, ca : CAs, size : Nat, start : Nat, tree : Seq(LogLeaf), sigs : SUBSET Cosignature, todo : SUBSET Certs]
      /\ Span(k) /\ Indexed(c) /\ k.start <= certs[c].idx /\ certs[c].idx < k.size
      /\ \A g \in k.sigs : g.start = k.start /\ g.end = k.size => g.tree = k.tree
  BY <1>3 DEF Building, Span
<1>5. PICK x \in CertRow : x = certs[c] /\ x.idx \in Nat /\ RowOk(c, x)  BY <1>4 DEF Indexed, RowOk
<1>6. PICK keep : keep = {g \in k.sigs : g.start = k.start /\ g.end = k.size}  OBVIOUS
<1> DEFINE d == [cert |-> c, idx |-> x.idx, start |-> k.start, end |-> k.size, tree |-> k.tree, sigs |-> keep]
           y == [x EXCEPT !.standalone = d]
           w == [k EXCEPT !.todo = @ \ {c}]
<1>7. certs' = [certs EXCEPT ![c] = y] /\ job' = [job EXCEPT ![j] = w] /\ UNCHANGED <<leaves, rootCache, fin, ckpts, lmarks, runs>>
  <2>1. build_standalone_der(c, x.idx, k.start, k.size, k.tree, k.sigs) = d  BY <1>6 DEF build_standalone_der
  <2> HIDE DEF d
  <2>. QED  BY <1>1, <1>2, <1>5, <2>1 DEF CkBuild, Tables
<1>8. d \in Standalone /\ d.cert = c /\ d.idx = x.idx /\ d.start = k.start /\ d.end = k.size /\ d.tree = k.tree /\ d.sigs = keep
  BY <1>4, <1>5, <1>6 DEF Standalone
<1> HIDE DEF d
<1>9. DerOk(c, x.idx, d)
  <2>1. k.ca \in CAs /\ k.size <= Len(leaves[k.ca]) /\ k.tree = SubSeq(leaves[k.ca], k.start + 1, k.size)
    BY <1>1, <1>4 DEF Span, Tables
  <2>2. OfLog(d.tree, d.start, d.end)  BY <1>8, <2>1 DEF OfLog
  <2>3. \A g \in d.sigs : g.tree = d.tree  BY <1>4, <1>6, <1>8
  <2>4. Aligned(d.start, d.end)  BY <1>4, <1>8 DEF Span
  <2>. QED  BY <1>4, <1>5, <1>8, <2>2, <2>3, <2>4 DEF DerOk
<1>10. y \in CertRow /\ y.ca = x.ca /\ y.idx = x.idx /\ y.standalone = d  BY <1>5, <1>8 DEF CertRow
<1> HIDE DEF y
<1>11. y # NoRow /\ RowOk(c, y)  BY <1>5, <1>9, <1>10, NoRowAssumption DEF RowOk
<1>12. certs' \in [Certs -> CertRow \union {NoRow}] /\ certs'[c] = y /\ \A e \in Certs \ {c} : certs'[e] = certs[e]
  BY <1>1, <1>7, <1>10 DEF Tables
<1>13. Extends  BY <1>1, <1>7, SameExtends
<1>14. \A e \in Certs : certs'[e] = NoRow \/ RowOk(e, certs'[e])  BY <1>1, <1>11, <1>12 DEF RowsOk
<1>15. RowsOk'
  <2> SUFFICES ASSUME NEW e \in Certs PROVE certs'[e] = NoRow \/ RowOk(e, certs[e])'  BY DEF RowsOk
  <2>1. PICK z : z = certs'[e]  OBVIOUS
  <2>2. z = NoRow \/ RowOk(e, z)'  BY <1>1, <1>13, <1>14, <2>1, RowStable
  <2>. QED  BY <2>1, <2>2
<1>16. \A e \in Certs : Kept(e)  BY <1>5, <1>10, <1>11, <1>12, NoRowAssumption DEF Kept
<1>17. RowsKept
  <2> SUFFICES ASSUME NEW e \in Certs, Indexed(e) PROVE Indexed(e)' /\ certs'[e].idx = certs[e].idx  BY DEF RowsKept
  <2>1. certs[e] # NoRow /\ certs[e].idx \in Nat  BY DEF Indexed
  <2>2. certs'[e] # NoRow /\ certs'[e].idx = certs[e].idx  BY <1>16, <2>1 DEF Kept
  <2>3. RowOk(e, certs[e])'  BY <1>15, <2>2 DEF RowsOk
  <2>. QED  BY <2>1, <2>2, <2>3 DEF Indexed
<1>18. FinsOk'
  <2> SUFFICES ASSUME NEW e \in Certs PROVE FinOk(e, fin[e])'  BY DEF FinsOk
  <2>1. PICK f : f = fin[e] /\ f = fin'[e]  BY <1>7
  <2>2. FinOk(e, f)'  BY <1>1, <1>13, <1>16, <2>1, FinStable DEF FinsOk
  <2>. QED  BY <2>1, <2>2
<1>19. HeadsOk' /\ MarksOk'  BY <1>1, <1>7 DEF HeadsOk, CachedOk, HeadOk, MarksOk, MarkOk, MarkDerOk
<1>20. JobOk(w)
  <2>1. /\ w \in [pc : {"ck_build"}, ca : CAs, size : Nat, start : Nat, tree : Seq(LogLeaf), sigs : SUBSET Cosignature, todo : SUBSET Certs]
        /\ w.ca = k.ca /\ w.size = k.size /\ w.start = k.start /\ w.tree = k.tree /\ w.sigs = k.sigs /\ w.todo \subseteq k.todo
    BY <1>4
  <2> HIDE DEF w
  <2>2. Span(w)  BY <1>4, <2>1 DEF Span
  <2>. QED  BY <1>4, <2>1, <2>2 DEF JobOk, Building
<1> HIDE DEF w
<1>21. JobsOk'
  <2> SUFFICES ASSUME NEW i \in Jobs PROVE JobOk(job[i])'  BY DEF JobsOk
  <2>1. PICK v : v = job'[i]  OBVIOUS
  <2>2. JobOk(v)  BY <1>1, <1>7, <1>20, <2>1 DEF JobsOk, Tables
  <2>3. JobOk(v)'  BY <1>1, <1>13, <1>17, <2>2, JobStable
  <2>. QED  BY <2>1, <2>3
<1>22. Tables'
  <2>1. job' = [i \in Jobs |-> job'[i]] /\ DOMAIN job' = Jobs  BY <1>1, <1>7 DEF Tables
  <2>. QED  BY <1>1, <1>7, <1>12, <2>1 DEF Tables
<1>. QED  BY <1>15, <1>18, <1>19, <1>21, <1>22 DEF LogInv

LEMMA CkBuiltKeeps ==
    ASSUME LogInv, NEW j \in Jobs, CkBuilt(j)
    PROVE  LogInv'
<1>1. Tables /\ JobsOk /\ runs' \in 0..MaxRuns  BY DEF LogInv, CkBuilt, Tables
<1>2. PICK k : k = job[j]  OBVIOUS
<1>3. k.ca \in CAs  BY <1>1, <1>2, JobAt DEF JobsOk, CkBuilt, Building
<1>4. JobOk([pc |-> "ck_prune", ca |-> k.ca])  BY <1>3 DEF JobOk, Pruning
<1>. QED  BY <1>1, <1>2, <1>4, JobAlone DEF CkBuilt

-----------------------------------------------------------------------------
(* Landmarks.                                                              *)
LEMMA LmLatestKeeps ==
    ASSUME LogInv, NEW j \in Jobs, LmLatest(j)
    PROVE  LogInv'
<1>1. Tables /\ JobsOk /\ runs' \in 0..MaxRuns  BY DEF LogInv, LmLatest, Tables
<1>2. PICK k : k = job[j]  OBVIOUS
<1>3. Sized(k)  BY <1>1, <1>2, JobAt DEF JobsOk, LmLatest
<1> DEFINE w == [k EXCEPT !.pc = "lm_rep"]
<1>4. job' = [job EXCEPT ![j] = IdleJob] \/ job' = [job EXCEPT ![j] = w]  BY <1>2 DEF LmLatest
<1>5. w \in [pc : {"ck_latest", "lm_latest", "lm_rep"}, ca : CAs, size : Nat] /\ w.ca = k.ca /\ w.size = k.size  BY <1>3 DEF Sized
<1> HIDE DEF w
<1>6. JobOk(w) /\ JobOk(IdleJob)  BY <1>3, <1>5 DEF JobOk, Sized
<1>. QED  BY <1>1, <1>4, <1>6, JobAlone DEF LmLatest

LEMMA LmRepresentativeKeeps ==
    ASSUME LogInv, NEW j \in Jobs, LmRepresentative(j)
    PROVE  LogInv'
<1>1. Tables /\ RowsOk /\ JobsOk /\ runs' \in 0..MaxRuns  BY DEF LogInv, LmRepresentative, Tables
<1>2. PICK k : k = job[j]  OBVIOUS
<1>3. Sized(k)  BY <1>1, <1>2, JobAt DEF JobsOk, LmRepresentative
<1>4. CASE job' = [job EXCEPT ![j] = IdleJob]
  <2>1. JobOk(IdleJob)  BY DEF JobOk
  <2>. QED  BY <1>1, <1>4, <2>1, JobAlone DEF LmRepresentative
<1>5. ASSUME NEW c \in Representatives(k.size),
             job' = [job EXCEPT ![j] = [pc |-> "lm_insert", ca |-> k.ca, size |-> k.size, rep |-> c]]
      PROVE  LogInv'
  <2>1. c \in Certs /\ certs[c] # NoRow /\ certs[c].idx # NoIndex /\ certs[c].idx < k.size  BY <1>5 DEF Representatives
  <2>2. Indexed(c)
    <3>1. RowOk(c, certs[c]) /\ certs[c] \in CertRow  BY <1>1, <2>1 DEF RowsOk, RowOk
    <3>2. certs[c].idx \in Nat  BY <2>1, <3>1 DEF CertRow
    <3>. QED  BY <2>1, <3>1, <3>2 DEF Indexed
  <2> DEFINE w == [pc |-> "lm_insert", ca |-> k.ca, size |-> k.size, rep |-> c]
  <2>3. w \in [pc : {"lm_insert"}, ca : CAs, size : Nat, rep : Certs] /\ w.ca = k.ca /\ w.size = k.size /\ w.rep = c
    BY <1>3, <2>1 DEF Sized
  <2>4. job' = [job EXCEPT ![j] = w]  BY <1>5
  <2> HIDE DEF w
  <2>5. JobOk(w)  BY <1>3, <2>1, <2>2, <2>3 DEF JobOk, Marking, Sized
  <2>. QED  BY <1>1, <2>4, <2>5, JobAlone DEF LmRepresentative
<1>. QED  BY <1>2, <1>4, <1>5 DEF LmRepresentative

(* Steps of a job that change the landmarks of its CA.                     *)
LEMMA MarksStep ==
    ASSUME LogInv, NEW j \in Jobs, NEW w, JobOk(w), job' = [job EXCEPT ![j] = w], NEW a \in CAs,
           NEW R, \A l \in R : MarkOk(a, l), NEW top \in Nat, \A l \in R : l.seq <= top, lmarks' = [lmarks EXCEPT ![a] = R],
           UNCHANGED <<leaves, rootCache, fin, certs, ckpts, runs>>
    PROVE  LogInv'
<1>1. Tables /\ HeadsOk /\ MarksOk  BY DEF LogInv
<1>2. /\ ckpts' \in [CAs -> SUBSET Checkpoint] /\ runs' \in 0..MaxRuns
      /\ rootCache' = [ca \in CAs |-> rootCache'[ca]] /\ lmarks' = [ca \in CAs |-> lmarks'[ca]]
  BY <1>1 DEF Tables
<1>3. HeadsOk'  BY <1>1 DEF HeadsOk, CachedOk, HeadOk
<1>4. \A ca \in CAs : \A l : MarkOk(ca, l) => MarkOk(ca, l)'  BY <1>1, SameExtends, MarkStable
<1>5. MarksOk'
  <2> SUFFICES ASSUME NEW ca \in CAs
              PROVE  (\A l \in lmarks'[ca] : MarkOk(ca, l)') /\ \E b \in Nat : \A l \in lmarks'[ca] : l.seq <= b
    BY DEF MarksOk
  <2>1. CASE ca = a  BY <1>1, <1>4, <2>1 DEF Tables
  <2>2. CASE ca # a
    <3>1. lmarks'[ca] = lmarks[ca]  BY <1>1, <2>2 DEF Tables
    <3>. QED  BY <1>1, <1>4, <3>1 DEF MarksOk
  <2>. QED  BY <2>1, <2>2
<1>. QED  BY <1>2, <1>3, <1>5, JobStep

(* The next sequence number is beyond every other.                         *)
LEMMA NextSeq ==
    ASSUME MarksOk, NEW ca \in CAs
    PROVE  NextSequenceNo(ca) \in Nat /\ \A l \in lmarks[ca] : l.seq \in Nat /\ l.seq < NextSequenceNo(ca)
<1> DEFINE S == {l.seq : l \in lmarks[ca]}
<1>1. PICK b \in Nat : \A l \in lmarks[ca] : l.seq <= b  BY DEF MarksOk
<1>2. \A l \in lmarks[ca] : l.seq \in Nat  BY DEF MarksOk, MarkOk
<1>3. CASE lmarks[ca] = {}  BY <1>3 DEF NextSequenceNo
<1>4. CASE lmarks[ca] # {}
  <2>1. S \subseteq Nat /\ \A x \in S : x <= b  BY <1>1, <1>2
  <2>2. S # {}
    <3>1. PICK l : l \in lmarks[ca]  BY <1>4
    <3>2. l.seq \in S  BY <3>1
    <3>. QED  BY <3>2
  <2>3. SetMax(S) \in S /\ \A y \in S : y <= SetMax(S)  BY <2>1, <2>2, Greatest
  <2>4. NextSequenceNo(ca) = SetMax(S) + 1  BY <1>4 DEF NextSequenceNo
  <2>5. \A l \in lmarks[ca] : l.seq \in S  OBVIOUS
  <2>6. SetMax(S) \in Nat  BY <2>1, <2>3
  <2> HIDE DEF S
  <2>. QED  BY <1>2, <2>3, <2>4, <2>5, <2>6
<1>. QED  BY <1>3, <1>4

LEMMA LmInsertKeeps ==
    ASSUME LogInv, NEW j \in Jobs, LmInsert(j)
    PROVE  LogInv'
<1>1. Tables /\ MarksOk /\ JobsOk /\ runs' \in 0..MaxRuns  BY DEF LogInv, LmInsert, Tables
<1>2. PICK k : k = job[j]  OBVIOUS
<1>3. Marking(k) /\ k.pc = "lm_insert"  BY <1>1, <1>2, JobAt DEF JobsOk, LmInsert
<1>4. k.ca \in CAs /\ k.size \in Nat /\ k.rep \in Certs /\ k.size \in 1..Len(leaves[k.ca]) /\ Indexed(k.rep) /\ certs[k.rep].idx < k.size
  BY <1>3 DEF Marking
<1>5. CASE job' = [job EXCEPT ![j] = IdleJob] /\ UNCHANGED lmarks
  <2>1. JobOk(IdleJob)  BY DEF JobOk
  <2>. QED  BY <1>1, <1>5, <2>1, JobAlone DEF LmInsert
<1>6. CASE ~(\E l \in lmarks[k.ca] : l.size = k.size)
  <2>1. PICK q \in Nat : q = NextSequenceNo(k.ca) /\ \A l \in lmarks[k.ca] : l.seq \in Nat /\ l.seq < q  BY <1>1, <1>4, NextSeq
  <2> DEFINE n == [seq |-> q, size |-> k.size, der |-> NotBuilt]
             R == lmarks[k.ca] \cup {n}
             w == [pc |-> "lm_build", ca |-> k.ca, size |-> k.size, rep |-> k.rep, seq |-> q]
  <2>2. lmarks' = [lmarks EXCEPT ![k.ca] = R] /\ job' = [job EXCEPT ![j] = w] /\ UNCHANGED <<leaves, rootCache, fin, certs, ckpts, runs>>
    BY <1>1, <1>2, <1>4, <1>6, <2>1 DEF LmInsert, Tables
  <2>3. n \in [seq : Nat, size : Nat, der : MarkDer \union {NotBuilt}] /\ n.seq = q /\ n.size = k.size /\ n.der = NotBuilt  BY <1>4
  <2> HIDE DEF n
  <2>4. (\A l \in R : MarkOk(k.ca, l)) /\ \A l \in R : l.seq <= q
    <3>1. MarkOk(k.ca, n)  BY <1>4, <2>3 DEF MarkOk
    <3>2. \A l \in lmarks[k.ca] : MarkOk(k.ca, l) /\ l.seq <= q  BY <1>1, <1>4, <2>1 DEF MarksOk
    <3>. QED  BY <2>3, <3>1, <3>2
  <2>5. /\ w \in [pc : {"lm_build"}, ca : CAs, size : Nat, rep : Certs, seq : Nat]
        /\ w.ca = k.ca /\ w.size = k.size /\ w.rep = k.rep
    BY <1>4
  <2> HIDE DEF w, R
  <2>6. JobOk(w)  BY <1>4, <2>5 DEF JobOk, Marking
  <2>. QED  BY <1>4, <2>2, <2>4, <2>6, MarksStep
<1>. QED  BY <1>2, <1>5, <1>6 DEF LmInsert

(* The landmark's certificate is built over the first size leaves.         *)
LEMMA LmBuildKeeps ==
    ASSUME LogInv, Numbered, NEW j \in Jobs, LmBuild(j)
    PROVE  LogInv'
<1>1. Tables /\ MarksOk /\ JobsOk  BY DEF LogInv
<1>2. PICK k : k = job[j]  OBVIOUS
<1>3. Marking(k) /\ k.pc = "lm_build"  BY <1>1, <1>2, JobAt DEF JobsOk, LmBuild
<1>4. k.ca \in CAs /\ k.size \in Nat /\ k.rep \in Certs /\ k.size \in 1..Len(leaves[k.ca]) /\ Indexed(k.rep) /\ certs[k.rep].idx < k.size
  BY <1>3 DEF Marking
<1>5. PICK d : d = [cert |-> k.rep, idx |-> certs[k.rep].idx, start |-> 0, end |-> k.size, tree |-> SubSeq(leaves[k.ca], 1, k.size)]
  OBVIOUS
<1>6. build_landmark_cert_der(k.rep, certs[k.rep].idx, k.size, LandmarkTree(k.ca, k.size)) = d
  <2>1. LandmarkTree(k.ca, k.size) = SubSeq(leaves[k.ca], 1, k.size)  BY DEF LandmarkTree, Range0
  <2>. QED  BY <1>5, <2>1 DEF build_landmark_cert_der
<1>7. d \in MarkDer /\ d.cert = k.rep /\ d.idx = certs[k.rep].idx /\ d.end = k.size /\ d.tree = SubSeq(leaves[k.ca], 1, k.size)
  <2>1. leaves[k.ca] \in Seq(LogLeaf) /\ k.size <= Len(leaves[k.ca])  BY <1>1, <1>4 DEF Tables
  <2>2. SubSeq(leaves[k.ca], 0 + 1, k.size) \in Seq(LogLeaf)  BY <1>4, <2>1, SubSeqType
  <2>3. SubSeq(leaves[k.ca], 1, k.size) \in Seq(LogLeaf)  BY <2>2
  <2>4. certs[k.rep].idx \in Nat  BY <1>4 DEF Indexed
  <2>. QED  BY <1>4, <1>5, <2>3, <2>4 DEF MarkDer
<1>8. MarkDerOk(k.ca, k.size, d)
  <2>1. IndexOk(k.rep, certs[k.rep].ca, certs[k.rep].idx) /\ certs[k.rep].idx \in Nat /\ certs[k.rep].ca \in CAs
    BY <1>4 DEF Indexed, RowOk, CertRow
  <2>2. \E b \in CAs : d.idx < Len(leaves[b]) /\ leaves[b][d.idx + 1] = d.cert  BY <1>7, <2>1 DEF IndexOk, NoIndex
  <2>. QED  BY <1>4, <1>7, <2>2 DEF MarkDerOk
<1> DEFINE Set(l) == IF l.seq = k.seq THEN [l EXCEPT !.der = d] ELSE l
           R == {Set(l) : l \in lmarks[k.ca]}
<1>9. ASSUME NEW l \in lmarks[k.ca]
      PROVE  MarkOk(k.ca, Set(l)) /\ Set(l).seq = l.seq /\ Set(l).size = l.size
  <2>1. l \in [seq : Nat, size : Nat, der : MarkDer \union {NotBuilt}] /\ MarkOk(k.ca, l)  BY <1>1, <1>4 DEF MarksOk, MarkOk
  <2>2. l.seq = k.seq => l.size = k.size  BY <1>2, <1>3 DEF Numbered, Held
  <2>3. /\ Set(l) \in [seq : Nat, size : Nat, der : MarkDer \union {NotBuilt}] /\ Set(l).seq = l.seq /\ Set(l).size = l.size
        /\ Set(l).der = IF l.seq = k.seq THEN d ELSE l.der
    BY <1>7, <2>1
  <2> HIDE DEF Set
  <2>. QED  BY <1>8, <2>1, <2>2, <2>3 DEF MarkOk
<1>10. PICK w \in {IdleJob, [pc |-> "lm_prune", ca |-> k.ca]} : job' = [job EXCEPT ![j] = w]  BY <1>2 DEF LmBuild
<1>11. JobOk(w)  BY <1>4 DEF JobOk, Pruning
<1>12. lmarks' = [lmarks EXCEPT ![k.ca] = R] /\ UNCHANGED <<leaves, rootCache, fin, certs, ckpts, runs>>
  <2>1. job[j] = k  BY <1>2
  <2>. QED  BY <1>6, <2>1 DEF LmBuild
<1>13. PICK top \in Nat : \A l \in lmarks[k.ca] : l.seq <= top  BY <1>1, <1>4 DEF MarksOk
<1>14. (\A l \in R : MarkOk(k.ca, l)) /\ \A l \in R : l.seq <= top  BY <1>9, <1>13
<1> HIDE DEF R
<1>. QED  BY <1>4, <1>10, <1>11, <1>12, <1>14, MarksStep

LEMMA LmDoneKeeps ==
    ASSUME LogInv, NEW j \in Jobs, LmDone(j)
    PROVE  LogInv'
<1>1. Tables /\ MarksOk /\ JobsOk  BY DEF LogInv
<1>2. PICK k : k = job[j]  OBVIOUS
<1>3. k.ca \in CAs  BY <1>1, <1>2, JobAt DEF JobsOk, LmDone, Pruning
<1> DEFINE R == prune_landmarks(lmarks[k.ca], MaxActive)
<1>4. R \subseteq lmarks[k.ca]  BY DEF prune_landmarks
<1>5. lmarks' = [lmarks EXCEPT ![k.ca] = R] /\ job' = [job EXCEPT ![j] = IdleJob] /\ UNCHANGED <<leaves, rootCache, fin, certs, ckpts, runs>>
  BY <1>1, <1>2, <1>3 DEF LmDone, Tables
<1> HIDE DEF R
<1>6. PICK top \in Nat : \A l \in lmarks[k.ca] : l.seq <= top  BY <1>1, <1>3 DEF MarksOk
<1>7. (\A l \in R : MarkOk(k.ca, l)) /\ \A l \in R : l.seq <= top  BY <1>1, <1>3, <1>4, <1>6 DEF MarksOk
<1>8. JobOk(IdleJob)  BY DEF JobOk
<1>. QED  BY <1>3, <1>5, <1>7, <1>8, MarksStep

-----------------------------------------------------------------------------
(* Readers and restarts.                                                   *)
LEMMA ReadRootKeeps ==
    ASSUME LogInv, NEW a \in CAs, ReadRoot(a)
    PROVE  LogInv'
<1>1. Tables /\ RowsOk /\ FinsOk /\ HeadsOk /\ MarksOk /\ JobsOk  BY DEF LogInv
<1>2. PICK h : h = tree_size_and_root(a)  OBVIOUS
<1>3. rootCache' = [rootCache EXCEPT ![a] = h] /\ UNCHANGED <<leaves, fin, certs, ckpts, lmarks, job, runs>>  BY <1>2 DEF ReadRoot
<1>4. CachedOk(a, h)
  <2>1. CASE h = rootCache[a]  BY <1>1, <2>1 DEF HeadsOk
  <2>2. CASE h # rootCache[a]
    <3>1. PICK s \in Seq(LogLeaf) : s = leaves[a] /\ Len(s) >= 1  BY <1>1 DEF Tables
    <3>2. PICK n \in Nat : n = Len(s)  BY <3>1
    <3>3. Range0(a, 0, n) = SubSeq(s, 1, n) /\ TreeSize(a) = n  BY <3>1, <3>2 DEF Range0, TreeSize
    <3>4. h = [size |-> n, root |-> SubSeq(s, 1, n)]  BY <1>2, <2>2, <3>3 DEF tree_size_and_root
    <3>5. SubSeq(s, 1, n) \in Seq(LogLeaf)  BY <3>1, <3>2
    <3>6. h \in [size : Nat, root : Seq(LogLeaf)] /\ h.size = n /\ h.root = SubSeq(s, 1, n)  BY <3>4, <3>5
    <3>. QED  BY <3>1, <3>2, <3>6 DEF CachedOk, HeadOk
  <2>. QED  BY <2>1, <2>2
<1>5. HeadsOk'
  <2> SUFFICES ASSUME NEW ca \in CAs PROVE CachedOk(ca, rootCache[ca])' /\ \A r \in ckpts[ca] : HeadOk(ca, r.size, r.root)'
    BY <1>3 DEF HeadsOk
  <2>1. PICK x : x = rootCache'[ca]  OBVIOUS
  <2>2. CachedOk(ca, x)  BY <1>1, <1>3, <1>4, <2>1 DEF Tables, HeadsOk
  <2>3. CachedOk(ca, x)'  BY <1>3, <2>2 DEF CachedOk, HeadOk
  <2>4. CachedOk(ca, rootCache[ca])'  BY <2>1, <2>3
  <2>. QED  BY <1>1, <1>3, <2>4 DEF HeadsOk, HeadOk
<1>6. Tables'
  <2>1. rootCache' = [ca \in CAs |-> rootCache'[ca]] /\ DOMAIN rootCache' = CAs  BY <1>1, <1>3 DEF Tables
  <2>. QED  BY <1>1, <1>3, <2>1 DEF Tables
<1>7. RowsOk' /\ FinsOk'  BY <1>1, <1>3 DEF RowsOk, RowOk, IndexOk, DerOk, OfLog, FinsOk, FinOk
<1>8. MarksOk'  BY <1>1, <1>3 DEF MarksOk, MarkOk, MarkDerOk
<1>9. JobsOk'
  <2>1. Extends /\ RowsKept  BY <1>1, <1>3, SameExtends, SameRows
  <2> SUFFICES ASSUME NEW i \in Jobs PROVE JobOk(job[i])'  BY DEF JobsOk
  <2>2. PICK k : k = job[i] /\ k = job'[i]  BY <1>3
  <2>3. JobOk(k)'  BY <1>1, <2>1, <2>2, JobStable DEF JobsOk
  <2>. QED  BY <2>2, <2>3
<1>. QED  BY <1>5, <1>6, <1>7, <1>8, <1>9 DEF LogInv

LEMMA RestartKeeps ==
    ASSUME LogInv, Restart
    PROVE  LogInv'
<1>1. Tables /\ RowsOk /\ HeadsOk /\ MarksOk  BY DEF LogInv
<1>2. /\ fin' = [c \in Certs |-> IdleFin] /\ job' = [j \in Jobs |-> IdleJob] /\ rootCache' = [ca \in CAs |-> NoRow]
      /\ UNCHANGED <<leaves, certs, ckpts, lmarks, runs>>
  BY DEF Restart
<1>3. Tables'  BY <1>1, <1>2 DEF Tables
<1>4. RowsOk'  BY <1>1, <1>2 DEF RowsOk, RowOk, IndexOk, DerOk, OfLog
<1>5. FinsOk'  BY <1>2 DEF FinsOk, FinOk
<1>6. HeadsOk'  BY <1>1, <1>2 DEF HeadsOk, CachedOk, HeadOk
<1>7. MarksOk'  BY <1>1, <1>2 DEF MarksOk, MarkOk, MarkDerOk
<1>8. JobsOk'  BY <1>2 DEF JobsOk, JobOk
<1>. QED  BY <1>3, <1>4, <1>5, <1>6, <1>7, <1>8 DEF LogInv

LEMMA LogInvNext ==
    ASSUME LogInv, Numbered, [Next]_mvars
    PROVE  LogInv'
<1>1. ASSUME NEW c \in Certs, FinNext(c) PROVE LogInv'
  <2>1. ASSUME NEW ca \in CAs, FinAppend(c, ca) PROVE LogInv'  BY <2>1, FinAppendKeeps
  <2>2. ASSUME NEW ca \in CAs, FinAppendFails(c, ca) PROVE LogInv'  BY <2>2, FinAppendFailsKeeps
  <2>. QED  BY <1>1, <2>1, <2>2, FinProofKeeps, FinPersistKeeps, FinPersistFailsKeeps, FinStoreKeeps DEF FinNext
<1>2. ASSUME NEW j \in Jobs, CkNext(j) PROVE LogInv'
  <2>1. ASSUME NEW ca \in CAs, spawn_checkpoint_task(j, ca) \/ post_force_checkpoint(j, ca) PROVE LogInv'
    BY <2>1, StartKeeps DEF spawn_checkpoint_task, post_force_checkpoint
  <2>2. ASSUME NEW c \in Certs, CkBuild(j, c) PROVE LogInv'  BY <2>2, CkBuildKeeps
  <2>. QED
    BY <1>2, <2>1, <2>2, CkLatestKeeps, CkPendingKeeps, CkSignKeeps, CkStoreKeeps, CkCosignKeeps, CkBuiltKeeps, CkDoneKeeps DEF CkNext
<1>3. ASSUME NEW j \in Jobs, LmNext(j) PROVE LogInv'
  <2>1. ASSUME NEW ca \in CAs, spawn_landmark_task(j, ca) \/ post_force_landmark(j, ca) PROVE LogInv'
    BY <2>1, StartKeeps DEF spawn_landmark_task, post_force_landmark
  <2>. QED  BY <1>3, <2>1, LmLatestKeeps, LmRepresentativeKeeps, LmInsertKeeps, LmBuildKeeps, LmDoneKeeps DEF LmNext
<1>4. ASSUME NEW ca \in CAs, ReadRoot(ca) PROVE LogInv'  BY <1>4, ReadRootKeeps
<1>5. CASE UNCHANGED mvars
  <2>1. Tables /\ RowsOk /\ FinsOk /\ HeadsOk /\ MarksOk /\ JobsOk  BY DEF LogInv
  <2>2. UNCHANGED <<leaves, rootCache, fin, certs, ckpts, lmarks, job, runs>>  BY <1>5 DEF mvars
  <2>3. Tables'  BY <2>1, <2>2 DEF Tables
  <2>4. RowsOk' /\ FinsOk'  BY <2>1, <2>2 DEF RowsOk, RowOk, IndexOk, DerOk, OfLog, FinsOk, FinOk
  <2>5. HeadsOk' /\ MarksOk'  BY <2>1, <2>2 DEF HeadsOk, CachedOk, HeadOk, MarksOk, MarkOk, MarkDerOk
  <2>6. JobsOk'
    <3>1. Extends /\ RowsKept  BY <2>1, <2>2, SameExtends, SameRows
    <3> SUFFICES ASSUME NEW i \in Jobs PROVE JobOk(job[i])'  BY DEF JobsOk
    <3>2. PICK k : k = job[i] /\ k = job'[i]  BY <2>2
    <3>3. JobOk(k)'  BY <2>1, <3>1, <3>2, JobStable DEF JobsOk
    <3>. QED  BY <3>2, <3>3
  <2>. QED  BY <2>3, <2>4, <2>5, <2>6 DEF LogInv
<1>. QED  BY <1>1, <1>2, <1>3, <1>4, <1>5, RestartKeeps DEF Next
-----------------------------------------------------------------------------
(* What a step does to the landmarks: it rewrites rows, keeping numbers    *)
(* and sizes and one row with the highest number (building, pruning), or   *)
(* it inserts one under a number beyond all others.                        *)
NoNewBuild(i) == job'[i] = job[i] \/ job'[i].pc # "lm_build"
Rewritten ==
    /\ \A i \in Jobs : NoNewBuild(i)
    /\ \A ca \in CAs : /\ \A l \in lmarks'[ca] : \E m \in lmarks[ca] : m.seq = l.seq /\ m.size = l.size
                       /\ \A m \in lmarks[ca] : \E l \in lmarks'[ca] : m.seq <= l.seq
Inserted(j, a, n) ==
    /\ \A i \in Jobs \ {j} : NoNewBuild(i)
    /\ job'[j].ca = a /\ job'[j].seq = n.seq /\ job'[j].size = n.size
    /\ \A ca \in CAs \ {a} : lmarks'[ca] = lmarks[ca]
    /\ lmarks'[a] = lmarks[a] \cup {n} /\ n.seq \in Nat
    /\ \A m \in lmarks[a] : m.seq < n.seq /\ m.size # n.size
MarkStep == Rewritten \/ \E j \in Jobs, a \in CAs : \E n : Inserted(j, a, n)

LEMMA MarksSame ==
    ASSUME LogInv, lmarks' = lmarks, \A i \in Jobs : NoNewBuild(i)
    PROVE  Rewritten
<1>1. \A ca \in CAs : \A l \in lmarks[ca] : l.seq \in Nat  BY DEF LogInv, MarksOk, MarkOk
<1>. QED  BY <1>1 DEF Rewritten

LEMMA OneJob ==
    ASSUME LogInv, NEW j \in Jobs, NEW w, job' = [job EXCEPT ![j] = w], w.pc # "lm_build"
    PROVE  \A i \in Jobs : NoNewBuild(i)
  BY DEF LogInv, Tables, NoNewBuild

(* The row with the highest number survives the pruning, and so does the   *)
(* largest checkpoint.                                                     *)
LEMMA PruneMarksKeeps ==
    ASSUME NEW rows, NEW b \in Nat, \A l \in rows : l.seq \in Nat /\ l.seq <= b, NEW keep \in Nat
    PROVE  \A m \in rows : \E l \in prune_landmarks(rows, keep) : m.seq <= l.seq
<1> SUFFICES ASSUME NEW m \in rows PROVE \E l \in prune_landmarks(rows, keep) : m.seq <= l.seq  OBVIOUS
<1> DEFINE S == {l.seq : l \in rows}
<1>1. S \subseteq Nat /\ S # {} /\ \A x \in S : x <= b  OBVIOUS
<1>2. SetMax(S) \in S /\ \A y \in S : y <= SetMax(S)  BY <1>1, Greatest
<1>3. PICK l \in rows : l.seq = SetMax(S)  BY <1>2
<1>4. \A x \in rows : x.seq <= l.seq
  <2>1. \A x \in rows : x.seq \in S  OBVIOUS
  <2> HIDE DEF S
  <2>. QED  BY <1>2, <1>3, <2>1
<1>5. {x \in rows : x.seq > l.seq} = {}  BY <1>4
<1>6. Cardinality({x \in rows : x.seq > l.seq}) = 0  BY <1>5, FS_EmptySet
<1>7. l \in prune_landmarks(rows, keep)  BY <1>6 DEF prune_landmarks
<1>. QED  BY <1>4, <1>7

LEMMA PruneHeadsKeeps ==
    ASSUME NEW rows, NEW b \in Nat, \A r \in rows : r.size \in Nat /\ r.size <= b, NEW keep \in Nat
    PROVE  \A r \in rows : \E s \in prune_oldest(rows, keep) : r.size <= s.size
<1> SUFFICES ASSUME NEW m \in rows PROVE \E l \in prune_oldest(rows, keep) : m.size <= l.size  OBVIOUS
<1> DEFINE S == {l.size : l \in rows}
<1>1. S \subseteq Nat /\ S # {} /\ \A x \in S : x <= b  OBVIOUS
<1>2. SetMax(S) \in S /\ \A y \in S : y <= SetMax(S)  BY <1>1, Greatest
<1>3. PICK l \in rows : l.size = SetMax(S)  BY <1>2
<1>4. \A x \in rows : x.size <= l.size
  <2>1. \A x \in rows : x.size \in S  OBVIOUS
  <2> HIDE DEF S
  <2>. QED  BY <1>2, <1>3, <2>1
<1>5. {x \in rows : x.size > l.size} = {}  BY <1>4
<1>6. Cardinality({x \in rows : x.size > l.size}) = 0  BY <1>5, FS_EmptySet
<1>7. l \in prune_oldest(rows, keep)  BY <1>6 DEF prune_oldest
<1>. QED  BY <1>4, <1>7

(* The numbers of ca's landmarks are naturals with a bound.                *)
LEMMA MarkNumbers ==
    ASSUME LogInv, NEW ca \in CAs
    PROVE  \E b \in Nat : \A l \in lmarks[ca] : l.seq \in Nat /\ l.seq <= b
<1>1. \A l \in lmarks[ca] : l.seq \in Nat  BY DEF LogInv, MarksOk, MarkOk
<1>. QED  BY <1>1 DEF LogInv, MarksOk

LEMMA LmInsertStep ==
    ASSUME LogInv, NEW j \in Jobs, LmInsert(j)
    PROVE  MarkStep
<1>1. Tables /\ MarksOk /\ JobsOk  BY DEF LogInv
<1>2. PICK k : k = job[j]  OBVIOUS
<1>3. Marking(k) /\ k.pc = "lm_insert"  BY <1>1, <1>2, JobAt DEF JobsOk, LmInsert
<1>4. k.ca \in CAs /\ k.size \in Nat  BY <1>3 DEF Marking
<1>5. CASE job' = [job EXCEPT ![j] = IdleJob] /\ UNCHANGED lmarks
  <2>1. IdleJob.pc # "lm_build"  BY DEF IdleJob
  <2>. QED  BY <1>5, <2>1, OneJob, MarksSame DEF MarkStep
<1>6. CASE ~(\E l \in lmarks[k.ca] : l.size = k.size)
  <2>1. PICK q \in Nat : q = NextSequenceNo(k.ca) /\ \A l \in lmarks[k.ca] : l.seq \in Nat /\ l.seq < q  BY <1>1, <1>4, NextSeq
  <2>2. PICK n : n = [seq |-> q, size |-> k.size, der |-> NotBuilt]  OBVIOUS
  <2>3. PICK w : w = [pc |-> "lm_build", ca |-> k.ca, size |-> k.size, rep |-> k.rep, seq |-> q]  OBVIOUS
  <2>4. lmarks' = [lmarks EXCEPT ![k.ca] = lmarks[k.ca] \cup {n}] /\ job' = [job EXCEPT ![j] = w]
    BY <1>1, <1>2, <1>4, <1>6, <2>1, <2>2, <2>3 DEF LmInsert, Tables
  <2>5. n.seq = q /\ n.size = k.size /\ w.ca = k.ca /\ w.seq = q /\ w.size = k.size  BY <2>2, <2>3
  <2>6. job'[j] = w /\ \A i \in Jobs \ {j} : job'[i] = job[i]  BY <1>1, <2>4 DEF Tables
  <2>7. lmarks'[k.ca] = lmarks[k.ca] \cup {n} /\ \A ca \in CAs \ {k.ca} : lmarks'[ca] = lmarks[ca]  BY <1>1, <1>4, <2>4 DEF Tables
  <2>8. Inserted(j, k.ca, n)  BY <1>6, <2>1, <2>5, <2>6, <2>7 DEF Inserted, NoNewBuild
  <2>. QED  BY <1>4, <2>8 DEF MarkStep
<1>. QED  BY <1>2, <1>5, <1>6 DEF LmInsert

LEMMA LmBuildStep ==
    ASSUME LogInv, NEW j \in Jobs, LmBuild(j)
    PROVE  MarkStep
<1>1. Tables /\ MarksOk /\ JobsOk  BY DEF LogInv
<1>2. PICK k : k = job[j]  OBVIOUS
<1>3. Marking(k) /\ k.pc = "lm_build"  BY <1>1, <1>2, JobAt DEF JobsOk, LmBuild
<1>4. k.ca \in CAs  BY <1>3 DEF Marking
<1>5. PICK d : d = build_landmark_cert_der(k.rep, certs[k.rep].idx, k.size, LandmarkTree(k.ca, k.size))  OBVIOUS
<1> DEFINE Set(l) == IF l.seq = k.seq THEN [l EXCEPT !.der = d] ELSE l
           R == {Set(l) : l \in lmarks[k.ca]}
<1>6. ASSUME NEW l \in lmarks[k.ca] PROVE Set(l).seq = l.seq /\ Set(l).size = l.size /\ l.seq \in Nat
  <2>1. l \in [seq : Nat, size : Nat, der : MarkDer \union {NotBuilt}]  BY <1>1, <1>4 DEF MarksOk, MarkOk
  <2>. QED  BY <2>1
<1>7. PICK w \in {IdleJob, [pc |-> "lm_prune", ca |-> k.ca]} : job' = [job EXCEPT ![j] = w]  BY <1>2 DEF LmBuild
<1>8. w.pc # "lm_build"  BY DEF IdleJob
<1>9. lmarks' = [lmarks EXCEPT ![k.ca] = R]
  <2>1. job[j] = k  BY <1>2
  <2>. QED  BY <1>5, <2>1 DEF LmBuild
<1>10. lmarks'[k.ca] = R /\ \A ca \in CAs \ {k.ca} : lmarks'[ca] = lmarks[ca]
  <2> HIDE DEF R
  <2>. QED  BY <1>1, <1>4, <1>9 DEF Tables
<1>11. /\ \A l \in R : \E m \in lmarks[k.ca] : m.seq = l.seq /\ m.size = l.size
       /\ \A m \in lmarks[k.ca] : \E l \in R : m.seq <= l.seq
  <2>1. \A l \in R : \E m \in lmarks[k.ca] : m.seq = l.seq /\ m.size = l.size
    <3> TAKE l \in R
    <3>1. PICK m \in lmarks[k.ca] : l = Set(m)  OBVIOUS
    <3> HIDE DEF Set
    <3>. QED  BY <1>6, <3>1
  <2>2. \A m \in lmarks[k.ca] : \E l \in R : m.seq <= l.seq
    <3> TAKE m \in lmarks[k.ca]
    <3>1. Set(m) \in R  OBVIOUS
    <3>2. Set(m).seq = m.seq /\ m.seq \in Nat  BY <1>6
    <3> HIDE DEF Set, R
    <3>. QED  BY <3>1, <3>2
  <2>. QED  BY <2>1, <2>2
<1>12. \A ca \in CAs : \A l \in lmarks[ca] : l.seq \in Nat  BY <1>1 DEF MarksOk, MarkOk
<1> HIDE DEF R
<1>13. \A i \in Jobs : NoNewBuild(i)  BY <1>7, <1>8, OneJob
<1>14. Rewritten  BY <1>10, <1>11, <1>12, <1>13 DEF Rewritten
<1>. QED  BY <1>14 DEF MarkStep

LEMMA LmDoneStep ==
    ASSUME LogInv, NEW j \in Jobs, LmDone(j)
    PROVE  MarkStep
<1>1. Tables /\ MarksOk /\ JobsOk  BY DEF LogInv
<1>2. PICK k : k = job[j]  OBVIOUS
<1>3. k.ca \in CAs  BY <1>1, <1>2, JobAt DEF JobsOk, LmDone, Pruning
<1> DEFINE R == prune_landmarks(lmarks[k.ca], MaxActive)
<1>4. R \subseteq lmarks[k.ca]  BY DEF prune_landmarks
<1>5. \A m \in lmarks[k.ca] : \E l \in R : m.seq <= l.seq  BY <1>3, MarkNumbers, PruneMarksKeeps, MtcAssumption
<1>6. lmarks' = [lmarks EXCEPT ![k.ca] = R] /\ job' = [job EXCEPT ![j] = IdleJob]  BY <1>1, <1>2, <1>3 DEF LmDone, Tables
<1> HIDE DEF R
<1>7. lmarks'[k.ca] = R /\ \A ca \in CAs \ {k.ca} : lmarks'[ca] = lmarks[ca]  BY <1>1, <1>3, <1>6 DEF Tables
<1>8. IdleJob.pc # "lm_build"  BY DEF IdleJob
<1>9. \A ca \in CAs : \A l \in lmarks[ca] : l.seq \in Nat  BY <1>1 DEF MarksOk, MarkOk
<1>10. \A i \in Jobs : NoNewBuild(i)  BY <1>6, <1>8, OneJob
<1>11. Rewritten
  <2> SUFFICES ASSUME NEW ca \in CAs
              PROVE  /\ \A l \in lmarks'[ca] : \E m \in lmarks[ca] : m.seq = l.seq /\ m.size = l.size
                     /\ \A m \in lmarks[ca] : \E l \in lmarks'[ca] : m.seq <= l.seq
    BY <1>10 DEF Rewritten
  <2>1. CASE ca = k.ca  BY <1>4, <1>5, <1>7, <2>1
  <2>2. CASE ca # k.ca  BY <1>7, <1>9, <2>2
  <2>. QED  BY <2>1, <2>2
<1>. QED  BY <1>11 DEF MarkStep
(* Every other step leaves the landmarks alone.                            *)
LEMMA EveryMarkStep ==
    ASSUME LogInv, [Next]_mvars
    PROVE  MarkStep
<1>1. \A i \in Jobs : job' = job => NoNewBuild(i)  BY DEF NoNewBuild
<1>2. ASSUME job' = job, lmarks' = lmarks PROVE MarkStep  BY <1>1, <1>2, MarksSame DEF MarkStep
<1>3. ASSUME NEW j \in Jobs, NEW w, w.pc # "lm_build", job' = [job EXCEPT ![j] = w], lmarks' = lmarks PROVE MarkStep
  BY <1>3, OneJob, MarksSame DEF MarkStep
<1>4. ASSUME NEW c \in Certs, FinNext(c) PROVE MarkStep
  BY <1>2, <1>4 DEF FinNext, FinAppend, FinAppendFails, FinProof, FinPersist, FinPersistFails, FinStore
<1>5. ASSUME NEW j \in Jobs, CkNext(j) PROVE MarkStep
  <2>1. ASSUME NEW ca \in CAs, CkStart(j, ca) PROVE MarkStep  BY <1>3, <2>1 DEF CkStart
  <2>2. CASE CkLatest(j)  BY <1>3, <2>2 DEF CkLatest
  <2>3. CASE CkPending(j)
    <3>1. PICK P : job' = [job EXCEPT ![j] = [pc |-> "ck_sign", ca |-> job[j].ca, size |-> job[j].size, prev |-> job[j].prev, pending |-> P]]
      BY <2>3 DEF CkPending
    <3>. QED  BY <1>3, <2>3, <3>1 DEF CkPending
  <2>4. CASE CkSign(j)
    <3>1. PICK n, s, t, R, P : job' = [job EXCEPT ![j] = [pc |-> "ck_store", ca |-> job[j].ca, size |-> n, start |-> s,
                                                          root |-> R, tree |-> t, todo |-> P]]
      BY <2>4 DEF CkSign
    <3>. QED  BY <1>3, <2>4, <3>1 DEF CkSign
  <2>5. CASE CkStore(j)
    <3>1. Signed(job[j])  BY <2>5, JobAt DEF LogInv, JobsOk, CkStore
    <3>2. PICK w : job' = [job EXCEPT ![j] = w] /\ w = [job[j] EXCEPT !.pc = "ck_cosign"]  BY <2>5 DEF CkStore
    <3>3. w.pc = "ck_cosign"  BY <3>1, <3>2 DEF Signed
    <3>. QED  BY <1>3, <2>5, <3>2, <3>3 DEF CkStore
  <2>6. CASE CkCosign(j)
    <3>1. PICK up : job' = [job EXCEPT ![j] = [pc |-> "ck_build", ca |-> job[j].ca, size |-> job[j].size, start |-> job[j].start,
                                               tree |-> job[j].tree, sigs |-> cosig_ders(job[j], up), todo |-> job[j].todo]]
      BY <2>6 DEF CkCosign
    <3>. QED  BY <1>3, <2>6, <3>1 DEF CkCosign
  <2>7. ASSUME NEW c \in Certs, CkBuild(j, c) PROVE MarkStep
    <3>1. Building(job[j])  BY <2>7, JobAt DEF LogInv, JobsOk, CkBuild
    <3>2. PICK w : job' = [job EXCEPT ![j] = w] /\ w = [job[j] EXCEPT !.todo = job[j].todo \ {c}]  BY <2>7 DEF CkBuild
    <3>3. w.pc = "ck_build"  BY <3>1, <3>2 DEF Building
    <3>. QED  BY <1>3, <2>7, <3>2, <3>3 DEF CkBuild
  <2>8. CASE CkBuilt(j)  BY <1>3, <2>8 DEF CkBuilt
  <2>9. CASE CkDone(j)  BY <1>3, <2>9 DEF CkDone, IdleJob
  <2>. QED
    BY <1>5, <2>1, <2>2, <2>3, <2>4, <2>5, <2>6, <2>7, <2>8, <2>9 DEF CkNext, spawn_checkpoint_task, post_force_checkpoint
<1>6. ASSUME NEW j \in Jobs, LmNext(j) PROVE MarkStep
  <2>1. ASSUME NEW ca \in CAs, LmStart(j, ca) PROVE MarkStep  BY <1>3, <2>1 DEF LmStart
  <2>2. CASE LmLatest(j)
    <3>1. Sized(job[j])  BY <2>2, JobAt DEF LogInv, JobsOk, LmLatest
    <3>2. PICK w : job' = [job EXCEPT ![j] = w] /\ (w = IdleJob \/ w = [job[j] EXCEPT !.pc = "lm_rep"])  BY <2>2 DEF LmLatest
    <3>3. w.pc # "lm_build"  BY <3>1, <3>2 DEF Sized, IdleJob
    <3>. QED  BY <1>3, <2>2, <3>2, <3>3 DEF LmLatest
  <2>3. CASE LmRepresentative(j)
    <3>1. PICK w : job' = [job EXCEPT ![j] = w] /\ w.pc # "lm_build"  BY <2>3 DEF LmRepresentative, IdleJob
    <3>. QED  BY <1>3, <2>3, <3>1 DEF LmRepresentative
  <2>. QED
    BY <1>6, <2>1, <2>2, <2>3, LmInsertStep, LmBuildStep, LmDoneStep DEF LmNext, spawn_landmark_task, post_force_landmark
<1>7. ASSUME NEW ca \in CAs, ReadRoot(ca) PROVE MarkStep  BY <1>2, <1>7 DEF ReadRoot
<1>8. CASE Restart
  <2>1. \A i \in Jobs : NoNewBuild(i)  BY <1>8 DEF Restart, NoNewBuild, IdleJob
  <2>. QED  BY <1>8, <2>1, MarksSame DEF MarkStep, Restart
<1>9. CASE UNCHANGED mvars  BY <1>2, <1>9 DEF mvars
<1>. QED  BY <1>4, <1>5, <1>6, <1>7, <1>8, <1>9 DEF Next

LEMMA NumberedNext ==
    ASSUME LogInv, Numbered, [Next]_mvars
    PROVE  Numbered'
<1> SUFFICES ASSUME NEW i \in Jobs, job'[i].pc = "lm_build"
            PROVE  Held(job[i].ca, job[i].seq, job[i].size)'
  BY DEF Numbered
<1>1. \A j \in Jobs : job[j].pc = "lm_build" => job[j].ca \in CAs /\ job[j].seq \in Nat
  BY JobAt DEF LogInv, JobsOk, Marking
<1>2. \A ca \in CAs : \A l \in lmarks[ca] : l.seq \in Nat  BY DEF LogInv, MarksOk, MarkOk
<1>3. CASE Rewritten
  <2>1. PICK k : k = job[i] /\ k = job'[i] /\ k.pc = "lm_build"  BY <1>3 DEF Rewritten, NoNewBuild
  <2>2. k.ca \in CAs /\ k.seq \in Nat /\ Held(k.ca, k.seq, k.size)  BY <1>1, <2>1 DEF Numbered
  <2>3. \A l \in lmarks'[k.ca] : l.seq = k.seq => l.size = k.size  BY <1>3, <2>2 DEF Rewritten, Held
  <2>4. \E l \in lmarks'[k.ca] : k.seq <= l.seq
    <3>1. PICK m \in lmarks[k.ca] : k.seq <= m.seq  BY <2>2 DEF Held
    <3>2. PICK l \in lmarks'[k.ca] : m.seq <= l.seq  BY <1>3, <2>2, <3>1 DEF Rewritten
    <3>3. l.seq \in Nat /\ m.seq \in Nat  BY <1>2, <1>3, <2>2 DEF Rewritten
    <3>. QED  BY <2>2, <3>1, <3>2, <3>3
  <2>. QED  BY <2>1, <2>3, <2>4 DEF Held
<1>4. ASSUME NEW j \in Jobs, NEW a \in CAs, NEW n, Inserted(j, a, n)
      PROVE  Held(job[i].ca, job[i].seq, job[i].size)'
  <2>1. CASE i = j
    <3>1. n \in lmarks'[a] /\ n.seq <= n.seq /\ \A l \in lmarks'[a] : l.seq = n.seq => l = n  BY <1>2, <1>4 DEF Inserted
    <3>. QED  BY <1>4, <2>1, <3>1 DEF Inserted, Held
  <2>2. CASE i # j
    <3>1. PICK k : k = job[i] /\ k = job'[i] /\ k.pc = "lm_build"  BY <1>4, <2>2 DEF Inserted, NoNewBuild
    <3>2. k.ca \in CAs /\ k.seq \in Nat /\ Held(k.ca, k.seq, k.size)  BY <1>1, <3>1 DEF Numbered
    <3>3. (\E l \in lmarks'[k.ca] : k.seq <= l.seq) /\ \A l \in lmarks'[k.ca] : l.seq = k.seq => l.size = k.size
      <4>1. CASE k.ca # a  BY <1>4, <3>2, <4>1 DEF Inserted, Held
      <4>2. CASE k.ca = a
        <5>1. PICK m \in lmarks[a] : k.seq <= m.seq  BY <3>2, <4>2 DEF Held
        <5>2. m.seq < n.seq /\ m.seq \in Nat /\ n.seq \in Nat  BY <1>2, <1>4, <5>1 DEF Inserted
        <5>3. n.seq # k.seq  BY <3>2, <5>1, <5>2
        <5>. QED  BY <1>4, <3>2, <4>2, <5>3 DEF Inserted, Held
      <4>. QED  BY <4>1, <4>2
    <3>. QED  BY <3>1, <3>3 DEF Held
  <2>. QED  BY <2>1, <2>2
<1>. QED  BY <1>3, <1>4, EveryMarkStep DEF MarkStep

(* Landmarks keep their numbers.                                           *)
LEMMA NumberingStep ==
    ASSUME LogInv, [Next]_mvars
    PROVE  LandmarkNumbering
<1> SUFFICES ASSUME NEW ca \in CAs, NEW l \in lmarks'[ca], l \notin lmarks[ca]
            PROVE  \/ \E m \in lmarks[ca] : m.seq = l.seq /\ m.size = l.size
                   \/ \A m \in lmarks[ca] : m.seq < l.seq /\ m.size # l.size
  BY DEF LandmarkNumbering
<1>1. CASE Rewritten  BY <1>1 DEF Rewritten
<1>2. ASSUME NEW j \in Jobs, NEW a \in CAs, NEW n, Inserted(j, a, n)
      PROVE  \/ \E m \in lmarks[ca] : m.seq = l.seq /\ m.size = l.size
             \/ \A m \in lmarks[ca] : m.seq < l.seq /\ m.size # l.size
  BY <1>2 DEF Inserted
<1>. QED  BY <1>1, <1>2, EveryMarkStep DEF MarkStep
-----------------------------------------------------------------------------
(* Every stored checkpoint is followed by one at least as large.           *)
HeadStep == \A ca \in CAs : \A r \in ckpts[ca] : \E s \in ckpts'[ca] : r.size <= s.size

LEMMA EveryHeadStep ==
    ASSUME LogInv, [Next]_mvars
    PROVE  HeadStep
<1>0. Tables /\ HeadsOk /\ JobsOk  BY DEF LogInv
<1>1. \A ca \in CAs : \A r \in ckpts[ca] : r \in Checkpoint /\ r.size \in Nat /\ r.size <= Len(leaves[ca]) /\ Len(leaves[ca]) \in Nat
  <2> SUFFICES ASSUME NEW ca \in CAs, NEW r \in ckpts[ca]
              PROVE  r \in Checkpoint /\ r.size \in Nat /\ r.size <= Len(leaves[ca]) /\ Len(leaves[ca]) \in Nat
    OBVIOUS
  <2>1. r \in Checkpoint /\ Len(leaves[ca]) \in Nat  BY <1>0 DEF Tables
  <2>2. r.size \in 1..Len(leaves[ca])  BY <1>0 DEF HeadsOk, HeadOk
  <2>. QED  BY <2>1, <2>2
<1>2. CASE UNCHANGED ckpts  BY <1>1, <1>2 DEF HeadStep
<1>3. ASSUME NEW a \in CAs, NEW R, ckpts' = [ckpts EXCEPT ![a] = R], \A r \in ckpts[a] : \E s \in R : r.size <= s.size
      PROVE  HeadStep
  <2>1. ckpts'[a] = R /\ \A ca \in CAs \ {a} : ckpts'[ca] = ckpts[ca]  BY <1>0, <1>3 DEF Tables
  <2>. QED  BY <1>1, <1>3, <2>1 DEF HeadStep
<1>4. ASSUME NEW j \in Jobs, CkStore(j) PROVE HeadStep
  <2>1. PICK k : k = job[j]  OBVIOUS
  <2>2. k.ca \in CAs  BY <1>0, <1>4, <2>1, JobAt DEF JobsOk, CkStore, Signed
  <2>3. PICK R : R = upsert_checkpoint(ckpts[k.ca], [size |-> k.size, root |-> k.root, cosigned |-> {}])  OBVIOUS
  <2>4. ckpts[k.ca] \subseteq R  BY <2>3 DEF upsert_checkpoint
  <2>5. ckpts' = [ckpts EXCEPT ![k.ca] = R]  BY <1>0, <1>4, <2>1, <2>2, <2>3 DEF CkStore, Tables
  <2>6. \A r \in ckpts[k.ca] : \E s \in R : r.size <= s.size  BY <1>1, <2>2, <2>4
  <2>. QED  BY <1>3, <2>2, <2>5, <2>6
<1>5. ASSUME NEW j \in Jobs, CkCosign(j) PROVE HeadStep
  <2>1. PICK k : k = job[j]  OBVIOUS
  <2>2. k.ca \in CAs  BY <1>0, <1>5, <2>1, JobAt DEF JobsOk, CkCosign, Signed
  <2>3. PICK G : ckpts' = [ckpts EXCEPT ![k.ca] = upsert_cosignatures(ckpts[k.ca], k.size, G)]
    BY <1>0, <1>5, <2>1, <2>2 DEF CkCosign, Tables
  <2>4. PICK R : R = upsert_cosignatures(ckpts[k.ca], k.size, G)  OBVIOUS
  <2>5. \A r \in ckpts[k.ca] : \E s \in R : r.size <= s.size
    <3> TAKE r \in ckpts[k.ca]
    <3> DEFINE s == IF r.size = k.size THEN [r EXCEPT !.cosigned = @ \cup {g.by : g \in G}] ELSE r
    <3>1. s \in R  BY <2>4 DEF upsert_cosignatures
    <3>2. r \in Checkpoint /\ r.size \in Nat  BY <1>1, <2>2
    <3>3. s.size = r.size  BY <3>2 DEF Checkpoint
    <3> HIDE DEF s
    <3>. QED  BY <3>1, <3>2, <3>3
  <2>. QED  BY <1>3, <2>2, <2>3, <2>4, <2>5
<1>6. ASSUME NEW j \in Jobs, CkDone(j) PROVE HeadStep
  <2>1. PICK k : k = job[j]  OBVIOUS
  <2>2. k.ca \in CAs  BY <1>0, <1>6, <2>1, JobAt DEF JobsOk, CkDone, Pruning
  <2>3. PICK R : R = prune_oldest(ckpts[k.ca], RetentionCount)  OBVIOUS
  <2>4. ckpts' = [ckpts EXCEPT ![k.ca] = R]  BY <1>0, <1>6, <2>1, <2>2, <2>3 DEF CkDone, Tables
  <2>5. Len(leaves[k.ca]) \in Nat  BY <1>0, <2>2 DEF Tables
  <2>6. \A r \in ckpts[k.ca] : \E s \in R : r.size <= s.size  BY <1>1, <2>2, <2>3, <2>5, PruneHeadsKeeps, MtcAssumption
  <2>. QED  BY <1>3, <2>2, <2>4, <2>6
<1>7. ASSUME NEW c \in Certs, FinNext(c) PROVE HeadStep
  BY <1>2, <1>7 DEF FinNext, FinAppend, FinAppendFails, FinProof, FinPersist, FinPersistFails, FinStore
<1>8. ASSUME NEW j \in Jobs, CkNext(j) PROVE HeadStep
  BY <1>2, <1>4, <1>5, <1>6, <1>8
     DEF CkNext, spawn_checkpoint_task, post_force_checkpoint, CkStart, CkLatest, CkPending, CkSign, CkBuild, CkBuilt
<1>9. ASSUME NEW j \in Jobs, LmNext(j) PROVE HeadStep
  BY <1>2, <1>9
     DEF LmNext, spawn_landmark_task, post_force_landmark, LmStart, LmLatest, LmRepresentative, LmInsert, LmBuild, LmDone
<1>. QED  BY <1>2, <1>7, <1>8, <1>9 DEF Next, ReadRoot, Restart, mvars

LEMMA LatestStep ==
    ASSUME LogInv, LogInv', [Next]_mvars
    PROVE  LatestNeverRecedes
<1> SUFFICES ASSUME NEW ca \in CAs PROVE LatestCheckpoint(ca)' >= LatestCheckpoint(ca)  BY DEF LatestNeverRecedes
<1>1. PICK old, new : old = ckpts[ca] /\ new = ckpts'[ca]  OBVIOUS
<1>2. LatestCheckpoint(ca) = NewestOf(old) /\ LatestCheckpoint(ca)' = NewestOf(new)  BY <1>1 DEF LatestCheckpoint, NewestOf
<1>0. Len(leaves[ca]) \in Nat /\ Len(leaves'[ca]) \in Nat
  <2>1. leaves \in [CAs -> Seq(LogLeaf)] /\ leaves' \in [CAs -> Seq(LogLeaf)]  BY DEF LogInv, Tables
  <2>. QED  BY <2>1
<1>3. PICK b \in Nat : b = Len(leaves[ca])  BY <1>0
<1>4. PICK d \in Nat : d = Len(leaves'[ca])  BY <1>0
<1>5. \A r \in old : r.size \in Nat /\ r.size <= b  BY <1>1, <1>3 DEF LogInv, HeadsOk, HeadOk
<1>6. \A r \in new : r.size \in Nat /\ r.size <= d
  <2>1. \A r \in ckpts'[ca] : HeadOk(ca, r.size, r.root)'  BY DEF LogInv, HeadsOk
  <2>. QED  BY <1>1, <1>4, <2>1 DEF HeadOk
<1>7. \A r \in old : \E s \in new : r.size <= s.size  BY <1>1, EveryHeadStep DEF HeadStep
<1>8. NewestOf(old) \in Nat /\ NewestOf(new) \in Nat  BY <1>5, <1>6, Newest
<1>9. CASE old = {}  BY <1>2, <1>8, <1>9 DEF NewestOf
<1>10. CASE old # {}
  <2>1. PICK r \in old : r.size = NewestOf(old)  BY <1>5, <1>10, Newest
  <2>2. PICK s \in new : r.size <= s.size  BY <1>7, <2>1
  <2>3. s.size <= NewestOf(new) /\ s.size \in Nat /\ r.size \in Nat  BY <1>5, <1>6, Newest
  <2>. QED  BY <1>2, <1>8, <2>1, <2>2, <2>3
<1>. QED  BY <1>9, <1>10

LEMMA InitLogInv == Init => LogInv /\ Numbered
<1> SUFFICES ASSUME Init PROVE LogInv /\ Numbered  OBVIOUS
<1>1. \A ca \in CAs : leaves[ca] = <<NullEntry>> /\ leaves[ca] \in Seq(LogLeaf) /\ Len(leaves[ca]) = 1 /\ leaves[ca][1] = NullEntry
  BY DEF Init, LogLeaf
<1>2. Tables  BY <1>1, MtcAssumption DEF Init, Tables
<1>3. RowsOk /\ FinsOk /\ HeadsOk /\ MarksOk /\ JobsOk  BY DEF Init, RowsOk, FinsOk, FinOk, HeadsOk, CachedOk, MarksOk, JobsOk, JobOk
<1>4. Numbered  BY DEF Init, Numbered, IdleJob
<1>. QED  BY <1>2, <1>3, <1>4 DEF LogInv
-----------------------------------------------------------------------------
(* What LogInv says of the properties.                                     *)
LEMMA InvIndices == LogInv => CertIndexIsItsLeaf
<1> SUFFICES ASSUME LogInv, NEW c \in Certs, certs[c] # NoRow, certs[c].idx # NoIndex
            PROVE  certs[c].idx < TreeSize(certs[c].ca) /\ leaves[certs[c].ca][certs[c].idx + 1] = c
  BY DEF CertIndexIsItsLeaf
<1>1. RowOk(c, certs[c])  BY DEF LogInv, RowsOk
<1>. QED  BY <1>1 DEF RowOk, IndexOk, TreeSize

LEMMA InvTypes == LogInv => TypeOK
<1> SUFFICES ASSUME LogInv PROVE TypeOK  OBVIOUS
<1>1. Tables /\ RowsOk /\ FinsOk /\ HeadsOk /\ MarksOk  BY DEF LogInv
<1>2. \A ca \in CAs : leaves[ca][1] = NullEntry /\ \A i \in 2..TreeSize(ca) : leaves[ca][i] \in Certs  BY <1>1 DEF Tables, TreeSize
<1>3. \A ca \in CAs : \A r \in ckpts[ca] : r.size \in 1..TreeSize(ca)  BY <1>1 DEF HeadsOk, HeadOk, TreeSize
<1>4. \A ca \in CAs : \A l \in lmarks[ca] : l.size \in 1..TreeSize(ca) /\ l.seq \in Nat  BY <1>1 DEF MarksOk, MarkOk, TreeSize
<1>5. \A c \in Certs : certs[c] # NoRow => certs[c].ca \in CAs  BY <1>1 DEF RowsOk, RowOk, CertRow
<1>6. \A c \in Certs : fin[c].pc \in {"idle", "proof", "persist", "store"}
  <2> TAKE c \in Certs
  <2>1. FinOk(c, fin[c])  BY <1>1 DEF FinsOk
  <2>. QED  BY <2>1 DEF FinOk, IdleFin
<1>. QED  BY <1>1, <1>2, <1>3, <1>4, <1>5, <1>6 DEF TypeOK, Tables

LEMMA InvHeads == LogInv => HeadsArePrefixes
<1> SUFFICES ASSUME LogInv, NEW ca \in CAs
            PROVE  /\ \A r \in ckpts[ca] : r.root = Range0(ca, 0, r.size)
                   /\ rootCache[ca] # NoRow => rootCache[ca].root = Range0(ca, 0, rootCache[ca].size)
                   /\ \A j \in Jobs : job[j].pc = "ck_store" /\ job[j].ca = ca => job[j].root = Range0(ca, 0, job[j].size)
  BY DEF HeadsArePrefixes
<1>1. HeadsOk /\ JobsOk  BY DEF LogInv
<1>2. \A n, root : HeadOk(ca, n, root) => root = Range0(ca, 0, n)  BY DEF HeadOk, Range0
<1>3. \A r \in ckpts[ca] : HeadOk(ca, r.size, r.root)  BY <1>1 DEF HeadsOk
<1>4. rootCache[ca] # NoRow => HeadOk(ca, rootCache[ca].size, rootCache[ca].root)  BY <1>1 DEF HeadsOk, CachedOk
<1>5. \A j \in Jobs : job[j].pc = "ck_store" => HeadOk(job[j].ca, job[j].size, job[j].root)  BY <1>1, JobAt DEF JobsOk, Signed
<1>. QED  BY <1>2, <1>3, <1>4, <1>5

LEMMA InvCosignatures == LogInv => CosignaturesCoverProof
  BY DEF LogInv, RowsOk, RowOk, DerOk, CosignaturesCoverProof

(* With one log the tree of a proof is the tree of the certificate's CA.   *)
LEMMA InvProofs ==
    ASSUME LogInv, NEW a, CAs = {a}
    PROVE  StandaloneVerifies /\ LandmarkVerifies
<1>1. Tables /\ RowsOk /\ MarksOk  BY DEF LogInv
<1>2. PICK s \in Seq(LogLeaf) : s = leaves[a]  BY <1>1 DEF Tables
<1>3. ASSUME NEW c \in Certs, certs[c] # NoRow, certs[c].standalone # NotBuilt
      PROVE  certs[c].standalone.cert = c /\ ProofVerifies(certs[c].standalone, certs[c].ca)
  <2>1. PICK x, d : x = certs[c] /\ d = x.standalone  OBVIOUS
  <2>2. RowOk(c, x) /\ DerOk(c, x.idx, d)  BY <1>1, <1>3, <2>1 DEF RowsOk, RowOk
  <2>3. x.ca = a /\ d.start \in Nat /\ d.end \in Nat /\ d.idx \in Nat /\ d.idx = x.idx /\ d.cert = c /\ d.start <= d.idx /\ d.idx < d.end
    BY <2>2 DEF RowOk, CertRow, DerOk, Standalone
  <2>4. d.end <= Len(s) /\ d.tree = SubSeq(s, d.start + 1, d.end)  BY <1>2, <2>2 DEF DerOk, OfLog
  <2>5. s[d.idx + 1] = c  BY <1>2, <2>2, <2>3 DEF RowOk, IndexOk, NoIndex
  <2>6. SubSeq(s, d.start + 1, d.end)[d.idx - d.start + 1] = s[d.idx + 1]  BY <2>3, <2>4, SubSeqElement
  <2>7. Aligned(d.start, d.end)  BY <2>2 DEF DerOk
  <2>8. ProofVerifies(d, x.ca)  BY <1>2, <2>3, <2>4, <2>5, <2>6, <2>7 DEF ProofVerifies, Aligned, TreeSize, Range0
  <2>. QED  BY <2>1, <2>3, <2>8
<1>4. ASSUME NEW l \in lmarks[a], l.der # NotBuilt PROVE ProofVerifies(l.der, a) /\ l.der.end = l.size
  <2>1. PICK d : d = l.der  OBVIOUS
  <2>2. MarkOk(a, l) /\ MarkDerOk(a, l.size, d)  BY <1>1, <1>4, <2>1 DEF MarksOk, MarkOk
  <2>3. /\ d.start = 0 /\ d.end \in Nat /\ d.idx \in Nat /\ d.end = l.size /\ d.idx < d.end /\ d.end <= Len(s)
        /\ d.tree = SubSeq(s, 1, d.end) /\ s[d.idx + 1] = d.cert
    BY <1>2, <2>2 DEF MarkOk, MarkDerOk, MarkDer
  <2>4. SubSeq(s, 0 + 1, d.end)[d.idx - 0 + 1] = s[d.idx + 1]  BY <2>3, SubSeqElement
  <2>5. ProofVerifies(d, a)  BY <1>2, <2>3, <2>4 DEF ProofVerifies, TreeSize, Range0
  <2>. QED  BY <2>1, <2>3, <2>5
<1>. QED  BY <1>3, <1>4 DEF StandaloneVerifies, LandmarkVerifies

-----------------------------------------------------------------------------
LEMMA LogInvAlways == Spec => [](LogInv /\ Numbered)
<1>1. LogInv /\ Numbered /\ [Next]_mvars => (LogInv /\ Numbered)'  BY LogInvNext, NumberedNext
<1>. QED  BY <1>1, InitLogInv, PTL DEF Spec

(* The index stored with a certificate is the place of its own leaf in its *)
(* CA's log: build_mtc_outputs appends first and persist_certificate       *)
(* stores later, whatever other requests append in between, which          *)
(* transactions fail and when the process restarts.                        *)
THEOREM IndicesAreLeaves == Spec => []CertIndexIsItsLeaf
  BY LogInvAlways, InvIndices, PTL

(* Every head produce_checkpoint signs, stores or caches commits to the    *)
(* leaves of one prefix of the log, and every cosignature in a standalone  *)
(* certificate is over the tree of its proof, for any number of logs.      *)
THEOREM HeadsAreSound == Spec => [](TypeOK /\ HeadsArePrefixes /\ CosignaturesCoverProof)
<1>1. LogInv => TypeOK /\ HeadsArePrefixes /\ CosignaturesCoverProof  BY InvTypes, InvHeads, InvCosignatures
<1>. QED  BY <1>1, LogInvAlways, PTL

(* In a server with one MTC log every stored standalone and landmark       *)
(* certificate verifies.  With more logs it does not hold of the code,     *)
(* which picks the certificates of a checkpoint and a landmark without     *)
(* looking at their CA (db/certs.rs get_pending_standalone,                *)
(* get_representative_for_landmark).                                       *)
THEOREM OneLogProofsVerify ==
    ASSUME NEW a, CAs = {a}
    PROVE  Spec => []ProofsVerify
<1>1. LogInv => ProofsVerify  BY InvTypes, InvHeads, InvCosignatures, InvProofs DEF ProofsVerify
<1>. QED  BY <1>1, LogInvAlways, PTL

(* The newest checkpoint never gets smaller and a landmark's number is     *)
(* never given to another tree, whatever overlapping checkpoint and        *)
(* landmark runs store, build and prune (db/checkpoints.rs and             *)
(* db/landmarks.rs: upsert, insert, prune_oldest).                         *)
THEOREM HistoryIsKept == Spec => [][LatestNeverRecedes /\ LandmarkNumbering]_mvars
<1>1. LogInv /\ Numbered /\ [Next]_mvars => LatestNeverRecedes /\ LandmarkNumbering
  BY LogInvNext, LatestStep, NumberingStep
<1>. QED  BY <1>1, LogInvAlways, PTL DEF Spec

-----------------------------------------------------------------------------
(***************************************************************************)
(* The cosigner's keys and certificates, for any number of starts, kills   *)
(* and renewals.                                                           *)
(*                                                                         *)
(* A key file is written once and then never again (SignFile, AcctFile),   *)
(* so that every certificate ever written is of the key that is on disk    *)
(* (TlsFiles, IdFile); the two files of the TLS pair may be of different   *)
(* starts.  A torn file is there only while it is being written or after a *)
(* kill.  That the fallback of the identity certificate does not overwrite *)
(* the ACME certificate rests on its being fresh at that point, which is   *)
(* where Lifetime >= RenewBefore is used.                                  *)
(***************************************************************************)

Key == Nat \ {0}
Contents == SUBSET [key : Nat, until : Nat]
Steps == {"down", "refused", "stuck", "acme_failed", "load_key", "write_key", "bootstrap", "write_acct", "order",
          "open_cert", "write_cert", "open_tls_key", "write_tls_key", "id", "write_id", "tls", "serving"}
(* The signing key is loaded; the account key is; run_bootstrap is running. *)
Loaded == {"bootstrap", "write_acct", "order", "open_cert", "write_cert", "open_tls_key", "write_tls_key", "id", "write_id", "tls", "serving"}
Ordering == {"order", "open_cert", "write_cert", "open_tls_key", "write_tls_key"}
CertFresh == {"open_tls_key", "write_tls_key", "id", "tls"}

CosTypes ==
    /\ cpc \in Steps /\ minted \in Nat /\ now \in Nat /\ killed \in Nat
    /\ mem \in [sign : Nat, acct : Nat, tlsCert : Nat, tlsKey : Nat]
    /\ files \in [sign : Contents, acct : Contents, cert : Contents, key : Contents, id : Contents]

IsKey(f) == \E k \in Key : f = KeyFile(k)
(* A certificate of the key in file g.                                     *)
CertOf(f, g) == \E k \in Key, u \in Nat : f = {[key |-> k, until |-> u]} /\ g = KeyFile(k)

SignFile ==
    /\ files.sign = {} \/ files.sign = {Torn} \/ IsKey(files.sign)
    /\ files.sign = {Torn} => cpc = "write_key" \/ killed > 0
    /\ cpc = "write_key" => files.sign = {Torn}
    /\ cpc \in Loaded => mem.sign \in Key /\ files.sign = KeyFile(mem.sign)
AcctFile ==
    /\ files.acct = {} \/ files.acct = {Torn} \/ IsKey(files.acct)
    /\ files.acct = {Torn} => cpc = "write_acct" \/ killed > 0
    /\ cpc = "write_acct" => files.acct = {Torn}
    /\ cpc \in Ordering => mem.acct \in Key /\ files.acct = KeyFile(mem.acct)
TlsFiles ==
    /\ files.cert = {} \/ files.cert = {Torn} \/ CertOf(files.cert, files.acct)
    /\ files.key = {} \/ files.key = {Torn} \/ (files.key = files.acct /\ IsKey(files.acct))
    /\ cpc \in Ordering \union {"write_acct"} => conf.boot
    /\ cpc \in CertFresh /\ conf.boot => ~cert_needs_renewal(files.cert)
    /\ files.key \in {{}, {Torn}} /\ CertOf(files.cert, files.acct) => cpc \in {"open_tls_key", "write_tls_key"} \/ killed > 0
IdFile ==
    /\ files.id = {} \/ files.id = {Torn} \/ CertOf(files.id, files.sign)
    /\ conf.boot => files.id = {}
    /\ cpc = "write_id" => ~conf.boot /\ files.id = {Torn}
Served ==
    /\ mem.tlsKey # 0 => cpc = "serving" /\ mem.tlsCert = mem.tlsKey
    /\ RestartsUnlessTorn
CosInv == CosTypes /\ SignFile /\ AcctFile /\ TlsFiles /\ IdFile /\ Served

(* A key file is neither empty nor torn, and holds one key.                *)
LEMMA KeyFileFacts ==
    /\ \A k \in Key : KeyFile(k) # {} /\ KeyFile(k) # {Torn} /\ KeyFile(k) \in Contents
    /\ \A k \in Key : \A r \in KeyFile(k) : r.key = k
    /\ \A j, k \in Key : KeyFile(j) = KeyFile(k) => j = k
<1>1. MaxNow + LongLife \in Nat  BY CosignerAssumption
<1>2. PICK n \in Nat : n = MaxNow + LongLife  BY <1>1
<1>3. \A k : KeyFile(k) = {[key |-> k, until |-> n]}  BY <1>2 DEF KeyFile
<1>4. \A k \in Key : [key |-> k, until |-> n].key = k /\ k # 0 /\ Torn.key = 0 /\ [key |-> k, until |-> n] \in [key : Nat, until : Nat]
  BY DEF Torn, Key
<1>. QED  BY <1>3, <1>4 DEF Contents

LEMMA CertFacts ==
    /\ \A f, g : CertOf(f, g) => f # {} /\ f # {Torn} /\ f \in Contents /\ IsKey(g)
    /\ \A f : \A k \in Key : CertOf(f, KeyFile(k)) => \A c \in f : c.key = k
<1>1. ASSUME NEW f, NEW g, NEW k \in Key, NEW u \in Nat, f = {[key |-> k, until |-> u]}, g = KeyFile(k)
      PROVE  /\ f # {} /\ f # {Torn} /\ f \in Contents /\ IsKey(g)
             /\ \A c \in f : c.key = k
  <2>1. [key |-> k, until |-> u].key = k /\ k # 0 /\ Torn.key = 0 /\ [key |-> k, until |-> u] \in [key : Nat, until : Nat]
    BY DEF Torn, Key
  <2>. QED  BY <1>1, <2>1 DEF Contents, IsKey
<1>2. \A f, g : CertOf(f, g) => f # {} /\ f # {Torn} /\ f \in Contents /\ IsKey(g)  BY <1>1 DEF CertOf
<1>3. \A f : \A k \in Key : CertOf(f, KeyFile(k)) => \A c \in f : c.key = k  BY <1>1, KeyFileFacts DEF CertOf
<1>. QED  BY <1>2, <1>3

(* Only a step that writes a file changes one.                             *)
LEMMA FilesKept ==
    ASSUME CosInv, UNCHANGED <<conf, files, minted, now, killed>>, UNCHANGED mem \/ mem' = NoMem, cpc' \in Steps
    PROVE  CosTypes'
<1>1. mem' \in [sign : Nat, acct : Nat, tlsCert : Nat, tlsKey : Nat]  BY DEF CosInv, CosTypes, NoMem
<1>. QED  BY <1>1 DEF CosInv, CosTypes

LEMMA CosStartKeeps ==
    ASSUME CosInv, from_file \/ Exit \/ run_bootstrap
    PROVE  CosInv'
<1>1. UNCHANGED <<conf, files, minted, now, killed>> /\ (UNCHANGED mem \/ mem' = NoMem)  BY DEF from_file, Exit, run_bootstrap
<1>2. cpc' \in Steps  BY DEF from_file, Exit, run_bootstrap, Steps
<1>3. CosTypes'  BY <1>1, <1>2, FilesKept
<1>4. SignFile' /\ AcctFile'
  BY <1>1 DEF from_file, Exit, run_bootstrap, CosInv, SignFile, AcctFile, Loaded, Ordering, IsKey, KeyFile, Torn
<1>5. TlsFiles'
  BY <1>1 DEF from_file, Exit, run_bootstrap, CosInv, TlsFiles, Ordering, CertFresh, cert_needs_renewal, IsKey, CertOf
<1>6. IdFile'  BY <1>1 DEF from_file, Exit, run_bootstrap, CosInv, IdFile, CertOf
<1>7. Served'
  BY <1>1 DEF from_file, Exit, run_bootstrap, CosInv, Served, RestartsUnlessTorn, NoMem
<1>. QED  BY <1>3, <1>4, <1>5, <1>6, <1>7 DEF CosInv

LEMMA KilledKeeps ==
    ASSUME CosInv, Killed
    PROVE  CosInv'
<1>1. UNCHANGED <<conf, files, minted, now>> /\ mem' = NoMem /\ cpc' = "down" /\ killed' = killed + 1  BY DEF Killed
<1>2. killed \in Nat /\ killed' > 0 /\ killed' \in Nat  BY <1>1 DEF CosInv, CosTypes
<1>3. CosTypes'  BY <1>1, <1>2 DEF CosInv, CosTypes, NoMem, Steps
<1>4. SignFile' /\ AcctFile'  BY <1>1, <1>2 DEF CosInv, SignFile, AcctFile, Loaded, Ordering, IsKey
<1>5. TlsFiles'  BY <1>1, <1>2 DEF CosInv, TlsFiles, Ordering, CertFresh, IsKey, CertOf
<1>6. IdFile' /\ Served'  BY <1>1, <1>2 DEF CosInv, IdFile, CertOf, Served, RestartsUnlessTorn, NoMem
<1>. QED  BY <1>3, <1>4, <1>5, <1>6 DEF CosInv

LEMMA TimePassesKeeps ==
    ASSUME CosInv, TimePasses
    PROVE  CosInv'
<1>1. UNCHANGED <<conf, cpc, mem, files, minted, killed>> /\ now' = now + 1 /\ cpc \in {"down", "serving"}  BY DEF TimePasses
<1>2. CosTypes'  BY <1>1 DEF CosInv, CosTypes
<1>3. SignFile' /\ AcctFile'  BY <1>1 DEF CosInv, SignFile, AcctFile, IsKey
<1>4. TlsFiles'  BY <1>1 DEF CosInv, TlsFiles, Ordering, CertFresh, IsKey, CertOf
<1>5. IdFile' /\ Served'  BY <1>1 DEF CosInv, IdFile, CertOf, Served, RestartsUnlessTorn
<1>. QED  BY <1>2, <1>3, <1>4, <1>5 DEF CosInv

(* The signing key: there is one, from its first write on.                 *)
LEMMA SignKeyKeeps ==
    ASSUME CosInv, load_or_generate \/ WriteKey
    PROVE  CosInv'
<1>1. UNCHANGED <<conf, now, killed>>  BY DEF load_or_generate, WriteKey
<1>2. CosTypes /\ SignFile /\ AcctFile /\ TlsFiles /\ IdFile /\ Served /\ minted \in Nat  BY DEF CosInv, CosTypes
<1>3. CASE load_or_generate /\ files.sign = {} /\ cpc' = "write_key" /\ files' = [files EXCEPT !.sign = {Torn}] /\ UNCHANGED mem
  <2>1. UNCHANGED minted /\ cpc = "load_key"  BY <1>3 DEF load_or_generate
  <2>2. /\ files' \in [sign : Contents, acct : Contents, cert : Contents, key : Contents, id : Contents]
        /\ files'.sign = {Torn} /\ files'.acct = files.acct /\ files'.cert = files.cert /\ files'.key = files.key /\ files'.id = files.id
    BY <1>2, <1>3 DEF CosTypes, Contents, Torn
  <2>3. CosTypes'  BY <1>1, <1>2, <1>3, <2>1, <2>2 DEF CosTypes, Steps
  <2>4. SignFile' /\ AcctFile'  BY <1>1, <1>2, <1>3, <2>1, <2>2 DEF SignFile, AcctFile, Loaded, Ordering, IsKey
  <2>5. TlsFiles'  BY <1>1, <1>2, <1>3, <2>1, <2>2 DEF TlsFiles, Ordering, CertFresh, IsKey, CertOf
  <2>6. ~CertOf(files.id, files.sign)  BY <1>3, CertFacts, KeyFileFacts DEF IsKey
  <2>7. IdFile' /\ Served'  BY <1>1, <1>2, <1>3, <2>1, <2>2, <2>6 DEF IdFile, Served, RestartsUnlessTorn
  <2>. QED  BY <2>3, <2>4, <2>5, <2>7 DEF CosInv
<1>4. CASE load_or_generate /\ files.sign = {Torn} /\ cpc' = "stuck" /\ UNCHANGED <<files, mem>>
  <2>1. UNCHANGED minted /\ cpc = "load_key"  BY <1>4 DEF load_or_generate
  <2>2. killed > 0  BY <1>2, <1>4, <2>1 DEF SignFile
  <2>3. CosTypes'  BY <1>1, <1>2, <1>4, <2>1 DEF CosTypes, Steps
  <2>4. SignFile' /\ AcctFile'  BY <1>1, <1>2, <1>4, <2>1 DEF SignFile, AcctFile, Loaded, Ordering, IsKey
  <2>5. TlsFiles'  BY <1>1, <1>2, <1>4, <2>1 DEF TlsFiles, Ordering, CertFresh, IsKey, CertOf
  <2>6. IdFile' /\ Served'  BY <1>1, <1>2, <1>4, <2>1, <2>2 DEF IdFile, CertOf, Served, RestartsUnlessTorn
  <2>. QED  BY <2>3, <2>4, <2>5, <2>6 DEF CosInv
<1>5. CASE load_or_generate /\ \E r \in files.sign \ {Torn} : cpc' = "bootstrap" /\ mem' = [mem EXCEPT !.sign = r.key] /\ UNCHANGED files
  <2>1. UNCHANGED minted /\ cpc = "load_key"  BY <1>5 DEF load_or_generate
  <2>2. PICK k \in Key : files.sign = KeyFile(k)  BY <1>2, <1>5 DEF SignFile, IsKey
  <2>3. cpc' = "bootstrap" /\ mem' = [mem EXCEPT !.sign = k] /\ files' = files  BY <1>5, <2>2, KeyFileFacts
  <2>4. mem' \in [sign : Nat, acct : Nat, tlsCert : Nat, tlsKey : Nat] /\ mem'.sign = k /\ mem'.tlsKey = mem.tlsKey /\ mem'.tlsCert = mem.tlsCert
    BY <1>2, <2>3 DEF CosTypes, Key
  <2>5. CosTypes'  BY <1>1, <1>2, <2>1, <2>3, <2>4 DEF CosTypes, Steps
  <2>6. SignFile' /\ AcctFile'  BY <1>1, <1>2, <2>1, <2>2, <2>3, <2>4 DEF SignFile, AcctFile, Loaded, Ordering, IsKey
  <2>7. TlsFiles'  BY <1>1, <1>2, <2>1, <2>3 DEF TlsFiles, Ordering, CertFresh, IsKey, CertOf
  <2>8. IdFile' /\ Served'  BY <1>1, <1>2, <2>1, <2>3, <2>4 DEF IdFile, CertOf, Served, RestartsUnlessTorn
  <2>. QED  BY <2>5, <2>6, <2>7, <2>8 DEF CosInv
<1>6. CASE WriteKey
  <2>1. PICK k \in Key : k = minted + 1  BY <1>2 DEF Key
  <2>2. cpc = "write_key" /\ minted' = k /\ mem' = [mem EXCEPT !.sign = k] /\ files' = [files EXCEPT !.sign = KeyFile(k)] /\ cpc' = "bootstrap"
    BY <1>6, <2>1 DEF WriteKey
  <2>3. mem' \in [sign : Nat, acct : Nat, tlsCert : Nat, tlsKey : Nat] /\ mem'.sign = k /\ mem'.tlsKey = mem.tlsKey /\ mem'.tlsCert = mem.tlsCert
    BY <1>2, <2>2 DEF CosTypes, Key
  <2>4. /\ files' \in [sign : Contents, acct : Contents, cert : Contents, key : Contents, id : Contents]
        /\ files'.sign = KeyFile(k) /\ files'.acct = files.acct /\ files'.cert = files.cert /\ files'.key = files.key /\ files'.id = files.id
    BY <1>2, <2>2, KeyFileFacts DEF CosTypes
  <2>5. CosTypes'  BY <1>1, <1>2, <2>2, <2>3, <2>4 DEF CosTypes, Steps, Key
  <2>6. SignFile' /\ AcctFile'
    BY <1>1, <1>2, <2>2, <2>3, <2>4, KeyFileFacts DEF SignFile, AcctFile, Loaded, Ordering, IsKey
  <2>7. TlsFiles'  BY <1>1, <1>2, <2>2, <2>4 DEF TlsFiles, Ordering, CertFresh, IsKey, CertOf
  <2>8. ~CertOf(files.id, files.sign)  BY <1>2, <2>2, CertFacts, KeyFileFacts DEF IsKey, SignFile
  <2>9. IdFile' /\ Served'  BY <1>1, <1>2, <2>2, <2>3, <2>4, <2>8 DEF IdFile, Served, RestartsUnlessTorn
  <2>. QED  BY <2>5, <2>6, <2>7, <2>9 DEF CosInv
<1>. QED  BY <1>3, <1>4, <1>5, <1>6 DEF load_or_generate

(* The account key: there is one, from its first write on.                 *)
LEMMA AccountKeyKeeps ==
    ASSUME CosInv, AccountKey \/ WriteAccountKey
    PROVE  CosInv'
<1>1. UNCHANGED <<conf, now, killed>>  BY DEF AccountKey, WriteAccountKey
<1>2. CosTypes /\ SignFile /\ AcctFile /\ TlsFiles /\ IdFile /\ Served /\ minted \in Nat  BY DEF CosInv, CosTypes
<1>3. CASE AccountKey /\ (~conf.boot \/ ~cert_needs_renewal(files.cert)) /\ cpc' = "id" /\ UNCHANGED <<files, mem>>
  <2>1. UNCHANGED minted /\ cpc = "bootstrap"  BY <1>3 DEF AccountKey
  <2>2. CosTypes'  BY <1>1, <1>2, <1>3, <2>1 DEF CosTypes, Steps
  <2>3. SignFile' /\ AcctFile'  BY <1>1, <1>2, <1>3, <2>1 DEF SignFile, AcctFile, Loaded, Ordering, IsKey
  <2>4. TlsFiles'  BY <1>1, <1>2, <1>3, <2>1 DEF TlsFiles, Ordering, CertFresh, IsKey, CertOf, cert_needs_renewal
  <2>5. IdFile' /\ Served'  BY <1>1, <1>2, <1>3, <2>1 DEF IdFile, CertOf, Served, RestartsUnlessTorn
  <2>. QED  BY <2>2, <2>3, <2>4, <2>5 DEF CosInv
<1>4. CASE AccountKey /\ conf.boot /\ files.acct = {} /\ cpc' = "write_acct" /\ files' = [files EXCEPT !.acct = {Torn}] /\ UNCHANGED mem
  <2>1. UNCHANGED minted /\ cpc = "bootstrap"  BY <1>4 DEF AccountKey
  <2>2. /\ files' \in [sign : Contents, acct : Contents, cert : Contents, key : Contents, id : Contents]
        /\ files'.acct = {Torn} /\ files'.sign = files.sign /\ files'.cert = files.cert /\ files'.key = files.key /\ files'.id = files.id
    BY <1>2, <1>4 DEF CosTypes, Contents, Torn
  <2>3. CosTypes'  BY <1>1, <1>2, <1>4, <2>1, <2>2 DEF CosTypes, Steps
  <2>4. SignFile' /\ AcctFile'  BY <1>1, <1>2, <1>4, <2>1, <2>2 DEF SignFile, AcctFile, Loaded, Ordering, IsKey
  <2>5. ~IsKey(files.acct) /\ ~IsKey(files'.acct) /\ ~CertOf(files.cert, files.acct) /\ ~CertOf(files'.cert, files'.acct)
    BY <1>4, <2>2, CertFacts, KeyFileFacts DEF IsKey
  <2>6. TlsFiles'  BY <1>1, <1>2, <1>4, <2>1, <2>2, <2>5 DEF TlsFiles, Ordering, CertFresh
  <2>7. IdFile' /\ Served'  BY <1>1, <1>2, <1>4, <2>1, <2>2 DEF IdFile, CertOf, Served, RestartsUnlessTorn
  <2>. QED  BY <2>3, <2>4, <2>6, <2>7 DEF CosInv
<1>5. CASE AccountKey /\ files.acct = {Torn} /\ cpc' = "stuck" /\ UNCHANGED <<files, mem>>
  <2>1. UNCHANGED minted /\ cpc = "bootstrap"  BY <1>5 DEF AccountKey
  <2>2. killed > 0  BY <1>2, <1>5, <2>1 DEF AcctFile
  <2>3. CosTypes'  BY <1>1, <1>2, <1>5, <2>1 DEF CosTypes, Steps
  <2>4. SignFile' /\ AcctFile'  BY <1>1, <1>2, <1>5, <2>1 DEF SignFile, AcctFile, Loaded, Ordering, IsKey
  <2>5. TlsFiles'  BY <1>1, <1>2, <1>5, <2>1 DEF TlsFiles, Ordering, CertFresh, IsKey, CertOf
  <2>6. IdFile' /\ Served'  BY <1>1, <1>2, <1>5, <2>1, <2>2 DEF IdFile, CertOf, Served, RestartsUnlessTorn
  <2>. QED  BY <2>3, <2>4, <2>5, <2>6 DEF CosInv
<1>6. CASE AccountKey /\ conf.boot /\ \E r \in files.acct \ {Torn} : cpc' = "order" /\ mem' = [mem EXCEPT !.acct = r.key] /\ UNCHANGED files
  <2>1. UNCHANGED minted /\ cpc = "bootstrap"  BY <1>6 DEF AccountKey
  <2>2. PICK k \in Key : files.acct = KeyFile(k)  BY <1>2, <1>6 DEF AcctFile, IsKey
  <2>3. cpc' = "order" /\ mem' = [mem EXCEPT !.acct = k] /\ files' = files  BY <1>6, <2>2, KeyFileFacts
  <2>4. /\ mem' \in [sign : Nat, acct : Nat, tlsCert : Nat, tlsKey : Nat]
        /\ mem'.acct = k /\ mem'.sign = mem.sign /\ mem'.tlsKey = mem.tlsKey /\ mem'.tlsCert = mem.tlsCert
    BY <1>2, <2>3 DEF CosTypes, Key
  <2>5. CosTypes'  BY <1>1, <1>2, <2>1, <2>3, <2>4 DEF CosTypes, Steps
  <2>6. SignFile' /\ AcctFile'  BY <1>1, <1>2, <2>1, <2>2, <2>3, <2>4 DEF SignFile, AcctFile, Loaded, Ordering, IsKey
  <2>7. TlsFiles'  BY <1>1, <1>2, <1>6, <2>1, <2>3 DEF TlsFiles, Ordering, CertFresh, IsKey, CertOf
  <2>8. IdFile' /\ Served'  BY <1>1, <1>2, <2>1, <2>3, <2>4 DEF IdFile, CertOf, Served, RestartsUnlessTorn
  <2>. QED  BY <2>5, <2>6, <2>7, <2>8 DEF CosInv
<1>7. CASE WriteAccountKey
  <2>1. PICK k \in Key : k = minted + 1  BY <1>2 DEF Key
  <2>2. cpc = "write_acct" /\ minted' = k /\ mem' = [mem EXCEPT !.acct = k] /\ files' = [files EXCEPT !.acct = KeyFile(k)] /\ cpc' = "order"
    BY <1>7, <2>1 DEF WriteAccountKey
  <2>3. /\ mem' \in [sign : Nat, acct : Nat, tlsCert : Nat, tlsKey : Nat]
        /\ mem'.acct = k /\ mem'.sign = mem.sign /\ mem'.tlsKey = mem.tlsKey /\ mem'.tlsCert = mem.tlsCert
    BY <1>2, <2>2 DEF CosTypes, Key
  <2>4. /\ files' \in [sign : Contents, acct : Contents, cert : Contents, key : Contents, id : Contents]
        /\ files'.acct = KeyFile(k) /\ files'.sign = files.sign /\ files'.cert = files.cert /\ files'.key = files.key /\ files'.id = files.id
    BY <1>2, <2>2, KeyFileFacts DEF CosTypes
  <2>5. CosTypes'  BY <1>1, <1>2, <2>2, <2>3, <2>4 DEF CosTypes, Steps, Key
  <2>6. SignFile' /\ AcctFile'
    BY <1>1, <1>2, <2>2, <2>3, <2>4, KeyFileFacts DEF SignFile, AcctFile, Loaded, Ordering, IsKey
  <2>7. files.cert \in {{}, {Torn}} /\ files.key \in {{}, {Torn}}
    BY <1>2, <2>2, CertFacts, KeyFileFacts DEF IsKey, TlsFiles, AcctFile
  <2>8. ~CertOf(files'.cert, files'.acct)  BY <2>4, <2>7, CertFacts
  <2>9. TlsFiles'  BY <1>1, <1>2, <2>2, <2>4, <2>7, <2>8 DEF TlsFiles, Ordering, CertFresh
  <2>10. IdFile' /\ Served'  BY <1>1, <1>2, <2>2, <2>3, <2>4 DEF IdFile, CertOf, Served, RestartsUnlessTorn
  <2>. QED  BY <2>5, <2>6, <2>9, <2>10 DEF CosInv
<1>. QED  BY <1>3, <1>4, <1>5, <1>6, <1>7 DEF AccountKey

(* The ACME certificate, then its key: both of the one account key.        *)
LEMMA CertFileKeeps ==
    ASSUME CosInv, OpenCert \/ WriteCert
    PROVE  CosInv'
<1>1. UNCHANGED <<conf, mem, minted, now, killed>>  BY DEF OpenCert, WriteCert
<1>2. CosTypes /\ SignFile /\ AcctFile /\ TlsFiles /\ IdFile /\ Served /\ now \in Nat  BY DEF CosInv, CosTypes
<1>3. PICK k \in Key : k = mem.acct /\ files.acct = KeyFile(k)  BY <1>2 DEF AcctFile, Ordering, OpenCert, WriteCert
<1>4. CASE OpenCert
  <2>1. cpc = "open_cert" /\ cpc' = "write_cert" /\ files' = [files EXCEPT !.cert = {Torn}]  BY <1>4 DEF OpenCert
  <2>2. /\ files' \in [sign : Contents, acct : Contents, cert : Contents, key : Contents, id : Contents]
        /\ files'.cert = {Torn} /\ files'.sign = files.sign /\ files'.acct = files.acct /\ files'.key = files.key /\ files'.id = files.id
    BY <1>2, <2>1 DEF CosTypes, Contents, Torn
  <2>3. CosTypes'  BY <1>1, <1>2, <2>1, <2>2 DEF CosTypes, Steps
  <2>4. SignFile' /\ AcctFile'  BY <1>1, <1>2, <2>1, <2>2 DEF SignFile, AcctFile, Loaded, Ordering, IsKey
  <2>5. ~CertOf(files'.cert, files'.acct)  BY <2>2, CertFacts
  <2>6. TlsFiles'  BY <1>1, <1>2, <2>1, <2>2, <2>5 DEF TlsFiles, Ordering, CertFresh, IsKey
  <2>7. IdFile' /\ Served'  BY <1>1, <1>2, <2>1, <2>2 DEF IdFile, CertOf, Served, RestartsUnlessTorn
  <2>. QED  BY <2>3, <2>4, <2>6, <2>7 DEF CosInv
<1>5. CASE WriteCert
  <2>1. PICK u \in Nat : u = now + Lifetime  BY <1>2, CosignerAssumption
  <2>2. PICK c : c = [key |-> k, until |-> u]  OBVIOUS
  <2>3. c \in [key : Nat, until : Nat] /\ c.key = k /\ c.until = u /\ c # Torn  BY <2>2 DEF Key, Torn
  <2>4. cpc = "write_cert" /\ cpc' = "open_tls_key" /\ files' = [files EXCEPT !.cert = {c}]  BY <1>3, <1>5, <2>1, <2>2 DEF WriteCert
  <2>5. /\ files' \in [sign : Contents, acct : Contents, cert : Contents, key : Contents, id : Contents]
        /\ files'.cert = {c} /\ files'.sign = files.sign /\ files'.acct = files.acct /\ files'.key = files.key /\ files'.id = files.id
    BY <1>2, <2>3, <2>4 DEF CosTypes, Contents
  <2>6. CosTypes'  BY <1>1, <1>2, <2>4, <2>5 DEF CosTypes, Steps
  <2>7. SignFile' /\ AcctFile'  BY <1>1, <1>2, <2>4, <2>5 DEF SignFile, AcctFile, Loaded, Ordering, IsKey
  <2>8. CertOf(files'.cert, files'.acct)  BY <1>3, <2>2, <2>5 DEF CertOf
  <2>9. ~cert_needs_renewal(files.cert)'
    <3>1. ~(u - now < RenewBefore)  BY <1>2, <2>1, CosignerAssumption
    <3>. QED  BY <1>1, <2>3, <2>5, <3>1 DEF cert_needs_renewal
  <2>10. TlsFiles'  BY <1>1, <1>2, <2>4, <2>5, <2>8, <2>9 DEF TlsFiles, Ordering, CertFresh, IsKey
  <2>11. IdFile' /\ Served'  BY <1>1, <1>2, <2>4, <2>5 DEF IdFile, CertOf, Served, RestartsUnlessTorn
  <2>. QED  BY <2>6, <2>7, <2>10, <2>11 DEF CosInv
<1>. QED  BY <1>4, <1>5

LEMMA TlsKeyKeeps ==
    ASSUME CosInv, OpenTlsKey \/ WriteTlsKey
    PROVE  CosInv'
<1>1. UNCHANGED <<conf, mem, minted, now, killed>>  BY DEF OpenTlsKey, WriteTlsKey
<1>2. CosTypes /\ SignFile /\ AcctFile /\ TlsFiles /\ IdFile /\ Served  BY DEF CosInv
<1>3. PICK k \in Key : k = mem.acct /\ files.acct = KeyFile(k)  BY <1>2 DEF AcctFile, Ordering, OpenTlsKey, WriteTlsKey
<1>4. PICK key, pc : /\ key \in {{Torn}, KeyFile(k)} /\ (pc = "id" => key = KeyFile(k)) /\ pc \in {"write_tls_key", "id"}
                     /\ cpc' = pc /\ files' = [files EXCEPT !.key = key] /\ cpc \in {"open_tls_key", "write_tls_key"}
  BY <1>3 DEF OpenTlsKey, WriteTlsKey
<1>5. key \in Contents  BY <1>4, KeyFileFacts DEF Contents, Torn
<1>6. /\ files' \in [sign : Contents, acct : Contents, cert : Contents, key : Contents, id : Contents]
      /\ files'.key = key /\ files'.sign = files.sign /\ files'.acct = files.acct /\ files'.cert = files.cert /\ files'.id = files.id
  BY <1>2, <1>4, <1>5 DEF CosTypes
<1>7. CosTypes'  BY <1>1, <1>2, <1>4, <1>6 DEF CosTypes, Steps
<1>8. SignFile' /\ AcctFile'  BY <1>1, <1>2, <1>4, <1>6 DEF SignFile, AcctFile, Loaded, Ordering, IsKey
<1>9. conf.boot /\ ~cert_needs_renewal(files.cert)  BY <1>2, <1>4 DEF TlsFiles, Ordering, CertFresh
<1>10. ~cert_needs_renewal(files.cert)'  BY <1>1, <1>6, <1>9 DEF cert_needs_renewal
<1>11. TlsFiles'
  BY <1>1, <1>2, <1>3, <1>4, <1>6, <1>9, <1>10, KeyFileFacts DEF TlsFiles, Ordering, CertFresh, IsKey, CertOf
<1>12. IdFile' /\ Served'  BY <1>1, <1>2, <1>4, <1>6 DEF IdFile, CertOf, Served, RestartsUnlessTorn
<1>. QED  BY <1>7, <1>8, <1>11, <1>12 DEF CosInv

(* With a bootstrap the identity certificate is the bootstrap's, which is  *)
(* fresh by then: nothing is written over it.                              *)
LEMMA IdFileKeeps ==
    ASSUME CosInv, generate_self_signed_cert \/ WriteId
    PROVE  CosInv'
<1>1. UNCHANGED <<conf, mem, minted, now, killed>>  BY DEF generate_self_signed_cert, WriteId
<1>2. CosTypes /\ SignFile /\ AcctFile /\ TlsFiles /\ IdFile /\ Served /\ now \in Nat  BY DEF CosInv, CosTypes
<1>3. CASE generate_self_signed_cert /\ cpc' = "tls" /\ UNCHANGED files
  <2>1. cpc = "id"  BY <1>3 DEF generate_self_signed_cert
  <2>2. CosTypes'  BY <1>1, <1>2, <1>3 DEF CosTypes, Steps
  <2>3. SignFile' /\ AcctFile'  BY <1>1, <1>2, <1>3, <2>1 DEF SignFile, AcctFile, Loaded, Ordering, IsKey
  <2>4. TlsFiles'  BY <1>1, <1>2, <1>3, <2>1 DEF TlsFiles, Ordering, CertFresh, IsKey, CertOf, cert_needs_renewal
  <2>5. IdFile' /\ Served'  BY <1>1, <1>2, <1>3, <2>1 DEF IdFile, CertOf, Served, RestartsUnlessTorn
  <2>. QED  BY <2>2, <2>3, <2>4, <2>5 DEF CosInv
<1>4. CASE generate_self_signed_cert /\ cert_needs_renewal(files[effective_cosigner_id_cert])
           /\ cpc' = "write_id" /\ files' = [files EXCEPT ![effective_cosigner_id_cert] = {Torn}]
  <2>1. cpc = "id"  BY <1>4 DEF generate_self_signed_cert
  <2>2. ~conf.boot
    <3> SUFFICES ASSUME conf.boot PROVE FALSE  OBVIOUS
    <3>1. ~cert_needs_renewal(files.cert) /\ files.id = {}  BY <1>2, <2>1 DEF TlsFiles, CertFresh, IdFile
    <3>2. files.cert # {}  BY <3>1 DEF cert_needs_renewal
    <3>3. effective_cosigner_id_cert = "cert"  BY <3>1, <3>2 DEF effective_cosigner_id_cert
    <3>. QED  BY <1>4, <3>1, <3>3
  <2>3. files' = [files EXCEPT !.id = {Torn}]  BY <1>4, <2>2 DEF effective_cosigner_id_cert
  <2>4. /\ files' \in [sign : Contents, acct : Contents, cert : Contents, key : Contents, id : Contents]
        /\ files'.id = {Torn} /\ files'.sign = files.sign /\ files'.acct = files.acct /\ files'.cert = files.cert /\ files'.key = files.key
    BY <1>2, <2>3 DEF CosTypes, Contents, Torn
  <2>5. CosTypes'  BY <1>1, <1>2, <1>4, <2>4 DEF CosTypes, Steps
  <2>6. SignFile' /\ AcctFile'  BY <1>1, <1>2, <1>4, <2>1, <2>4 DEF SignFile, AcctFile, Loaded, Ordering, IsKey
  <2>7. TlsFiles'  BY <1>1, <1>2, <1>4, <2>1, <2>4 DEF TlsFiles, Ordering, CertFresh, IsKey, CertOf
  <2>8. IdFile' /\ Served'  BY <1>1, <1>2, <1>4, <2>1, <2>2, <2>4 DEF IdFile, Served, RestartsUnlessTorn
  <2>. QED  BY <2>5, <2>6, <2>7, <2>8 DEF CosInv
<1>5. CASE WriteId
  <2>1. cpc = "write_id" /\ ~conf.boot /\ files.id = {Torn} /\ cpc' = "tls"  BY <1>2, <1>5 DEF WriteId, IdFile
  <2>2. PICK u \in Nat : u = now + LongLife  BY <1>2, CosignerAssumption
  <2>3. PICK k \in Key : k = mem.sign /\ files.sign = KeyFile(k)  BY <1>2, <2>1 DEF SignFile, Loaded
  <2>4. PICK c : c = [key |-> k, until |-> u]  OBVIOUS
  <2>5. files' = [files EXCEPT !.id = {c}]  BY <1>5, <2>1, <2>2, <2>3, <2>4 DEF WriteId
  <2>6. c \in [key : Nat, until : Nat]  BY <2>4 DEF Key
  <2>7. /\ files' \in [sign : Contents, acct : Contents, cert : Contents, key : Contents, id : Contents]
        /\ files'.id = {c} /\ files'.sign = files.sign /\ files'.acct = files.acct /\ files'.cert = files.cert /\ files'.key = files.key
    BY <1>2, <2>5, <2>6 DEF CosTypes, Contents
  <2>8. CosTypes'  BY <1>1, <1>2, <2>1, <2>7 DEF CosTypes, Steps
  <2>9. SignFile' /\ AcctFile'  BY <1>1, <1>2, <2>1, <2>7 DEF SignFile, AcctFile, Loaded, Ordering, IsKey
  <2>10. TlsFiles'  BY <1>1, <1>2, <2>1, <2>7 DEF TlsFiles, Ordering, CertFresh, IsKey, CertOf
  <2>11. CertOf(files'.id, files'.sign)  BY <2>3, <2>4, <2>7 DEF CertOf
  <2>12. IdFile' /\ Served'  BY <1>1, <1>2, <2>1, <2>7, <2>11 DEF IdFile, Served, RestartsUnlessTorn
  <2>. QED  BY <2>8, <2>9, <2>10, <2>12 DEF CosInv
<1>. QED  BY <1>3, <1>4, <1>5 DEF generate_self_signed_cert

(* What is loaded to be served: two files of one key.                      *)
LEMMA ServeKeeps ==
    ASSUME CosInv, start_tls_server
    PROVE  CosInv'
<1>1. UNCHANGED <<conf, files, minted, now, killed>> /\ cpc = "tls"  BY DEF start_tls_server
<1>2. CosTypes /\ SignFile /\ AcctFile /\ TlsFiles /\ IdFile /\ Served  BY DEF CosInv
<1>3. cpc' \in {"serving", "stuck"}  BY DEF start_tls_server
<1>4. TlsFiles' /\ IdFile'
  BY <1>1, <1>2, <1>3 DEF TlsFiles, IdFile, Ordering, CertFresh, IsKey, CertOf
<1>5. CASE UNCHANGED mem
  <2>1. CosTypes'  BY <1>1, <1>2, <1>3, <1>5 DEF CosTypes, Steps
  <2>2. SignFile' /\ AcctFile'  BY <1>1, <1>2, <1>3, <1>5 DEF SignFile, AcctFile, Loaded, Ordering, IsKey
  <2>3. cpc' = "stuck" => killed > 0 /\ files.key \in {{}, {Torn}}
    <3> SUFFICES ASSUME cpc' = "stuck" PROVE killed > 0 /\ files.key \in {{}, {Torn}}  OBVIOUS
    <3>1. conf.boot /\ (files.key \subseteq {Torn} \/ files.cert \subseteq {Torn})  BY DEF start_tls_server, effective_tls
    <3>2. ~cert_needs_renewal(files.cert)  BY <1>1, <1>2, <3>1 DEF TlsFiles, CertFresh
    <3>3. ~(files.cert \subseteq {Torn})  BY <3>2 DEF cert_needs_renewal
    <3>4. CertOf(files.cert, files.acct)  BY <1>2, <3>3 DEF TlsFiles
    <3>. QED  BY <1>1, <1>2, <3>1, <3>3, <3>4 DEF TlsFiles
  <2>4. Served'  BY <1>1, <1>2, <1>3, <1>5, <2>3 DEF Served, RestartsUnlessTorn
  <2>. QED  BY <1>4, <2>1, <2>2, <2>4 DEF CosInv
<1>6. CASE /\ cpc' = "serving" /\ ~(files.key \subseteq {Torn} \/ files.cert \subseteq {Torn})
           /\ \E c \in files.cert, k \in files.key : mem' = [mem EXCEPT !.tlsCert = c.key, !.tlsKey = k.key]
  <2>1. files.key = files.acct /\ CertOf(files.cert, files.acct)  BY <1>2, <1>6 DEF TlsFiles
  <2>2. PICK j \in Key : files.acct = KeyFile(j)  BY <2>1, CertFacts DEF IsKey
  <2>3. mem' = [mem EXCEPT !.tlsCert = j, !.tlsKey = j]
    <3>1. PICK c \in files.cert, k \in files.key : mem' = [mem EXCEPT !.tlsCert = c.key, !.tlsKey = k.key]  BY <1>6
    <3>2. c.key = j /\ k.key = j  BY <2>1, <2>2, CertFacts, KeyFileFacts
    <3>. QED  BY <3>1, <3>2
  <2>4. /\ mem' \in [sign : Nat, acct : Nat, tlsCert : Nat, tlsKey : Nat]
        /\ mem'.sign = mem.sign /\ mem'.acct = mem.acct /\ mem'.tlsCert = mem'.tlsKey
    BY <1>2, <2>3 DEF CosTypes, Key
  <2>5. CosTypes'  BY <1>1, <1>2, <1>6, <2>4 DEF CosTypes, Steps
  <2>6. SignFile' /\ AcctFile'  BY <1>1, <1>2, <1>6, <2>4 DEF SignFile, AcctFile, Loaded, Ordering, IsKey
  <2>7. Served'  BY <1>6, <2>4 DEF Served, RestartsUnlessTorn
  <2>. QED  BY <1>4, <2>5, <2>6, <2>7 DEF CosInv
<1>. QED  BY <1>5, <1>6 DEF start_tls_server

LEMMA CosInvInit == CosignerInit => CosInv
<1> SUFFICES ASSUME CosignerInit PROVE CosInv  OBVIOUS
<1>1. CosTypes  BY DEF CosignerInit, CosTypes, Steps, NoMem, Contents
<1>2. SignFile /\ AcctFile /\ IdFile  BY DEF CosignerInit, SignFile, AcctFile, IdFile, Loaded, Ordering
<1>3. ~CertOf(files.cert, files.acct)  BY CertFacts DEF CosignerInit
<1>4. TlsFiles /\ Served
  BY <1>3 DEF CosignerInit, TlsFiles, Ordering, CertFresh, Served, RestartsUnlessTorn, NoMem
<1>. QED  BY <1>1, <1>2, <1>4 DEF CosInv

LEMMA CosInvNext == CosInv /\ [CosignerNext]_cosVars => CosInv'
<1> SUFFICES ASSUME CosInv, [CosignerNext]_cosVars PROVE CosInv'  OBVIOUS
<1>1. CASE UNCHANGED cosVars
  BY <1>1 DEF cosVars, CosInv, CosTypes, SignFile, AcctFile, TlsFiles, IdFile, Served, RestartsUnlessTorn, cert_needs_renewal, IsKey, CertOf
<1>. QED
  BY <1>1, CosStartKeeps, KilledKeeps, TimePassesKeeps, SignKeyKeeps, AccountKeyKeeps, CertFileKeeps, TlsKeyKeeps, IdFileKeeps, ServeKeeps
  DEF CosignerNext

(* Whatever kills, restarts and renewals happen: the cosigner serves a     *)
(* certificate of the key it serves, its own identity certificate names    *)
(* the key it signs with, and only a kill makes a later start fail         *)
(* (acme.rs run_bootstrap, key.rs load_or_generate, main.rs).              *)
THEOREM CosignerKeysAreTogether == CosignerSpec => []CosignerKeysFit
<1>1. CosInv => CosignerKeysFit
  <2> SUFFICES ASSUME CosInv PROVE CosignerKeysFit  OBVIOUS
  <2>1. TlsPairMatches /\ RestartsUnlessTorn  BY DEF CosInv, Served, TlsPairMatches
  <2>2. IdNamesSigningKey
    <3> SUFFICES ASSUME cpc = "serving", NEW c \in files.id, c # Torn PROVE c.key = mem.sign  BY DEF IdNamesSigningKey
    <3>1. CertOf(files.id, files.sign)  BY DEF CosInv, IdFile
    <3>2. mem.sign \in Key /\ files.sign = KeyFile(mem.sign)  BY DEF CosInv, SignFile, Loaded
    <3>. QED  BY <3>1, <3>2, CertFacts
  <2>. QED  BY <2>1, <2>2 DEF CosignerKeysFit
<1>2. CosignerSpec => []CosInv  BY CosInvInit, CosInvNext, PTL DEF CosignerSpec
<1>. QED  BY <1>1, <1>2, PTL
=============================================================================
