---------------------------- MODULE AtomicWrites ----------------------------
(***************************************************************************)
(* What the write coalescer promises its callers: every operation happens  *)
(* at most once, entirely or not at all, in some order; an Ok answer is    *)
(* the outcome of an operation that is durable, an error answer means that *)
(* the operation did not happen and never will.  Once SQLite has abandoned *)
(* a transaction by itself, an error answer promises nothing.              *)
(***************************************************************************)
EXTENDS CoalescerOps

CONSTANT InitDbs

VARIABLES
  db,         \* the durable rows
  done,       \* outcome of each operation that happened, else "none"
  reply,      \* what was sent to its caller, else "none"
  abandoned   \* SQLite has rolled a transaction back by itself

Init == /\ db \in InitDbs
        /\ done = [op \in Ops |-> "none"]
        /\ reply = [op \in Ops |-> "none"]
        /\ abandoned = FALSE

(* Orders in which a set of operations may happen. *)
Orderings(S) == {s \in [1 .. Cardinality(S) -> S] : \A i, j \in DOMAIN s : s[i] = s[j] => i = j}

(* The rows after the first n operations of s. *)
After(s, n) ==
  LET rows[i \in 0 .. n] == IF i = 0 THEN db ELSE Exec(s[i], rows[i - 1]).db IN rows[n]

(* Some operations happen, all of them successful. *)
Happen ==
  LET S == {op \in Ops : done'[op] # done[op]} IN
  /\ \A op \in S : done[op] = "none" /\ reply[op] = "none"
  /\ \E s \in Orderings(S) :
       LET out(i) == Exec(s[i], After(s, i - 1)).outcome IN
       /\ \A i \in DOMAIN s : out(i) # "error" /\ done'[s[i]] = out(i)
       /\ db' = After(s, Cardinality(S))
  /\ UNCHANGED <<reply, abandoned>>

(* Some callers are answered. *)
Answer ==
  /\ \A op \in Ops : reply'[op] # reply[op] =>
       /\ reply[op] = "none"
       /\ \/ reply'[op] = IF done[op] = "none" THEN "error" ELSE done[op]
          \/ reply'[op] = "error" /\ abandoned
  /\ UNCHANGED <<db, done, abandoned>>

Abandon == abandoned' = TRUE /\ UNCHANGED <<db, done, reply>>

Next == Happen \/ Answer \/ Abandon

Spec == Init /\ [][Next]_<<db, done, reply, abandoned>>
=============================================================================
