--------------------------- MODULE MCRequestAuth ---------------------------
(* Instances of RequestAuth for TLC. *)
EXTENDS RequestAuth, TLC

CONSTANTS a1, a2, k1, k2, k3, r1, r2, r3

OneRegistered == a1 :> k1

(* Requests are interchangeable. *)
AuthSymmetry == Permutations(Reqs)
=============================================================================
