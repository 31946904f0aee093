---------------------------- MODULE MCAcmeOrders ----------------------------
(* Instances of AcmeOrders for TLC.  Each group of definitions gives the   *)
(* row structure of one configuration.                                     *)
EXTENDS AcmeOrders, TLC

CONSTANTS o1, o2, o3, a1, a2, a3, c1, c2, c3, k1, k2, k3, r1, r2, parent, child, other

(* One order with two authorizations, the first with two challenges. *)
RaceOrderOf == a1 :> o1 @@ a2 :> o1
RaceAuthzOf == c1 :> a1 @@ c2 :> a1 @@ c3 :> a2
RaceKind    == c1 :> "direct" @@ c2 :> "payload" @@ c3 :> "direct"
RaceIdent   == a1 :> parent @@ a2 :> other

NoAncestors == [i \in Idents |-> {}]

(* An order whose authorization covers subdomains, a second order for a    *)
(* subdomain, and a pre-authorization for the same parent domain.          *)
CoverOrderOf   == a1 :> o1 @@ a2 :> o2 @@ a3 :> Null
CoverAuthzOf   == c1 :> a1 @@ c2 :> a2 @@ c3 :> a3
CoverKind      == c1 :> "direct" @@ c2 :> "email" @@ c3 :> "direct"
CoverIdent     == a1 :> parent @@ a2 :> child @@ a3 :> parent
CoverAncestors == parent :> {} @@ child :> {parent} @@ other :> {}

(* Certificate ids and request slots are interchangeable. *)
IssueSymmetry == Permutations({k1, k2, k3}) \cup Permutations({r1, r2})
=============================================================================
