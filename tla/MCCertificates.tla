--------------------------- MODULE MCCertificates ---------------------------
(***************************************************************************)
(* The life of a certificate for TLC: its revocation, its automatic        *)
(* renewal, its issuance by an upstream or a Dogtag CA.  A behaviour       *)
(* exercises one of the Parts; the others keep their initial state.        *)
(***************************************************************************)
EXTENDS Revocation, Star, Upstream, TLC

CONSTANT Parts
VARIABLE part
vars == <<part, revVars, starVars, upVars>>

MCInfo ==
    [c1 |-> [ca |-> "a", account |-> "x", key |-> "k1", index |-> 1, star |-> FALSE],
     c2 |-> [ca |-> "b", account |-> "y", key |-> "k2", index |-> NoIndex, star |-> TRUE]]
MCActors == {[kind |-> "account", id |-> "x"], [kind |-> "key", id |-> "k1"],
             [kind |-> "operator", role |-> "administrator", ca |-> NoCaScope],
             [kind |-> "operator", role |-> "ca_ra", ca |-> "b"]}

MCTerms == {[lifetime |-> 6, adjust |-> 0, end |-> 5, get |-> TRUE],
            [lifetime |-> 3, adjust |-> 2, end |-> 9, get |-> FALSE]}

Init == part \in Parts /\ RevInit /\ StarInit /\ UpInit
Next ==
    /\ UNCHANGED part
    /\ \/ part = "revocation" /\ RevNext /\ UNCHANGED <<starVars, upVars>>
       \/ part = "star" /\ StarNext /\ UNCHANGED <<revVars, upVars>>
       \/ part = "upstream" /\ UpNext /\ UNCHANGED <<revVars, starVars>>
       \/ part = "dogtag" /\ DogtagNext /\ UNCHANGED <<revVars, starVars>>

Drive == part = "upstream" /\ DriverStep /\ UNCHANGED <<part, revVars, starVars>>
Clock == part = "upstream" /\ UpTick /\ UNCHANGED <<part, revVars, starVars>>
Spec == Init /\ [][Next]_vars /\ WF_vars(Drive) /\ WF_vars(Clock)
=============================================================================
