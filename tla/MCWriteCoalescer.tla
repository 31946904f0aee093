-------------------------- MODULE MCWriteCoalescer --------------------------
(* WriteCoalescer for TLC: a behaviour plays one of the Scenarios. *)
EXTENDS WriteCoalescer, TLC

CONSTANTS s1, s2, v1, i1, f1, f2, n1, a1, a2
VARIABLE scenario
MCKind == s1 :> "SetProcessing" @@ s2 :> "SetProcessing" @@ v1 :> "OnValid" @@ i1 :> "OnInvalid"
          @@ f1 :> "Finalize" @@ f2 :> "Finalize" @@ n1 :> "NewOrder" @@ a1 :> "NewAccount" @@ a2 :> "NewAccount"

(* One order, from racing flips of its challenge to racing certificates;   *)
(* a new order whose validation fails, and two accounts that race for one  *)
(* EAB key.                                                                *)
PendingDb == [EmptyDb EXCEPT !.order = "pending", !.authz = "pending", !.chall = "pending"]
Issue == [ops |-> {s1, s2, v1, f1, f2}, start |-> PendingDb]
Create == [ops |-> {n1, s1, i1, a1, a2}, start |-> EmptyDb]
MCInitDbs == {PendingDb, EmptyDb}

MCInit == Init /\ scenario \in {Issue, Create} /\ db = scenario.start
MCNext == Next /\ UNCHANGED scenario /\ \A op \in Ops \ scenario.ops : client'[op] = "idle"
MCSpec == MCInit /\ [][MCNext]_<<vars, scenario>> /\ WF_vars(LoopStep) /\ WF_vars(\E op \in Ops : Send(op))
=============================================================================
