------------------------------ MODULE MCGossip ------------------------------
(***************************************************************************)
(* Replication for TLC.  A behaviour exercises one of the Parts: the       *)
(* exchange of deltas between nodes (Gossip), or the way of one row of any *)
(* table through hooks, replica, database and restarts (CrdtStore).        *)
(***************************************************************************)
EXTENDS Gossip, CrdtStore, TLC

CONSTANTS n1, n2, a1, Parts
VARIABLE part
allVars == <<part, vars, storeVars>>

MCInit == part \in Parts /\ Init /\ StoreInit /\ (part # "store" => table = "orders")
MCNext ==
  /\ UNCHANGED part
  /\ \/ part = "gossip" /\ Next /\ UNCHANGED storeVars
     \/ part = "store" /\ StoreNext /\ UNCHANGED vars
MCSpec == MCInit /\ [][MCNext]_allVars


(* FairSpec, and the same for CrdtStore: hooks run, exchanges and writes   *)
(* of the replica go on.                                                   *)
MCFairSpec ==
  /\ MCSpec
  /\ \A n \in Nodes :
       /\ WF_vars(part = "gossip" /\ Hook(n)) /\ SF_vars(part = "gossip" /\ RoundStart(n)) /\ WF_vars(part = "gossip" /\ RoundEnd(n))
       /\ WF_vars(part = "gossip" /\ PersistWrite(n))
       /\ \A p \in Peers(n) : WF_vars(part = "gossip" /\ Receive(n, p))
  /\ \A n \in StoreNodes :
       /\ WF_storeVars(part = "store" /\ RunHook(n)) /\ WF_storeVars(part = "store" /\ WriteClone(n)) /\ WF_storeVars(part = "store" /\ PersistAll(n))
       /\ \A p \in StoreNodes \ {n} : WF_storeVars(part = "store" /\ MergePeer(n, p))
=============================================================================
