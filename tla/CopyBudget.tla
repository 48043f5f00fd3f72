---------------------------- MODULE CopyBudget ----------------------------
(***************************************************************************)
(* What spray and wait routing promises for one bundle, whatever node runs *)
(* it: the copies of a bundle are a budget.  A node that has more than one *)
(* may hand some of them to another node, together with the bundle, and    *)
(* keeps one for itself; copies may get lost; and the budget grows only by *)
(* what is counted in minted.  Hence never more nodes carry the bundle at  *)
(* a time than there have been copies.                                     *)
(***************************************************************************)
EXTENDS Naturals, FiniteSets

CONSTANTS Nodes,      \* the nodes that may carry the bundle
          Source,     \* the node that creates it
          L           \* SprayConfig.Multiplicity

VARIABLES carriers,   \* the nodes that have the bundle in their store
          copies,     \* the copies each node may still hand out or lose
          minted      \* copies that were created after the bundle

budget == <<carriers, copies, minted>>

Start == /\ carriers = {Source}
         /\ copies = [n \in Nodes |-> IF n = Source THEN L ELSE 0]
         /\ minted = 0

(* Node n gives the bundle and k copies of it to node m, which may count   *)
(* more of them.                                                           *)
Hand(n, m, k) ==
    /\ m \notin carriers
    /\ copies[n] >= (IF n \in carriers THEN k + 1 ELSE k)
    /\ carriers' = carriers \union {m}
    /\ \E j \in 0..L :
          /\ copies' = [copies EXCEPT ![n] = @ - k, ![m] = @ + k + j]
          /\ minted' = minted + j

(* Node n loses copies, its bundle, or both.                               *)
Lose(n) ==
    /\ carriers' \in {carriers, carriers \ {n}}
    /\ \E k \in 0..copies[n] : copies' = [copies EXCEPT ![n] = k]
    /\ UNCHANGED minted

(* The bundle expires: no node carries it any more.                        *)
Expire ==
    /\ carriers' = {}
    /\ DOMAIN copies' = Nodes
    /\ \A n \in Nodes : copies'[n] <= copies[n]
    /\ UNCHANGED minted

(* Node n counts a copy that it was not given.                             *)
Mint(n) ==
    /\ \E k \in 0..(copies[n] + 1) : copies' = [copies EXCEPT ![n] = k]
    /\ minted' = minted + 1
    /\ UNCHANGED carriers

Move == \/ \E n, m \in Nodes, k \in 1..L : Hand(n, m, k)
        \/ \E n \in Nodes : Lose(n) \/ Mint(n)
        \/ Expire

Budget == Start /\ [][Move]_budget
=============================================================================
