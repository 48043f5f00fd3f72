--------------------------- MODULE MCCLAManager ---------------------------
(***************************************************************************)
(* CLAManager for TLC: two instances at their own addresses, at the same   *)
(* address, or one a sender to the endpoint of the other.                  *)
(***************************************************************************)
EXTENDS CLAManager

CONSTANTS c1, c2, a1, a2

OwnAddress == [c \in Conv |-> IF c = c1 THEN a1 ELSE a2]
SameAddress == [c \in Conv |-> a1]

NoShadows == [c \in Conv |-> {}]
PeerShadows == [c \in Conv |-> IF c = c1 THEN {c2} \cap Conv ELSE {}]

(* Enough for a message before and one after a restart *)
Statuses == [c \in Conv |-> IF c = c1 THEN 2 ELSE 1]

Pairs == {[address |-> OwnAddress, shadows |-> NoShadows],
          [address |-> OwnAddress, shadows |-> PeerShadows],
          [address |-> SameAddress, shadows |-> NoShadows]}
=============================================================================
