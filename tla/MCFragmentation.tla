-------------------------- MODULE MCFragmentation --------------------------
(***************************************************************************)
(* Fragmentation for TLC: lengths on both sides of the limits where a CBOR *)
(* head grows.                                                             *)
(***************************************************************************)
EXTENDS Fragmentation

(* At most five fragments, or an MTU that is about the overhead *)
ManyCases == {c \in ((0..60) \cup (240..260)) \X ((18..44) \cup (252..262)) : c[1] <= 4 * (c[2] - 15)}
             \cup ((0..4) \X (10..17))

FewCases == (2..4) \X {100}
AllCases == ManyCases \cup FewCases
=============================================================================
