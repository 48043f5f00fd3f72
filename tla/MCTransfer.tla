----------------------------- MODULE MCTransfer -----------------------------
(***************************************************************************)
(* Transfer for TLC: two bundles of one to three segments of at most two   *)
(* bytes, sent by one end or in both directions.                           *)
(***************************************************************************)
EXTENDS Transfer

CONSTANTS x1, x2

One(B, e, m, n, drop) ==
    [sent |-> B, source |-> [x \in Bundle |-> IF x = x1 THEN "a" ELSE e],
     size |-> [x \in Bundle |-> IF x = x1 THEN m ELSE n], drop |-> drop]

(* Two at a time, one in each direction, or one that fills all channels; *)
(* no bundle fills its last segment.                                     *)
OddLoads == {One(Bundle, "a", 3, 1, TRUE), One(Bundle, "b", 3, 1, FALSE), One({x1}, "a", 7, 1, FALSE)}
EvenLoad == {One(Bundle, "a", 4, 4, FALSE)}
=============================================================================
