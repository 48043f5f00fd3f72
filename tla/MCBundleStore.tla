--------------------------- MODULE MCBundleStore ---------------------------
(***************************************************************************)
(* BundleStore for TLC: a payload of three bytes in two fragments or as a  *)
(* whole.  Bundles do not affect each other in the store, so that there is *)
(* one.                                                                    *)
(***************************************************************************)
EXTENDS BundleStore

CONSTANTS b1, r1, c1, u1

Whole == [frag |-> FALSE, off |-> 0, len |-> Total]
Fragment(off, len) == [frag |-> TRUE, off |-> off, len |-> len]

WithWhole == {Fragment(0, 2), Fragment(2, 1), Whole}
=============================================================================
