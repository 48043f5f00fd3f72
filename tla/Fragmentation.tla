--------------------------- MODULE Fragmentation ---------------------------
(***************************************************************************)
(* Fragmentation and reassembly of a bundle: pkg/bpv7/fragmentation.go.    *)
(*                                                                         *)
(* Fragment cuts the payload into fragments of at most mtu bytes; they and *)
(* other fragments of the same payload (made on another path, with another *)
(* MTU) arrive in any order; then prepareReassembly and                    *)
(* mergeFragmentPayload go through the fragments that have arrived.  The   *)
(* iterations of the three loops are steps.  A byte of the payload is      *)
(* known by its position, a block by the length of its serialization.      *)
(***************************************************************************)
EXTENDS Integers, Sequences, FiniteSets

CONSTANTS Cases,    \* payload lengths and values of the parameter mtu
          Primary,  \* bytes of a primary block without its fragment fields
          ExtAll,   \* bytes of all extension blocks
          ExtRepl,  \* bytes of those to be replicated in every fragment
          PayHead,  \* bytes of a payload block without its byte string
          Mixed     \* bound: the cases in which fragments of other origin
                    \* arrive, too, and fragments may be missing

ASSUME LengthAssumption ==
    /\ Cases \subseteq Nat \X Nat
    /\ Primary \in Nat /\ ExtAll \in Nat /\ ExtRepl \in Nat /\ PayHead \in Nat
    /\ ExtRepl <= ExtAll
ASSUME MixedAssumption == Mixed \subseteq Cases

VARIABLES phase,   \* the loop that is running, or how it ended
          total,   \* length of the payload
          mtu,
          i,       \* Fragment: payload bytes that were dealt with
          bs,      \* the fragments Fragment has made
          parts,   \* the fragments that have arrived
          order,   \* those reassembly has looked at, sorted by offset
          last,    \* lastIndex of prepareReassembly and mergeFragmentPayload
          data     \* mergeFragmentPayload: the merged payload

vars == <<phase, total, mtu, i, bs, parts, order, last, data>>

(* A bundle; frag is its IsFragment flag *)
Piece == [frag: BOOLEAN, off: Nat, len: Nat]

Whole == [frag |-> FALSE, off |-> 0, len |-> total]

(* The head of a CBOR unsigned integer or byte string *)
CborLen(n) == IF n < 24 THEN 1 ELSE IF n < 256 THEN 2 ELSE IF n < 65536 THEN 3 ELSE 5

-----------------------------------------------------------------------------
(* Bundle.Fragment *)

fragmentPrimaryBlock(off) == Primary + CborLen(off) + CborLen(total)

(* Mutant: the byte string head of the payload is taken for one byte *)
fragmentBlocksOneByte(off) == PayHead + 1 + (IF off = 0 THEN ExtAll ELSE ExtRepl)

(* The payload block is counted with the head of a byte string of mtu bytes *)
fragmentExtensionBlocksLen(off) ==
    PayHead + CborLen(mtu) + (IF off = 0 THEN ExtAll ELSE ExtRepl)

overhead(off) == 2 + fragmentPrimaryBlock(off) + fragmentExtensionBlocksLen(off)

(* MustNotFragmented is looked at first *)
Fragment ==
    /\ phase = "start"
    /\ phase' \in {"fragment", "refused"}
    /\ UNCHANGED <<total, mtu, i, bs, parts, order, last, data>>

FragmentFail ==
    /\ phase = "fragment" /\ i < total /\ overhead(i) >= mtu
    /\ phase' = "refused"
    /\ UNCHANGED <<total, mtu, i, bs, parts, order, last, data>>

(* Mutant: a fragment starts one byte late *)
FragmentLate ==
    LET n == mtu - overhead(i)
    IN  /\ phase = "fragment" /\ i < total /\ overhead(i) < mtu
        /\ bs' = bs \cup {[frag |-> TRUE, off |-> i,
                           len |-> IF i + n < total THEN n - 1 ELSE total - i]}
        /\ i' = i + n
        /\ UNCHANGED <<phase, total, mtu, parts, order, last, data>>

FragmentNext ==
    LET n == mtu - overhead(i)
    IN  /\ phase = "fragment" /\ i < total /\ overhead(i) < mtu
        /\ bs' = bs \cup {[frag |-> TRUE, off |-> i,
                           len |-> IF i + n < total THEN n ELSE total - i]}
        /\ i' = i + n
        /\ UNCHANGED <<phase, total, mtu, parts, order, last, data>>

(* A single fragment is the bundle itself *)
FragmentEnd ==
    /\ phase = "fragment" /\ i >= total
    /\ bs' = IF Cardinality(bs) = 1 THEN {Whole} ELSE bs
    /\ phase' = "transit"
    /\ UNCHANGED <<total, mtu, i, parts, order, last, data>>

-----------------------------------------------------------------------------
(* They arrive in the store: Store.Push takes one fragment for each offset, *)
(* or the whole bundle.                                                    *)

Fresh(p) == \A q \in parts : p.frag /\ q.frag /\ p.off # q.off

InMixed == <<total, mtu>> \in Mixed

Arrive(p) ==
    /\ phase = "transit" /\ Fresh(p)
    /\ parts' = parts \cup {p}
    /\ UNCHANGED <<phase, total, mtu, i, bs, order, last, data>>

Reassemble ==
    /\ phase = "transit" /\ parts # {}
    /\ InMixed \/ bs \subseteq parts
    /\ phase' = "prepare" /\ last' = 0 /\ order' = <<>> /\ data' = <<>>
    /\ UNCHANGED <<total, mtu, i, bs, parts>>

-----------------------------------------------------------------------------
(* prepareReassembly *)

Looked == {order[k] : k \in 1..Len(order)}

(* The next one of the sorted fragments *)
IsNext(p) == p \in parts \ Looked /\ \A q \in parts \ Looked : p.off <= q.off

(* Mutant: a fragment that only touches its predecessor is taken for a gap *)
PrepareFailTouching(p) ==
    /\ phase = "prepare" /\ IsNext(p)
    /\ ~p.frag \/ p.off > last \/ (p.off = last /\ last > 0)
    /\ phase' = "error"
    /\ UNCHANGED <<total, mtu, i, bs, parts, order, last, data>>

PrepareFail(p) ==
    /\ phase = "prepare" /\ IsNext(p)
    /\ ~p.frag \/ p.off > last
    /\ phase' = "error"
    /\ UNCHANGED <<total, mtu, i, bs, parts, order, last, data>>

PrepareNext(p) ==
    /\ phase = "prepare" /\ IsNext(p)
    /\ p.frag /\ p.off <= last
    /\ last' = p.off + p.len
    /\ order' = Append(order, p)
    /\ UNCHANGED <<phase, total, mtu, i, bs, parts, data>>

(* Mutant: the end of the payload may be missing *)
PrepareEndAny ==
    /\ phase = "prepare" /\ parts \subseteq Looked
    /\ phase' = "merge" /\ last' = 0
    /\ UNCHANGED <<total, mtu, i, bs, parts, order, data>>

PrepareEnd ==
    /\ phase = "prepare" /\ parts \subseteq Looked
    /\ phase' = IF last = total THEN "merge" ELSE "error"
    /\ last' = 0
    /\ UNCHANGED <<total, mtu, i, bs, parts, order, data>>

-----------------------------------------------------------------------------
(* mergeFragmentPayload; a slice expression beyond the fragment is a panic *)

MergeNext ==
    LET p == Head(order)
        skip == last - p.off
    IN  /\ phase = "merge" /\ order # <<>>
        /\ IF skip \in 0..p.len
           THEN /\ data' = data \o [k \in 1..(p.len - skip) |-> p.off + skip + k - 1]
                /\ last' = p.off + p.len
                /\ order' = Tail(order)
                /\ UNCHANGED phase
           ELSE /\ phase' = "panic"
                /\ UNCHANGED <<order, last, data>>
        /\ UNCHANGED <<total, mtu, i, bs, parts>>

MergeEnd ==
    /\ phase = "merge" /\ order = <<>>
    /\ phase' = "ok"
    /\ UNCHANGED <<total, mtu, i, bs, parts, order, last, data>>

-----------------------------------------------------------------------------
Init ==
    /\ phase = "start"
    /\ \E c \in Cases : total = c[1] /\ mtu = c[2]
    /\ i = 0 /\ bs = {} /\ parts = {}
    /\ order = <<>> /\ last = 0 /\ data = <<>>

(* What may arrive *)
Sent == bs \cup (IF InMixed THEN {[frag |-> TRUE, off |-> o, len |-> n] : o, n \in 0..total} ELSE {})

Next ==
    \/ Fragment \/ FragmentFail \/ FragmentNext \/ FragmentEnd
    \/ \E p \in {q \in Sent : q.off + q.len <= total} : Arrive(p)
    \/ Reassemble
    \/ \E p \in parts : PrepareFail(p) \/ PrepareNext(p)
    \/ PrepareEnd \/ MergeNext \/ MergeEnd

Spec == Init /\ [][Next]_vars

-----------------------------------------------------------------------------
(* Properties *)

Phase == {"start", "fragment", "refused", "transit", "prepare", "merge", "ok", "error", "panic"}

TypeOK ==
    /\ phase \in Phase
    /\ total \in Nat /\ mtu \in Nat /\ i \in Nat /\ last \in Nat
    /\ bs \subseteq Piece /\ parts \subseteq Piece
    /\ order \in Seq(Piece)
    /\ data \in Seq(Nat)

(* The length of a fragment's serialization *)
Serialized(p) ==
    2 + fragmentPrimaryBlock(p.off) + (IF p.off = 0 THEN ExtAll ELSE ExtRepl)
      + PayHead + CborLen(p.len) + p.len

(* "each serialized Bundle limited to mtu bytes": no fragment is longer *)
FragmentsFit == \A p \in bs : p.frag => Serialized(p) <= mtu

Covers(p, n) == p.off <= n /\ n < p.off + p.len

(* The fragments made so far are the payload up to where Fragment is: no   *)
(* byte is missing and none is in two of them.                             *)
FragmentsTile ==
    \A n \in 0..(total - 1) :
        IF n < i THEN \E p \in bs : Covers(p, n) /\ \A q \in bs : Covers(q, n) => q = p
        ELSE \A p \in bs : ~Covers(p, n)

(* Whatever fragments there are, with gaps and overlaps and of any origin: *)
(* what is reassembled without an error is the payload.                    *)
ReassembledIsPayload == phase = "ok" => data = [k \in 1..total |-> k - 1]

(* The fragments of one bundle are reassembled, in whatever order they     *)
(* arrived.                                                                *)
RoundTrip ==
    phase \in {"error", "panic"} /\ Cardinality(bs) > 1 => parts # bs
=============================================================================
