------------------------ MODULE FragmentationProofs ------------------------
(***************************************************************************)
(* For payloads and MTUs of any size: the fragments Fragment makes fit     *)
(* into the MTU and tile the payload, and whatever is reassembled, from    *)
(* fragments of any origin, is the payload.                                *)
(***************************************************************************)
EXTENDS Fragmentation, SequenceTheorems, TLAPS

Fixed == /\ total \in Nat /\ mtu \in Nat /\ i \in Nat
         /\ bs \subseteq Piece

(* Every fragment was cut with the room that was left for its payload *)
Cut == \A p \in bs : p.frag => p.len <= mtu - overhead(p.off)

(* Where the fragments end *)
Ends == \A p \in bs : p.off + p.len <= i /\ p.off + p.len <= total

(* A CBOR head does not get shorter for a larger number *)
LEMMA CborLenGrows ==
    ASSUME NEW m \in Nat, NEW n \in Nat, m <= n
    PROVE  CborLen(m) <= CborLen(n) /\ CborLen(m) \in Nat /\ CborLen(n) \in Nat
BY DEF CborLen

(* The overhead of a fragment is a number of bytes *)
LEMMA OverheadNat ==
    ASSUME Fixed, NEW n \in Nat
    PROVE  overhead(n) \in Nat
<1>1. CborLen(n) \in Nat /\ CborLen(total) \in Nat /\ CborLen(mtu) \in Nat
  BY DEF CborLen, Fixed
<1>. QED  BY <1>1, LengthAssumption DEF overhead, fragmentPrimaryBlock, fragmentExtensionBlocksLen

(* A fragment cut with the room for its payload is not longer than the MTU *)
LEMMA CutFits ==
    ASSUME Fixed, Cut
    PROVE  FragmentsFit
<1>. SUFFICES ASSUME NEW p \in bs, p.frag
              PROVE  Serialized(p) <= mtu
  BY DEF FragmentsFit
<1>1. p.off \in Nat /\ p.len \in Nat /\ mtu \in Nat /\ total \in Nat
  BY DEF Fixed, Piece
<1>2. overhead(p.off) \in Nat
  BY <1>1, OverheadNat
<1>3. p.len <= mtu - overhead(p.off)
  BY DEF Cut
<1>4. p.len <= mtu
  BY <1>1, <1>2, <1>3
<1>5. CborLen(p.len) <= CborLen(mtu) /\ CborLen(p.len) \in Nat /\ CborLen(mtu) \in Nat
  BY <1>1, <1>4, CborLenGrows
<1>6. CborLen(p.off) \in Nat /\ CborLen(total) \in Nat
  BY <1>1 DEF CborLen
<1>. QED
  BY <1>1, <1>3, <1>5, <1>6, LengthAssumption
     DEF Serialized, overhead, fragmentPrimaryBlock, fragmentExtensionBlocksLen

Loop == Fixed /\ Cut /\ Ends /\ FragmentsTile

(* One iteration of the loop of Bundle.Fragment cuts the next part of the  *)
(* payload off.                                                            *)
LEMMA FragmentStep ==
    ASSUME Loop, FragmentNext
    PROVE  Loop'
<1>. DEFINE n == mtu - overhead(i)
            new == [frag |-> TRUE, off |-> i, len |-> IF i + n < total THEN n ELSE total - i]
<1>1. /\ total \in Nat /\ mtu \in Nat /\ i \in Nat /\ i < total /\ overhead(i) \in Nat
      /\ overhead(i) < mtu
      /\ total' = total /\ mtu' = mtu /\ i' = i + n /\ bs' = bs \cup {new}
  BY OverheadNat DEF Loop, Fixed, FragmentNext
<1>2. n \in Nat /\ n > 0 /\ n = mtu - overhead(i)
  BY <1>1
<1>3. new \in Piece /\ new.off = i /\ new.len \in Nat /\ new.len <= n /\ new.frag
      /\ new.off + new.len <= total /\ new.off + new.len <= i + n
      /\ (new.len = n \/ new.off + new.len = total)
  BY <1>1, <1>2 DEF Piece
<1>. HIDE DEF n, new
<1>4. Fixed'
  BY <1>1, <1>2, <1>3 DEF Loop, Fixed
<1>5. Cut'
  <2>1. \A m : overhead(m)' = overhead(m)
    BY <1>1 DEF overhead, fragmentPrimaryBlock, fragmentExtensionBlocksLen
  <2>2. ASSUME NEW p \in bs', p.frag
        PROVE  p.len <= mtu - overhead(p.off)
    <3>1. CASE p \in bs
      BY <2>2, <3>1 DEF Loop, Cut
    <3>2. CASE p = new
      BY <1>2, <1>3, <3>2
    <3>. QED  BY <1>1, <2>2, <3>1, <3>2
  <2>. QED  BY <1>1, <2>1, <2>2 DEF Cut
<1>6. Ends'
  <2>. SUFFICES ASSUME NEW p \in bs'
                PROVE  p.off + p.len <= i' /\ p.off + p.len <= total'
    BY DEF Ends
  <2>1. CASE p \in bs
    <3>1. p.off \in Nat /\ p.len \in Nat
      BY <2>1 DEF Loop, Fixed, Piece
    <3>2. p.off + p.len <= i /\ p.off + p.len <= total
      BY <2>1 DEF Loop, Ends
    <3>. QED  BY <1>1, <1>2, <3>1, <3>2
  <2>2. CASE p = new
    BY <1>1, <1>3, <2>2
  <2>. QED  BY <1>1, <2>1, <2>2
<1>7. FragmentsTile'
  <2>. SUFFICES ASSUME NEW k \in 0..(total - 1)
                PROVE  IF k < i + n
                       THEN \E p \in bs' : Covers(p, k) /\ \A q \in bs' : Covers(q, k) => q = p
                       ELSE \A p \in bs' : ~Covers(p, k)
    BY <1>1 DEF FragmentsTile, Covers
  <2>1. IF k < i THEN \E p \in bs : Covers(p, k) /\ \A q \in bs : Covers(q, k) => q = p
        ELSE \A p \in bs : ~Covers(p, k)
    BY DEF Loop, FragmentsTile
  <2>2. Covers(new, k) <=> i <= k /\ k < i + n
    BY <1>1, <1>2, <1>3 DEF Covers
  <2>3. CASE k < i
    BY <1>1, <1>2, <2>1, <2>2, <2>3
  <2>4. CASE i <= k /\ k < i + n
    BY <1>1, <2>1, <2>2, <2>4
  <2>5. CASE k >= i + n
    BY <1>1, <1>2, <2>1, <2>2, <2>5
  <2>. QED  BY <1>1, <1>2, <2>3, <2>4, <2>5
<1>. QED  BY <1>4, <1>5, <1>6, <1>7 DEF Loop

(* The end of the loop: the only fragment is replaced by the whole bundle *)
LEMMA FragmentLast ==
    ASSUME Loop, FragmentEnd
    PROVE  Loop'
<1>1. /\ total \in Nat /\ mtu \in Nat /\ i \in Nat /\ i >= total
      /\ total' = total /\ mtu' = mtu /\ i' = i
  BY DEF Loop, Fixed, FragmentEnd
<1>2. CASE bs' = bs
  BY <1>1, <1>2 DEF Loop, Fixed, Cut, Ends, FragmentsTile, Covers, overhead,
                    fragmentPrimaryBlock, fragmentExtensionBlocksLen
<1>3. CASE bs' = {Whole}
  <2>1. Whole \in Piece /\ Whole.off = 0 /\ Whole.len = total /\ ~Whole.frag
    BY <1>1 DEF Whole, Piece
  <2>2. Fixed' /\ Cut' /\ Ends'
    BY <1>1, <1>3, <2>1 DEF Fixed, Cut, Ends
  <2>3. FragmentsTile'
    BY <1>1, <1>3, <2>1 DEF FragmentsTile, Covers
  <2>. QED  BY <2>2, <2>3 DEF Loop
<1>. QED  BY <1>2, <1>3 DEF FragmentEnd

(* Nothing else changes the fragments *)
LEMMA FragmentRest ==
    ASSUME Loop, UNCHANGED <<total, mtu, i, bs>>
    PROVE  Loop'
BY DEF Loop, Fixed, Cut, Ends, FragmentsTile, Covers, overhead,
       fragmentPrimaryBlock, fragmentExtensionBlocksLen

(* The loop of Bundle.Fragment keeps its invariant *)
LEMMA LoopInvariant == Spec => []Loop
<1>1. Init => Loop
  BY LengthAssumption DEF Init, Loop, Fixed, Cut, Ends, FragmentsTile
<1>2. ASSUME Loop, [Next]_vars
      PROVE  Loop'
  <2>1. CASE FragmentNext
    BY <1>2, <2>1, FragmentStep
  <2>2. CASE FragmentEnd
    BY <1>2, <2>2, FragmentLast
  <2>3. CASE UNCHANGED <<total, mtu, i, bs>>
    BY <1>2, <2>3, FragmentRest
  <2>. QED
    BY <1>2, <2>1, <2>2, <2>3
       DEF Next, vars, Fragment, FragmentFail, Arrive, Reassemble, PrepareFail, PrepareNext,
           PrepareEnd, MergeNext, MergeEnd
<1>. QED  BY <1>1, <1>2, PTL DEF Spec

(* Fragment promises fragments that are "limited to mtu bytes": none is    *)
(* longer, for every payload, MTU and length of the blocks.                *)
THEOREM Fitting == Spec => []FragmentsFit
<1>1. Loop => FragmentsFit
  BY CutFits DEF Loop
<1>. QED  BY <1>1, LoopInvariant, PTL

(* The fragments Fragment makes are the payload, cut without gap or overlap *)
THEOREM Tiling == Spec => []FragmentsTile
<1>1. Loop => FragmentsTile
  BY DEF Loop
<1>. QED  BY <1>1, LoopInvariant, PTL

-----------------------------------------------------------------------------
(* Reassembly *)

End(p) == p.off + p.len

(* Each fragment starts where the ones before it end, or earlier *)
Chained(from) ==
    /\ order # <<>> => order[1].off <= from
    /\ \A k \in 1..(Len(order) - 1) : order[k + 1].off <= End(order[k])

EndOf(from) == IF order = <<>> THEN from ELSE End(order[Len(order)])

Merging ==
    /\ total \in Nat /\ last \in Nat /\ parts \subseteq Piece /\ bs \subseteq Piece
    /\ order \in Seq(Piece)
    /\ phase = "prepare" => Chained(0) /\ last = EndOf(0) /\ data = <<>>
    /\ phase = "merge" => Chained(last) /\ EndOf(last) = total
    /\ phase \in {"merge", "ok"} => data = [k \in 1..last |-> k - 1]
    /\ phase = "ok" => last = total

(* prepareReassembly appends a fragment to the chain *)
LEMMA PrepareStep ==
    ASSUME Merging, NEW p \in parts, PrepareNext(p)
    PROVE  Merging'
<1>1. /\ p \in Piece /\ p.off \in Nat /\ p.len \in Nat /\ p.off <= last
      /\ order' = Append(order, p) /\ last' = p.off + p.len
      /\ phase = "prepare" /\ phase' = phase /\ total' = total /\ parts' = parts /\ bs' = bs
      /\ data' = data
  BY DEF Merging, PrepareNext, Piece
<1>2. order \in Seq(Piece) /\ order' \in Seq(Piece) /\ Len(order') = Len(order) + 1
      /\ Len(order) \in Nat /\ order' # <<>>
      /\ order'[Len(order')] = p /\ \A k \in 1..Len(order) : order'[k] = order[k]
  BY <1>1 DEF Merging
<1>3. last = EndOf(0) /\ Chained(0) /\ last \in Nat /\ data = <<>>
  BY <1>1 DEF Merging
<1>4. CASE order = <<>>
  <2>1. last = 0 /\ Len(order') = 1 /\ order'[1] = p
    BY <1>2, <1>3, <1>4 DEF EndOf
  <2>. QED  BY <1>1, <1>2, <1>3, <2>1 DEF Merging, Chained, EndOf, End
<1>5. CASE order # <<>>
  <2>1. Len(order) > 0
    BY <1>2, <1>5
  <2>2. order'[1].off <= 0
    BY <1>2, <1>3, <1>5, <2>1 DEF Chained
  <2>3. ASSUME NEW k \in 1..(Len(order') - 1)
        PROVE  order'[k + 1].off <= End(order'[k])
    <3>1. CASE k = Len(order)
      BY <1>1, <1>2, <1>3, <1>5, <2>1, <3>1 DEF EndOf, End
    <3>2. CASE k \in 1..(Len(order) - 1)
      <4>1. order'[k] = order[k] /\ order'[k + 1] = order[k + 1]
        BY <1>2, <3>2
      <4>. QED  BY <1>3, <3>2, <4>1 DEF Chained, End
    <3>. QED  BY <1>2, <3>1, <3>2
  <2>4. Chained(0)'
    BY <2>2, <2>3 DEF Chained, End
  <2>5. last' = EndOf(0)'
    BY <1>1, <1>2 DEF EndOf, End
  <2>. QED  BY <1>1, <1>2, <1>3, <2>4, <2>5 DEF Merging
<1>. QED  BY <1>4, <1>5

(* mergeFragmentPayload appends what the chain has beyond lastIndex *)
LEMMA MergeStep ==
    ASSUME Merging, MergeNext
    PROVE  Merging'
<1>. DEFINE p == order[1]
            skip == last - p.off
<1>1. /\ phase = "merge" /\ order # <<>> /\ order \in Seq(Piece) /\ last \in Nat /\ total \in Nat
      /\ Chained(last) /\ EndOf(last) = total /\ data = [k \in 1..last |-> k - 1]
      /\ total' = total /\ parts' = parts /\ bs' = bs /\ parts \subseteq Piece /\ bs \subseteq Piece
  BY DEF Merging, MergeNext
<1>b. Len(order) \in Nat /\ Len(order) > 0 /\ p \in Piece /\ Head(order) = p /\ p = order[1]
  BY <1>1
<1>c. p.off \in Nat /\ p.len \in Nat /\ p.off <= last
  BY <1>1, <1>b DEF Chained, Piece
<1>2. skip \in Nat /\ p.off + skip = last /\ skip = last - p.off
  BY <1>1, <1>c
<1>d. (skip \in 0..p.len) = (skip <= p.len)
  BY <1>2, <1>c
<1>a. \/ /\ skip <= p.len
         /\ phase' = "merge" /\ order' = Tail(order) /\ last' = p.off + p.len
         /\ data' = data \o [k \in 1..(p.len - skip) |-> p.off + skip + k - 1]
      \/ ~(skip <= p.len) /\ phase' = "panic" /\ order' = order /\ last' = last
  BY <1>1, <1>b, <1>d DEF MergeNext
<1>. HIDE DEF p, skip
<1>3. CASE ~(skip <= p.len)
  <2>1. phase' = "panic" /\ order' = order /\ last' = last
    BY <1>a, <1>3
  <2>. QED  BY <1>1, <2>1 DEF Merging
<1>4. CASE skip <= p.len
  <2>1. /\ phase' = "merge" /\ order' = Tail(order) /\ last' = p.off + p.len
        /\ data' = data \o [k \in 1..(p.len - skip) |-> p.off + skip + k - 1]
    BY <1>a, <1>4
  <2>2. /\ order' \in Seq(Piece) /\ Len(order') = Len(order) - 1
        /\ \A k \in 1..Len(order') : order'[k] = order[k + 1]
        /\ (order' = <<>> <=> Len(order) = 1)
    <3>1. order' = Tail(order) /\ order \in Seq(Piece) /\ order # <<>>
      BY <1>1, <2>1
    <3>2. order' \in Seq(Piece) /\ Len(order') = Len(order) - 1
      BY <3>1
    <3>3. \A k \in 1..Len(order') : order'[k] = order[k + 1]
      BY <3>1, <3>2
    <3>4. order' = <<>> <=> Len(order') = 0
      BY <3>2, EmptySeq
    <3>. QED  BY <1>b, <3>2, <3>3, <3>4
  <2>3. data' = [k \in 1..last' |-> k - 1]
    <3>. DEFINE m == p.len - skip
                new == [k \in 1..m |-> p.off + skip + k - 1]
    <3>1. m \in Nat /\ last' = last + m /\ last' \in Nat
      <4>1. last' = p.off + p.len
        BY <2>1
      <4>2. m \in Nat
        BY <1>c, <1>2, <1>4
      <4>3. last = p.off + skip /\ m = p.len - skip
        BY <1>2
      <4>. HIDE DEF m
      <4>. QED  BY <1>c, <1>2, <4>1, <4>2, <4>3
    <3>. HIDE DEF m
    <3>2. new = [k \in 1..m |-> last + k - 1]
      BY <1>2, <3>1
    <3>a. data' = data \o new
      BY <2>1 DEF m
    <3>. HIDE DEF new
    <3>3. data \in Seq(Int) /\ Len(data) = last
      BY <1>1
    <3>4. new \in Seq(Int) /\ Len(new) = m
      BY <1>1, <3>1, <3>2
    <3>5. data' \in Seq(Int) /\ Len(data') = last'
      <4>1. data \o new \in Seq(Int) /\ Len(data \o new) = Len(data) + Len(new)
        BY <3>3, <3>4, ConcatProperties
      <4>. QED  BY <3>a, <3>1, <3>3, <3>4, <4>1
    <3>6. ASSUME NEW k \in 1..last'
          PROVE  data'[k] = k - 1
      <4>1. CASE k <= last
        <5>1. data'[k] = data[k]
          BY <3>a, <3>1, <3>3, <3>4, <4>1
        <5>. QED  BY <1>1, <4>1, <5>1
      <4>2. CASE k > last
        <5>1. k - last \in 1..m
          BY <1>1, <3>1, <4>2
        <5>2. data'[k] = new[k - last]
          BY <1>1, <3>a, <3>1, <3>3, <3>4, <4>2
        <5>. QED  BY <1>1, <3>1, <3>2, <5>1, <5>2
      <4>. QED  BY <1>1, <3>1, <4>1, <4>2
    <3>. QED  BY <3>1, <3>5, <3>6
  <2>4. Chained(last)'
    <3>1. order' # <<>> => order'[1].off <= last'
      BY <1>1, <1>b, <2>1, <2>2 DEF Chained, End
    <3>2. ASSUME NEW k \in 1..(Len(order') - 1)
          PROVE  order'[k + 1].off <= End(order'[k])
      <4>1. k + 1 \in 1..(Len(order) - 1) /\ k \in 1..Len(order') /\ k + 1 \in 1..Len(order')
        BY <1>b, <2>2
      <4>2. order'[k] = order[k + 1] /\ order'[k + 1] = order[k + 1 + 1]
        BY <2>2, <4>1
      <4>. QED  BY <1>1, <4>1, <4>2 DEF Chained, End
    <3>. QED  BY <3>1, <3>2 DEF Chained, End
  <2>5. EndOf(last)' = total'
    <3>1. CASE Len(order) = 1
      BY <1>1, <1>b, <2>1, <2>2, <3>1 DEF EndOf, End
    <3>2. CASE Len(order) > 1
      <4>1. order'[Len(order')] = order[Len(order)] /\ order' # <<>>
        BY <1>b, <2>2, <3>2
      <4>. QED  BY <1>1, <4>1 DEF EndOf, End
    <3>. QED  BY <1>b, <3>1, <3>2
  <2>6. last' \in Nat
    BY <1>c, <2>1
  <2>. QED  BY <1>1, <2>1, <2>2, <2>3, <2>4, <2>5, <2>6 DEF Merging
<1>. QED  BY <1>1, <1>2, <1>3, <1>4

(* Every step keeps the invariant of the reassembly *)
LEMMA MergingStep ==
    ASSUME Loop, Merging, [Next]_vars
    PROVE  Merging'
<1>1. CASE \E p \in parts : PrepareNext(p)
  BY <1>1, PrepareStep
<1>2. CASE MergeNext
  BY <1>2, MergeStep
<1>3. CASE FragmentNext \/ FragmentEnd
  <2>1. bs' \subseteq Piece
    BY <1>3, FragmentStep, FragmentLast DEF Loop, Fixed
  <2>2. phase' \in {"fragment", "transit"}
        /\ UNCHANGED <<total, parts, order, last, data>>
    BY <1>3 DEF FragmentNext, FragmentEnd
  <2>. QED  BY <2>1, <2>2 DEF Merging
<1>4. CASE Reassemble
  BY <1>4 DEF Reassemble, Merging, Chained, EndOf
<1>5. CASE PrepareEnd
  <2>1. CASE last = total
    <3>1. phase' = "merge" /\ last' = 0 /\ phase = "prepare"
          /\ UNCHANGED <<total, bs, parts, order, data>>
      BY <1>5, <2>1 DEF PrepareEnd
    <3>2. data' = [k \in 1..last' |-> k - 1]
      BY <3>1 DEF Merging
    <3>3. Chained(last)' /\ EndOf(last)' = total'
      BY <2>1, <3>1 DEF Merging, Chained, EndOf, End
    <3>. QED  BY <3>1, <3>2, <3>3 DEF Merging
  <2>2. CASE last # total
    BY <1>5, <2>2 DEF PrepareEnd, Merging
  <2>. QED  BY <2>1, <2>2
<1>6. CASE MergeEnd
  BY <1>6 DEF MergeEnd, Merging, EndOf
<1>7. CASE Fragment \/ FragmentFail \/ \E p \in parts : PrepareFail(p)
  BY <1>7 DEF Fragment, FragmentFail, PrepareFail, Merging
<1>8. CASE \E p \in {q \in Sent : q.off + q.len <= total} : Arrive(p)
  <2>1. Sent \subseteq Piece
    <3>1. bs \subseteq Piece /\ total \in Nat
      BY DEF Merging
    <3>2. \A o, n \in 0..total : [frag |-> TRUE, off |-> o, len |-> n] \in Piece
      BY <3>1 DEF Piece
    <3>. QED  BY <3>1, <3>2 DEF Sent
  <2>. QED  BY <1>8, <2>1 DEF Arrive, Merging
<1>9. CASE UNCHANGED vars
  BY <1>9 DEF vars, Merging, Chained, EndOf, End
<1>. QED  BY <1>1, <1>2, <1>3, <1>4, <1>5, <1>6, <1>7, <1>8, <1>9 DEF Next

(* What ReassembleFragments returns without an error is the payload, for   *)
(* every payload and every set of fragments of it that has arrived.        *)
THEOREM Reassembling == Spec => []ReassembledIsPayload
<1>1. Init => Merging
  BY LengthAssumption DEF Init, Merging
<1>2. Loop /\ Merging /\ [Next]_vars => Merging'
  BY MergingStep
<1>3. Merging => ReassembledIsPayload
  BY DEF Merging, ReassembledIsPayload
<1>. QED  BY <1>1, <1>2, <1>3, LoopInvariant, PTL DEF Spec
=============================================================================
