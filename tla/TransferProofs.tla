--------------------------- MODULE TransferProofs ---------------------------
(***************************************************************************)
(* Proofs about Transfer, for any number of bundles, of any length, any    *)
(* segment size and any capacity of the channels: what is passed on as a   *)
(* bundle is one, and what Send reports as sent was received.              *)
(***************************************************************************)
EXTENDS Transfer, SequenceTheorems, FiniteSetTheorems, TLAPS

(* What is on its way from end e to its peer, the oldest message first *)
InHand(e) == IF stage[e].dir = "in" THEN <<stage[e].msg>> ELSE <<>>
OutHand(e) == IF stage[e].dir = "out" THEN <<stage[e].msg>> ELSE <<>>
Pipe(e) == exIn[Peer(e)] \o (InHand(Peer(e)) \o (wire[Peer(e)] \o (OutHand(e) \o exOut[e])))

IsPart(m, x) == m.type = "seg" /\ m.of = x

(* The segments of x in p are its bytes from lo up to hi, in order *)
Within(p, x, lo, hi) ==
    \A i \in 1..Len(p) : IsPart(p[i], x) => lo <= p[i].pos /\ p[i].pos + p[i].len <= hi
InSequence(p, x) ==
    \A i, j \in 1..Len(p) : i < j /\ IsPart(p[i], x) /\ IsPart(p[j], x)
                            => p[i].pos + p[i].len <= p[j].pos
Covers(p, x, lo, hi) ==
    \A k \in lo..(hi - 1) : \E i \in 1..Len(p) :
        IsPart(p[i], x) /\ p[i].pos <= k /\ k < p[i].pos + p[i].len

Tiles(p, x, lo, hi) == Within(p, x, lo, hi) /\ InSequence(p, x) /\ Covers(p, x, lo, hi)

(* The sends of end e that have a transfer id *)
Started(e) == {x \in Bundle : Source(x) = e /\ snd[x].st # "new"}

(* What the ends have, or had when the session ended, of each transfer *)
Held == IF up THEN inTransfers ELSE lost

(* How much of x its receiver has or has had *)
Buffer(x) == Held[Peer(Source(x))][snd[x].id]
IsDelivered(x) == Whole(x) \in delivered[Peer(Source(x))]
Received(x) == IF snd[x].st = "new" THEN 0 ELSE IF IsDelivered(x) THEN Size(x) ELSE Buffer(x).len

Types ==
    /\ load \in Loads
    /\ snd \in [Bundle -> SendState]
    /\ outNextId \in [End -> Nat]
    /\ exOut \in [End -> Seq(Message)] /\ exIn \in [End -> Seq(Message)]
    /\ wire \in [End -> Seq(Message)]
    /\ stage \in [End -> [dir: {"none", "in", "out"}, msg: Message \cup {NoMsg}]]
    /\ \A e \in End : stage[e].dir # "none" => stage[e].msg \in Message
    /\ tm \in [End -> Ack \cup [type: {"bundle"}, id: Id] \cup {NoMsg}]
    /\ Held \in [End -> [Id -> IncomingTransfer]]
    /\ delivered \in [End -> SUBSET IncomingTransfer]
    /\ up \in BOOLEAN

(* Transfer ids count the Sends of an end *)
Numbering ==
    /\ \A e \in End : outNextId[e] = Cardinality(Started(e))
    /\ \A e \in End : \A x \in Started(e) : snd[x].id < outNextId[e]
    /\ \A e \in End : \A x, y \in Started(e) : snd[x].id = snd[y].id => x = y

(* Where Send and its goroutine are *)
Sender(x) ==
    /\ snd[x].pos <= Size(x)
    /\ snd[x].st = "new" => snd[x].pos = 0 /\ snd[x].acks = <<>> /\ snd[x].g = "idle"
    /\ snd[x].g = "put" => snd[x].pos < Size(x)
    /\ snd[x].g = "eof" => snd[x].pos = Size(x)
    /\ snd[x].outLen \in {0, Size(x)}

(* A buffer has the beginning of its bundle *)
Buffered(x) ==
    /\ Received(x) <= snd[x].pos
    /\ snd[x].st # "new" =>
        \/ IsDelivered(x) /\ Buffer(x) = NewIncomingTransfer
        \/ /\ ~IsDelivered(x)
           /\ Buffer(x).ordered /\ Buffer(x).of = (IF Buffer(x).len = 0 THEN {} ELSE {x})
           /\ Buffer(x).end => Buffer(x).len = Size(x)

Fresh == \A e \in End : \A id \in Id :
            \/ Held[e][id] = NewIncomingTransfer
            \/ \E x \in Started(Peer(e)) : snd[x].id = id

PassedOn == \A e \in End : \A t \in delivered[e] : \E x \in Started(Peer(e)) : t = Whole(x)

(* An acknowledgement for end e tells what was received *)
AckOK(m, e) == \E x \in Started(e) : m.id = snd[x].id /\ 0 < m.len /\ m.len <= Received(x)

SegmentOK(m, e) == /\ m.of \in Started(e) /\ m.id = snd[m.of].id
                   /\ m.end => m.pos + m.len = Size(m.of)

Replies == \A e \in End : /\ tm[e].type = "ack" => AckOK(tm[e], Peer(e))
                          /\ tm[e].type = "bundle" => Held[e][tm[e].id].end

Acknowledged(x) ==
    /\ snd[x].inLen <= Received(x)
    /\ \A i \in 1..Len(snd[x].acks) : 0 < snd[x].acks[i].len /\ snd[x].acks[i].len <= Received(x)
    /\ snd[x].st = "ok" => Received(x) = Size(x)

Flow(e) ==
    /\ \A x \in Bundle : Source(x) = e => Tiles(Pipe(e), x, Received(x), snd[x].pos)
    /\ \A i \in 1..Len(Pipe(e)) : LET m == Pipe(e)[i] IN
          /\ m.type = "seg" => SegmentOK(m, e)
          /\ m.type = "ack" => AckOK(m, Peer(e))

IndInv ==
    /\ Types /\ Numbering
    /\ \A x \in Bundle : Sender(x) /\ Buffered(x) /\ Acknowledged(x)
    /\ Fresh /\ PassedOn /\ Replies
    /\ up => \A e \in End : Flow(e)
-----------------------------------------------------------------------------
(* Sequences of segments *)

(* A message that is part of a bundle has a place and a length *)
LEMMA PartType ==
    ASSUME NEW m \in Message, NEW x, IsPart(m, x)
    PROVE  m \in Segment /\ m.pos \in Nat /\ m.len \in Nat /\ m.len > 0 /\ m.len <= Mtu
  <1>1. m \notin Ack
    BY DEF IsPart, Ack
  <1>2. m \in Segment
    BY <1>1 DEF Message
  <1> QED
    BY <1>2, LoadAssumption DEF Segment

(* A sequence without messages covers nothing *)
LEMMA TilesEmpty ==
    ASSUME NEW x, NEW lo \in Nat
    PROVE  Tiles(<<>>, x, lo, lo)
  BY DEF Tiles, Within, InSequence, Covers

(* Another message at the end changes nothing for x *)
LEMMA TilesAppendOther ==
    ASSUME NEW p \in Seq(Message), NEW m \in Message, NEW x, NEW lo \in Nat, NEW hi \in Nat,
           Tiles(p, x, lo, hi), ~IsPart(m, x)
    PROVE  Tiles(Append(p, m), x, lo, hi)
  <1> DEFINE q == Append(p, m)
  <1>1. /\ q \in Seq(Message) /\ Len(q) = Len(p) + 1 /\ Len(p) \in Nat
        /\ \A i \in 1..Len(p) : q[i] = p[i]
        /\ q[Len(q)] = m
    OBVIOUS
  <1> HIDE DEF q
  <1>2. \A i \in 1..Len(q) : IsPart(q[i], x) => i \in 1..Len(p)
    BY <1>1
  <1>3. Within(q, x, lo, hi)
    BY <1>1, <1>2 DEF Tiles, Within
  <1>4. InSequence(q, x)
    BY <1>1, <1>2 DEF Tiles, InSequence
  <1>5. Covers(q, x, lo, hi)
    BY <1>1 DEF Tiles, Covers
  <1> QED
    BY <1>3, <1>4, <1>5 DEF Tiles, q

(* The next segment of x at the end extends what is covered *)
LEMMA TilesAppend ==
    ASSUME NEW p \in Seq(Message), NEW m \in Message, NEW x, NEW lo \in Nat, NEW hi \in Nat,
           Tiles(p, x, lo, hi), IsPart(m, x), m.pos = hi, lo <= hi
    PROVE  Tiles(Append(p, m), x, lo, hi + m.len)
  <1> DEFINE q == Append(p, m)
  <1>1. /\ q \in Seq(Message) /\ Len(q) = Len(p) + 1 /\ Len(p) \in Nat
        /\ \A i \in 1..Len(p) : q[i] = p[i]
        /\ q[Len(q)] = m
    OBVIOUS
  <1>2. \A i \in 1..Len(p) : p[i] \in Message
    OBVIOUS
  <1>3. m.len \in Nat /\ m.len > 0
    BY PartType
  <1> HIDE DEF q
  <1>4. \A i \in 1..Len(p) : IsPart(p[i], x) => p[i].pos \in Nat /\ p[i].len \in Nat
    BY <1>2, PartType
  <1>5. Within(q, x, lo, hi + m.len)
    <2> SUFFICES ASSUME NEW i \in 1..Len(q), IsPart(q[i], x)
                 PROVE  lo <= q[i].pos /\ q[i].pos + q[i].len <= hi + m.len
      BY DEF Within
    <2>1. CASE i \in 1..Len(p)
      <3>1. q[i] = p[i] /\ lo <= p[i].pos /\ p[i].pos + p[i].len <= hi
        BY <1>1, <2>1 DEF Tiles, Within
      <3>2. p[i].pos \in Nat /\ p[i].len \in Nat
        BY <1>4, <2>1, <3>1
      <3>3. ASSUME NEW a \in Nat, NEW b \in Nat, NEW c \in Nat, a + b <= hi
            PROVE  a + b <= hi + c
        BY <3>3
      <3>4. p[i].pos + p[i].len <= hi + m.len
        BY <1>3, <3>1, <3>2, <3>3
      <3> QED
        BY <3>1, <3>4
    <2>2. CASE i = Len(q)
      BY <1>1, <1>3, <2>2
    <2> QED
      BY <1>1, <2>1, <2>2
  <1>6. InSequence(q, x)
    <2> SUFFICES ASSUME NEW i \in 1..Len(q), NEW j \in 1..Len(q), i < j,
                        IsPart(q[i], x), IsPart(q[j], x)
                 PROVE  q[i].pos + q[i].len <= q[j].pos
      BY DEF InSequence
    <2>1. i \in 1..Len(p) /\ q[i] = p[i]
      BY <1>1
    <2>2. CASE j \in 1..Len(p)
      BY <1>1, <2>1, <2>2 DEF Tiles, InSequence
    <2>3. CASE j = Len(q)
      BY <1>1, <2>1, <2>3 DEF Tiles, Within
    <2> QED
      BY <1>1, <2>2, <2>3
  <1>7. Covers(q, x, lo, hi + m.len)
    <2> SUFFICES ASSUME NEW k \in lo..((hi + m.len) - 1)
                 PROVE  \E i \in 1..Len(q) : IsPart(q[i], x) /\ q[i].pos <= k /\ k < q[i].pos + q[i].len
      BY DEF Covers
    <2>1. CASE k < hi
      <3>1. k \in lo..(hi - 1)
        BY <1>3, <2>1
      <3>2. PICK i \in 1..Len(p) : IsPart(p[i], x) /\ p[i].pos <= k /\ k < p[i].pos + p[i].len
        BY <3>1 DEF Tiles, Covers
      <3> QED
        BY <1>1, <3>2
    <2>2. CASE hi <= k
      BY <1>1, <1>3, <2>2
    <2> QED
      BY <1>3, <2>1, <2>2
  <1> QED
    BY <1>5, <1>6, <1>7 DEF Tiles, q

(* The rest of a sequence, by its indices *)
LEMMA TailIndex ==
    ASSUME NEW p \in Seq(Message), p # <<>>
    PROVE  /\ Tail(p) \in Seq(Message) /\ Len(p) \in Nat /\ Len(p) > 0 /\ Len(Tail(p)) = Len(p) - 1
           /\ Head(p) = p[1] /\ Head(p) \in Message
           /\ \A i \in 1..Len(Tail(p)) : i + 1 \in 1..Len(p) /\ Tail(p)[i] = p[i + 1]
           /\ \A i \in 1..Len(p) : i # 1 => i - 1 \in 1..Len(Tail(p)) /\ Tail(p)[i - 1] = p[i]
  OBVIOUS

(* Another message at the front is taken: nothing changes for x *)
LEMMA TilesTailOther ==
    ASSUME NEW p \in Seq(Message), p # <<>>, NEW x, NEW lo \in Nat, NEW hi \in Nat,
           Tiles(p, x, lo, hi), ~IsPart(Head(p), x)
    PROVE  Tiles(Tail(p), x, lo, hi)
  <1> DEFINE q == Tail(p)
  <1>1. /\ Len(p) \in Nat /\ Len(q) \in Nat /\ Head(p) = p[1]
        /\ \A i \in 1..Len(q) : i + 1 \in 1..Len(p) /\ q[i] = p[i + 1]
        /\ \A i \in 1..Len(p) : i # 1 => i - 1 \in 1..Len(q) /\ q[i - 1] = p[i]
    BY TailIndex
  <1> HIDE DEF q
  <1>2. Within(q, x, lo, hi)
    BY <1>1 DEF Tiles, Within
  <1>3. InSequence(q, x)
    <2> SUFFICES ASSUME NEW i \in 1..Len(q), NEW j \in 1..Len(q), i < j,
                        IsPart(q[i], x), IsPart(q[j], x)
                 PROVE  q[i].pos + q[i].len <= q[j].pos
      BY DEF InSequence
    <2>1. i + 1 \in 1..Len(p) /\ j + 1 \in 1..Len(p) /\ i + 1 < j + 1 /\ q[i] = p[i + 1] /\ q[j] = p[j + 1]
      BY <1>1
    <2> QED
      BY <2>1 DEF Tiles, InSequence
  <1>4. Covers(q, x, lo, hi)
    <2> SUFFICES ASSUME NEW k \in lo..(hi - 1)
                 PROVE  \E i \in 1..Len(q) : IsPart(q[i], x) /\ q[i].pos <= k /\ k < q[i].pos + q[i].len
      BY DEF Covers
    <2>1. PICK i \in 1..Len(p) : IsPart(p[i], x) /\ p[i].pos <= k /\ k < p[i].pos + p[i].len
      BY DEF Tiles, Covers
    <2>2. i # 1
      BY <1>1, <2>1
    <2> QED
      BY <1>1, <2>1, <2>2
  <1> QED
    BY <1>2, <1>3, <1>4 DEF Tiles, q

(* A segment of x at the front is the one that was missing next *)
LEMMA TilesTail ==
    ASSUME NEW p \in Seq(Message), p # <<>>, NEW x, NEW lo \in Nat, NEW hi \in Nat,
           Tiles(p, x, lo, hi), IsPart(Head(p), x)
    PROVE  /\ Head(p).pos = lo /\ Head(p).len \in Nat /\ Head(p).len > 0 /\ lo + Head(p).len <= hi
           /\ Tiles(Tail(p), x, lo + Head(p).len, hi)
  <1> DEFINE q == Tail(p)
  <1>1. /\ Len(p) \in Nat /\ Len(p) > 0 /\ Len(q) \in Nat /\ Head(p) = p[1] /\ Head(p) \in Message
        /\ \A i \in 1..Len(q) : i + 1 \in 1..Len(p) /\ q[i] = p[i + 1]
        /\ \A i \in 1..Len(p) : i # 1 => i - 1 \in 1..Len(q) /\ q[i - 1] = p[i]
    BY TailIndex
  <1>2. p[1].pos \in Nat /\ p[1].len \in Nat /\ p[1].len > 0 /\ IsPart(p[1], x)
    BY <1>1, PartType
  <1>3. \A i \in 1..Len(p) : p[i] \in Message
    OBVIOUS
  <1>4. \A i \in 1..Len(p) : IsPart(p[i], x) => p[i].pos \in Nat /\ p[i].len \in Nat
    BY <1>3, PartType
  <1> HIDE DEF q
  <1>5. 1 \in 1..Len(p)
    BY <1>1
  <1>6. lo <= p[1].pos /\ p[1].pos + p[1].len <= hi
    BY <1>2, <1>5 DEF Tiles, Within
  <1>7. \A i \in 1..Len(p) : i # 1 /\ IsPart(p[i], x) => p[1].pos + p[1].len <= p[i].pos
    BY <1>2, <1>5 DEF Tiles, InSequence
  <1>8. p[1].pos = lo
    <2> SUFFICES ASSUME lo < p[1].pos
                 PROVE  FALSE
      BY <1>2, <1>6
    <2>1. lo \in lo..(hi - 1)
      BY <1>2, <1>6
    <2>2. PICK i \in 1..Len(p) : IsPart(p[i], x) /\ p[i].pos <= lo /\ lo < p[i].pos + p[i].len
      BY <2>1 DEF Tiles, Covers
    <2>3. i # 1
      BY <1>2, <2>2
    <2> QED
      BY <1>2, <1>4, <1>7, <2>2, <2>3
  <1>9. Within(q, x, lo + p[1].len, hi)
    <2> SUFFICES ASSUME NEW i \in 1..Len(q), IsPart(q[i], x)
                 PROVE  lo + p[1].len <= q[i].pos /\ q[i].pos + q[i].len <= hi
      BY DEF Within
    <2>1. i + 1 \in 1..Len(p) /\ i + 1 # 1 /\ q[i] = p[i + 1]
      BY <1>1
    <2> QED
      BY <1>7, <1>8, <2>1 DEF Tiles, Within
  <1>10. InSequence(q, x)
    <2> SUFFICES ASSUME NEW i \in 1..Len(q), NEW j \in 1..Len(q), i < j,
                        IsPart(q[i], x), IsPart(q[j], x)
                 PROVE  q[i].pos + q[i].len <= q[j].pos
      BY DEF InSequence
    <2>1. i + 1 \in 1..Len(p) /\ j + 1 \in 1..Len(p) /\ i + 1 < j + 1 /\ q[i] = p[i + 1] /\ q[j] = p[j + 1]
      BY <1>1
    <2> QED
      BY <2>1 DEF Tiles, InSequence
  <1>11. Covers(q, x, lo + p[1].len, hi)
    <2> SUFFICES ASSUME NEW k \in (lo + p[1].len)..(hi - 1)
                 PROVE  \E i \in 1..Len(q) : IsPart(q[i], x) /\ q[i].pos <= k /\ k < q[i].pos + q[i].len
      BY DEF Covers
    <2>1. k \in lo..(hi - 1)
      BY <1>2
    <2>2. PICK i \in 1..Len(p) : IsPart(p[i], x) /\ p[i].pos <= k /\ k < p[i].pos + p[i].len
      BY <2>1 DEF Tiles, Covers
    <2>3. i # 1
      BY <1>2, <1>8, <2>2
    <2> QED
      BY <1>1, <2>2, <2>3
  <1> QED
    BY <1>1, <1>2, <1>6, <1>8, <1>9, <1>10, <1>11 DEF Tiles, q
-----------------------------------------------------------------------------
(* What moves from one channel to the next stays in the same place *)

LEMMA HandOver ==
    ASSUME NEW S, NEW c \in Seq(S), c # <<>>, NEW r \in Seq(S)
    PROVE  <<Head(c)>> \o (Tail(c) \o r) = <<>> \o (c \o r)
  <1>1. Head(c) \in S /\ Tail(c) \in Seq(S) /\ <<Head(c)>> \in Seq(S)
    OBVIOUS
  <1>2. <<Head(c)>> \o Tail(c) = c
    <2>1. <<Head(c)>> \o Tail(c) \in Seq(S)
      BY <1>1, ConcatProperties
    <2>2. Len(<<Head(c)>> \o Tail(c)) = Len(c)
      BY <1>1, ConcatProperties
    <2>3. \A i \in 1..Len(c) : (<<Head(c)>> \o Tail(c))[i] = c[i]
      BY <1>1
    <2> HIDE <1>1
    <2> QED
      BY <2>1, <2>2, <2>3, SeqEqual, Zenon
  <1>3. (<<Head(c)>> \o Tail(c)) \o r = <<Head(c)>> \o (Tail(c) \o r)
    BY <1>1, ConcatAssociative
  <1>4. c \o r \in Seq(S)
    BY ConcatProperties
  <1>5. <<>> \o (c \o r) = c \o r
    BY <1>4, ConcatEmptySeq
  <1> QED
    BY <1>2, <1>3, <1>5

LEMMA HandOverLast ==
    ASSUME NEW S, NEW c \in Seq(S), c # <<>>
    PROVE  <<Head(c)>> \o Tail(c) = <<>> \o c
  <1>1. <<>> \in Seq(S) /\ Tail(c) \in Seq(S)
    OBVIOUS
  <1>2. <<Head(c)>> \o (Tail(c) \o <<>>) = <<>> \o (c \o <<>>)
    BY <1>1, HandOver
  <1>3. Tail(c) \o <<>> = Tail(c) /\ c \o <<>> = c
    BY <1>1, ConcatEmptySeq
  <1> QED
    BY <1>2, <1>3

LEMMA PutDown ==
    ASSUME NEW S, NEW c \in Seq(S), NEW m \in S, NEW r \in Seq(S)
    PROVE  Append(c, m) \o (<<>> \o r) = c \o (<<m>> \o r)
  <1>1. <<m>> \in Seq(S)
    OBVIOUS
  <1>2. Append(c, m) = c \o <<m>>
    BY AppendIsConcat
  <1>3. (c \o <<m>>) \o r = c \o (<<m>> \o r)
    BY <1>1, ConcatAssociative
  <1>4. <<>> \o r = r
    BY ConcatEmptySeq
  <1> QED
    BY <1>2, <1>3, <1>4

(* Taking the first, and adding a last *)
LEMMA TakeFirst ==
    ASSUME NEW S, NEW c \in Seq(S), c # <<>>, NEW r \in Seq(S)
    PROVE  c \o r # <<>> /\ Head(c \o r) = Head(c) /\ Tail(c \o r) = Tail(c) \o r
  <1>1. /\ Tail(c) \in Seq(S) /\ Len(Tail(c)) = Len(c) - 1 /\ Len(c) \in Nat /\ Len(c) > 0 /\ Len(r) \in Nat
        /\ \A i \in 1..Len(Tail(c)) : Tail(c)[i] = c[i + 1]
    OBVIOUS
  <1>2. /\ c \o r \in Seq(S) /\ Len(c \o r) = Len(c) + Len(r)
        /\ \A i \in 1..(Len(c) + Len(r)) : (c \o r)[i] = IF i <= Len(c) THEN c[i] ELSE r[i - Len(c)]
    BY ConcatProperties
  <1>3. /\ Tail(c) \o r \in Seq(S) /\ Len(Tail(c) \o r) = Len(Tail(c)) + Len(r)
        /\ \A i \in 1..(Len(Tail(c)) + Len(r)) :
               (Tail(c) \o r)[i] = IF i <= Len(Tail(c)) THEN Tail(c)[i] ELSE r[i - Len(Tail(c))]
    BY <1>1, ConcatProperties
  <1>4. c \o r # <<>>
    BY <1>1, <1>2
  <1>5. /\ Tail(c \o r) \in Seq(S) /\ Len(Tail(c \o r)) = Len(c \o r) - 1
        /\ \A i \in 1..Len(Tail(c \o r)) : Tail(c \o r)[i] = (c \o r)[i + 1]
    BY <1>2, <1>4, HeadTailProperties
  <1>6. Head(c \o r) = Head(c)
    BY <1>1, <1>2, <1>4
  <1>7. Len(Tail(c \o r)) = Len(Tail(c) \o r)
    BY <1>1, <1>2, <1>3, <1>5
  <1>8. ASSUME NEW i \in 1..Len(Tail(c \o r))
        PROVE  Tail(c \o r)[i] = (Tail(c) \o r)[i]
    <2>1. i + 1 \in 1..(Len(c) + Len(r)) /\ i \in 1..(Len(Tail(c)) + Len(r))
      BY <1>1, <1>2, <1>5
    <2>2. Tail(c \o r)[i] = IF i + 1 <= Len(c) THEN c[i + 1] ELSE r[(i + 1) - Len(c)]
      BY <1>2, <1>5, <2>1
    <2>3. (Tail(c) \o r)[i] = IF i <= Len(Tail(c)) THEN Tail(c)[i] ELSE r[i - Len(Tail(c))]
      BY <1>3, <2>1
    <2> QED
      BY <1>1, <2>1, <2>2, <2>3
  <1> QED
    BY <1>3, <1>4, <1>5, <1>6, <1>7, <1>8, SeqEqual, Zenon

LEMMA AddLast ==
    ASSUME NEW S, NEW c \in Seq(S), NEW r \in Seq(S), NEW m \in S
    PROVE  c \o Append(r, m) = Append(c \o r, m)
  <1>1. <<m>> \in Seq(S)
    OBVIOUS
  <1>2. Append(r, m) = r \o <<m>>
    BY AppendIsConcat
  <1>3. c \o r \in Seq(S)
    BY ConcatProperties
  <1>4. Append(c \o r, m) = (c \o r) \o <<m>>
    BY <1>3, AppendIsConcat
  <1> QED
    BY <1>1, <1>2, <1>4, ConcatAssociative
-----------------------------------------------------------------------------
(* The two pipes *)

LEMMA Ends ==
    /\ \A e \in End : Peer(e) \in End /\ Peer(e) # e /\ Peer(Peer(e)) = e
    /\ \A e, f \in End : f = e \/ f = Peer(e)
  BY DEF End, Peer

LEMMA PipeType ==
    ASSUME Types, NEW e \in End
    PROVE  /\ InHand(e) \in Seq(Message) /\ OutHand(e) \in Seq(Message)
           /\ OutHand(e) \o exOut[e] \in Seq(Message)
           /\ wire[Peer(e)] \o (OutHand(e) \o exOut[e]) \in Seq(Message)
           /\ InHand(Peer(e)) \o (wire[Peer(e)] \o (OutHand(e) \o exOut[e])) \in Seq(Message)
           /\ Pipe(e) \in Seq(Message)
  <1>1. \A f \in End : InHand(f) \in Seq(Message) /\ OutHand(f) \in Seq(Message)
    BY DEF Types, InHand, OutHand
  <1>2. Peer(e) \in End
    BY Ends
  <1>3. exOut[e] \in Seq(Message) /\ wire[Peer(e)] \in Seq(Message) /\ exIn[Peer(e)] \in Seq(Message)
    BY <1>2 DEF Types
  <1>4. OutHand(e) \o exOut[e] \in Seq(Message)
    BY <1>1, <1>3, ConcatProperties
  <1>5. wire[Peer(e)] \o (OutHand(e) \o exOut[e]) \in Seq(Message)
    BY <1>3, <1>4, ConcatProperties
  <1>6. InHand(Peer(e)) \o (wire[Peer(e)] \o (OutHand(e) \o exOut[e])) \in Seq(Message)
    BY <1>1, <1>2, <1>5, ConcatProperties
  <1>7. Pipe(e) \in Seq(Message)
    BY <1>3, <1>6, ConcatProperties DEF Pipe
  <1> QED
    BY <1>1, <1>4, <1>5, <1>6, <1>7

(* The messages that are not in the hands of a stage *)
LEMMA PipeFrame ==
    ASSUME NEW e \in End, exIn'[Peer(e)] = exIn[Peer(e)], wire'[Peer(e)] = wire[Peer(e)],
           exOut'[e] = exOut[e], InHand(Peer(e))' = InHand(Peer(e)), OutHand(e)' = OutHand(e)
    PROVE  Pipe(e)' = Pipe(e)
  BY DEF Pipe, Peer

LEMMA TakeOutPipe ==
    ASSUME Types, NEW e \in End, StageTakeOut(e)
    PROVE  \A f \in End : Pipe(f)' = Pipe(f)
  <1> USE Ends
  <1>1. /\ exOut[e] \in Seq(Message) /\ exOut[e] # <<>> /\ exOut'[e] = Tail(exOut[e])
        /\ \A f \in End : f # e => exOut'[f] = exOut[f]
        /\ OutHand(e) = <<>> /\ OutHand(e)' = <<Head(exOut[e])>>
        /\ \A f \in End : InHand(f)' = InHand(f)
        /\ \A f \in End : f # e => OutHand(f)' = OutHand(f)
        /\ wire' = wire /\ exIn' = exIn
    BY DEF StageTakeOut, Types, InHand, OutHand
  <1>2. (OutHand(e) \o exOut[e])' = OutHand(e) \o exOut[e]
    BY <1>1, HandOverLast
  <1>3. Pipe(e)' = Pipe(e)
    BY <1>1, <1>2 DEF Pipe
  <1>4. Pipe(Peer(e))' = Pipe(Peer(e))
    <2>1. Peer(e) \in End /\ Peer(e) # e
      OBVIOUS
    <2> QED
      BY <1>1, <2>1, PipeFrame
  <1> QED
    BY <1>3, <1>4

LEMMA TakeInPipe ==
    ASSUME Types, NEW e \in End, StageTakeIn(e)
    PROVE  \A f \in End : Pipe(f)' = Pipe(f)
  <1> USE Ends
  <1>1. /\ wire[e] \in Seq(Message) /\ wire[e] # <<>> /\ wire'[e] = Tail(wire[e])
        /\ \A f \in End : f # e => wire'[f] = wire[f]
        /\ InHand(e) = <<>> /\ InHand(e)' = <<Head(wire[e])>>
        /\ \A f \in End : f # e => InHand(f)' = InHand(f)
        /\ \A f \in End : OutHand(f)' = OutHand(f)
        /\ exOut' = exOut /\ exIn' = exIn
    BY DEF StageTakeIn, Types, InHand, OutHand
  <1>2. PICK d \in End : d = Peer(e)
    OBVIOUS
  <1>3. Peer(d) = e /\ d # e
    BY <1>2
  <1>4. PICK c \in Seq(Message), r \in Seq(Message) : c = wire[e] /\ r = OutHand(d) \o exOut[d]
    BY <1>1, PipeType
  <1>5. <<Head(c)>> \o (Tail(c) \o r) = <<>> \o (c \o r)
    <2>1. c # <<>>
      BY <1>1, <1>4
    <2> HIDE <1>4
    <2> QED
      BY <2>1, HandOver
  <1>6. Pipe(d)' = Pipe(d)
    BY <1>1, <1>3, <1>4, <1>5 DEF Pipe
  <1>7. Pipe(e)' = Pipe(e)
    BY <1>1, <1>2, <1>3, PipeFrame
  <1> QED
    BY <1>2, <1>6, <1>7

LEMMA MessageOutPipe ==
    ASSUME Types, NEW e \in End, messageOut(e)
    PROVE  \A f \in End : Pipe(f)' = Pipe(f)
  <1> USE Ends
  <1>1. PICK d \in End : d = Peer(e)
    OBVIOUS
  <1>2. Peer(d) = e /\ d # e
    BY <1>1
  <1>3. /\ wire[d] \in Seq(Message) /\ stage[e].msg \in Message /\ wire'[d] = Append(wire[d], stage[e].msg)
        /\ wire'[e] = wire[e]
        /\ OutHand(e) = <<stage[e].msg>> /\ OutHand(e)' = <<>>
        /\ OutHand(d)' = OutHand(d)
        /\ \A f \in End : InHand(f)' = InHand(f)
        /\ exOut' = exOut /\ exIn' = exIn
    BY <1>1, <1>2 DEF messageOut, Types, InHand, OutHand
  <1>4. PICK c \in Seq(Message), m \in Message, r \in Seq(Message) :
            c = wire[d] /\ m = stage[e].msg /\ r = exOut[e]
    BY <1>3 DEF Types
  <1>5. Append(c, m) \o (<<>> \o r) = c \o (<<m>> \o r)
    BY PutDown
  <1>6. Pipe(e)' = Pipe(e)
    BY <1>1, <1>3, <1>4, <1>5 DEF Pipe
  <1>7. Pipe(d)' = Pipe(d)
    BY <1>2, <1>3, PipeFrame
  <1> QED
    BY <1>1, <1>6, <1>7

LEMMA MsgInPipe ==
    ASSUME Types, NEW e \in End, handleMsgIn(e)
    PROVE  \A f \in End : Pipe(f)' = Pipe(f)
  <1> USE Ends
  <1>1. PICK d \in End : d = Peer(e)
    OBVIOUS
  <1>2. Peer(d) = e /\ d # e
    BY <1>1
  <1>3. /\ exIn[e] \in Seq(Message) /\ stage[e].msg \in Message /\ exIn'[e] = Append(exIn[e], stage[e].msg)
        /\ exIn'[d] = exIn[d]
        /\ InHand(e) = <<stage[e].msg>> /\ InHand(e)' = <<>>
        /\ InHand(d)' = InHand(d)
        /\ \A f \in End : OutHand(f)' = OutHand(f)
        /\ exOut' = exOut /\ wire' = wire
    BY <1>1, <1>2 DEF handleMsgIn, Types, InHand, OutHand
  <1>4. PICK c \in Seq(Message), m \in Message, r \in Seq(Message) :
            c = exIn[e] /\ m = stage[e].msg /\ r = wire[e] \o (OutHand(d) \o exOut[d])
    BY <1>2, <1>3, PipeType
  <1>5. Append(c, m) \o (<<>> \o r) = c \o (<<m>> \o r)
    BY PutDown
  <1>6. Pipe(d)' = Pipe(d)
    BY <1>2, <1>3, <1>4, <1>5 DEF Pipe
  <1>7. Pipe(e)' = Pipe(e)
    BY <1>1, <1>3, PipeFrame
  <1> QED
    BY <1>1, <1>6, <1>7

(* A message that is put into exOut is the last of the pipe *)
LEMMA PutPipe ==
    ASSUME Types, NEW e \in End, NEW m \in Message, exOut' = [exOut EXCEPT ![e] = Append(@, m)],
           UNCHANGED <<exIn, wire, stage>>
    PROVE  /\ Pipe(e)' = Append(Pipe(e), m)
           /\ Pipe(Peer(e))' = Pipe(Peer(e))
  <1>1. PICK d \in End : d = Peer(e) /\ e = Peer(d) /\ d # e
    BY Ends
  <1>2. /\ exOut[e] \in Seq(Message) /\ exOut'[e] = Append(exOut[e], m) /\ exOut'[d] = exOut[d]
        /\ \A f \in End : InHand(f)' = InHand(f) /\ OutHand(f)' = OutHand(f)
    BY <1>1 DEF Types, InHand, OutHand
  <1>3. /\ OutHand(e) \in Seq(Message) /\ wire[d] \in Seq(Message) /\ InHand(d) \in Seq(Message)
        /\ exIn[d] \in Seq(Message)
    BY <1>1, PipeType DEF Types
  <1>4. /\ OutHand(e) \o exOut[e] \in Seq(Message)
        /\ wire[d] \o (OutHand(e) \o exOut[e]) \in Seq(Message)
        /\ InHand(d) \o (wire[d] \o (OutHand(e) \o exOut[e])) \in Seq(Message)
    BY <1>1, PipeType
  <1>5. PICK o \in Seq(Message) : o = OutHand(e) \o exOut[e]
    BY <1>4
  <1>6. PICK w \in Seq(Message) : w = wire[d] \o o
    BY <1>4, <1>5
  <1>7. PICK i \in Seq(Message) : i = InHand(d) \o w
    BY <1>4, <1>5, <1>6
  <1>8. Pipe(e)' = Append(Pipe(e), m)
    <2>1. OutHand(e) \o Append(exOut[e], m) = Append(o, m)
      BY <1>2, <1>3, <1>5, AddLast
    <2>2. wire[d] \o Append(o, m) = Append(w, m)
      <3>1. \A c \in Seq(Message) : c \o Append(o, m) = Append(c \o o, m)
        BY AddLast
      <3> QED
        BY <1>3, <1>6, <3>1, Zenon
    <2>3. InHand(d) \o Append(w, m) = Append(i, m)
      BY <1>3, <1>7, AddLast
    <2>4. exIn[d] \o Append(i, m) = Append(exIn[d] \o i, m)
      <3>1. \A c \in Seq(Message) : c \o Append(i, m) = Append(c \o i, m)
        BY AddLast
      <3> QED
        BY <1>3, <3>1, Zenon
    <2>5. Pipe(e) = exIn[d] \o i
      BY <1>1, <1>5, <1>6, <1>7 DEF Pipe
    <2>6. Pipe(e)' = exIn[d] \o (InHand(d) \o (wire[d] \o (OutHand(e) \o Append(exOut[e], m))))
      BY <1>1, <1>2 DEF Pipe
    <2> QED
      BY <2>1, <2>2, <2>3, <2>4, <2>5, <2>6, Zenon
  <1>9. Pipe(d)' = Pipe(d)
    BY <1>1, <1>2, PipeFrame
  <1> QED
    BY <1>1, <1>8, <1>9

(* A message that is read from exIn is the first of the pipe *)
LEMMA ReadPipe ==
    ASSUME Types, NEW e \in End, exIn[e] # <<>>, exIn' = [exIn EXCEPT ![e] = Tail(@)],
           UNCHANGED <<exOut, wire, stage>>
    PROVE  /\ Pipe(Peer(e)) # <<>> /\ Head(Pipe(Peer(e))) = Head(exIn[e])
           /\ Pipe(Peer(e))' = Tail(Pipe(Peer(e)))
           /\ Pipe(e)' = Pipe(e)
  <1>1. PICK d \in End : d = Peer(e) /\ e = Peer(d) /\ d # e
    BY Ends
  <1>2. /\ exIn[e] \in Seq(Message) /\ exIn'[e] = Tail(exIn[e]) /\ exIn'[d] = exIn[d]
        /\ \A f \in End : InHand(f)' = InHand(f) /\ OutHand(f)' = OutHand(f)
    BY <1>1 DEF Types, InHand, OutHand
  <1>3. PICK r \in Seq(Message) : r = InHand(e) \o (wire[e] \o (OutHand(d) \o exOut[d]))
    BY <1>1, PipeType
  <1>4. Pipe(d) = exIn[e] \o r /\ Pipe(d)' = Tail(exIn[e]) \o r
    BY <1>1, <1>2, <1>3 DEF Pipe
  <1>5. Pipe(d) # <<>> /\ Head(Pipe(d)) = Head(exIn[e]) /\ Pipe(d)' = Tail(Pipe(d))
    <2>1. PICK c \in Seq(Message) : c = exIn[e]
      BY <1>2
    <2>2. c # <<>>
      BY <2>1
    <2>3. c \o r # <<>> /\ Head(c \o r) = Head(c) /\ Tail(c \o r) = Tail(c) \o r
      BY <2>2, TakeFirst, Zenon
    <2> QED
      BY <1>4, <2>1, <2>3
  <1>6. Pipe(e)' = Pipe(e)
    BY <1>1, <1>2, PipeFrame
  <1> QED
    BY <1>1, <1>5, <1>6
-----------------------------------------------------------------------------
(* What a step leaves alone *)

LEMMA LoadType ==
    ASSUME Types, NEW x \in Bundle
    PROVE  /\ Source(x) \in End /\ Size(x) \in Nat /\ Size(x) > 0
           /\ Peer(Source(x)) \in End /\ snd[x].id \in Id
           /\ Buffer(x) \in IncomingTransfer /\ Buffer(x).len \in Nat /\ Received(x) \in Nat
           /\ snd[x] \in SendState /\ snd[x].pos \in Nat
           /\ snd[x].outLen \in Nat /\ snd[x].inLen \in Nat /\ snd[x].acks \in Seq(Ack)
  <1>1. load \in Load
    BY LoadAssumption DEF Types
  <1>2. Source(x) \in End /\ Size(x) \in Nat /\ Size(x) > 0
    BY <1>1 DEF Load, Source, Size
  <1>3. Peer(Source(x)) \in End
    BY <1>2, Ends
  <1>4. snd[x] \in SendState
    BY DEF Types
  <1>5. snd[x].id \in Id /\ snd[x].pos \in Nat /\ snd[x].outLen \in Nat /\ snd[x].inLen \in Nat /\ snd[x].acks \in Seq(Ack)
    BY <1>4 DEF SendState
  <1>6. Buffer(x) \in IncomingTransfer
    BY <1>3, <1>5 DEF Types, Buffer
  <1>7. Buffer(x).len \in Nat
    BY <1>6 DEF IncomingTransfer
  <1> QED
    BY <1>2, <1>3, <1>4, <1>5, <1>6, <1>7 DEF Received

(* No Send begins, and no buffer changes *)
Same ==
    /\ load' = load /\ delivered' = delivered /\ Held' = Held
    /\ \A y \in Bundle : snd'[y].id = snd[y].id /\ (snd'[y].st = "new" <=> snd[y].st = "new")

LEMMA SameSends ==
    ASSUME Same
    PROVE  /\ \A x \in Bundle : /\ Source(x)' = Source(x) /\ Size(x)' = Size(x) /\ Whole(x)' = Whole(x)
                                /\ Buffer(x)' = Buffer(x) /\ (IsDelivered(x)' <=> IsDelivered(x))
                                /\ Received(x)' = Received(x)
           /\ \A e \in End : Started(e)' = Started(e)
  <1>1. \A x : Source(x)' = Source(x) /\ Size(x)' = Size(x) /\ Whole(x)' = Whole(x)
    BY DEF Same, Source, Size, Whole
  <1>2. \A x \in Bundle : Buffer(x)' = Buffer(x) /\ (IsDelivered(x)' <=> IsDelivered(x))
    BY <1>1 DEF Same, Buffer, IsDelivered, Peer
  <1>3. \A x \in Bundle : Received(x)' = Received(x)
    BY <1>1, <1>2 DEF Same, Received
  <1>4. \A e \in End : Started(e)' = Started(e)
    BY <1>1 DEF Same, Started
  <1> QED
    BY <1>1, <1>2, <1>3, <1>4

LEMMA SameMessages ==
    ASSUME Same
    PROVE  /\ \A m : \A e \in End : AckOK(m, e) => AckOK(m, e)'
           /\ \A m : \A e \in End : SegmentOK(m, e) => SegmentOK(m, e)'
  <1>1. \A e \in End : Started(e)' = Started(e) /\ Started(e) \subseteq Bundle
    BY SameSends DEF Started
  <1>2. ASSUME NEW m, NEW e \in End, AckOK(m, e)
        PROVE  AckOK(m, e)'
    <2>1. PICK x \in Started(e) : m.id = snd[x].id /\ 0 < m.len /\ m.len <= Received(x)
      BY <1>2 DEF AckOK
    <2>2. x \in Started(e)' /\ snd'[x].id = snd[x].id /\ Received(x)' = Received(x)
      BY <1>1, <2>1, SameSends DEF Same
    <2> QED
      BY <2>1, <2>2 DEF AckOK
  <1>3. ASSUME NEW m, NEW e \in End, SegmentOK(m, e)
        PROVE  SegmentOK(m, e)'
    <2>1. m.of \in Started(e)' /\ m.of \in Bundle
      BY <1>1, <1>3 DEF SegmentOK
    <2>2. snd'[m.of].id = snd[m.of].id /\ Size(m.of)' = Size(m.of)
      BY <2>1, SameSends DEF Same
    <2> QED
      BY <1>3, <2>1, <2>2 DEF SegmentOK
  <1> QED
    BY <1>2, <1>3

LEMMA SameState ==
    ASSUME Same
    PROVE  /\ Fresh => Fresh'
           /\ PassedOn => PassedOn'
           /\ \A x \in Bundle : Buffered(x) /\ snd'[x].pos = snd[x].pos => Buffered(x)'
           /\ Numbering /\ outNextId' = outNextId => Numbering'
  <1>1. \A e \in End : Started(e)' = Started(e) /\ Started(e) \subseteq Bundle /\ Peer(e) \in End
    BY SameSends, Ends DEF Started
  <1>2. ASSUME Fresh
        PROVE  Fresh'
    BY <1>1, <1>2 DEF Fresh, Same
  <1>3. ASSUME PassedOn
        PROVE  PassedOn'
    <2> SUFFICES ASSUME NEW e \in End, NEW t \in delivered[e]
                 PROVE  \E x \in Started(Peer(e))' : t = Whole(x)'
      BY DEF PassedOn, Same, Peer
    <2>1. PICK x \in Started(Peer(e)) : t = Whole(x)
      BY <1>3 DEF PassedOn
    <2>2. x \in Started(Peer(e))' /\ x \in Bundle
      BY <1>1, <2>1
    <2> QED
      BY <2>1, <2>2, SameSends
  <1>4. ASSUME NEW x \in Bundle, Buffered(x), snd'[x].pos = snd[x].pos
        PROVE  Buffered(x)'
    BY <1>4, SameSends DEF Buffered, Same
  <1>5. ASSUME Numbering, outNextId' = outNextId
        PROVE  Numbering'
    BY <1>1, <1>5 DEF Numbering, Same
  <1> QED
    BY <1>2, <1>3, <1>4, <1>5

LEMMA SameFlow ==
    ASSUME Same, NEW e \in End, Flow(e), Pipe(e)' = Pipe(e),
           \A x \in Bundle : Source(x) = e => snd'[x].pos = snd[x].pos
    PROVE  Flow(e)'
  <1>1. \A x \in Bundle : Source(x)' = Source(x) /\ Received(x)' = Received(x)
    BY SameSends
  <1>2. ASSUME NEW x \in Bundle, Source(x) = e
        PROVE  Tiles(Pipe(e), x, Received(x), snd[x].pos)'
    <2>1. Tiles(Pipe(e), x, Received(x), snd[x].pos)
      BY <1>2 DEF Flow
    <2> QED
      BY <1>1, <1>2, <2>1 DEF Tiles, Within, InSequence, Covers
  <1>3. ASSUME NEW i \in 1..Len(Pipe(e))
        PROVE  /\ Pipe(e)[i].type = "seg" => SegmentOK(Pipe(e)[i], e)'
               /\ Pipe(e)[i].type = "ack" => AckOK(Pipe(e)[i], Peer(e))'
    <2>1. PICK m : m = Pipe(e)[i]
      OBVIOUS
    <2>2. /\ m.type = "seg" => SegmentOK(m, e)
          /\ m.type = "ack" => AckOK(m, Peer(e))
      BY <2>1 DEF Flow
    <2> QED
      BY <1>3, <2>1, <2>2, SameMessages, Ends
  <1> QED
    BY <1>1, <1>2, <1>3 DEF Flow

LEMMA SameReplies ==
    ASSUME Same, Replies, tm' = tm
    PROVE  Replies'
  <1> SUFFICES ASSUME NEW e \in End
               PROVE  /\ tm[e].type = "ack" => AckOK(tm[e], Peer(e))'
                      /\ tm[e].type = "bundle" => Held[e][tm[e].id].end
    BY DEF Replies, Same, AckOK
  <1> QED
    BY SameMessages, Ends DEF Replies
-----------------------------------------------------------------------------
(* The stage, and the end of the session *)

(* Only channels change, and messages move within a pipe *)
LEMMA Moved ==
    ASSUME IndInv, Types', UNCHANGED <<load, snd, outNextId, tm, Held, delivered, up>>,
           \A f \in End : Pipe(f)' = Pipe(f)
    PROVE  IndInv'
  <1>1. Same
    BY DEF Same
  <1>2. ASSUME NEW x \in Bundle
        PROVE  Sender(x)' /\ Buffered(x)' /\ Acknowledged(x)'
    <2>1. Sender(x) /\ Buffered(x) /\ Acknowledged(x)
      BY DEF IndInv
    <2> QED
      BY <1>1, <2>1, SameSends, SameState DEF Sender, Acknowledged
  <1>3. Numbering' /\ Fresh' /\ PassedOn' /\ Replies'
    BY <1>1, SameState, SameReplies DEF IndInv
  <1>4. up' => \A f \in End : Flow(f)'
    BY <1>1, SameFlow DEF IndInv
  <1> QED
    BY <1>2, <1>3, <1>4 DEF IndInv

LEMMA StageStep ==
    ASSUME IndInv, NEW e \in End, Stage(e)
    PROVE  IndInv'
  <1>1. Types
    BY DEF IndInv
  <1>2. /\ UNCHANGED <<load, snd, outNextId, tm, Held, delivered, up>>
        /\ \A f \in End : Pipe(f)' = Pipe(f)
    BY <1>1, TakeOutPipe, TakeInPipe, MessageOutPipe, MsgInPipe
       DEF Stage, StageTakeOut, StageTakeIn, messageOut, handleMsgIn, Held
  <1>3. Types'
    <2>1. /\ exOut' \in [End -> Seq(Message)] /\ exIn' \in [End -> Seq(Message)] /\ wire' \in [End -> Seq(Message)]
          /\ stage' \in [End -> [dir: {"none", "in", "out"}, msg: Message \cup {NoMsg}]]
          /\ \A f \in End : stage'[f].dir # "none" => stage'[f].msg \in Message
      <3>1. CASE StageTakeOut(e)
        <4>1. exOut[e] \in Seq(Message) /\ exOut[e] # <<>>
          BY <1>1, <3>1 DEF Types, StageTakeOut
        <4>2. Head(exOut[e]) \in Message /\ Tail(exOut[e]) \in Seq(Message)
          BY <4>1
        <4> QED
          BY <1>1, <3>1, <4>2 DEF Types, StageTakeOut
      <3>2. CASE StageTakeIn(e)
        <4>1. wire[e] \in Seq(Message) /\ wire[e] # <<>>
          BY <1>1, <3>2 DEF Types, StageTakeIn
        <4>2. Head(wire[e]) \in Message /\ Tail(wire[e]) \in Seq(Message)
          BY <4>1
        <4> QED
          BY <1>1, <3>2, <4>2 DEF Types, StageTakeIn
      <3>3. CASE messageOut(e)
        <4>1. wire[Peer(e)] \in Seq(Message) /\ stage[e].msg \in Message
          BY <1>1, <3>3, Ends DEF Types, messageOut
        <4>2. Append(wire[Peer(e)], stage[e].msg) \in Seq(Message)
          BY <4>1
        <4> QED
          BY <1>1, <3>3, <4>2 DEF Types, messageOut
      <3>4. CASE handleMsgIn(e)
        <4>1. exIn[e] \in Seq(Message) /\ stage[e].msg \in Message
          BY <1>1, <3>4 DEF Types, handleMsgIn
        <4>2. Append(exIn[e], stage[e].msg) \in Seq(Message)
          BY <4>1
        <4> QED
          BY <1>1, <3>4, <4>2 DEF Types, handleMsgIn
      <3> QED
        BY <3>1, <3>2, <3>3, <3>4 DEF Stage
    <2> QED
      BY <1>1, <1>2, <2>1 DEF Types
  <1> QED
    BY <1>2, <1>3, Moved

LEMMA EndStep ==
    ASSUME IndInv, up, Ended, UNCHANGED <<load, snd, outNextId, exOut, delivered>>
    PROVE  IndInv'
  <1>1. Types
    BY DEF IndInv
  <1>2. Types'
    <2>1. <<>> \in Seq(Message)
      OBVIOUS
    <2>2. exIn' \in [End -> Seq(Message)] /\ wire' \in [End -> Seq(Message)] /\ up' \in BOOLEAN
      BY <2>1 DEF Ended
    <2>3. /\ stage' \in [End -> [dir: {"none", "in", "out"}, msg: Message \cup {NoMsg}]]
          /\ \A f \in End : stage'[f].dir # "none" => stage'[f].msg \in Message
          /\ tm' \in [End -> Ack \cup [type: {"bundle"}, id: Id] \cup {NoMsg}]
      BY DEF Ended
    <2> QED
      BY <1>1, <2>2, <2>3 DEF Types, Ended, Held
  <1>3. Same
    BY DEF Same, Ended, Held
  <1>4. ASSUME NEW x \in Bundle
        PROVE  Sender(x)' /\ Buffered(x)' /\ Acknowledged(x)'
    <2>1. Sender(x) /\ Buffered(x) /\ Acknowledged(x)
      BY DEF IndInv
    <2> QED
      BY <1>3, <2>1, SameSends, SameState DEF Sender, Acknowledged
  <1>5. Numbering' /\ Fresh' /\ PassedOn'
    BY <1>3, SameState DEF IndInv
  <1>6. Replies'
    BY DEF Replies, Ended, NoMsg
  <1>7. ~up'
    BY DEF Ended
  <1> QED
    BY <1>2, <1>4, <1>5, <1>6, <1>7 DEF IndInv

(* A step of Send or its goroutine that puts nothing into the channel *)
LEMMA SendStep ==
    ASSUME IndInv, NEW x \in Bundle, NEW q \in SendState, snd' = [snd EXCEPT ![x] = q],
           UNCHANGED <<load, outNextId, exOut, exIn, wire, stage, tm, Held, delivered, up>>,
           snd[x].st # "new", q.st # "new", q.id = snd[x].id, q.pos = snd[x].pos,
           q.g = "put" => q.pos < Size(x), q.g = "eof" => q.pos = Size(x),
           q.outLen \in {0, Size(x)}, q.inLen <= Received(x),
           \A i \in 1..Len(q.acks) : 0 < q.acks[i].len /\ q.acks[i].len <= Received(x),
           q.st = "ok" => Received(x) = Size(x)
    PROVE  IndInv'
  <1>1. Types
    BY DEF IndInv
  <1>2. snd'[x] = q /\ \A y \in Bundle : y # x => snd'[y] = snd[y]
    BY <1>1 DEF Types
  <1>3. Types'
    BY <1>1 DEF Types
  <1>4. Same
    BY <1>2 DEF Same
  <1>5. \A y \in Bundle : snd'[y].pos = snd[y].pos
    BY <1>2
  <1>6. ASSUME NEW y \in Bundle
        PROVE  Sender(y)' /\ Buffered(y)' /\ Acknowledged(y)'
    <2>1. Sender(y) /\ Buffered(y) /\ Acknowledged(y)
      BY DEF IndInv
    <2>2. Buffered(y)'
      BY <1>4, <1>5, <2>1, SameState
    <2>3. Size(y)' = Size(y) /\ Received(y)' = Received(y)
      BY <1>4, SameSends
    <2>4. CASE y = x
      BY <1>2, <2>1, <2>2, <2>3, <2>4 DEF Sender, Acknowledged
    <2>5. CASE y # x
      BY <1>2, <2>1, <2>2, <2>3, <2>5 DEF Sender, Acknowledged
    <2> QED
      BY <2>4, <2>5
  <1>7. Numbering' /\ Fresh' /\ PassedOn' /\ Replies'
    BY <1>4, SameState, SameReplies DEF IndInv
  <1>8. ASSUME NEW f \in End
        PROVE  Pipe(f)' = Pipe(f)
    BY DEF Pipe, InHand, OutHand, Peer
  <1>9. up' => \A f \in End : Flow(f)'
    BY <1>4, <1>5, <1>8, SameFlow DEF IndInv
  <1> QED
    BY <1>3, <1>6, <1>7, <1>9 DEF IndInv
-----------------------------------------------------------------------------
(* TransferManager.Send *)

(* What has been received was sent, and is at most the bundle *)
LEMMA ReceivedBound ==
    ASSUME IndInv, NEW x \in Bundle
    PROVE  Received(x) \in Nat /\ snd[x].pos \in Nat /\ Received(x) <= snd[x].pos /\ snd[x].pos <= Size(x)
  <1>1. Types /\ Sender(x) /\ Buffered(x)
    BY DEF IndInv
  <1> QED
    BY <1>1, LoadType DEF Sender, Buffered

LEMMA SendingStep ==
    ASSUME IndInv, NEW x \in Bundle,
           SendNext(x) \/ SendLen(x) \/ SendErr(x) \/ SendAck(x) \/ Timeout(x)
    PROVE  IndInv'
  <1>1. Types /\ Sender(x) /\ Buffered(x) /\ Acknowledged(x)
    BY DEF IndInv
  <1>2. PICK s : s = snd[x]
    OBVIOUS
  <1>3. /\ s \in SendState /\ s.pos \in Nat /\ s.outLen \in Nat /\ s.inLen \in Nat /\ s.acks \in Seq(Ack)
        /\ Received(x) \in Nat /\ Received(x) <= s.pos /\ s.pos <= Size(x) /\ Size(x) \in Nat /\ Size(x) > 0
    BY <1>1, <1>2, LoadType, ReceivedBound
  <1>4. /\ s.st = "new" => s.acks = <<>> /\ s.g = "idle"
        /\ s.g = "put" => s.pos < Size(x)
        /\ s.g = "eof" => s.pos = Size(x)
        /\ s.outLen \in {0, Size(x)}
        /\ s.inLen <= Received(x)
        /\ \A i \in 1..Len(s.acks) : 0 < s.acks[i].len /\ s.acks[i].len <= Received(x)
        /\ s.st = "ok" => Received(x) = Size(x)
    BY <1>1, <1>2 DEF Sender, Acknowledged
  <1> DEFINE moved(q) ==
        /\ q \in SendState /\ snd' = [snd EXCEPT ![x] = q]
        /\ UNCHANGED <<load, outNextId, exOut, exIn, wire, stage, tm, Held, delivered, up>>
        /\ s.st # "new" /\ q.st # "new" /\ q.id = s.id /\ q.pos = s.pos
        /\ q.g = "put" => q.pos < Size(x)
        /\ q.g = "eof" => q.pos = Size(x)
        /\ q.outLen \in {0, Size(x)} /\ q.inLen <= Received(x)
        /\ \A i \in 1..Len(q.acks) : 0 < q.acks[i].len /\ q.acks[i].len <= Received(x)
        /\ q.st = "ok" => Received(x) = Size(x)
  <1>5. ASSUME NEW q, moved(q)
        PROVE  IndInv'
    BY <1>2, <1>5, SendStep
  <1>6. CASE SendNext(x)
    <2>1. PICK g : g = (CASE snd[x].st # "run" -> "done"
                          [] snd[x].st = "run" /\ ~up -> "failed"
                          [] OTHER -> IF Remaining(x) = 0 THEN "eof" ELSE "put")
      OBVIOUS
    <2>2. /\ g \in {"done", "failed", "eof", "put"}
          /\ g = "eof" => Remaining(x) = 0
          /\ g = "put" => Remaining(x) # 0
      BY <2>1
    <2>3. moved([s EXCEPT !.g = g])
      <3>1. snd' = [snd EXCEPT ![x] = [s EXCEPT !.g = g]]
        BY <1>2, <1>6, <2>1 DEF SendNext
      <3>2. [s EXCEPT !.g = g] \in SendState
        BY <1>3, <2>2 DEF SendState
      <3>3. s.g = "next"
        BY <1>2, <1>6 DEF SendNext
      <3>4. /\ g = "put" => s.pos < Size(x)
            /\ g = "eof" => s.pos = Size(x)
        BY <1>2, <1>3, <2>2 DEF Remaining
      <3>5. UNCHANGED <<load, outNextId, exOut, exIn, wire, stage, tm, Held, delivered, up>>
        BY <1>6 DEF SendNext, Held
      <3> QED
        BY <1>3, <1>4, <3>1, <3>2, <3>3, <3>4, <3>5 DEF SendState
    <2> HIDE DEF moved
    <2> QED
      BY <1>5, <2>3
  <1>7. CASE SendLen(x)
    <2>1. PICK st : st = IF s.pos = s.inLen THEN "ok" ELSE "run"
      OBVIOUS
    <2>2. moved([s EXCEPT !.g = "done", !.outLen = s.pos, !.st = st])
      <3>1. snd' = [snd EXCEPT ![x] = [s EXCEPT !.g = "done", !.outLen = s.pos, !.st = st]]
        BY <1>2, <1>7, <2>1 DEF SendLen
      <3>2. [s EXCEPT !.g = "done", !.outLen = s.pos, !.st = st] \in SendState
        BY <1>3, <2>1 DEF SendState
      <3>3. s.g = "eof" /\ s.pos = Size(x)
        BY <1>2, <1>4, <1>7 DEF SendLen
      <3>4. UNCHANGED <<load, outNextId, exOut, exIn, wire, stage, tm, Held, delivered, up>>
        BY <1>7 DEF SendLen, Held
      <3>5. st = "ok" => Received(x) = Size(x)
        BY <1>3, <1>4, <2>1, <3>3
      <3> QED
        BY <1>3, <1>4, <2>1, <3>1, <3>2, <3>3, <3>4, <3>5 DEF SendState
    <2> HIDE DEF moved
    <2> QED
      BY <1>5, <2>2
  <1>8. CASE SendErr(x)
    <2>1. moved([s EXCEPT !.g = "done", !.st = "err"])
      <3>1. snd' = [snd EXCEPT ![x] = [s EXCEPT !.g = "done", !.st = "err"]]
        BY <1>2, <1>8 DEF SendErr
      <3>2. [s EXCEPT !.g = "done", !.st = "err"] \in SendState
        BY <1>3 DEF SendState
      <3>3. s.st = "run"
        BY <1>2, <1>8 DEF SendErr
      <3>4. UNCHANGED <<load, outNextId, exOut, exIn, wire, stage, tm, Held, delivered, up>>
        BY <1>8 DEF SendErr, Held
      <3> QED
        BY <1>3, <1>4, <3>1, <3>2, <3>3, <3>4 DEF SendState
    <2> HIDE DEF moved
    <2> QED
      BY <1>5, <2>1
  <1>9. CASE SendAck(x)
    <2>1. s.st = "run" /\ s.acks # <<>>
      BY <1>2, <1>9 DEF SendAck
    <2>2. PICK n, a, st : n = Head(s.acks).len /\ a = Tail(s.acks) /\ st = IF s.outLen = n THEN "ok" ELSE "run"
      OBVIOUS
    <2>3. /\ n \in Nat /\ 0 < n /\ n <= Received(x) /\ a \in Seq(Ack)
          /\ \A i \in 1..Len(a) : 0 < a[i].len /\ a[i].len <= Received(x)
      <3>1. Head(s.acks) \in Ack /\ Head(s.acks) = s.acks[1] /\ 1 \in 1..Len(s.acks) /\ a \in Seq(Ack)
        BY <1>3, <2>1, <2>2
      <3>2. \A i \in 1..Len(a) : i + 1 \in 1..Len(s.acks) /\ a[i] = s.acks[i + 1]
        BY <1>3, <2>1, <2>2
      <3> QED
        BY <1>4, <2>2, <3>1, <3>2 DEF Ack
    <2>4. moved([s EXCEPT !.acks = a, !.inLen = n, !.st = st])
      <3>1. snd' = [snd EXCEPT ![x] = [s EXCEPT !.acks = a, !.inLen = n, !.st = st]]
        BY <1>2, <1>9, <2>2 DEF SendAck
      <3>2. [s EXCEPT !.acks = a, !.inLen = n, !.st = st] \in SendState
        BY <1>3, <2>2, <2>3 DEF SendState
      <3>3. UNCHANGED <<load, outNextId, exOut, exIn, wire, stage, tm, Held, delivered, up>>
        BY <1>9 DEF SendAck, Held
      <3>4. st = "ok" => Received(x) = Size(x)
        BY <1>3, <1>4, <2>2, <2>3
      <3> QED
        BY <1>3, <1>4, <2>1, <2>2, <2>3, <3>1, <3>2, <3>3, <3>4 DEF SendState
    <2> HIDE DEF moved
    <2> QED
      BY <1>5, <2>4
  <1>10. CASE Timeout(x)
    <2>1. moved([s EXCEPT !.st = "err"])
      <3>1. snd' = [snd EXCEPT ![x] = [s EXCEPT !.st = "err"]]
        BY <1>2, <1>10 DEF Timeout
      <3>2. [s EXCEPT !.st = "err"] \in SendState
        BY <1>3 DEF SendState
      <3>3. s.st = "run"
        BY <1>2, <1>10 DEF Timeout
      <3>4. UNCHANGED <<load, outNextId, exOut, exIn, wire, stage, tm, Held, delivered, up>>
        BY <1>10 DEF Timeout, Held
      <3> QED
        BY <1>3, <1>4, <3>1, <3>2, <3>3, <3>4 DEF SendState
    <2> HIDE DEF moved
    <2> QED
      BY <1>5, <2>1
  <1> QED
    BY <1>6, <1>7, <1>8, <1>9, <1>10

(* A new transfer: its id was never used, and the peer's buffer is empty *)
LEMMA SendBegins ==
    ASSUME IndInv, NEW x \in Bundle, Send(x)
    PROVE  IndInv'
  <1>1. Types /\ Numbering /\ Fresh /\ PassedOn /\ Replies /\ Sender(x) /\ Buffered(x) /\ Acknowledged(x)
    BY DEF IndInv
  <1>2. PICK e \in End : e = Source(x)
    BY <1>1, LoadType
  <1>3. /\ snd[x].st = "new" /\ x \notin Started(e)
        /\ UNCHANGED <<load, exOut, exIn, wire, stage, tm, Held, delivered, up>>
    BY <1>2 DEF Send, Started, Held
  <1>4. PICK n : n = outNextId[e]
    OBVIOUS
  <1>5. /\ n \in Nat /\ n = Cardinality(Started(e)) /\ outNextId'[e] = n + 1
        /\ \A f \in End : f # e => outNextId'[f] = outNextId[f]
        /\ outNextId' \in [End -> Nat]
    BY <1>1, <1>2, <1>4 DEF Types, Numbering, Send
  <1>6. /\ Cardinality(Started(e) \cup {x}) = n + 1
        /\ n + 1 <= Cardinality(Bundle) /\ Cardinality(Bundle) \in Nat
    <2>1. Started(e) \subseteq Bundle /\ Started(e) \cup {x} \in SUBSET Bundle
      BY DEF Started
    <2>2. IsFiniteSet(Started(e)) /\ Cardinality(Started(e) \cup {x}) <= Cardinality(Bundle)
      BY <2>1, BundleAssumption, FS_Subset
    <2>3. Cardinality(Started(e) \cup {x}) = Cardinality(Started(e)) + 1
      BY <1>3, <2>2, FS_AddElement
    <2> QED
      BY <1>5, <2>2, <2>3, BundleAssumption, FS_CardinalityType
  <1>7. n \in Id
    BY <1>5, <1>6 DEF Id
  <1>8. PICK q : q = [snd[x] EXCEPT !.st = "run", !.g = "next", !.id = n]
    OBVIOUS
  <1>9. /\ snd' = [snd EXCEPT ![x] = q] /\ q \in SendState
        /\ q.st = "run" /\ q.g = "next" /\ q.id = n /\ q.pos = 0 /\ q.acks = <<>>
        /\ q.outLen = snd[x].outLen /\ q.inLen = snd[x].inLen
    <2>1. snd[x] \in SendState /\ snd[x].pos = 0 /\ snd[x].acks = <<>>
      BY <1>1, <1>3 DEF Types, Sender
    <2>2. snd' = [snd EXCEPT ![x] = q]
      BY <1>2, <1>4, <1>8 DEF Send
    <2> QED
      BY <1>7, <1>8, <2>1, <2>2 DEF SendState
  <1>10. snd'[x] = q /\ \A y \in Bundle : y # x => snd'[y] = snd[y]
    BY <1>1, <1>9 DEF Types
  <1>11. Types'
    BY <1>1, <1>3, <1>5, <1>9 DEF Types
  <1>12. \A y : Source(y)' = Source(y) /\ Size(y)' = Size(y) /\ Whole(y)' = Whole(y)
    BY <1>3 DEF Source, Size, Whole
  <1>13. Started(e)' = Started(e) \cup {x} /\ \A f \in End : f # e => Started(f)' = Started(f)
    BY <1>2, <1>9, <1>10, <1>12 DEF Started
  <1>14. Numbering'
    <2>1. \A f \in End : \A y \in Started(f) : y \in Bundle /\ y # x /\ snd'[y] = snd[y]
      BY <1>3, <1>10 DEF Started
    <2>2. \A f \in End : outNextId'[f] = Cardinality(Started(f)')
      BY <1>1, <1>5, <1>6, <1>13 DEF Numbering
    <2>3. \A f \in End : \A y \in Started(f) : snd[y].id < outNextId[f] /\ snd[y].id \in Nat /\ outNextId[f] \in Nat
      <3>1. \A i \in Id : i \in Nat
        BY <1>6 DEF Id
      <3>2. \A f \in End : \A y \in Started(f) : snd[y].id \in Nat
        BY <1>1, <2>1, <3>1, LoadType
      <3> QED
        BY <1>1, <3>2 DEF Numbering, Types
    <2>4. ASSUME NEW f \in End, NEW y \in Started(f)'
          PROVE  snd'[y].id < outNextId'[f]
      <3>1. CASE y = x
        <4>1. f = e
          BY <1>2, <1>12, <3>1 DEF Started
        <4> QED
          BY <1>5, <1>9, <1>10, <3>1, <4>1
      <3>2. CASE y # x
        <4>1. y \in Started(f) /\ snd'[y].id = snd[y].id /\ snd[y].id < outNextId[f]
          BY <1>13, <2>1, <2>3, <3>2
        <4>2. snd[y].id \in Nat /\ outNextId[f] \in Nat
          BY <2>3, <4>1
        <4>3. outNextId'[f] = outNextId[f] \/ outNextId'[f] = outNextId[f] + 1
          BY <1>4, <1>5
        <4> QED
          BY <4>1, <4>2, <4>3
      <3> QED
        BY <3>1, <3>2
    <2>5. \A f \in End : \A y, z \in Started(f)' : snd'[y].id = snd'[z].id => y = z
      BY <1>1, <1>4, <1>5, <1>9, <1>10, <1>13, <2>1, <2>3 DEF Numbering
    <2> QED
      BY <2>2, <2>4, <2>5 DEF Numbering
  <1>15. ~IsDelivered(x)
    <2> SUFFICES ASSUME Whole(x) \in delivered[Peer(e)]
                 PROVE  FALSE
      BY <1>2 DEF IsDelivered
    <2>1. PICK y \in Started(e) : Whole(x) = Whole(y)
      BY <1>1, Ends DEF PassedOn
    <2>2. {x} = {y}
      BY <2>1 DEF Whole
    <2> QED
      BY <1>3, <2>1, <2>2
  <1>16. Held[Peer(e)][n] = NewIncomingTransfer
    <2>1. ~\E y \in Started(Peer(Peer(e))) : snd[y].id = n
      BY <1>1, <1>4, <1>5, Ends DEF Numbering
    <2> QED
      BY <1>1, <1>7, <2>1, Ends DEF Fresh
  <1>17. Buffer(x)' = NewIncomingTransfer /\ ~IsDelivered(x)' /\ Received(x)' = 0 /\ Received(x) = 0
    <2>1. Buffer(x)' = NewIncomingTransfer
      BY <1>2, <1>3, <1>9, <1>10, <1>12, <1>16 DEF Buffer, Peer
    <2>2. ~IsDelivered(x)'
      BY <1>3, <1>12, <1>15 DEF IsDelivered, Peer
    <2> QED
      BY <1>3, <1>9, <1>10, <2>1, <2>2 DEF Received, NewIncomingTransfer
  <1>18. ASSUME NEW y \in Bundle, y # x
         PROVE  /\ Buffer(y)' = Buffer(y) /\ (IsDelivered(y)' <=> IsDelivered(y))
                /\ Received(y)' = Received(y) /\ snd'[y] = snd[y]
    <2>1. snd'[y] = snd[y]
      BY <1>10, <1>18
    <2>2. Buffer(y)' = Buffer(y) /\ (IsDelivered(y)' <=> IsDelivered(y))
      BY <1>3, <1>12, <2>1 DEF Buffer, IsDelivered, Peer
    <2> QED
      BY <1>12, <2>1, <2>2 DEF Received
  <1>19. ASSUME NEW y \in Bundle
         PROVE  Sender(y)' /\ Buffered(y)' /\ Acknowledged(y)'
    <2>1. CASE y = x
      <3>1. Sender(x)'
        BY <1>1, <1>9, <1>10, <1>11, <1>12, LoadType DEF Sender
      <3>2. Buffered(x)'
        BY <1>9, <1>10, <1>17 DEF Buffered, NewIncomingTransfer
      <3>3. Acknowledged(x)'
        BY <1>1, <1>9, <1>10, <1>17 DEF Acknowledged
      <3> QED
        BY <2>1, <3>1, <3>2, <3>3
    <2>2. CASE y # x
      <3>1. Sender(y) /\ Buffered(y) /\ Acknowledged(y)
        BY DEF IndInv
      <3> QED
        BY <1>12, <1>18, <2>2, <3>1 DEF Sender, Buffered, Acknowledged
    <2> QED
      BY <2>1, <2>2
  <1>20. \A f \in End : Started(f) \subseteq Started(f)'
    BY <1>13
  <1>21. \A f \in End : \A y \in Started(f) : y \in Bundle /\ y # x
    BY <1>3 DEF Started
  <1>22. Fresh' /\ PassedOn'
    <2>1. Fresh'
      <3> SUFFICES ASSUME NEW f \in End, NEW id \in Id, Held[f][id] # NewIncomingTransfer
                   PROVE  \E y \in Started(Peer(f))' : snd'[y].id = id
        BY <1>3 DEF Fresh, Peer
      <3>1. PICK y \in Started(Peer(f)) : snd[y].id = id
        BY <1>1 DEF Fresh
      <3>2. y \in Started(Peer(f))' /\ snd'[y] = snd[y]
        BY <1>10, <1>20, <1>21, <3>1, Ends
      <3> QED
        BY <3>1, <3>2
    <2>2. PassedOn'
      <3> SUFFICES ASSUME NEW f \in End, NEW t \in delivered[f]
                   PROVE  \E y \in Started(Peer(f))' : t = Whole(y)'
        BY <1>3 DEF PassedOn, Peer
      <3> QED
        BY <1>1, <1>12, <1>20, Ends DEF PassedOn
    <2> QED
      BY <2>1, <2>2
  <1>23. ASSUME NEW m, NEW f \in End
         PROVE  /\ AckOK(m, f) => AckOK(m, f)'
                /\ SegmentOK(m, f) => SegmentOK(m, f)'
    <2>1. AckOK(m, f) => AckOK(m, f)'
      BY <1>18, <1>20, <1>21 DEF AckOK
    <2>2. SegmentOK(m, f) => SegmentOK(m, f)'
      BY <1>12, <1>18, <1>20, <1>21 DEF SegmentOK
    <2> QED
      BY <2>1, <2>2
  <1>24. Replies'
    <2> SUFFICES ASSUME NEW f \in End
                 PROVE  /\ tm[f].type = "ack" => AckOK(tm[f], Peer(f))'
                        /\ tm[f].type = "bundle" => Held[f][tm[f].id].end
      BY <1>3 DEF Replies, AckOK
    <2> QED
      BY <1>1, <1>3, <1>23, Ends DEF Replies
  <1>25. ASSUME NEW f \in End, up'
         PROVE  Flow(f)'
    <2>1. Flow(f) /\ Pipe(f)' = Pipe(f)
      BY <1>3, <1>25 DEF IndInv, Pipe, InHand, OutHand, Peer
    <2>2. ASSUME NEW y \in Bundle, Source(y) = f
          PROVE  Tiles(Pipe(f), y, Received(y), snd[y].pos)'
      <3>1. Received(y)' = Received(y) /\ snd'[y].pos = snd[y].pos
        BY <1>1, <1>3, <1>9, <1>10, <1>17, <1>18 DEF Sender
      <3>2. Tiles(Pipe(f), y, Received(y), snd[y].pos)
        BY <2>1, <2>2 DEF Flow
      <3> QED
        BY <2>1, <3>1, <3>2 DEF Tiles, Within, InSequence, Covers
    <2>3. ASSUME NEW i \in 1..Len(Pipe(f))
          PROVE  /\ Pipe(f)[i].type = "seg" => SegmentOK(Pipe(f)[i], f)'
                 /\ Pipe(f)[i].type = "ack" => AckOK(Pipe(f)[i], Peer(f))'
      <3>1. PICK m : m = Pipe(f)[i]
        OBVIOUS
      <3>2. /\ m.type = "seg" => SegmentOK(m, f)
            /\ m.type = "ack" => AckOK(m, Peer(f))
        BY <2>1, <3>1 DEF Flow
      <3> QED
        BY <1>23, <2>1, <3>1, <3>2, Ends
    <2> QED
      BY <1>12, <2>1, <2>2, <2>3 DEF Flow
  <1> QED
    BY <1>11, <1>14, <1>19, <1>22, <1>24, <1>25 DEF IndInv

(* The next segment begins where the sent ones end, and the last is marked *)
LEMMA NextSegmentType ==
    ASSUME IndInv, NEW x \in Bundle, snd[x].g = "put"
    PROVE  /\ NextSegment(x) \in Segment /\ IsPart(NextSegment(x), x)
           /\ NextSegment(x).id = snd[x].id /\ NextSegment(x).pos = snd[x].pos
           /\ NextSegment(x).len \in Nat /\ snd[x].pos + NextSegment(x).len <= Size(x)
           /\ NextSegment(x).end => snd[x].pos + NextSegment(x).len = Size(x)
           /\ NextSegment(x).len = Mtu \/ NextSegment(x).end
           /\ NextSegment(x).end => NextSegment(x).len < Mtu
  <1>1. /\ snd[x].pos \in Nat /\ Size(x) \in Nat /\ snd[x].pos < Size(x) /\ snd[x].id \in Id
        /\ Mtu \in Nat /\ Mtu > 0
    BY LoadType, LoadAssumption DEF IndInv, Sender
  <1>2. PICK r \in Nat : r = Remaining(x) /\ r > 0 /\ snd[x].pos + r = Size(x)
    BY <1>1 DEF Remaining
  <1>3. PICK n \in 1..Mtu : n = (IF Remaining(x) < Mtu THEN Remaining(x) ELSE Mtu) /\ n <= r
    BY <1>1, <1>2
  <1>4. NextSegment(x) = [type |-> "seg", id |-> snd[x].id, of |-> x, pos |-> snd[x].pos, len |-> n, end |-> r < Mtu]
    BY <1>2, <1>3 DEF NextSegment
  <1>5. r < Mtu => n = r
    BY <1>2, <1>3
  <1>6. ~(r < Mtu) => n = Mtu
    BY <1>2, <1>3
  <1>7. NextSegment(x) \in Segment
    BY <1>1, <1>4 DEF Segment
  <1>8. /\ NextSegment(x).type = "seg" /\ NextSegment(x).of = x /\ NextSegment(x).id = snd[x].id
        /\ NextSegment(x).pos = snd[x].pos /\ NextSegment(x).len = n /\ NextSegment(x).end = (r < Mtu)
    BY <1>4
  <1>9. snd[x].pos + n <= Size(x) /\ n \in Nat
    BY <1>1, <1>2, <1>3
  <1>10. r < Mtu => snd[x].pos + n = Size(x) /\ n < Mtu
    BY <1>2, <1>5
  <1> QED
    BY <1>6, <1>7, <1>8, <1>9, <1>10 DEF IsPart

(* The messages of a pipe after one is added *)
LEMMA AppendIndex ==
    ASSUME NEW p \in Seq(Message), NEW m \in Message, NEW i \in 1..Len(Append(p, m))
    PROVE  (i \in 1..Len(p) /\ Append(p, m)[i] = p[i]) \/ Append(p, m)[i] = m
  OBVIOUS

LEMMA SendPutStep ==
    ASSUME IndInv, NEW x \in Bundle, SendPut(x)
    PROVE  IndInv'
  <1>1. Types
    BY DEF IndInv
  <1>2. PICK e \in End : e = Source(x)
    BY <1>1, LoadType
  <1>3. PICK m : m = NextSegment(x)
    OBVIOUS
  <1>4. /\ snd[x].g = "put"
        /\ exOut' = [exOut EXCEPT ![e] = Append(@, m)]
        /\ snd' = [snd EXCEPT ![x].g = "next", ![x].pos = @ + m.len]
        /\ UNCHANGED <<load, outNextId, exIn, wire, stage, tm, Held, delivered, up>>
    BY <1>2, <1>3 DEF SendPut, Held
  <1>5. /\ m \in Segment /\ m \in Message /\ IsPart(m, x) /\ m.id = snd[x].id /\ m.pos = snd[x].pos /\ m.len \in Nat
        /\ snd[x].pos + m.len <= Size(x)
        /\ m.end => snd[x].pos + m.len = Size(x)
    BY <1>3, <1>4, NextSegmentType DEF Message
  <1>6. /\ snd[x] \in SendState /\ snd[x].pos \in Nat /\ Size(x) \in Nat
        /\ Received(x) \in Nat /\ Received(x) <= snd[x].pos
        /\ snd[x].st # "new"
    BY <1>1, <1>4, LoadType, ReceivedBound DEF IndInv, Sender
  <1>7. PICK q : q = [snd[x] EXCEPT !.g = "next", !.pos = @ + m.len]
    OBVIOUS
  <1>8. /\ snd' = [snd EXCEPT ![x] = q] /\ q \in SendState
        /\ q.g = "next" /\ q.pos = snd[x].pos + m.len /\ q.st = snd[x].st /\ q.id = snd[x].id
        /\ q.outLen = snd[x].outLen /\ q.inLen = snd[x].inLen /\ q.acks = snd[x].acks
    <2>1. snd' = [snd EXCEPT ![x] = q]
      BY <1>4, <1>7
    <2>2. snd[x].pos + m.len \in Nat
      BY <1>5, <1>6
    <2> QED
      BY <1>6, <1>7, <2>1, <2>2 DEF SendState
  <1>9. snd'[x] = q /\ \A y \in Bundle : y # x => snd'[y] = snd[y]
    BY <1>1, <1>8 DEF Types
  <1>10. Types'
    <2>1. exOut[e] \in Seq(Message)
      BY <1>1 DEF Types
    <2>2. Append(exOut[e], m) \in Seq(Message)
      BY <1>5, <2>1
    <2>3. exOut' \in [End -> Seq(Message)]
      BY <1>1, <1>4, <2>2 DEF Types
    <2> QED
      BY <1>1, <1>4, <1>8, <2>3 DEF Types
  <1>11. Same
    BY <1>4, <1>8, <1>9 DEF Same
  <1>12. ASSUME NEW y \in Bundle
         PROVE  Sender(y)' /\ Buffered(y)' /\ Acknowledged(y)'
    <2>1. Sender(y) /\ Buffered(y) /\ Acknowledged(y)
      BY DEF IndInv
    <2>2. /\ Size(y)' = Size(y) /\ Received(y)' = Received(y) /\ Buffer(y)' = Buffer(y)
          /\ (IsDelivered(y)' <=> IsDelivered(y))
      BY <1>11, SameSends
    <2>3. CASE y = x
      <3>1. Sender(x)'
        BY <1>5, <1>6, <1>8, <1>9, <2>1, <2>2, <2>3 DEF Sender
      <3>2. Received(x)' <= snd'[x].pos
        BY <1>5, <1>6, <1>8, <1>9, <2>2, <2>3
      <3>3. Buffered(x)'
        BY <1>8, <1>9, <2>1, <2>2, <2>3, <3>2 DEF Buffered
      <3>4. Acknowledged(x)'
        BY <1>8, <1>9, <2>1, <2>2, <2>3 DEF Acknowledged
      <3> QED
        BY <2>3, <3>1, <3>3, <3>4
    <2>4. CASE y # x
      BY <1>9, <2>1, <2>2, <2>4 DEF Sender, Buffered, Acknowledged
    <2> QED
      BY <2>3, <2>4
  <1>13. Numbering' /\ Fresh' /\ PassedOn' /\ Replies'
    BY <1>4, <1>11, SameState, SameReplies DEF IndInv
  <1>14. Pipe(e)' = Append(Pipe(e), m) /\ Pipe(Peer(e))' = Pipe(Peer(e)) /\ Pipe(e) \in Seq(Message)
    BY <1>1, <1>4, <1>5, PutPipe, PipeType
  <1>15. ASSUME up'
         PROVE  Flow(e)'
    <2>1. Flow(e)
      BY <1>4, <1>15 DEF IndInv
    <2>2. PICK p \in Seq(Message) : p = Pipe(e)
      BY <1>14
    <2>3. ASSUME NEW y \in Bundle, Source(y) = e
          PROVE  Tiles(Pipe(e), y, Received(y), snd[y].pos)'
      <3>1. Tiles(p, y, Received(y), snd[y].pos)
        BY <2>1, <2>2, <2>3 DEF Flow
      <3>2. PICK lo \in Nat, hi \in Nat : lo = Received(y) /\ hi = snd[y].pos /\ lo <= hi
        BY ReceivedBound
      <3>3. Received(y)' = lo
        BY <1>11, <3>2, SameSends
      <3>4. CASE y = x
        <4>1. Tiles(Append(p, m), y, lo, hi + m.len)
          BY <1>5, <3>1, <3>2, <3>4, TilesAppend
        <4>2. snd'[y].pos = hi + m.len
          BY <1>8, <1>9, <3>2, <3>4
        <4> QED
          BY <1>14, <2>2, <3>3, <4>1, <4>2 DEF Tiles, Within, InSequence, Covers
      <3>5. CASE y # x
        <4>1. ~IsPart(m, y)
          BY <1>5, <3>5 DEF IsPart
        <4>2. Tiles(Append(p, m), y, lo, hi)
          BY <1>5, <3>1, <3>2, <4>1, TilesAppendOther
        <4>3. snd'[y].pos = hi
          BY <1>9, <3>2, <3>5
        <4> QED
          BY <1>14, <2>2, <3>3, <4>2, <4>3 DEF Tiles, Within, InSequence, Covers
      <3> QED
        BY <3>4, <3>5
    <2>4. SegmentOK(m, e)
      BY <1>2, <1>5, <1>6 DEF SegmentOK, IsPart, Started
    <2>5. ASSUME NEW i \in 1..Len(Append(p, m))
          PROVE  /\ Append(p, m)[i].type = "seg" => SegmentOK(Append(p, m)[i], e)'
                 /\ Append(p, m)[i].type = "ack" => AckOK(Append(p, m)[i], Peer(e))'
      <3>1. PICK l : l = Append(p, m)[i]
        OBVIOUS
      <3>2. (i \in 1..Len(p) /\ l = p[i]) \/ l = m
        BY <1>5, <3>1, AppendIndex
      <3>3. /\ l.type = "seg" => SegmentOK(l, e)
            /\ l.type = "ack" => AckOK(l, Peer(e))
        BY <1>5, <2>1, <2>2, <2>4, <3>2 DEF Flow, IsPart
      <3> QED
        BY <1>11, <3>1, <3>3, SameMessages, Ends
    <2>6. \A y \in Bundle : Source(y)' = Source(y)
      BY <1>11, SameSends
    <2>7. Pipe(e)' = Append(p, m)
      BY <1>14, <2>2
    <2>8. \A i \in 1..Len(Pipe(e)') : /\ Pipe(e)'[i].type = "seg" => SegmentOK(Pipe(e)[i], e)'
                                      /\ Pipe(e)'[i].type = "ack" => AckOK(Pipe(e)[i], Peer(e))'
      BY <2>5, <2>7 DEF SegmentOK, AckOK
    <2> QED
      BY <2>3, <2>6, <2>8 DEF Flow
  <1>16. ASSUME up'
         PROVE  Flow(Peer(e))'
    <2>1. \A y \in Bundle : Source(y) = Peer(e) => y # x
      BY <1>2, Ends
    <2>2. Flow(Peer(e)) /\ Peer(e) \in End
      BY <1>4, <1>16, Ends DEF IndInv
    <2> QED
      BY <1>9, <1>11, <1>14, <2>1, <2>2, SameFlow
  <1> QED
    BY <1>10, <1>12, <1>13, <1>15, <1>16, Ends DEF IndInv
-----------------------------------------------------------------------------
(* TransferManager.handle *)

(* Another message at the end, or one that is no segment at the front *)
LEMMA FlowPut ==
    ASSUME Same, Types, NEW e \in End, Flow(e), NEW m \in Ack, AckOK(m, Peer(e)), Pipe(e)' = Append(Pipe(e), m),
           \A x \in Bundle : snd'[x].pos = snd[x].pos
    PROVE  Flow(e)'
  <1>1. PICK p \in Seq(Message) : p = Pipe(e)
    BY PipeType
  <1>2. m \in Message /\ m.type = "ack"
    BY DEF Message, Ack
  <1>3. ASSUME NEW y \in Bundle, Source(y) = e
        PROVE  Tiles(Pipe(e), y, Received(y), snd[y].pos)'
    <2>1. Tiles(p, y, Received(y), snd[y].pos)
      BY <1>1, <1>3 DEF Flow
    <2>2. PICK lo \in Nat, hi \in Nat : lo = Received(y) /\ hi = snd[y].pos
      BY LoadType
    <2>3. Received(y)' = lo /\ snd'[y].pos = hi
      BY <2>2, SameSends
    <2>4. ~IsPart(m, y)
      BY <1>2 DEF IsPart
    <2>5. Tiles(Append(p, m), y, lo, hi)
      BY <1>2, <2>1, <2>2, <2>4, TilesAppendOther
    <2> QED
      BY <1>1, <2>3, <2>5 DEF Tiles, Within, InSequence, Covers
  <1>4. ASSUME NEW i \in 1..Len(Append(p, m))
        PROVE  /\ Append(p, m)[i].type = "seg" => SegmentOK(Append(p, m)[i], e)'
               /\ Append(p, m)[i].type = "ack" => AckOK(Append(p, m)[i], Peer(e))'
    <2>1. PICK l : l = Append(p, m)[i]
      OBVIOUS
    <2>2. (i \in 1..Len(p) /\ l = p[i]) \/ l = m
      BY <1>2, <2>1, AppendIndex
    <2>3. /\ l.type = "seg" => SegmentOK(l, e)
          /\ l.type = "ack" => AckOK(l, Peer(e))
      BY <1>1, <1>2, <2>2 DEF Flow
    <2> QED
      BY <2>1, <2>3, SameMessages, Ends
  <1>5. \A y \in Bundle : Source(y)' = Source(y)
    BY SameSends
  <1>6. Pipe(e)' = Append(p, m)
    BY <1>1
  <1>7. \A i \in 1..Len(Pipe(e)') : /\ Pipe(e)'[i].type = "seg" => SegmentOK(Pipe(e)[i], e)'
                                    /\ Pipe(e)'[i].type = "ack" => AckOK(Pipe(e)[i], Peer(e))'
    BY <1>4, <1>6 DEF SegmentOK, AckOK
  <1> QED
    BY <1>3, <1>5, <1>7 DEF Flow

LEMMA FlowRead ==
    ASSUME Same, Types, NEW e \in End, Flow(e), Pipe(e) # <<>>, Head(Pipe(e)).type = "ack",
           Pipe(e)' = Tail(Pipe(e)), \A x \in Bundle : snd'[x].pos = snd[x].pos
    PROVE  Flow(e)'
  <1>1. PICK p \in Seq(Message) : p = Pipe(e) /\ p # <<>>
    BY PipeType
  <1>2. PICK q \in Seq(Message) : q = Tail(p)
    BY <1>1
  <1>3. ASSUME NEW y \in Bundle, Source(y) = e
        PROVE  Tiles(Pipe(e), y, Received(y), snd[y].pos)'
    <2>1. Tiles(p, y, Received(y), snd[y].pos)
      BY <1>1, <1>3 DEF Flow
    <2>2. PICK lo \in Nat, hi \in Nat : lo = Received(y) /\ hi = snd[y].pos
      BY LoadType
    <2>3. Received(y)' = lo /\ snd'[y].pos = hi
      BY <2>2, SameSends
    <2>4. ~IsPart(Head(p), y)
      BY <1>1 DEF IsPart
    <2>5. Tiles(Tail(p), y, lo, hi)
      BY <1>1, <2>1, <2>2, <2>4, TilesTailOther
    <2> QED
      BY <1>1, <2>3, <2>5 DEF Tiles, Within, InSequence, Covers
  <1>4. ASSUME NEW i \in 1..Len(q)
        PROVE  /\ q[i].type = "seg" => SegmentOK(q[i], e)'
               /\ q[i].type = "ack" => AckOK(q[i], Peer(e))'
    <2>1. PICK l : l = q[i]
      OBVIOUS
    <2>2. i + 1 \in 1..Len(p) /\ l = p[i + 1]
      BY <1>1, <1>2, <2>1, TailIndex
    <2>3. /\ l.type = "seg" => SegmentOK(l, e)
          /\ l.type = "ack" => AckOK(l, Peer(e))
      BY <1>1, <2>2 DEF Flow
    <2> QED
      BY <2>1, <2>3, SameMessages, Ends
  <1>5. \A y \in Bundle : Source(y)' = Source(y)
    BY SameSends
  <1>6. Pipe(e)' = q
    BY <1>1, <1>2
  <1>7. \A i \in 1..Len(Pipe(e)') : /\ Pipe(e)'[i].type = "seg" => SegmentOK(Pipe(e)[i], e)'
                                    /\ Pipe(e)'[i].type = "ack" => AckOK(Pipe(e)[i], Peer(e))'
    BY <1>4, <1>6 DEF SegmentOK, AckOK
  <1> QED
    BY <1>3, <1>5, <1>7 DEF Flow

LEMMA ReplyStep ==
    ASSUME IndInv, NEW e \in End, HandleReply(e)
    PROVE  IndInv'
  <1>1. Types /\ Replies
    BY DEF IndInv
  <1>2. PICK m : m = tm[e]
    OBVIOUS
  <1>3. /\ up /\ m.type = "ack" /\ exOut' = [exOut EXCEPT ![e] = Append(@, m)]
        /\ tm' = [tm EXCEPT ![e] = IF Held[e][m.id].end THEN [type |-> "bundle", id |-> m.id] ELSE NoMsg]
        /\ UNCHANGED <<load, snd, outNextId, exIn, wire, stage, Held, delivered, up>>
    BY <1>2 DEF HandleReply, Held
  <1>4. m \in Ack /\ m.id \in Id /\ AckOK(m, Peer(e)) /\ m \in Message
    <2>1. m \in Ack \cup [type: {"bundle"}, id: Id] \cup {NoMsg}
      BY <1>1, <1>2 DEF Types
    <2>2. m \in Ack
      BY <1>3, <2>1 DEF NoMsg
    <2> QED
      BY <1>1, <1>2, <1>3, <2>2 DEF Ack, Replies, Message
  <1>5. Types'
    <2>1. exOut[e] \in Seq(Message)
      BY <1>1 DEF Types
    <2>2. Append(exOut[e], m) \in Seq(Message)
      BY <1>4, <2>1
    <2>3. exOut' \in [End -> Seq(Message)]
      BY <1>1, <1>3, <2>2 DEF Types
    <2>4. [type |-> "bundle", id |-> m.id] \in [type: {"bundle"}, id: Id]
      BY <1>4
    <2>5. tm' \in [End -> Ack \cup [type: {"bundle"}, id: Id] \cup {NoMsg}]
      BY <1>1, <1>3, <2>4 DEF Types
    <2> QED
      BY <1>1, <1>3, <2>3, <2>5 DEF Types
  <1>6. Same
    BY <1>3 DEF Same
  <1>7. ASSUME NEW y \in Bundle
        PROVE  Sender(y)' /\ Buffered(y)' /\ Acknowledged(y)'
    <2>1. Sender(y) /\ Buffered(y) /\ Acknowledged(y)
      BY DEF IndInv
    <2> QED
      BY <1>3, <1>6, <2>1, SameSends, SameState DEF Sender, Acknowledged
  <1>8. Numbering' /\ Fresh' /\ PassedOn'
    BY <1>3, <1>6, SameState DEF IndInv
  <1>9. Replies'
    <2>1. tm'[e] = (IF Held[e][m.id].end THEN [type |-> "bundle", id |-> m.id] ELSE NoMsg)
          /\ \A f \in End : f # e => tm'[f] = tm[f]
      BY <1>1, <1>3 DEF Types
    <2>2. ASSUME NEW f \in End
          PROVE  /\ tm'[f].type = "ack" => AckOK(tm[f], Peer(f))'
                 /\ tm'[f].type = "bundle" => Held[f][tm'[f].id].end
      <3>1. CASE f = e
        BY <2>1, <3>1 DEF NoMsg
      <3>2. CASE f # e
        <4>1. PICK l : l = tm[f] /\ l = tm'[f]
          BY <2>1, <3>2
        <4>2. l.type = "ack" => AckOK(l, Peer(f))'
          <5>1. l.type = "ack" => AckOK(l, Peer(f))
            BY <1>1, <4>1 DEF Replies
          <5>2. AckOK(l, Peer(f)) => AckOK(l, Peer(f))'
            BY <1>6, SameMessages, Ends
          <5> QED
            BY <5>1, <5>2
        <4> QED
          BY <1>1, <4>1, <4>2 DEF Replies, AckOK
      <3> QED
        BY <3>1, <3>2
    <2> QED
      BY <1>3, <2>2 DEF Replies
  <1>10. Pipe(e)' = Append(Pipe(e), m) /\ Pipe(Peer(e))' = Pipe(Peer(e))
    BY <1>1, <1>3, <1>4, PutPipe
  <1>11. Flow(e)'
    BY <1>1, <1>3, <1>4, <1>6, <1>10, FlowPut DEF IndInv
  <1>12. Flow(Peer(e))'
    BY <1>3, <1>6, <1>10, SameFlow, Ends DEF IndInv
  <1> QED
    BY <1>5, <1>7, <1>8, <1>9, <1>11, <1>12, Ends DEF IndInv

LEMMA AckStep ==
    ASSUME IndInv, NEW e \in End, HandleAck(e)
    PROVE  IndInv'
  <1>1. Types /\ Numbering
    BY DEF IndInv
  <1>2. PICK msg : msg = Head(exIn[e])
    OBVIOUS
  <1>3. PICK waiting : waiting = Waiting(e, msg.id)
    OBVIOUS
  <1>4. /\ up /\ exIn[e] # <<>> /\ msg.type = "ack"
        /\ UNCHANGED <<load, outNextId, exOut, delivered>>
    BY <1>2 DEF HandleAck
  <1>5. CASE Ended /\ UNCHANGED snd
    BY <1>4, <1>5, EndStep
  <1>6. CASE /\ exIn' = [exIn EXCEPT ![e] = Tail(@)]
             /\ snd' = [x \in Bundle |-> IF x \in waiting
                                         THEN [snd[x] EXCEPT !.acks = Append(@, msg)] ELSE snd[x]]
             /\ UNCHANGED <<wire, stage, tm, inTransfers, lost, up>>
    <2>1. PICK d \in End : d = Peer(e) /\ e = Peer(d)
      BY Ends
    <2>2. /\ Pipe(d) # <<>> /\ Head(Pipe(d)) = msg /\ Pipe(d)' = Tail(Pipe(d)) /\ Pipe(e)' = Pipe(e)
          /\ Pipe(d) \in Seq(Message) /\ msg \in Message
      <3>1. UNCHANGED <<exOut, wire, stage>>
        BY <1>4, <1>6
      <3>2. Pipe(d) # <<>> /\ Head(Pipe(d)) = msg /\ Pipe(d)' = Tail(Pipe(d)) /\ Pipe(e)' = Pipe(e)
        BY <1>1, <1>2, <1>4, <1>6, <2>1, <3>1, ReadPipe
      <3>3. Pipe(d) \in Seq(Message)
        BY <1>1, PipeType
      <3> QED
        BY <3>2, <3>3, TailIndex
    <2>3. msg \in Ack /\ AckOK(msg, e)
      <3>1. msg \in Ack
        BY <1>4, <2>2 DEF Message, Segment
      <3>2. 1 \in 1..Len(Pipe(d)) /\ Pipe(d)[1] = msg
        BY <2>2, TailIndex
      <3>3. Flow(d)
        BY <1>4 DEF IndInv
      <3> QED
        BY <1>4, <2>1, <3>1, <3>2, <3>3 DEF Flow
    <2>4. \A x \in waiting : x \in Bundle /\ snd[x].st = "run" /\ 0 < msg.len /\ msg.len <= Received(x)
      <3>1. PICK y \in Started(e) : msg.id = snd[y].id /\ 0 < msg.len /\ msg.len <= Received(y)
        BY <2>3 DEF AckOK
      <3>2. \A x \in waiting : x \in Bundle /\ x \in Started(e) /\ snd[x].st = "run" /\ snd[x].id = msg.id
        BY <1>3 DEF Waiting, Started
      <3> QED
        BY <1>1, <3>1, <3>2 DEF Numbering
    <2>5. ASSUME NEW x \in Bundle
          PROVE  /\ snd'[x] \in SendState
                 /\ snd'[x].st = snd[x].st /\ snd'[x].g = snd[x].g /\ snd'[x].id = snd[x].id
                 /\ snd'[x].pos = snd[x].pos /\ snd'[x].outLen = snd[x].outLen /\ snd'[x].inLen = snd[x].inLen
                 /\ snd'[x].acks = (IF x \in waiting THEN Append(snd[x].acks, msg) ELSE snd[x].acks)
      <3>1. snd[x] \in SendState /\ snd[x].acks \in Seq(Ack)
        BY <1>1, LoadType
      <3>2. PICK a \in Seq(Ack) : a = Append(snd[x].acks, msg)
        <4>1. \A l \in Seq(Ack) : Append(l, msg) \in Seq(Ack)
          BY <2>3
        <4> QED
          BY <3>1, <4>1
      <3>3. snd'[x] = IF x \in waiting THEN [snd[x] EXCEPT !.acks = a] ELSE snd[x]
        BY <1>6, <3>2
      <3> QED
        BY <3>1, <3>2, <3>3 DEF SendState
    <2>6. Types'
      <3>1. snd' \in [Bundle -> SendState]
        BY <1>6, <2>5
      <3>2. Tail(exIn[e]) \in Seq(Message)
        BY <1>1, <1>4 DEF Types
      <3>3. exIn' \in [End -> Seq(Message)]
        BY <1>1, <1>6, <3>2 DEF Types
      <3> QED
        BY <1>1, <1>4, <1>6, <3>1, <3>3 DEF Types, Held
    <2>7. Same
      <3>1. Held' = Held
        BY <1>6 DEF Held
      <3> QED
        BY <1>4, <2>5, <3>1 DEF Same
    <2>8. ASSUME NEW x \in Bundle
          PROVE  Sender(x)' /\ Buffered(x)' /\ Acknowledged(x)'
      <3>1. Sender(x) /\ Buffered(x) /\ Acknowledged(x)
        BY DEF IndInv
      <3>2. Buffered(x)' /\ Size(x)' = Size(x) /\ Received(x)' = Received(x)
        BY <2>5, <2>7, <3>1, SameSends, SameState
      <3>3. Sender(x)'
        <4>1. snd[x].st = "new" => x \notin waiting
          BY <2>4
        <4> QED
          BY <2>5, <3>1, <3>2, <4>1 DEF Sender
      <3>4. \A i \in 1..Len(snd'[x].acks) : 0 < snd'[x].acks[i].len /\ snd'[x].acks[i].len <= Received(x)
        <4>1. \A i \in 1..Len(snd[x].acks) : 0 < snd[x].acks[i].len /\ snd[x].acks[i].len <= Received(x)
          BY <3>1 DEF Acknowledged
        <4>2. CASE x \in waiting
          <5>1. PICK a \in Seq(Ack) : a = snd[x].acks
            BY <1>1, LoadType
          <5>2. \A i \in 1..Len(Append(a, msg)) : (i \in 1..Len(a) /\ Append(a, msg)[i] = a[i]) \/ Append(a, msg)[i] = msg
            BY <2>3
          <5>3. snd'[x].acks = Append(a, msg)
            BY <2>5, <4>2, <5>1
          <5> QED
            BY <2>4, <4>1, <4>2, <5>1, <5>2, <5>3
        <4>3. CASE x \notin waiting
          BY <2>5, <4>1, <4>3
        <4> QED
          BY <4>2, <4>3
      <3>5. Acknowledged(x)'
        BY <2>5, <3>1, <3>2, <3>4 DEF Acknowledged
      <3> QED
        BY <3>2, <3>3, <3>5
    <2>9. Numbering' /\ Fresh' /\ PassedOn' /\ Replies'
      BY <1>4, <1>6, <2>7, SameState, SameReplies DEF IndInv
    <2>10. Flow(d)'
      BY <1>1, <1>4, <2>2, <2>5, <2>7, FlowRead DEF IndInv
    <2>11. Flow(e)'
      BY <1>4, <2>2, <2>5, <2>7, SameFlow DEF IndInv
    <2> QED
      BY <2>1, <2>6, <2>8, <2>9, <2>10, <2>11, Ends DEF IndInv
  <1> QED
    BY <1>2, <1>3, <1>5, <1>6 DEF HandleAck

LEMMA ReceivedType ==
    /\ Types => \A y \in Bundle : Received(y) \in Nat
    /\ Types' => \A y \in Bundle : Received(y)' \in Nat
  <1>1. Types => \A y \in Bundle : Received(y) \in Nat
    BY LoadType
  <1>2. (Types => \A y \in Bundle : Received(y) \in Nat)'
    BY <1>1, PTL
  <1> QED
    BY <1>1, <1>2

(* More of x has been received, by a step that changes nothing else of the *)
(* transfers: what was promised still holds.                               *)
LEMMA MoreReceived ==
    ASSUME Types, Types', load' = load, snd' = snd,
           \A y \in Bundle : Received(y) <= Received(y)'
    PROVE  /\ \A y : Source(y)' = Source(y) /\ Size(y)' = Size(y) /\ Whole(y)' = Whole(y)
           /\ \A f \in End : Started(f)' = Started(f)
           /\ \A m \in Ack : \A f \in End : AckOK(m, f) => AckOK(m, f)'
           /\ \A m : \A f \in End : SegmentOK(m, f) => SegmentOK(m, f)'
           /\ Numbering /\ outNextId' = outNextId => Numbering'
  <1>1. \A y : Source(y)' = Source(y) /\ Size(y)' = Size(y) /\ Whole(y)' = Whole(y)
    BY DEF Source, Size, Whole
  <1>2. \A f \in End : Started(f)' = Started(f) /\ Started(f) \subseteq Bundle
    BY <1>1 DEF Started
  <1>3. \A y \in Bundle : Received(y) \in Nat /\ Received(y)' \in Nat
    BY ReceivedType
  <1>4. ASSUME NEW m \in Ack, NEW f \in End, AckOK(m, f)
        PROVE  AckOK(m, f)'
    <2>1. PICK y \in Started(f) : m.id = snd[y].id /\ 0 < m.len /\ m.len <= Received(y)
      BY <1>4 DEF AckOK
    <2>2. m.len <= Received(y)'
      <3>1. m.len \in Nat /\ y \in Bundle
        BY <1>2, <2>1 DEF Ack
      <3>2. Received(y) \in Nat /\ Received(y)' \in Nat /\ Received(y) <= Received(y)'
        BY <1>3, <3>1
      <3> QED
        BY <2>1, <3>1, <3>2
    <2> QED
      BY <1>2, <2>1, <2>2 DEF AckOK
  <1>5. ASSUME NEW m, NEW f \in End, SegmentOK(m, f)
        PROVE  SegmentOK(m, f)'
    BY <1>1, <1>2, <1>5 DEF SegmentOK
  <1>6. ASSUME Numbering, outNextId' = outNextId
        PROVE  Numbering'
    BY <1>2, <1>6 DEF Numbering
  <1> QED
    BY <1>1, <1>2, <1>4, <1>5, <1>6

LEMMA SegmentStep ==
    ASSUME IndInv, NEW e \in End, HandleSegment(e)
    PROVE  IndInv'
  <1>1. Types /\ Numbering /\ Fresh /\ PassedOn /\ Replies
    BY DEF IndInv
  <1>2. PICK msg, t : msg = Head(exIn[e]) /\ t = Held[e][msg.id]
    OBVIOUS
  <1>3. PICK b : b = [of |-> t.of \cup {msg.of}, len |-> t.len + msg.len,
                      ordered |-> t.ordered /\ msg.pos = t.len, end |-> msg.end]
    OBVIOUS
  <1>4. /\ up /\ up' /\ exIn[e] # <<>> /\ msg.type = "seg" /\ ~t.end
        /\ exIn' = [exIn EXCEPT ![e] = Tail(@)]
        /\ Held' = [Held EXCEPT ![e][msg.id] = b]
        /\ tm' = [tm EXCEPT ![e] = [type |-> "ack", id |-> msg.id, len |-> t.len + msg.len]]
        /\ UNCHANGED <<load, snd, outNextId, exOut, wire, stage, delivered, up>>
    BY <1>2, <1>3 DEF HandleSegment, Held
  <1>5. PICK d \in End : d = Peer(e) /\ e = Peer(d) /\ d # e
    BY Ends
  <1>6. PICK p \in Seq(Message) : p = Pipe(d) /\ p # <<>> /\ Head(p) = msg /\ Pipe(d)' = Tail(p) /\ Pipe(e)' = Pipe(e)
    <2>1. UNCHANGED <<exOut, wire, stage>>
      BY <1>4
    <2>2. Pipe(d) # <<>> /\ Head(Pipe(d)) = msg /\ Pipe(d)' = Tail(Pipe(d)) /\ Pipe(e)' = Pipe(e)
      BY <1>1, <1>2, <1>4, <1>5, <2>1, ReadPipe
    <2>3. Pipe(d) \in Seq(Message)
      BY <1>1, PipeType
    <2> QED
      BY <2>2, <2>3
  <1>7. Flow(d) /\ Flow(e)
    BY <1>4 DEF IndInv
  <1>8. msg \in Message /\ SegmentOK(msg, d)
    <2>1. 1 \in 1..Len(p) /\ p[1] = msg /\ msg \in Message
      BY <1>6, TailIndex
    <2> QED
      BY <1>4, <1>6, <1>7, <2>1 DEF Flow
  <1>9. PICK x \in Bundle : x = msg.of /\ x \in Started(d) /\ Source(x) = d /\ snd[x].st # "new" /\ msg.id = snd[x].id
    BY <1>8 DEF SegmentOK, Started
  <1>10. IsPart(msg, x) /\ msg \in Segment /\ msg.pos \in Nat /\ msg.len \in Nat /\ msg.len > 0
    BY <1>4, <1>8, <1>9, PartType DEF IsPart
  <1>11. PICK lo \in Nat, hi \in Nat : lo = Received(x) /\ hi = snd[x].pos /\ lo <= hi /\ hi <= Size(x)
    BY ReceivedBound
  <1>12. msg.pos = lo /\ lo + msg.len <= hi /\ Tiles(Tail(p), x, lo + msg.len, hi)
    <2>1. Tiles(p, x, lo, hi)
      BY <1>6, <1>7, <1>9, <1>11 DEF Flow
    <2> QED
      BY <1>6, <1>10, <2>1, TilesTail
  <1>13. /\ Size(x) \in Nat /\ Size(x) > 0 /\ snd[x].id \in Id /\ Buffer(x) = t /\ t \in IncomingTransfer /\ t.len \in Nat
    BY <1>1, <1>2, <1>5, <1>9, LoadType DEF Buffer
  <1>14. /\ ~IsDelivered(x) /\ t.len = lo /\ t.ordered /\ t.of = (IF t.len = 0 THEN {} ELSE {x})
    <2>1. ~IsDelivered(x)
      <3> SUFFICES ASSUME IsDelivered(x)
                   PROVE  FALSE
        OBVIOUS
      <3>1. lo = Size(x)
        BY <1>9, <1>11 DEF Received
      <3> QED
        BY <1>10, <1>11, <1>12, <1>13, <3>1
    <2>2. Buffered(x)
      BY DEF IndInv
    <2>3. Received(x) = t.len
      BY <1>9, <1>13, <2>1 DEF Received
    <2> QED
      BY <1>9, <1>11, <1>13, <2>1, <2>2, <2>3 DEF Buffered
  <1>15. /\ b \in IncomingTransfer /\ b.of = {x} /\ b.len = lo + msg.len /\ b.ordered /\ b.end = msg.end
         /\ b.len \in Nat /\ b.len > 0
         /\ b.end => b.len = Size(x)
    <2>1. t.of \cup {msg.of} = {x}
      BY <1>9, <1>14
    <2>2. t.len + msg.len \in Nat /\ msg.end \in BOOLEAN
      BY <1>10, <1>13 DEF Segment
    <2>3. (t.ordered /\ msg.pos = t.len) = TRUE
      BY <1>12, <1>14
    <2>4. b = [of |-> {x}, len |-> lo + msg.len, ordered |-> TRUE, end |-> msg.end]
      BY <1>3, <1>14, <2>1, <2>3
    <2>5. msg.end => lo + msg.len = Size(x)
      BY <1>8, <1>9, <1>12 DEF SegmentOK
    <2>6. lo + msg.len \in Nat /\ lo + msg.len > 0
      BY <1>10, <1>11
    <2> QED
      BY <2>2, <2>4, <2>5, <2>6 DEF IncomingTransfer
  <1>16. /\ Held'[e][msg.id] = b /\ Held' \in [End -> [Id -> IncomingTransfer]]
         /\ \A id \in Id : id # msg.id => Held'[e][id] = Held[e][id]
         /\ Held'[d] = Held[d]
    BY <1>1, <1>4, <1>5, <1>9, <1>13, <1>15 DEF Types
  <1>17. /\ tm'[e] = [type |-> "ack", id |-> msg.id, len |-> lo + msg.len] /\ tm'[e] \in Ack
         /\ tm'[d] = tm[d] /\ tm' \in [End -> Ack \cup [type: {"bundle"}, id: Id] \cup {NoMsg}]
    <2>1. [type |-> "ack", id |-> msg.id, len |-> lo + msg.len] \in Ack
      BY <1>9, <1>10, <1>11, <1>13 DEF Ack
    <2> QED
      BY <1>1, <1>4, <1>5, <1>14, <2>1 DEF Types
  <1>18. Types'
    <2>1. Tail(exIn[e]) \in Seq(Message)
      BY <1>1, <1>4 DEF Types
    <2>2. exIn' \in [End -> Seq(Message)]
      BY <1>1, <1>4, <2>1 DEF Types
    <2> QED
      BY <1>1, <1>4, <1>16, <1>17, <2>2 DEF Types
  <1>19. Buffer(x)' = b /\ ~IsDelivered(x)' /\ Received(x)' = lo + msg.len
    <2>1. Buffer(x)' = b
      BY <1>4, <1>5, <1>9, <1>16 DEF Buffer, Source, Peer
    <2>2. ~IsDelivered(x)'
      BY <1>4, <1>14 DEF IsDelivered, Source, Peer, Whole, Size
    <2> QED
      BY <1>4, <1>9, <1>15, <2>1, <2>2 DEF Received
  <1>20. ASSUME NEW y \in Bundle, y # x, snd[y].st # "new"
         PROVE  Buffer(y)' = Buffer(y)
    <2>1. Source(y) \in End /\ snd[y].id \in Id
      BY <1>1, LoadType
    <2>2. CASE Source(y) = d
      <3>1. snd[y].id # msg.id
        BY <1>1, <1>9, <1>20, <2>2 DEF Numbering, Started
      <3> QED
        BY <1>4, <1>5, <1>16, <2>1, <2>2, <3>1 DEF Buffer, Source, Peer
    <2>3. CASE Source(y) = e
      BY <1>4, <1>5, <1>16, <2>3 DEF Buffer, Source, Peer
    <2> QED
      BY <1>5, <2>1, <2>2, <2>3, Ends
  <1>21. ASSUME NEW y \in Bundle, y # x
         PROVE  (IsDelivered(y)' <=> IsDelivered(y)) /\ Received(y)' = Received(y)
    <2>1. IsDelivered(y)' <=> IsDelivered(y)
      BY <1>4 DEF IsDelivered, Source, Peer, Whole, Size
    <2> QED
      BY <1>4, <1>20, <1>21, <2>1 DEF Received, Size
  <1>22. \A y \in Bundle : Received(y) <= Received(y)'
    <2>1. \A y \in Bundle : Received(y) \in Nat
      BY <1>1, LoadType
    <2> QED
      BY <1>10, <1>11, <1>19, <1>21, <2>1
  <1>23. /\ \A y : Source(y)' = Source(y) /\ Size(y)' = Size(y) /\ Whole(y)' = Whole(y)
         /\ \A f \in End : Started(f)' = Started(f)
         /\ \A m \in Ack : \A f \in End : AckOK(m, f) => AckOK(m, f)'
         /\ \A m : \A f \in End : SegmentOK(m, f) => SegmentOK(m, f)'
         /\ Numbering'
    BY <1>1, <1>4, <1>18, <1>22, MoreReceived
  <1>24. ASSUME NEW y \in Bundle
         PROVE  Sender(y)' /\ Buffered(y)' /\ Acknowledged(y)'
    <2>1. Sender(y) /\ Buffered(y) /\ Acknowledged(y)
      BY DEF IndInv
    <2>2. Sender(y)'
      BY <1>4, <1>23, <2>1 DEF Sender
    <2>3. CASE y = x
      <3>1. Buffered(x)'
        <4>1. Received(x)' <= snd'[x].pos
          BY <1>4, <1>11, <1>12, <1>19
        <4>2. Buffer(x)'.len # 0 /\ Buffer(x)'.of = {x} /\ Buffer(x)'.ordered
          BY <1>15, <1>19
        <4>3. Buffer(x)'.end => Buffer(x)'.len = Size(x)'
          BY <1>15, <1>19, <1>23
        <4> QED
          BY <1>19, <4>1, <4>2, <4>3 DEF Buffered
      <3>2. snd[x].st # "ok"
        BY <1>10, <1>11, <1>12, <1>13, <2>1, <2>3 DEF Acknowledged
      <3>3. \A n \in Nat : n <= lo => n <= lo + msg.len
        BY <1>10, <1>11
      <3>4. snd[x].inLen \in Nat /\ \A i \in 1..Len(snd[x].acks) : snd[x].acks[i].len \in Nat
        <4>1. snd[x].inLen \in Nat /\ snd[x].acks \in Seq(Ack)
          BY <1>1, LoadType
        <4>2. \A i \in 1..Len(snd[x].acks) : snd[x].acks[i] \in Ack
          BY <4>1
        <4> QED
          BY <4>1, <4>2 DEF Ack
      <3>5. Acknowledged(x)'
        BY <1>4, <1>11, <1>19, <2>1, <2>3, <3>2, <3>3, <3>4 DEF Acknowledged
      <3> QED
        BY <2>2, <2>3, <3>1, <3>5
    <2>4. CASE y # x
      <3>1. (IsDelivered(y)' <=> IsDelivered(y)) /\ Received(y)' = Received(y)
            /\ (snd[y].st # "new" => Buffer(y)' = Buffer(y))
        BY <1>20, <1>21, <2>4
      <3>2. Buffered(y)'
        BY <1>4, <1>23, <2>1, <3>1 DEF Buffered
      <3>3. Acknowledged(y)'
        BY <1>4, <1>23, <2>1, <3>1 DEF Acknowledged
      <3> QED
        BY <2>2, <3>2, <3>3
    <2> QED
      BY <2>3, <2>4
  <1>25. Fresh'
    <2> SUFFICES ASSUME NEW f \in End, NEW id \in Id, Held'[f][id] # NewIncomingTransfer
                 PROVE  \E y \in Started(Peer(f)) : snd[y].id = id
      BY <1>4, <1>23, Ends DEF Fresh
    <2>1. CASE f = e /\ id = msg.id
      BY <1>5, <1>9, <2>1
    <2>2. CASE ~(f = e /\ id = msg.id)
      <3>1. Held'[f][id] = Held[f][id]
        BY <1>5, <1>16, <2>2, Ends
      <3> QED
        BY <1>1, <3>1 DEF Fresh
    <2> QED
      BY <2>1, <2>2
  <1>26. PassedOn'
    BY <1>1, <1>4, <1>23, Ends DEF PassedOn
  <1>27. Replies'
    <2>1. /\ tm'[e].type = "ack" => AckOK(tm[e], Peer(e))'
          /\ tm'[e].type # "bundle"
      <3>1. /\ x \in Started(d)' /\ tm'[e].type = "ack" /\ tm'[e].id = snd'[x].id /\ 0 < tm'[e].len
            /\ tm'[e].len <= Received(x)'
        BY <1>4, <1>9, <1>15, <1>17, <1>19, <1>23
      <3>2. \E y \in Started(d)' : tm'[e].id = snd'[y].id /\ 0 < tm'[e].len /\ tm'[e].len <= Received(y)'
        BY <3>1
      <3> QED
        BY <1>5, <3>1, <3>2 DEF AckOK
    <2>2. /\ tm'[d].type = "ack" => AckOK(tm[d], Peer(d))'
          /\ tm'[d].type = "bundle" => Held'[d][tm'[d].id].end
      <3>1. PICK l : l = tm[d] /\ l = tm'[d]
        BY <1>17
      <3>2. l.type = "ack" => l \in Ack /\ AckOK(l, e)
        <4>1. l \in Ack \cup [type: {"bundle"}, id: Id] \cup {NoMsg}
          BY <1>1, <3>1 DEF Types
        <4>2. l.type = "ack" => l \in Ack
          BY <4>1 DEF NoMsg
        <4>3. l.type = "ack" => AckOK(l, e)
          BY <1>1, <1>5, <3>1 DEF Replies
        <4> QED
          BY <4>2, <4>3
      <3>3. l.type = "ack" => AckOK(l, e)'
        BY <1>23, <3>2
      <3>4. l.type = "bundle" => Held[d][l.id].end
        BY <1>1, <3>1 DEF Replies
      <3> QED
        BY <1>5, <1>16, <3>1, <3>3, <3>4 DEF AckOK
    <2> QED
      BY <1>5, <2>1, <2>2, Ends DEF Replies
  <1>28. ASSUME NEW f \in End, NEW m \in Message,
                m.type = "seg" => SegmentOK(m, f), m.type = "ack" => AckOK(m, Peer(f))
         PROVE  /\ m.type = "seg" => SegmentOK(m, f)'
                /\ m.type = "ack" => AckOK(m, Peer(f))'
    <2>1. m.type = "ack" => m \in Ack
      BY DEF Message, Segment
    <2> QED
      BY <1>23, <1>28, <2>1, Ends
  <1>29. Flow(d)'
    <2>1. PICK q \in Seq(Message) : q = Tail(p)
      BY <1>6
    <2>2. ASSUME NEW y \in Bundle, Source(y) = d
          PROVE  Tiles(Pipe(d), y, Received(y), snd[y].pos)'
      <3>1. CASE y = x
        BY <1>4, <1>6, <1>11, <1>12, <1>19, <3>1 DEF Tiles, Within, InSequence, Covers
      <3>2. CASE y # x
        <4>1. PICK l \in Nat, h \in Nat : l = Received(y) /\ h = snd[y].pos
          BY <1>1, LoadType
        <4>2. Tiles(p, y, l, h)
          BY <1>6, <1>7, <2>2, <4>1 DEF Flow
        <4>3. ~IsPart(Head(p), y)
          BY <1>6, <1>9, <3>2 DEF IsPart
        <4>4. Tiles(Tail(p), y, l, h)
          BY <1>6, <4>2, <4>3, TilesTailOther
        <4>5. Received(y)' = l /\ snd'[y].pos = h
          BY <1>4, <1>21, <3>2, <4>1
        <4> QED
          BY <1>6, <4>4, <4>5 DEF Tiles, Within, InSequence, Covers
      <3> QED
        BY <3>1, <3>2
    <2>3. ASSUME NEW i \in 1..Len(q)
          PROVE  /\ q[i].type = "seg" => SegmentOK(q[i], d)'
                 /\ q[i].type = "ack" => AckOK(q[i], Peer(d))'
      <3>1. PICK l \in Message : l = q[i]
        BY <2>1
      <3>2. i + 1 \in 1..Len(p) /\ l = p[i + 1]
        BY <1>6, <2>1, <3>1, TailIndex
      <3>3. /\ l.type = "seg" => SegmentOK(l, d)
            /\ l.type = "ack" => AckOK(l, Peer(d))
        BY <1>6, <1>7, <3>2 DEF Flow
      <3>4. /\ l.type = "seg" => SegmentOK(l, d)'
            /\ l.type = "ack" => AckOK(l, Peer(d))'
        BY <1>28, <3>3
      <3> QED
        BY <3>1, <3>4
    <2>4. Pipe(d)' = q
      BY <1>6, <2>1
    <2>5. \A i \in 1..Len(Pipe(d)') : /\ Pipe(d)'[i].type = "seg" => SegmentOK(Pipe(d)[i], d)'
                                      /\ Pipe(d)'[i].type = "ack" => AckOK(Pipe(d)[i], Peer(d))'
      BY <2>3, <2>4 DEF SegmentOK, AckOK
    <2> QED
      BY <1>23, <2>2, <2>5 DEF Flow
  <1>30. Flow(e)'
    <2>1. ASSUME NEW y \in Bundle, Source(y) = e
          PROVE  Tiles(Pipe(e), y, Received(y), snd[y].pos)'
      <3>1. Tiles(Pipe(e), y, Received(y), snd[y].pos)
        BY <1>7, <2>1 DEF Flow
      <3>2. Received(y)' = Received(y)
        BY <1>5, <1>9, <1>21, <2>1
      <3> QED
        BY <1>4, <1>6, <3>1, <3>2 DEF Tiles, Within, InSequence, Covers
    <2>2. ASSUME NEW i \in 1..Len(Pipe(e))
          PROVE  /\ Pipe(e)[i].type = "seg" => SegmentOK(Pipe(e)[i], e)'
                 /\ Pipe(e)[i].type = "ack" => AckOK(Pipe(e)[i], Peer(e))'
      <3>1. Pipe(e) \in Seq(Message)
        BY <1>1, PipeType
      <3>2. PICK l \in Message : l = Pipe(e)[i]
        BY <3>1
      <3>3. /\ l.type = "seg" => SegmentOK(l, e)
            /\ l.type = "ack" => AckOK(l, Peer(e))
        BY <1>7, <3>2 DEF Flow
      <3>4. /\ l.type = "seg" => SegmentOK(l, e)'
            /\ l.type = "ack" => AckOK(l, Peer(e))'
        BY <1>28, <3>3
      <3> QED
        BY <1>6, <3>2, <3>4 DEF SegmentOK, AckOK
    <2> QED
      BY <1>6, <1>23, <2>1, <2>2 DEF Flow
  <1> QED
    BY <1>5, <1>18, <1>23, <1>24, <1>25, <1>26, <1>27, <1>29, <1>30, Ends DEF IndInv

(* What is passed on is the whole bundle whose transfer has this id *)
LEMMA DeliverStep ==
    ASSUME IndInv, NEW e \in End, Deliver(e)
    PROVE  IndInv'
  <1>1. Types /\ Numbering /\ Fresh /\ PassedOn /\ Replies
    BY DEF IndInv
  <1>2. PICK id : id = tm[e].id
    OBVIOUS
  <1>3. /\ up /\ up' /\ tm[e].type = "bundle"
        /\ delivered' = [delivered EXCEPT ![e] = @ \cup {Held[e][id]}]
        /\ Held' = [Held EXCEPT ![e][id] = NewIncomingTransfer]
        /\ tm' = [tm EXCEPT ![e] = NoMsg]
        /\ UNCHANGED <<load, snd, outNextId, exOut, exIn, wire, stage, up>>
    BY <1>2 DEF Deliver, Held
  <1>4. PICK d \in End : d = Peer(e) /\ e = Peer(d) /\ d # e
    BY Ends
  <1>5. id \in Id /\ Held[e][id].end
    <2>1. tm[e] \in Ack \cup [type: {"bundle"}, id: Id] \cup {NoMsg}
      BY <1>1 DEF Types
    <2>2. tm[e] \in [type: {"bundle"}, id: Id]
      BY <1>3, <2>1 DEF Ack, NoMsg
    <2> QED
      BY <1>1, <1>2, <1>3, <2>2 DEF Replies
  <1>6. PICK x \in Bundle : x \in Started(d) /\ Source(x) = d /\ snd[x].st # "new" /\ snd[x].id = id
    <2>1. Held[e][id] # NewIncomingTransfer
      BY <1>5 DEF NewIncomingTransfer
    <2>2. PICK x \in Started(Peer(e)) : snd[x].id = id
      BY <1>1, <1>5, <2>1 DEF Fresh
    <2> QED
      BY <1>4, <2>2 DEF Started
  <1>7. PICK t : t = Held[e][id] /\ t = Buffer(x) /\ t.end
    BY <1>4, <1>5, <1>6 DEF Buffer
  <1>8. Size(x) \in Nat /\ Size(x) > 0 /\ t \in IncomingTransfer
    BY <1>1, <1>7, LoadType
  <1>9. ~IsDelivered(x) /\ t = Whole(x)
    <2>1. Buffered(x)
      BY DEF IndInv
    <2>2. ~IsDelivered(x) /\ t.ordered /\ t.of = (IF t.len = 0 THEN {} ELSE {x}) /\ t.len = Size(x)
      BY <1>6, <1>7, <2>1 DEF Buffered, NewIncomingTransfer
    <2>3. t.of = {x} /\ t.ordered = TRUE /\ t.end = TRUE
      BY <1>7, <1>8, <2>2 DEF IncomingTransfer
    <2>4. t = [of |-> t.of, len |-> t.len, ordered |-> t.ordered, end |-> t.end]
      BY <1>8 DEF IncomingTransfer
    <2> QED
      BY <2>2, <2>3, <2>4 DEF Whole
  <1>10. NewIncomingTransfer \in IncomingTransfer
    BY DEF NewIncomingTransfer, IncomingTransfer
  <1>11. /\ Held'[e][id] = NewIncomingTransfer /\ Held' \in [End -> [Id -> IncomingTransfer]]
         /\ \A i \in Id : i # id => Held'[e][i] = Held[e][i]
         /\ Held'[d] = Held[d]
    BY <1>1, <1>3, <1>4, <1>5, <1>10 DEF Types
  <1>12. /\ delivered'[e] = delivered[e] \cup {Whole(x)} /\ delivered'[d] = delivered[d]
         /\ delivered' \in [End -> SUBSET IncomingTransfer]
    BY <1>1, <1>3, <1>4, <1>7, <1>8, <1>9 DEF Types
  <1>13. /\ tm'[e] = NoMsg /\ tm'[d] = tm[d] /\ tm' \in [End -> Ack \cup [type: {"bundle"}, id: Id] \cup {NoMsg}]
    BY <1>1, <1>3, <1>4 DEF Types
  <1>14. Types'
    BY <1>1, <1>3, <1>11, <1>12, <1>13 DEF Types
  <1>15. Buffer(x)' = NewIncomingTransfer /\ IsDelivered(x)' /\ Received(x)' = Size(x) /\ Received(x) = Size(x)
    <2>1. Buffer(x)' = NewIncomingTransfer
      BY <1>3, <1>4, <1>6, <1>11 DEF Buffer, Source, Peer
    <2>2. IsDelivered(x)'
      BY <1>3, <1>4, <1>6, <1>12 DEF IsDelivered, Source, Peer, Whole, Size
    <2>3. Received(x)' = Size(x)
      BY <1>3, <1>6, <2>2 DEF Received, Size
    <2>4. Received(x) = Size(x)
      BY <1>6, <1>7, <1>9 DEF Received, Whole
    <2> QED
      BY <2>1, <2>2, <2>3, <2>4
  <1>16. ASSUME NEW y \in Bundle, y # x, snd[y].st # "new"
         PROVE  Buffer(y)' = Buffer(y)
    <2>1. Source(y) \in End /\ snd[y].id \in Id
      BY <1>1, LoadType
    <2>2. CASE Source(y) = d
      <3>1. snd[y].id # id
        BY <1>1, <1>6, <1>16, <2>2 DEF Numbering, Started
      <3> QED
        BY <1>3, <1>4, <1>11, <2>1, <2>2, <3>1 DEF Buffer, Source, Peer
    <2>3. CASE Source(y) = e
      BY <1>3, <1>4, <1>11, <2>3 DEF Buffer, Source, Peer
    <2> QED
      BY <1>4, <2>1, <2>2, <2>3, Ends
  <1>17. ASSUME NEW y \in Bundle, y # x
         PROVE  (IsDelivered(y)' <=> IsDelivered(y)) /\ Received(y)' = Received(y)
    <2>1. Whole(y) # Whole(x) /\ Whole(y)' = Whole(y) /\ Source(y)' = Source(y)
      <3>1. Whole(y).of # Whole(x).of
        BY <1>17 DEF Whole
      <3> QED
        BY <1>3, <3>1 DEF Whole, Size, Source
    <2>2. PICK f \in End : f = Peer(Source(y))
      BY <1>1, LoadType
    <2>3. Whole(y) \in delivered'[f] <=> Whole(y) \in delivered[f]
      BY <1>4, <1>12, <2>1, Ends
    <2>4. IsDelivered(y)' <=> IsDelivered(y)
      BY <2>1, <2>2, <2>3 DEF IsDelivered, Peer
    <2> QED
      BY <1>3, <1>16, <1>17, <2>4 DEF Received, Size
  <1>18. \A y \in Bundle : Received(y)' = Received(y) /\ Received(y) <= Received(y)'
    <2>1. \A y \in Bundle : Received(y) \in Nat
      BY <1>1, LoadType
    <2> QED
      BY <1>15, <1>17, <2>1
  <1>19. /\ \A y : Source(y)' = Source(y) /\ Size(y)' = Size(y) /\ Whole(y)' = Whole(y)
         /\ \A f \in End : Started(f)' = Started(f)
         /\ \A m \in Ack : \A f \in End : AckOK(m, f) => AckOK(m, f)'
         /\ \A m : \A f \in End : SegmentOK(m, f) => SegmentOK(m, f)'
         /\ Numbering'
    BY <1>1, <1>3, <1>14, <1>18, MoreReceived
  <1>20. ASSUME NEW y \in Bundle
         PROVE  Sender(y)' /\ Buffered(y)' /\ Acknowledged(y)'
    <2>1. Sender(y) /\ Buffered(y) /\ Acknowledged(y)
      BY DEF IndInv
    <2>2. Sender(y)' /\ Acknowledged(y)'
      BY <1>3, <1>18, <1>19, <2>1 DEF Sender, Acknowledged
    <2>3. CASE y = x
      <3>1. Received(x)' <= snd'[x].pos
        BY <1>3, <1>18, <2>1, <2>3 DEF Buffered
      <3>2. Buffered(x)'
        BY <1>15, <3>1 DEF Buffered
      <3> QED
        BY <2>2, <2>3, <3>2
    <2>4. CASE y # x
      <3>1. (IsDelivered(y)' <=> IsDelivered(y)) /\ Received(y)' = Received(y)
            /\ (snd[y].st # "new" => Buffer(y)' = Buffer(y))
        BY <1>16, <1>17, <2>4
      <3>2. Buffered(y)'
        BY <1>3, <1>19, <2>1, <3>1 DEF Buffered
      <3> QED
        BY <2>2, <3>2
    <2> QED
      BY <2>3, <2>4
  <1>21. Fresh'
    <2> SUFFICES ASSUME NEW f \in End, NEW i \in Id, Held'[f][i] # NewIncomingTransfer
                 PROVE  \E y \in Started(Peer(f)) : snd[y].id = i
      BY <1>3, <1>19, Ends DEF Fresh
    <2>1. Held'[f][i] = Held[f][i]
      BY <1>4, <1>11, Ends
    <2> QED
      BY <1>1, <2>1 DEF Fresh
  <1>22. PassedOn'
    <2> SUFFICES ASSUME NEW f \in End, NEW u \in delivered'[f]
                 PROVE  \E y \in Started(Peer(f)) : u = Whole(y)
      BY <1>19, Ends DEF PassedOn
    <2>1. CASE u \in delivered[f]
      BY <1>1, <2>1 DEF PassedOn
    <2>2. CASE u \notin delivered[f]
      <3>1. f = e /\ u = Whole(x)
        BY <1>4, <1>12, <2>2, Ends
      <3> QED
        BY <1>4, <1>6, <3>1
    <2> QED
      BY <2>1, <2>2
  <1>23. Replies'
    <2>1. tm'[e].type # "ack" /\ tm'[e].type # "bundle"
      BY <1>13 DEF NoMsg
    <2>2. /\ tm'[d].type = "ack" => AckOK(tm[d], Peer(d))'
          /\ tm'[d].type = "bundle" => Held'[d][tm'[d].id].end
      <3>1. PICK l : l = tm[d] /\ l = tm'[d]
        BY <1>13
      <3>2. l.type = "ack" => l \in Ack /\ AckOK(l, e)
        <4>1. l \in Ack \cup [type: {"bundle"}, id: Id] \cup {NoMsg}
          BY <1>1, <3>1 DEF Types
        <4>2. l.type = "ack" => l \in Ack
          BY <4>1 DEF NoMsg
        <4>3. l.type = "ack" => AckOK(l, e)
          BY <1>1, <1>4, <3>1 DEF Replies
        <4> QED
          BY <4>2, <4>3
      <3>3. l.type = "ack" => AckOK(l, e)'
        BY <1>19, <3>2
      <3>4. l.type = "bundle" => Held[d][l.id].end
        BY <1>1, <3>1 DEF Replies
      <3> QED
        BY <1>4, <1>11, <3>1, <3>3, <3>4 DEF AckOK
    <2> QED
      BY <1>4, <2>1, <2>2, Ends DEF Replies
  <1>24. ASSUME NEW f \in End
         PROVE  Flow(f)'
    <2>1. Flow(f) /\ Pipe(f)' = Pipe(f)
      BY <1>3 DEF IndInv, Pipe, InHand, OutHand, Peer
    <2>2. ASSUME NEW y \in Bundle, Source(y) = f
          PROVE  Tiles(Pipe(f), y, Received(y), snd[y].pos)'
      <3>1. Tiles(Pipe(f), y, Received(y), snd[y].pos)
        BY <2>1, <2>2 DEF Flow
      <3>2. Received(y)' = Received(y)
        BY <1>18
      <3> QED
        BY <1>3, <2>1, <3>1, <3>2 DEF Tiles, Within, InSequence, Covers
    <2>3. ASSUME NEW i \in 1..Len(Pipe(f))
          PROVE  /\ Pipe(f)[i].type = "seg" => SegmentOK(Pipe(f)[i], f)'
                 /\ Pipe(f)[i].type = "ack" => AckOK(Pipe(f)[i], Peer(f))'
      <3>1. Pipe(f) \in Seq(Message)
        BY <1>1, PipeType
      <3>2. PICK l \in Message : l = Pipe(f)[i]
        BY <3>1
      <3>3. /\ l.type = "seg" => SegmentOK(l, f)
            /\ l.type = "ack" => AckOK(l, Peer(f))
        BY <2>1, <3>2 DEF Flow
      <3>4. l.type = "ack" => l \in Ack
        BY DEF Message, Segment
      <3>5. /\ l.type = "seg" => SegmentOK(l, f)'
            /\ l.type = "ack" => AckOK(l, Peer(f))'
        BY <1>19, <3>3, <3>4, Ends
      <3> QED
        BY <2>1, <3>2, <3>5 DEF SegmentOK, AckOK
    <2> QED
      BY <1>19, <2>1, <2>2, <2>3 DEF Flow
  <1> QED
    BY <1>14, <1>19, <1>20, <1>21, <1>22, <1>23, <1>24 DEF IndInv
-----------------------------------------------------------------------------

LEMMA InitHolds == Init => IndInv
  <1> SUFFICES ASSUME Init
               PROVE  IndInv
    OBVIOUS
  <1>1. /\ load \in Load /\ load \in Loads
    BY LoadAssumption DEF Init
  <1>2. ASSUME NEW x \in Bundle
        PROVE  0 \in Id
    <2>1. Cardinality(Bundle) \in Nat /\ Cardinality(Bundle) # 0
      BY BundleAssumption, FS_CardinalityType, FS_EmptySet
    <2> QED
      BY <2>1 DEF Id
  <1>3. Types
    <2>1. snd \in [Bundle -> SendState]
      BY <1>2 DEF Init, SendState
    <2>2. NewIncomingTransfer \in IncomingTransfer /\ <<>> \in Seq(Message)
      BY DEF NewIncomingTransfer, IncomingTransfer
    <2>3. /\ exOut \in [End -> Seq(Message)] /\ exIn \in [End -> Seq(Message)] /\ wire \in [End -> Seq(Message)]
          /\ outNextId \in [End -> Nat] /\ Held \in [End -> [Id -> IncomingTransfer]]
      BY <2>2 DEF Init, Held
    <2>4. /\ stage \in [End -> [dir: {"none", "in", "out"}, msg: Message \cup {NoMsg}]]
          /\ \A e \in End : stage[e].dir # "none" => stage[e].msg \in Message
      BY DEF Init
    <2>5. /\ tm \in [End -> Ack \cup [type: {"bundle"}, id: Id] \cup {NoMsg}]
          /\ delivered \in [End -> SUBSET IncomingTransfer] /\ up \in BOOLEAN
      BY DEF Init
    <2> QED
      BY <1>1, <2>1, <2>3, <2>4, <2>5 DEF Types
  <1>4. \A e \in End : Started(e) = {}
    BY DEF Init, Started
  <1>5. Numbering
    <2>1. \A e \in End : outNextId[e] = 0
      BY DEF Init
    <2> QED
      BY <1>4, <2>1, FS_EmptySet DEF Numbering
  <1>6. ASSUME NEW x \in Bundle
        PROVE  /\ snd[x].st = "new" /\ snd[x].pos = 0 /\ snd[x].acks = <<>> /\ snd[x].g = "idle"
               /\ snd[x].outLen = 0 /\ snd[x].inLen = 0 /\ Received(x) = 0
    BY DEF Init, Received
  <1>7. ASSUME NEW x \in Bundle
        PROVE  Sender(x) /\ Buffered(x) /\ Acknowledged(x)
    BY <1>3, <1>6, LoadType DEF Sender, Buffered, Acknowledged
  <1>8. Fresh /\ PassedOn /\ Replies
    BY DEF Init, Fresh, PassedOn, Replies, NoMsg, Held
  <1>9. ASSUME NEW e \in End
        PROVE  Flow(e)
    <2>1. Pipe(e) = <<>>
      <3>1. /\ exIn[Peer(e)] = <<>> /\ wire[Peer(e)] = <<>> /\ exOut[e] = <<>>
            /\ InHand(Peer(e)) = <<>> /\ OutHand(e) = <<>>
        BY Ends DEF Init, InHand, OutHand
      <3>2. <<>> \o <<>> = <<>>
        OBVIOUS
      <3> QED
        BY <3>1, <3>2 DEF Pipe
    <2>2. \A x \in Bundle : Tiles(Pipe(e), x, Received(x), snd[x].pos)
      BY <1>6, <2>1, TilesEmpty
    <2>3. Len(Pipe(e)) = 0
      BY <2>1
    <2> QED
      BY <2>2, <2>3 DEF Flow
  <1> QED
    BY <1>3, <1>5, <1>7, <1>8, <1>9 DEF IndInv

LEMMA NextHolds == IndInv /\ [Next]_vars => IndInv'
  <1> SUFFICES ASSUME IndInv, [Next]_vars
               PROVE  IndInv'
    OBVIOUS
  <1>1. ASSUME NEW x \in Bundle, Send(x) \/ Sending(x) \/ Timeout(x)
        PROVE  IndInv'
    BY <1>1, SendBegins, SendingStep, SendPutStep DEF Sending
  <1>2. ASSUME NEW e \in End, Stage(e)
        PROVE  IndInv'
    BY <1>2, StageStep
  <1>3. ASSUME NEW e \in End, handle(e)
        PROVE  IndInv'
    BY <1>3, AckStep, SegmentStep, ReplyStep, DeliverStep DEF handle
  <1>4. ASSUME NEW e \in End, handleKeepalive(e)
        PROVE  IndInv'
    BY <1>4, EndStep DEF handleKeepalive
  <1>5. CASE Drop
    BY <1>5, EndStep DEF Drop
  <1>6. CASE UNCHANGED vars
    <2>1. Types' /\ \A f \in End : Pipe(f)' = Pipe(f)
      BY <1>6 DEF vars, IndInv, Types, Pipe, InHand, OutHand, Peer, Held
    <2> QED
      BY <1>6, <2>1, Moved DEF vars, Held
  <1> QED
    BY <1>1, <1>2, <1>3, <1>4, <1>5, <1>6 DEF Next

LEMMA Transfers == Spec => []IndInv
  BY InitHolds, NextHolds, PTL DEF Spec

(* Whatever is passed on as a bundle by client.handle is one whole bundle  *)
(* of the peer, in order: however many transfers are interleaved, with any *)
(* length, segment size and channel capacity.                              *)
THEOREM Undamaged == Spec => []Intact
  <1>1. IndInv => Intact
    <2> SUFFICES ASSUME IndInv, NEW e \in End, NEW t \in delivered[e]
                 PROVE  \E x \in Bundle : Source(x) # e /\ t = Whole(x)
      BY DEF Intact
    <2>1. PICK x \in Started(Peer(e)) : t = Whole(x)
      BY DEF IndInv, PassedOn
    <2> QED
      BY <2>1, Ends DEF Started
  <1> QED
    BY <1>1, Transfers, PTL
-----------------------------------------------------------------------------
(* Send's answer, when no bundle fills its last segment *)

NoneFits == \A l \in Loads : \A x \in Bundle : \A k \in Nat : l.size[x] # k * Mtu

(* The goroutine of Send is at the beginning of a segment or at the end *)
Cut(x) == snd[x].pos = Size(x) \/ \E k \in Nat : snd[x].pos = k * Mtu

(* The segment with the last byte is marked as the last *)
LastOK(m) == m.type = "seg" /\ m.pos + m.len = Size(m.of) => m.end

(* A complete buffer is known to be complete *)
Closed(x) == snd[x].st # "new" /\ Buffer(x).len = Size(x) => Buffer(x).end

MarkInv ==
    /\ \A x \in Bundle : Cut(x) /\ Closed(x)
    /\ up => \A e \in End : \A i \in 1..Len(Pipe(e)) : LastOK(Pipe(e)[i])

LEMMA LastKept ==
    ASSUME Types, load' = load, NEW e \in End,
           \A i \in 1..Len(Pipe(e)) : LastOK(Pipe(e)[i]),
           \/ Pipe(e)' = Pipe(e)
           \/ Pipe(e) # <<>> /\ Pipe(e)' = Tail(Pipe(e))
           \/ \E m \in Message : LastOK(m) /\ Pipe(e)' = Append(Pipe(e), m)
    PROVE  \A i \in 1..Len(Pipe(e)') : LastOK(Pipe(e)[i])'
  <1>1. PICK p \in Seq(Message) : p = Pipe(e)
    BY PipeType
  <1>2. PICK q : q = Pipe(e)'
    OBVIOUS
  <1>3. \A m : LastOK(m) => LastOK(m)'
    BY DEF LastOK, Size
  <1>4. ASSUME NEW i \in 1..Len(q)
        PROVE  LastOK(q[i])
    <2>1. CASE q = p
      BY <1>1, <2>1
    <2>2. CASE p # <<>> /\ q = Tail(p)
      BY <1>1, <2>2, TailIndex
    <2>3. ASSUME NEW m \in Message, LastOK(m), q = Append(p, m)
          PROVE  LastOK(q[i])
      <3>1. (i \in 1..Len(p) /\ q[i] = p[i]) \/ q[i] = m
        BY <2>3, AppendIndex
      <3> QED
        BY <1>1, <2>3, <3>1
    <2> QED
      BY <1>1, <1>2, <2>1, <2>2, <2>3
  <1>5. \A i \in 1..Len(q) : LastOK(q[i])'
    <2> SUFFICES ASSUME NEW i \in 1..Len(q)
                 PROVE  LastOK(q[i])'
      OBVIOUS
    <2>1. PICK m : m = q[i]
      OBVIOUS
    <2>2. LastOK(m)'
      BY <1>3, <1>4, <2>1
    <2> QED
      BY <2>1, <2>2
  <1> QED
    BY <1>2, <1>5 DEF LastOK

(* No Send advances, and no buffer changes *)
LEMMA MarkSame ==
    ASSUME IndInv, MarkInv, Same, \A x \in Bundle : snd'[x].pos = snd[x].pos,
           up' => /\ up
                  /\ \A e \in End :
                       \/ Pipe(e)' = Pipe(e)
                       \/ Pipe(e) # <<>> /\ Pipe(e)' = Tail(Pipe(e))
                       \/ \E m \in Message : LastOK(m) /\ Pipe(e)' = Append(Pipe(e), m)
    PROVE  MarkInv'
  <1>1. ASSUME NEW x \in Bundle
        PROVE  Cut(x)' /\ Closed(x)'
    <2>1. Size(x)' = Size(x) /\ Buffer(x)' = Buffer(x)
      BY SameSends
    <2>2. Cut(x) /\ Closed(x)
      BY DEF MarkInv
    <2> QED
      BY <2>1, <2>2 DEF Cut, Closed, Same
  <1>2. ASSUME NEW e \in End, up'
        PROVE  \A i \in 1..Len(Pipe(e)') : LastOK(Pipe(e)[i])'
    <2>1. \A i \in 1..Len(Pipe(e)) : LastOK(Pipe(e)[i])
      BY <1>2 DEF MarkInv
    <2>2. Types /\ load' = load
      BY DEF IndInv, Same
    <2> QED
      BY <1>2, <2>1, <2>2, LastKept
  <1> QED
    BY <1>1, <1>2 DEF MarkInv

LEMMA StageMark ==
    ASSUME IndInv, MarkInv, NEW e \in End, Stage(e)
    PROVE  MarkInv'
  <1>1. /\ UNCHANGED <<load, snd, Held, delivered, up>>
        /\ \A f \in End : Pipe(f)' = Pipe(f)
    BY TakeOutPipe, TakeInPipe, MessageOutPipe, MsgInPipe
       DEF IndInv, Stage, StageTakeOut, StageTakeIn, messageOut, handleMsgIn, Held
  <1>2. Same
    BY <1>1 DEF Same
  <1> QED
    BY <1>1, <1>2, MarkSame

LEMMA EndMark ==
    ASSUME IndInv, MarkInv, up, Ended, UNCHANGED <<load, snd, delivered>>
    PROVE  MarkInv'
  <1>1. Same /\ ~up'
    BY DEF Same, Ended, Held
  <1> QED
    BY <1>1, MarkSame

LEMMA SendingMark ==
    ASSUME IndInv, MarkInv, NEW x \in Bundle,
           SendNext(x) \/ SendLen(x) \/ SendErr(x) \/ SendAck(x) \/ Timeout(x)
    PROVE  MarkInv'
  <1>1. Types /\ Sender(x)
    BY DEF IndInv
  <1>2. UNCHANGED <<load, exOut, exIn, wire, stage, Held, delivered, up>>
    BY DEF SendNext, SendLen, SendErr, SendAck, Timeout, Held
  <1>3. \A f \in End : Pipe(f)' = Pipe(f)
    BY <1>2 DEF Pipe, InHand, OutHand, Peer
  <1>4. snd[x].st # "new" /\ snd[x] \in SendState
    BY <1>1 DEF Sender, Types, SendNext, SendLen, SendErr, SendAck, Timeout
  <1>5. /\ snd'[x].id = snd[x].id /\ snd'[x].pos = snd[x].pos /\ snd'[x].st # "new"
        /\ \A y \in Bundle : y # x => snd'[y] = snd[y]
    <2>1. CASE SendNext(x)
      BY <1>1, <1>4, <2>1 DEF SendNext, SendState, Types
    <2>2. CASE SendLen(x)
      BY <1>1, <1>4, <2>2 DEF SendLen, SendState, Types
    <2>3. CASE SendErr(x)
      BY <1>1, <1>4, <2>3 DEF SendErr, SendState, Types
    <2>4. CASE SendAck(x)
      BY <1>1, <1>4, <2>4 DEF SendAck, SendState, Types
    <2>5. CASE Timeout(x)
      BY <1>1, <1>4, <2>5 DEF Timeout, SendState, Types
    <2> QED
      BY <2>1, <2>2, <2>3, <2>4, <2>5
  <1>6. Same
    BY <1>2, <1>4, <1>5 DEF Same
  <1> QED
    BY <1>2, <1>3, <1>5, <1>6, MarkSame

(* Its buffer is empty, because nothing was sent of it *)
LEMMA SendMark ==
    ASSUME IndInv, IndInv', MarkInv, NEW x \in Bundle, Send(x)
    PROVE  MarkInv'
  <1>1. Types /\ Sender(x)
    BY DEF IndInv
  <1>2. /\ snd[x].st = "new" /\ snd[x].pos = 0
        /\ UNCHANGED <<load, exOut, exIn, wire, stage, Held, delivered, up>>
    BY <1>1 DEF Send, Sender, Held
  <1>3. /\ snd'[x].pos = 0 /\ snd'[x].st = "run"
        /\ \A y \in Bundle : y # x => snd'[y] = snd[y]
    BY <1>1, <1>2 DEF Send, Types, SendState
  <1>4. \A y \in Bundle : Size(y)' = Size(y)
    BY <1>2 DEF Size
  <1>5. ASSUME NEW y \in Bundle
        PROVE  Cut(y)' /\ Closed(y)'
    <2>1. Cut(y) /\ Closed(y) /\ Cut(x)
      BY DEF MarkInv
    <2>2. CASE y = x
      <3>1. Cut(x)'
        BY <1>2, <1>3, <1>4, <2>1 DEF Cut
      <3>2. Size(x)' \in Nat /\ Size(x)' > 0
        BY <1>1, <1>4, LoadType
      <3>3. Received(x)' <= 0 /\ Received(x)' \in Nat
        <4>1. Buffered(x)' /\ Types'
          BY DEF IndInv
        <4> QED
          BY <1>3, <4>1, ReceivedType DEF Buffered
      <3>4. Buffer(x)'.len # Size(x)'
        <4>1. CASE IsDelivered(x)'
          BY <1>3, <3>2, <3>3, <4>1 DEF Received
        <4>2. CASE ~IsDelivered(x)'
          BY <1>3, <3>2, <3>3, <4>2 DEF Received
        <4> QED
          BY <4>1, <4>2
      <3> QED
        BY <2>2, <3>1, <3>4 DEF Closed
    <2>3. CASE y # x
      <3>1. Buffer(y)' = Buffer(y) /\ snd'[y] = snd[y]
        BY <1>2, <1>3, <2>3 DEF Buffer, Source, Peer
      <3> QED
        BY <1>4, <2>1, <3>1 DEF Cut, Closed
    <2> QED
      BY <2>2, <2>3
  <1>6. ASSUME NEW e \in End, up'
        PROVE  \A i \in 1..Len(Pipe(e)') : LastOK(Pipe(e)[i])'
    <2>1. Pipe(e)' = Pipe(e) /\ \A i \in 1..Len(Pipe(e)) : LastOK(Pipe(e)[i])
      BY <1>2, <1>6 DEF MarkInv, Pipe, InHand, OutHand, Peer
    <2> QED
      BY <1>1, <1>2, <2>1, LastKept
  <1> QED
    BY <1>5, <1>6 DEF MarkInv

(* The next segment is a whole one, or the marked rest *)
LEMMA SendPutMark ==
    ASSUME NoneFits, IndInv, MarkInv, NEW x \in Bundle, SendPut(x)
    PROVE  MarkInv'
  <1>1. Types /\ Sender(x)
    BY DEF IndInv
  <1>2. PICK e \in End : e = Source(x)
    BY <1>1, LoadType
  <1>3. PICK m : m = NextSegment(x)
    OBVIOUS
  <1>4. /\ snd[x].g = "put"
        /\ exOut' = [exOut EXCEPT ![e] = Append(@, m)]
        /\ snd' = [snd EXCEPT ![x].g = "next", ![x].pos = @ + m.len]
        /\ UNCHANGED <<load, exIn, wire, stage, Held, delivered, up>>
    BY <1>2, <1>3 DEF SendPut, Held
  <1>5. /\ m \in Message /\ m.of = x /\ m.pos = snd[x].pos /\ m.len \in Nat
        /\ m.end => snd[x].pos + m.len = Size(x)
        /\ m.len = Mtu \/ m.end
    BY <1>3, <1>4, NextSegmentType DEF Message, IsPart
  <1>6. snd[x] \in SendState /\ snd[x].pos \in Nat /\ Size(x) \in Nat /\ snd[x].pos < Size(x) /\ snd[x].st # "new"
    BY <1>1, <1>4, LoadType DEF Sender
  <1>7. PICK k \in Nat : snd[x].pos = k * Mtu
    BY <1>6 DEF MarkInv, Cut
  <1>8. /\ k * Mtu + Mtu = (k + 1) * Mtu /\ k + 1 \in Nat
        /\ \A j \in Nat : Size(x) # j * Mtu
    <2>1. k * Mtu + Mtu = (k + 1) * Mtu
      BY LoadAssumption
    <2>2. \A j \in Nat : Size(x) # j * Mtu
      BY <1>1 DEF Types, NoneFits, Size
    <2> QED
      BY <2>1, <2>2
  <1>9. LastOK(m)
    BY <1>5, <1>7, <1>8 DEF LastOK
  <1>10. /\ snd'[x].pos = snd[x].pos + m.len /\ snd'[x].id = snd[x].id /\ snd'[x].st = snd[x].st
         /\ \A y \in Bundle : y # x => snd'[y] = snd[y]
    BY <1>1, <1>4, <1>6 DEF Types, SendState
  <1>11. Same
    BY <1>4, <1>10 DEF Same
  <1>12. ASSUME NEW y \in Bundle
         PROVE  Cut(y)' /\ Closed(y)'
    <2>1. Size(y)' = Size(y) /\ Buffer(y)' = Buffer(y)
      BY <1>11, SameSends
    <2>2. Cut(y) /\ Closed(y)
      BY DEF MarkInv
    <2>3. Closed(y)'
      BY <1>11, <2>1, <2>2 DEF Closed, Same
    <2>4. CASE y = x
      <3>1. snd'[x].pos = Size(x) \/ snd'[x].pos = (k + 1) * Mtu
        BY <1>5, <1>7, <1>8, <1>10
      <3>2. Cut(x)'
        BY <1>8, <2>1, <2>4, <3>1 DEF Cut
      <3> QED
        BY <2>3, <2>4, <3>2
    <2>5. CASE y # x
      BY <1>10, <2>1, <2>2, <2>3, <2>5 DEF Cut
    <2> QED
      BY <2>4, <2>5
  <1>13. Pipe(e)' = Append(Pipe(e), m) /\ Pipe(Peer(e))' = Pipe(Peer(e))
    BY <1>1, <1>4, <1>5, PutPipe
  <1>14. ASSUME NEW f \in End, up'
         PROVE  \A i \in 1..Len(Pipe(f)') : LastOK(Pipe(f)[i])'
    <2>1. \A i \in 1..Len(Pipe(f)) : LastOK(Pipe(f)[i])
      BY <1>4, <1>14 DEF MarkInv
    <2>2. CASE f = e
      BY <1>1, <1>4, <1>5, <1>9, <1>13, <2>1, <2>2, LastKept
    <2>3. CASE f = Peer(e)
      BY <1>1, <1>4, <1>13, <2>1, <2>3, LastKept
    <2> QED
      BY <2>2, <2>3, Ends
  <1> QED
    BY <1>12, <1>14 DEF MarkInv

LEMMA AckMark ==
    ASSUME IndInv, MarkInv, NEW e \in End, HandleAck(e) \/ HandleReply(e)
    PROVE  MarkInv'
  <1>1. Types
    BY DEF IndInv
  <1>2. CASE HandleReply(e)
    <2>1. PICK m : m = tm[e]
      OBVIOUS
    <2>2. /\ m.type = "ack" /\ exOut' = [exOut EXCEPT ![e] = Append(@, m)]
          /\ UNCHANGED <<load, snd, exIn, wire, stage, Held, delivered, up>>
      BY <1>2, <2>1 DEF HandleReply, Held
    <2>3. m \in Message
      <3>1. m \in Ack \cup [type: {"bundle"}, id: Id] \cup {NoMsg}
        BY <1>1, <2>1 DEF Types
      <3> QED
        BY <2>2, <3>1 DEF NoMsg, Message
    <2>4. Same /\ LastOK(m)
      BY <2>2 DEF Same, LastOK
    <2>5. Pipe(e)' = Append(Pipe(e), m) /\ Pipe(Peer(e))' = Pipe(Peer(e))
      BY <1>1, <2>2, <2>3, PutPipe
    <2> QED
      BY <2>2, <2>3, <2>4, <2>5, MarkSame, Ends
  <1>3. CASE HandleAck(e)
    <2> PICK msg, waiting : msg = Head(exIn[e]) /\ waiting = Waiting(e, msg.id)
      OBVIOUS
    <2>1. UNCHANGED <<load, exOut, delivered>> /\ exIn[e] # <<>> /\ up
      BY <1>3 DEF HandleAck
    <2>2. CASE Ended /\ UNCHANGED snd
      BY <2>1, <2>2, EndMark
    <2>3. CASE /\ exIn' = [exIn EXCEPT ![e] = Tail(@)]
               /\ snd' = [x \in Bundle |-> IF x \in waiting
                                           THEN [snd[x] EXCEPT !.acks = Append(@, msg)] ELSE snd[x]]
               /\ UNCHANGED <<wire, stage, tm, inTransfers, lost, up>>
      <3>1. \A x \in Bundle : snd'[x].id = snd[x].id /\ snd'[x].st = snd[x].st /\ snd'[x].pos = snd[x].pos
        BY <1>1, <2>3 DEF Types, SendState
      <3>2. Same
        <4>1. Held' = Held
          BY <2>3 DEF Held
        <4> QED
          BY <2>1, <3>1, <4>1 DEF Same
      <3>3. UNCHANGED <<exOut, wire, stage>>
        BY <2>1, <2>3
      <3>4. Pipe(Peer(e)) # <<>> /\ Pipe(Peer(e))' = Tail(Pipe(Peer(e))) /\ Pipe(e)' = Pipe(e)
        BY <1>1, <2>1, <2>3, <3>3, ReadPipe
      <3>5. \A f \in End : Pipe(f)' = Pipe(f) \/ (Pipe(f) # <<>> /\ Pipe(f)' = Tail(Pipe(f)))
        BY <3>4, Ends
      <3> QED
        BY <2>1, <2>3, <3>1, <3>2, <3>5, MarkSame
    <2> QED
      BY <1>3, <2>2, <2>3 DEF HandleAck
  <1> QED
    BY <1>2, <1>3

(* The segment that completes the buffer is the marked one *)
LEMMA SegmentMark ==
    ASSUME IndInv, IndInv', MarkInv, NEW e \in End, HandleSegment(e)
    PROVE  MarkInv'
  <1>1. Types /\ Numbering /\ Types'
    BY DEF IndInv
  <1>2. PICK msg, t : msg = Head(exIn[e]) /\ t = Held[e][msg.id]
    OBVIOUS
  <1>3. PICK b : b = [of |-> t.of \cup {msg.of}, len |-> t.len + msg.len,
                      ordered |-> t.ordered /\ msg.pos = t.len, end |-> msg.end]
    OBVIOUS
  <1>4. /\ up /\ up' /\ exIn[e] # <<>> /\ msg.type = "seg" /\ ~t.end
        /\ exIn' = [exIn EXCEPT ![e] = Tail(@)]
        /\ Held' = [Held EXCEPT ![e][msg.id] = b]
        /\ UNCHANGED <<load, snd, outNextId, exOut, wire, stage, delivered, up>>
    BY <1>2, <1>3 DEF HandleSegment, Held
  <1>5. PICK d \in End : d = Peer(e) /\ e = Peer(d) /\ d # e
    BY Ends
  <1>6. PICK p \in Seq(Message) : p = Pipe(d) /\ p # <<>> /\ Head(p) = msg /\ Pipe(d)' = Tail(p) /\ Pipe(e)' = Pipe(e)
    <2>1. UNCHANGED <<exOut, wire, stage>>
      BY <1>4
    <2>2. Pipe(d) # <<>> /\ Head(Pipe(d)) = msg /\ Pipe(d)' = Tail(Pipe(d)) /\ Pipe(e)' = Pipe(e)
      BY <1>1, <1>2, <1>4, <1>5, <2>1, ReadPipe
    <2>3. Pipe(d) \in Seq(Message)
      BY <1>1, PipeType
    <2> QED
      BY <2>2, <2>3
  <1>7. msg \in Message /\ SegmentOK(msg, d) /\ LastOK(msg)
    <2>1. 1 \in 1..Len(p) /\ p[1] = msg /\ msg \in Message
      BY <1>6, TailIndex
    <2>2. Flow(d) /\ LastOK(Pipe(d)[1])
      BY <1>4, <1>6, <2>1 DEF IndInv, MarkInv
    <2> QED
      BY <1>4, <1>6, <2>1, <2>2 DEF Flow
  <1>8. PICK x \in Bundle : x = msg.of /\ x \in Started(d) /\ Source(x) = d /\ snd[x].st # "new" /\ msg.id = snd[x].id
    BY <1>7 DEF SegmentOK, Started
  <1>9. \A y \in Bundle : Size(y)' = Size(y) /\ Source(y)' = Source(y)
    BY <1>4 DEF Size, Source
  <1>10. snd[x].id \in Id /\ t \in IncomingTransfer /\ msg \in Segment
    <2>1. snd[x].id \in Id
      BY <1>1, LoadType
    <2>2. t \in IncomingTransfer
      <3>1. Held[e][msg.id] \in IncomingTransfer
        BY <1>1, <1>8, <2>1 DEF Types
      <3>2. t = Held[e][msg.id]
        BY <1>2
      <3> QED
        BY <3>1, <3>2
    <2>3. msg \in Segment
      BY <1>4, <1>7 DEF Message, Ack
    <2> QED
      BY <2>1, <2>2, <2>3
  <1>11. /\ Held'[e][msg.id] = b
         /\ \A id \in Id : id # msg.id => Held'[e][id] = Held[e][id]
         /\ Held'[d] = Held[d]
    BY <1>1, <1>4, <1>5, <1>8, <1>10 DEF Types
  <1>12. Closed(x)'
    <2>1. Buffer(x)' = b
      BY <1>4, <1>5, <1>8, <1>11 DEF Buffer, Source, Peer
    <2>2. b.len = t.len + msg.len /\ b.ordered = (t.ordered /\ msg.pos = t.len) /\ b.end = msg.end
      BY <1>3
    <2>3. t.len \in Nat /\ msg.len \in Nat /\ msg.len > 0 /\ msg.pos \in Nat
      BY <1>10, LoadAssumption DEF IncomingTransfer, Segment
    <2>4. b # NewIncomingTransfer
      BY <2>2, <2>3 DEF NewIncomingTransfer
    <2>5. b.ordered
      <3>1. Buffered(x)'
        BY DEF IndInv
      <3> QED
        BY <1>4, <1>8, <2>1, <2>4, <3>1 DEF Buffered
    <2>6. msg.pos + msg.len = Size(x) => msg.end
      BY <1>4, <1>7, <1>8 DEF LastOK
    <2> QED
      BY <1>9, <2>1, <2>2, <2>5, <2>6 DEF Closed
  <1>13. ASSUME NEW y \in Bundle, y # x, snd[y].st # "new"
         PROVE  Buffer(y)' = Buffer(y)
    <2>1. Source(y) \in End /\ snd[y].id \in Id
      BY <1>1, LoadType
    <2>2. CASE Source(y) = d
      <3>1. snd[y].id # msg.id
        BY <1>1, <1>8, <1>13, <2>2 DEF Numbering, Started
      <3> QED
        BY <1>4, <1>5, <1>11, <2>1, <2>2, <3>1 DEF Buffer, Source, Peer
    <2>3. CASE Source(y) = e
      BY <1>4, <1>5, <1>11, <2>3 DEF Buffer, Source, Peer
    <2> QED
      BY <1>5, <2>1, <2>2, <2>3, Ends
  <1>14. ASSUME NEW y \in Bundle
         PROVE  Cut(y)' /\ Closed(y)'
    <2>1. Cut(y) /\ Closed(y)
      BY DEF MarkInv
    <2> QED
      BY <1>4, <1>9, <1>12, <1>13, <2>1 DEF Cut, Closed
  <1>15. ASSUME NEW f \in End
         PROVE  \A i \in 1..Len(Pipe(f)') : LastOK(Pipe(f)[i])'
    <2>1. \A i \in 1..Len(Pipe(f)) : LastOK(Pipe(f)[i])
      BY <1>4 DEF MarkInv
    <2>2. Pipe(f)' = Pipe(f) \/ (Pipe(f) # <<>> /\ Pipe(f)' = Tail(Pipe(f)))
      BY <1>5, <1>6, Ends
    <2> QED
      BY <1>1, <1>4, <2>1, <2>2, LastKept
  <1> QED
    BY <1>14, <1>15 DEF MarkInv

LEMMA DeliverMark ==
    ASSUME IndInv, MarkInv, NEW e \in End, Deliver(e)
    PROVE  MarkInv'
  <1>1. Types
    BY DEF IndInv
  <1>2. PICK id : id = tm[e].id
    OBVIOUS
  <1>3. /\ Held' = [Held EXCEPT ![e][id] = NewIncomingTransfer]
        /\ UNCHANGED <<load, snd, exOut, exIn, wire, stage, up>>
    BY <1>2 DEF Deliver, Held
  <1>4. ASSUME NEW y \in Bundle
        PROVE  Cut(y)' /\ Closed(y)'
    <2>1. Cut(y) /\ Closed(y)
      BY DEF MarkInv
    <2>2. Size(y)' = Size(y) /\ Size(y) > 0 /\ Size(y) \in Nat
      BY <1>1, <1>3, LoadType DEF Size
    <2>3. Buffer(y)' = Buffer(y) \/ Buffer(y)' = NewIncomingTransfer
      <3>1. PICK f \in End, i \in Id : f = Peer(Source(y)) /\ i = snd[y].id
        BY <1>1, LoadType
      <3>2. Held'[f][i] = Held[f][i] \/ Held'[f][i] = NewIncomingTransfer
        BY <1>1, <1>3 DEF Types
      <3> QED
        BY <1>3, <3>1, <3>2 DEF Buffer, Source, Peer
    <2>4. NewIncomingTransfer.len # Size(y)
      BY <2>2 DEF NewIncomingTransfer
    <2> QED
      BY <1>3, <2>1, <2>2, <2>3, <2>4 DEF Cut, Closed
  <1>5. ASSUME NEW f \in End, up'
        PROVE  \A i \in 1..Len(Pipe(f)') : LastOK(Pipe(f)[i])'
    <2>1. Pipe(f)' = Pipe(f) /\ \A i \in 1..Len(Pipe(f)) : LastOK(Pipe(f)[i])
      BY <1>3, <1>5 DEF MarkInv, Pipe, InHand, OutHand, Peer
    <2> QED
      BY <1>1, <1>3, <2>1, LastKept
  <1> QED
    BY <1>4, <1>5 DEF MarkInv

LEMMA InitMark == Init => MarkInv
  <1> SUFFICES ASSUME Init
               PROVE  MarkInv
    OBVIOUS
  <1>1. ASSUME NEW x \in Bundle
        PROVE  Cut(x) /\ Closed(x)
    <2>1. snd[x].st = "new" /\ snd[x].pos = 0 /\ 0 = 0 * Mtu
      BY LoadAssumption DEF Init
    <2> QED
      BY <2>1 DEF Cut, Closed
  <1>2. ASSUME NEW e \in End
        PROVE  Len(Pipe(e)) = 0
    <2>1. /\ exIn[Peer(e)] = <<>> /\ wire[Peer(e)] = <<>> /\ exOut[e] = <<>>
          /\ InHand(Peer(e)) = <<>> /\ OutHand(e) = <<>>
      BY Ends DEF Init, InHand, OutHand
    <2>2. <<>> \o <<>> = <<>>
      OBVIOUS
    <2> QED
      BY <2>1, <2>2 DEF Pipe
  <1> QED
    BY <1>1, <1>2 DEF MarkInv

LEMMA NextMark ==
    ASSUME NoneFits
    PROVE  IndInv /\ IndInv' /\ MarkInv /\ [Next]_vars => MarkInv'
  <1> SUFFICES ASSUME IndInv, IndInv', MarkInv, [Next]_vars
               PROVE  MarkInv'
    OBVIOUS
  <1>1. ASSUME NEW x \in Bundle, Send(x) \/ Sending(x) \/ Timeout(x)
        PROVE  MarkInv'
    BY <1>1, SendMark, SendingMark, SendPutMark DEF Sending
  <1>2. ASSUME NEW e \in End, Stage(e)
        PROVE  MarkInv'
    BY <1>2, StageMark
  <1>3. ASSUME NEW e \in End, handle(e)
        PROVE  MarkInv'
    BY <1>3, AckMark, SegmentMark, DeliverMark DEF handle
  <1>4. ASSUME NEW e \in End, handleKeepalive(e)
        PROVE  MarkInv'
    BY <1>4, EndMark DEF handleKeepalive
  <1>5. CASE Drop
    BY <1>5, EndMark DEF Drop
  <1>6. CASE UNCHANGED vars
    <2>1. Same /\ up' = up /\ snd' = snd /\ \A f \in End : Pipe(f)' = Pipe(f)
      BY <1>6 DEF vars, Same, Pipe, InHand, OutHand, Peer, Held
    <2> QED
      BY <2>1, MarkSame
  <1> QED
    BY <1>1, <1>2, <1>3, <1>4, <1>5, <1>6 DEF Next

(* When no bundle is a multiple of the segment size, a Send that returns   *)
(* without an error was right: the peer has passed on the whole bundle, or *)
(* has it complete, or had when the session ended and took the buffer with *)
(* it.  (The run "exact" shows that it is not right for the others: their  *)
(* last segment is not marked, and the buffer is never passed on.)         *)
THEOREM Confirmed ==
    ASSUME NoneFits
    PROVE  Spec => []SentIsReceived
  <1>1. IndInv /\ MarkInv => SentIsReceived
    <2> SUFFICES ASSUME IndInv, MarkInv, NEW x \in Bundle, snd[x].st = "ok", ~IsDelivered(x)
                 PROVE  Buffer(x) = Whole(x)
      BY DEF SentIsReceived, IsDelivered, Buffer, Held
    <2>1. Types /\ Buffered(x) /\ Acknowledged(x) /\ Closed(x)
      BY DEF IndInv, MarkInv
    <2>2. PICK t \in IncomingTransfer : t = Buffer(x)
      BY <2>1, LoadType
    <2>3. t.len = Size(x) /\ t.end /\ t.ordered /\ t.of = (IF t.len = 0 THEN {} ELSE {x})
      BY <2>1, <2>2 DEF Acknowledged, Received, Closed, Buffered
    <2>4. t.of = {x} /\ t.ordered = TRUE /\ t.end = TRUE
      BY <2>1, <2>3, LoadType DEF IncomingTransfer
    <2>5. t = [of |-> t.of, len |-> t.len, ordered |-> t.ordered, end |-> t.end]
      BY DEF IncomingTransfer
    <2> QED
      BY <2>2, <2>3, <2>4, <2>5 DEF Whole
  <1>2. IndInv /\ IndInv' /\ MarkInv /\ [Next]_vars => MarkInv'
    BY NextMark
  <1> QED
    BY <1>1, <1>2, InitMark, Transfers, PTL DEF Spec
=============================================================================
