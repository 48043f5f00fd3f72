---------------------------- MODULE SprayProofs ----------------------------
(***************************************************************************)
(* The nodes of a network that sprays a bundle implement CopyBudget, and a *)
(* failed transmission of spray and wait gives its copy back, for any      *)
(* finite network, any multiplicity and any number of failures.            *)
(***************************************************************************)
EXTENDS Spray, FiniteSetTheorems, TLAPS

Host == Nodes \union {Destination}

Failure == [peer: Host, read: SprayMetaData, owns: BOOLEAN]

Forwarding == [pc: {"idle", "read", "send"}, direct: BOOLEAN,
               read: SprayMetaData \union {NoData}, css: SUBSET Host,
               copies: Nat, ok: BOOLEAN, failed: SUBSET Failure]

Types ==
    /\ algorithm \in {"spray", "binary_spray"}
    /\ mule \in BOOLEAN
    /\ expired \in BOOLEAN
    /\ store \in [Nodes -> BOOLEAN]
    /\ bundleData \in [Nodes -> SprayMetaData \union {NoData}]
    /\ fwd \in [Nodes -> Forwarding]
    /\ minted \in Nat
    /\ due \in [Nodes -> Int]
    /\ clash \subseteq Nodes

(* Metadata always counts a copy for the node itself, and BinarySpray's    *)
(* never grows.                                                            *)
Fits(meta) ==
    /\ meta.remainingCopies >= 1
    /\ algorithm = "binary_spray" => meta.remainingCopies <= L

Idling(n) == fwd[n].pc = "idle" => fwd[n] = Idle

(* Between SenderForBundle's read and its write nobody else writes.        *)
Reading(n) == fwd[n].pc = "read" =>
    /\ fwd[n].css = {} /\ fwd[n].failed = {} /\ ~fwd[n].direct
    /\ fwd[n].read \in SprayMetaData /\ Fits(fwd[n].read)
    /\ fwd[n].read.remainingCopies >= 2
    /\ store[n] => bundleData[n] = fwd[n].read

Sending(n) == fwd[n].pc = "send" =>
    IF fwd[n].direct
    THEN fwd[n].css \subseteq {Destination}
    ELSE /\ fwd[n].css \subseteq Nodes \ {n}
         /\ fwd[n].copies \in 1..L
         /\ algorithm = "spray" => fwd[n].copies = 1
         /\ store[n] => bundleData[n] # NoData

(* The calls of ReportFailure that are yet to write.                       *)
Failing(n) ==
    /\ IsFiniteSet(fwd[n].failed)
    /\ \A f \in fwd[n].failed :
          f.peer \notin fwd[n].css /\ Fits(f.read) /\ (f.owns => ~fwd[n].direct)
    /\ \E max \in Nat : \A f \in fwd[n].failed : f.read.remainingCopies <= max
    /\ fwd[n].failed # {} => /\ fwd[n].pc = "send"
                             /\ store[n] => bundleData[n] # NoData

Counting(n) == bundleData[n] # NoData => Fits(bundleData[n])

(* Only expiry takes the bundle from a node that is forwarding it.         *)
Living(n) == /\ ~store[n] /\ fwd[n].pc # "idle" => expired
             /\ expired => ~store[n]

NodeInv(n) == /\ Idling(n) /\ Reading(n) /\ Sending(n)
              /\ Failing(n) /\ Counting(n) /\ Living(n)

(* CopiesReturn, for one node *)
Balanced(n) ==
    algorithm = "spray" /\ store[n] /\ bundleData[n] # NoData /\ n \notin clash
        => bundleData[n].remainingCopies + InFlight(n) = due[n]

IndInv == Types /\ \A n \in Nodes : NodeInv(n) /\ Balanced(n)

-----------------------------------------------------------------------------
(* Numbers and finite sets *)

LEMMA Product ==
    ASSUME NEW k \in Nat, NEW i \in Nat
    PROVE  /\ k * i \in Nat /\ k * (i + 1) = k * i + k
           /\ i >= 1 => k * (i - 1) = k * i - k /\ k * i >= k
<1>1. k * i \in Nat /\ k * (i + 1) = k * i + k
  OBVIOUS
<1>2. ASSUME i >= 1
      PROVE  k * (i - 1) = k * i - k /\ k * i >= k
  <2>1. PICK j \in Nat : i = j + 1
    BY <1>2
  <2>2. k * j \in Nat /\ k * (j + 1) = k * j + k
    OBVIOUS
  <2>. QED  BY <2>1, <2>2
<1>. QED  BY <1>1, <1>2

(* A bounded set of numbers has a largest one.                             *)
LEMMA MaxOf ==
    ASSUME NEW S, S \subseteq Nat, S # {}, NEW max \in Nat, \A s \in S : s <= max
    PROVE  Max(S) \in S /\ \A s \in S : s <= Max(S)
<1>. DEFINE T == {max - s : s \in S}
            R == OpToRel(<, Nat)
<1>0. \A s \in S : s \in Nat /\ max - s \in Nat
  OBVIOUS
<1>1. T \subseteq Nat /\ T # {}
  BY <1>0
<1>2. IsWellFoundedOn(R, Nat)
  BY NatLessThanWellFounded
<1>3. PICK x \in T : \A y \in T : ~(<<y, x>> \in R)
  <2>. HIDE DEF T, R
  <2>. QED  BY <1>1, <1>2, WFMin
<1>4. \A y \in T : ~(y < x)
  BY <1>1, <1>3 DEF OpToRel
<1>5. PICK m \in S : x = max - m
  BY <1>3
<1>6. ASSUME NEW s \in S
      PROVE  s <= m
  <2>1. ~(max - s < x)
    BY <1>4
  <2>. QED  BY <1>0, <1>5, <2>1
<1>. HIDE DEF T, R
<1>7. \E m2 \in S : \A s \in S : m2 >= s
  BY <1>6
<1>. QED  BY <1>7 DEF Max

LEMMA HostFinite ==
    ASSUME NEW css, css \subseteq Host
    PROVE  IsFiniteSet(css) /\ Cardinality(css) \in Nat
<1>1. IsFiniteSet(Host)
  BY SprayAssumption, FS_AddElement DEF Host
<1>. QED  BY <1>1, FS_Subset, FS_CardinalityType

-----------------------------------------------------------------------------
(* The copies of a node *)

Owned(n) == {f \in fwd[n].failed : f.owns}

LEMMA InFlightFacts ==
    ASSUME Types, NEW n \in Nodes, IsFiniteSet(fwd[n].failed)
    PROVE  /\ IsFiniteSet(fwd[n].css) /\ Cardinality(fwd[n].css) \in Nat
           /\ IsFiniteSet(Owned(n)) /\ Cardinality(Owned(n)) \in Nat
           /\ Taken(n) \in Nat
           /\ InFlight(n) = Taken(n) * (Cardinality(fwd[n].css) + Cardinality(Owned(n)))
           /\ InFlight(n) \in Nat
<1>1. fwd[n].css \subseteq Host /\ fwd[n].copies \in Nat
  BY DEF Types, Forwarding
<1>2. IsFiniteSet(fwd[n].css) /\ Cardinality(fwd[n].css) \in Nat
  BY <1>1, HostFinite
<1>3. IsFiniteSet(Owned(n)) /\ Cardinality(Owned(n)) \in Nat
  <2>1. Owned(n) \in SUBSET fwd[n].failed
    BY DEF Owned
  <2>. QED  BY <2>1, FS_Subset, FS_CardinalityType
<1>4. Taken(n) \in Nat
  BY <1>1 DEF Taken
<1>5. InFlight(n) = Taken(n) * (Cardinality(fwd[n].css) + Cardinality(Owned(n)))
  BY DEF InFlight, Owned
<1>. QED  BY <1>2, <1>3, <1>4, <1>5, Product

LEMMA CountedFacts ==
    ASSUME Types, NEW n \in Nodes, Failing(n), bundleData[n] # NoData
    PROVE  /\ Counted(n) \in Nat /\ bundleData[n].remainingCopies \in Nat
           /\ bundleData[n].remainingCopies <= Counted(n)
           /\ \A f \in fwd[n].failed : f.read.remainingCopies \in Nat
                                      /\ f.read.remainingCopies <= Counted(n)
           /\ \/ Counted(n) = bundleData[n].remainingCopies
              \/ \E f \in fwd[n].failed : Counted(n) = f.read.remainingCopies
<1>. DEFINE r == bundleData[n].remainingCopies
            S == {r} \union {f.read.remainingCopies : f \in fwd[n].failed}
<1>1. r \in Nat /\ \A f \in fwd[n].failed : f.read.remainingCopies \in Nat
  BY DEF Types, Forwarding, Failure, SprayMetaData
<1>2. PICK max \in Nat : \A f \in fwd[n].failed : f.read.remainingCopies <= max
  BY DEF Failing
<1>3. S \subseteq Nat /\ S # {} /\ \A s \in S : s <= max + r
  <2>1. r <= max + r /\ \A f \in fwd[n].failed : f.read.remainingCopies <= max + r
    BY <1>1, <1>2
  <2>. QED  BY <1>1, <2>1
<1>4. max + r \in Nat /\ Counted(n) = Max(S)
  BY <1>1 DEF Counted
<1>5. Max(S) \in S /\ \A s \in S : s <= Max(S)
  <2>. HIDE DEF S, r
  <2>. QED  BY <1>3, <1>4, MaxOf
<1>. QED  BY <1>1, <1>4, <1>5

LEMMA CopiesNat ==
    ASSUME Types, NEW n \in Nodes, Failing(n), Reading(n)
    PROVE  CopiesOf(n) \in Nat
<1>1. InFlight(n) \in Nat
  BY InFlightFacts DEF Failing
<1>2. store[n] /\ bundleData[n] # NoData => Counted(n) \in Nat
  BY CountedFacts
<1>3. fwd[n].pc = "read" => fwd[n].read.remainingCopies \in Nat
  BY DEF Reading, SprayMetaData
<1>. QED  BY <1>1, <1>2, <1>3 DEF CopiesOf

(* A node that a step does not concern *)
LEMMA NodeFrame ==
    ASSUME NEW m \in Nodes, NodeInv(m), algorithm' = algorithm, expired' = expired,
           store'[m] = store[m], bundleData'[m] = bundleData[m], fwd'[m] = fwd[m]
    PROVE  NodeInv(m)' /\ CopiesOf(m)' = CopiesOf(m)
<1>1. Idling(m)' /\ Reading(m)' /\ Sending(m)' /\ Counting(m)' /\ Living(m)'
  BY DEF NodeInv, Idling, Reading, Sending, Counting, Living, Fits, Idle
<1>2. Failing(m)'
  BY DEF NodeInv, Failing, Fits
<1>3. CopiesOf(m)' = CopiesOf(m)
  BY DEF CopiesOf, Counted, InFlight, Taken
<1>. QED  BY <1>1, <1>2, <1>3 DEF NodeInv

LEMMA BalanceFrame ==
    ASSUME NEW m \in Nodes, Balanced(m), algorithm' = algorithm,
           store'[m] = store[m], bundleData'[m] = bundleData[m], fwd'[m] = fwd[m],
           due'[m] = due[m], clash \subseteq clash'
    PROVE  Balanced(m)'
<1>1. InFlight(m)' = InFlight(m)
  BY DEF InFlight, Taken
<1>. QED  BY <1>1 DEF Balanced

-----------------------------------------------------------------------------
(* Steps of CopyBudget *)

Carriers == {n \in Nodes : store[n]}
Copies == [n \in Nodes |-> CopiesOf(n)]

LEMMA LoseStep ==
    ASSUME NEW n \in Nodes, CopiesOf(n)' \in Nat, CopiesOf(n) \in Nat, CopiesOf(n)' <= CopiesOf(n),
           \A m \in Nodes : m # n => CopiesOf(m)' = CopiesOf(m) /\ store'[m] = store[m],
           store'[n] \in {store[n], FALSE}, minted' = minted
    PROVE  Abstract!Move
<1>1. Carriers' \in {Carriers, Carriers \ {n}}
  BY DEF Carriers
<1>2. Copies' = [Copies EXCEPT ![n] = CopiesOf(n)']
  BY DEF Copies
<1>4. CopiesOf(n)' \in 0..Copies[n]
  BY DEF Copies
<1>3. Abstract!Lose(n)
  BY <1>1, <1>2, <1>4 DEF Abstract!Lose, Carriers, Copies
<1>. QED  BY <1>3 DEF Abstract!Move

LEMMA MintStep ==
    ASSUME NEW n \in Nodes, CopiesOf(n)' \in Nat, CopiesOf(n) \in Nat, CopiesOf(n)' <= CopiesOf(n) + 1,
           \A m \in Nodes : m # n => CopiesOf(m)' = CopiesOf(m),
           store' = store, minted' = minted + 1
    PROVE  Abstract!Move
<1>1. Carriers' = Carriers
  BY DEF Carriers
<1>2. Copies' = [Copies EXCEPT ![n] = CopiesOf(n)']
  BY DEF Copies
<1>4. CopiesOf(n)' \in 0..(Copies[n] + 1)
  BY DEF Copies
<1>3. Abstract!Mint(n)
  BY <1>1, <1>2, <1>4 DEF Abstract!Mint, Carriers, Copies
<1>. QED  BY <1>3 DEF Abstract!Move

LEMMA HandStep ==
    ASSUME NEW n \in Nodes, NEW p \in Nodes, n # p, NEW k \in 1..L, NEW j \in 0..L,
           store[n], ~store[p], store' = [store EXCEPT ![p] = TRUE], store \in [Nodes -> BOOLEAN],
           CopiesOf(n) \in Nat, CopiesOf(n) >= k + 1, CopiesOf(n)' = CopiesOf(n) - k,
           CopiesOf(p) \in Nat, CopiesOf(p)' = CopiesOf(p) + k + j,
           \A m \in Nodes : m \notin {n, p} => CopiesOf(m)' = CopiesOf(m),
           minted' = minted + j
    PROVE  Abstract!Move
<1>1. Carriers' = Carriers \union {p} /\ p \notin Carriers /\ n \in Carriers
  BY DEF Carriers
<1>2. Copies' = [Copies EXCEPT ![n] = @ - k, ![p] = @ + k + j]
  BY DEF Copies
<1>3. Copies[n] >= IF n \in Carriers THEN k + 1 ELSE k
  BY <1>1 DEF Copies
<1>4. Abstract!Hand(n, p, k)
  BY <1>1, <1>2, <1>3 DEF Abstract!Hand, Carriers, Copies
<1>. QED  BY <1>4 DEF Abstract!Move

-----------------------------------------------------------------------------
(* A step of node n alone *)
LEMMA OneNode ==
    ASSUME IndInv, NEW n \in Nodes, Types', algorithm' = algorithm, expired' = expired,
           \A m \in Nodes : m # n => /\ store'[m] = store[m] /\ bundleData'[m] = bundleData[m]
                                    /\ fwd'[m] = fwd[m] /\ due'[m] = due[m],
           clash \subseteq clash', NodeInv(n)', Balanced(n)'
    PROVE  IndInv' /\ \A m \in Nodes : m # n => CopiesOf(m)' = CopiesOf(m) /\ store'[m] = store[m]
<1>1. ASSUME NEW m \in Nodes, m # n
      PROVE  NodeInv(m)' /\ Balanced(m)' /\ CopiesOf(m)' = CopiesOf(m)
  BY <1>1, NodeFrame, BalanceFrame DEF IndInv
<1>. QED  BY <1>1 DEF IndInv

LEMMA IdleFacts ==
    /\ Idle \in Forwarding /\ Idle.pc = "idle" /\ Idle.css = {} /\ Idle.failed = {}
    /\ ~Idle.direct /\ Idle.copies = 0
  BY DEF Idle, Forwarding

(* What a node counts while nothing is under way *)
LEMMA Resting ==
    ASSUME Types, NEW n \in Nodes, Reading(n), fwd[n].failed = {},
           fwd[n].css = {} \/ fwd[n].direct
    PROVE  /\ InFlight(n) = 0
           /\ CopiesOf(n) = CASE store[n] /\ bundleData[n] # NoData -> bundleData[n].remainingCopies
                              [] ~store[n] /\ fwd[n].pc = "read" -> fwd[n].read.remainingCopies
                              [] OTHER -> 0
<1>1. Owned(n) = {} /\ IsFiniteSet(fwd[n].failed)
  BY FS_EmptySet DEF Owned
<1>2. InFlight(n) = Taken(n) * (Cardinality(fwd[n].css) + Cardinality(Owned(n)))
      /\ Taken(n) \in Nat /\ Cardinality(fwd[n].css) \in Nat
  BY <1>1, InFlightFacts
<1>3. Cardinality(Owned(n)) = 0 /\ (fwd[n].css = {} => Cardinality(fwd[n].css) = 0)
      /\ (fwd[n].direct => Taken(n) = 0)
  BY <1>1, FS_EmptySet DEF Taken
<1>4. InFlight(n) = 0
  BY <1>2, <1>3
<1>5. ASSUME bundleData[n] # NoData
      PROVE  Counted(n) = bundleData[n].remainingCopies /\ Counted(n) \in Nat
  <2>1. {bundleData[n].remainingCopies} \union {f.read.remainingCopies : f \in fwd[n].failed}
            = {bundleData[n].remainingCopies}
    OBVIOUS
  <2>2. bundleData[n].remainingCopies \in Nat
    BY <1>5 DEF Types, SprayMetaData
  <2>. QED  BY <2>1, <2>2 DEF Counted, Max
<1>6. fwd[n].pc = "read" => fwd[n].read.remainingCopies \in Nat
  BY DEF Reading, SprayMetaData
<1>. QED  BY <1>4, <1>5, <1>6 DEF CopiesOf

(***************************************************************************)
(* What is known of a node's copies, as a formula, so that it holds of the *)
(* state after a step as well.                                             *)
(***************************************************************************)
Account(n) ==
    /\ IsFiniteSet(fwd[n].css) /\ Cardinality(fwd[n].css) \in Nat
    /\ IsFiniteSet(Owned(n)) /\ Cardinality(Owned(n)) \in Nat
    /\ Taken(n) \in Nat
    /\ InFlight(n) = Taken(n) * (Cardinality(fwd[n].css) + Cardinality(Owned(n)))
    /\ InFlight(n) \in Nat
    /\ CopiesOf(n) \in Nat

Tally(n) ==
    bundleData[n] # NoData =>
        /\ Counted(n) \in Nat /\ bundleData[n].remainingCopies \in Nat
        /\ bundleData[n].remainingCopies <= Counted(n)
        /\ \A f \in fwd[n].failed : f.read.remainingCopies \in Nat
                                    /\ f.read.remainingCopies <= Counted(n)
        /\ \/ Counted(n) = bundleData[n].remainingCopies
           \/ \E f \in fwd[n].failed : Counted(n) = f.read.remainingCopies

Rest(n) ==
    fwd[n].failed = {} /\ (fwd[n].css = {} \/ fwd[n].direct) =>
        /\ InFlight(n) = 0
        /\ CopiesOf(n) = CASE store[n] /\ bundleData[n] # NoData -> bundleData[n].remainingCopies
                           [] ~store[n] /\ fwd[n].pc = "read" -> fwd[n].read.remainingCopies
                           [] OTHER -> 0

Accounting ==
    \A n \in Nodes : Types /\ Failing(n) /\ Reading(n) => Account(n) /\ Tally(n) /\ Rest(n)

LEMMA AccountingNow == Accounting
<1>. SUFFICES ASSUME NEW n \in Nodes, Types, Failing(n), Reading(n)
              PROVE  Account(n) /\ Tally(n) /\ Rest(n)
  BY DEF Accounting
<1>1. Account(n)
  BY InFlightFacts, CopiesNat DEF Account, Failing
<1>2. Tally(n)
  BY CountedFacts DEF Tally
<1>3. Rest(n)
  BY Resting DEF Rest
<1>. QED  BY <1>1, <1>2, <1>3

LEMMA AccountingThen == Accounting'
  BY AccountingNow, PTL

(***************************************************************************)
(* A step of node n alone that mints nothing: it is enough that the node   *)
(* is left with no more copies than it had.                                *)
(***************************************************************************)
LEMMA Losing ==
    ASSUME IndInv, NEW n \in Nodes, Types', algorithm' = algorithm, expired' = expired,
           \A m \in Nodes : m # n => /\ store'[m] = store[m] /\ bundleData'[m] = bundleData[m]
                                     /\ fwd'[m] = fwd[m] /\ due'[m] = due[m],
           clash \subseteq clash', NodeInv(n)', Balanced(n)',
           minted' = minted, store'[n] \in {store[n], FALSE},
           CopiesOf(n)' <= CopiesOf(n)
    PROVE  IndInv' /\ Abstract!Move
<1>1. IndInv' /\ \A m \in Nodes : m # n => CopiesOf(m)' = CopiesOf(m) /\ store'[m] = store[m]
  BY OneNode
<1>2. CopiesOf(n) \in Nat
  BY AccountingNow DEF Accounting, Account, IndInv, NodeInv
<1>3. CopiesOf(n)' \in Nat
  BY AccountingThen DEF Accounting, Account, NodeInv
<1>. QED  BY <1>1, <1>2, <1>3, LoseStep

LEMMA ForwardStep ==
    ASSUME IndInv, NEW n \in Nodes, Forward(n)
    PROVE  IndInv' /\ Abstract!Move
<1>1. Types /\ NodeInv(n) /\ Balanced(n) /\ fwd[n] = Idle
  BY DEF IndInv, NodeInv, Idling, Forward
<1>2. /\ algorithm' = algorithm /\ mule' = mule /\ expired' = expired /\ store' = store
      /\ bundleData' = bundleData /\ minted' = minted /\ due' = due /\ clash' = clash
      /\ store[n] /\ ~expired
  BY DEF Forward
<1>3. /\ fwd'[n] \in Forwarding /\ fwd' \in [Nodes -> Forwarding] /\ fwd'[n].failed = {}
      /\ fwd'[n].css = {} \/ fwd'[n].direct
      /\ \A m \in Nodes : m # n => fwd'[m] = fwd[m]
      /\ Idling(n)' /\ Reading(n)' /\ Sending(n)'
  <2>1. CASE Direct(n)
    <3>. DEFINE r == [Idle EXCEPT !.pc = "send", !.direct = TRUE, !.css = {Destination}]
    <3>1. r \in Forwarding /\ r.pc = "send" /\ r.direct /\ r.css = {Destination} /\ r.failed = {}
      BY DEF Idle, Forwarding, Host
    <3>2. fwd' = [fwd EXCEPT ![n] = r]
      BY <2>1 DEF Direct
    <3>. HIDE DEF r
    <3>3. fwd'[n] = r /\ fwd' \in [Nodes -> Forwarding] /\ \A m \in Nodes : m # n => fwd'[m] = fwd[m]
      BY <1>1, <3>1, <3>2 DEF Types
    <3>. QED  BY <3>1, <3>3 DEF Idling, Reading, Sending
  <2>2. CASE SenderForBundle(n)
    <3>. DEFINE r == [Idle EXCEPT !.pc = "read", !.read = bundleData[n]]
    <3>0. bundleData[n] \in SprayMetaData /\ Fits(bundleData[n]) /\ bundleData[n].remainingCopies >= 2
      BY <1>1, <2>2 DEF SenderForBundle, Types, NodeInv, Counting
    <3>1. r \in Forwarding /\ r.pc = "read" /\ ~r.direct /\ r.css = {} /\ r.failed = {} /\ r.read = bundleData[n]
      BY <3>0 DEF Idle, Forwarding, Host
    <3>2. fwd' = [fwd EXCEPT ![n] = r]
      BY <2>2 DEF SenderForBundle
    <3>. HIDE DEF r
    <3>3. fwd'[n] = r /\ fwd' \in [Nodes -> Forwarding] /\ \A m \in Nodes : m # n => fwd'[m] = fwd[m]
      BY <1>1, <3>1, <3>2 DEF Types
    <3>. QED  BY <1>2, <3>0, <3>1, <3>3 DEF Idling, Reading, Sending, Fits
  <2>. QED  BY <2>1, <2>2 DEF Forward
<1>4. Types'
  BY <1>1, <1>2, <1>3 DEF Types
<1>5. NodeInv(n)'
  <2>1. Failing(n)'
    BY <1>3, FS_EmptySet DEF Failing
  <2>2. Counting(n)' /\ Living(n)'
    BY <1>1, <1>2 DEF NodeInv, Counting, Living, Fits
  <2>. QED  BY <1>3, <2>1, <2>2 DEF NodeInv
<1>6. InFlight(n)' = InFlight(n) /\ CopiesOf(n)' = CopiesOf(n) /\ CopiesOf(n) \in Nat
  <2>1. Rest(n) /\ Account(n)
    BY <1>1, AccountingNow DEF Accounting, NodeInv
  <2>2. Rest(n)'
    BY <1>4, <1>5, AccountingThen DEF Accounting, NodeInv
  <2>. QED  BY <1>1, <1>2, <1>3, <2>1, <2>2, IdleFacts DEF Rest, Account
<1>7. Balanced(n)'
  BY <1>1, <1>2, <1>6 DEF Balanced
<1>. QED  BY <1>2, <1>3, <1>4, <1>5, <1>6, <1>7, Losing

LEMMA GarbageCollectStep ==
    ASSUME IndInv, NEW n \in Nodes, GarbageCollect(n)
    PROVE  IndInv' /\ Abstract!Move
<1>1. Types /\ NodeInv(n) /\ Balanced(n)
  BY DEF IndInv
<1>2. /\ algorithm' = algorithm /\ mule' = mule /\ expired' = expired /\ store' = store
      /\ fwd' = fwd /\ minted' = minted /\ clash' = clash /\ ~store[n]
      /\ bundleData'[n] = NoData /\ \A m \in Nodes : m # n => bundleData'[m] = bundleData[m]
      /\ \A m \in Nodes : m # n => due'[m] = due[m]
  BY <1>1 DEF GarbageCollect, Types
<1>3. Types'
  BY <1>1 DEF GarbageCollect, Types
<1>4. NodeInv(n)'
  <2>1. Idling(n)' /\ Reading(n)' /\ Sending(n)' /\ Counting(n)' /\ Living(n)'
    BY <1>1, <1>2 DEF NodeInv, Idling, Reading, Sending, Counting, Living, Fits, Idle
  <2>2. Failing(n)'
    BY <1>1, <1>2 DEF NodeInv, Failing, Fits
  <2>. QED  BY <2>1, <2>2 DEF NodeInv
<1>5. Balanced(n)'
  BY <1>2 DEF Balanced
<1>6. CopiesOf(n)' = CopiesOf(n) /\ CopiesOf(n) \in Nat
  <2>1. Account(n)
    BY <1>1, AccountingNow DEF Accounting, NodeInv
  <2>. QED  BY <1>2, <2>1 DEF CopiesOf, InFlight, Taken, Account
<1>. QED  BY <1>2, <1>3, <1>4, <1>5, <1>6, Losing

LEMMA RestartStep ==
    ASSUME IndInv, NEW n \in Nodes, Restart(n)
    PROVE  IndInv' /\ Abstract!Move
<1>1. Types /\ NodeInv(n) /\ Balanced(n)
  BY DEF IndInv
<1>2. /\ algorithm' = algorithm /\ mule' = mule /\ expired' = expired /\ store' = store
      /\ minted' = minted /\ clash' = clash /\ store[n]
      /\ bundleData'[n] = NoData /\ \A m \in Nodes : m # n => bundleData'[m] = bundleData[m]
      /\ fwd'[n] = Idle /\ \A m \in Nodes : m # n => fwd'[m] = fwd[m]
      /\ \A m \in Nodes : m # n => due'[m] = due[m]
  BY <1>1 DEF Restart, Types
<1>3. Types'
  BY <1>1, IdleFacts DEF Restart, Types
<1>4. NodeInv(n)'
  <2>1. Idling(n)' /\ Reading(n)' /\ Sending(n)' /\ Counting(n)' /\ Living(n)'
    BY <1>1, <1>2, IdleFacts DEF NodeInv, Idling, Reading, Sending, Counting, Living, Idle
  <2>2. Failing(n)'
    BY <1>2, IdleFacts, FS_EmptySet DEF Failing
  <2>. QED  BY <2>1, <2>2 DEF NodeInv
<1>5. Balanced(n)'
  BY <1>2 DEF Balanced
<1>6. CopiesOf(n)' <= CopiesOf(n)
  <2>1. Account(n)
    BY <1>1, AccountingNow DEF Accounting, NodeInv
  <2>2. Rest(n)'
    BY <1>3, <1>4, AccountingThen DEF Accounting, NodeInv
  <2>3. CopiesOf(n)' = 0
    BY <1>2, <2>2, IdleFacts DEF Rest
  <2>. QED  BY <2>1, <2>3 DEF Account
<1>. QED  BY <1>2, <1>3, <1>4, <1>5, <1>6, Losing

LEMMA ForwardEndStep ==
    ASSUME IndInv, NEW n \in Nodes, ForwardEnd(n)
    PROVE  IndInv' /\ Abstract!Move
<1>1. Types /\ NodeInv(n) /\ Balanced(n)
  BY DEF IndInv
<1>2. /\ algorithm' = algorithm /\ mule' = mule /\ expired' = expired
      /\ bundleData' = bundleData /\ minted' = minted /\ due' = due /\ clash' = clash
      /\ fwd[n].pc = "send" /\ fwd[n].css = {} /\ fwd[n].failed = {}
      /\ fwd'[n] = Idle /\ \A m \in Nodes : m # n => fwd'[m] = fwd[m]
      /\ store'[n] \in {store[n], FALSE} /\ \A m \in Nodes : m # n => store'[m] = store[m]
  BY <1>1 DEF ForwardEnd, Types
<1>3. Types'
  <2>1. fwd' \in [Nodes -> Forwarding] /\ store' \in [Nodes -> BOOLEAN]
    BY <1>1, IdleFacts DEF ForwardEnd, Types
  <2>. QED  BY <1>1, <1>2, <2>1 DEF Types
<1>4. NodeInv(n)'
  <2>1. Idling(n)' /\ Reading(n)' /\ Sending(n)' /\ Counting(n)' /\ Living(n)'
    BY <1>1, <1>2, IdleFacts DEF NodeInv, Idling, Reading, Sending, Counting, Living, Idle, Fits
  <2>2. Failing(n)'
    BY <1>2, IdleFacts, FS_EmptySet DEF Failing
  <2>. QED  BY <2>1, <2>2 DEF NodeInv
<1>5. Rest(n) /\ Account(n) /\ Rest(n)' /\ Account(n)'
  <2>1. Rest(n) /\ Account(n)
    BY <1>1, AccountingNow DEF Accounting, NodeInv
  <2>2. Rest(n)' /\ Account(n)'
    BY <1>3, <1>4, AccountingThen DEF Accounting, NodeInv
  <2>. QED  BY <2>1, <2>2
<1>6. InFlight(n)' = InFlight(n) /\ CopiesOf(n)' <= CopiesOf(n)
  <2>1. InFlight(n)' = InFlight(n) /\ fwd'[n].failed = {} /\ fwd'[n].css = {} /\ fwd'[n].pc = "idle"
    BY <1>2, <1>5, IdleFacts DEF Rest
  <2>2. CASE store'[n] = store[n]
    <3>1. CopiesOf(n)' = CopiesOf(n)
      BY <1>2, <1>5, <2>1, <2>2 DEF Rest
    <3>. QED  BY <2>1, <3>1, <1>5 DEF Account
  <2>3. CASE store'[n] = FALSE
    <3>1. CopiesOf(n)' = 0
      BY <1>5, <2>1, <2>3 DEF Rest
    <3>. QED  BY <2>1, <3>1, <1>5 DEF Account
  <2>. QED  BY <1>2, <2>2, <2>3
<1>7. Balanced(n)'
  BY <1>1, <1>2, <1>6 DEF Balanced
<1>. QED  BY <1>2, <1>3, <1>4, <1>6, <1>7, Losing

(* The peers SenderForBundle picks, and what it writes back *)
LEMMA Chosen ==
    ASSUME Types, NEW meta \in SprayMetaData, meta.remainingCopies >= 2,
           NEW peers \in SUBSET Nodes, NEW css \in Selections(meta, peers)
    PROVE  /\ css \subseteq peers /\ Cardinality(css) \in Nat
           /\ algorithm = "spray" => Cardinality(css) <= meta.remainingCopies - 1
           /\ algorithm # "spray" => Cardinality(css) <= 1
<1>. DEFINE new == peers \ meta.sent
<1>1. \A S \in SUBSET Nodes : IsFiniteSet(S) /\ Cardinality(S) \in Nat
  BY HostFinite DEF Host
<1>2. Cardinality(new) \in Nat /\ meta.remainingCopies - 1 \in Nat
  BY <1>1 DEF SprayMetaData
<1>3. CASE algorithm = "spray"
  <2>. DEFINE k == Min({Cardinality(new), meta.remainingCopies - 1})
  <2>1. css \subseteq new /\ Cardinality(css) = k
    BY <1>3 DEF Selections, kSubset
  <2>2. ASSUME NEW a \in Nat, NEW b \in Nat
        PROVE  Min({a, b}) <= b
    <3>1. \E x \in {a, b} : \A y \in {a, b} : x =< y
      OBVIOUS
    <3>. QED  BY <3>1 DEF Min
  <2>3. k <= meta.remainingCopies - 1
    <3>. HIDE DEF new
    <3>. QED  BY <1>2, <2>2
  <2>. QED  BY <1>1, <1>3, <2>1, <2>3
<1>4. CASE algorithm # "spray"
  <2>1. css \subseteq new /\ (css = {} \/ Cardinality(css) = 1)
    BY <1>4 DEF Selections, kSubset
  <2>2. Cardinality({}) = 0
    BY FS_EmptySet
  <2>. QED  BY <1>1, <1>4, <2>1, <2>2
<1>. QED  BY <1>3, <1>4

LEMMA Written ==
    ASSUME Types, NEW meta \in SprayMetaData, Fits(meta), meta.remainingCopies >= 2,
           NEW peers \in SUBSET Nodes, NEW css \in Selections(meta, peers),
           NEW out, out = Excluded(css), NEW b, b = Returned(Selected(meta, css), out)
    PROVE  /\ css \subseteq peers /\ b \in SprayMetaData /\ Fits(b)
           /\ CopiesEach(meta) \in 1..L /\ (algorithm = "spray" => CopiesEach(meta) = 1)
           /\ Cardinality(css \ out) \in Nat
           /\ b.remainingCopies + CopiesEach(meta) * Cardinality(css \ out) <= meta.remainingCopies
           /\ algorithm = "spray" =>
                b.remainingCopies + CopiesEach(meta) * Cardinality(css \ out) = meta.remainingCopies
<1>. DEFINE r == meta.remainingCopies
            c == Cardinality(css)
            e == Cardinality(out)
            i == Cardinality(css \ out)
<1>1. /\ css \subseteq peers /\ c \in Nat
      /\ algorithm = "spray" => c <= r - 1
      /\ algorithm # "spray" => c <= 1
  BY Chosen
<1>2. out \in SUBSET css /\ css \subseteq Host /\ out \subseteq Host /\ css \ out \subseteq Host
  BY <1>1 DEF Excluded, Host
<1>3. e \in Nat /\ i \in Nat /\ i = c - e
  <2>1. IsFiniteSet(css) /\ e \in Nat /\ i \in Nat
    BY <1>2, HostFinite
  <2>2. css \cap out = out
    BY <1>2
  <2>. QED  BY <2>1, <2>2, FS_Difference
<1>4. r \in Nat /\ r >= 2 /\ meta.sent \in SUBSET Host
  BY DEF SprayMetaData, Host
<1>5. b.sent = (meta.sent \union css) \ out
  BY DEF Returned, Selected, MetaData
<1>6. b = [sent |-> b.sent, remainingCopies |-> b.remainingCopies]
  BY DEF Returned, Selected, MetaData
<1>7. b.sent \in SUBSET (Nodes \union {Destination})
  BY <1>2, <1>4, <1>5 DEF Host
<1>8. CASE algorithm = "spray"
  <2>1. b.remainingCopies = (r - c * 1) + e /\ CopiesEach(meta) = 1
    BY <1>8 DEF Returned, Selected, MetaData, CopiesEach
  <2>. HIDE DEF r, c, e, i
  <2>2. b.remainingCopies = r - i /\ b.remainingCopies \in Nat /\ b.remainingCopies >= 1
    BY <1>1, <1>3, <1>4, <1>8, <2>1
  <2>3. b \in SprayMetaData /\ Fits(b)
    BY <1>6, <1>7, <1>8, <2>2 DEF SprayMetaData, Fits
  <2>4. b.remainingCopies + CopiesEach(meta) * i = r
    BY <1>3, <1>4, <2>1, <2>2
  <2>5. 1 \in 1..L
    BY SprayAssumption
  <2>. QED  BY <1>1, <1>3, <1>4, <2>1, <2>3, <2>4, <2>5 DEF c, r, i
<1>9. CASE algorithm # "spray"
  <2>. DEFINE d == CopiesEach(meta)
  <2>1. b.remainingCopies = r - c * d /\ d = r \div 2
    BY <1>9 DEF Returned, Selected, MetaData, CopiesEach
  <2>2. r <= L /\ L \in Nat
    BY <1>9, SprayAssumption DEF Fits, Types
  <2>. HIDE DEF r, c, e, i, d
  <2>3. d \in 1..L /\ d \in Nat /\ d <= r - 1
    BY <1>4, <2>1, <2>2
  <2>4. c \in {0, 1} /\ i \in {0, 1} /\ i <= c
    BY <1>1, <1>3, <1>9
  <2>5. c * d = IF c = 1 THEN d ELSE 0
    BY <2>3, <2>4
  <2>6. d * i = IF i = 1 THEN d ELSE 0
    BY <2>3, <2>4
  <2>7. b.remainingCopies \in Nat /\ b.remainingCopies >= 1 /\ b.remainingCopies <= L
    BY <1>4, <2>1, <2>2, <2>3, <2>5
  <2>8. b.remainingCopies + d * i <= r
    BY <1>4, <2>1, <2>3, <2>4, <2>5, <2>6
  <2>9. b \in SprayMetaData /\ Fits(b)
    BY <1>6, <1>7, <2>7 DEF SprayMetaData, Fits
  <2>. QED  BY <1>1, <1>3, <1>9, <2>3, <2>8, <2>9 DEF d, c, r, i
<1>. QED  BY <1>8, <1>9

LEMMA SelectStep ==
    ASSUME IndInv, NEW n \in Nodes, Select(n)
    PROVE  IndInv' /\ Abstract!Move
<1>1. Types /\ NodeInv(n) /\ Balanced(n) /\ fwd[n].pc = "read"
  BY DEF IndInv, Select
<1>. DEFINE meta == fwd[n].read
<1>2. /\ fwd[n].css = {} /\ fwd[n].failed = {} /\ ~fwd[n].direct
      /\ meta \in SprayMetaData /\ Fits(meta) /\ meta.remainingCopies >= 2
      /\ meta.remainingCopies \in Nat
      /\ store[n] => bundleData[n] = meta
  BY <1>1 DEF NodeInv, Reading, SprayMetaData
<1>3. PICK peers \in SUBSET (Nodes \ {n}) : \E css \in Selections(meta, peers) :
          /\ bundleData' = [bundleData EXCEPT ![n] =
                 Returned(Selected(meta, css), Excluded(css))]
          /\ fwd' = [fwd EXCEPT ![n].pc = "send",
                                ![n].css = css \ Excluded(css),
                                ![n].copies = CopiesEach(meta)]
  BY DEF Select
<1>4. PICK css \in Selections(meta, peers) :
          /\ bundleData' = [bundleData EXCEPT ![n] =
                 Returned(Selected(meta, css), Excluded(css))]
          /\ fwd' = [fwd EXCEPT ![n].pc = "send",
                                ![n].css = css \ Excluded(css),
                                ![n].copies = CopiesEach(meta)]
  BY <1>3
<1>. DEFINE out == Excluded(css)
            b == Returned(Selected(meta, css), out)
            d == CopiesEach(meta)
<1>5. /\ css \subseteq peers /\ b \in SprayMetaData /\ Fits(b)
      /\ d \in 1..L /\ (algorithm = "spray" => d = 1)
      /\ Cardinality(css \ out) \in Nat
      /\ b.remainingCopies + d * Cardinality(css \ out) <= meta.remainingCopies
      /\ algorithm = "spray" =>
            b.remainingCopies + d * Cardinality(css \ out) = meta.remainingCopies
  <2>1. peers \in SUBSET Nodes
    BY <1>3
  <2>2. out = Excluded(css) /\ b = Returned(Selected(meta, css), out) /\ d = CopiesEach(meta)
    OBVIOUS
  <2>3. Types /\ meta \in SprayMetaData /\ Fits(meta) /\ meta.remainingCopies >= 2
    BY <1>1, <1>2
  <2>4. css \in Selections(meta, peers)
    BY <1>4
  <2>. HIDE DEF meta, out, b, d
  <2>. QED  BY <2>1, <2>2, <2>3, <2>4, Written
<1>6. /\ bundleData' = [bundleData EXCEPT ![n] = b]
      /\ fwd' = [fwd EXCEPT ![n].pc = "send", ![n].css = css \ out, ![n].copies = d]
  BY <1>4
<1>. HIDE DEF out, b, d, meta
<1>7. /\ algorithm' = algorithm /\ mule' = mule /\ expired' = expired /\ store' = store
      /\ minted' = minted /\ due' = due /\ clash' = clash
  BY DEF Select
<1>8. /\ fwd'[n].pc = "send" /\ fwd'[n].css = css \ out /\ fwd'[n].copies = d
      /\ fwd'[n].failed = {} /\ ~fwd'[n].direct
      /\ fwd' \in [Nodes -> Forwarding] /\ \A m \in Nodes : m # n => fwd'[m] = fwd[m]
  <2>1. css \ out \in SUBSET Host /\ d \in Nat
    BY <1>3, <1>5 DEF Host
  <2>. DEFINE r == [fwd[n] EXCEPT !.pc = "send", !.css = css \ out, !.copies = d]
  <2>2. fwd[n] \in Forwarding /\ fwd \in [Nodes -> Forwarding]
    BY <1>1 DEF Types
  <2>3. /\ r \in Forwarding /\ r.pc = "send" /\ r.css = css \ out /\ r.copies = d
        /\ r.failed = fwd[n].failed /\ r.direct = fwd[n].direct
    BY <2>1, <2>2 DEF Forwarding
  <2>4. fwd' = [fwd EXCEPT ![n] = r]
    BY <1>6, <2>2
  <2>. HIDE DEF r
  <2>5. fwd'[n] = r /\ fwd' \in [Nodes -> Forwarding] /\ \A m \in Nodes : m # n => fwd'[m] = fwd[m]
    BY <2>2, <2>3, <2>4
  <2>. QED  BY <1>2, <2>3, <2>5
<1>9. /\ bundleData' \in [Nodes -> SprayMetaData \union {NoData}] /\ bundleData'[n] = b
      /\ \A m \in Nodes : m # n => bundleData'[m] = bundleData[m]
  BY <1>1, <1>5, <1>6 DEF Types
<1>10. Types'
  BY <1>1, <1>7, <1>8, <1>9 DEF Types
<1>11. b # NoData /\ b.remainingCopies \in Nat
  BY <1>5, SprayAssumption DEF SprayMetaData
<1>12. NodeInv(n)'
  <2>1. Sending(n)'
    BY <1>3, <1>5, <1>7, <1>8, <1>9, <1>11 DEF Sending
  <2>2. Idling(n)' /\ Reading(n)' /\ Counting(n)' /\ Living(n)'
    BY <1>1, <1>5, <1>7, <1>8, <1>9 DEF Idling, Reading, Counting, NodeInv, Living, Fits
  <2>3. Failing(n)'
    BY <1>8, FS_EmptySet DEF Failing
  <2>. QED  BY <2>1, <2>2, <2>3 DEF NodeInv
<1>13. Account(n) /\ Tally(n) /\ Rest(n) /\ Account(n)' /\ Tally(n)'
  <2>1. Account(n) /\ Tally(n) /\ Rest(n)
    BY <1>1, AccountingNow DEF Accounting, NodeInv
  <2>2. Account(n)' /\ Tally(n)'
    BY <1>10, <1>12, AccountingThen DEF Accounting, NodeInv
  <2>. QED  BY <2>1, <2>2
<1>14. InFlight(n)' = d * Cardinality(css \ out)
  <2>1. Owned(n)' = {}
    BY <1>8 DEF Owned
  <2>2. Taken(n)' = d
    BY <1>8 DEF Taken
  <2>3. Cardinality(Owned(n)') = 0
    BY <2>1, FS_EmptySet
  <2>. QED  BY <1>5, <1>8, <1>13, <2>2, <2>3 DEF Account
<1>15. CopiesOf(n) = meta.remainingCopies /\ InFlight(n) = 0
  <2>1. meta # NoData
    BY <1>2, SprayAssumption
  <2>. QED  BY <1>1, <1>2, <1>13, <2>1 DEF Rest, meta
<1>16. CopiesOf(n)' <= CopiesOf(n)
  <2>1. Counted(n)' = b.remainingCopies
    BY <1>8, <1>9, <1>11, <1>13 DEF Tally
  <2>2. CopiesOf(n)' = InFlight(n)' + IF store[n] THEN b.remainingCopies ELSE 0
    BY <1>7, <1>8, <1>9, <1>11, <2>1 DEF CopiesOf
  <2>3. InFlight(n)' \in Nat
    BY <1>13 DEF Account
  <2>. QED  BY <1>2, <1>5, <1>11, <1>14, <1>15, <2>2, <2>3
<1>17. Balanced(n)'
  <2>1. ASSUME algorithm = "spray", store[n], n \notin clash
        PROVE  b.remainingCopies + InFlight(n)' = due[n]
    <3>1. meta # NoData /\ bundleData[n] = meta
      BY <1>2, <2>1, SprayAssumption
    <3>2. meta.remainingCopies + 0 = due[n]
      BY <1>1, <1>15, <2>1, <3>1 DEF Balanced
    <3>. QED  BY <1>2, <1>5, <1>14, <2>1, <3>2
  <2>. QED  BY <1>7, <1>9, <2>1 DEF Balanced
<1>. QED  BY <1>7, <1>8, <1>9, <1>10, <1>12, <1>16, <1>17, Losing

-----------------------------------------------------------------------------
(* The goroutine of peer p ends, and may leave a ReportFailure behind.     *)
LEMMA Attempted ==
    ASSUME IndInv, NEW n \in Nodes, NEW p \in fwd[n].css, NEW owns \in BOOLEAN, NEW r, NEW new,
           new \in {{}, {[peer |-> p, read |-> bundleData[n], owns |-> owns]}},
           new # {} => bundleData[n] # NoData, owns => ~fwd[n].direct,
           fwd'[n] = r, r.pc = fwd[n].pc, r.direct = fwd[n].direct, r.copies = fwd[n].copies,
           r.css = fwd[n].css \ {p}, r.failed = fwd[n].failed \union new,
           algorithm' = algorithm, expired' = expired, store'[n] = store[n],
           bundleData'[n] = bundleData[n], Types'
    PROVE  /\ NodeInv(n)' /\ fwd[n].pc = "send"
           /\ Taken(n) \in Nat /\ InFlight(n) \in Nat /\ InFlight(n) >= Taken(n)
           /\ InFlight(n)' = InFlight(n) - (IF owns /\ new # {} THEN 0 ELSE Taken(n))
           /\ \/ InFlight(n)' = InFlight(n) /\ CopiesOf(n)' = CopiesOf(n)
              \/ InFlight(n)' = InFlight(n) - Taken(n) /\ CopiesOf(n)' = CopiesOf(n) - Taken(n)
           /\ CopiesOf(n) \in Nat /\ CopiesOf(n)' \in Nat
           /\ store[n] /\ ~fwd[n].direct => CopiesOf(n) >= InFlight(n) + 1
<1>. DEFINE f == [peer |-> p, read |-> bundleData[n], owns |-> owns]
<1>1. Types /\ NodeInv(n) /\ fwd[n].pc = "send"
  <2>1. Types /\ NodeInv(n) /\ fwd[n].pc \in {"idle", "read", "send"}
    BY DEF IndInv, Types, Forwarding
  <2>. QED  BY <2>1, IdleFacts DEF NodeInv, Idling, Reading
<1>2. f.peer = p /\ f.read = bundleData[n] /\ f.owns = owns
  OBVIOUS
<1>3. new = {} \/ (new = {f} /\ bundleData[n] # NoData)
  OBVIOUS
<1>. HIDE DEF f
<1>4. Idling(n)' /\ Reading(n)' /\ Sending(n)' /\ Counting(n)' /\ Living(n)'
  BY <1>1 DEF NodeInv, Idling, Reading, Sending, Counting, Living, Fits
<1>5. Failing(n)'
  <2>1. Failing(n)
    BY <1>1 DEF NodeInv
  <2>2. IsFiniteSet(r.failed)
    <3>1. IsFiniteSet(fwd[n].failed \union {f}) /\ IsFiniteSet(fwd[n].failed)
      BY <2>1, FS_AddElement DEF Failing
    <3>. QED  BY <1>3, <3>1
  <2>3. bundleData[n] # NoData => Fits(bundleData[n]) /\ bundleData[n].remainingCopies \in Nat
    BY <1>1 DEF NodeInv, Counting, Types, SprayMetaData
  <2>4. \A g \in r.failed : g.peer \notin r.css /\ Fits(g.read) /\ (g.owns => ~r.direct)
    <3>1. \A g \in fwd[n].failed : g.peer \notin r.css /\ Fits(g.read) /\ (g.owns => ~r.direct)
      BY <2>1 DEF Failing, Fits
    <3>2. bundleData[n] # NoData => f.peer \notin r.css /\ Fits(f.read) /\ (f.owns => ~r.direct)
      BY <1>2, <2>3 DEF Fits
    <3>. QED  BY <1>3, <3>1, <3>2
  <2>5. \E max \in Nat : \A g \in r.failed : g.read.remainingCopies <= max
    <3>1. PICK max \in Nat : \A g \in fwd[n].failed : g.read.remainingCopies <= max
      BY <2>1 DEF Failing
    <3>2. \A g \in fwd[n].failed : g.read.remainingCopies \in Nat
      BY <1>1 DEF Types, Forwarding, Failure, SprayMetaData
    <3>3. CASE new = {}
      BY <3>1, <3>3
    <3>4. CASE new = {f} /\ bundleData[n] # NoData
      <4>. DEFINE big == max + f.read.remainingCopies
      <4>1. f.read.remainingCopies \in Nat
        BY <1>2, <2>3, <3>4
      <4>2. big \in Nat /\ f.read.remainingCopies <= big
            /\ \A g \in fwd[n].failed : g.read.remainingCopies <= big
        BY <3>1, <3>2, <4>1
      <4>. HIDE DEF big
      <4>. QED  BY <3>4, <4>2
    <3>. QED  BY <1>3, <3>3, <3>4
  <2>6. r.failed # {} => r.pc = "send" /\ (store[n] => bundleData[n] # NoData)
    BY <1>1, <1>3, <2>1 DEF Failing
  <2>. QED  BY <2>2, <2>4, <2>5, <2>6 DEF Failing, Fits
<1>6. NodeInv(n)'
  BY <1>4, <1>5 DEF NodeInv
<1>7. Account(n) /\ Tally(n) /\ Account(n)' /\ Tally(n)'
  <2>1. Account(n) /\ Tally(n)
    BY <1>1, AccountingNow DEF Accounting, NodeInv
  <2>2. Account(n)' /\ Tally(n)'
    BY <1>6, AccountingThen DEF Accounting, NodeInv
  <2>. QED  BY <2>1, <2>2
<1>. DEFINE c == Cardinality(fwd[n].css)
            o == Cardinality(Owned(n))
            t == Taken(n)
<1>8. /\ c \in Nat /\ o \in Nat /\ t \in Nat /\ c >= 1
      /\ InFlight(n) = t * (c + o) /\ Taken(n)' = t /\ Cardinality(fwd'[n].css) = c - 1
      /\ InFlight(n)' = Taken(n)' * (Cardinality(fwd'[n].css) + Cardinality(Owned(n)'))
  <2>1. /\ IsFiniteSet(fwd[n].css) /\ c \in Nat /\ o \in Nat /\ t \in Nat
        /\ InFlight(n) = t * (c + o)
        /\ InFlight(n)' = Taken(n)' * (Cardinality(fwd'[n].css) + Cardinality(Owned(n)'))
        /\ Cardinality(fwd'[n].css) \in Nat
    BY <1>7 DEF Account
  <2>2. Cardinality(fwd'[n].css) = c - 1
    <3>1. fwd'[n].css = fwd[n].css \ {p} /\ p \in fwd[n].css
      OBVIOUS
    <3>. QED  BY <2>1, <3>1, FS_RemoveElement
  <2>3. Taken(n)' = t
    BY DEF Taken
  <2>. HIDE DEF c, o, t
  <2>. QED  BY <2>1, <2>2, <2>3
<1>9. Cardinality(Owned(n)') = IF owns /\ new # {} THEN o + 1 ELSE o
  <2>1. CASE owns /\ new # {}
    <3>1. Owned(n)' = Owned(n) \union {f}
      BY <1>2, <1>3, <2>1 DEF Owned
    <3>2. f \notin Owned(n)
      BY <1>1, <1>2 DEF Owned, NodeInv, Failing
    <3>3. IsFiniteSet(Owned(n))
      BY <1>7 DEF Account
    <3>. QED  BY <2>1, <3>1, <3>2, <3>3, FS_AddElement
  <2>2. CASE ~(owns /\ new # {})
    <3>1. Owned(n)' = Owned(n)
      BY <1>2, <1>3, <2>2 DEF Owned
    <3>. QED  BY <2>2, <3>1
  <2>. QED  BY <2>1, <2>2
<1>10. /\ InFlight(n)' = InFlight(n) - (IF owns /\ new # {} THEN 0 ELSE t)
       /\ InFlight(n) \in Nat /\ InFlight(n) >= t
  <2>. HIDE DEF c, o, t
  <2>1. c + o \in Nat /\ c + o >= 1
    BY <1>8
  <2>2. t * (c + o) \in Nat /\ t * ((c + o) - 1) = t * (c + o) - t /\ t * (c + o) >= t
    BY <1>8, <2>1, Product
  <2>3. CASE owns /\ new # {}
    <3>1. Cardinality(fwd'[n].css) + Cardinality(Owned(n)') = c + o
      BY <1>8, <1>9, <2>3
    <3>. QED  BY <1>8, <2>2, <2>3, <3>1
  <2>4. CASE ~(owns /\ new # {})
    <3>1. Cardinality(fwd'[n].css) + Cardinality(Owned(n)') = (c + o) - 1
      BY <1>8, <1>9, <2>4
    <3>. QED  BY <1>8, <2>2, <2>4, <3>1
  <2>. QED  BY <2>3, <2>4
<1>11. bundleData[n] # NoData => Counted(n)' = Counted(n)
  <2>1. ASSUME bundleData[n] # NoData
        PROVE  {bundleData[n].remainingCopies} \union {g.read.remainingCopies : g \in r.failed}
               = {bundleData[n].remainingCopies} \union {g.read.remainingCopies : g \in fwd[n].failed}
    BY <1>2, <1>3
  <2>. QED  BY <2>1 DEF Counted
<1>. DEFINE rest == CASE store[n] /\ bundleData[n] # NoData -> Counted(n)
                      [] ~store[n] /\ fwd[n].pc = "read" -> fwd[n].read.remainingCopies
                      [] OTHER -> 0
<1>12. rest \in Nat /\ CopiesOf(n) = InFlight(n) + rest /\ CopiesOf(n)' = InFlight(n)' + rest
  <2>1. rest \in Nat
    BY <1>1, <1>7 DEF Tally
  <2>2. CopiesOf(n) = InFlight(n) + rest
    BY DEF CopiesOf
  <2>3. CopiesOf(n)' = InFlight(n)' + rest
    BY <1>1, <1>11 DEF CopiesOf
  <2>. QED  BY <2>1, <2>2, <2>3
<1>13. store[n] /\ ~fwd[n].direct => rest >= 1
  <2>1. store[n] /\ ~fwd[n].direct => bundleData[n] # NoData /\ bundleData[n].remainingCopies >= 1
    BY <1>1 DEF NodeInv, Sending, Counting, Fits
  <2>. QED  BY <1>7, <2>1 DEF Tally
<1>. HIDE DEF rest
<1>14. /\ InFlight(n)' \in Nat /\ CopiesOf(n) \in Nat /\ CopiesOf(n)' \in Nat
       /\ \/ InFlight(n)' = InFlight(n) /\ CopiesOf(n)' = CopiesOf(n)
          \/ InFlight(n)' = InFlight(n) - t /\ CopiesOf(n)' = CopiesOf(n) - t
       /\ store[n] /\ ~fwd[n].direct => CopiesOf(n) >= InFlight(n) + 1
  <2>1. InFlight(n)' \in Nat /\ t \in Nat
    BY <1>7 DEF Account
  <2>. HIDE DEF t
  <2>. QED  BY <1>10, <1>12, <1>13, <2>1
<1>. QED  BY <1>1, <1>6, <1>8, <1>10, <1>14

(* The record of the run of forward after the goroutine of p *)
LEMMA FailedFrame ==
    ASSUME Types, NEW n \in Nodes, NEW p, NEW owns \in BOOLEAN, Failed(n, p, owns),
           NEW new, new = IF bundleData[n] = NoData THEN {}
                          ELSE {[peer |-> p, read |-> bundleData[n], owns |-> owns]}
    PROVE  /\ p \in fwd[n].css
           /\ fwd'[n].pc = fwd[n].pc /\ fwd'[n].direct = fwd[n].direct
           /\ fwd'[n].copies = fwd[n].copies /\ fwd'[n].css = fwd[n].css \ {p}
           /\ fwd'[n].failed = fwd[n].failed \union new
           /\ fwd' \in [Nodes -> Forwarding] /\ \A m \in Nodes : m # n => fwd'[m] = fwd[m]
<1>1. p \in fwd[n].css /\ fwd[n] \in Forwarding /\ fwd \in [Nodes -> Forwarding]
  BY DEF Failed, Types
<1>2. new \in SUBSET Failure
  <2>1. p \in Host /\ (bundleData[n] # NoData => bundleData[n] \in SprayMetaData)
    BY <1>1 DEF Forwarding, Types
  <2>. QED  BY <2>1 DEF Failure
<1>. DEFINE r == [fwd[n] EXCEPT !.css = @ \ {p}, !.failed = @ \union new]
<1>3. /\ r \in Forwarding /\ r.pc = fwd[n].pc /\ r.direct = fwd[n].direct
      /\ r.copies = fwd[n].copies /\ r.css = fwd[n].css \ {p} /\ r.failed = fwd[n].failed \union new
  BY <1>1, <1>2 DEF Forwarding
<1>4. fwd' = [fwd EXCEPT ![n] = r]
  <2>1. (IF bundleData[n] = NoData THEN fwd[n].failed
         ELSE fwd[n].failed \union {[peer |-> p, read |-> bundleData[n], owns |-> owns]})
        = fwd[n].failed \union new
    OBVIOUS
  <2>. QED  BY <1>1, <2>1 DEF Failed
<1>. HIDE DEF r
<1>5. fwd'[n] = r
  BY <1>1, <1>4
<1>. QED  BY <1>1, <1>3, <1>4, <1>5

LEMMA SendOkFrame ==
    ASSUME Types, NEW n \in Nodes, NEW p, SendOk(n, p)
    PROVE  /\ p \in fwd[n].css
           /\ fwd'[n].pc = fwd[n].pc /\ fwd'[n].direct = fwd[n].direct
           /\ fwd'[n].copies = fwd[n].copies /\ fwd'[n].css = fwd[n].css \ {p}
           /\ fwd'[n].failed = fwd[n].failed \union {}
           /\ fwd' \in [Nodes -> Forwarding] /\ \A m \in Nodes : m # n => fwd'[m] = fwd[m]
<1>1. p \in fwd[n].css /\ fwd[n] \in Forwarding /\ fwd \in [Nodes -> Forwarding]
  BY DEF SendOk, Types
<1>. DEFINE r == [fwd[n] EXCEPT !.css = @ \ {p}, !.ok = TRUE]
<1>3. /\ r \in Forwarding /\ r.pc = fwd[n].pc /\ r.direct = fwd[n].direct
      /\ r.copies = fwd[n].copies /\ r.css = fwd[n].css \ {p} /\ r.failed = fwd[n].failed \union {}
  BY <1>1 DEF Forwarding
<1>4. fwd' = [fwd EXCEPT ![n] = r]
  BY <1>1 DEF SendOk
<1>. HIDE DEF r
<1>5. fwd'[n] = r
  BY <1>1, <1>4
<1>. QED  BY <1>1, <1>3, <1>4, <1>5

LEMMA SendFailStep ==
    ASSUME IndInv, NEW n \in Nodes, NEW p, SendFail(n, p)
    PROVE  IndInv' /\ Abstract!Move
<1>0. PICK owns \in BOOLEAN : owns = ~fwd[n].direct
  OBVIOUS
<1>. DEFINE new == IF bundleData[n] = NoData THEN {}
                   ELSE {[peer |-> p, read |-> bundleData[n], owns |-> owns]}
<1>1. Types /\ Balanced(n) /\ NodeInv(n) /\ Failed(n, p, owns)
  BY <1>0 DEF IndInv, SendFail, Failed
<1>2. /\ p \in fwd[n].css
      /\ fwd'[n].pc = fwd[n].pc /\ fwd'[n].direct = fwd[n].direct
      /\ fwd'[n].copies = fwd[n].copies /\ fwd'[n].css = fwd[n].css \ {p}
      /\ fwd'[n].failed = fwd[n].failed \union new
      /\ fwd' \in [Nodes -> Forwarding] /\ \A m \in Nodes : m # n => fwd'[m] = fwd[m]
  <2>1. new = IF bundleData[n] = NoData THEN {}
              ELSE {[peer |-> p, read |-> bundleData[n], owns |-> owns]}
    OBVIOUS
  <2>. HIDE DEF new
  <2>2. CASE owns = TRUE
    <3>1. Failed(n, p, TRUE)
      BY <1>1, <2>2
    <3>2. new = IF bundleData[n] = NoData THEN {}
                ELSE {[peer |-> p, read |-> bundleData[n], owns |-> TRUE]}
      BY <2>1, <2>2
    <3>. QED  BY <1>1, <3>1, <3>2, FailedFrame
  <2>3. CASE owns = FALSE
    <3>1. Failed(n, p, FALSE)
      BY <1>1, <2>3
    <3>2. new = IF bundleData[n] = NoData THEN {}
                ELSE {[peer |-> p, read |-> bundleData[n], owns |-> FALSE]}
      BY <2>1, <2>3
    <3>. QED  BY <1>1, <3>1, <3>2, FailedFrame
  <2>. QED  BY <2>2, <2>3
<1>3. /\ algorithm' = algorithm /\ mule' = mule /\ expired' = expired /\ clash' = clash
      /\ store' = store /\ bundleData' = bundleData /\ due' = due /\ minted' = minted
  BY DEF SendFail, Failed
<1>4. Types'
  BY <1>1, <1>2, <1>3 DEF Types
<1>5. /\ new \in {{}, {[peer |-> p, read |-> bundleData[n], owns |-> owns]}}
      /\ new # {} <=> bundleData[n] # NoData
      /\ owns <=> ~fwd[n].direct
  BY <1>0
<1>. HIDE DEF new
<1>6. /\ NodeInv(n)' /\ fwd[n].pc = "send"
      /\ Taken(n) \in Nat /\ InFlight(n) \in Nat
      /\ InFlight(n)' = InFlight(n) - (IF owns /\ new # {} THEN 0 ELSE Taken(n))
      /\ CopiesOf(n)' = CopiesOf(n) \/ CopiesOf(n)' = CopiesOf(n) - Taken(n)
      /\ CopiesOf(n) \in Nat
  <2>. DEFINE r == fwd'[n]
  <2>1. fwd'[n] = r
    OBVIOUS
  <2>. HIDE DEF r
  <2>2. /\ r.pc = fwd[n].pc /\ r.direct = fwd[n].direct /\ r.copies = fwd[n].copies
        /\ r.css = fwd[n].css \ {p} /\ r.failed = fwd[n].failed \union new
    BY <1>2, <2>1
  <2>. QED  BY <1>1, <1>2, <1>3, <1>4, <1>5, <2>1, <2>2, Attempted
<1>7. CopiesOf(n)' <= CopiesOf(n)
  BY <1>6
<1>8. Balanced(n)'
  <2>1. fwd[n].direct => Taken(n) = 0
    BY DEF Taken
  <2>2. bundleData[n] # NoData => InFlight(n)' = InFlight(n)
    BY <1>5, <1>6, <2>1
  <2>. QED  BY <1>1, <1>3, <2>2 DEF Balanced
<1>. QED  BY <1>2, <1>3, <1>4, <1>6, <1>7, <1>8, Losing

(***************************************************************************)
(* Node p gets the bundle from n in the way of SendOk or SendUnheard, both *)
(* of which leave nothing behind that owns a copy.                         *)
(***************************************************************************)
LEMMA ReceiveStep ==
    ASSUME IndInv, NEW n \in Nodes, NEW p \in fwd[n].css, Receive(n, p), NEW new,
           new \in {{}, {[peer |-> p, read |-> bundleData[n], owns |-> FALSE]}},
           new # {} => bundleData[n] # NoData,
           fwd'[n].pc = fwd[n].pc, fwd'[n].direct = fwd[n].direct,
           fwd'[n].copies = fwd[n].copies, fwd'[n].css = fwd[n].css \ {p},
           fwd'[n].failed = fwd[n].failed \union new, fwd' \in [Nodes -> Forwarding],
           \A m \in Nodes : m # n => fwd'[m] = fwd[m],
           algorithm' = algorithm, mule' = mule, expired' = expired, clash' = clash
    PROVE  IndInv' /\ Abstract!Move
<1>. DEFINE k == fwd[n].copies
            b == NotifyNewBundle(p, n, k)
            isNew == p \in Nodes /\ ~expired /\ ~store[p]
<1>1. Types /\ NodeInv(n) /\ Balanced(n) /\ p \in Host
  BY DEF IndInv, Types, Forwarding
<1>2. fwd[n].pc = "send" /\ p # n
  <2>1. fwd[n].pc \in {"idle", "read", "send"} /\ n # Destination
    BY <1>1, SprayAssumption DEF Types, Forwarding
  <2>2. fwd[n].pc = "send"
    BY <1>1, <2>1, IdleFacts DEF NodeInv, Idling, Reading
  <2>. QED  BY <1>1, <2>1, <2>2 DEF NodeInv, Sending
<1>3. \E r : /\ fwd'[n] = r /\ r.pc = fwd[n].pc /\ r.direct = fwd[n].direct /\ r.copies = k
             /\ r.css = fwd[n].css \ {p} /\ r.failed = fwd[n].failed \union new
  OBVIOUS
<1>4. ASSUME Types', store'[n] = store[n], bundleData'[n] = bundleData[n]
      PROVE  /\ NodeInv(n)'
             /\ Taken(n) \in Nat /\ InFlight(n) \in Nat /\ InFlight(n) >= Taken(n)
             /\ InFlight(n)' = InFlight(n) - Taken(n) /\ CopiesOf(n)' = CopiesOf(n) - Taken(n)
             /\ CopiesOf(n) \in Nat /\ CopiesOf(n)' \in Nat
             /\ store[n] /\ ~fwd[n].direct => CopiesOf(n) >= InFlight(n) + 1
  <2>1. PICK r : /\ fwd'[n] = r /\ r.pc = fwd[n].pc /\ r.direct = fwd[n].direct /\ r.copies = fwd[n].copies
                 /\ r.css = fwd[n].css \ {p} /\ r.failed = fwd[n].failed \union new
    BY <1>3
  <2>2. PICK owns \in BOOLEAN : owns = FALSE
    OBVIOUS
  <2>3. new \in {{}, {[peer |-> p, read |-> bundleData[n], owns |-> owns]}} /\ (owns => ~fwd[n].direct)
    BY <2>2
  <2>4. /\ NodeInv(n)'
        /\ Taken(n) \in Nat /\ InFlight(n) \in Nat /\ InFlight(n) >= Taken(n)
        /\ InFlight(n)' = InFlight(n) - (IF owns /\ new # {} THEN 0 ELSE Taken(n))
        /\ \/ InFlight(n)' = InFlight(n) /\ CopiesOf(n)' = CopiesOf(n)
           \/ InFlight(n)' = InFlight(n) - Taken(n) /\ CopiesOf(n)' = CopiesOf(n) - Taken(n)
        /\ CopiesOf(n) \in Nat /\ CopiesOf(n)' \in Nat
        /\ store[n] /\ ~fwd[n].direct => CopiesOf(n) >= InFlight(n) + 1
    BY <1>4, <2>1, <2>2, <2>3, Attempted
  <2>5. InFlight(n)' = InFlight(n) - Taken(n)
    BY <2>2, <2>4
  <2>6. CopiesOf(n)' = CopiesOf(n) - Taken(n)
    BY <2>4, <2>5
  <2>. QED  BY <2>4, <2>5, <2>6
<1>5. Taken(n) \in Nat /\ k \in Nat
  BY <1>1 DEF Taken, Types, Forwarding
<1>6. ASSUME ~isNew
      PROVE  IndInv' /\ Abstract!Move
  <2>1. due' = [due EXCEPT ![n] = @ - Taken(n)] /\ store' = store /\ bundleData' = bundleData
        /\ minted' = minted
    BY <1>6 DEF Receive
  <2>2. due' \in [Nodes -> Int] /\ due'[n] = due[n] - Taken(n) /\ \A m \in Nodes : m # n => due'[m] = due[m]
    BY <1>1, <1>5, <2>1 DEF Types
  <2>3. Types'
    BY <1>1, <2>1, <2>2 DEF Types
  <2>4. /\ NodeInv(n)' /\ InFlight(n) \in Nat
        /\ InFlight(n)' = InFlight(n) - Taken(n)
        /\ CopiesOf(n)' <= CopiesOf(n)
    BY <1>4, <1>5, <2>1, <2>3
  <2>5. Balanced(n)'
    <3>1. bundleData[n] # NoData => bundleData[n].remainingCopies \in Nat
      BY <1>1 DEF Types, SprayMetaData
    <3>2. due[n] \in Int
      BY <1>1 DEF Types
    <3>. QED  BY <1>1, <1>5, <2>1, <2>2, <2>4, <3>1, <3>2 DEF Balanced
  <2>. QED  BY <2>1, <2>2, <2>3, <2>4, <2>5, Losing
<1>7. ASSUME isNew
      PROVE  IndInv' /\ Abstract!Move
  <2>1. p \in Nodes /\ ~expired /\ ~store[p] /\ store[n] /\ ~fwd[n].direct
        /\ k \in 1..L /\ (algorithm = "spray" => k = 1)
    <3>1. p \in Nodes /\ ~expired /\ ~store[p] /\ p # Destination
      BY <1>7, SprayAssumption
    <3>2. store[n]
      BY <1>1, <1>2, <3>1 DEF NodeInv, Living
    <3>. QED  BY <1>1, <1>2, <3>1, <3>2 DEF NodeInv, Sending
  <2>2. NodeInv(p) /\ fwd[p] = Idle
    <3>1. NodeInv(p)
      BY <2>1 DEF IndInv
    <3>. QED  BY <2>1, <3>1 DEF NodeInv, Living, Idling
  <2>3. /\ b \in SprayMetaData /\ Fits(b) /\ b # NoData /\ b.remainingCopies \in Nat
        /\ b.remainingCopies = IF algorithm = "spray" /\ p = Source THEN L ELSE k
    <3>1. L \in Nat \ {0} /\ {n} \in SUBSET (Nodes \union {Destination}) /\ k \in Nat
          /\ algorithm \in {"spray", "binary_spray"}
      BY <1>1, <1>5, SprayAssumption DEF Types
    <3>2. b \in SprayMetaData
      BY <3>1 DEF NotifyNewBundle, MetaData, SprayMetaData
    <3>3. b.remainingCopies = IF algorithm = "spray" /\ p = Source THEN L ELSE k
      BY <2>1, <3>1 DEF NotifyNewBundle, MetaData
    <3>4. Fits(b)
      BY <2>1, <3>1, <3>3 DEF Fits
    <3>5. b.remainingCopies \in Nat
      BY <3>1, <3>3
    <3>. QED  BY <3>2, <3>3, <3>4, <3>5, SprayAssumption
  <2>. DEFINE j == b.remainingCopies - k
  <2>4. j \in 0..L /\ b.remainingCopies = k + j /\ minted' = minted + j
    <3>1. L \in Nat \ {0} /\ minted \in Nat
      BY <1>1, SprayAssumption DEF Types
    <3>2. minted' = IF algorithm = "spray" /\ p = Source THEN minted + (L - k) ELSE minted
      BY <1>7 DEF Receive
    <3>. QED  BY <1>5, <2>1, <2>3, <3>1, <3>2
  <2>5. /\ store' = [store EXCEPT ![p] = TRUE]
        /\ bundleData' = [bundleData EXCEPT ![p] = b]
        /\ due' = [due EXCEPT ![p] = b.remainingCopies, ![n] = @ - Taken(n)]
    BY <1>7 DEF Receive
  <2>. HIDE DEF b, j
  <2>6. /\ store' \in [Nodes -> BOOLEAN] /\ store'[p] /\ \A m \in Nodes : m # p => store'[m] = store[m]
        /\ bundleData' \in [Nodes -> SprayMetaData \union {NoData}] /\ bundleData'[p] = b
        /\ \A m \in Nodes : m # p => bundleData'[m] = bundleData[m]
    BY <1>1, <2>1, <2>3, <2>5 DEF Types
  <2>7. /\ due' \in [Nodes -> Int] /\ due'[p] = b.remainingCopies /\ due'[n] = due[n] - Taken(n)
        /\ \A m \in Nodes : m \notin {n, p} => due'[m] = due[m]
    BY <1>1, <1>2, <1>5, <2>1, <2>3, <2>5 DEF Types
  <2>8. Types'
    <3>1. minted' \in Nat
      BY <1>1, <2>4 DEF Types
    <3>. QED  BY <1>1, <2>6, <2>7, <3>1 DEF Types
  <2>9. fwd'[p] = Idle
    BY <1>2, <2>1, <2>2
  <2>10. NodeInv(p)'
    <3>1. Idling(p)' /\ Reading(p)' /\ Sending(p)' /\ Counting(p)' /\ Living(p)'
      BY <2>1, <2>3, <2>6, <2>9, IdleFacts DEF Idling, Reading, Sending, Counting, Living, Fits, Idle
    <3>2. Failing(p)'
      BY <2>9, IdleFacts, FS_EmptySet DEF Failing
    <3>. QED  BY <3>1, <3>2 DEF NodeInv
  <2>11. CopiesOf(p) = 0 /\ CopiesOf(p)' = k + j /\ InFlight(p)' = 0
    <3>1. Rest(p)
      BY <1>1, <2>1, <2>2, AccountingNow DEF Accounting, NodeInv
    <3>2. Rest(p)'
      BY <2>1, <2>8, <2>10, AccountingThen DEF Accounting, NodeInv
    <3>3. CopiesOf(p) = 0
      BY <2>1, <2>2, <3>1, IdleFacts DEF Rest
    <3>4. CopiesOf(p)' = b.remainingCopies /\ InFlight(p)' = 0
      BY <2>3, <2>6, <2>9, <3>2, IdleFacts DEF Rest
    <3>. QED  BY <2>4, <3>3, <3>4
  <2>12. Balanced(p)'
    BY <2>3, <2>6, <2>7, <2>11 DEF Balanced
  <2>13. /\ NodeInv(n)' /\ Taken(n) = k /\ InFlight(n) \in Nat /\ InFlight(n) >= k
         /\ InFlight(n)' = InFlight(n) - k /\ CopiesOf(n)' = CopiesOf(n) - k
         /\ CopiesOf(n) \in Nat /\ CopiesOf(n) >= InFlight(n) + 1
    <3>1. Taken(n) = k
      BY <2>1 DEF Taken
    <3>. QED  BY <1>2, <1>4, <2>1, <2>6, <2>8, <3>1
  <2>14. Balanced(n)'
    <3>1. bundleData[n] # NoData => bundleData[n].remainingCopies \in Nat
      BY <1>1 DEF Types, SprayMetaData
    <3>2. due[n] \in Int
      BY <1>1 DEF Types
    <3>. QED  BY <1>1, <1>2, <1>5, <2>6, <2>7, <2>13, <3>1, <3>2 DEF Balanced
  <2>15. ASSUME NEW m \in Nodes, m \notin {n, p}
         PROVE  NodeInv(m)' /\ CopiesOf(m)' = CopiesOf(m) /\ Balanced(m)'
    BY <2>6, <2>7, <2>15, NodeFrame, BalanceFrame DEF IndInv
  <2>16. IndInv'
    BY <2>8, <2>10, <2>12, <2>13, <2>14, <2>15 DEF IndInv
  <2>17. CopiesOf(n) >= k + 1 /\ CopiesOf(p)' = CopiesOf(p) + k + j /\ CopiesOf(p) \in Nat
    BY <1>5, <2>4, <2>11, <2>13
  <2>18. store \in [Nodes -> BOOLEAN] /\ n # p
    BY <1>1, <1>2 DEF Types
  <2>19. \A m \in Nodes : m \notin {n, p} => CopiesOf(m)' = CopiesOf(m)
    BY <2>15
  <2>. HIDE DEF k, isNew
  <2>20. Abstract!Move
    BY <2>1, <2>4, <2>5, <2>13, <2>17, <2>18, <2>19, HandStep
  <2>. QED  BY <2>16, <2>20
<1>. QED  BY <1>6, <1>7

LEMMA SendOkStep ==
    ASSUME IndInv, NEW n \in Nodes, NEW p, SendOk(n, p)
    PROVE  IndInv' /\ Abstract!Move
<1>1. Types /\ Receive(n, p) /\ algorithm' = algorithm /\ mule' = mule /\ expired' = expired /\ clash' = clash
  BY DEF IndInv, SendOk
<1>0. PICK new : new = {}
  OBVIOUS
<1>2. new \in {{}, {[peer |-> p, read |-> bundleData[n], owns |-> FALSE]}} /\ (new # {} => bundleData[n] # NoData)
  BY <1>0
<1>3. /\ p \in fwd[n].css /\ fwd'[n].pc = fwd[n].pc /\ fwd'[n].direct = fwd[n].direct
      /\ fwd'[n].copies = fwd[n].copies /\ fwd'[n].css = fwd[n].css \ {p}
      /\ fwd'[n].failed = fwd[n].failed \union new
      /\ fwd' \in [Nodes -> Forwarding] /\ \A m \in Nodes : m # n => fwd'[m] = fwd[m]
  BY <1>0, <1>1, SendOkFrame
<1>. QED  BY <1>1, <1>2, <1>3, ReceiveStep

LEMMA SendUnheardStep ==
    ASSUME IndInv, NEW n \in Nodes, NEW p, SendUnheard(n, p)
    PROVE  IndInv' /\ Abstract!Move
<1>1. /\ Types /\ Receive(n, p) /\ Failed(n, p, FALSE)
      /\ algorithm' = algorithm /\ mule' = mule /\ expired' = expired /\ clash' = clash
  BY DEF IndInv, SendUnheard, Failed
<1>. DEFINE new == IF bundleData[n] = NoData THEN {}
                   ELSE {[peer |-> p, read |-> bundleData[n], owns |-> FALSE]}
<1>2. /\ new \in {{}, {[peer |-> p, read |-> bundleData[n], owns |-> FALSE]}}
      /\ new # {} => bundleData[n] # NoData
      /\ new = IF bundleData[n] = NoData THEN {}
               ELSE {[peer |-> p, read |-> bundleData[n], owns |-> FALSE]}
  OBVIOUS
<1>. HIDE DEF new
<1>3. /\ p \in fwd[n].css /\ fwd'[n].pc = fwd[n].pc /\ fwd'[n].direct = fwd[n].direct
      /\ fwd'[n].copies = fwd[n].copies /\ fwd'[n].css = fwd[n].css \ {p}
      /\ fwd'[n].failed = fwd[n].failed \union new
      /\ fwd' \in [Nodes -> Forwarding] /\ \A m \in Nodes : m # n => fwd'[m] = fwd[m]
  BY <1>1, <1>2, FailedFrame
<1>. QED  BY <1>1, <1>2, <1>3, ReceiveStep

LEMMA ReportFailureStep ==
    ASSUME IndInv, NEW n \in Nodes, ReportFailure(n)
    PROVE  IndInv' /\ Abstract!Move
<1>. DEFINE stale(f) == f.read # bundleData[n] \/ Cardinality(fwd[n].failed) > 1
            peers == {g.peer : g \in fwd[n].failed}
            mints(f) == algorithm = "spray" /\ ~f.owns
            one == IF algorithm = "spray" THEN 1 ELSE 0
<1>1. PICK f \in fwd[n].failed :
        /\ \E gone \in IF stale(f) THEN SUBSET peers ELSE {{f.peer}} :
              bundleData' = [bundleData EXCEPT ![n] =
                  MetaData(f.read.sent \ gone,
                           Returned(f.read, {f.peer}).remainingCopies)]
        /\ fwd' = [fwd EXCEPT ![n].failed = @ \ {f}]
        /\ minted' = IF mints(f) THEN minted + 1 ELSE minted
        /\ due' = IF mints(f) THEN [due EXCEPT ![n] = @ + 1] ELSE due
        /\ clash' = IF stale(f) THEN clash \union {n} ELSE clash
        /\ UNCHANGED <<algorithm, mule, expired, store, fails>>
  BY DEF ReportFailure
<1>2. PICK gone : bundleData' = [bundleData EXCEPT ![n] =
                  MetaData(f.read.sent \ gone, Returned(f.read, {f.peer}).remainingCopies)]
  BY <1>1
<1>3. Types /\ NodeInv(n) /\ Balanced(n)
  BY DEF IndInv
<1>4. /\ f \in Failure /\ f.read \in SprayMetaData /\ f.read.remainingCopies \in Nat
      /\ f.owns \in BOOLEAN /\ f.read.sent \in SUBSET Host
      /\ fwd[n].pc = "send" /\ Fits(f.read) /\ (f.owns => ~fwd[n].direct)
      /\ store[n] => bundleData[n] # NoData
  <2>1. f \in Failure
    BY <1>3 DEF Types, Forwarding
  <2>. QED  BY <1>3, <2>1 DEF NodeInv, Failing, Failure, SprayMetaData, Host
<1>. DEFINE b == MetaData(f.read.sent \ gone, Returned(f.read, {f.peer}).remainingCopies)
<1>5. /\ b \in SprayMetaData /\ b # NoData
      /\ b.remainingCopies = f.read.remainingCopies + one /\ b.remainingCopies \in Nat
  <2>1. Cardinality({f.peer}) = 1
    BY FS_Singleton
  <2>2. Returned(f.read, {f.peer}).remainingCopies = f.read.remainingCopies + one
    BY <1>4, <2>1 DEF Returned, MetaData
  <2>3. f.read.remainingCopies + one \in Nat
    BY <1>4
  <2>4. b \in SprayMetaData /\ b.remainingCopies = f.read.remainingCopies + one
    BY <1>4, <2>2, <2>3 DEF MetaData, SprayMetaData, Host
  <2>. QED  BY <2>3, <2>4, SprayAssumption
<1>6. Fits(b)
  BY <1>4, <1>5 DEF Fits
<1>7. bundleData' = [bundleData EXCEPT ![n] = b]
  BY <1>2
<1>. HIDE DEF b
<1>8. /\ bundleData' \in [Nodes -> SprayMetaData \union {NoData}] /\ bundleData'[n] = b
      /\ \A m \in Nodes : m # n => bundleData'[m] = bundleData[m]
  BY <1>3, <1>5, <1>7 DEF Types
<1>9. /\ algorithm' = algorithm /\ mule' = mule /\ expired' = expired /\ store' = store
      /\ clash \subseteq clash'
  BY <1>1
<1>10. /\ fwd'[n].pc = "send" /\ fwd'[n].direct = fwd[n].direct /\ fwd'[n].css = fwd[n].css
       /\ fwd'[n].copies = fwd[n].copies /\ fwd'[n].failed = fwd[n].failed \ {f}
       /\ fwd' \in [Nodes -> Forwarding] /\ \A m \in Nodes : m # n => fwd'[m] = fwd[m]
  <2>. DEFINE r == [fwd[n] EXCEPT !.failed = @ \ {f}]
  <2>1. fwd[n] \in Forwarding /\ fwd \in [Nodes -> Forwarding]
    BY <1>3 DEF Types
  <2>2. /\ r \in Forwarding /\ r.pc = "send" /\ r.direct = fwd[n].direct /\ r.css = fwd[n].css
        /\ r.copies = fwd[n].copies /\ r.failed = fwd[n].failed \ {f}
    BY <1>4, <2>1 DEF Forwarding
  <2>3. fwd' = [fwd EXCEPT ![n] = r]
    BY <1>1, <2>1
  <2>. HIDE DEF r
  <2>4. fwd'[n] = r
    BY <2>1, <2>3
  <2>. QED  BY <2>1, <2>2, <2>3, <2>4
<1>11. /\ minted' \in Nat /\ clash' \subseteq Nodes /\ due' \in [Nodes -> Int]
       /\ \A m \in Nodes : m # n => due'[m] = due[m]
       /\ due'[n] = IF mints(f) THEN due[n] + 1 ELSE due[n]
  BY <1>1, <1>3 DEF Types
<1>12. Types'
  BY <1>3, <1>8, <1>9, <1>10, <1>11 DEF Types
<1>13. NodeInv(n)'
  <2>1. Idling(n)' /\ Reading(n)' /\ Counting(n)' /\ Living(n)'
    BY <1>3, <1>4, <1>6, <1>8, <1>9, <1>10 DEF NodeInv, Idling, Reading, Counting, Living, Fits
  <2>2. Sending(n)'
    BY <1>3, <1>4, <1>5, <1>8, <1>9, <1>10 DEF NodeInv, Sending
  <2>3. Failing(n)'
    <3>1. Failing(n)
      BY <1>3 DEF NodeInv
    <3>2. IsFiniteSet(fwd'[n].failed)
      BY <1>10, <3>1, FS_RemoveElement DEF Failing
    <3>3. \A g \in fwd'[n].failed :
            g.peer \notin fwd'[n].css /\ Fits(g.read) /\ (g.owns => ~fwd'[n].direct)
      BY <1>10, <3>1 DEF Failing
    <3>4. \E max \in Nat : \A g \in fwd'[n].failed : g.read.remainingCopies <= max
      BY <1>10, <3>1 DEF Failing
    <3>. QED  BY <1>5, <1>8, <1>9, <1>10, <3>2, <3>3, <3>4 DEF Failing, Fits
  <2>. QED  BY <2>1, <2>2, <2>3 DEF NodeInv
<1>14. Account(n) /\ Tally(n) /\ Account(n)' /\ Tally(n)'
  <2>1. Account(n) /\ Tally(n)
    BY <1>3, AccountingNow DEF Accounting, NodeInv
  <2>2. Account(n)' /\ Tally(n)'
    BY <1>12, <1>13, AccountingThen DEF Accounting, NodeInv
  <2>. QED  BY <2>1, <2>2
<1>. DEFINE c == Cardinality(fwd[n].css)
            o == Cardinality(Owned(n))
            t == Taken(n)
<1>15. /\ InFlight(n) \in Nat /\ InFlight(n)' \in Nat /\ t \in Nat
       /\ InFlight(n)' = InFlight(n) - (IF f.owns THEN t ELSE 0)
  <2>1. /\ c \in Nat /\ o \in Nat /\ t \in Nat /\ IsFiniteSet(Owned(n))
        /\ InFlight(n) = t * (c + o) /\ InFlight(n) \in Nat /\ InFlight(n)' \in Nat
        /\ InFlight(n)' = Taken(n)' * (Cardinality(fwd'[n].css) + Cardinality(Owned(n)'))
        /\ Cardinality(Owned(n)') \in Nat
    BY <1>14 DEF Account
  <2>2. Taken(n)' = t /\ Cardinality(fwd'[n].css) = c
    BY <1>10 DEF Taken
  <2>3. CASE f.owns
    <3>1. Owned(n)' = Owned(n) \ {f} /\ f \in Owned(n)
      BY <1>10, <2>3 DEF Owned
    <3>2. Cardinality(Owned(n)') = o - 1
      BY <2>1, <3>1, FS_RemoveElement
    <3>. HIDE DEF c, o, t
    <3>3. c + o \in Nat /\ c + o >= 1 /\ c + Cardinality(Owned(n)') = (c + o) - 1
      BY <2>1, <3>2
    <3>4. t * ((c + o) - 1) = t * (c + o) - t
      BY <2>1, <3>3, Product
    <3>. QED  BY <2>1, <2>2, <2>3, <3>3, <3>4
  <2>4. CASE ~f.owns
    <3>1. Owned(n)' = Owned(n)
      BY <1>10, <2>4 DEF Owned
    <3>. QED  BY <2>1, <2>2, <2>4, <3>1
  <2>. QED  BY <2>3, <2>4
<1>16. f.owns => t >= 1 /\ (algorithm = "spray" => t = 1)
  BY <1>3, <1>4 DEF NodeInv, Sending, Taken
<1>17. CopiesOf(n)' <= CopiesOf(n) + (IF mints(f) THEN 1 ELSE 0)
  <2>0. CopiesOf(n) \in Nat /\ CopiesOf(n)' \in Nat
    BY <1>14 DEF Account
  <2>1. CASE ~store[n]
    <3>1. CopiesOf(n) = InFlight(n) + 0 /\ CopiesOf(n)' = InFlight(n)' + 0
      BY <1>4, <1>9, <1>10, <2>1 DEF CopiesOf
    <3>. HIDE DEF t
    <3>. QED  BY <1>15, <3>1
  <2>2. CASE store[n]
    <3>1. /\ Counted(n) \in Nat /\ f.read.remainingCopies <= Counted(n)
          /\ \A g \in fwd[n].failed : g.read.remainingCopies \in Nat
                                      /\ g.read.remainingCopies <= Counted(n)
      BY <1>4, <1>14, <2>2 DEF Tally
    <3>2. /\ Counted(n)' \in Nat
          /\ \/ Counted(n)' = b.remainingCopies
             \/ \E g \in fwd'[n].failed : Counted(n)' = g.read.remainingCopies
      BY <1>5, <1>8, <1>14 DEF Tally
    <3>3. Counted(n)' <= Counted(n) + one
      <4>1. CASE Counted(n)' = b.remainingCopies
        BY <1>4, <1>5, <3>1, <4>1
      <4>2. CASE \E g \in fwd'[n].failed : Counted(n)' = g.read.remainingCopies
        BY <1>10, <3>1, <4>2
      <4>. QED  BY <3>2, <4>1, <4>2
    <3>4. CopiesOf(n) = InFlight(n) + Counted(n)
      BY <1>4, <2>2 DEF CopiesOf
    <3>5. CopiesOf(n)' = InFlight(n)' + Counted(n)'
      BY <1>5, <1>8, <1>9, <2>2 DEF CopiesOf
    <3>. HIDE DEF t
    <3>. QED  BY <1>4, <1>15, <1>16, <3>1, <3>2, <3>3, <3>4, <3>5
  <2>. QED  BY <2>1, <2>2
<1>18. Balanced(n)'
  <2>1. ASSUME algorithm = "spray", store[n], n \notin clash'
        PROVE  b.remainingCopies + InFlight(n)' = due'[n]
    <3>1. f.read = bundleData[n] /\ n \notin clash /\ bundleData[n] # NoData
      BY <1>1, <1>4, <2>1
    <3>2. f.read.remainingCopies + InFlight(n) = due[n]
      BY <1>3, <2>1, <3>1 DEF Balanced
    <3>3. due[n] \in Int
      BY <1>3 DEF Types
    <3>. HIDE DEF t
    <3>. QED  BY <1>4, <1>5, <1>11, <1>15, <1>16, <2>1, <3>2, <3>3
  <2>. QED  BY <1>8, <1>9, <2>1 DEF Balanced
<1>19. CASE ~mints(f)
  <2>1. minted' = minted /\ CopiesOf(n)' <= CopiesOf(n)
    <3>1. CopiesOf(n) \in Nat /\ CopiesOf(n)' \in Nat
      BY <1>14 DEF Account
    <3>. QED  BY <1>1, <1>17, <1>19, <3>1
  <2>. HIDE DEF mints
  <2>. QED  BY <1>8, <1>9, <1>10, <1>11, <1>12, <1>13, <1>18, <2>1, Losing
<1>20. CASE mints(f)
  <2>1. minted' = minted + 1 /\ CopiesOf(n)' <= CopiesOf(n) + 1
    BY <1>1, <1>17, <1>20
  <2>. HIDE DEF mints
  <2>2. IndInv' /\ \A m \in Nodes : m # n => CopiesOf(m)' = CopiesOf(m)
    BY <1>8, <1>9, <1>10, <1>11, <1>12, <1>13, <1>18, OneNode
  <2>3. CopiesOf(n) \in Nat /\ CopiesOf(n)' \in Nat
    BY <1>14 DEF Account
  <2>. QED  BY <1>9, <2>1, <2>2, <2>3, MintStep
<1>. QED  BY <1>19, <1>20

LEMMA DeleteExpiredStep ==
    ASSUME IndInv, DeleteExpired
    PROVE  IndInv' /\ Abstract!Move
<1>1. Types /\ ~expired /\ expired'
      /\ algorithm' = algorithm /\ bundleData' = bundleData /\ fwd' = fwd /\ minted' = minted
  BY DEF IndInv, DeleteExpired
<1>2. Types' /\ store' = [m \in Nodes |-> FALSE]
  BY <1>1 DEF Types, DeleteExpired
<1>3. ASSUME NEW m \in Nodes
      PROVE  NodeInv(m)' /\ Balanced(m)' /\ CopiesOf(m)' <= CopiesOf(m)
  <2>1. NodeInv(m)
    BY DEF IndInv
  <2>2. NodeInv(m)'
    <3>1. Idling(m)' /\ Reading(m)' /\ Sending(m)' /\ Counting(m)' /\ Living(m)'
      BY <1>1, <1>2, <2>1 DEF NodeInv, Idling, Reading, Sending, Counting, Living, Fits, Idle
    <3>2. Failing(m)'
      BY <1>1, <1>2, <2>1 DEF NodeInv, Failing, Fits
    <3>. QED  BY <3>1, <3>2 DEF NodeInv
  <2>3. Balanced(m)'
    BY <1>2 DEF Balanced
  <2>4. Account(m) /\ Tally(m)
    BY <1>1, <2>1, AccountingNow DEF Accounting, NodeInv
  <2>5. InFlight(m)' = InFlight(m) /\ InFlight(m) \in Nat
    BY <1>1, <2>4 DEF InFlight, Taken, Account
  <2>6. CopiesOf(m)' <= CopiesOf(m)
    <3>1. ~store'[m] /\ fwd'[m] = fwd[m]
      BY <1>1, <1>2
    <3>2. CASE fwd[m].pc # "read"
      <4>1. CopiesOf(m)' = InFlight(m) + 0
        BY <2>5, <3>1, <3>2 DEF CopiesOf
      <4>2. CopiesOf(m) = InFlight(m) + 0 \/ (store[m] /\ bundleData[m] # NoData /\ CopiesOf(m) = InFlight(m) + Counted(m))
        BY <3>2 DEF CopiesOf
      <4>. QED  BY <2>4, <2>5, <4>1, <4>2 DEF Tally
    <3>3. CASE fwd[m].pc = "read"
      <4>1. /\ fwd[m].read \in SprayMetaData /\ fwd[m].read # NoData /\ fwd[m].read.remainingCopies \in Nat
            /\ store[m] => bundleData[m] = fwd[m].read
        BY <2>1, <3>3, SprayAssumption DEF NodeInv, Reading, SprayMetaData
      <4>2. CopiesOf(m)' = InFlight(m) + fwd[m].read.remainingCopies
        BY <2>5, <3>1, <3>3 DEF CopiesOf
      <4>3. store[m] => CopiesOf(m) = InFlight(m) + Counted(m)
                        /\ Counted(m) \in Nat /\ fwd[m].read.remainingCopies <= Counted(m)
        BY <2>4, <4>1 DEF CopiesOf, Tally
      <4>4. ~store[m] => CopiesOf(m) = InFlight(m) + fwd[m].read.remainingCopies
        BY <3>3 DEF CopiesOf
      <4>. QED  BY <2>5, <4>1, <4>2, <4>3, <4>4
    <3>. QED  BY <3>2, <3>3
  <2>. QED  BY <2>2, <2>3, <2>6
<1>4. Abstract!Expire
  <2>1. Carriers' = {}
    BY <1>2 DEF Carriers
  <2>2. DOMAIN Copies' = Nodes
    BY DEF Copies
  <2>3. \A m \in Nodes : Copies'[m] <= Copies[m]
    BY <1>3 DEF Copies
  <2>. QED  BY <1>1, <2>1, <2>2, <2>3 DEF Abstract!Expire, Carriers, Copies
<1>. QED  BY <1>2, <1>3, <1>4 DEF IndInv, Abstract!Move
-----------------------------------------------------------------------------
LEMMA Initially ==
    ASSUME Init
    PROVE  IndInv /\ Abstract!Start
<1>1. L \in Nat /\ L >= 1 /\ Source \in Nodes
  BY SprayAssumption
<1>2. MetaData({}, L) \in SprayMetaData /\ MetaData({}, L) # NoData /\ MetaData({}, L).remainingCopies = L
  BY <1>1, SprayAssumption DEF MetaData, SprayMetaData
<1>3. Types
  <2>1. store \in [Nodes -> BOOLEAN] /\ bundleData \in [Nodes -> SprayMetaData \union {NoData}]
    BY <1>2 DEF Init
  <2>2. fwd \in [Nodes -> Forwarding]
    BY IdleFacts DEF Init
  <2>3. due \in [Nodes -> Int]
    BY <1>1 DEF Init
  <2>. QED  BY <2>1, <2>2, <2>3 DEF Init, Types
<1>4. ASSUME NEW n \in Nodes
      PROVE  NodeInv(n) /\ Balanced(n) /\ CopiesOf(n) = IF n = Source THEN L ELSE 0
  <2>1. fwd[n] = Idle /\ (store[n] <=> n = Source) /\ ~expired /\ due[n] = (IF n = Source THEN L ELSE 0)
        /\ bundleData[n] = (IF n = Source THEN MetaData({}, L) ELSE NoData)
    BY DEF Init
  <2>2. Idling(n) /\ Reading(n) /\ Sending(n) /\ Counting(n) /\ Living(n)
    BY <1>1, <1>2, <2>1, IdleFacts DEF Idling, Reading, Sending, Counting, Living, Fits
  <2>3. Failing(n)
    BY <2>1, IdleFacts, FS_EmptySet DEF Failing
  <2>4. Rest(n)
    BY <1>3, <2>2, <2>3, AccountingNow DEF Accounting
  <2>5. InFlight(n) = 0 /\ CopiesOf(n) = IF n = Source THEN L ELSE 0
    BY <1>2, <2>1, <2>4, IdleFacts DEF Rest
  <2>. QED  BY <1>1, <1>2, <2>1, <2>2, <2>3, <2>5 DEF NodeInv, Balanced
<1>5. Carriers = {Source} /\ Copies = [n \in Nodes |-> IF n = Source THEN L ELSE 0] /\ minted = 0
  BY <1>1, <1>4 DEF Carriers, Copies, Init
<1>. QED  BY <1>3, <1>4, <1>5 DEF IndInv, Abstract!Start, Carriers, Copies

LEMMA Stepping ==
    ASSUME IndInv, [Next]_vars
    PROVE  IndInv' /\ [Abstract!Move]_(Abstract!budget)
<1>1. CASE Next
  <2>1. IndInv' /\ Abstract!Move
    BY <1>1, ForwardStep, SelectStep, ForwardEndStep, GarbageCollectStep, RestartStep,
       SendOkStep, SendFailStep, SendUnheardStep, ReportFailureStep, DeleteExpiredStep DEF Next
  <2>. QED  BY <2>1
<1>2. CASE UNCHANGED vars
  <2>1. /\ algorithm' = algorithm /\ mule' = mule /\ expired' = expired /\ store' = store
        /\ bundleData' = bundleData /\ fwd' = fwd /\ minted' = minted /\ due' = due /\ clash' = clash
    BY <1>2 DEF vars
  <2>2. Types'
    BY <2>1 DEF IndInv, Types
  <2>3. ASSUME NEW m \in Nodes
        PROVE  NodeInv(m)' /\ Balanced(m)' /\ CopiesOf(m)' = CopiesOf(m)
    BY <2>1, NodeFrame, BalanceFrame DEF IndInv
  <2>4. Carriers' = Carriers /\ Copies' = Copies
    BY <2>1, <2>3 DEF Carriers, Copies
  <2>5. UNCHANGED Abstract!budget
    BY <2>1, <2>4 DEF Abstract!budget, Carriers, Copies
  <2>. QED  BY <2>2, <2>3, <2>5 DEF IndInv
<1>. QED  BY <1>1, <1>2

LEMMA Invariance == Spec => []IndInv
<1>1. Init => IndInv
  BY Initially
<1>2. IndInv /\ [Next]_vars => IndInv'
  BY Stepping
<1>. QED  BY <1>1, <1>2, PTL DEF Spec

(***************************************************************************)
(* In any network, unless two ReportFailures of a node overlapped, what    *)
(* SprayAndWait counts is what it began with, less the copies that others  *)
(* got, less the ones under way: a failed transmission gives its copy back *)
(* (ReportFailure).                                                        *)
(***************************************************************************)
THEOREM Returning == Spec => []CopiesReturn
<1>1. IndInv => CopiesReturn
  BY DEF IndInv, Balanced, CopiesReturn
<1>. QED  BY <1>1, Invariance, PTL

(***************************************************************************)
(* Spraying implements the copy budget, with both algorithms, with or      *)
(* without a mule, and whatever fails: every step of a node hands copies   *)
(* over, loses some, or mints one where minted says so.                    *)
(***************************************************************************)
THEOREM Spraying == Spec => KeepsBudget
<1>1. Init => Abstract!Start
  BY Initially
<1>2. IndInv /\ [Next]_vars => [Abstract!Move]_(Abstract!budget)
  BY Stepping
<1>. QED  BY <1>1, <1>2, Invariance, PTL DEF Spec, KeepsBudget, Abstract!Budget
=============================================================================
