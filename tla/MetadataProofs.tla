--------------------------- MODULE MetadataProofs ---------------------------
(***************************************************************************)
(* Proofs about the two routing algorithms that exchange metadata, for any *)
(* number of nodes, any announcements and any parameters: DTLSR's table is *)
(* up to date when its flags are down, and PRoPHET's sent list names no    *)
(* peer that is left out.                                                  *)
(***************************************************************************)
EXTENDS MCMetadata, TLAPS

(* DTLSR: while broadcastCron is at work, the flag it takes down is up *)
Raised == broadcast.pc # "idle" => peerChange

TableInv == FreshTable /\ Raised

LEMMA EmptyTable == Init => TableInv
  <1> SUFFICES ASSUME Init
               PROVE  TableInv
    OBVIOUS
  <1>1. Graph.nodes \ {Self} = {}
    BY DEF Init, Graph
  <1>2. routingTable \in Tables(Graph, computed)
    <2>1. routingTable \in [{} -> DOMAIN LinksOf(Graph, Self)]
      BY DEF Init, NoLinks
    <2> QED
      BY <1>1, <2>1 DEF Tables
  <1> QED
    BY <1>2 DEF TableInv, FreshTable, Raised, Init

(* Every step that changes the graph leaves one flag up *)
LEMMA GraphKept ==
    ASSUME TableInv, UNCHANGED <<peers, receivedData, tracked, routingTable, computed>>,
           ~peerChange' /\ ~receivedChange' => ~peerChange /\ ~receivedChange
    PROVE  FreshTable'
  <1>1. Graph' = Graph
    BY DEF Graph
  <1>2. Tables(Graph, computed)' = Tables(Graph, computed)
    BY <1>1
  <1> QED
    BY <1>2 DEF TableInv, FreshTable

LEMMA TableKept == TableInv /\ [Next]_vars => TableInv'
  <1> SUFFICES ASSUME TableInv, [Next]_vars
               PROVE  TableInv'
    OBVIOUS
  <1> USE DEF Raised
  <1>1. ASSUME NEW p \in Neighbours, ReportPeerAppeared(p) \/ ReportPeerDisappeared(p)
        PROVE  TableInv'
    BY <1>1 DEF ReportPeerAppeared, ReportPeerDisappeared, Changed, TableInv, FreshTable
  <1>2. ASSUME NEW data \in Incoming, NotifyNewBundle(data)
        PROVE  TableInv'
    BY <1>2 DEF NotifyNewBundle, TableInv, FreshTable
  <1>3. CASE RecomputeStart
    BY <1>3, GraphKept DEF RecomputeStart, TableInv
  <1>4. CASE RecomputeEnd
    <2>1. Graph' = Graph /\ computed' = clock /\ routingTable' \in Tables(Graph, clock)
      BY <1>4 DEF RecomputeEnd, Graph
    <2>2. Tables(Graph, computed)' = Tables(Graph, clock)
      BY <2>1
    <2>3. FreshTable'
      BY <2>1, <2>2 DEF FreshTable
    <2> QED
      BY <1>4, <2>3 DEF RecomputeEnd, TableInv
  <1>5. CASE BroadcastStart
    BY <1>5, GraphKept DEF BroadcastStart, TableInv
  <1>6. CASE BroadcastSend
    <2>1. peerChange /\ peerChange'
      BY <1>6 DEF BroadcastSend, TableInv
    <2> QED
      BY <2>1 DEF TableInv, FreshTable
  <1>7. CASE BroadcastReset
    BY <1>7 DEF BroadcastReset, TableInv, FreshTable
  <1>8. CASE SenderForBundle
    BY <1>8, GraphKept DEF SenderForBundle, TableInv
  <1>8a. CASE AnnouncementExpires
    BY <1>8a, GraphKept DEF AnnouncementExpires, TableInv
  <1>9. CASE PurgePeers
    BY <1>9 DEF PurgePeers, TableInv, FreshTable
  <1>10. CASE Tick
    BY <1>10, GraphKept DEF Tick, TableInv
  <1>11. CASE UNCHANGED vars
    BY <1>11, GraphKept DEF vars, TableInv
  <1> QED
    BY <1>1, <1>2, <1>3, <1>4, <1>5, <1>6, <1>7, <1>8, <1>8a, <1>9, <1>10, <1>11 DEF Next

(* Neither flag of DTLSR gets lost: when both are down, the table is one   *)
(* of shortest paths in the data the node has, whatever recomputeCron,     *)
(* broadcastCron, purgePeers and the core do in between.                   *)
THEOREM UpToDate == MCSpec => []FreshTable
  <1>1. MCInit => TableInv
    BY EmptyTable DEF MCInit
  <1>2. TableInv /\ [MCNext]_<<algorithm, vars, pvars>> => TableInv'
    BY TableKept DEF MCNext
  <1>3. TableInv => FreshTable
    BY DEF TableInv
  <1> QED
    BY <1>1, <1>2, <1>3, PTL DEF MCSpec
-----------------------------------------------------------------------------
(* PRoPHET: the failures that are not reported yet, and the runs *)
Failure == [peer: Peers, read: SUBSET Peers]
Run == [pc: {"idle", "write", "send"}, read: SUBSET Peers, css: SUBSET Peers,
        failed: SUBSET Failure]

RunType ==
    /\ item \in (SUBSET Peers) \cup {NoBundle} /\ connected \subseteq Peers
    /\ fwd \in [Runs -> Run]

SentInv == RunType /\ ProphetSentIsTrue

(* What a run has under way, by its record *)
Open(q) == IF q.pc = "send" THEN q.css \cup {f.peer : f \in q.failed} ELSE {}

LEMMA NothingSent == P!Init => SentInv
  <1> SUFFICES ASSUME P!Init
               PROVE  SentInv
    OBVIOUS
  <1>1. item = NoBundle /\ connected = {}
    BY DEF P!Init
  <1>2. P!Idle \in Run
    BY DEF P!Idle, Run
  <1>3. fwd \in [Runs -> Run]
    BY <1>2 DEF P!Init
  <1> QED
    BY <1>1, <1>3 DEF SentInv, RunType, ProphetSentIsTrue, P!SentIsTrue

(* Steps that change neither the item nor a run *)
LEMMA SentUnmoved ==
    ASSUME SentInv, UNCHANGED <<item, fwd, got, overwrote>>, connected' \subseteq Peers
    PROVE  SentInv'
  <1>1. \A r \in Runs : P!Underway(r)' = P!Underway(r)
    BY DEF P!Underway
  <1> QED
    BY <1>1 DEF SentInv, RunType, ProphetSentIsTrue, P!SentIsTrue

(* Steps that change the item alone *)
LEMMA ItemSent ==
    ASSUME SentInv, UNCHANGED <<connected, fwd, overwrote>>, got \subseteq got',
           item' = NoBundle \/ item' \subseteq got' \/ (item # NoBundle /\ item' \subseteq item \cup got'),
           item' \in (SUBSET Peers) \cup {NoBundle}
    PROVE  SentInv'
  <1>1. \A r \in Runs : P!Underway(r)' = P!Underway(r)
    BY DEF P!Underway
  <1>2. P!SentIsTrue'
    <2> SUFFICES ASSUME item' # NoBundle, ~overwrote', NEW p \in item'
                 PROVE  p \in got' \/ \E r \in Runs : p \in P!Underway(r)'
      BY DEF P!SentIsTrue
    <2>1. p \in got' \/ (item # NoBundle /\ p \in item)
      OBVIOUS
    <2>2. ~overwrote
      OBVIOUS
    <2> QED
      BY <1>1, <2>1, <2>2 DEF SentInv, ProphetSentIsTrue, P!SentIsTrue
  <1>3. RunType'
    BY DEF SentInv, RunType
  <1> QED
    BY <1>2, <1>3 DEF SentInv, ProphetSentIsTrue

(* Steps of a run: what it has under way and lets go of must be off the    *)
(* list by then, or have arrived.                                          *)
LEMMA RunSent ==
    ASSUME SentInv, NEW r \in Runs, NEW q \in Run, fwd' = [fwd EXCEPT ![r] = q],
           connected' = connected, item' \in (SUBSET Peers) \cup {NoBundle},
           got \subseteq got', ~overwrote' => ~overwrote,
           ASSUME item' # NoBundle, ~overwrote'
           PROVE  /\ item # NoBundle /\ item' \subseteq item \cup got' \cup Open(q)
                  /\ Open(fwd[r]) \cap item' \subseteq got' \cup Open(q)
    PROVE  SentInv'
  <1>1. RunType /\ P!SentIsTrue
    BY DEF SentInv, ProphetSentIsTrue
  <1>2. RunType'
    BY <1>1 DEF RunType
  <1>3. fwd'[r] = q /\ \A s \in Runs : s # r => fwd'[s] = fwd[s]
    BY <1>1 DEF RunType
  <1>4. \A s \in Runs : P!Underway(s) = Open(fwd[s]) /\ P!Underway(s)' = Open(fwd'[s])
    BY DEF P!Underway, Open
  <1>5. ASSUME item' # NoBundle, ~overwrote', NEW p \in item'
        PROVE  p \in got' \/ \E s \in Runs : p \in P!Underway(s)'
    <2>1. CASE p \in got' \cup Open(q)
      BY <1>3, <1>4, <2>1
    <2>2. CASE p \in item /\ p \notin got' \cup Open(q)
      <3>1. p \notin got /\ p \notin Open(fwd[r])
        BY <1>5, <2>2
      <3>2. PICK s \in Runs : p \in P!Underway(s)
        BY <1>1, <1>5, <2>2, <3>1 DEF P!SentIsTrue
      <3>3. s # r
        BY <1>4, <3>1, <3>2
      <3> QED
        BY <1>3, <1>4, <3>2, <3>3
    <2> QED
      BY <1>5, <2>1, <2>2
  <1>6. P!SentIsTrue'
    BY <1>5 DEF P!SentIsTrue
  <1> QED
    BY <1>2, <1>6 DEF SentInv, ProphetSentIsTrue

LEMMA SenderSent ==
    ASSUME SentInv, NEW r \in Runs, P!SenderRead(r) \/ P!SenderWrite(r)
    PROVE  SentInv'
  <1>1. RunType /\ fwd[r] \in Run
    BY DEF SentInv, RunType
  <1>2. CASE P!SenderRead(r)
    <2>1. PICK better : better = {p \in connected :
                                     peerPredictabilities[p] > predictabilities[Destination]}
      OBVIOUS
    <2>2. PICK q : q = [P!Idle EXCEPT !.pc = "write", !.read = item, !.css = better \ item]
      OBVIOUS
    <2>3. /\ item # NoBundle /\ fwd[r].pc = "idle" /\ fwd' = [fwd EXCEPT ![r] = q]
          /\ UNCHANGED <<connected, item, got, overwrote>>
      BY <1>2, <2>1, <2>2 DEF P!SenderRead
    <2>4. q \in Run
      <3>1. better \subseteq Peers /\ item \subseteq Peers
        BY <1>1, <2>1, <2>3 DEF RunType
      <3> QED
        BY <2>2, <3>1 DEF P!Idle, Run
    <2>5. Open(fwd[r]) = {}
      BY <2>3 DEF Open
    <2> QED
      BY <1>1, <2>3, <2>4, <2>5, RunSent DEF RunType
  <1>3. CASE P!SenderWrite(r)
    <2>1. PICK q : q = [fwd[r] EXCEPT !.pc = "send", !.read = {}]
      OBVIOUS
    <2>2. /\ fwd[r].pc = "write" /\ fwd' = [fwd EXCEPT ![r].pc = "send", ![r].read = {}]
          /\ UNCHANGED <<connected, got>>
          /\ IF fwd[r].css = {} THEN UNCHANGED <<item, overwrote>>
             ELSE /\ item' = IF item = NoBundle THEN NoBundle ELSE fwd[r].read \cup fwd[r].css
                  /\ overwrote' = (overwrote \/ item # fwd[r].read)
      BY <1>3 DEF P!SenderWrite, P!Update
    <2>3. q \in Run /\ q.pc = "send" /\ q.css = fwd[r].css
      BY <1>1, <2>1 DEF Run
    <2>4. fwd' = [fwd EXCEPT ![r] = q]
      BY <2>1, <2>2
    <2>5. Open(fwd[r]) = {} /\ fwd[r].css \subseteq Open(q)
      BY <2>2, <2>3 DEF Open
    <2>6. item' \in (SUBSET Peers) \cup {NoBundle} /\ (~overwrote' => ~overwrote)
      BY <1>1, <2>2 DEF RunType, Run
    <2>7. ASSUME item' # NoBundle, ~overwrote'
          PROVE  item # NoBundle /\ item' \subseteq item \cup got' \cup Open(q)
      BY <2>2, <2>5, <2>7
    <2> QED
      BY <1>1, <2>2, <2>3, <2>4, <2>5, <2>6, <2>7, RunSent
  <1> QED
    BY <1>2, <1>3

LEMMA TransmissionSent ==
    ASSUME SentInv, NEW r \in Runs, NEW p \in Peers, P!SendOk(r, p) \/ P!SendFail(r, p)
    PROVE  SentInv'
  <1>1. RunType /\ fwd[r] \in Run
    BY DEF SentInv, RunType
  <1>2. /\ fwd[r].pc = "send" /\ p \in fwd[r].css
        /\ UNCHANGED <<connected, item, overwrote>>
    BY DEF P!SendOk, P!SendFail
  <1>3. CASE P!SendOk(r, p)
    <2>1. fwd' = [fwd EXCEPT ![r] = [fwd[r] EXCEPT !.css = @ \ {p}]] /\ got' = got \cup {p}
      BY <1>3 DEF P!SendOk
    <2>2. PICK q : q = [fwd[r] EXCEPT !.css = @ \ {p}]
      OBVIOUS
    <2>3. q \in Run /\ q.pc = "send" /\ q.css = fwd[r].css \ {p} /\ q.failed = fwd[r].failed
      BY <1>1, <1>2, <2>2 DEF Run
    <2>4. Open(fwd[r]) \subseteq got' \cup Open(q)
      BY <1>2, <2>1, <2>3 DEF Open
    <2> QED
      BY <1>1, <1>2, <2>1, <2>2, <2>3, <2>4, RunSent DEF RunType
  <1>4. CASE P!SendFail(r, p)
    <2>1. PICK new : new = IF item = NoBundle THEN {} ELSE {[peer |-> p, read |-> item]}
      OBVIOUS
    <2>2. /\ fwd' = [fwd EXCEPT ![r].css = @ \ {p}, ![r].failed = @ \cup new]
          /\ got' \in {got, got \cup {p}}
      BY <1>4, <2>1 DEF P!SendFail
    <2>3. PICK q : q = [fwd[r] EXCEPT !.css = @ \ {p}, !.failed = @ \cup new]
      OBVIOUS
    <2>4. fwd' = [fwd EXCEPT ![r] = q]
      BY <2>2, <2>3
    <2>5. new \subseteq Failure /\ (item # NoBundle => \E f \in new : f.peer = p)
      <3>1. CASE item = NoBundle
        BY <2>1, <3>1
      <3>2. CASE item # NoBundle
        <4>1. PICK f : f = [peer |-> p, read |-> item]
          OBVIOUS
        <4>2. new = {f} /\ f.peer = p /\ f.read = item /\ item \in SUBSET Peers
          BY <1>1, <2>1, <3>2, <4>1 DEF RunType
        <4>3. f \in Failure
          BY <4>1, <4>2 DEF Failure
        <4> QED
          BY <4>2, <4>3
      <3> QED
        BY <3>1, <3>2
    <2>6. q \in Run /\ q.pc = "send" /\ q.css = fwd[r].css \ {p} /\ q.failed = fwd[r].failed \cup new
      BY <1>1, <1>2, <2>3, <2>5 DEF Run
    <2>7. item # NoBundle => Open(fwd[r]) \subseteq Open(q)
      BY <1>2, <2>5, <2>6 DEF Open
    <2>8. got \subseteq got'
      BY <2>2
    <2> QED
      BY <1>1, <1>2, <2>4, <2>6, <2>7, <2>8, RunSent DEF RunType
  <1> QED
    BY <1>3, <1>4

LEMMA FailureSent ==
    ASSUME SentInv, NEW r \in Runs, P!ReportFailure(r)
    PROVE  SentInv'
  <1>1. RunType /\ fwd[r] \in Run
    BY DEF SentInv, RunType
  <1>2. PICK f \in fwd[r].failed :
            /\ fwd' = [fwd EXCEPT ![r].failed = @ \ {f}]
            /\ item' = IF item = NoBundle THEN NoBundle ELSE f.read \ {f.peer}
            /\ overwrote' = (overwrote \/ item # f.read)
            /\ UNCHANGED <<connected, got>>
    BY DEF P!ReportFailure, P!Update
  <1>3. PICK q : q = [fwd[r] EXCEPT !.failed = @ \ {f}]
    OBVIOUS
  <1>4. fwd' = [fwd EXCEPT ![r] = q]
    BY <1>2, <1>3
  <1>5. q \in Run /\ q.pc = fwd[r].pc /\ q.css = fwd[r].css /\ q.failed = fwd[r].failed \ {f}
    BY <1>1, <1>3 DEF Run
  <1>6. f \in Failure
    BY <1>1, <1>2 DEF Run
  <1>7. item' \in (SUBSET Peers) \cup {NoBundle} /\ (~overwrote' => ~overwrote)
    BY <1>1, <1>2, <1>6 DEF RunType, Failure
  <1>8. Open(fwd[r]) \subseteq Open(q) \cup {f.peer}
    BY <1>5 DEF Open
  <1>9. ASSUME item' # NoBundle, ~overwrote'
        PROVE  /\ item # NoBundle /\ item' \subseteq item
               /\ f.peer \notin item'
    BY <1>2, <1>9
  <1> QED
    BY <1>1, <1>2, <1>4, <1>5, <1>7, <1>8, <1>9, RunSent

LEMMA RunEndsSent ==
    ASSUME SentInv, NEW r \in Runs, P!ForwardEnd(r)
    PROVE  SentInv'
  <1>1. /\ fwd[r].css = {} /\ fwd[r].failed = {} /\ fwd' = [fwd EXCEPT ![r] = P!Idle]
        /\ UNCHANGED <<connected, item, got, overwrote>>
    BY DEF P!ForwardEnd
  <1>2. P!Idle \in Run
    BY DEF P!Idle, Run
  <1>3. Open(fwd[r]) = {}
    BY <1>1 DEF Open
  <1>4. item' \in (SUBSET Peers) \cup {NoBundle}
    BY <1>1 DEF SentInv, RunType
  <1> QED
    BY <1>1, <1>2, <1>3, <1>4, RunSent

LEMMA SentKept == SentInv /\ [P!Next]_pvars => SentInv'
  <1> SUFFICES ASSUME SentInv, [P!Next]_pvars
               PROVE  SentInv'
    OBVIOUS
  <1>1. connected \subseteq Peers /\ item \in (SUBSET Peers) \cup {NoBundle}
    BY DEF SentInv, RunType
  <1>2. ASSUME NEW p \in Peers, P!ReportPeerAppeared(p) \/ P!ReportPeerDisappeared(p)
        PROVE  SentInv'
    BY <1>1, <1>2, SentUnmoved DEF P!ReportPeerAppeared, P!ReportPeerDisappeared
  <1>3. ASSUME NEW prev \in SUBSET Peers, P!NotifyNewBundle(prev)
        PROVE  SentInv'
    BY <1>3, ItemSent DEF P!NotifyNewBundle
  <1>4. ASSUME NEW p \in Peers, P!ReceiveAgain(p)
        PROVE  SentInv'
    <2>1. /\ UNCHANGED <<connected, fwd, overwrote>> /\ got' = got \cup {p}
          /\ item # NoBundle /\ item' \in {item, item \cup {p}}
      BY <1>4 DEF P!ReceiveAgain
    <2> QED
      BY <1>1, <2>1, ItemSent
  <1>5. ASSUME NEW p \in Peers, NEW q \in Summaries, P!NotifyMetadata(p, q)
        PROVE  SentInv'
    BY <1>1, <1>5, SentUnmoved DEF P!NotifyMetadata
  <1>6. CASE P!AgeCron
    BY <1>1, <1>6, SentUnmoved DEF P!AgeCron
  <1>7. CASE P!Expire
    BY <1>7, ItemSent DEF P!Expire
  <1>8. CASE UNCHANGED pvars
    BY <1>1, <1>8, SentUnmoved DEF pvars
  <1> QED
    BY <1>2, <1>3, <1>4, <1>5, <1>6, <1>7, <1>8, SenderSent, TransmissionSent, FailureSent,
       RunEndsSent DEF P!Next

(* Nobody is left out by PRoPHET, for any number of peers and of runs of   *)
(* forward at a time: a peer in the sent list has the bundle or is being   *)
(* sent it, unless an item was written that had changed since it was read. *)
THEOREM TrueList == MCSpec => []ProphetSentIsTrue
  <1>1. MCInit => SentInv
    BY NothingSent DEF MCInit
  <1>2. SentInv /\ [MCNext]_<<algorithm, vars, pvars>> => SentInv'
    BY SentKept DEF MCNext
  <1>3. SentInv => ProphetSentIsTrue
    BY DEF SentInv
  <1> QED
    BY <1>1, <1>2, <1>3, PTL DEF MCSpec
=============================================================================
