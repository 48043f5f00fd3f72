------------------------------- MODULE Spray -------------------------------
(***************************************************************************)
(* SprayAndWait and BinarySpray (pkg/routing/algorithm_spray.go), alone or *)
(* below a SensorNetworkMuleRouting (algorithm_sensornetwork.go), in a     *)
(* network of nodes and for one bundle.                                    *)
(*                                                                         *)
(* A node that has the bundle forwards it again and again, one attempt at  *)
(* a time: Core.forward asks SenderForBundle, which reads the bundle's     *)
(* metadata, unlocks, picks peers and writes the metadata back, starts one *)
(* goroutine per peer, and each failed one runs ReportFailure, a read and  *)
(* a write again.  Which peers are connected is chosen anew at each call   *)
(* of CLAManager.Sender.  The metadata is in memory only.                  *)
(***************************************************************************)
EXTENDS Naturals, FiniteSets, FiniteSetsExt

CONSTANTS Nodes,        \* all nodes but the destination
          Source,       \* the node whose endpoint is the bundle's source
          Destination,  \* the node of the bundle's destination
          L,            \* SprayConfig.Multiplicity
          Sensors,      \* the nodes that the mule's sensorNode matches
          MaxFail,      \* bound: transmissions that fail
          NoData        \* no entry in bundleData

(* sprayMetaData: the peers that have the bundle, and the copies left.     *)
SprayMetaData == [sent: SUBSET (Nodes \union {Destination}), remainingCopies: Nat]

ASSUME SprayAssumption == /\ Source \in Nodes
                          /\ Destination \notin Nodes
                          /\ Sensors \subseteq Nodes
                          /\ L \in Nat \ {0}
                          /\ IsFiniteSet(Nodes)
                          /\ NoData \notin SprayMetaData

VARIABLES algorithm,    \* RoutingConf.Algorithm, at every node
          mule,         \* it is wrapped by a SensorNetworkMuleRouting
          expired,      \* its lifetime is exceeded and it is deleted
          store,        \* node -> its store knows the bundle
          bundleData,   \* node -> sprayMetaData of the bundle, or NoData
          fwd,          \* node -> its run of Core.forward
          fails,        \* transmissions that have failed so far
          minted,       \* history: copies counted that nobody handed out
          due,          \* history: node -> copies it should have by now
          clash         \* history: nodes where ReportFailures overlapped

vars == <<algorithm, mule, expired, store, bundleData, fwd, fails, minted,
          due, clash>>

MetaData(sent, n) == [sent |-> sent, remainingCopies |-> n]

(* No run of Core.forward.                                                 *)
Idle == [pc |-> "idle", direct |-> FALSE, read |-> NoData, css |-> {},
         copies |-> 0, ok |-> FALSE, failed |-> {}]

Init == /\ algorithm \in {"spray", "binary_spray"}
        /\ mule \in BOOLEAN
        /\ expired = FALSE
        /\ store = [n \in Nodes |-> n = Source]
        /\ bundleData = [n \in Nodes |->
               IF n = Source THEN MetaData({}, L) ELSE NoData]
        /\ fwd = [n \in Nodes |-> Idle]
        /\ fails = 0
        /\ minted = 0
        /\ due = [n \in Nodes |-> IF n = Source THEN L ELSE 0]
        /\ clash = {}
-----------------------------------------------------------------------------
(***************************************************************************)
(* NotifyNewBundle of node n for a bundle from node prev whose spray block *)
(* has k copies: spray and wait looks at the source only.                  *)
(***************************************************************************)
NotifyNewBundle(n, prev, k) ==
    CASE algorithm = "spray" /\ n = Source -> MetaData({}, L)
      [] algorithm = "spray" /\ n # Source -> MetaData({prev}, 1)
      [] algorithm = "binary_spray"        -> MetaData({prev}, k)

(* SenderForBundle, the reading half.  Without metadata or with the last   *)
(* copy there is nobody to send to, and forward has no effect.             *)
SenderForBundle(n) ==
    /\ bundleData[n] # NoData
    /\ bundleData[n].remainingCopies >= 2
    /\ fwd' = [fwd EXCEPT ![n] = [Idle EXCEPT !.pc = "read",
                                              !.read = bundleData[n]]]

(* senderForDestination: the destination is a peer, no algorithm is asked. *)
Direct(n) ==
    fwd' = [fwd EXCEPT ![n] = [Idle EXCEPT !.pc = "send", !.direct = TRUE,
                                           !.css = {Destination}]]

Forward(n) ==
    /\ store[n] /\ ~expired
    /\ fwd[n].pc = "idle"
    /\ Direct(n) \/ SenderForBundle(n)
    /\ UNCHANGED <<algorithm, mule, expired, store, bundleData, fails, minted,
                   due, clash>>

(***************************************************************************)
(* The peers SenderForBundle may pick when peers is what Sender returns in *)
(* any order: as many as leave one copy, or a single one, and how many     *)
(* copies each of them gets.                                               *)
(***************************************************************************)
Selections(meta, peers) ==
    LET new == peers \ meta.sent
    IN  IF algorithm = "spray"
        THEN kSubset(Min({Cardinality(new), meta.remainingCopies - 1}), new)
        ELSE IF new = {} THEN {{}} ELSE kSubset(1, new)

CopiesEach(meta) ==
    IF algorithm = "spray" THEN 1 ELSE meta.remainingCopies \div 2

(* Mutant: the copies that are handed out are not counted *)
SelectedUncounted(meta, css) ==
    MetaData(meta.sent \union css, meta.remainingCopies)

Selected(meta, css) ==
    MetaData(meta.sent \union css,
             meta.remainingCopies - Cardinality(css) * CopiesEach(meta))

(* Mutant: the copy of a failed transmission is not returned *)
ReturnedNone(meta, peers) ==
    MetaData(meta.sent \ peers, meta.remainingCopies)

(* What ReportFailure makes of the metadata it has read.                   *)
Returned(meta, peers) ==
    MetaData(meta.sent \ peers,
             IF algorithm = "spray"
             THEN meta.remainingCopies + Cardinality(peers)
             ELSE meta.remainingCopies)

(* The sensors a mule takes out of the selection: no bundle comes from a   *)
(* sensor as its Receiver.                                                 *)
Excluded(css) == IF mule THEN css \intersect Sensors ELSE {}

(* SenderForBundle, the writing half, and the filter of the mule.          *)
Select(n) ==
    /\ fwd[n].pc = "read"
    /\ \E peers \in SUBSET (Nodes \ {n}) :
       \E css \in Selections(fwd[n].read, peers) :
          /\ bundleData' = [bundleData EXCEPT ![n] =
                 Returned(Selected(fwd[n].read, css), Excluded(css))]
          /\ fwd' = [fwd EXCEPT ![n].pc = "send",
                                ![n].css = css \ Excluded(css),
                                ![n].copies = CopiesEach(fwd[n].read)]
    /\ UNCHANGED <<algorithm, mule, expired, store, fails, minted, due, clash>>

-----------------------------------------------------------------------------
(* The copies that SenderForBundle took for each transmission.             *)
Taken(n) == IF fwd[n].direct THEN 0 ELSE fwd[n].copies

(***************************************************************************)
(* Node p gets the bundle from n.  The destination delivers it; a node     *)
(* that knows it ignores it; one that has it no longer takes it as new.    *)
(***************************************************************************)
Receive(n, p) ==
    LET new == p \in Nodes /\ ~expired /\ ~store[p]
        k   == fwd[n].copies
        m   == NotifyNewBundle(p, n, k)
    IN  IF new
        THEN /\ store' = [store EXCEPT ![p] = TRUE]
             /\ bundleData' = [bundleData EXCEPT ![p] = m]
             /\ due' = [due EXCEPT ![p] = m.remainingCopies,
                                   ![n] = @ - Taken(n)]
             /\ minted' = IF algorithm = "spray" /\ p = Source
                          THEN minted + (L - k) ELSE minted
        ELSE /\ due' = [due EXCEPT ![n] = @ - Taken(n)]
             /\ UNCHANGED <<store, bundleData, minted>>

(* Send returns without an error.                                          *)
SendOk(n, p) ==
    /\ p \in fwd[n].css
    /\ Receive(n, p)
    /\ fwd' = [fwd EXCEPT ![n].css = @ \ {p}, ![n].ok = TRUE]
    /\ UNCHANGED <<algorithm, mule, expired, fails, clash>>

(* The goroutine of peer p has read the metadata in ReportFailure; it owns *)
(* a copy unless the peer got one or none was taken.                       *)
Failed(n, p, owns) ==
    /\ p \in fwd[n].css
    /\ fails < MaxFail
    /\ fails' = fails + 1
    /\ fwd' = [fwd EXCEPT ![n].css = @ \ {p},
          ![n].failed = IF bundleData[n] = NoData THEN @ ELSE @ \union
              {[peer |-> p, read |-> bundleData[n], owns |-> owns]}]
    /\ UNCHANGED <<algorithm, mule, expired, clash>>

(* Send fails, and the peer does not have the bundle.                      *)
SendFail(n, p) ==
    /\ Failed(n, p, ~fwd[n].direct)
    /\ UNCHANGED <<store, bundleData, due, minted>>

(* Send fails after the peer got the bundle: its answer was lost.          *)
SendUnheard(n, p) ==
    /\ Failed(n, p, FALSE)
    /\ Receive(n, p)

(***************************************************************************)
(* ReportFailure writes what it has made of what it has read.  The lists   *)
(* of overlapping calls share one array, in which each call moves the      *)
(* entries: any of the failed peers may be missing from the result.        *)
(***************************************************************************)
ReportFailure(n) ==
    \E f \in fwd[n].failed :
    LET stale == f.read # bundleData[n] \/ Cardinality(fwd[n].failed) > 1
        peers == {g.peer : g \in fwd[n].failed}
        mints == algorithm = "spray" /\ ~f.owns
    IN  /\ \E gone \in IF stale THEN SUBSET peers ELSE {{f.peer}} :
              bundleData' = [bundleData EXCEPT ![n] =
                  MetaData(f.read.sent \ gone,
                           Returned(f.read, {f.peer}).remainingCopies)]
        /\ fwd' = [fwd EXCEPT ![n].failed = @ \ {f}]
        /\ minted' = IF mints THEN minted + 1 ELSE minted
        /\ due' = IF mints THEN [due EXCEPT ![n] = @ + 1] ELSE due
        /\ clash' = IF stale THEN clash \union {n} ELSE clash
        /\ UNCHANGED <<algorithm, mule, expired, store, fails>>

(* forward ends.  A bundle that reached its destination directly is purged *)
(* and leaves the store, any other stays there for the next attempt.       *)
ForwardEnd(n) ==
    /\ fwd[n].pc = "send"
    /\ fwd[n].css = {} /\ fwd[n].failed = {}
    /\ store' = IF fwd[n].ok /\ fwd[n].direct
                THEN [store EXCEPT ![n] = FALSE] ELSE store
    /\ fwd' = [fwd EXCEPT ![n] = Idle]
    /\ UNCHANGED <<algorithm, mule, expired, bundleData, fails, minted, due,
                   clash>>
-----------------------------------------------------------------------------
(* The lifetime ends: from now on forward and clean_store delete the       *)
(* bundle wherever it is, and nobody takes or forwards it any more.        *)
DeleteExpired ==
    /\ ~expired
    /\ expired' = TRUE
    /\ store' = [n \in Nodes |-> FALSE]
    /\ UNCHANGED <<algorithm, mule, bundleData, fwd, fails, minted, due, clash>>

(* The cron job of the algorithm: cleanupMetaData.                         *)
GarbageCollect(n) ==
    /\ ~store[n] /\ bundleData[n] # NoData
    /\ bundleData' = [bundleData EXCEPT ![n] = NoData]
    /\ due' = [due EXCEPT ![n] = 0]
    /\ UNCHANGED <<algorithm, mule, expired, store, fwd, fails, minted, clash>>

(* The process of a node that has the bundle ends, and starts again with   *)
(* what is on disk.                                                        *)
Restart(n) ==
    /\ store[n]
    /\ bundleData[n] # NoData \/ fwd[n] # Idle
    /\ bundleData' = [bundleData EXCEPT ![n] = NoData]
    /\ fwd' = [fwd EXCEPT ![n] = Idle]
    /\ due' = [due EXCEPT ![n] = 0]
    /\ UNCHANGED <<algorithm, mule, expired, store, fails, minted, clash>>

Next == \/ \E n \in Nodes :
             \/ Forward(n) \/ Select(n) \/ ForwardEnd(n)
             \/ GarbageCollect(n) \/ Restart(n)
        \/ \E n \in Nodes, p \in Nodes \union {Destination} :
             SendOk(n, p) \/ SendFail(n, p) \/ SendUnheard(n, p)
        \/ \E n \in Nodes : ReportFailure(n)
        \/ DeleteExpired

Spec == Init /\ [][Next]_vars
-----------------------------------------------------------------------------
(* Copies that SenderForBundle took and nobody else has yet.               *)
InFlight(n) ==
    Taken(n) * (Cardinality(fwd[n].css)
                + Cardinality({f \in fwd[n].failed : f.owns}))

(* The copies node n may count: what its metadata says, or what a          *)
(* ReportFailure has read, which is yet to write it back.                  *)
Counted(n) ==
    Max({bundleData[n].remainingCopies} \union
        {f.read.remainingCopies : f \in fwd[n].failed})

(* The copies of node n, for as long as it may hand them out.              *)
CopiesOf(n) ==
    InFlight(n) + CASE store[n] /\ bundleData[n] # NoData -> Counted(n)
                    [] ~store[n] /\ fwd[n].pc = "read" ->
                             fwd[n].read.remainingCopies
                    [] OTHER -> 0

Abstract == INSTANCE CopyBudget WITH
                carriers <- {n \in Nodes : store[n]},
                copies   <- [n \in Nodes |-> CopiesOf(n)]

(***************************************************************************)
(* The network keeps the copy budget: with both algorithms, with lost      *)
(* updates in ReportFailure, restarts and expiry, copies are only handed   *)
(* over or lost, and a node that hands some over keeps one.  More of them  *)
(* appear only where ReportFailure returns a copy that was not taken (a    *)
(* failed direct delivery), that the peer has got all the same, or where   *)
(* the source takes its own bundle for a new one.                          *)
(***************************************************************************)
KeepsBudget == Abstract!Budget

(***************************************************************************)
(* A failed transmission gives its copy back: unless two ReportFailures of *)
(* a node overlapped, SprayAndWait's remainingCopies are the ones it began *)
(* with, less the ones that other nodes got, less the ones under way.      *)
(***************************************************************************)
CopiesReturn ==
    \A n \in Nodes :
        /\ algorithm = "spray"
        /\ store[n] /\ bundleData[n] # NoData
        /\ n \notin clash
        => bundleData[n].remainingCopies + InFlight(n) = due[n]
=============================================================================
