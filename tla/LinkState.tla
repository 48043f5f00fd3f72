----------------------------- MODULE LinkState -----------------------------
(***************************************************************************)
(* Delay tolerant link state routing (pkg/routing/algorithm_dtlsr.go) at   *)
(* one node.  The node keeps its own links with the time at which each was *)
(* lost (0 while it is up), the links other nodes have announced, and the  *)
(* table of next hops.  Three cron jobs work on them concurrently with the *)
(* core's goroutine: recomputeCron, broadcastCron and purgePeers.  Two     *)
(* flags tell the first two whether there is anything to do.               *)
(*                                                                         *)
(* The block of an announcement is built under the lock and holds the map  *)
(* of links by reference; it is serialized later, without the lock, with   *)
(* what the map contains by then.                                          *)
(***************************************************************************)
EXTENDS Naturals, Sequences, FiniteSets, TLC, FiniteSetsExt, SequencesExt

CONSTANTS Self,         \* core.NodeId
          Others,       \* the other nodes
          Neighbours,   \* those of them that may be peers of this node
          Incoming,     \* DTLSRPeerData in metadata bundles that may arrive
          PurgeTime,    \* DTLSRConfig.PurgeTime
          MaxClock,     \* bound: the last point in time
          MaxChanges,   \* bound: peers that appear or disappear
          NotYet        \* nothing was announced yet

VARIABLES clock,           \* bpv7.DtnTimeNow
          clas,            \* claManager.Sender: peer -> how many are for it
          peers,           \* peers.Peers: node -> 0, or when it was lost
          timestamp,       \* peers.Timestamp
          receivedData,    \* node -> its DTLSRPeerData
          tracked,         \* nodeIndex, indexNode: the nodes of the graph
          routingTable,    \* node -> the peer to forward to
          computed,        \* history: when it was computed
          peerChange, receivedChange,
          recompute,       \* recomputeCron: it has read the flags
          broadcast,       \* broadcastCron: its point, and what it has read
          announced,       \* the last metadata bundle of this node
          changes,         \* changes of the peers so far
          missed           \* history: a change fell into a broadcast

vars == <<clock, clas, peers, timestamp, receivedData, tracked, routingTable,
          computed, peerChange, receivedChange, recompute, broadcast,
          announced, changes, missed>>

PeerData(id, t, links) == [id |-> id, timestamp |-> t, peers |-> links]

NoLinks == [n \in {} |-> 0]

Init == /\ clock = 1
        /\ clas = [p \in Neighbours |-> 0]
        /\ peers = NoLinks
        /\ timestamp = 1
        /\ receivedData = NoLinks
        /\ tracked = {Self}
        /\ routingTable = NoLinks
        /\ computed = 1
        /\ peerChange = FALSE /\ receivedChange = FALSE
        /\ recompute = FALSE
        /\ broadcast = [pc |-> "idle", timestamp |-> 0]
        /\ announced = NotYet
        /\ changes = 0
        /\ missed = FALSE
-----------------------------------------------------------------------------
(***************************************************************************)
(* computeRoutingTable: the graph has the links of this node, then those   *)
(* of all announcements; an arc that is added twice keeps the later cost.  *)
(* A link costs the time since it was lost.                                *)
(***************************************************************************)
Graph == [own |-> peers, told |-> receivedData, nodes |-> tracked]

LinksOf(g, n) ==
    LET own  == IF n = Self THEN g.own ELSE NoLinks
        told == IF n \in DOMAIN g.told THEN g.told[n].peers ELSE NoLinks
    IN  told @@ own

Cost(lost, now) == IF lost = 0 THEN 0 ELSE now - lost

(* The ways from this node that visit no node twice.                       *)
Walks == {<<Self>> \o w : w \in UNION {SetToSeqs(S) : S \in SUBSET Others}}

(* Those of them that lead to node d in the graph.                         *)
Paths(g, d) ==
    {p \in Walks : /\ p[Len(p)] = d
                   /\ \A i \in 1..(Len(p) - 1) :
                         p[i + 1] \in g.nodes \intersect DOMAIN LinksOf(g, p[i])}

Length(g, p, now) ==
    MapThenSumSet(LAMBDA i : Cost(LinksOf(g, p[i])[p[i + 1]], now),
                  1..(Len(p) - 1))

(* The package dijkstra: the first hops on the shortest paths to d.        *)
Shortest(g, d, now) ==
    LET paths == Paths(g, d)
        best  == Min({Length(g, p, now) : p \in paths})
    IN  {p[2] : p \in {q \in paths : Length(g, q, now) = best}}

(* The routing tables that computeRoutingTable may find at a time.         *)
Tables(g, now) ==
    LET hops  == [d \in g.nodes \ {Self} |-> Shortest(g, d, now)]
        known == {d \in g.nodes \ {Self} : hops[d] # {}}
    IN  {t \in [known -> DOMAIN LinksOf(g, Self)] : \A d \in known : t[d] \in hops[d]}

-----------------------------------------------------------------------------
(* A change of the own links, which a running broadcast may not notice.    *)
Changed ==
    /\ changes < MaxChanges
    /\ changes' = changes + 1
    /\ timestamp' = clock
    /\ peerChange' = TRUE
    /\ missed' = (missed \/ broadcast.pc # "idle")
    /\ UNCHANGED <<clock, receivedData, routingTable, computed, receivedChange,
                   recompute, broadcast, announced>>

(* Either is reported for every CLA of the peer, so that a peer that was   *)
(* lost may still be connected.                                            *)
ReportPeerAppeared(p) ==
    /\ clas' = [clas EXCEPT ![p] = @ + 1]
    /\ peers' = (p :> 0) @@ peers
    /\ tracked' = tracked \union {p}
    /\ Changed

ReportPeerDisappeared(p) ==
    /\ clas[p] > 0
    /\ clas' = [clas EXCEPT ![p] = @ - 1]
    /\ peers' = (p :> clock) @@ peers
    /\ UNCHANGED tracked
    /\ Changed

(* NotifyNewBundle for a metadata bundle of another node, or of an earlier *)
(* life of this one.  The own data of this life is in receivedData as      *)
(* well, with the timestamp of the announcement; its links are peers.      *)
ShouldReplace(data) ==
    IF data.id \in DOMAIN receivedData
    THEN data.timestamp > receivedData[data.id].timestamp
    ELSE data.id = Self /\ announced # NotYet => data.timestamp > announced.timestamp

NotifyNewBundle(data) ==
    /\ ShouldReplace(data)
    /\ receivedData' = (data.id :> data) @@ receivedData
    /\ receivedChange' = TRUE
    /\ tracked' = tracked \union {data.id} \union DOMAIN data.peers
    /\ UNCHANGED <<clock, clas, peers, timestamp, routingTable, computed, peerChange,
                   recompute, broadcast, announced, changes, missed>>
-----------------------------------------------------------------------------
(* recomputeCron reads the flags, and then takes the lock and computes.    *)
RecomputeStart ==
    /\ ~recompute
    /\ peerChange \/ receivedChange
    /\ recompute' = TRUE
    /\ UNCHANGED <<clock, clas, peers, timestamp, receivedData, tracked, routingTable,
                   computed, peerChange, receivedChange, broadcast, announced,
                   changes, missed>>

(* Mutant: recomputeCron takes both flags down *)
RecomputeEndBoth ==
    /\ recompute
    /\ recompute' = FALSE
    /\ routingTable' \in Tables(Graph, clock)
    /\ computed' = clock
    /\ receivedChange' = FALSE
    /\ peerChange' = FALSE
    /\ UNCHANGED <<clock, clas, peers, timestamp, receivedData, tracked,
                   broadcast, announced, changes, missed>>

RecomputeEnd ==
    /\ recompute
    /\ recompute' = FALSE
    /\ routingTable' \in Tables(Graph, clock)
    /\ computed' = clock
    /\ receivedChange' = FALSE
    /\ UNCHANGED <<clock, clas, peers, timestamp, receivedData, tracked, peerChange,
                   broadcast, announced, changes, missed>>

(* broadcastCron: the flag is set, broadcast builds the block.             *)
BroadcastStart ==
    /\ broadcast.pc = "idle"
    /\ peerChange
    /\ broadcast' = [pc |-> "send", timestamp |-> timestamp]
    /\ missed' = FALSE
    /\ UNCHANGED <<clock, clas, peers, timestamp, receivedData, tracked, routingTable,
                   computed, peerChange, receivedChange, recompute, announced,
                   changes>>

(* sendMetadataBundle: the block is serialized, and NotifyNewBundle takes  *)
(* the own data, whose links are this node's, for received data.           *)
BroadcastSend ==
    /\ broadcast.pc = "send"
    /\ broadcast' = [broadcast EXCEPT !.pc = "reset"]
    /\ announced' = [timestamp |-> broadcast.timestamp, peers |-> peers,
                     sent |-> {}, live |-> TRUE]
    /\ IF ShouldReplace(PeerData(Self, broadcast.timestamp, peers))
       THEN /\ receivedData' = [n \in DOMAIN receivedData \ {Self} |-> receivedData[n]]
            /\ receivedChange' = TRUE
       ELSE UNCHANGED <<receivedData, receivedChange>>
    /\ UNCHANGED <<clock, clas, peers, timestamp, tracked, routingTable, computed,
                   peerChange, recompute, changes, missed>>

(* Mutant: receivedChange is not set *)
BroadcastResetOne ==
    /\ broadcast.pc = "reset"
    /\ broadcast' = [pc |-> "idle", timestamp |-> 0]
    /\ peerChange' = FALSE
    /\ UNCHANGED <<clock, clas, peers, timestamp, receivedData, tracked, routingTable,
                   computed, receivedChange, recompute, announced, changes,
                   missed>>

BroadcastReset ==
    /\ broadcast.pc = "reset"
    /\ broadcast' = [pc |-> "idle", timestamp |-> 0]
    /\ peerChange' = FALSE
    /\ receivedChange' = TRUE
    /\ UNCHANGED <<clock, clas, peers, timestamp, receivedData, tracked, routingTable,
                   computed, recompute, announced, changes, missed>>

Connected == {p \in Neighbours : clas[p] > 0}

(* SenderForBundle for the own announcement: all CLAs that filterCLAs      *)
(* leaves.  ReportFailure does nothing, a peer is offered it only once.    *)
SenderForBundle ==
    /\ announced # NotYet /\ announced.live
    /\ Connected \ announced.sent # {}
    /\ announced' = [announced EXCEPT !.sent = @ \union Connected]
    /\ UNCHANGED <<clock, clas, peers, timestamp, receivedData, tracked, routingTable,
                   computed, peerChange, receivedChange, recompute, broadcast,
                   changes, missed>>

(* Its lifetime of a minute is over.                                       *)
AnnouncementExpires ==
    /\ announced # NotYet /\ announced.live
    /\ announced' = [announced EXCEPT !.live = FALSE]
    /\ UNCHANGED <<clock, clas, peers, timestamp, receivedData, tracked, routingTable,
                   computed, peerChange, receivedChange, recompute, broadcast,
                   changes, missed>>

(* purgePeers forgets links that were lost long ago; the timestamp stays.  *)
PurgePeers ==
    LET old == {p \in DOMAIN peers :
                   peers[p] # 0 /\ peers[p] + PurgeTime < clock}
    IN  /\ old # {}
        /\ peers' = [p \in DOMAIN peers \ old |-> peers[p]]
        /\ peerChange' = TRUE
        /\ missed' = (missed \/ broadcast.pc # "idle")
        /\ UNCHANGED <<clock, clas, timestamp, receivedData, tracked, routingTable,
                       computed, receivedChange, recompute, broadcast,
                       announced, changes>>

Tick == /\ clock < MaxClock
        /\ clock' = clock + 1
        /\ UNCHANGED <<clas, peers, timestamp, receivedData, tracked, routingTable,
                       computed, peerChange, receivedChange, recompute,
                       broadcast, announced, changes, missed>>

Next == \/ \E p \in Neighbours : ReportPeerAppeared(p) \/ ReportPeerDisappeared(p)
        \/ \E data \in Incoming : NotifyNewBundle(data)
        \/ RecomputeStart \/ RecomputeEnd
        \/ BroadcastStart \/ BroadcastSend \/ BroadcastReset
        \/ SenderForBundle \/ AnnouncementExpires \/ PurgePeers \/ Tick

(* The cron jobs run again and again, and the core retries what is pending.*)
Jobs == RecomputeStart \/ RecomputeEnd

Announces == \/ BroadcastStart \/ BroadcastSend \/ BroadcastReset

Fairness == /\ WF_vars(Jobs) /\ WF_vars(Announces)
            /\ WF_vars(SenderForBundle) /\ WF_vars(PurgePeers)

Spec == Init /\ [][Next]_vars /\ Fairness
-----------------------------------------------------------------------------
(***************************************************************************)
(* Neither flag gets lost: when both are down, the routing table is one of *)
(* shortest paths in the data the node has now, for the time at which it   *)
(* was computed, although the jobs read the flags and act on them in       *)
(* separate critical sections and broadcastCron takes one flag down.       *)
(***************************************************************************)
FreshTable ==
    ~peerChange /\ ~receivedChange => routingTable \in Tables(Graph, computed)

(***************************************************************************)
(* In the end both flags are down and the links of this node, as they are, *)
(* were announced and, in the lifetime of the announcement, offered to     *)
(* every connected peer; except for a change that fell between the         *)
(* building of a broadcast and the reset of peerChange, which is not       *)
(* announced before the next one.                                          *)
(***************************************************************************)
Announced ==
    <>[](/\ ~peerChange /\ ~receivedChange
         /\ \/ changes = 0
            \/ missed
            \/ /\ announced # NotYet
               /\ announced.timestamp = timestamp
               /\ announced.peers = peers
               /\ Connected \subseteq announced.sent \/ ~announced.live)
=============================================================================
