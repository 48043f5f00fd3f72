# dtn7: a TLA+ model of the bundle node

This directory models the parts of dtn7 that make a delay-tolerant node hard to
get right: the processing of bundles by several goroutines over one store, the
store itself, the sequence numbers of submitted bundles, fragmentation, the other
routing algorithms, the manager of the convergence layer adapters (CLAs), the
adapters themselves (TCPCLv4, MTCP, broadcast), and the application agents. The
modules are translated from the Go code under `src/pkg` and `src/cmd`.
`PROJECT.json` says which lines each definition stands for.

## The system

A node receives bundles from neighbours through CLAs, or from applications
through agents. It stores them, and forwards or delivers them whenever a
neighbour or an agent is there. Everything below runs concurrently.

| Component | State | Operations | Talks to |
|---|---|---|---|
| Core and processing (`routing/core.go`, `processing.go`) | none of its own; descriptors on the goroutines' stacks | receive, SendBundle, transmit, dispatching, forward, localDelivery, bundleDeletion, checkPendingBundles | store, routing algorithm, CLA manager, agent manager |
| Bundle descriptor (`bundle_descriptor.go`) | constraints of one bundle, in memory | AddConstraint, PurgeConstraints, Sync (push, delete or update the stored item) | store |
| Routing algorithms (`algorithm_*.go`) | sent lists in the store (epidemic) or maps in memory (others) | NotifyNewBundle, DispatchingAllowed, SenderForBundle, ReportFailure | store, CLA manager, core |
| Store (`storage`) | badgerhold index and one file per part | Push, Update, Delete, DeleteExpired, QueryId, QueryPending | database, directory |
| IdKeeper (`id_keeper.go`) | last number of each source and creation time | update, clean | clock |
| Agent manager and agents (`agent_manager.go`, `pkg/agent`) | registered endpoints, channels | Deliver, SendBundle; multiplexing | core |
| Cron (`cron.go`) | jobs and their next time | starts checkPendingBundles, DeleteExpired and jobs of the algorithms in goroutines | core, store |
| CLA manager (`cla/manager*.go`) | elements by address, two channels | Register, Unregister, Restart, Close, retries | CLAs, core |
| TCPCLv4 (`cla/tcpclv4`) | session stage, exchange channels, transfers | handshake, Send, segments and acknowledgements, keepalive | peer, CLA manager |
| MTCP, BBC (`cla/mtcp`, `cla/bbc`) | connection or modem, report channel | Send, keepalive; broadcast transmissions | peer, CLA manager |
| Discovery (`pkg/discovery`) | announcements | registers CLAs of neighbours | CLA manager |
| Bundle protocol (`pkg/bpv7`) | none | encoding, checks, Fragment, ReassembleFragments | everyone |
| Programs (`cmd`) | exchange: the files already known | configuration; `dtn-tool exchange` sends the files of a directory and saves what arrives | core; the node's WebSocket agent |

What makes each of them correct:

* processing: no accepted bundle disappears without a decision; what is kept is
  found again by a retry; a peer is offered a bundle once, and gets it in the
  end; what is done with leaves the store;
* store: index and directory agree, fragments accumulate, expired bundles go;
* IdKeeper and SendBundle: bundles of a node can be told apart, and one of those that
  share a creation time is kept;
* fragmentation: fragments fit, cover the payload once, and reassembly never
  produces anything but the payload;
* CLA manager: an address is open once, what is open is supervised, messages
  reach the core in order, retries come to an end;
* TCPCLv4 transfers: a successful Send means a whole bundle at the peer,
  concurrent transfers do not mix, and every Send returns;
* TCPCLv4 sessions: both ends of a connection meet, and no end stays in a session
  the other one does not know of;
* spray and wait: a bundle has a budget of copies in the whole network, which is
  handed on and never multiplied, and a failed transmission gives its copy back;
* DTLSR: a change of the links is announced and changes the routing table;
* PRoPHET: nobody is left out, so a peer in the sent list has the bundle or is about
  to get it;
* MTCP: keepalives do not break the framing, every Send returns, and what it sent
  is passed on;
* BBC: a bundle that was heard completely is passed on, although ids wrap;
* agents: the multiplexer comes back to the next message; a mailbox keeps a bundle
  until it is fetched, once unless fetches overlap; both directions of an exchange are
  carried over once.

What is hard: the goroutines of the core share nothing but the store, and each
reads an item, works on it and writes it back later; a crash falls between a
file and its index entry, or between two Syncs; channels are bounded and read by
goroutines that also write; timeouts race with late answers; periodic jobs test a
flag in one critical section and reset it in another. The list, with
lines, is under "hazards" in `PROJECT.json`.

## The modules

| Module | Models | Proofs | For TLC |
|---|---|---|---|
| `Processing` | core, processing, descriptor, epidemic routing, delivery to agents | `ProcessingProofs` | `MCProcessing` |
| `BundleStore` | store and bundle items, with the files | `BundleStoreProofs` | `MCBundleStore` |
| `Submission` | IdKeeper, and the ID under which SendBundle stores | `AdapterProofs` | `MCAdapters` |
| `Fragmentation` | Fragment, prepareReassembly, mergeFragmentPayload | `FragmentationProofs` | `MCFragmentation` |
| `CLAManager` | manager and its elements | `CLAManagerProofs` | `MCCLAManager` |
| `Transfer` | TransferManager, transfers, SessEstablishedStage, both ends | `TransferProofs` | `MCTransfer` |
| `Session` | TCPCLv4 clients, stages of the handshake, both ends | | `MCAdapters` |
| `Mtcp` | MTCPClient, MTCPServer and the connection | `AdapterProofs` | `MCAdapters` |
| `Broadcast` | BBC's Connector, transmissions and fragments | `AdapterProofs` | `MCAdapters` |
| `Agents` | MuxAgent, PingAgent, WebSocket clients, AgentManager | | `MCAdapters` |
| `RestAgent` | clients and mailboxes of the REST agent | `AdapterProofs` | `MCAdapters` |
| `Exchange` | WebSocketAgentConnector and `dtn-tool exchange` | | `MCAdapters` |
| `CopyBudget` | abstract: the copies of a bundle in a network | `SprayProofs` | (by `Spray`) |
| `Spray` | SprayAndWait, BinarySpray, sensor network mule; a network | `SprayProofs` | itself |
| `LinkState` | DTLSR at one node | `MetadataProofs` | `MCMetadata` |
| `Prophet` | PRoPHET at one node | `MetadataProofs` | `MCMetadata` |

Operators whose comment begins with "Mutant" are deliberate mistakes. None is
used by a specification; they show that the properties notice them.

**Processing.** `store[b]` is the item of a bundle (known, pending, constraints,
the destination and sent properties); `th[t]` is a goroutine with its program
counter and locals: the descriptor's constraints and the item it read; `go[t][p]`
is the goroutine forward starts for the CLA of peer p. A step contains at most
one access to the store, since every badgerhold call is a transaction of its
own; so every value may be stale when it is used. `Sync` has the three outcomes
of the code, and all callers reach it through `pc = "sync"`; a deletion that finds the
item already gone may err, which callers only log or return. A bundle is known by
its scrubbed ID and by what the code reads from it (`Header`). Links go up and
down, agents come and go, bundles expire, clean_store runs, and the process may
crash and restart with the store alone. History variables (`accepted`, `fate`,
`from`, `got`, `reports`) record what properties are about. `fate[b]` gets a
value only where the code decides: handed to the destination, delivered,
deleted, expired, reported as delivered, or cut off by a crash in one of the
three windows (`InReception`, `InSubmission`, `InDelivery`) in which the bundle
is, by design of the code, not in the store.

**BundleStore.** The index and the files of each bundle; Push, Update and Delete
are cut at every access to either. `raced` and `torn` record for which bundles
calls overlapped, and for which a crash interrupted a call.

**Submission.** The clock, IdKeeper's map and the submissions. Time is counted in
units of clean's window. A descriptor keeps the ID its bundle had before update gave it
a sequence number: `Id(x)` is that ID, `BundleId(x)` the one Push stores under. All
bundles with one creation time therefore share `Id`, and their two Syncs, in
NewBundleDescriptorFromBundle and in transmit, find, take over or delete each other's
items. `marked` has the descriptors with constraints, which decides between the last two.

**Fragmentation.** The loops of Fragment, prepareReassembly and
mergeFragmentPayload, one iteration per step. Blocks are lengths; CBOR heads have
their real lengths. `Arrive` is what Store.Push keeps. A slice expression out of
range is the phase "panic".

**CLAManager.** Elements, the map `convs`, the manager's goroutine with its select, the
registrars, and one handler per started element. `inChnl` is bounded; a send on it after
Close, or the close of a nil channel, sets `panic`, after which nothing happens. A
permanent CLA (`Permanent`, in the code every configured one) is not given up when its
ttl is used up: failed retries take it to -1, with which an element counts as active
although it has neither handler nor channels (`Feigned`). That is the CLA whose restart
or shutdown closes a nil channel.

**Transfer.** Both ends of a session: Send with its select and sending goroutine,
the one goroutine of SessEstablishedStage, the TransferManager, bounded channels
and a bounded wire in each direction. A segment has its place `pos` in the bundle,
which the code does not send: it tells in `IncomingTransfer.ordered` whether the
receiver, which appends what comes, has appended it in order. When a session ends,
client.handle drops the TransferManager: `Ended` empties `inTransfers`, and the history
variable `lost` keeps what was in it, among it a bundle that was acknowledged and not
passed on yet.

**Session.** A dialing client with its Starts, and the client that the listener
makes for each connection. A StageHandler is a place in a script of messages
(`Active`, `Passive`), then in the hook of Start, then established. The
StageHandler of a Start that gave up lives on, and a restarted client uses the old
connection and has forgotten how to close it (`mute`), as in the code.
`Transfer` begins where this module ends.

**Mtcp.** `wire[c]` is the stream of a connection: empty byte strings (`Zero`), and the
pieces of bundles. `handler` is the client's goroutine, `elem` the manager's element
that reads its reports and closes it, `send[b]` a Send with the mutex. A connection
may be cut, which a writer notices now or later.

**Broadcast.** Nodes with a Connector on one medium. Transmission ids and sequence
numbers are counted modulo `TidMod` and `SeqNoMod`; `fragmentOut` and
`failTransmission` are bounded; each node hears a fragment or does not. `spoilt`
records which transmissions met another one with their id.

**Agents.** Two multiplexers: the one of AgentManager (`Top`), and the one that the
WebSocketAgent, a child of the first, has for its clients (`WS`), with the agent's handler
between them. Each has its goroutine, its mutex and one relay per child. AgentManager's
goroutine takes a bundle of an agent and runs SendBundle to its end: for a bundle to
another agent of the node this includes localDelivery and Deliver, where it waits for the
mutexes (HasEndpoint) and for the multiplexer to take the bundle. All channels are
unbuffered. HasEndpoint asks the second multiplexer while it holds the mutex of the first;
the model takes both at once, in one step that needs both free.

**RestAgent.** `clients` and `mailbox` are the two maps of the agent; registration,
fetch and delivery are cut at each access to one of them. Every request to /fetch is a
goroutine of its own (`Requests`) and looks at the mailbox only, whoever is registered;
`overlap` and `twice` record the clients whose fetch overlapped a delivery or another fetch.

**Exchange.** The tool's two goroutines and the connector's two, the directory and
the watcher's events.

**CopyBudget and Spray.** `CopyBudget` says what spraying may do to the copies of a
bundle: a node with more than one hands some over and keeps one, copies get lost,
and whatever else appears is counted in `minted`. `Spray` is a network of nodes that
run one of the two algorithms, with or without the mule, over the real steps of
forward; `KeepsBudget` is `Abstract!Budget`, with the copies of a node being the
ones in its metadata and the ones it has taken for transmissions under way.

**LinkState.** The links with the time of their loss, received link states, the two
flags, and the places of recomputeCron and broadcastCron between their critical
sections. Peers are reported per CLA (`clas`), so that a peer may be lost and still
connected. The node's announcement is offered to its peers until its lifetime is over. An
earlier life of the node may have left data, which stays if it is as new as the
announcement (`ShouldReplace`). `Graph` is what computeRoutingTable reads of this, and
`Tables` any choice of shortest paths in it, as the library returns one of several.

**Prophet.** Predictabilities in parts of `Scale`, and one bundle. Several runs of forward
(`Runs`) may be at work on it, each with its own copy of the item between
SenderForBundle's read and write, and between ReportFailure's. The bundle may come again
from another peer, which the code then does not enter in the list; a Send may err although
the peer has the bundle; and the bundle expires. `overwrote` records that an item was
written back that had changed meanwhile. A summary for a peer is a bundle for that peer's
node, whose way is that of any bundle, in `Processing`.

## Runs

| Run | Properties | Shows |
|---|---|---|
| `node` | TypeOK, NoSilentLoss, NotStranded | all kinds of bundles through a concurrent node |
| `serial` | NoResend, SentIsTrue, SettledIsGone, EventuallySent | what holds when goroutines do not overlap, with liveness |
| `cla` | NotOpenedTwice, Supervised, NoPanic, InOrder, Settles, StatusReaches | two CLAs, one of them permanent, in three layouts of addresses and peers, with an `inChnl` that is full after one message |
| `transfer` | SentIsReceived, Intact, SendReturns, Arrives | concurrent, opposite and blocked transfers, broken sessions |
| `store` | FilesMatchIndex, PushedIsStored, ExpiredGoes | overlapping calls and a crash |
| `fragments` | FragmentsFit, FragmentsTile, RoundTrip, ReassembledIsPayload | 2280 pairs of payload length and MTU, and arbitrary fragments |
| `spray` | KeepsBudget, CopiesReturn | both algorithms in a network implement the copy budget, with failures, restarts and expiry |
| `metadata` | FreshTable, Announced, ProphetSentIsTrue | DTLSR's flags under interleaved jobs, PRoPHET's sent list under overlapping runs of forward |
| `adapters` | Framed, MtcpEnds (MTCP), SessionsMeet, NoGhost (TCPCLv4), Heard (BBC), MuxServes, MailboxKept (agents), Exchanged, UniqueIds, OneIsStored (submission) | each adapter, and IdKeeper, on its own, with faults and, but for BBC, REST and IdKeeper, liveness |

Three runs end with a violation, and show where the code and its documentation
disagree ("findings" has the quotations):

* `exact`: a bundle whose serialization is a multiple of the segment size is sent
  without an END flag; Send succeeds and the peer never passes the bundle on;
* `mailbox`: the REST agent looks at one client only, so that other clients of an
  endpoint get nothing;
* `repeated`: the third reception of a relayed bundle that waits for a peer
  synchronizes a descriptor with just DispatchPending over its item, which takes the
  Pending mark away, and no retry finds the bundle any more.

Where a property that holds needs a restriction, the code does not keep it
without:

* NoResend: a second reception of a bundle that is stored without constraints (its
  item, and the sent list, is deleted on the way); a bundle a status report has
  deleted while a goroutine still worked on it; and the peer a bundle is addressed to,
  which gets it without being entered in the list;
* SentIsTrue and ProphetSentIsTrue: two ReportFailures at a time, of which one
  overwrites the other, so that a peer that never got the bundle is not offered it
  again. `SerialNext` leaves this out with `Alone`; for PRoPHET `overwrote` names it,
  and two SenderForBundles, or one and a ReportFailure, can do it, too. CopiesReturn
  needs it for the same reason (`clash`), and is about SprayAndWait: BinarySpray's
  ReportFailure removes the peer from the list and gives nothing back. SentIsTrue also
  needs that no crash comes between the update of the list and the transmission.
  ProphetSentIsTrue does not say that all who have the bundle are listed, which is false
  after a repeated reception or a lost answer;
* SettledIsGone: a crash before the deletion, or a reception of the bundle after it;
* NotStranded: a crash, or a repeated reception (`Repeated`, the run `repeated`);
  EventuallySent is checked with one reception of each bundle for the same reason;
* NotOpenedTwice and Supervised: overlapping registrations;
* NoPanic: the manager's deactivation of a permanent CLA that could not be started
  (`Feigned`), at a restart or at the end. Nothing else panics. Settles counts such a
  CLA as active, as the code does;
* Settles and StatusReaches: the manager waits in deactivate for a handler that waits for
  room in `inChnl` (`Jammed`). A full `inChnl` does no harm otherwise;
* SentIsReceived: a session that ends after the acknowledgement of the last segment and
  before client.handle has read the bundle. Send has returned without an error and the
  bundle is lost: the property says that it was complete, and lost then;
* the invariants of the store: overlapping calls;
* ReassembledIsPayload says nothing of a fragment inside another one that makes
  mergeFragmentPayload panic;
* UniqueIds: bundles submitted more than 86.4 seconds after their creation. OneIsStored
  says of several bundles with one creation time only that not all are missing: the
  second is not stored, or replaces the first, as their descriptors have one ID;
* KeepsBudget: `minted` counts the copies that ReportFailure returns although none
  was taken (a direct delivery failed) or the peer has it, and the ones of a source
  that takes its own bundle for a new one;
* Announced: a peer change between the building of a broadcast and the reset of
  peerChange (`missed`);
* MtcpEnds: Close and the handler waiting for each other (`Wedged`);
* Heard: two transmissions with one id (`spoilt`);
* SessionsMeet: a Start that gave up (`timedOut`); NoGhost holds for these, too;
* MuxServes: a child that has ended (`Orphaned`), and bundles in both directions
  that wait for each other (`Cycle`): the multiplexer for an agent, its relay for
  AgentManager's goroutine, and this one for the mutex or, with a bundle for an agent of
  the same node, for the multiplexer itself;
* MailboxKept: a fetch between the load and the store of a mailbox (`overlap`). That a
  bundle is in one answer only needs that no two fetches of the client overlap (`twice`).

Each exception is reachable in the model and noted at its hazard, where a property that
excludes the case is not listed as one that catches it.

### Bounds

* `node`: one handler, one submitter, one cron goroutine and one peer. Eleven
  bundles of ten kinds, one at a time, or a bundle together with a status report
  about it: bundles only meet in status reports and in checkPendingBundles, which
  treats one after the other. `Bound` gives each kind the events that concern it
  (receptions, crashes, retries, links, expiry), so that each race of two
  goroutines about one bundle happens for some kind.
* `repeated`: one relayed bundle, received three times, and one peer; nothing overlaps.
* `serial`: one bundle of each of five kinds at a time, and two peers that can be sent
  to, so that one transmission of a run of forward fails while the other succeeds;
  transmissions may fail again and again, so no counter limits the retries. All but the
  bundle for a neighbour, which also is sent around the sent list, may expire.
* `cla`: two instances, one of them permanent, one retry (`queueTtl`), up to two messages
  each. Two instances are enough for an address to be contested, and one retry for the
  difference between the last attempt and an earlier one. `inChnl` has room for one
  message where the code has room for 100, so that it is full with the messages there are.
* `transfer`: segments of two bytes and capacities of one, the smallest with which
  every channel can be full; a transfer of four segments fills them all.
* `store`: one bundle (bundles do not touch each other there) in two fragments and
  as a whole, three callers, one crash.
* `fragments`: lengths on both sides of 24 and 256, where a CBOR head grows, up to
  five fragments, and MTUs down to less than the overhead. Payloads of two to four
  bytes with every set of fragments.
* `spray`: three nodes and a destination, four copies, so that binary spray halves
  them twice, and two failures, so that ReportFailures overlap. One of the nodes is
  a sensor.
* `metadata`: for DTLSR three other nodes, two of them neighbours, link states that
  are newer, older or the node's own of an earlier life, two changes and two points
  in time. For PRoPHET two peers, three values of a predictability, and two runs of
  forward; failures and receptions are not counted. A behaviour is not followed after an
  item was overwritten, of which the property says nothing.
* `adapters`: two bundles, two connections and one keepalive for MTCP; two
  connections and three Starts for TCPCLv4; two broadcasting nodes, three bundles
  of which one has more fragments than sequence numbers, ids modulo 2 and one lost
  fragment; a ping agent with three bundles and a WebSocket client with one each way, so
  that each multiplexer has a message while the next one waits; two REST
  clients with two bundles and two fetches at a time; two files and two bundles for the
  exchange; three submissions, a window of one unit and three units of time, enough for a
  state to be forgotten and for a time to be used before and after that. Each part is
  finite, and a behaviour is one of a single part, as they share no state.

### Fairness

* `serial`: goroutines run (WF of each step); cron's ticker fires again and again
  (SF, since the goroutines must be idle for it in this specification); a peer that
  stays connected and is tried again and again is reached at last (SF of SendOk).
  Without the last one, a link could fail for ever, which no code can mend.
* `cla`: goroutines run, the core reads `outChnl` while it serves, and Go's select,
  which chooses at random among ready channels, neglects none for ever (SF of
  TakeStatus, Tick and ElemStop).
* `transfer`: goroutines run; the 10 second timer of Send and the keepalive ticker
  of a session expire (WF).
* `store`: a call that was begun returns (WF), and cron calls DeleteExpired again
  and again (SF, as another call may be under way).
* `metadata`: the cron jobs run again and again, and what they began ends (WF), which
  includes the retry of the announcement. PRoPHET has no fairness.
* `adapters`: goroutines run. Each part has one weak fairness for all steps that its
  goroutines take by themselves (`MProgress`, `SProgress`, `AProgress`, `XProgress`);
  what the environment does (cuts, Starts, timeouts, new bundles) is not in it. One
  is enough: the parts are bounded, so that no step can keep another one waiting for
  ever. For sessions this includes the keepalive timer that ends a silent one.

Deadlock is checked for `node` and `serial`: a node never comes to a halt. It is not
for the other runs: a manager that was closed, a session that has ended and a loop
that has returned may stop.

## Proofs

TLAPS checks these for all values of the constants. The inductive invariants were
invariants of TLC runs before they were proved (`SerialInv` with a crash and a second
reception), but for `HearInv`, which quantifies over all numbers.

| Theorem | States | Inductive invariant |
|---|---|---|
| `ProcessingProofs!TypeCorrect` | TypeOK | itself |
| `ProcessingProofs!NothingLost` | NoSilentLoss | `IndInv` |
| `ProcessingProofs!FoundAgain` | NotStranded | `MarkInv` over `IndInv` |
| `ProcessingProofs!SentListTrue`, `NeverResent`, `SettledGone` | SentIsTrue, NoResend, SettledIsGone, of `SerialSpec` | `SerialInv` over `MarkInv` and `IndInv` |
| `BundleStoreProofs!Consistency`, `Durability` | FilesMatchIndex, PushedIsStored | `IndInv` |
| `AdapterProofs!Uniqueness` | UniqueIds, with `~Late` | `IndInv` |
| `AdapterProofs!Keeping` | OneIsStored | `PlaceInv` |
| `AdapterProofs!Mailing` | MailboxKept | `MailInv` |
| `AdapterProofs!Framing` | Framed | `StreamInv` |
| `AdapterProofs!Hearing` | Heard | `HearInv` |
| `FragmentationProofs!Fitting`, `Tiling` | FragmentsFit, FragmentsTile | `Loop` |
| `FragmentationProofs!Reassembling` | ReassembledIsPayload | `Merging` |
| `CLAManagerProofs!OpenedOnce`, `Supervision` | NotOpenedTwice, Supervised | `Registry` |
| `CLAManagerProofs!Panicless` | NoPanic, for any set of permanent CLAs | itself over `Registry` |
| `CLAManagerProofs!Ordering` | InOrder | `Numbered` over `Registry` |
| `TransferProofs!Undamaged` | Intact | `IndInv` |
| `TransferProofs!Confirmed` | SentIsReceived, with `NoneFits` | `MarkInv` over `IndInv` |
| `SprayProofs!Returning` | CopiesReturn | `IndInv` |
| `SprayProofs!Spraying` | KeepsBudget | step simulation under `IndInv` |
| `MetadataProofs!UpToDate` | FreshTable | `TableInv` |
| `MetadataProofs!TrueList` | ProphetSentIsTrue | `SentInv` |

* **Processing.** `NothingLost` holds for any number of bundles, peers, goroutines,
  receptions and crashes. `NothingLostSerially` follows, since a step of the serial
  node is one of the concurrent node. `IndInv` adds to NoSilentLoss that
  nothing is kept about an unknown bundle (`AbsentIsEmpty`); that an item which is
  about to be written back was known when it was read (`WritesKnown`,
  `FailureKnown`), so that an update removes nothing; that a Sync without
  constraints, which deletes the item, happens only in one of the windows or after
  a decision (`EmptySyncHasReason`); that Deliver has taken LocalEndpoint away
  before it hands over; and where Sync returns to, since one `Sync` serves ten
  callers. There is one lemma per action.
  For `FoundAgain`, every bundle that is not settled has an *active* goroutine: one
  that has yet to write a mark, a decision or LocalEndpoint. `Passive` names the ones
  that have not, among them a reception that will return early; the last Sync of a
  bundle leaves it marked (`EndsMarked`). The attempt to prove NotStranded as it was
  first stated failed for a reception that finds DispatchPending in the store, which
  no bound of the runs reached: that is the finding of the run `repeated`, and the
  third alternative of NotStranded.
* **Processing without overlap.** For the three properties of `SerialSpec`, a bundle is
  at rest (`RestAt`), worked on by the one goroutine that is not idle (`WorkAt`), or on
  the list of a pass of checkPendingBundles (`TodoAt`), and `SerialInv` says of each
  what the properties will need:
  * the sent lists in the store and in the item a goroutine holds name only nodes that
    have the bundle or are being sent to (`TrueAt`);
  * where a transmission may follow, they name *all* nodes that have it (`KeptAt`). A
    reception starts with an item that lists nobody. So until NotifyNewBundle has
    entered the sender no mark may lead a retry to it (`Early`), from then on the list
    is complete (`OnWay`), and in forward what is under way is disjoint from who has it
    (`SendingKept`). A pending item therefore has a complete list, across crashes, too;
  * after a decision the last Sync of the goroutine finds no constraints and deletes
    the item, and LocalEndpoint, which would keep it, is not yet there while it can
    still be forwarded (`GoneAt`).

  None of them is inductive alone. The proof takes one lemma per action, on
  top of two frames: a step of a goroutine that goes on with its bundle or is through
  with it (`WorkFrame`), and a bundle nobody works on (`RestFrame`), which a status
  report about it may still delete. It holds for any number of receptions and
  crashes; the exceptions stand in the properties. They came out of the proof: the
  properties were first stated for one reception and no crash.
* **BundleStore.** For a bundle whose calls did not overlap there is one call at a
  time (`Solo`), what it has read is what the database says (`Fresh`), and the files
  are those of the item, at each place of a call (`Files`). A crash breaks `Files` but
  not `Pushed`, since a part is entered after its file was written.
* **Submission.** `Kept`: a number that was given out is not above the state of
  its time, or that state was removed and the time is too old to be used again. For
  `Keeping`, an item is under the creation time of its bundle, which is on its way
  (`Placed`). The last Sync of transmit has constraints, so it pushes, or leaves what is
  there: once the last bundle of a creation time is in transmit there is an item, and no
  Sync that could delete it is left.
* **RestAgent.** Two goroutines load a mailbox and write it back, receiveBundleMessage
  and handleFetch, of which there may be many. What one of them has loaded is still what
  the mailbox holds, or another fetch has answered with it (`Loaded`, `Taken`), for a
  client whose fetches did not overlap the handler. What was fetched and what the
  mailbox holds are together what was put in (`Held`), also in the middle of a fetch,
  and without a repetition if no two fetches overlapped; a bundle is put in once
  (`Delivering`), and a client that got none yet has no mailbox (`Untouched`).
* **Mtcp.** `StreamOK` reads a connection as a stream: what the server has begun is a
  prefix of the bundles in the order of the mutex (`Found`), the halves of a bundle on the
  wire are neighbours (`Paired`), and the beginnings on the wire are those of the next
  bundles (`Queued`). Nothing says that all of them are there: a cut swallows writes that
  seem to succeed. Only while the connection is up is everything written that was begun,
  and the bundle of which half was written is that of the Send with the mutex
  (`Current`), which is why no other piece gets between. `Turns` has that who writes
  has the mutex. A probe goes to the connection the client has by then, perhaps not the
  one its bundle went to, where nobody is in the middle of a bundle either. The
  assumption `HoldersAssumption` says that a bundle is not called "handler" or `Nobody`.
* **Broadcast.** `Tracked` follows one transmission to one node. The parts of a bundle are
  numbered; those the node has assembled are the first h, the reader may have the next
  one in hand, the modem holds those up to o, and the sender's queue those up to the
  last one put in, without a gap and in order (`Chain`). Each step moves one part
  from one of the four to the next. The sequence number that the receiver expects is
  then that of the next part, modulo `SeqNoMod`, however often it wraps (`NextMod`). A part
  of another bundle leaves the chain as it is, unless it has the same id, which
  makes the bundle `spoilt`. `Paced` has where Send is in its loop.
* **Fragmentation.** `Loop`: every fragment was cut with the room that was left, and
  the fragments tile the payload up to i. `Merging`: the fragments are a chain in which
  each starts where the previous one ends or earlier, and what was merged is the
  payload up to lastIndex. The key fact for `Fitting` is that a CBOR head does not get
  shorter for larger numbers (`CborLenGrows`), since Fragment counts the head of a
  byte string of mtu bytes.
* **CLAManager**, for any layout of addresses, and under `OrderlySpec`: registrations
  do not overlap. One goroutine at a time is about to change the map (`OneBusy`); an
  element that is being worked on is the one the map has for its address, or there is
  none (`Phase`); a running handler belongs to an element that is in the map or about
  to be (`ElemInv`). For `Panicless`, an element that the manager deactivates has a handler
  and open channels, or is `Feigned`; `UnregisterPanic` shows this for the step
  that closes stopSyn, no handler is left when `inChnl` is closed, and after a panic
  nothing happens. For `Ordering`
  the messages of a CLA between its handler and the core are numbered without a gap
  (`Numbered`).
* **Transfer.** The messages from one end to the other form a pipe through four channels
  and two goroutines (`Pipe`): what left one part of it is in the next one, so that a
  step drops the first message, appends one, or leaves the pipe as it is. The segments
  of a bundle in the pipe tile the bytes from what the receiver has up to what the
  sender has cut (`Tiles`), acknowledgements never exceed what was received
  (`Acknowledged`, `AckOK`), and transfer ids are not used twice (`Numbering`, which
  counts the Sends and so needs a finite `Bundle`). When the session breaks, the pipes
  are given up, and what the receivers had is only told by `lost`. `Confirmed` is about
  bundles whose last segment is not full (`NoneFits`), since the code marks no other
  last segment; the run `exact` shows what becomes of these.
* **Spray.** Every step is a step of the budget: `Hand` at the sender and the
  receiver, `Lose` or `Mint` at one node, or `Expire`. The copies of a node are those its
  metadata counts, and those it has taken for peers it still sends to and for
  ReportFailures that will give one back. Of several ReportFailures that overlap, the
  last one to write decides, with what it has read: the mapping counts the largest
  value that may still be written (`Counted`; the proof needed it, as four overlapping
  ones break a mapping that only looks at the metadata), and what is not returned is
  lost. `IndInv` needs that nobody writes between SenderForBundle's read and its write
  (`Reading`), and that metadata always counts a copy for the node itself (`Fits`). That
  the sum of the copies is at most L plus `minted` follows from the abstract steps by
  induction over the nodes, which this prover cannot do; no theorem states it.
* **LinkState and Prophet** are proved as parts of `MCSpec`, whose behaviours are those
  of one or the other. FreshTable is almost inductive by itself. It needs that
  peerChange is up while broadcastCron is at work (`Raised`): the broadcast takes the
  node's own data from the received data, and does not always raise receivedChange
  then; only the end of broadcastCron takes peerChange down, and raises the other flag.
  ProphetSentIsTrue is inductive with the types of the runs (`SentInv`): a run that has
  written its choice is sending to it, and a ReportFailure that writes what is still in the
  store removes just the peer it is about. The exception `overwrote` is needed for
  exactly the writes for which this is not so.

Assumptions are those of the modules: constants have their types; `Bundle`, `Conv` and
the layouts are not empty; channels have room for a message; links lead to peers; the
nodes of a spray network and the bundles of a session are finitely many; a value that
stands for "no item" or "no metadata" is none; a bundle to be broadcast has a fragment,
and the ids and sequence numbers of fragments have at least one value.

Only model-checked:

* all liveness (EventuallySent, Settles, StatusReaches, SendReturns, Arrives, ExpiredGoes,
  Announced, MtcpEnds, SessionsMeet, NoGhost, MuxServes, Exchanged), which this
  prover does not handle;
* RoundTrip, which says of every payload that a loop ends well: induction over its
  fragments;
* what the three runs with a violation show.

The definitions TypeOK of modules other than `Processing` describe their state; no run
lists them.

## What is left out, and why

* Data: payloads, names, logging, the encoding of messages. The database
  (badgerhold) is taken to be linearizable and durable; its conflict errors, which
  the code only logs, are not modelled.
* In Processing, there is one CLA per peer, and the node's own status reports
  are recorded but not followed on their way. The store is atomic there; its files
  are in BundleStore. The age of bundles is not modelled.
* In CLAManager, providers (listeners) and RegisterEndpointID; an element that is
  started a second time is followed with one handler only. Discovery's packets are
  pure I/O; what it does to the node is to register CLAs.
* In Transfer, XFER_REFUSE, which this code never sends. In Session, the encodings of
  messages and the WebSocket variant, which has the same control over another
  message switch; a Send on a client whose TransferManager is gone.
* In Fragmentation, blocks are counted with the CRC they have; a fragment that turns
  out shorter than estimated is not an error.
* In Spray, one bundle at a time, and one run of forward per node. In LinkState, the
  lookup of a next hop, which only reads the table; announced times of a loss are not
  ahead of the clock, as they would be from a node whose clock is. In Prophet, the rounding
  of floating point numbers, for which a small scale stands; NotifyNewBundle's
  read and write of the item are one step, as the bundle is not dispatched before.
* In Broadcast, the modems and the compression. In Mtcp, the server's reaction to an
  error of SetDeadline (it calls its own Close and would wait for itself).
* In Agents, a send of a WebSocket client's goroutine on a channel that its own shutdown
  has closed ends in a panic that the model records and does not follow.
* In Agents and Exchange, syscalls, which no program makes and the node does not
  answer. A Syscall that timed out would leave its answer to the next one and block
  handleReader meanwhile.
* The table of Cron (its jobs are actions that may run whenever they may), the
  pipeline (unused), `dtn-tool ping`, signatures, status report records, the encoding
  of bundles, and the configuration of the daemon: data, I/O, or code without
  concurrency of its own.

## Plan

Done: the way of a bundle through the core first, then the store, fragmentation,
CLA manager and transfers, then the other routing algorithms with the abstract copy
budget, the adapters and the agents. Next, in this order:

1. A refinement: `Transfer` as an implementation of an abstract link that either
   delivers a bundle whole or reports an error.
2. `CLAManager`: providers, which register while the manager works; `Cron`'s table.
