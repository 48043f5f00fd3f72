----------------------------- MODULE Processing -----------------------------
(***************************************************************************)
(* Bundle processing of one dtn7 node: pkg/routing/processing.go and       *)
(* core.go with the bundle descriptor (bundle_descriptor.go), the epidemic *)
(* routing algorithm (algorithm_epidemic.go) and the delivery half of      *)
(* agent_manager.go, over the bundle store (storage/store.go).             *)
(*                                                                         *)
(* The goroutines that process bundles run the same code concurrently and  *)
(* share only the store:                                                   *)
(*   Handlers  core.handler, which serves the CLA manager's channel;       *)
(*   Senders   AgentManager.handler, which submits the agents' bundles;    *)
(*   Workers   the goroutines cron starts for checkPendingBundles.         *)
(* One step of a goroutine makes at most one access to the store: every    *)
(* badgerhold call is a transaction of its own, and everything read before *)
(* it may be stale when it is used.  pc names the place in the code.       *)
(***************************************************************************)
EXTENDS Naturals, FiniteSets

CONSTANTS Bundle,       \* scrubbed bundle IDs
          Header,       \* what the code reads from each bundle, see HeaderType
          Peer,         \* endpoint IDs of the neighbours
          Links,        \* the neighbours this node can send to, by one CLA each
          Handlers, Senders, Workers,
          InspectAll,   \* Core.InspectAllBundles
          Mixes,        \* bound: sets of bundles that appear together
          Bound         \* bundle -> bound of what happens while it is there:
                        \* rx receptions, crash crashes of the process, and
                        \* whether agents come and go, cron calls
                        \* checkPendingBundles, links come up, it expires

Thread == Handlers \cup Senders \cup Workers

Status == {"received", "forwarded", "delivered", "deleted"}

(* dest: "here" is an endpoint of this node's own ID, "agent" an endpoint  *)
(* that is local only while an agent registers it, a peer is that node's   *)
(* own endpoint, "away" is any other node.  hops: the next hop exceeds the *)
(* hop limit.  drop: an unknown block demands deletion.  foreign: the      *)
(* source is not an endpoint of this node.  admin: not an administrative   *)
(* record, a broken one, or a status report for the bundles in refers that *)
(* says they were delivered.  wants: the reports that are requested from   *)
(* this node, {} for administrative records and own report-to endpoints.   *)
(* prev: when received, it has a previous node block.                      *)
HeaderType == [dest: Peer \cup {"here", "agent", "away"},
               own: BOOLEAN, prev: BOOLEAN, hops: BOOLEAN, drop: BOOLEAN, foreign: BOOLEAN,
               admin: {"no", "bad", "report"}, refers: SUBSET Bundle,
               wants: SUBSET Status]

ASSUME BundleAssumption == Bundle # {}
ASSUME LinksAssumption == Links \subseteq Peer
ASSUME HeaderAssumption == Header \in [Bundle -> HeaderType]
ASSUME BoundAssumption == /\ Mixes \subseteq SUBSET Bundle
                          /\ Bound \in [Bundle -> [rx: Nat, crash: Nat, agents: BOOLEAN,
                                                cron: BOOLEAN, links: BOOLEAN, expires: BOOLEAN]]
ASSUME FlagAssumption == InspectAll \in BOOLEAN

VARIABLES store,      \* bundle -> the store's BundleItem
          th,         \* goroutine -> program counter and local variables
          go,         \* goroutine -> peer -> the goroutine forward starts for it
          up,         \* peers whose CLA is in claManager.Sender()
          appeared,   \* peers whose PeerAppeared waits in the CLA channel
          agentUp,    \* an agent has registered the local endpoints
          expired,    \* bundles whose lifetime is over
          rx,         \* bundle -> number of receptions so far
          crashes,    \* number of crashes so far
          \* history variables
          accepted,   \* bundles that were received or submitted
          fate,       \* bundle -> why the node may have let go of it
          from,       \* bundle -> peers it came from, by its previous node block
          got,        \* bundle -> peers it was sent to successfully
          reports     \* bundle -> status reports sent about it

vars == <<store, th, go, up, appeared, agentUp, expired, rx, crashes,
          accepted, fate, from, got, reports>>
env == <<up, appeared, agentUp, expired, rx, crashes>>
history == <<accepted, fate, from, got, reports>>

-----------------------------------------------------------------------------
(* Data *)

Constraint == {"DispatchPending", "ForwardPending", "Contraindicated", "LocalEndpoint"}

(* A BundleItem: the Pending index, the three properties the code keeps in *)
(* it.  A missing constraints property reads as the empty set.             *)
BundleItem == [known: BOOLEAN, pending: BOOLEAN, cons: SUBSET Constraint,
               dest: BOOLEAN, sent: SUBSET Peer]

NoItem == [known |-> FALSE, pending |-> FALSE, cons |-> {}, dest |-> FALSE, sent |-> {}]

(* Mutant: a new item demands reassembly *)
newBundleItemReassembly == [NoItem EXCEPT !.known = TRUE, !.cons = {"ReassemblyPending_"}]

newBundleItem == [NoItem EXCEPT !.known = TRUE]

Fate == {"forwarded", "delivered", "finished", "deleted", "expired", "reported", "crashed"}

Pc == {"idle", "next", "recvSync1", "recvSync2", "receive", "blocks",
       "sendSync1", "sendNotify", "transmit", "srcCheck",
       "notify", "notifyDest", "notifySent",
       "dispatching", "clasForBundle", "setPending", "bundle",
       "forward", "checks", "senderForBundle", "updateSent", "sending",
       "localDelivery", "localSync", "deliver", "handOver", "finishLocal", "inspect",
       "sync", "done"}

ThreadState == [pc: Pc, ret: Pc, b: Bundle, cons: SUBSET Constraint, mem: BOOLEAN,
                prev: SUBSET Peer, item: BundleItem, err: BOOLEAN,
                del: BOOLEAN, ok: BOOLEAN, todo: SUBSET Bundle]

SendState == [st: {"none", "sending", "failed", "update"}, item: BundleItem]

Idle == [pc |-> "idle", ret |-> "idle", b |-> CHOOSE b \in Bundle : TRUE, cons |-> {},
         mem |-> FALSE, prev |-> {}, item |-> NoItem, err |-> FALSE,
         del |-> FALSE, ok |-> FALSE, todo |-> {}]

NoSend == [st |-> "none", item |-> NoItem]

(* Core.HasEndpoint and AgentManager.HasEndpoint for b's destination *)
HasEndpoint(b) == \/ Header[b].dest = "here"
                  \/ Header[b].dest = "agent" /\ agentUp

AgentHasEndpoint(b) == Header[b].dest \in {"here", "agent"} /\ agentUp

(* The pending rule of BundleDescriptor.Sync; nothing in the code ever     *)
(* adds ReassemblyPending_.                                                *)
IsPending(cons) == cons \cap {"ForwardPending", "Contraindicated"} # {}

(* Mutant: Contraindicated is forgotten *)
PurgeSome(cons) == cons \cap {"LocalEndpoint", "Contraindicated"}

PurgeConstraints(cons) == cons \cap {"LocalEndpoint"}

(* Mutant: the sent list is ignored *)
filterNone(item) == up

(* filterCLAs: the connected peers that are not in the item's sent list *)
filterCLAs(item) == up \ item.sent

-----------------------------------------------------------------------------
(* Store and thread steps *)

(* Store.Update: fails with ErrNotFound if the item is gone *)
StoreUpdate(b, item) ==
    store' = IF store[b].known THEN [store EXCEPT ![b] = item] ELSE store

StoreDelete(b) == store' = [store EXCEPT ![b] = NoItem]

SetThread(t, r) == th' = [th EXCEPT ![t] = r]

At(t, pc) == th[t].pc = pc

Goto(t, pc) == SetThread(t, [th[t] EXCEPT !.pc = pc])

(* What a goroutine is once it is through with a bundle: at the next       *)
(* element of checkPendingBundles' list, or waiting for work.              *)
Finished(r) == [Idle EXCEPT !.pc = IF r.todo = {} THEN "idle" ELSE "next",
                            !.todo = r.todo]

Done(t) == SetThread(t, Finished(th[t]))

(* The first half of BundleDescriptor.Sync: KnowsBundle and QueryId.  If   *)
(* the item vanishes between the two, the error has the same effect as     *)
(* an Update or Delete that finds nothing.                                 *)
Sync(t, cons, ret) ==
    SetThread(t, [th[t] EXCEPT !.pc = "sync", !.cons = cons,
                               !.item = store[th[t].b], !.ret = ret])

(* Control returns from Sync to its caller *)
Return(t, err) ==
    SetThread(t, IF th[t].ret = "done" THEN Finished(th[t])
                 ELSE [th[t] EXCEPT !.pc = th[t].ret, !.ret = "idle",
                                    !.item = NoItem, !.err = err])

(* The second half of Sync, one action per branch.  Push inserts only an   *)
(* unknown bundle; an insertion that lost the race is ignored or an error. *)
SyncPush(t) ==
    /\ At(t, "sync") /\ ~th[t].item.known
    /\ \/ ~store[th[t].b].known /\ Return(t, FALSE)
       \/ store[th[t].b].known /\ \E err \in BOOLEAN : Return(t, err)
    /\ store' = IF store[th[t].b].known THEN store
                ELSE [store EXCEPT ![th[t].b] = newBundleItem]
    /\ UNCHANGED <<go, env, history>>

(* The deletion that lost a race against another one may be an error *)
SyncDelete(t) ==
    /\ At(t, "sync") /\ th[t].item.known /\ th[t].cons = {}
    /\ StoreDelete(th[t].b)
    /\ \E err \in BOOLEAN : (err => ~store[th[t].b].known) /\ Return(t, err)
    /\ UNCHANGED <<go, env, history>>

SyncUpdate(t) ==
    /\ At(t, "sync") /\ th[t].item.known /\ th[t].cons # {}
    /\ StoreUpdate(th[t].b, [th[t].item EXCEPT !.pending = IsPending(th[t].cons),
                                               !.cons = th[t].cons])
    /\ Return(t, ~store[th[t].b].known)
    /\ UNCHANGED <<go, env, history>>

(* Core.SendStatusReport, for the requested kinds only; the journey of the *)
(* report as a bundle of its own is that of any submitted bundle.          *)
SendStatusReport(b, s) ==
    reports' = [reports EXCEPT ![b] = @ \cup (Header[b].wants \cap {s})]

Settle(b, f) == fate' = [fate EXCEPT ![b] = @ \cup {f}]

bundleDeletion(t) ==
    /\ SendStatusReport(th[t].b, "deleted")
    /\ Settle(th[t].b, "deleted")
    /\ Sync(t, PurgeConstraints(th[t].cons), "done")

-----------------------------------------------------------------------------
(* Reception: core.handler and Core.receive *)

Begin(t, b, prev, pc) ==
    /\ At(t, "idle") /\ \E M \in Mixes : accepted \cup {b} \subseteq M
    /\ SetThread(t, [Idle EXCEPT !.pc = pc, !.b = b, !.mem = TRUE,
                                 !.prev = prev, !.cons = store[b].cons])
    /\ accepted' = accepted \cup {b}
    /\ UNCHANGED <<store, go, up, appeared, agentUp, expired, crashes, fate, got, reports>>

(* A ReceivedBundle from the CLA channel; NewBundleDescriptor reads the    *)
(* stored constraints.  A bundle of this node comes back only after it was *)
(* sent.                                                                   *)
ReceivedBundle(t, b, p) ==
    LET prev == IF Header[b].prev THEN {p} ELSE {}
    IN  /\ Header[b].own => got[b] # {}
        /\ rx[b] < Bound[b].rx
        /\ rx' = [rx EXCEPT ![b] = @ + 1]
        /\ from' = [from EXCEPT ![b] = @ \cup prev]
        /\ Begin(t, b, prev, "recvSync1")

RecvSync1(t) ==
    /\ At(t, "recvSync1") /\ Sync(t, th[t].cons, "recvSync2")
    /\ UNCHANGED <<store, go, env, history>>

RecvSync2(t) ==
    /\ At(t, "recvSync2") /\ Sync(t, th[t].cons, "receive")
    /\ UNCHANGED <<store, go, env, history>>

ReceiveKnown(t) ==
    /\ At(t, "receive") /\ th[t].cons # {}
    /\ Done(t)
    /\ UNCHANGED <<store, go, env, history>>

(* Mutant: receive does not synchronize the new bundle *)
ReceiveNoSync(t) ==
    /\ At(t, "receive") /\ th[t].cons = {}
    /\ SetThread(t, [th[t] EXCEPT !.pc = "blocks", !.cons = {"DispatchPending"}])
    /\ UNCHANGED <<store, go, env, history>>

ReceiveNew(t) ==
    /\ At(t, "receive") /\ th[t].cons = {}
    /\ Sync(t, {"DispatchPending"}, "blocks")
    /\ UNCHANGED <<store, go, env, history>>

(* Reception report, then the loop over the unknown canonical blocks *)
Blocks(t) ==
    LET b == th[t].b
        R == {"received"} \cup (IF Header[b].drop THEN {"deleted"} ELSE {})
    IN  /\ At(t, "blocks")
        /\ reports' = [reports EXCEPT ![b] = @ \cup (Header[b].wants \cap R)]
        /\ \/ /\ Header[b].drop
              /\ Settle(b, "deleted")
              /\ Sync(t, PurgeConstraints(th[t].cons), "done")
           \/ /\ ~Header[b].drop
              /\ SetThread(t, [th[t] EXCEPT !.pc = "notify", !.ret = "dispatching"])
              /\ UNCHANGED fate
        /\ UNCHANGED <<store, go, env, accepted, from, got>>

-----------------------------------------------------------------------------
(* Submission by an agent: Core.SendBundle and Core.transmit *)

SendBundle(t, b) ==
    /\ Header[b].own /\ b \notin accepted
    /\ Begin(t, b, {}, "sendSync1")
    /\ UNCHANGED <<rx, from>>

SendSync1(t) ==
    /\ At(t, "sendSync1") /\ Sync(t, th[t].cons, "sendNotify")
    /\ UNCHANGED <<store, go, env, history>>

SendNotify(t) ==
    /\ At(t, "sendNotify")
    /\ SetThread(t, [th[t] EXCEPT !.pc = "notify", !.ret = "transmit"])
    /\ UNCHANGED <<store, go, env, history>>

transmit(t) ==
    /\ At(t, "transmit")
    /\ Sync(t, th[t].cons \cup {"DispatchPending"}, "srcCheck")
    /\ UNCHANGED <<store, go, env, history>>

SrcCheck(t) ==
    /\ At(t, "srcCheck")
    /\ \/ /\ Header[th[t].b].foreign
          /\ bundleDeletion(t)
       \/ /\ ~Header[th[t].b].foreign
          /\ Goto(t, "dispatching")
          /\ UNCHANGED <<fate, reports>>
    /\ UNCHANGED <<store, go, env, accepted, from, got>>

-----------------------------------------------------------------------------
(* EpidemicRouting.NotifyNewBundle: one read, then up to two updates with  *)
(* the item that was read.                                                 *)

NotifyRead(t) ==
    LET item == store[th[t].b]
    IN  /\ At(t, "notify")
        /\ SetThread(t, IF item.known THEN [th[t] EXCEPT !.pc = "notifyDest", !.item = item]
                        ELSE [th[t] EXCEPT !.pc = th[t].ret, !.ret = "idle"])
        /\ UNCHANGED <<store, go, env, history>>

NotifyDest(t) ==
    LET item == [th[t].item EXCEPT !.dest = TRUE]
    IN  /\ At(t, "notifyDest")
        /\ IF th[t].item.dest THEN UNCHANGED store ELSE StoreUpdate(th[t].b, item)
        /\ SetThread(t, IF th[t].prev \subseteq item.sent
                        THEN [th[t] EXCEPT !.pc = th[t].ret, !.ret = "idle", !.item = NoItem]
                        ELSE [th[t] EXCEPT !.pc = "notifySent", !.item = item])
        /\ UNCHANGED <<go, env, history>>

NotifySent(t) ==
    /\ At(t, "notifySent")
    /\ StoreUpdate(th[t].b, [th[t].item EXCEPT !.sent = @ \cup th[t].prev])
    /\ SetThread(t, [th[t] EXCEPT !.pc = th[t].ret, !.ret = "idle", !.item = NoItem])
    /\ UNCHANGED <<go, env, history>>

-----------------------------------------------------------------------------
(* Core.dispatching and EpidemicRouting.DispatchingAllowed, which reads    *)
(* the item twice and updates it with what the first read returned.        *)

dispatching(t) ==
    LET item == store[th[t].b]
    IN  /\ At(t, "dispatching")
        /\ SetThread(t, IF ~item.known \/ (item.dest /\ HasEndpoint(th[t].b))
                        THEN [th[t] EXCEPT !.pc = "bundle"]
                        ELSE [th[t] EXCEPT !.pc = "clasForBundle", !.item = item])
        /\ UNCHANGED <<store, go, env, history>>

clasForBundle(t) ==
    LET item == store[th[t].b]
    IN  /\ At(t, "clasForBundle")
        /\ SetThread(t, IF item.known /\ filterCLAs(item) # {}
                        THEN [th[t] EXCEPT !.pc = "bundle", !.item = NoItem]
                        ELSE [th[t] EXCEPT !.pc = "setPending"])
        /\ UNCHANGED <<store, go, env, history>>

(* Mutant: a refused bundle is not marked pending *)
SetNothing(t) ==
    /\ At(t, "setPending") /\ Done(t)
    /\ UNCHANGED <<store, go, env, history>>

SetPending(t) ==
    /\ At(t, "setPending")
    /\ StoreUpdate(th[t].b, [th[t].item EXCEPT !.pending = TRUE])
    /\ Done(t)
    /\ UNCHANGED <<go, env, history>>

(* BundleDescriptor.Bundle, and the choice between delivery and forwarding *)
LoadBundle(t) ==
    /\ At(t, "bundle")
    /\ SetThread(t, IF ~th[t].mem /\ ~store[th[t].b].known THEN Finished(th[t])
                    ELSE [th[t] EXCEPT !.mem = TRUE,
                              !.pc = IF HasEndpoint(th[t].b) THEN "localDelivery" ELSE "forward"])
    /\ UNCHANGED <<store, go, env, history>>

-----------------------------------------------------------------------------
(* Core.forward *)

forward(t) ==
    /\ At(t, "forward")
    /\ Sync(t, (th[t].cons \cup {"ForwardPending"}) \ {"DispatchPending"}, "checks")
    /\ UNCHANGED <<store, go, env, history>>

StartSending(t, nodes, del) ==
    /\ SetThread(t, [th[t] EXCEPT !.pc = "sending", !.del = del, !.ok = FALSE, !.item = NoItem])
    /\ go' = [go EXCEPT ![t] = [p \in Peer |-> IF p \in nodes THEN [NoSend EXCEPT !.st = "sending"]
                                               ELSE NoSend]]

(* Hop limit and lifetime, then direct delivery if the destination is a    *)
(* connected peer.                                                         *)
ForwardExceeded(t) ==
    /\ At(t, "checks")
    /\ Header[th[t].b].hops \/ th[t].b \in expired
    /\ bundleDeletion(t)
    /\ UNCHANGED <<store, go, env, accepted, from, got>>

senderForDestination(t) ==
    LET nodes == up \cap {Header[th[t].b].dest}
    IN  /\ At(t, "checks")
        /\ ~Header[th[t].b].hops /\ th[t].b \notin expired
        /\ IF nodes # {} THEN StartSending(t, nodes, TRUE)
           ELSE Goto(t, "senderForBundle") /\ UNCHANGED go
        /\ UNCHANGED <<store, env, history>>

(* EpidemicRouting.SenderForBundle: the read, then the update of the sent  *)
(* list, which names the peers before the bundle is sent to them.          *)
SenderForBundle(t) ==
    LET item == store[th[t].b]
    IN  /\ At(t, "senderForBundle")
        /\ IF item.known
           THEN /\ SetThread(t, [th[t] EXCEPT !.pc = "updateSent",
                                     !.item = [item EXCEPT !.sent = @ \cup up]])
                /\ go' = [go EXCEPT ![t] = [p \in Peer |->
                              IF p \in filterCLAs(item) THEN [NoSend EXCEPT !.st = "sending"]
                              ELSE NoSend]]
           ELSE StartSending(t, {}, FALSE)
        /\ UNCHANGED <<store, env, history>>

UpdateSent(t) ==
    /\ At(t, "updateSent")
    /\ StoreUpdate(th[t].b, th[t].item)
    /\ SetThread(t, [th[t] EXCEPT !.pc = "sending", !.del = FALSE, !.ok = FALSE, !.item = NoItem])
    /\ UNCHANGED <<go, env, history>>

(* The goroutine forward starts per peer: Send, and ReportFailure's read   *)
(* and update if Send failed.                                              *)
SetGo(t, p, g) == go' = [go EXCEPT ![t] = [@ EXCEPT ![p] = g]]

SendOk(t, p) ==
    /\ At(t, "sending") /\ go[t][p].st = "sending" /\ p \in up
    /\ SetThread(t, [th[t] EXCEPT !.ok = TRUE])
    /\ got' = [got EXCEPT ![th[t].b] = @ \cup {p}]
    /\ SetGo(t, p, NoSend)
    /\ UNCHANGED <<store, env, accepted, fate, from, reports>>

SendFail(t, p) ==
    /\ At(t, "sending") /\ go[t][p].st = "sending"
    /\ SetGo(t, p, [NoSend EXCEPT !.st = "failed"])
    /\ UNCHANGED <<store, th, env, history>>

ReportFailureRead(t, p) ==
    LET item == store[th[t].b]
    IN  /\ At(t, "sending") /\ go[t][p].st = "failed"
        /\ SetGo(t, p, IF item.known THEN [st |-> "update", item |-> item] ELSE NoSend)
        /\ UNCHANGED <<store, th, env, history>>

(* Mutant: the failed peer stays in the sent list *)
ReportNothing(t, p) ==
    /\ At(t, "sending") /\ go[t][p].st = "update"
    /\ SetGo(t, p, NoSend)
    /\ UNCHANGED <<store, th, env, history>>

ReportFailureUpdate(t, p) ==
    /\ At(t, "sending") /\ go[t][p].st = "update"
    /\ StoreUpdate(th[t].b, [go[t][p].item EXCEPT !.sent = @ \ {p}])
    /\ SetGo(t, p, NoSend)
    /\ UNCHANGED <<th, env, history>>

(* After wg.Wait(): the forward report, and deletion after a direct        *)
(* delivery or bundleContraindicated.                                      *)
AfterSending(t) ==
    LET b == th[t].b
    IN  /\ At(t, "sending") /\ \A p \in Peer : go[t][p].st = "none"
        /\ IF th[t].ok THEN SendStatusReport(b, "forwarded") ELSE UNCHANGED reports
        /\ \/ /\ th[t].ok /\ th[t].del
              /\ Settle(b, "forwarded")
              /\ Sync(t, PurgeConstraints(th[t].cons), "done")
           \/ /\ ~(th[t].ok /\ th[t].del)
              /\ Sync(t, th[t].cons \cup {"Contraindicated"},
                      IF th[t].ok /\ InspectAll /\ Header[b].admin # "no" THEN "inspect" ELSE "done")
              /\ UNCHANGED fate
        /\ UNCHANGED <<store, go, env, accepted, from, got>>

-----------------------------------------------------------------------------
(* Core.localDelivery, checkAdministrativeRecord, AgentManager.Deliver *)

(* inspectStatusReport: the stored bundles a report calls delivered go *)
InspectStatusReport(t) ==
    LET refs == {b \in Header[th[t].b].refers : store[b].known}
    IN  /\ store' = [b \in Bundle |-> IF b \in refs THEN NoItem ELSE store[b]]
        /\ fate' = [b \in Bundle |-> IF b \in refs THEN fate[b] \cup {"reported"} ELSE fate[b]]

(* A forwarded administrative record, inspected with InspectAllBundles *)
Inspect(t) ==
    /\ At(t, "inspect")
    /\ IF Header[th[t].b].admin = "report" THEN InspectStatusReport(t)
       ELSE UNCHANGED <<store, fate>>
    /\ Done(t)
    /\ UNCHANGED <<go, env, accepted, from, got, reports>>

localDelivery(t) ==
    LET admin == Header[th[t].b].admin
    IN  /\ At(t, "localDelivery")
        /\ \/ /\ admin = "bad"
              /\ bundleDeletion(t)
              /\ UNCHANGED store
           \/ /\ admin = "report"
              /\ InspectStatusReport(t)
              /\ Goto(t, "localSync")
              /\ UNCHANGED reports
           \/ /\ admin = "no"
              /\ Goto(t, "localSync")
              /\ UNCHANGED <<store, fate, reports>>
        /\ UNCHANGED <<go, env, accepted, from, got>>

LocalSync(t) ==
    /\ At(t, "localSync")
    /\ Sync(t, th[t].cons \cup {"LocalEndpoint"}, "deliver")
    /\ UNCHANGED <<store, go, env, history>>

Deliver(t) ==
    /\ At(t, "deliver")
    /\ IF AgentHasEndpoint(th[t].b)
       THEN Sync(t, th[t].cons \ {"LocalEndpoint"}, "handOver")
       ELSE Goto(t, "finishLocal")
    /\ UNCHANGED <<store, go, env, history>>

(* The bundle goes to the mux agent, unless Sync returned an error *)
HandOver(t) ==
    /\ At(t, "handOver")
    /\ IF th[t].err THEN UNCHANGED fate ELSE Settle(th[t].b, "delivered")
    /\ Goto(t, "finishLocal")
    /\ UNCHANGED <<store, go, env, accepted, from, got, reports>>

(* The rest of localDelivery does not depend on Deliver's result *)
FinishLocal(t) ==
    LET cons == PurgeConstraints(th[t].cons)
    IN  /\ At(t, "finishLocal")
        /\ SendStatusReport(th[t].b, "delivered")
        /\ IF "LocalEndpoint" \in th[t].cons THEN UNCHANGED fate
           ELSE Settle(th[t].b, "finished")
        /\ Sync(t, cons, "done")
        /\ UNCHANGED <<store, go, env, accepted, from, got>>

-----------------------------------------------------------------------------
(* Core.checkPendingBundles, from cron or on a PeerAppeared *)

CheckPending(t) ==
    LET pending == {b \in Bundle : store[b].pending}
    IN  /\ At(t, "idle")
        /\ SetThread(t, Finished([Idle EXCEPT !.todo = pending]))
        /\ UNCHANGED <<store, go, history>>

Cron(t) ==
    /\ \A b \in accepted : Bound[b].cron
    /\ CheckPending(t)
    /\ UNCHANGED env

PeerAppeared(t, p) ==
    /\ p \in appeared
    /\ appeared' = appeared \ {p}
    /\ CheckPending(t)
    /\ UNCHANGED <<up, agentUp, expired, rx, crashes>>

NextPending(t, b) ==
    /\ At(t, "next") /\ b \in th[t].todo
    /\ SetThread(t, [Idle EXCEPT !.pc = "dispatching", !.b = b, !.cons = store[b].cons,
                                 !.todo = th[t].todo \ {b}])
    /\ UNCHANGED <<store, go, env, history>>

-----------------------------------------------------------------------------
(* The world around: neighbours, agents, time, and the clean_store job *)

PeerUp(p) ==
    /\ p \in Links \ up /\ \E b \in accepted : Bound[b].links
    /\ up' = up \cup {p} /\ appeared' = appeared \cup {p}
    /\ UNCHANGED <<store, th, go, agentUp, expired, rx, crashes, history>>

PeerDown(p) ==
    /\ p \in up
    /\ up' = up \ {p}
    /\ UNCHANGED <<store, th, go, appeared, agentUp, expired, rx, crashes, history>>

AgentChange ==
    /\ \E b \in accepted : Bound[b].agents
    /\ agentUp' = ~agentUp
    /\ UNCHANGED <<store, th, go, up, appeared, expired, rx, crashes, history>>

Expire(b) ==
    /\ b \in accepted \ expired /\ Bound[b].expires
    /\ expired' = expired \cup {b}
    /\ UNCHANGED <<store, th, go, up, appeared, agentUp, rx, crashes, history>>

(* Store.DeleteExpired, for one of the bundles it finds *)
DeleteExpired(b) ==
    /\ b \in expired /\ store[b].known
    /\ StoreDelete(b)
    /\ Settle(b, "expired")
    /\ UNCHANGED <<th, go, env, accepted, from, got, reports>>

(* A goroutine that has promised to put b into the store, or to hand it    *)
(* over, although the store may not have it just now.                      *)
InReception(r) ==
    \/ r.pc \in {"recvSync1", "recvSync2", "receive"} /\ r.cons = {}
    \/ r.pc = "sync" /\ r.ret \in {"recvSync2", "receive"} /\ r.cons = {}
    \/ r.pc = "sync" /\ r.ret = "blocks" /\ ~r.item.known

InSubmission(r) ==
    \/ r.pc \in {"sendSync1", "sendNotify", "transmit"}
    \/ r.pc \in {"notify", "notifyDest", "notifySent"} /\ r.ret = "transmit"
    \/ r.pc = "sync" /\ r.ret = "sendNotify"
    \/ r.pc = "sync" /\ r.ret = "srcCheck" /\ ~r.item.known

InDelivery(r) ==
    \/ r.pc = "sync" /\ r.ret = "handOver"
    \/ r.pc = "handOver"
    \/ r.pc = "finishLocal" /\ "LocalEndpoint" \notin r.cons

Vouching(r) == InReception(r) \/ InSubmission(r) \/ InDelivery(r)

Vouches(t, b) == th[t].b = b /\ Vouching(th[t])

(* The process dies and is started again: only the store survives *)
Crash ==
    /\ \E b \in accepted : crashes < Bound[b].crash
    /\ crashes' = crashes + 1
    /\ th' = [t \in Thread |-> Idle]
    /\ go' = [t \in Thread |-> [p \in Peer |-> NoSend]]
    /\ up' = {} /\ appeared' = {} /\ agentUp' = FALSE
    /\ fate' = [b \in Bundle |-> IF \E t \in Thread : Vouches(t, b)
                                 THEN fate[b] \cup {"crashed"} ELSE fate[b]]
    /\ UNCHANGED <<store, expired, rx, accepted, from, got, reports>>

-----------------------------------------------------------------------------
Init ==
    /\ store = [b \in Bundle |-> NoItem]
    /\ th = [t \in Thread |-> Idle]
    /\ go = [t \in Thread |-> [p \in Peer |-> NoSend]]
    /\ up = {} /\ appeared = {} /\ agentUp = FALSE /\ expired = {}
    /\ rx = [b \in Bundle |-> 0] /\ crashes = 0
    /\ accepted = {}
    /\ fate = [b \in Bundle |-> {}]
    /\ from = [b \in Bundle |-> {}]
    /\ got = [b \in Bundle |-> {}]
    /\ reports = [b \in Bundle |-> {}]

(* The code of a goroutine from one store access to the next *)
Step(t) ==
    \/ SyncPush(t) \/ SyncDelete(t) \/ SyncUpdate(t)
    \/ RecvSync1(t) \/ RecvSync2(t) \/ ReceiveKnown(t) \/ ReceiveNew(t) \/ Blocks(t)
    \/ SendSync1(t) \/ SendNotify(t) \/ transmit(t) \/ SrcCheck(t)
    \/ NotifyRead(t) \/ NotifyDest(t) \/ NotifySent(t)
    \/ dispatching(t) \/ clasForBundle(t) \/ SetPending(t) \/ LoadBundle(t)
    \/ forward(t) \/ ForwardExceeded(t) \/ senderForDestination(t)
    \/ SenderForBundle(t) \/ UpdateSent(t) \/ AfterSending(t)
    \/ localDelivery(t) \/ LocalSync(t) \/ Deliver(t) \/ HandOver(t) \/ FinishLocal(t)
    \/ Inspect(t)
    \/ \E b \in Bundle : NextPending(t, b)
    \/ \E p \in Peer : ReportFailureRead(t, p) \/ ReportFailureUpdate(t, p)

Sending(t) == \E p \in Peer : SendOk(t, p) \/ SendFail(t, p)

(* What makes an idle goroutine start *)
Start ==
    \/ \E t \in Handlers, p \in Peer :
         PeerAppeared(t, p) \/ \E b \in Bundle : ReceivedBundle(t, b, p)
    \/ \E t \in Senders, b \in Bundle : SendBundle(t, b)
    \/ \E t \in Workers : Cron(t)

Environment ==
    \/ \E p \in Peer : PeerUp(p) \/ PeerDown(p)
    \/ AgentChange
    \/ \E b \in Bundle : Expire(b) \/ DeleteExpired(b)
    \/ Crash

Next == \/ \E t \in Thread : Step(t) \/ Sending(t)
        \/ Start
        \/ Environment

Spec == Init /\ [][Next]_vars

(* No two transmissions of a bundle are in ReportFailure, which reads the  *)
(* sent list and writes it back, at the same time.                         *)
Alone == \A t \in Thread, p, q \in Peer :
             go[t][p].st = "update" /\ go[t][q].st = "update" => p = q

(* The same node when no two goroutines process bundles at the same time:  *)
(* a pass of checkPendingBundles is over before cron starts the next, and  *)
(* coincides with no reception or submission; nor do two report a failure. *)
SerialNext == /\ \/ \E t \in Thread : Step(t) \/ Sending(t)
                 \/ (\A t \in Thread : At(t, "idle")) /\ Start
                 \/ Environment
              /\ Alone'

SerialSpec == Init /\ [][SerialNext]_vars

(* Goroutines run, Send returns, cron's ticker fires, and a peer that is   *)
(* tried again and again while connected is reached at last.               *)
Fairness ==
    /\ \A t \in Thread : WF_vars(Step(t)) /\ WF_vars(Sending(t))
    /\ \A t \in Workers : SF_vars((\A u \in Thread : At(u, "idle")) /\ Cron(t))
    /\ \A t \in Thread, p \in Peer : SF_vars(SendOk(t, p))

FairSerialSpec == SerialSpec /\ Fairness

-----------------------------------------------------------------------------
(* Properties *)

TypeOK ==
    /\ store \in [Bundle -> BundleItem]
    /\ th \in [Thread -> ThreadState]
    /\ go \in [Thread -> [Peer -> SendState]]
    /\ up \subseteq Peer /\ appeared \subseteq Peer /\ agentUp \in BOOLEAN
    /\ expired \subseteq Bundle
    /\ rx \in [Bundle -> Nat] /\ crashes \in Nat
    /\ accepted \subseteq Bundle
    /\ fate \in [Bundle -> SUBSET Fate]
    /\ from \in [Bundle -> SUBSET Peer] /\ got \in [Bundle -> SUBSET Peer]
    /\ reports \in [Bundle -> SUBSET Status]

(* A bundle that was received or submitted is in the store, or a goroutine *)
(* is about to put it there or to hand it to an agent, or the node decided *)
(* what becomes of it: no interleaving of reception, retries, expiry and   *)
(* status reports loses a bundle, and a crash loses one only in the short  *)
(* windows of InReception, InSubmission and InDelivery.                    *)
NoSilentLoss ==
    \A b \in accepted : \/ store[b].known
                        \/ fate[b] # {}
                        \/ \E t \in Thread : Vouches(t, b)

(* No goroutine is working on b *)
Quiet(b) == \A t \in Thread : th[t].pc \in {"idle", "next"} \/ th[t].b # b

(* A bundle this node has had before was received *)
Repeated(b) == rx[b] > (IF Header[b].own THEN 0 ELSE 1)

(* Once all goroutines are through with a bundle nobody decided about, it  *)
(* is marked pending, so checkPendingBundles finds it again, or it waits   *)
(* for its local endpoint, or the descriptor of a repeated reception was   *)
(* synchronized over it while its dispatching was pending.  (After a crash *)
(* there may be an item that was not yet marked.)                          *)
NotStranded ==
    \A b \in accepted : Quiet(b) /\ fate[b] = {} /\ crashes = 0 =>
        \/ store[b].pending
        \/ store[b].cons = {"LocalEndpoint"}
        \/ Repeated(b) /\ "DispatchPending" \in store[b].cons

(* "DispatchPending is assigned to a bpv7 if its dispatching is pending":  *)
(* checkPendingBundles, which "queries pending bundle (packs)", finds it.  *)
DispatchPendingIsPending ==
    \A b \in accepted : (Quiet(b) /\ fate[b] = {} /\ crashes = 0
                         /\ "DispatchPending" \in store[b].cons) => store[b].pending

(* A bundle that was deleted, or handed to the node it is addressed to, is *)
(* not in the store any more once the goroutines are through with it (but  *)
(* a race with clean_store may put an expired one back, a crash may come   *)
(* before the deletion, and it may be received again).                     *)
SettledIsGone ==
    \A b \in Bundle : (/\ Quiet(b) /\ crashes = 0 /\ ~Repeated(b)
                        /\ fate[b] # {} /\ fate[b] \subseteq {"forwarded", "deleted"})
                       => ~store[b].known

(* Some goroutine is sending b to p, or reporting that this failed *)
InFlight(b, p) == \E t \in Thread : th[t].b = b /\ go[t][p].st # "none"

(* The sent list, which keeps a peer from ever being offered the bundle    *)
(* again, names no peer that does not have it: not even when transmissions *)
(* fail.  (It is stored before the bundle is sent, so a crash may come     *)
(* between the two.)                                                       *)
SentIsTrue ==
    crashes = 0 => \A b \in Bundle : \A p \in store[b].sent :
        p \in got[b] \cup from[b] \/ InFlight(b, p) \/ fate[b] # {}

(* filterCLAs: routing selects no peer that already received the bundle or *)
(* that this node received it from, not even after failures, an expiry or  *)
(* a restart.  (Three things the sent list does not cover: a reception     *)
(* that repeats another one, the peer a bundle is addressed to, which gets *)
(* it without being listed, and bundles a status report has deleted.)      *)
NoResend ==
    \A t \in Thread, p \in Peer :
        LET b == th[t].b IN
        go[t][p].st = "sending" /\ ~th[t].del =>
            \/ p \notin got[b] \cup from[b]
            \/ Repeated(b) \/ p = Header[b].dest \/ "reported" \in fate[b]

(* A peer that stays connected gets every bundle this node has for others, *)
(* unless its fate is decided: a failed transmission is tried again.       *)
EventuallySent ==
    \A p \in Links, b \in Bundle :
        (<>[](p \in up)) =>
            ((b \in accepted /\ Header[b].dest \notin {"here", "agent"})
                ~> (p \in got[b] \cup from[b] \/ fate[b] # {}))
=============================================================================
