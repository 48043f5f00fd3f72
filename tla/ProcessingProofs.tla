-------------------------- MODULE ProcessingProofs --------------------------
(***************************************************************************)
(* Proofs about Processing, for any sets of bundles, peers and goroutines: *)
(* type correctness, that no bundle is lost silently, and that every one   *)
(* nobody decided about is found again; and, of the node whose goroutines  *)
(* do not overlap, that it sends no bundle back to a node that has it,     *)
(* that its sent lists are true and that a settled bundle is deleted.      *)
(***************************************************************************)
EXTENDS Processing, TLAPS

(* Nothing is kept about a bundle the store does not know *)
AbsentIsEmpty == \A b \in Bundle : store[b].cons # {} => store[b].known

(* An item that is about to be written back was in the store when it was   *)
(* read: an update never makes an item unknown.                            *)
WritesKnown(r) ==
    r.pc \in {"notifyDest", "notifySent", "clasForBundle", "setPending", "updateSent"}
        => r.item.known

(* Sync deletes a bundle without constraints: that happens only on the way *)
(* into the store, on the way to an agent, or after a decision f.          *)
EmptySyncHasReason(r, f) ==
    r.pc = "sync" /\ r.cons = {} =>
        r.ret \in {"recvSync2", "receive", "sendNotify", "handOver"} \/ f[r.b] # {}

(* AgentManager.Deliver takes LocalEndpoint away before it hands over *)
HandOverWithoutLocal(r) ==
    r.pc = "handOver" \/ (r.pc = "sync" /\ r.ret = "handOver") => "LocalEndpoint" \notin r.cons

(* Where Sync and NotifyNewBundle were called from *)
ReturnsToCaller(r) ==
    /\ r.pc = "sync" => r.ret \in {"recvSync2", "receive", "blocks", "sendNotify", "srcCheck",
                                    "checks", "deliver", "handOver", "inspect", "done"}
    /\ r.pc \in {"notify", "notifyDest", "notifySent"} => r.ret \in {"transmit", "dispatching"}

ThreadOK(r, f) == /\ WritesKnown(r)
                  /\ EmptySyncHasReason(r, f)
                  /\ HandOverWithoutLocal(r)
                  /\ ReturnsToCaller(r)

(* The same for the update of a failed transmission *)
FailureKnown(g) == \A t \in Thread, p \in Peer : g[t][p].st = "update" => g[t][p].item.known

IndInv == /\ TypeOK
          /\ AbsentIsEmpty
          /\ \A t \in Thread : ThreadOK(th[t], fate)
          /\ FailureKnown(go)
          /\ NoSilentLoss

-----------------------------------------------------------------------------
(* Type correctness *)

(* The items the code writes are BundleItems *)
LEMMA ItemType ==
    /\ NoItem \in BundleItem
    /\ newBundleItem \in BundleItem
    /\ NoSend \in SendState
BY DEF NoItem, newBundleItem, BundleItem, NoSend, SendState

(* A goroutine that waits for work is well typed *)
LEMMA IdleType == Idle \in ThreadState
BY BundleAssumption, ItemType DEF Idle, ThreadState, Pc

(* A goroutine that goes on to its next bundle is well typed *)
LEMMA FinishedType == ASSUME NEW r \in ThreadState PROVE Finished(r) \in ThreadState
<1> DEFINE f == [Idle EXCEPT !.pc = IF r.todo = {} THEN "idle" ELSE "next", !.todo = r.todo]
<1>1. r.todo \in SUBSET Bundle
  BY DEF ThreadState
<1>2. f \in ThreadState
  BY <1>1, IdleType DEF ThreadState, Pc
<1> QED BY <1>2 DEF Finished

(* A step that sets one goroutine to a well-typed state keeps th well typed *)
LEMMA ThreadType ==
  ASSUME TypeOK, NEW t \in Thread, NEW r \in ThreadState, SetThread(t, r)
  PROVE  th' \in [Thread -> ThreadState]
BY DEF TypeOK, SetThread

(* The fields of a goroutine's local state have their types *)
LEMMA LocalType ==
  ASSUME TypeOK, NEW t \in Thread
  PROVE  /\ th[t] \in ThreadState
         /\ th[t].b \in Bundle
         /\ th[t].cons \in SUBSET Constraint
         /\ th[t].prev \in SUBSET Peer
         /\ th[t].item \in BundleItem
         /\ th[t].todo \in SUBSET Bundle
         /\ th[t].ret \in Pc
         /\ store[th[t].b] \in BundleItem
         /\ store[th[t].b].sent \in SUBSET Peer
         /\ Header[th[t].b] \in HeaderType
<1>1. th[t] \in ThreadState
  BY DEF TypeOK
<1>2. th[t].b \in Bundle /\ th[t].ret \in Pc
  BY <1>1 DEF ThreadState
<1>3. store[th[t].b] \in BundleItem
  BY <1>2 DEF TypeOK
<1>4. store[th[t].b].sent \in SUBSET Peer
  BY <1>3 DEF BundleItem
<1> QED BY <1>1, <1>2, <1>3, <1>4, HeaderAssumption DEF ThreadState

(* Calling BundleDescriptor.Sync keeps th well typed *)
LEMMA SyncType ==
  ASSUME TypeOK, NEW t \in Thread, NEW c \in SUBSET Constraint, NEW ret \in Pc, Sync(t, c, ret)
  PROVE  th' \in [Thread -> ThreadState]
<1> DEFINE r == [th[t] EXCEPT !.pc = "sync", !.cons = c,
                               !.item = store[th[t].b], !.ret = ret]
<1>1. "sync" \in Pc
  BY DEF Pc
<1>2. r \in ThreadState
  BY <1>1, LocalType DEF ThreadState
<1> QED BY <1>2, ThreadType DEF Sync

(* Moving on to another place in the code keeps th well typed *)
LEMMA GotoType ==
  ASSUME TypeOK, NEW t \in Thread, NEW pc \in Pc, Goto(t, pc)
  PROVE  th' \in [Thread -> ThreadState]
<1>1. [th[t] EXCEPT !.pc = pc] \in ThreadState
  BY LocalType DEF ThreadState
<1> QED BY <1>1, ThreadType DEF Goto

(* Finishing a bundle keeps th well typed *)
LEMMA DoneType ==
  ASSUME TypeOK, NEW t \in Thread, Done(t)
  PROVE  th' \in [Thread -> ThreadState]
BY LocalType, FinishedType, ThreadType DEF Done

(* Returning from Sync keeps th well typed *)
LEMMA ReturnType ==
  ASSUME TypeOK, NEW t \in Thread, NEW err \in BOOLEAN, Return(t, err)
  PROVE  th' \in [Thread -> ThreadState]
<1> DEFINE r == [th[t] EXCEPT !.pc = th[t].ret, !.ret = "idle",
                                    !.item = NoItem, !.err = err]
<1>1. "idle" \in Pc
  BY DEF Pc
<1>2. r \in ThreadState
  BY <1>1, LocalType, ItemType DEF ThreadState
<1>3. Finished(th[t]) \in ThreadState
  BY LocalType, FinishedType
<1> QED BY <1>2, <1>3, ThreadType DEF Return

(* Store.Update keeps the store well typed *)
LEMMA UpdateType ==
  ASSUME TypeOK, NEW b \in Bundle, NEW item \in BundleItem, StoreUpdate(b, item)
  PROVE  store' \in [Bundle -> BundleItem]
BY DEF TypeOK, StoreUpdate

(* SendStatusReport keeps reports well typed *)
LEMMA ReportType ==
  ASSUME TypeOK, NEW b \in Bundle, NEW s \in Status, SendStatusReport(b, s)
  PROVE  reports' \in [Bundle -> SUBSET Status]
BY DEF TypeOK, SendStatusReport

(* Recording a fate keeps fate well typed *)
LEMMA SettleType ==
  ASSUME TypeOK, NEW b \in Bundle, NEW f \in Fate, Settle(b, f)
  PROVE  fate' \in [Bundle -> SUBSET Fate]
BY DEF TypeOK, Settle

(* bundleDeletion keeps the variables it changes well typed *)
LEMMA DeletionType ==
  ASSUME TypeOK, NEW t \in Thread, bundleDeletion(t)
  PROVE  /\ th' \in [Thread -> ThreadState]
         /\ fate' \in [Bundle -> SUBSET Fate]
         /\ reports' \in [Bundle -> SUBSET Status]
<1>1. "done" \in Pc /\ "deleted" \in Status /\ "deleted" \in Fate
  BY DEF Pc, Status, Fate
<1>2. PurgeConstraints(th[t].cons) \in SUBSET Constraint
  BY LocalType DEF PurgeConstraints
<1> QED BY <1>1, <1>2, LocalType, SyncType, SettleType, ReportType DEF bundleDeletion

(* Every step of a goroutine keeps the types *)
LEMMA StepType == ASSUME TypeOK, NEW t \in Thread, Step(t) PROVE TypeOK'
<1> USE LocalType, ItemType
<1> DEFINE b == th[t].b
<1>0. /\ "idle" \in Pc /\ "notify" \in Pc /\ "notifyDest" \in Pc /\ "notifySent" \in Pc
      /\ "transmit" \in Pc /\ "dispatching" \in Pc /\ "clasForBundle" \in Pc
      /\ "setPending" \in Pc /\ "bundle" \in Pc /\ "localDelivery" \in Pc
      /\ "forward" \in Pc /\ "updateSent" \in Pc /\ "sending" \in Pc
  BY DEF Pc
<1>1. CASE SyncPush(t)
  <2>1. store' \in [Bundle -> BundleItem]
    BY <1>1 DEF SyncPush, TypeOK
  <2>2. th' \in [Thread -> ThreadState]
    BY <1>1, ReturnType DEF SyncPush
  <2> QED BY <1>1, <2>1, <2>2 DEF SyncPush, TypeOK, env, history
<1>2. CASE SyncDelete(t)
  <2>1. store' \in [Bundle -> BundleItem]
    BY <1>2 DEF SyncDelete, StoreDelete, TypeOK
  <2>2. th' \in [Thread -> ThreadState]
    BY <1>2, ReturnType DEF SyncDelete
  <2> QED BY <1>2, <2>1, <2>2 DEF SyncDelete, TypeOK, env, history
<1>3. CASE SyncUpdate(t)
  <2>1. [th[t].item EXCEPT !.pending = IsPending(th[t].cons), !.cons = th[t].cons] \in BundleItem
    BY DEF BundleItem, IsPending
  <2>2. store' \in [Bundle -> BundleItem]
    BY <1>3, <2>1, UpdateType DEF SyncUpdate
  <2>3. store[b].known \in BOOLEAN
    BY DEF BundleItem
  <2>4. th' \in [Thread -> ThreadState]
    BY <1>3, <2>3, ReturnType DEF SyncUpdate
  <2> QED BY <1>3, <2>2, <2>4 DEF SyncUpdate, TypeOK, env, history
<1>4. CASE RecvSync1(t) \/ RecvSync2(t) \/ ReceiveNew(t) \/ SendSync1(t) \/ transmit(t)
           \/ forward(t) \/ LocalSync(t) \/ Deliver(t)
  <2>1. /\ {"recvSync2", "receive", "blocks", "sendNotify", "srcCheck", "checks", "deliver",
            "handOver", "finishLocal"} \subseteq Pc
        /\ {"DispatchPending", "ForwardPending", "LocalEndpoint"} \subseteq Constraint
    BY DEF Pc, Constraint
  <2>2. CASE RecvSync1(t) \/ RecvSync2(t) \/ ReceiveNew(t) \/ SendSync1(t)
    <3>1. th' \in [Thread -> ThreadState]
      BY <2>1, <2>2, SyncType DEF RecvSync1, RecvSync2, ReceiveNew, SendSync1
    <3> QED BY <2>2, <3>1 DEF RecvSync1, RecvSync2, ReceiveNew, SendSync1, TypeOK, env, history
  <2>3. CASE transmit(t) \/ forward(t) \/ LocalSync(t)
    <3>1. /\ th[t].cons \cup {"DispatchPending"} \in SUBSET Constraint
          /\ (th[t].cons \cup {"ForwardPending"}) \ {"DispatchPending"} \in SUBSET Constraint
          /\ th[t].cons \cup {"LocalEndpoint"} \in SUBSET Constraint
      BY <2>1
    <3>2. th' \in [Thread -> ThreadState]
      BY <2>1, <2>3, <3>1, SyncType DEF transmit, forward, LocalSync
    <3> QED BY <2>3, <3>2 DEF transmit, forward, LocalSync, TypeOK, env, history
  <2>4. CASE Deliver(t)
    <3>1. th[t].cons \ {"LocalEndpoint"} \in SUBSET Constraint
      OBVIOUS
    <3>2. th' \in [Thread -> ThreadState]
      BY <2>1, <2>4, <3>1, SyncType, GotoType DEF Deliver
    <3> QED BY <2>4, <3>2 DEF Deliver, TypeOK, env, history
  <2> QED BY <1>4, <2>2, <2>3, <2>4
<1>5. CASE ReceiveKnown(t)
  BY <1>5, DoneType DEF ReceiveKnown, TypeOK, env, history
<1>6. CASE Blocks(t)
  <2>1. PurgeConstraints(th[t].cons) \in SUBSET Constraint /\ "done" \in Pc /\ "deleted" \in Fate
    BY DEF PurgeConstraints, Pc, Fate
  <2>2. [th[t] EXCEPT !.pc = "notify", !.ret = "dispatching"] \in ThreadState
    BY <1>0 DEF ThreadState
  <2>3. th' \in [Thread -> ThreadState]
    BY <1>6, <2>1, <2>2, SyncType, ThreadType DEF Blocks
  <2>4. fate' \in [Bundle -> SUBSET Fate]
    BY <1>6, <2>1, SettleType DEF Blocks, TypeOK
  <2>5. reports' \in [Bundle -> SUBSET Status]
    BY <1>6 DEF Blocks, TypeOK, Status
  <2> QED BY <1>6, <2>3, <2>4, <2>5 DEF Blocks, TypeOK, env
<1>7. CASE SendNotify(t)
  <2>1. [th[t] EXCEPT !.pc = "notify", !.ret = "transmit"] \in ThreadState
    BY <1>0 DEF ThreadState
  <2> QED BY <1>7, <2>1, ThreadType DEF SendNotify, TypeOK, env, history
<1>8. CASE SrcCheck(t)
  <2>1. "dispatching" \in Pc
    BY DEF Pc
  <2>2. /\ th' \in [Thread -> ThreadState]
        /\ fate' \in [Bundle -> SUBSET Fate]
        /\ reports' \in [Bundle -> SUBSET Status]
    BY <1>8, <2>1, DeletionType, GotoType DEF SrcCheck, TypeOK
  <2> QED BY <1>8, <2>2 DEF SrcCheck, TypeOK, env
<1>9. CASE NotifyRead(t)
  <2>1. /\ [th[t] EXCEPT !.pc = "notifyDest", !.item = store[b]] \in ThreadState
        /\ [th[t] EXCEPT !.pc = th[t].ret, !.ret = "idle"] \in ThreadState
    BY <1>0 DEF ThreadState
  <2> QED BY <1>9, <2>1, ThreadType DEF NotifyRead, TypeOK, env, history
<1>10. CASE NotifyDest(t)
  <2> DEFINE item == [th[t].item EXCEPT !.dest = TRUE]
  <2>1. item \in BundleItem
    BY DEF BundleItem
  <2>2. /\ [th[t] EXCEPT !.pc = th[t].ret, !.ret = "idle", !.item = NoItem] \in ThreadState
        /\ [th[t] EXCEPT !.pc = "notifySent", !.item = item] \in ThreadState
    BY <1>0, <2>1 DEF ThreadState
  <2>3. th' \in [Thread -> ThreadState]
    BY <1>10, <2>2, ThreadType DEF NotifyDest
  <2>4. store' \in [Bundle -> BundleItem]
    BY <1>10, <2>1, UpdateType DEF NotifyDest, TypeOK
  <2> QED BY <1>10, <2>3, <2>4 DEF NotifyDest, TypeOK, env, history
<1>11. CASE NotifySent(t)
  <2>1. [th[t].item EXCEPT !.sent = @ \cup th[t].prev] \in BundleItem
    BY DEF BundleItem
  <2>2. [th[t] EXCEPT !.pc = th[t].ret, !.ret = "idle", !.item = NoItem] \in ThreadState
    BY <1>0 DEF ThreadState
  <2> QED BY <1>11, <2>1, <2>2, UpdateType, ThreadType DEF NotifySent, TypeOK, env, history
<1>12. CASE dispatching(t)
  <2>1. /\ [th[t] EXCEPT !.pc = "bundle"] \in ThreadState
        /\ [th[t] EXCEPT !.pc = "clasForBundle", !.item = store[b]] \in ThreadState
    BY <1>0 DEF ThreadState
  <2> QED BY <1>12, <2>1, ThreadType DEF dispatching, TypeOK, env, history
<1>13. CASE clasForBundle(t)
  <2>1. /\ [th[t] EXCEPT !.pc = "bundle", !.item = NoItem] \in ThreadState
        /\ [th[t] EXCEPT !.pc = "setPending"] \in ThreadState
    BY <1>0 DEF ThreadState
  <2> QED BY <1>13, <2>1, ThreadType DEF clasForBundle, TypeOK, env, history
<1>14. CASE SetPending(t)
  <2>1. [th[t].item EXCEPT !.pending = TRUE] \in BundleItem
    BY DEF BundleItem
  <2> QED BY <1>14, <2>1, UpdateType, DoneType DEF SetPending, TypeOK, env, history
<1>15. CASE LoadBundle(t)
  <2>1. ASSUME NEW pc \in {"localDelivery", "forward"}
        PROVE  [th[t] EXCEPT !.mem = TRUE, !.pc = pc] \in ThreadState
    BY <1>0 DEF ThreadState
  <2>2. th' \in [Thread -> ThreadState]
    BY <1>15, <2>1, FinishedType, ThreadType DEF LoadBundle
  <2> QED BY <1>15, <2>2 DEF LoadBundle, TypeOK, env, history
<1>16. CASE ForwardExceeded(t)
  BY <1>16, DeletionType DEF ForwardExceeded, TypeOK, env
<1> DEFINE send(n) == [p \in Peer |-> IF p \in n THEN [NoSend EXCEPT !.st = "sending"] ELSE NoSend]
<1>30. ASSUME NEW n PROVE send(n) \in [Peer -> SendState]
  BY DEF SendState, NoSend
<1>31. ASSUME NEW d \in BOOLEAN
      PROVE  [th[t] EXCEPT !.pc = "sending", !.del = d, !.ok = FALSE, !.item = NoItem] \in ThreadState
  BY <1>0 DEF ThreadState
<1>32. ASSUME NEW n, NEW d \in BOOLEAN, StartSending(t, n, d)
      PROVE  th' \in [Thread -> ThreadState] /\ go' \in [Thread -> [Peer -> SendState]]
  BY <1>30, <1>31, <1>32, ThreadType DEF StartSending, TypeOK
<1>17. CASE senderForDestination(t)
  <2>1. "senderForBundle" \in Pc
    BY DEF Pc
  <2>2. th' \in [Thread -> ThreadState] /\ go' \in [Thread -> [Peer -> SendState]]
    BY <1>17, <1>32, <2>1, GotoType DEF senderForDestination, TypeOK
  <2> QED BY <1>17, <2>2 DEF senderForDestination, TypeOK, env, history
<1>18. CASE SenderForBundle(t)
  <2> DEFINE item == [store[b] EXCEPT !.sent = @ \cup up]
  <2>1. item \in BundleItem
    BY DEF BundleItem, TypeOK
  <2>2. [th[t] EXCEPT !.pc = "updateSent", !.item = item] \in ThreadState
    BY <1>0, <2>1 DEF ThreadState
  <2>3. th' \in [Thread -> ThreadState]
    BY <1>18, <1>32, <2>2, ThreadType DEF SenderForBundle
  <2>4. go' \in [Thread -> [Peer -> SendState]]
    <3>1. CASE store[b].known
      <4>1. go' = [go EXCEPT ![t] = send(filterCLAs(store[b]))]
        BY <1>18, <3>1 DEF SenderForBundle
      <4>2. send(filterCLAs(store[b])) \in [Peer -> SendState]
        BY <1>30
      <4> HIDE DEF send
      <4> QED BY <4>1, <4>2 DEF TypeOK
    <3>2. CASE ~store[b].known
      BY <1>18, <1>32, <3>2 DEF SenderForBundle
    <3> QED BY <3>1, <3>2
  <2> QED BY <1>18, <2>3, <2>4 DEF SenderForBundle, TypeOK, env, history
<1>19. CASE UpdateSent(t)
  BY <1>19, <1>31, UpdateType, ThreadType DEF UpdateSent, TypeOK, env, history
<1>20. CASE AfterSending(t)
  <2>1. /\ PurgeConstraints(th[t].cons) \in SUBSET Constraint
        /\ th[t].cons \cup {"Contraindicated"} \in SUBSET Constraint
        /\ {"inspect", "done"} \subseteq Pc
        /\ "forwarded" \in Fate /\ "forwarded" \in Status
    BY DEF PurgeConstraints, Pc, Fate, Status, Constraint
  <2>2. th' \in [Thread -> ThreadState]
    BY <1>20, <2>1, SyncType DEF AfterSending
  <2>3. fate' \in [Bundle -> SUBSET Fate]
    BY <1>20, <2>1, SettleType DEF AfterSending, TypeOK
  <2>4. reports' \in [Bundle -> SUBSET Status]
    BY <1>20, <2>1, ReportType DEF AfterSending, TypeOK
  <2> QED BY <1>20, <2>2, <2>3, <2>4 DEF AfterSending, TypeOK, env
<1>33. InspectStatusReport(t) => store' \in [Bundle -> BundleItem] /\ fate' \in [Bundle -> SUBSET Fate]
  BY DEF InspectStatusReport, TypeOK, Fate
<1>21. CASE localDelivery(t)
  <2>1. "localSync" \in Pc
    BY DEF Pc
  <2>2. th' \in [Thread -> ThreadState] /\ reports' \in [Bundle -> SUBSET Status]
    BY <1>21, <2>1, DeletionType, GotoType DEF localDelivery, TypeOK
  <2>3. store' \in [Bundle -> BundleItem] /\ fate' \in [Bundle -> SUBSET Fate]
    BY <1>21, <1>33, DeletionType DEF localDelivery, TypeOK
  <2> QED BY <1>21, <2>2, <2>3 DEF localDelivery, TypeOK, env
<1>22. CASE HandOver(t)
  <2>1. "finishLocal" \in Pc /\ "delivered" \in Fate
    BY DEF Pc, Fate
  <2>2. th' \in [Thread -> ThreadState] /\ fate' \in [Bundle -> SUBSET Fate]
    BY <1>22, <2>1, GotoType, SettleType DEF HandOver, TypeOK
  <2> QED BY <1>22, <2>2 DEF HandOver, TypeOK, env
<1>23. CASE FinishLocal(t)
  <2>1. /\ PurgeConstraints(th[t].cons) \in SUBSET Constraint
        /\ "done" \in Pc /\ "finished" \in Fate /\ "delivered" \in Status
    BY DEF PurgeConstraints, Pc, Fate, Status
  <2>2. th' \in [Thread -> ThreadState] /\ reports' \in [Bundle -> SUBSET Status]
    BY <1>23, <2>1, SyncType, ReportType DEF FinishLocal
  <2>3. fate' \in [Bundle -> SUBSET Fate]
    BY <1>23, <2>1, SettleType DEF FinishLocal, TypeOK
  <2> QED BY <1>23, <2>2, <2>3 DEF FinishLocal, TypeOK, env
<1>24. CASE Inspect(t)
  <2>1. store' \in [Bundle -> BundleItem] /\ fate' \in [Bundle -> SUBSET Fate]
    BY <1>24, <1>33 DEF Inspect, TypeOK
  <2> QED BY <1>24, <2>1, DoneType DEF Inspect, TypeOK, env
<1>25. ASSUME NEW c \in Bundle, NextPending(t, c) PROVE TypeOK'
  <2>1. store[c].cons \in SUBSET Constraint
    BY DEF TypeOK, BundleItem
  <2>2. [Idle EXCEPT !.pc = "dispatching", !.b = c, !.cons = store[c].cons,
                     !.todo = th[t].todo \ {c}] \in ThreadState
    BY <1>0, <2>1, IdleType DEF ThreadState
  <2> QED BY <1>25, <2>2, ThreadType DEF NextPending, TypeOK, env, history
<1>26. ASSUME NEW p \in Peer, ReportFailureRead(t, p) \/ ReportFailureUpdate(t, p) PROVE TypeOK'
  <2>1. [st |-> "update", item |-> store[b]] \in SendState /\ go[t][p] \in SendState
    BY DEF SendState, TypeOK
  <2>2. ASSUME NEW g \in SendState, SetGo(t, p, g) PROVE go' \in [Thread -> [Peer -> SendState]]
    BY <2>2 DEF SetGo, TypeOK
  <2>5. go' \in [Thread -> [Peer -> SendState]]
    BY <1>26, <2>1, <2>2 DEF ReportFailureRead, ReportFailureUpdate
  <2>3. [go[t][p].item EXCEPT !.sent = @ \ {p}] \in BundleItem
    BY <2>1 DEF SendState, BundleItem
  <2>4. store' \in [Bundle -> BundleItem]
    BY <1>26, <2>3, UpdateType DEF ReportFailureRead, ReportFailureUpdate, TypeOK
  <2> QED BY <1>26, <2>5, <2>4 DEF ReportFailureRead, ReportFailureUpdate, TypeOK, env, history
<1> QED
  BY <1>1, <1>2, <1>3, <1>4, <1>5, <1>6, <1>7, <1>8, <1>9, <1>10, <1>11, <1>12, <1>13, <1>14,
     <1>15, <1>16, <1>17, <1>18, <1>19, <1>20, <1>21, <1>22, <1>23, <1>24, <1>25, <1>26 DEF Step

(* The goroutines forward starts per peer keep the types *)
LEMMA SendingType == ASSUME TypeOK, NEW t \in Thread, Sending(t) PROVE TypeOK'
<1> PICK p \in Peer : SendOk(t, p) \/ SendFail(t, p)
  BY DEF Sending
<1>1. [NoSend EXCEPT !.st = "failed"] \in SendState /\ NoSend \in SendState
  BY ItemType DEF SendState
<1>2. ASSUME NEW g \in SendState, SetGo(t, p, g) PROVE go' \in [Thread -> [Peer -> SendState]]
  BY <1>2 DEF SetGo, TypeOK
<1>3. CASE SendOk(t, p)
  <2>1. [th[t] EXCEPT !.ok = TRUE] \in ThreadState
    BY LocalType DEF ThreadState
  <2>2. th' \in [Thread -> ThreadState]
    BY <1>3, <2>1, ThreadType DEF SendOk
  <2>3. go' \in [Thread -> [Peer -> SendState]]
    BY <1>1, <1>2, <1>3 DEF SendOk
  <2>4. got' \in [Bundle -> SUBSET Peer]
    BY <1>3, LocalType DEF SendOk, TypeOK
  <2> QED BY <1>3, <2>2, <2>3, <2>4 DEF SendOk, TypeOK, env
<1>4. CASE SendFail(t, p)
  <2>1. go' \in [Thread -> [Peer -> SendState]]
    BY <1>1, <1>2, <1>4 DEF SendFail
  <2> QED BY <1>4, <2>1 DEF SendFail, TypeOK, env, history
<1> QED BY <1>3, <1>4

(* Receptions, submissions and retries start well typed *)
LEMMA StartType == ASSUME TypeOK, Start PROVE TypeOK'
<1>1. "idle" \in Pc /\ "next" \in Pc /\ "recvSync1" \in Pc /\ "sendSync1" \in Pc
  BY DEF Pc
<1>2. ASSUME NEW t \in Thread, NEW b \in Bundle, NEW prev \in SUBSET Peer,
             NEW pc \in Pc, Begin(t, b, prev, pc)
      PROVE  th' \in [Thread -> ThreadState] /\ accepted' \subseteq Bundle
  <2>1. store[b].cons \in SUBSET Constraint
    BY DEF TypeOK, BundleItem
  <2>2. [Idle EXCEPT !.pc = pc, !.b = b, !.mem = TRUE, !.prev = prev,
                     !.cons = store[b].cons] \in ThreadState
    BY <2>1, IdleType DEF ThreadState
  <2> QED BY <1>2, <2>2, ThreadType DEF Begin, TypeOK
<1>3. ASSUME NEW t \in Thread, CheckPending(t) PROVE th' \in [Thread -> ThreadState]
  <2> DEFINE pending == {b \in Bundle : store[b].pending}
  <2>1. [Idle EXCEPT !.todo = pending] \in ThreadState
    BY IdleType DEF ThreadState
  <2> QED BY <1>3, <2>1, FinishedType, ThreadType DEF CheckPending
<1>4. ASSUME NEW t \in Handlers, NEW p \in Peer, PeerAppeared(t, p) PROVE TypeOK'
  BY <1>3, <1>4 DEF PeerAppeared, CheckPending, TypeOK, history, Thread
<1>5. ASSUME NEW t \in Handlers, NEW p \in Peer, NEW b \in Bundle, ReceivedBundle(t, b, p)
      PROVE  TypeOK'
  <2>1. t \in Thread
    BY DEF Thread
  <2>2. PICK prev \in SUBSET Peer : /\ from' = [from EXCEPT ![b] = @ \cup prev]
                                    /\ Begin(t, b, prev, "recvSync1")
    BY <1>5 DEF ReceivedBundle
  <2>3. th' \in [Thread -> ThreadState] /\ accepted' \subseteq Bundle
    BY <1>1, <1>2, <2>1, <2>2
  <2>4. from' \in [Bundle -> SUBSET Peer]
    BY <2>2 DEF TypeOK
  <2>5. rx' \in [Bundle -> Nat]
    BY <1>5 DEF ReceivedBundle, TypeOK
  <2> QED BY <2>2, <2>3, <2>4, <2>5 DEF Begin, TypeOK
<1>6. ASSUME NEW t \in Senders, NEW b \in Bundle, SendBundle(t, b) PROVE TypeOK'
  <2>1. th' \in [Thread -> ThreadState] /\ accepted' \subseteq Bundle
    BY <1>1, <1>2, <1>6 DEF SendBundle, Thread
  <2> QED BY <1>6, <2>1 DEF SendBundle, Begin, TypeOK
<1>7. ASSUME NEW t \in Workers, Cron(t) PROVE TypeOK'
  BY <1>3, <1>7 DEF Cron, CheckPending, TypeOK, env, history, Thread
<1> QED BY <1>4, <1>5, <1>6, <1>7 DEF Start

(* Neighbours, agents, time and crashes keep the types *)
LEMMA EnvironmentType == ASSUME TypeOK, Environment PROVE TypeOK'
<1>1. ASSUME NEW p \in Peer, PeerUp(p) \/ PeerDown(p) PROVE TypeOK'
  BY <1>1 DEF PeerUp, PeerDown, TypeOK, history
<1>2. CASE AgentChange
  BY <1>2 DEF AgentChange, TypeOK, history
<1>3. ASSUME NEW b \in Bundle, Expire(b) PROVE TypeOK'
  BY <1>3 DEF Expire, TypeOK, history
<1>4. ASSUME NEW b \in Bundle, DeleteExpired(b) PROVE TypeOK'
  <2>1. fate' \in [Bundle -> SUBSET Fate]
    BY <1>4, SettleType DEF DeleteExpired, Fate
  <2> QED BY <1>4, <2>1, ItemType DEF DeleteExpired, StoreDelete, TypeOK, env
<1>5. CASE Crash
  <2>1. fate' \in [Bundle -> SUBSET Fate]
    BY <1>5 DEF Crash, TypeOK, Fate
  <2>2. th' \in [Thread -> ThreadState] /\ go' \in [Thread -> [Peer -> SendState]]
    BY <1>5, IdleType, ItemType DEF Crash
  <2>3. up' \subseteq Peer /\ appeared' \subseteq Peer /\ agentUp' \in BOOLEAN
    BY <1>5 DEF Crash
  <2>4. crashes' \in Nat
    BY <1>5 DEF Crash, TypeOK
  <2> QED BY <1>5, <2>1, <2>2, <2>3, <2>4 DEF Crash, TypeOK
<1> QED BY <1>1, <1>2, <1>3, <1>4, <1>5 DEF Environment

(* The initial state is well typed *)
LEMMA InitType == Init => TypeOK
<1> SUFFICES ASSUME Init PROVE TypeOK
  OBVIOUS
<1>1. store \in [Bundle -> BundleItem]
  BY ItemType DEF Init
<1>2. th \in [Thread -> ThreadState] /\ go \in [Thread -> [Peer -> SendState]]
  BY IdleType, ItemType DEF Init
<1>3. /\ up \subseteq Peer /\ appeared \subseteq Peer /\ agentUp \in BOOLEAN
      /\ expired \subseteq Bundle /\ rx \in [Bundle -> Nat] /\ crashes \in Nat
  BY DEF Init
<1>4. /\ accepted \subseteq Bundle /\ fate \in [Bundle -> SUBSET Fate]
      /\ from \in [Bundle -> SUBSET Peer] /\ got \in [Bundle -> SUBSET Peer]
      /\ reports \in [Bundle -> SUBSET Status]
  BY DEF Init
<1> QED BY <1>1, <1>2, <1>3, <1>4 DEF TypeOK

(* Type correctness is inductive *)
LEMMA NextType == TypeOK /\ [Next]_vars => TypeOK'
<1> SUFFICES ASSUME TypeOK, [Next]_vars PROVE TypeOK'
  OBVIOUS
<1>1. CASE UNCHANGED vars
  BY <1>1 DEF TypeOK, vars
<1> QED BY <1>1, StepType, SendingType, StartType, EnvironmentType DEF Next

(* Every state of the node is type correct *)
THEOREM TypeCorrect == Spec => []TypeOK
BY InitType, NextType, PTL DEF Spec

-----------------------------------------------------------------------------
(* How one goroutine's step keeps the invariant *)

(* A step of goroutine t keeps the invariant if it leaves t in order and   *)
(* neither a vanished item nor t's own promise leaves a bundle behind.     *)
LEMMA Frame ==
  ASSUME IndInv, TypeOK', AbsentIsEmpty', FailureKnown(go'), accepted' = accepted,
         \A b \in Bundle : fate[b] \subseteq fate'[b],
         NEW t \in Thread, NEW r, SetThread(t, r), ThreadOK(r, fate'),
         \A b \in Bundle : store[b].known =>
             store'[b].known \/ fate'[b] # {} \/ (r.b = b /\ Vouching(r)),
         Vouching(th[t]) =>
             \/ r.b = th[t].b /\ Vouching(r)
             \/ store'[th[t].b].known
             \/ fate'[th[t].b] # {}
  PROVE  IndInv'
<1>1. /\ th'[t] = r
      /\ \A u \in Thread : u # t => th'[u] = th[u]
  BY DEF SetThread, IndInv, TypeOK
<1>2. \A u \in Thread : ThreadOK(th'[u], fate')
  <2> SUFFICES ASSUME NEW u \in Thread, u # t PROVE ThreadOK(th'[u], fate')
    BY <1>1
  <2>1. th[u].b \in Bundle
    BY DEF IndInv, TypeOK, ThreadState
  <2>2. ThreadOK(th[u], fate) /\ th'[u] = th[u]
    BY <1>1 DEF IndInv
  <2> QED BY <2>1, <2>2 DEF ThreadOK, EmptySyncHasReason
<1>3. NoSilentLoss'
  <2> SUFFICES ASSUME NEW b \in accepted', ~store'[b].known, fate'[b] = {}
               PROVE  \E u \in Thread : Vouches(u, b)'
    BY DEF NoSilentLoss
  <2>1. b \in Bundle /\ b \in accepted /\ fate[b] = {}
    BY DEF IndInv, TypeOK
  <2>2. CASE store[b].known
    BY <1>1, <2>1, <2>2 DEF Vouches
  <2>3. CASE ~store[b].known
    <3>1. PICK u \in Thread : Vouches(u, b)
      BY <2>1, <2>3 DEF IndInv, NoSilentLoss
    <3>2. CASE u = t
      BY <1>1, <3>1, <3>2 DEF Vouches
    <3>3. CASE u # t
      BY <1>1, <3>1, <3>3 DEF Vouches
    <3> QED BY <3>2, <3>3
  <2> QED BY <2>2, <2>3
<1> QED BY <1>2, <1>3 DEF IndInv

(* Store.Update with an item that was read from the store *)
LEMMA UpdateKeepsKnown ==
  ASSUME TypeOK, AbsentIsEmpty, NEW b \in Bundle, NEW item \in BundleItem, item.known,
         StoreUpdate(b, item)
  PROVE  AbsentIsEmpty' /\ \A c \in Bundle : store[c].known => store'[c].known
BY DEF StoreUpdate, TypeOK, AbsentIsEmpty

(* A step that changes no item *)
LEMMA QuietFrame ==
  ASSUME IndInv, TypeOK', UNCHANGED <<store, accepted>>, FailureKnown(go'),
         \A b \in Bundle : fate[b] \subseteq fate'[b],
         NEW t \in Thread, NEW r, SetThread(t, r), ThreadOK(r, fate'),
         Vouching(th[t]) =>
             \/ r.b = th[t].b /\ Vouching(r)
             \/ store[th[t].b].known
             \/ fate'[th[t].b] # {}
  PROVE  IndInv'
<1>1. AbsentIsEmpty'
  BY DEF IndInv, AbsentIsEmpty
<1> QED BY <1>1, Frame

(* A step that calls Sync, up to Sync's read *)
LEMMA SyncFrame ==
  ASSUME IndInv, TypeOK', UNCHANGED <<store, accepted>>, FailureKnown(go'),
         \A b \in Bundle : fate[b] \subseteq fate'[b],
         NEW t \in Thread, NEW c, NEW ret, Sync(t, c, ret),
         c = {} => ret \in {"recvSync2", "receive", "sendNotify", "handOver"} \/ fate'[th[t].b] # {},
         ret = "handOver" => "LocalEndpoint" \notin c,
         ret \in {"recvSync2", "receive", "blocks", "sendNotify", "srcCheck",
                 "checks", "deliver", "handOver", "inspect", "done"},
         Vouching(th[t]) =>
             \/ ret \in {"recvSync2", "receive"} /\ c = {}
             \/ ret \in {"blocks", "sendNotify", "srcCheck", "handOver"}
             \/ store[th[t].b].known
             \/ fate'[th[t].b] # {}
  PROVE  IndInv'
<1> DEFINE r == [th[t] EXCEPT !.pc = "sync", !.cons = c, !.item = store[th[t].b], !.ret = ret]
<1>1. th[t] \in ThreadState
  BY LocalType DEF IndInv
<1>2. SetThread(t, r)
  BY DEF Sync
<1>3. ThreadOK(r, fate')
  BY <1>1 DEF ThreadOK, WritesKnown, EmptySyncHasReason, HandOverWithoutLocal,
         ReturnsToCaller, ThreadState
<1>4. Vouching(th[t]) =>
             \/ r.b = th[t].b /\ Vouching(r)
             \/ store[th[t].b].known
             \/ fate'[th[t].b] # {}
  BY <1>1 DEF Vouching, InReception, InSubmission, InDelivery, ThreadState
<1> QED BY <1>2, <1>3, <1>4, QuietFrame

(* A step that decides about the bundle and calls Sync *)
LEMMA SettleFrame ==
  ASSUME IndInv, TypeOK', UNCHANGED <<store, go, accepted>>,
         NEW t \in Thread, NEW c, NEW f, Settle(th[t].b, f), Sync(t, c, "done")
  PROVE  IndInv'
<1>1. th[t].b \in Bundle
  BY LocalType DEF IndInv
<1>2. /\ \A b \in Bundle : fate[b] \subseteq fate'[b]
      /\ fate'[th[t].b] # {}
  BY <1>1 DEF Settle, IndInv, TypeOK
<1>3. FailureKnown(go')
  BY DEF IndInv
<1> QED BY <1>2, <1>3, SyncFrame

(* A goroutine that is through with its bundle *)
LEMMA FinishedOK ==
  ASSUME NEW r, NEW f PROVE ThreadOK(Finished(r), f)
BY DEF Finished, Idle, ThreadOK, WritesKnown, EmptySyncHasReason, HandOverWithoutLocal,
       ReturnsToCaller

(* Core.receive up to the dispatching, and Core.transmit up to it *)
LEMMA ReceptionInv ==
  ASSUME IndInv, TypeOK', NEW t \in Thread,
         \/ RecvSync1(t) \/ RecvSync2(t) \/ ReceiveKnown(t) \/ ReceiveNew(t) \/ Blocks(t)
         \/ SendSync1(t) \/ SendNotify(t) \/ transmit(t) \/ SrcCheck(t)
  PROVE  IndInv'
<1>0. /\ th[t] \in ThreadState /\ ThreadOK(th[t], fate) /\ FailureKnown(go)
      /\ th[t].b \in Bundle
  BY LocalType DEF IndInv
<1>1. CASE RecvSync1(t) \/ RecvSync2(t)
  BY <1>0, <1>1, SyncFrame
     DEF RecvSync1, RecvSync2, At, history, Vouching, InReception, InSubmission, InDelivery
<1>2. CASE ReceiveKnown(t)
  <2>1. SetThread(t, Finished(th[t])) /\ UNCHANGED <<store, go, accepted, fate>>
    BY <1>2 DEF ReceiveKnown, Done, history
  <2>2. ~Vouching(th[t])
    BY <1>2 DEF ReceiveKnown, At, Vouching, InReception, InSubmission, InDelivery
  <2> QED BY <1>0, <2>1, <2>2, FinishedOK, QuietFrame
<1>3. CASE ReceiveNew(t) \/ SendSync1(t) \/ transmit(t)
  BY <1>0, <1>3, SyncFrame DEF ReceiveNew, SendSync1, transmit, history
<1>4. CASE Blocks(t)
  <2>1. CASE Header[th[t].b].drop
    BY <1>4, <2>1, SettleFrame DEF Blocks
  <2>2. CASE ~Header[th[t].b].drop
    <3> DEFINE r == [th[t] EXCEPT !.pc = "notify", !.ret = "dispatching"]
    <3>1. SetThread(t, r) /\ UNCHANGED <<store, go, accepted, fate>> /\ th[t].pc = "blocks"
      BY <1>4, <2>2 DEF Blocks, At
    <3>2. ThreadOK(r, fate)
      BY <1>0 DEF ThreadOK, WritesKnown, EmptySyncHasReason, HandOverWithoutLocal,
         ReturnsToCaller, ThreadState
    <3>3. ~Vouching(th[t])
      BY <3>1 DEF Vouching, InReception, InSubmission, InDelivery
    <3> QED BY <1>0, <3>1, <3>2, <3>3, QuietFrame
  <2> QED BY <2>1, <2>2
<1>5. CASE SendNotify(t)
  <2> DEFINE r == [th[t] EXCEPT !.pc = "notify", !.ret = "transmit"]
  <2>1. SetThread(t, r) /\ UNCHANGED <<store, go, accepted, fate>>
    BY <1>5 DEF SendNotify, history
  <2>2. ThreadOK(r, fate)
    BY <1>0 DEF ThreadOK, WritesKnown, EmptySyncHasReason, HandOverWithoutLocal,
         ReturnsToCaller, ThreadState
  <2>3. r.b = th[t].b /\ Vouching(r)
    BY <1>0 DEF Vouching, InSubmission, ThreadState
  <2> QED BY <1>0, <2>1, <2>2, <2>3, QuietFrame
<1>6. CASE SrcCheck(t)
  <2>1. CASE Header[th[t].b].foreign
    BY <1>6, <2>1, SettleFrame DEF SrcCheck, bundleDeletion
  <2>2. CASE ~Header[th[t].b].foreign
    <3> DEFINE r == [th[t] EXCEPT !.pc = "dispatching"]
    <3>1. SetThread(t, r) /\ UNCHANGED <<store, go, accepted, fate>> /\ th[t].pc = "srcCheck"
      BY <1>6, <2>2 DEF SrcCheck, Goto, At
    <3>2. ThreadOK(r, fate)
      BY <1>0 DEF ThreadOK, WritesKnown, EmptySyncHasReason, HandOverWithoutLocal,
         ReturnsToCaller, ThreadState
    <3>3. ~Vouching(th[t])
      BY <3>1 DEF Vouching, InReception, InSubmission, InDelivery
    <3> QED BY <1>0, <3>1, <3>2, <3>3, QuietFrame
  <2> QED BY <2>1, <2>2
<1> QED BY <1>1, <1>2, <1>3, <1>4, <1>5, <1>6

(* Sync's second half *)
LEMMA SyncInv ==
  ASSUME IndInv, TypeOK', NEW t \in Thread, SyncPush(t) \/ SyncDelete(t) \/ SyncUpdate(t)
  PROVE  IndInv'
<1> DEFINE b == th[t].b
           ret(err) == [th[t] EXCEPT !.pc = th[t].ret, !.ret = "idle", !.item = NoItem, !.err = err]
<1>0. /\ th[t] \in ThreadState /\ ThreadOK(th[t], fate) /\ FailureKnown(go)
      /\ b \in Bundle /\ th[t].item \in BundleItem /\ th[t].pc = "sync"
  BY LocalType DEF IndInv, SyncPush, SyncDelete, SyncUpdate, At
<1>1. UNCHANGED <<go, accepted, fate>>
  BY DEF SyncPush, SyncDelete, SyncUpdate, history
<1>2. PICK err \in BOOLEAN : Return(t, err)
  <2>1. store[b] \in BundleItem
    BY LocalType DEF IndInv
  <2>2. (~store[b].known) \in BOOLEAN
    OBVIOUS
  <2> QED BY <2>2 DEF SyncPush, SyncDelete, SyncUpdate
<1>3. PICK r : /\ SetThread(t, r)
               /\ \/ th[t].ret = "done" /\ r = Finished(th[t])
                  \/ th[t].ret # "done" /\ r = ret(err)
  BY <1>2 DEF Return
<1>10. ASSUME SyncUpdate(t)
       PROVE  AbsentIsEmpty' /\ \A c \in Bundle : store[c].known => store'[c].known
  <2> DEFINE item == [th[t].item EXCEPT !.pending = IsPending(th[t].cons), !.cons = th[t].cons]
  <2>1. StoreUpdate(b, item) /\ th[t].item.known
    BY <1>10 DEF SyncUpdate
  <2>2. item \in BundleItem /\ item.known
    BY <1>0, <2>1 DEF BundleItem, ThreadState, IsPending
  <2> QED BY <1>0, <2>1, <2>2, UpdateKeepsKnown DEF IndInv
<1>4. AbsentIsEmpty'
  <2>1. CASE SyncPush(t)
    BY <1>0, <2>1 DEF SyncPush, IndInv, AbsentIsEmpty, TypeOK, newBundleItem, NoItem
  <2>2. CASE SyncDelete(t)
    BY <1>0, <2>2 DEF SyncDelete, StoreDelete, IndInv, AbsentIsEmpty, TypeOK, NoItem
  <2>3. CASE SyncUpdate(t)
    BY <1>10, <2>3
  <2> QED BY <2>1, <2>2, <2>3
<1>5. ThreadOK(r, fate')
  <2>1. CASE th[t].ret = "done"
    BY <1>3, <2>1, FinishedOK
  <2>2. CASE th[t].ret # "done"
    BY <1>0, <1>3, <2>2 DEF ThreadOK, WritesKnown, EmptySyncHasReason, HandOverWithoutLocal,
       ReturnsToCaller, ThreadState
  <2> QED BY <2>1, <2>2
<1>6. ASSUME Vouching(th[t]), ~store[b].known, ~store'[b].known
      PROVE  r.b = b /\ Vouching(r)
  <2>1. CASE SyncPush(t)
    <3>1. store' = [store EXCEPT ![b] = newBundleItem]
      BY <1>6, <2>1 DEF SyncPush
    <3> QED BY <1>0, <1>6, <3>1 DEF newBundleItem, NoItem, IndInv, TypeOK
  <2>2. CASE SyncDelete(t) \/ SyncUpdate(t)
    <3>1. th[t].item.known
      BY <2>2 DEF SyncDelete, SyncUpdate
    <3>2. \/ th[t].ret \in {"recvSync2", "receive"} /\ th[t].cons = {}
          \/ th[t].ret \in {"sendNotify", "handOver"}
      BY <1>0, <1>6, <3>1 DEF Vouching, InReception, InSubmission, InDelivery
    <3>3. r = ret(err)
      BY <1>3, <3>2
    <3> QED BY <1>0, <3>2, <3>3 DEF Vouching, InReception, InSubmission, InDelivery, ThreadState
  <2> QED BY <2>1, <2>2
<1>7. ASSUME NEW c \in Bundle, store[c].known, ~store'[c].known
      PROVE  fate'[c] # {} \/ (r.b = c /\ Vouching(r))
  <2>1. SyncDelete(t) /\ c = b
    <3>1. ~SyncPush(t)
      BY <1>0, <1>7 DEF SyncPush, IndInv, TypeOK
    <3>2. ~SyncUpdate(t)
      BY <1>7, <1>10
    <3>3. SyncDelete(t)
      BY <3>1, <3>2
    <3> QED BY <1>0, <1>7, <3>3 DEF SyncDelete, StoreDelete, IndInv, TypeOK
  <2>2. th[t].cons = {}
    BY <2>1 DEF SyncDelete
  <2>3. CASE fate[b] # {}
    BY <1>1, <2>1, <2>3
  <2>4. CASE th[t].ret \in {"recvSync2", "receive", "sendNotify", "handOver"}
    <3>1. r = ret(err)
      BY <1>3, <2>4
    <3> QED BY <1>0, <2>1, <2>2, <2>4, <3>1
            DEF Vouching, InReception, InSubmission, InDelivery, ThreadState
  <2> QED BY <1>0, <2>2, <2>3, <2>4 DEF ThreadOK, EmptySyncHasReason
<1>8. Vouching(th[t]) => (r.b = b /\ Vouching(r)) \/ store'[b].known \/ fate'[b] # {}
  BY <1>0, <1>6, <1>7
<1>9. FailureKnown(go') /\ accepted' = accepted /\ \A c \in Bundle : fate[c] \subseteq fate'[c]
  BY <1>0, <1>1
<1> QED BY <1>3, <1>4, <1>5, <1>7, <1>8, <1>9, Frame

(* A step that writes an item back *)
LEMMA WriteFrame ==
  ASSUME IndInv, TypeOK', UNCHANGED <<accepted, fate>>, FailureKnown(go'),
         NEW b \in Bundle, NEW item \in BundleItem, item.known, StoreUpdate(b, item),
         NEW t \in Thread, NEW r, SetThread(t, r), ThreadOK(r, fate),
         Vouching(th[t]) => r.b = th[t].b /\ Vouching(r)
  PROVE  IndInv'
<1>1. AbsentIsEmpty' /\ \A c \in Bundle : store[c].known => store'[c].known
  BY UpdateKeepsKnown DEF IndInv
<1>2. ThreadOK(r, fate')
  OBVIOUS
<1> QED BY <1>1, <1>2, Frame

(* NotifyNewBundle, DispatchingAllowed and the choice of delivery or forwarding *)
LEMMA RoutingInv ==
  ASSUME IndInv, TypeOK', NEW t \in Thread,
         \/ NotifyRead(t) \/ NotifyDest(t) \/ NotifySent(t)
         \/ dispatching(t) \/ clasForBundle(t) \/ SetPending(t) \/ LoadBundle(t)
  PROVE  IndInv'
<1> DEFINE b == th[t].b
<1>0. /\ th[t] \in ThreadState /\ ThreadOK(th[t], fate) /\ FailureKnown(go)
      /\ b \in Bundle /\ th[t].item \in BundleItem /\ th[t].prev \in SUBSET Peer
      /\ UNCHANGED <<go, accepted, fate>>
  BY LocalType DEF IndInv, NotifyRead, NotifyDest, NotifySent, dispatching, clasForBundle,
     SetPending, LoadBundle, history
<1> USE <1>0
<1>1. CASE NotifyRead(t)
  <2> DEFINE r1 == [th[t] EXCEPT !.pc = "notifyDest", !.item = store[b]]
             r2 == [th[t] EXCEPT !.pc = th[t].ret, !.ret = "idle"]
             r  == IF store[b].known THEN r1 ELSE r2
  <2>1. SetThread(t, r) /\ UNCHANGED store /\ th[t].pc = "notify"
    BY <1>1 DEF NotifyRead, At
  <2>2. ThreadOK(r, fate)
    BY <2>1 DEF ThreadOK, WritesKnown, EmptySyncHasReason, HandOverWithoutLocal,
       ReturnsToCaller, ThreadState
  <2>3. Vouching(th[t]) => r.b = th[t].b /\ Vouching(r)
    BY <2>1 DEF ThreadOK, ReturnsToCaller, Vouching, InReception, InSubmission, InDelivery, ThreadState
  <2> QED BY <2>1, <2>2, <2>3, QuietFrame
<1>2. CASE NotifyDest(t)
  <2> DEFINE item == [th[t].item EXCEPT !.dest = TRUE]
             r1 == [th[t] EXCEPT !.pc = th[t].ret, !.ret = "idle", !.item = NoItem]
             r2 == [th[t] EXCEPT !.pc = "notifySent", !.item = item]
             r  == IF th[t].prev \subseteq item.sent THEN r1 ELSE r2
  <2>1. SetThread(t, r) /\ th[t].pc = "notifyDest"
    BY <1>2 DEF NotifyDest, At
  <2>2. th[t].item.known /\ item \in BundleItem /\ item.known
    BY <2>1 DEF ThreadOK, WritesKnown, BundleItem
  <2>3. ThreadOK(r, fate)
    BY <2>1, <2>2 DEF ThreadOK, WritesKnown, EmptySyncHasReason, HandOverWithoutLocal,
       ReturnsToCaller, ThreadState
  <2>4. Vouching(th[t]) => r.b = th[t].b /\ Vouching(r)
    BY <2>1 DEF ThreadOK, ReturnsToCaller, Vouching, InReception, InSubmission, InDelivery, ThreadState
  <2>5. CASE th[t].item.dest
    BY <1>2, <2>1, <2>3, <2>4, <2>5, QuietFrame DEF NotifyDest
  <2>6. CASE ~th[t].item.dest
    <3>1. StoreUpdate(b, item)
      BY <1>2, <2>6 DEF NotifyDest
    <3> QED BY <2>1, <2>2, <2>3, <2>4, <3>1, WriteFrame
  <2> QED BY <2>5, <2>6
<1>3. CASE NotifySent(t)
  <2> DEFINE item == [th[t].item EXCEPT !.sent = @ \cup th[t].prev]
             r == [th[t] EXCEPT !.pc = th[t].ret, !.ret = "idle", !.item = NoItem]
  <2>1. SetThread(t, r) /\ th[t].pc = "notifySent" /\ StoreUpdate(b, item)
    BY <1>3 DEF NotifySent, At
  <2>2. item \in BundleItem /\ item.known
    BY <2>1 DEF ThreadOK, WritesKnown, BundleItem
  <2>3. ThreadOK(r, fate)
    BY <2>1 DEF ThreadOK, WritesKnown, EmptySyncHasReason, HandOverWithoutLocal,
       ReturnsToCaller, ThreadState
  <2>4. Vouching(th[t]) => r.b = th[t].b /\ Vouching(r)
    BY <2>1 DEF ThreadOK, ReturnsToCaller, Vouching, InReception, InSubmission, InDelivery, ThreadState
  <2> QED BY <2>1, <2>2, <2>3, <2>4, WriteFrame
<1>4. CASE dispatching(t)
  <2> DEFINE r1 == [th[t] EXCEPT !.pc = "bundle"]
             r2 == [th[t] EXCEPT !.pc = "clasForBundle", !.item = store[b]]
             r  == IF ~store[b].known \/ (store[b].dest /\ HasEndpoint(b)) THEN r1 ELSE r2
  <2>1. SetThread(t, r) /\ UNCHANGED store /\ th[t].pc = "dispatching"
    BY <1>4 DEF dispatching, At
  <2>2. ThreadOK(r, fate)
    BY <2>1 DEF ThreadOK, WritesKnown, EmptySyncHasReason, HandOverWithoutLocal,
       ReturnsToCaller, ThreadState
  <2>3. ~Vouching(th[t])
    BY <2>1 DEF Vouching, InReception, InSubmission, InDelivery
  <2> QED BY <2>1, <2>2, <2>3, QuietFrame
<1>5. CASE clasForBundle(t)
  <2> DEFINE r1 == [th[t] EXCEPT !.pc = "bundle", !.item = NoItem]
             r2 == [th[t] EXCEPT !.pc = "setPending"]
             r  == IF store[b].known /\ filterCLAs(store[b]) # {} THEN r1 ELSE r2
  <2>1. SetThread(t, r) /\ UNCHANGED store /\ th[t].pc = "clasForBundle"
    BY <1>5 DEF clasForBundle, At
  <2>2. ThreadOK(r, fate)
    BY <2>1 DEF ThreadOK, WritesKnown, EmptySyncHasReason, HandOverWithoutLocal,
       ReturnsToCaller, ThreadState
  <2>3. ~Vouching(th[t])
    BY <2>1 DEF Vouching, InReception, InSubmission, InDelivery
  <2> QED BY <2>1, <2>2, <2>3, QuietFrame
<1>6. CASE SetPending(t)
  <2> DEFINE item == [th[t].item EXCEPT !.pending = TRUE]
  <2>1. SetThread(t, Finished(th[t])) /\ th[t].pc = "setPending" /\ StoreUpdate(b, item)
    BY <1>6 DEF SetPending, Done, At
  <2>2. item \in BundleItem /\ item.known
    BY <2>1 DEF ThreadOK, WritesKnown, BundleItem
  <2>3. ~Vouching(th[t])
    BY <2>1 DEF Vouching, InReception, InSubmission, InDelivery
  <2> QED BY <2>1, <2>2, <2>3, FinishedOK, WriteFrame
<1>7. CASE LoadBundle(t)
  <2> DEFINE r1 == [th[t] EXCEPT !.mem = TRUE, !.pc = IF HasEndpoint(b) THEN "localDelivery" ELSE "forward"]
             r  == IF ~th[t].mem /\ ~store[b].known THEN Finished(th[t]) ELSE r1
  <2>1. SetThread(t, r) /\ UNCHANGED store /\ th[t].pc = "bundle"
    BY <1>7 DEF LoadBundle, At
  <2>2. ThreadOK(r1, fate)
    BY <2>1 DEF ThreadOK, WritesKnown, EmptySyncHasReason, HandOverWithoutLocal,
       ReturnsToCaller, ThreadState
  <2>3. ThreadOK(r, fate)
    BY <2>2, FinishedOK
  <2>4. ~Vouching(th[t])
    BY <2>1 DEF Vouching, InReception, InSubmission, InDelivery
  <2> QED BY <2>1, <2>3, <2>4, QuietFrame
<1> QED BY <1>1, <1>2, <1>3, <1>4, <1>5, <1>6, <1>7

(* Core.forward up to the end of the transmissions *)
LEMMA ForwardInv ==
  ASSUME IndInv, TypeOK', NEW t \in Thread,
         \/ forward(t) \/ ForwardExceeded(t) \/ senderForDestination(t)
         \/ SenderForBundle(t) \/ UpdateSent(t) \/ AfterSending(t)
  PROVE  IndInv'
<1> DEFINE b == th[t].b
           sending(del) == [th[t] EXCEPT !.pc = "sending", !.del = del, !.ok = FALSE, !.item = NoItem]
<1>0. /\ th[t] \in ThreadState /\ ThreadOK(th[t], fate) /\ FailureKnown(go)
      /\ b \in Bundle /\ th[t].item \in BundleItem
      /\ accepted' = accepted
      /\ th[t].pc \in {"forward", "checks", "senderForBundle", "updateSent", "sending"}
  BY LocalType DEF IndInv, forward, ForwardExceeded, senderForDestination, SenderForBundle,
     UpdateSent, AfterSending, history, At
<1> USE <1>0
<1>1. ~Vouching(th[t])
  BY DEF Vouching, InReception, InSubmission, InDelivery
<1>2. ASSUME NEW n PROVE FailureKnown([go EXCEPT ![t] =
                [p \in Peer |-> IF p \in n THEN [NoSend EXCEPT !.st = "sending"] ELSE NoSend]])
  BY DEF FailureKnown, NoSend, IndInv, TypeOK
<1>3. ASSUME NEW del PROVE ThreadOK(sending(del), fate)
  BY DEF ThreadOK, WritesKnown, EmptySyncHasReason, HandOverWithoutLocal, ReturnsToCaller, ThreadState
<1>4. ASSUME NEW n, NEW del, StartSending(t, n, del), UNCHANGED <<store, fate>> PROVE IndInv'
  <2>1. SetThread(t, sending(del)) /\ FailureKnown(go')
    BY <1>2, <1>4 DEF StartSending
  <2> QED BY <1>1, <1>3, <1>4, <2>1, QuietFrame
<1>5. CASE forward(t)
  <2>1. Sync(t, (th[t].cons \cup {"ForwardPending"}) \ {"DispatchPending"}, "checks")
        /\ UNCHANGED <<store, go, fate>>
    BY <1>5 DEF forward, history
  <2>2. (th[t].cons \cup {"ForwardPending"}) \ {"DispatchPending"} # {}
    OBVIOUS
  <2> QED BY <1>1, <2>1, <2>2, SyncFrame
<1>6. CASE ForwardExceeded(t)
  BY <1>6, SettleFrame DEF ForwardExceeded, bundleDeletion
<1>7. CASE senderForDestination(t)
  <2> DEFINE r == [th[t] EXCEPT !.pc = "senderForBundle"]
             nodes == up \cap {Header[b].dest}
  <2>0. UNCHANGED <<store, fate>>
    BY <1>7 DEF senderForDestination, history
  <2>1. CASE nodes # {}
    BY <1>4, <1>7, <2>0, <2>1 DEF senderForDestination
  <2>2. CASE nodes = {}
    <3>1. SetThread(t, r) /\ UNCHANGED go
      BY <1>7, <2>2 DEF senderForDestination, Goto
    <3>2. ThreadOK(r, fate)
      BY DEF ThreadOK, WritesKnown, EmptySyncHasReason, HandOverWithoutLocal, ReturnsToCaller, ThreadState
    <3> QED BY <1>1, <2>0, <3>1, <3>2, QuietFrame
  <2> QED BY <2>1, <2>2
<1>8. CASE SenderForBundle(t)
  <2> DEFINE item == [store[b] EXCEPT !.sent = @ \cup up]
             r == [th[t] EXCEPT !.pc = "updateSent", !.item = item]
  <2>0. UNCHANGED <<store, fate>>
    BY <1>8 DEF SenderForBundle, history
  <2>1. CASE store[b].known
    <3>1. SetThread(t, r) /\ FailureKnown(go')
      BY <1>2, <1>8, <2>1 DEF SenderForBundle
    <3>2. store[b] \in BundleItem
      BY LocalType DEF IndInv
    <3>3. item.known
      BY <2>1, <3>2 DEF BundleItem
    <3>4. ThreadOK(r, fate)
      BY <3>3 DEF ThreadOK, WritesKnown, EmptySyncHasReason, HandOverWithoutLocal, ReturnsToCaller,
         ThreadState
    <3> QED BY <1>1, <2>0, <3>1, <3>4, QuietFrame
  <2>2. CASE ~store[b].known
    BY <1>4, <1>8, <2>0, <2>2 DEF SenderForBundle
  <2> QED BY <2>1, <2>2
<1>9. CASE UpdateSent(t)
  <2>1. /\ SetThread(t, sending(FALSE)) /\ StoreUpdate(b, th[t].item) /\ UNCHANGED <<go, fate>>
        /\ th[t].pc = "updateSent"
    BY <1>9 DEF UpdateSent, At, history
  <2>2. th[t].item.known
    BY <2>1 DEF ThreadOK, WritesKnown
  <2> QED BY <1>1, <1>3, <2>1, <2>2, WriteFrame
<1>10. CASE AfterSending(t)
  <2>1. CASE th[t].ok /\ th[t].del
    BY <1>10, <2>1, SettleFrame DEF AfterSending
  <2>2. CASE ~(th[t].ok /\ th[t].del)
    <3>1. PICK ret \in {"inspect", "done"} :
             Sync(t, th[t].cons \cup {"Contraindicated"}, ret) /\ UNCHANGED <<store, go, fate>>
      BY <1>10, <2>2 DEF AfterSending
    <3>2. th[t].cons \cup {"Contraindicated"} # {}
      OBVIOUS
    <3> QED BY <1>1, <3>1, <3>2, SyncFrame
  <2> QED BY <2>1, <2>2
<1> QED BY <1>5, <1>6, <1>7, <1>8, <1>9, <1>10

(* inspectStatusReport takes bundles from the store and says why *)
LEMMA InspectFrame ==
  ASSUME IndInv, TypeOK', NEW t \in Thread, InspectStatusReport(t), UNCHANGED <<go, accepted>>,
         NEW r, SetThread(t, r), ThreadOK(r, fate), r.pc # "sync", ~Vouching(th[t])
  PROVE  IndInv'
<1>1. AbsentIsEmpty'
  BY DEF InspectStatusReport, IndInv, AbsentIsEmpty, NoItem
<1>2. \A b \in Bundle : fate[b] \subseteq fate'[b]
  BY DEF InspectStatusReport
<1>3. \A b \in Bundle : store[b].known => store'[b].known \/ fate'[b] # {}
  BY DEF InspectStatusReport
<1>4. ThreadOK(r, fate')
  BY DEF ThreadOK, EmptySyncHasReason
<1>5. FailureKnown(go')
  BY DEF IndInv
<1> QED BY <1>1, <1>2, <1>3, <1>4, <1>5, Frame

(* Local delivery and the inspection of administrative records *)
LEMMA DeliveryInv ==
  ASSUME IndInv, TypeOK', NEW t \in Thread,
         \/ localDelivery(t) \/ LocalSync(t) \/ Deliver(t) \/ HandOver(t) \/ FinishLocal(t)
         \/ Inspect(t)
  PROVE  IndInv'
<1> DEFINE b == th[t].b
           at(pc) == [th[t] EXCEPT !.pc = pc]
<1>0. /\ th[t] \in ThreadState /\ ThreadOK(th[t], fate) /\ FailureKnown(go)
      /\ b \in Bundle /\ UNCHANGED <<go, accepted>>
  BY LocalType DEF IndInv, localDelivery, LocalSync, Deliver, HandOver, FinishLocal, Inspect, history
<1> USE <1>0
<1>1. ASSUME NEW pc \in {"localSync", "finishLocal"}, NEW f PROVE ThreadOK(at(pc), f)
  BY DEF ThreadOK, WritesKnown, EmptySyncHasReason, HandOverWithoutLocal, ReturnsToCaller, ThreadState
<1>2. CASE localDelivery(t)
  <2>0. ~Vouching(th[t]) /\ at("localSync").pc = "localSync"
    BY <1>2 DEF localDelivery, At, Vouching, InReception, InSubmission, InDelivery, ThreadState
  <2>1. CASE bundleDeletion(t) /\ UNCHANGED store
    BY <2>1, SettleFrame DEF bundleDeletion
  <2>2. CASE InspectStatusReport(t) /\ Goto(t, "localSync")
    BY <1>1, <2>0, <2>2, InspectFrame DEF Goto
  <2>3. CASE Goto(t, "localSync") /\ UNCHANGED <<store, fate>>
    BY <1>1, <2>0, <2>3, QuietFrame DEF Goto
  <2> QED BY <1>2, <2>1, <2>2, <2>3 DEF localDelivery
<1>3. CASE LocalSync(t)
  <2>1. ~Vouching(th[t])
    BY <1>3 DEF LocalSync, At, Vouching, InReception, InSubmission, InDelivery
  <2>2. th[t].cons \cup {"LocalEndpoint"} # {}
    OBVIOUS
  <2>3. Sync(t, th[t].cons \cup {"LocalEndpoint"}, "deliver") /\ UNCHANGED <<store, fate>>
    BY <1>3 DEF LocalSync, history
  <2> QED BY <2>1, <2>2, <2>3, SyncFrame
<1>4. CASE Deliver(t)
  <2>1. ~Vouching(th[t])
    BY <1>4 DEF Deliver, At, Vouching, InReception, InSubmission, InDelivery
  <2>2. "LocalEndpoint" \notin th[t].cons \ {"LocalEndpoint"}
    OBVIOUS
  <2>3. UNCHANGED <<store, fate>>
    BY <1>4 DEF Deliver, history
  <2>4. CASE Sync(t, th[t].cons \ {"LocalEndpoint"}, "handOver")
    BY <2>1, <2>2, <2>3, <2>4, SyncFrame
  <2>5. CASE Goto(t, "finishLocal")
    BY <1>1, <2>1, <2>3, <2>5, QuietFrame DEF Goto
  <2> QED BY <1>4, <2>4, <2>5 DEF Deliver
<1>5. CASE HandOver(t)
  <2> DEFINE r == at("finishLocal")
  <2>1. SetThread(t, r) /\ UNCHANGED store /\ th[t].pc = "handOver"
    BY <1>5 DEF HandOver, Goto, At
  <2>2. \A c \in Bundle : fate[c] \subseteq fate'[c]
    BY <1>5 DEF HandOver, Settle, IndInv, TypeOK
  <2>3. r.b = b /\ Vouching(r)
    BY <2>1 DEF ThreadOK, HandOverWithoutLocal, Vouching, InDelivery, ThreadState
  <2> QED BY <1>1, <2>1, <2>2, <2>3, QuietFrame
<1>6. CASE FinishLocal(t)
  <2> DEFINE c == PurgeConstraints(th[t].cons)
  <2>1. CASE "LocalEndpoint" \notin th[t].cons
    BY <1>6, <2>1, SettleFrame DEF FinishLocal
  <2>2. CASE "LocalEndpoint" \in th[t].cons
    <3>1. Sync(t, c, "done") /\ UNCHANGED <<store, fate>> /\ th[t].pc = "finishLocal"
      BY <1>6, <2>2 DEF FinishLocal, At
    <3>2. c # {}
      BY <2>2 DEF PurgeConstraints
    <3>3. ~Vouching(th[t])
      BY <2>2, <3>1 DEF Vouching, InReception, InSubmission, InDelivery
    <3> QED BY <3>1, <3>2, <3>3, SyncFrame
  <2> QED BY <2>1, <2>2
<1>7. CASE Inspect(t)
  <2>1. ~Vouching(th[t]) /\ SetThread(t, Finished(th[t]))
    BY <1>7 DEF Inspect, At, Done, Vouching, InReception, InSubmission, InDelivery
  <2>2. Finished(th[t]).pc # "sync"
    BY DEF Finished, Idle
  <2>3. CASE InspectStatusReport(t)
    BY <2>1, <2>2, <2>3, FinishedOK, InspectFrame
  <2>4. CASE UNCHANGED <<store, fate>>
    BY <2>1, <2>4, FinishedOK, QuietFrame
  <2> QED BY <1>7, <2>3, <2>4 DEF Inspect
<1> QED BY <1>2, <1>3, <1>4, <1>5, <1>6, <1>7

(* checkPendingBundles takes its next bundle *)
LEMMA RetryInv ==
  ASSUME IndInv, TypeOK', NEW t \in Thread, NEW c \in Bundle, NextPending(t, c)
  PROVE  IndInv'
<1> DEFINE r == [Idle EXCEPT !.pc = "dispatching", !.b = c, !.cons = store[c].cons,
                             !.todo = th[t].todo \ {c}]
<1>1. SetThread(t, r) /\ UNCHANGED <<store, go, accepted, fate>> /\ th[t].pc = "next"
  BY DEF NextPending, At, history
<1>2. ThreadOK(r, fate)
  BY DEF Idle, ThreadOK, WritesKnown, EmptySyncHasReason, HandOverWithoutLocal, ReturnsToCaller
<1>3. ~Vouching(th[t]) /\ FailureKnown(go)
  BY <1>1 DEF Vouching, InReception, InSubmission, InDelivery, IndInv
<1> QED BY <1>1, <1>2, <1>3, QuietFrame

(* The goroutines of forward: they leave th[t] but for ok alone *)
LEMMA SendInv ==
  ASSUME IndInv, TypeOK', NEW t \in Thread, NEW p \in Peer,
         SendOk(t, p) \/ SendFail(t, p) \/ ReportFailureRead(t, p) \/ ReportFailureUpdate(t, p)
  PROVE  IndInv'
<1>0. /\ th[t] \in ThreadState /\ ThreadOK(th[t], fate) /\ FailureKnown(go)
      /\ th[t].b \in Bundle /\ UNCHANGED <<accepted, fate>> /\ th[t].pc = "sending"
      /\ go \in [Thread -> [Peer -> SendState]]
  BY LocalType DEF IndInv, TypeOK, SendOk, SendFail, ReportFailureRead, ReportFailureUpdate, history, At
<1>1. ~Vouching(th[t])
  BY <1>0 DEF Vouching, InReception, InSubmission, InDelivery
<1>2. ASSUME NEW g, SetGo(t, p, g), g.st = "update" => g.item.known PROVE FailureKnown(go')
  BY <1>0, <1>2 DEF SetGo, FailureKnown
<1>3. FailureKnown(go')
  <2>1. CASE SendOk(t, p) \/ SendFail(t, p) \/ ReportFailureUpdate(t, p)
    BY <1>2, <2>1 DEF SendOk, SendFail, ReportFailureUpdate, NoSend
  <2>2. CASE ReportFailureRead(t, p)
    BY <1>2, <2>2 DEF ReportFailureRead, NoSend
  <2> QED BY <2>1, <2>2
<1>4. PICK r : SetThread(t, r) /\ ThreadOK(r, fate)
  <2>1. CASE SendOk(t, p)
    <3>1. ThreadOK([th[t] EXCEPT !.ok = TRUE], fate)
      BY <1>0 DEF ThreadOK, WritesKnown, EmptySyncHasReason, HandOverWithoutLocal, ReturnsToCaller,
         ThreadState
    <3> QED BY <2>1, <3>1 DEF SendOk
  <2>2. CASE ~SendOk(t, p)
    <3>1. th' = th
      BY <2>2 DEF SendFail, ReportFailureRead, ReportFailureUpdate
    <3>2. SetThread(t, th[t])
      BY <3>1 DEF SetThread, IndInv, TypeOK
    <3> QED BY <1>0, <3>2
  <2> QED BY <2>1, <2>2
<1>5. CASE UNCHANGED store
  BY <1>0, <1>1, <1>3, <1>4, <1>5, QuietFrame
<1>6. CASE ReportFailureUpdate(t, p)
  <2> DEFINE item == [go[t][p].item EXCEPT !.sent = @ \ {p}]
  <2>1. StoreUpdate(th[t].b, item) /\ go[t][p].item.known
    BY <1>0, <1>6 DEF ReportFailureUpdate, FailureKnown
  <2>2. go[t][p].item \in BundleItem
    BY <1>0 DEF SendState
  <2>3. item \in BundleItem /\ item.known
    BY <2>1, <2>2 DEF BundleItem
  <2> QED BY <1>0, <1>1, <1>3, <1>4, <2>1, <2>3, WriteFrame
<1> QED BY <1>5, <1>6 DEF SendOk, SendFail, ReportFailureRead

(* Waiting goroutines start *)
LEMMA StartInv == ASSUME IndInv, TypeOK', Start PROVE IndInv'
<1>0. FailureKnown(go)
  BY DEF IndInv
<1>1. ASSUME NEW t \in Thread, CheckPending(t) PROVE IndInv'
  <2>1. PICK r : SetThread(t, Finished(r))
    BY <1>1 DEF CheckPending
  <2>2. UNCHANGED <<store, go, accepted, fate>> /\ ~Vouching(th[t])
    BY <1>1 DEF CheckPending, At, history, Vouching, InReception, InSubmission, InDelivery
  <2> QED BY <1>0, <2>1, <2>2, FinishedOK, QuietFrame
<1>2. ASSUME NEW t \in Thread, NEW b \in Bundle, NEW prev, NEW pc \in {"recvSync1", "sendSync1"},
             Begin(t, b, prev, pc)
      PROVE  IndInv'
  <2> DEFINE r == [Idle EXCEPT !.pc = pc, !.b = b, !.mem = TRUE, !.prev = prev, !.cons = store[b].cons]
  <2>1. /\ SetThread(t, r) /\ accepted' = accepted \cup {b} /\ UNCHANGED <<store, go, fate>>
        /\ th[t].pc = "idle"
    BY <1>2 DEF Begin, At
  <2>2. th'[t] = r /\ \A u \in Thread : u # t => th'[u] = th[u]
    BY <2>1 DEF SetThread, IndInv, TypeOK
  <2>3. r.b = b /\ r.pc = pc /\ r.cons = store[b].cons
    BY DEF Idle
  <2>4. ThreadOK(r, fate)
    BY <2>3 DEF ThreadOK, WritesKnown, EmptySyncHasReason, HandOverWithoutLocal, ReturnsToCaller
  <2>5. \A u \in Thread : ThreadOK(th'[u], fate')
    BY <2>1, <2>2, <2>4 DEF IndInv
  <2>6. store[b].known \/ Vouching(r)
    BY <2>3 DEF IndInv, AbsentIsEmpty, Vouching, InReception, InSubmission
  <2>7. ~Vouching(th[t])
    BY <2>1 DEF Vouching, InReception, InSubmission, InDelivery
  <2>8. NoSilentLoss'
    <3> SUFFICES ASSUME NEW c \in accepted', ~store[c].known, fate[c] = {}
                 PROVE  \E u \in Thread : Vouches(u, c)'
      BY <2>1 DEF NoSilentLoss
    <3>1. CASE c = b
      BY <2>2, <2>3, <2>6, <3>1 DEF Vouches
    <3>2. CASE c # b
      <4>1. PICK u \in Thread : Vouches(u, c)
        BY <2>1, <3>2 DEF IndInv, NoSilentLoss
      <4> QED BY <2>2, <2>7, <4>1 DEF Vouches
    <3> QED BY <3>1, <3>2
  <2>9. AbsentIsEmpty'
    BY <2>1 DEF IndInv, AbsentIsEmpty
  <2> QED BY <1>0, <2>1, <2>5, <2>8, <2>9 DEF IndInv
<1> QED BY <1>1, <1>2 DEF Start, PeerAppeared, Cron, ReceivedBundle, SendBundle, Thread

(* Expiry and crashes let go of a bundle only with a fate *)
LEMMA EnvironmentInv == ASSUME IndInv, TypeOK', Environment PROVE IndInv'
<1>1. CASE UNCHANGED <<store, th, go, accepted, fate>>
  BY <1>1 DEF IndInv, AbsentIsEmpty, NoSilentLoss, Vouches
<1>2. ASSUME NEW b \in Bundle, DeleteExpired(b) PROVE IndInv'
  <2>1. /\ store' = [store EXCEPT ![b] = NoItem] /\ fate' = [fate EXCEPT ![b] = @ \cup {"expired"}]
        /\ UNCHANGED <<th, go, accepted>>
    BY <1>2 DEF DeleteExpired, StoreDelete, Settle
  <2>2. /\ fate'[b] # {} /\ \A c \in Bundle : fate[c] \subseteq fate'[c]
        /\ \A c \in Bundle : c # b => store'[c] = store[c]
    BY <2>1 DEF IndInv, TypeOK
  <2>3. AbsentIsEmpty'
    BY <2>1 DEF IndInv, AbsentIsEmpty, TypeOK, NoItem
  <2>4. \A t \in Thread : ThreadOK(th'[t], fate')
    <3> SUFFICES ASSUME NEW t \in Thread PROVE ThreadOK(th[t], fate')
      BY <2>1
    <3>1. th[t].b \in Bundle /\ ThreadOK(th[t], fate)
      BY LocalType DEF IndInv
    <3> QED BY <2>2, <3>1 DEF ThreadOK, EmptySyncHasReason
  <2>5. NoSilentLoss'
    BY <2>1, <2>2 DEF IndInv, TypeOK, NoSilentLoss, Vouches
  <2> QED BY <2>1, <2>3, <2>4, <2>5 DEF IndInv
<1>3. CASE Crash
  <2>1. AbsentIsEmpty' /\ FailureKnown(go')
    BY <1>3 DEF Crash, IndInv, AbsentIsEmpty, FailureKnown, NoSend
  <2>2. \A t \in Thread : ThreadOK(th'[t], fate')
    BY <1>3 DEF Crash, Idle, ThreadOK, WritesKnown, EmptySyncHasReason, HandOverWithoutLocal,
       ReturnsToCaller
  <2>3. NoSilentLoss'
    BY <1>3 DEF Crash, IndInv, TypeOK, NoSilentLoss
  <2> QED BY <2>1, <2>2, <2>3 DEF IndInv
<1> QED BY <1>1, <1>2, <1>3 DEF Environment, PeerUp, PeerDown, AgentChange, Expire, history

(* The inductive invariant holds initially *)
LEMMA InitInv == Init => IndInv
<1> SUFFICES ASSUME Init PROVE IndInv
  OBVIOUS
<1>1. AbsentIsEmpty /\ FailureKnown(go) /\ NoSilentLoss
  BY DEF Init, AbsentIsEmpty, FailureKnown, NoSilentLoss, NoItem, NoSend
<1>2. \A t \in Thread : ThreadOK(th[t], fate)
  BY DEF Init, Idle, ThreadOK, WritesKnown, EmptySyncHasReason, HandOverWithoutLocal, ReturnsToCaller
<1> QED BY <1>1, <1>2, InitType DEF IndInv

(* The inductive invariant is inductive *)
LEMMA NextInv == IndInv /\ [Next]_vars => IndInv'
<1> SUFFICES ASSUME IndInv, [Next]_vars PROVE IndInv'
  OBVIOUS
<1>1. TypeOK'
  BY NextType DEF IndInv
<1>2. CASE UNCHANGED vars
  BY <1>1, <1>2 DEF vars, IndInv, AbsentIsEmpty, NoSilentLoss, Vouches
<1>3. ASSUME NEW t \in Thread, Step(t) PROVE IndInv'
  BY <1>1, <1>3, SyncInv, ReceptionInv, RoutingInv, ForwardInv, DeliveryInv, RetryInv, SendInv DEF Step
<1>4. ASSUME NEW t \in Thread, Sending(t) PROVE IndInv'
  BY <1>1, <1>4, SendInv DEF Sending
<1> QED BY <1>1, <1>2, <1>3, <1>4, StartInv, EnvironmentInv DEF Next

(* The inductive invariant holds in every state *)
THEOREM Invariance == Spec => []IndInv
BY InitInv, NextInv, PTL DEF Spec

(* No interleaving of receptions, submissions, retries, expiry, status     *)
(* reports and crashes makes a bundle vanish that core.handler or          *)
(* Core.SendBundle accepted, unless its fate was decided.                  *)
THEOREM NothingLost == Spec => []NoSilentLoss
<1>1. IndInv => NoSilentLoss
  BY DEF IndInv
<1> QED BY <1>1, Invariance, PTL

(* The same for the node whose goroutines never overlap *)
THEOREM NothingLostSerially == SerialSpec => []NoSilentLoss
<1>1. [SerialNext]_vars => [Next]_vars
  BY DEF SerialNext, Next
<1>2. IndInv => NoSilentLoss
  BY DEF IndInv
<1> QED BY <1>1, <1>2, InitInv, NextInv, PTL DEF SerialSpec

-----------------------------------------------------------------------------
(* A bundle nobody works on is found again *)

(* Core.receive with a descriptor that was read from the store *)
Receiving(r) ==
    \/ r.pc \in {"recvSync1", "recvSync2", "receive"}
    \/ r.pc = "sync" /\ r.ret \in {"recvSync2", "receive"}

(* A goroutine that will not mark its bundle any more: a reception that    *)
(* will return early, a last Sync that found no item, and what follows it. *)
Passive(r) ==
    \/ Receiving(r) /\ r.cons # {}
    \/ r.pc = "sync" /\ r.ret \in {"done", "inspect"} /\ ~r.item.known
    \/ r.pc = "inspect"

Active(r) == r.pc \notin {"idle", "next"} /\ ~Passive(r)

(* Nothing has to happen for b: NotStranded's alternatives, or b is gone *)
Settled(b) ==
    \/ fate[b] # {}
    \/ ~store[b].known
    \/ store[b].pending
    \/ store[b].cons = {"LocalEndpoint"}
    \/ Repeated(b) /\ "DispatchPending" \in store[b].cons

(* A bundle that is not yet settled has a goroutine that will mark it *)
Marked(b) == crashes = 0 => Settled(b) \/ \E u \in Thread : th[u].b = b /\ Active(th[u])

(* The last Sync of a bundle marks it pending or leaves it for its agent, *)
(* unless its fate is decided.                                            *)
EndsMarked(r, f) ==
    r.pc = "sync" /\ r.ret \in {"done", "inspect"} =>
        f[r.b] # {} \/ IsPending(r.cons) \/ r.cons = {"LocalEndpoint"}

(* A reception that finds constraints in the store is not the first one *)
RepeatedKnown(r) == Receiving(r) /\ r.cons # {} => Repeated(r.b)

(* Goroutines work, now and later in a pass of checkPendingBundles, on     *)
(* accepted bundles only.                                                  *)
WorksOnAccepted(r, a) == r.todo \subseteq a /\ (r.pc \in {"idle", "next"} \/ r.b \in a)

MarkInv ==
    /\ \A b \in Bundle : b \in accepted \/ store[b] = NoItem
    /\ \A b \in accepted : Header[b].own \/ rx[b] > 0
    /\ \A t \in Thread : /\ WorksOnAccepted(th[t], accepted)
                         /\ EndsMarked(th[t], fate)
                         /\ RepeatedKnown(th[t])
    /\ \A b \in Bundle : Marked(b)

(* A step of a goroutine t that works on b keeps the invariant if it       *)
(* settles b or goes on working, or if it was of no help before and left b *)
(* alone, or if someone else works on b.                                   *)
LEMMA MarkFrame ==
  ASSUME IndInv, MarkInv, UNCHANGED <<rx, crashes, accepted>>,
         NEW t \in Thread, NEW b \in Bundle, b = th[t].b, th[t].pc \notin {"idle", "next"},
         \A c \in Bundle : fate[c] \subseteq fate'[c],
         \A c \in Bundle : c # b => store'[c] = store[c] \/ store'[c] = NoItem,
         NEW r, SetThread(t, r), r.todo = th[t].todo, r.pc \in {"idle", "next"} \/ r.b = b,
         EndsMarked(r, fate'), RepeatedKnown(r),
         \/ Settled(b)'
         \/ r.b = b /\ Active(r)
         \/ store'[b] = store[b] /\ ~Active(th[t])
         \/ \E u \in Thread : u # t /\ th[u].b = b /\ Active(th[u])
  PROVE  MarkInv'
<1>1. /\ th'[t] = r
      /\ \A u \in Thread : u # t => th'[u] = th[u]
  BY DEF SetThread, IndInv, TypeOK
<1>2. b \in accepted
  BY DEF MarkInv, WorksOnAccepted
<1>3. \A c \in Bundle : c \in accepted' \/ store'[c] = NoItem
  BY <1>2 DEF MarkInv
<1>4. \A c \in accepted' : Header[c].own \/ rx'[c] > 0
  BY DEF MarkInv
<1>5. ASSUME NEW u \in Thread
      PROVE  WorksOnAccepted(th'[u], accepted') /\ EndsMarked(th'[u], fate') /\ RepeatedKnown(th[u])'
  <2>1. CASE u = t
    <3>1. RepeatedKnown(th[u])'
      BY <1>1, <2>1 DEF RepeatedKnown, Repeated
    <3> QED BY <1>1, <1>2, <2>1, <3>1 DEF MarkInv, WorksOnAccepted
  <2>2. CASE u # t
    <3>1. th'[u] = th[u] /\ th[u].b \in Bundle
      BY <1>1, <2>2, LocalType DEF IndInv
    <3>2. WorksOnAccepted(th[u], accepted) /\ EndsMarked(th[u], fate) /\ RepeatedKnown(th[u])
      BY DEF MarkInv
    <3>3. EndsMarked(th[u], fate')
      BY <3>1, <3>2 DEF EndsMarked
    <3>4. RepeatedKnown(th[u])'
      BY <3>1, <3>2 DEF RepeatedKnown, Repeated
    <3> QED BY <3>1, <3>2, <3>3, <3>4
  <2> QED BY <2>1, <2>2
<1>6. ASSUME NEW c \in Bundle PROVE Marked(c)'
  <2> SUFFICES ASSUME crashes = 0, ~Settled(c)'
               PROVE  \E u \in Thread : th'[u].b = c /\ Active(th'[u])
    BY DEF Marked
  <2>1. CASE store'[c] = store[c] /\ (c # b \/ ~Active(th[t]))
    <3>1. ~Settled(c)
      BY <2>1 DEF Settled, Repeated
    <3>2. PICK u \in Thread : th[u].b = c /\ Active(th[u])
      BY <3>1 DEF MarkInv, Marked
    <3>3. u # t
      BY <2>1, <3>2
    <3> QED BY <1>1, <3>2, <3>3
  <2>2. CASE store'[c] = NoItem
    BY <2>2 DEF Settled, NoItem
  <2>3. CASE c = b
    BY <1>1, <2>1, <2>3
  <2> QED BY <2>1, <2>2, <2>3
<1> QED BY <1>3, <1>4, <1>5, <1>6 DEF MarkInv

(* A step after which the goroutine is still about to mark its bundle *)
LEMMA GoesOn ==
  ASSUME IndInv, MarkInv, UNCHANGED <<rx, crashes, accepted>>,
         NEW t \in Thread, NEW b \in Bundle, b = th[t].b, th[t].pc \notin {"idle", "next"},
         \A c \in Bundle : fate[c] \subseteq fate'[c],
         \A c \in Bundle : c # b => store'[c] = store[c] \/ store'[c] = NoItem,
         NEW r, SetThread(t, r), r.todo = th[t].todo, r.b = b,
         r.pc \notin {"idle", "next", "recvSync1", "recvSync2", "receive", "sync", "inspect"}
  PROVE  MarkInv'
<1>1. EndsMarked(r, fate') /\ RepeatedKnown(r) /\ Active(r)
  BY DEF EndsMarked, RepeatedKnown, Active, Passive, Receiving
<1> QED BY <1>1, MarkFrame

(* A step that calls Sync, up to Sync's read *)
LEMMA SyncMark ==
  ASSUME IndInv, MarkInv, UNCHANGED <<store, rx, crashes, accepted>>,
         NEW t \in Thread, NEW b \in Bundle, b = th[t].b, th[t].pc \notin {"idle", "next"},
         \A c \in Bundle : fate[c] \subseteq fate'[c],
         NEW c, NEW ret, Sync(t, c, ret),
         ret \in {"recvSync2", "receive"} => Receiving(th[t]) /\ c = th[t].cons,
         ret \in {"done", "inspect"} =>
             fate'[b] # {} \/ IsPending(c) \/ c = {"LocalEndpoint"}
  PROVE  MarkInv'
<1>0. th[t] \in ThreadState /\ RepeatedKnown(th[t])
  BY LocalType DEF IndInv, MarkInv
<1>1. PICK r : /\ SetThread(t, r) /\ r.todo = th[t].todo /\ r.b = b /\ r.pc = "sync"
               /\ r.cons = c /\ r.ret = ret /\ r.item = store[b]
  <2> DEFINE q == [th[t] EXCEPT !.pc = "sync", !.cons = c, !.item = store[th[t].b], !.ret = ret]
  <2>1. /\ q.todo = th[t].todo /\ q.b = b /\ q.pc = "sync"
        /\ q.cons = c /\ q.ret = ret /\ q.item = store[b]
    BY <1>0 DEF ThreadState
  <2>2. SetThread(t, q)
    BY DEF Sync
  <2> HIDE DEF q
  <2> QED BY <2>1, <2>2
<1>2. EndsMarked(r, fate')
  BY <1>1 DEF EndsMarked
<1>3. RepeatedKnown(r)
  BY <1>0, <1>1 DEF RepeatedKnown, Receiving
<1>4. \/ Settled(b)'
      \/ r.b = b /\ Active(r)
      \/ store'[b] = store[b] /\ ~Active(th[t])
  BY <1>1 DEF Settled, Active, Passive, Receiving
<1> QED BY <1>1, <1>2, <1>3, <1>4, MarkFrame

(* A step that decides about the bundle and calls Sync *)
LEMMA SettleMark ==
  ASSUME IndInv, MarkInv, UNCHANGED <<store, rx, crashes, accepted>>,
         NEW t \in Thread, th[t].pc \notin {"idle", "next"},
         NEW c, NEW f, Settle(th[t].b, f), Sync(t, c, "done")
  PROVE  MarkInv'
<1>1. PICK b \in Bundle : b = th[t].b
  BY LocalType DEF IndInv
<1>2. /\ \A d \in Bundle : fate[d] \subseteq fate'[d]
      /\ fate'[b] # {}
  BY <1>1 DEF Settle, IndInv, TypeOK
<1> QED BY <1>1, <1>2, SyncMark

(* A goroutine that ends its work on b, which is settled or was none of    *)
(* its business.                                                           *)
LEMMA EndMark ==
  ASSUME IndInv, MarkInv, UNCHANGED <<rx, crashes, accepted>>,
         NEW t \in Thread, NEW b \in Bundle, b = th[t].b, th[t].pc \notin {"idle", "next"},
         \A c \in Bundle : fate[c] \subseteq fate'[c],
         \A c \in Bundle : c # b => store'[c] = store[c] \/ store'[c] = NoItem,
         SetThread(t, Finished(th[t])),
         \/ Settled(b)'
         \/ store'[b] = store[b] /\ ~Active(th[t])
         \/ \E u \in Thread : u # t /\ th[u].b = b /\ Active(th[u])
  PROVE  MarkInv'
<1>1. PICK r : r = Finished(th[t])
  OBVIOUS
<1>2. r.todo = th[t].todo /\ r.pc \in {"idle", "next"}
  BY <1>1 DEF Finished, Idle
<1>3. EndsMarked(r, fate') /\ RepeatedKnown(r)
  BY <1>2 DEF EndsMarked, RepeatedKnown, Receiving
<1> QED BY <1>1, <1>2, <1>3, MarkFrame

(* Whoever vouches for a bundle is about to mark it *)
LEMMA VouchersMark ==
  ASSUME NEW r, Vouching(r) PROVE Active(r)
BY DEF Vouching, InReception, InSubmission, InDelivery, Active, Passive, Receiving

(* Returning from Sync *)
LEMMA ReturnMark ==
  ASSUME IndInv, MarkInv, UNCHANGED <<rx, crashes, accepted, fate>>,
         NEW t \in Thread, NEW b \in Bundle, b = th[t].b, th[t].pc = "sync",
         \A c \in Bundle : c # b => store'[c] = store[c],
         NEW err, Return(t, err),
         \/ Settled(b)'
         \/ Active(th[t]) /\ th[t].ret \notin {"done", "inspect"}
         \/ store'[b] = store[b] /\ ~Active(th[t])
         \/ \E u \in Thread : u # t /\ th[u].b = b /\ Active(th[u])
  PROVE  MarkInv'
<1>0. th[t] \in ThreadState /\ RepeatedKnown(th[t]) /\ ReturnsToCaller(th[t])
  BY LocalType DEF IndInv, MarkInv, ThreadOK
<1>1. CASE th[t].ret = "done"
  <2>1. SetThread(t, Finished(th[t]))
    BY <1>1 DEF Return
  <2> QED BY <1>1, <2>1, EndMark
<1>2. CASE th[t].ret # "done"
  <2>1. PICK r : /\ SetThread(t, r) /\ r.todo = th[t].todo /\ r.b = b /\ r.pc = th[t].ret
                 /\ r.cons = th[t].cons
    <3> DEFINE q == [th[t] EXCEPT !.pc = th[t].ret, !.ret = "idle", !.item = NoItem, !.err = err]
    <3>1. q.todo = th[t].todo /\ q.b = b /\ q.pc = th[t].ret /\ q.cons = th[t].cons
      BY <1>0 DEF ThreadState
    <3>2. SetThread(t, q)
      BY <1>2 DEF Return
    <3> HIDE DEF q
    <3> QED BY <3>1, <3>2
  <2>2. EndsMarked(r, fate')
    BY <1>0, <2>1 DEF EndsMarked, ReturnsToCaller
  <2>3. RepeatedKnown(r)
    BY <1>0, <2>1 DEF RepeatedKnown, Receiving, ReturnsToCaller
  <2>4. Active(th[t]) /\ th[t].ret \notin {"done", "inspect"} => Active(r)
    BY <1>0, <2>1 DEF Active, Passive, Receiving, ReturnsToCaller
  <2> QED BY <2>1, <2>2, <2>3, <2>4, MarkFrame
<1> QED BY <1>1, <1>2

(* The second half of BundleDescriptor.Sync *)
LEMMA SyncMarks ==
  ASSUME IndInv, MarkInv, NEW t \in Thread, SyncPush(t) \/ SyncDelete(t) \/ SyncUpdate(t)
  PROVE  MarkInv'
<1>1. PICK b \in Bundle : b = th[t].b
  BY LocalType DEF IndInv
<1>2. /\ UNCHANGED <<rx, crashes, accepted, fate>> /\ th[t].pc = "sync"
      /\ \E err : Return(t, err)
  BY DEF SyncPush, SyncDelete, SyncUpdate, At, env, history
<1>3. /\ b \in accepted /\ EndsMarked(th[t], fate) /\ RepeatedKnown(th[t])
      /\ ThreadOK(th[t], fate) /\ th[t].cons \subseteq Constraint /\ store \in [Bundle -> BundleItem]
      /\ th[t].item \in BundleItem
  BY <1>1, <1>2, LocalType DEF MarkInv, WorksOnAccepted, IndInv, TypeOK
<1>4. \A c \in Bundle : c # b => store'[c] = store[c]
  BY <1>1, <1>3 DEF SyncPush, SyncDelete, SyncUpdate, StoreDelete, StoreUpdate
<1>5. \/ Settled(b)'
      \/ Active(th[t]) /\ th[t].ret \notin {"done", "inspect"}
      \/ store'[b] = store[b] /\ ~Active(th[t])
      \/ \E u \in Thread : u # t /\ th[u].b = b /\ Active(th[u])
  <2>1. CASE SyncPush(t)
    <3>1. Active(th[t]) => th[t].ret \notin {"done", "inspect"}
      BY <1>2, <2>1 DEF SyncPush, Active, Passive
    <3>2. CASE store[b].known
      BY <1>1, <2>1, <3>1, <3>2 DEF SyncPush
    <3>3. CASE ~store[b].known /\ fate[b] = {}
      <4>1. PICK u \in Thread : Vouches(u, b)
        BY <1>3, <3>3 DEF IndInv, NoSilentLoss
      <4> QED BY <3>1, <4>1, VouchersMark DEF Vouches
    <3>4. CASE fate[b] # {}
      BY <1>2, <3>4 DEF Settled
    <3> QED BY <3>2, <3>3, <3>4
  <2>2. CASE SyncDelete(t)
    BY <1>1, <1>3, <2>2 DEF SyncDelete, StoreDelete, NoItem, Settled
  <2>3. CASE SyncUpdate(t)
    <3>1. CASE ~store[b].known
      BY <1>1, <2>3, <3>1 DEF SyncUpdate, StoreUpdate, Settled
    <3>2. CASE store[b].known
      <4>1. store'[b].pending = IsPending(th[t].cons) /\ store'[b].cons = th[t].cons
        BY <1>1, <1>3, <2>3, <3>2 DEF SyncUpdate, StoreUpdate, BundleItem
      <4>2. CASE th[t].ret \in {"done", "inspect"}
        BY <1>1, <1>2, <1>3, <4>1, <4>2 DEF EndsMarked, Settled
      <4>3. CASE th[t].ret \in {"recvSync2", "receive"} /\ th[t].cons # {}
        <5>1. Repeated(b)'
          BY <1>1, <1>2, <1>3, <4>3 DEF RepeatedKnown, Receiving, Repeated
        <5>2. \/ IsPending(th[t].cons) \/ "DispatchPending" \in th[t].cons
              \/ th[t].cons = {"LocalEndpoint"}
          BY <1>3, <4>3 DEF IsPending, Constraint
        <5> QED BY <4>1, <5>1, <5>2 DEF Settled
      <4>4. CASE ~(th[t].ret \in {"done", "inspect"})
                 /\ ~(th[t].ret \in {"recvSync2", "receive"} /\ th[t].cons # {})
        BY <1>2, <4>4 DEF Active, Passive, Receiving
      <4> QED BY <4>2, <4>3, <4>4
    <3> QED BY <3>1, <3>2
  <2> QED BY <2>1, <2>2, <2>3
<1> QED BY <1>1, <1>2, <1>4, <1>5, ReturnMark

(* Reception and submission up to the dispatching *)
LEMMA ReceptionMarks ==
  ASSUME IndInv, MarkInv, NEW t \in Thread,
         \/ RecvSync1(t) \/ RecvSync2(t) \/ ReceiveKnown(t) \/ ReceiveNew(t) \/ Blocks(t)
         \/ SendSync1(t) \/ SendNotify(t) \/ transmit(t) \/ SrcCheck(t)
  PROVE  MarkInv'
<1>1. PICK b \in Bundle : b = th[t].b
  BY LocalType DEF IndInv
<1>2. /\ UNCHANGED <<store, rx, crashes, accepted>> /\ th[t].pc \notin {"idle", "next"}
      /\ th[t] \in ThreadState
  BY LocalType DEF IndInv, RecvSync1, RecvSync2, ReceiveKnown, ReceiveNew, Blocks, SendSync1,
     SendNotify, transmit, SrcCheck, At, env, history
<1> USE <1>1, <1>2
<1>3. CASE RecvSync1(t) \/ RecvSync2(t)
  <2>1. fate' = fate /\ Receiving(th[t])
    BY <1>3 DEF RecvSync1, RecvSync2, At, history, Receiving
  <2>2. CASE RecvSync1(t)
    BY <2>1, <2>2, SyncMark DEF RecvSync1
  <2>3. CASE RecvSync2(t)
    BY <2>1, <2>3, SyncMark DEF RecvSync2
  <2> QED BY <1>3, <2>2, <2>3
<1>4. CASE ReceiveKnown(t)
  <2>1. fate' = fate /\ ~Active(th[t]) /\ SetThread(t, Finished(th[t]))
    BY <1>4 DEF ReceiveKnown, Done, At, history, Receiving, Active, Passive
  <2> QED BY <2>1, EndMark
<1>5. CASE ReceiveNew(t) \/ SendSync1(t) \/ transmit(t)
  <2>1. fate' = fate
    BY <1>5 DEF ReceiveNew, SendSync1, transmit, history
  <2>2. CASE ReceiveNew(t)
    BY <2>1, <2>2, SyncMark DEF ReceiveNew
  <2>3. CASE SendSync1(t)
    BY <2>1, <2>3, SyncMark DEF SendSync1
  <2>4. CASE transmit(t)
    BY <2>1, <2>4, SyncMark DEF transmit
  <2> QED BY <1>5, <2>2, <2>3, <2>4
<1>6. ASSUME NEW ret, SetThread(t, [th[t] EXCEPT !.pc = "notify", !.ret = ret]), fate' = fate
      PROVE  MarkInv'
  <2> DEFINE q == [th[t] EXCEPT !.pc = "notify", !.ret = ret]
  <2>1. q.todo = th[t].todo /\ q.b = b /\ q.pc = "notify"
    BY DEF ThreadState
  <2>2. SetThread(t, q)
    BY <1>6
  <2> HIDE DEF q
  <2> QED BY <1>6, <2>1, <2>2, GoesOn
<1>7. CASE Blocks(t)
  <2>1. CASE Header[b].drop
    BY <1>7, <2>1, SettleMark DEF Blocks
  <2>2. CASE ~Header[b].drop
    BY <1>6, <1>7, <2>2 DEF Blocks
  <2> QED BY <2>1, <2>2
<1>8. CASE SendNotify(t)
  BY <1>6, <1>8 DEF SendNotify, history
<1>9. CASE SrcCheck(t)
  <2>1. CASE Header[b].foreign
    BY <1>9, <2>1, SettleMark DEF SrcCheck, bundleDeletion
  <2>2. CASE ~Header[b].foreign
    <3> DEFINE q == [th[t] EXCEPT !.pc = "dispatching"]
    <3>1. q.todo = th[t].todo /\ q.b = b /\ q.pc = "dispatching"
      BY DEF ThreadState
    <3>2. SetThread(t, q) /\ fate' = fate
      BY <1>9, <2>2 DEF SrcCheck, Goto
    <3> HIDE DEF q
    <3> QED BY <3>1, <3>2, GoesOn
  <2> QED BY <2>1, <2>2
<1> QED BY <1>3, <1>4, <1>5, <1>7, <1>8, <1>9

(* NotifyNewBundle and DispatchingAllowed, up to the choice of forwarding *)
LEMMA RoutingMarks ==
  ASSUME IndInv, MarkInv, NEW t \in Thread,
         \/ NotifyRead(t) \/ NotifyDest(t) \/ NotifySent(t)
         \/ dispatching(t) \/ clasForBundle(t) \/ SetPending(t) \/ LoadBundle(t)
  PROVE  MarkInv'
<1>1. PICK b \in Bundle : b = th[t].b
  BY LocalType DEF IndInv
<1>2. /\ UNCHANGED <<rx, crashes, accepted, fate>> /\ th[t].pc \notin {"idle", "next"}
      /\ th[t] \in ThreadState /\ store \in [Bundle -> BundleItem] /\ ReturnsToCaller(th[t])
  BY LocalType DEF IndInv, TypeOK, ThreadOK, NotifyRead, NotifyDest, NotifySent, dispatching,
     clasForBundle, SetPending, LoadBundle, At, env, history
<1>3. \A c \in Bundle : c # b => store'[c] = store[c]
  BY <1>1, <1>2 DEF NotifyRead, NotifyDest, NotifySent, dispatching,
     clasForBundle, SetPending, LoadBundle, StoreUpdate
<1> USE <1>1, <1>2, <1>3
<1> DEFINE onward == {"notifyDest", "notifySent", "transmit", "dispatching", "bundle",
                      "clasForBundle", "setPending", "localDelivery", "forward"}
           moved(q) == q.todo = th[t].todo /\ q.b = b /\ q.pc \in onward
<1>4. ASSUME NEW q, SetThread(t, q), moved(q) PROVE MarkInv'
  BY <1>4, GoesOn
<1>5. ASSUME NEW pc \in onward, NEW item, NEW ret
      PROVE  /\ moved([th[t] EXCEPT !.pc = pc])
             /\ moved([th[t] EXCEPT !.pc = pc, !.item = item])
             /\ moved([th[t] EXCEPT !.pc = pc, !.ret = ret])
             /\ moved([th[t] EXCEPT !.pc = pc, !.ret = ret, !.item = item])
             /\ moved([th[t] EXCEPT !.mem = TRUE, !.pc = pc])
  BY DEF ThreadState
<1> HIDE DEF moved
<1>6. CASE NotifyRead(t) \/ NotifyDest(t) \/ NotifySent(t)
  <2>1. th[t].ret \in onward
    BY <1>6 DEF NotifyRead, NotifyDest, NotifySent, At, ReturnsToCaller
  <2>2. CASE NotifyRead(t)
    BY <1>4, <1>5, <2>1, <2>2 DEF NotifyRead
  <2>3. CASE NotifyDest(t)
    BY <1>4, <1>5, <2>1, <2>3 DEF NotifyDest
  <2>4. CASE NotifySent(t)
    BY <1>4, <1>5, <2>1, <2>4 DEF NotifySent
  <2> QED BY <1>6, <2>2, <2>3, <2>4
<1>7. CASE dispatching(t)
  BY <1>4, <1>5, <1>7 DEF dispatching
<1>8. CASE clasForBundle(t)
  BY <1>4, <1>5, <1>8 DEF clasForBundle
<1>9. CASE SetPending(t)
  <2>1. SetThread(t, Finished(th[t]))
    BY <1>9 DEF SetPending, Done
  <2>2. th[t].item \in BundleItem
    BY LocalType DEF IndInv
  <2>3. Settled(b)'
    BY <1>9, <2>2 DEF SetPending, StoreUpdate, Settled, BundleItem
  <2> QED BY <2>1, <2>3, EndMark
<1>10. CASE LoadBundle(t)
  <2>1. CASE ~th[t].mem /\ ~store[b].known
    <3>1. SetThread(t, Finished(th[t])) /\ store' = store
      BY <1>10, <2>1 DEF LoadBundle
    <3>2. Settled(b)'
      BY <2>1, <3>1 DEF Settled
    <3> QED BY <3>1, <3>2, EndMark
  <2>2. CASE ~(~th[t].mem /\ ~store[b].known)
    BY <1>4, <1>5, <1>10, <2>2 DEF LoadBundle
  <2> QED BY <2>1, <2>2
<1> QED BY <1>6, <1>7, <1>8, <1>9, <1>10

(* Core.forward and the goroutines it starts *)
LEMMA ForwardMarks ==
  ASSUME IndInv, MarkInv, NEW t \in Thread,
         \/ forward(t) \/ ForwardExceeded(t) \/ senderForDestination(t)
         \/ SenderForBundle(t) \/ UpdateSent(t) \/ AfterSending(t)
         \/ \E p \in Peer : \/ ReportFailureRead(t, p) \/ ReportFailureUpdate(t, p)
                            \/ SendOk(t, p) \/ SendFail(t, p)
  PROVE  MarkInv'
<1>1. PICK b \in Bundle : b = th[t].b
  BY LocalType DEF IndInv
<1>2. /\ UNCHANGED <<rx, crashes, accepted>> /\ th[t].pc \notin {"idle", "next"}
      /\ th[t] \in ThreadState /\ store \in [Bundle -> BundleItem]
  BY LocalType DEF IndInv, TypeOK, forward, ForwardExceeded, senderForDestination,
     SenderForBundle, UpdateSent, AfterSending, ReportFailureRead, ReportFailureUpdate,
     SendOk, SendFail, At, env, history
<1>3. \A c \in Bundle : c # b => store'[c] = store[c]
  BY <1>1, <1>2 DEF forward, ForwardExceeded, senderForDestination, SenderForBundle, UpdateSent,
     AfterSending, ReportFailureRead, ReportFailureUpdate, SendOk, SendFail, StoreUpdate, history
<1> USE <1>1, <1>2, <1>3
<1> DEFINE onward == {"senderForBundle", "updateSent", "sending"}
           moved(q) == q.todo = th[t].todo /\ q.b = b /\ q.pc \in onward
<1>4. ASSUME NEW q, SetThread(t, q), moved(q), fate' = fate PROVE MarkInv'
  BY <1>4, GoesOn
<1>5. ASSUME NEW pc \in onward, NEW item, NEW d
      PROVE  /\ moved([th[t] EXCEPT !.pc = pc])
             /\ moved([th[t] EXCEPT !.pc = pc, !.item = item])
             /\ moved([th[t] EXCEPT !.pc = pc, !.del = d, !.ok = FALSE, !.item = item])
  BY DEF ThreadState
<1>6. th[t].pc = "sending" => moved(th[t]) /\ moved([th[t] EXCEPT !.ok = TRUE])
  BY DEF ThreadState
<1> HIDE DEF moved
<1>7. CASE forward(t)
  BY <1>7, SyncMark DEF forward, history
<1>8. CASE ForwardExceeded(t)
  BY <1>8, SettleMark DEF ForwardExceeded, bundleDeletion
<1>9. CASE senderForDestination(t)
  BY <1>4, <1>5, <1>9 DEF senderForDestination, StartSending, Goto, history
<1>10. CASE SenderForBundle(t)
  BY <1>4, <1>5, <1>10 DEF SenderForBundle, StartSending, history
<1>11. CASE UpdateSent(t)
  BY <1>4, <1>5, <1>11 DEF UpdateSent, history
<1>12. CASE AfterSending(t)
  <2>1. CASE th[t].ok /\ th[t].del
    BY <1>12, <2>1, SettleMark DEF AfterSending
  <2>2. CASE ~(th[t].ok /\ th[t].del)
    <3>1. PICK ret \in {"inspect", "done"} :
             Sync(t, th[t].cons \cup {"Contraindicated"}, ret) /\ UNCHANGED <<store, fate>>
      BY <1>12, <2>2 DEF AfterSending
    <3>2. IsPending(th[t].cons \cup {"Contraindicated"})
      BY DEF IsPending
    <3> QED BY <3>1, <3>2, SyncMark
  <2> QED BY <2>1, <2>2
<1>13. ASSUME NEW p \in Peer, \/ ReportFailureRead(t, p) \/ ReportFailureUpdate(t, p)
                              \/ SendOk(t, p) \/ SendFail(t, p)
       PROVE  MarkInv'
  <2>1. th[t].pc = "sending" /\ fate' = fate
    BY <1>13 DEF ReportFailureRead, ReportFailureUpdate, SendOk, SendFail, At, history
  <2>2. CASE SendOk(t, p)
    BY <1>4, <1>6, <2>1, <2>2 DEF SendOk
  <2>3. CASE th' = th
    <3>1. SetThread(t, th[t])
      BY <2>3 DEF SetThread, IndInv, TypeOK
    <3> QED BY <1>4, <1>6, <2>1, <3>1
  <2> QED BY <1>13, <2>2, <2>3 DEF ReportFailureRead, ReportFailureUpdate, SendFail
<1> QED BY <1>7, <1>8, <1>9, <1>10, <1>11, <1>12, <1>13

(* Local delivery and the inspection of administrative records *)
LEMMA DeliveryMarks ==
  ASSUME IndInv, MarkInv, NEW t \in Thread,
         \/ localDelivery(t) \/ LocalSync(t) \/ Deliver(t) \/ HandOver(t) \/ FinishLocal(t)
         \/ Inspect(t)
  PROVE  MarkInv'
<1>1. PICK b \in Bundle : b = th[t].b
  BY LocalType DEF IndInv
<1>2. /\ UNCHANGED <<rx, crashes, accepted>> /\ th[t].pc \notin {"idle", "next"}
      /\ th[t] \in ThreadState
  BY LocalType DEF IndInv, localDelivery, LocalSync, Deliver, HandOver, FinishLocal, Inspect,
     At, env, history
<1>3. InspectStatusReport(t) => \A c \in Bundle : /\ fate[c] \subseteq fate'[c]
                                                  /\ store'[c] = store[c] \/ store'[c] = NoItem
  BY DEF InspectStatusReport
<1> USE <1>1, <1>2
<1> DEFINE at(pc) == [th[t] EXCEPT !.pc = pc]
<1>4. ASSUME NEW pc \in {"localSync", "finishLocal"}, Goto(t, pc),
             \A c \in Bundle : /\ fate[c] \subseteq fate'[c]
                               /\ store'[c] = store[c] \/ store'[c] = NoItem
      PROVE  MarkInv'
  <2>1. at(pc).todo = th[t].todo /\ at(pc).b = b /\ at(pc).pc = pc
    BY DEF ThreadState
  <2>2. SetThread(t, at(pc))
    BY <1>4 DEF Goto
  <2> HIDE DEF at
  <2> QED BY <1>4, <2>1, <2>2, GoesOn
<1>5. CASE localDelivery(t)
  <2>1. CASE bundleDeletion(t) /\ UNCHANGED store
    BY <2>1, SettleMark DEF bundleDeletion
  <2>2. CASE InspectStatusReport(t) /\ Goto(t, "localSync")
    BY <1>3, <1>4, <2>2
  <2>3. CASE Goto(t, "localSync") /\ UNCHANGED <<store, fate>>
    BY <1>4, <2>3
  <2> QED BY <1>5, <2>1, <2>2, <2>3 DEF localDelivery
<1>6. CASE LocalSync(t)
  BY <1>6, SyncMark DEF LocalSync, history
<1>7. CASE Deliver(t)
  <2>1. UNCHANGED <<store, fate>>
    BY <1>7 DEF Deliver, history
  <2>2. CASE AgentHasEndpoint(b)
    BY <1>7, <2>1, <2>2, SyncMark DEF Deliver
  <2>3. CASE ~AgentHasEndpoint(b)
    BY <1>4, <1>7, <2>1, <2>3 DEF Deliver
  <2> QED BY <2>2, <2>3
<1>8. CASE HandOver(t)
  <2>1. \A c \in Bundle : fate[c] \subseteq fate'[c]
    BY <1>8 DEF HandOver, Settle, IndInv, TypeOK
  <2> QED BY <1>4, <1>8, <2>1 DEF HandOver
<1>9. CASE FinishLocal(t)
  <2>1. CASE "LocalEndpoint" \notin th[t].cons
    BY <1>9, <2>1, SettleMark DEF FinishLocal
  <2>2. CASE "LocalEndpoint" \in th[t].cons
    <3>1. PurgeConstraints(th[t].cons) = {"LocalEndpoint"}
      BY <2>2 DEF PurgeConstraints
    <3>2. Sync(t, {"LocalEndpoint"}, "done") /\ UNCHANGED <<store, fate>>
      BY <1>9, <2>2, <3>1 DEF FinishLocal
    <3> QED BY <3>2, SyncMark
  <2> QED BY <2>1, <2>2
<1>10. CASE Inspect(t)
  <2>1. SetThread(t, Finished(th[t])) /\ ~Active(th[t])
    BY <1>10 DEF Inspect, Done, At, Active, Passive
  <2>2. \A c \in Bundle : /\ fate[c] \subseteq fate'[c]
                          /\ store'[c] = store[c] \/ store'[c] = NoItem
    BY <1>3, <1>10 DEF Inspect
  <2>3. Settled(b)' \/ store'[b] = store[b]
    BY <2>2 DEF Settled, NoItem
  <2> QED BY <2>1, <2>2, <2>3, EndMark
<1> QED BY <1>5, <1>6, <1>7, <1>8, <1>9, <1>10

(* A goroutine that was not working takes up work *)
LEMMA StartFrame ==
  ASSUME IndInv, MarkInv, UNCHANGED <<store, fate, crashes>>, rx' \in [Bundle -> Nat],
         accepted \subseteq accepted', \A c \in Bundle : rx[c] =< rx'[c],
         \A c \in accepted' : Header[c].own \/ rx'[c] > 0,
         NEW t \in Thread, th[t].pc \in {"idle", "next"}, NEW r, SetThread(t, r),
         WorksOnAccepted(r, accepted'), EndsMarked(r, fate),
         Receiving(r) /\ r.cons # {} => Repeated(r.b)'
  PROVE  MarkInv'
<1>1. /\ th'[t] = r
      /\ \A u \in Thread : u # t => th'[u] = th[u]
  BY DEF SetThread, IndInv, TypeOK
<1>2. \A c \in Bundle : Repeated(c) => Repeated(c)'
  BY DEF Repeated, IndInv, TypeOK
<1>3. \A c \in Bundle : c \in accepted' \/ store'[c] = NoItem
  BY DEF MarkInv
<1>4. ASSUME NEW u \in Thread
      PROVE  WorksOnAccepted(th'[u], accepted') /\ EndsMarked(th'[u], fate') /\ RepeatedKnown(th[u])'
  <2>1. CASE u = t
    <3>1. RepeatedKnown(th[u])'
      BY <1>1, <2>1 DEF RepeatedKnown, Repeated
    <3> QED BY <1>1, <2>1, <3>1
  <2>2. CASE u # t
    <3>1. th'[u] = th[u] /\ th[u].b \in Bundle
      BY <1>1, <2>2, LocalType DEF IndInv
    <3>2. WorksOnAccepted(th[u], accepted) /\ EndsMarked(th[u], fate) /\ RepeatedKnown(th[u])
      BY DEF MarkInv
    <3>3. WorksOnAccepted(th[u], accepted')
      BY <3>2 DEF WorksOnAccepted
    <3>4. RepeatedKnown(th[u])'
      <4>1. Repeated(th[u].b) => Repeated(th[u].b)'
        BY <1>2, <3>1 DEF Repeated
      <4> QED BY <3>1, <3>2, <4>1 DEF RepeatedKnown
    <3> QED BY <3>1, <3>2, <3>3, <3>4
  <2> QED BY <2>1, <2>2
<1>5. ASSUME NEW c \in Bundle PROVE Marked(c)'
  <2> SUFFICES ASSUME crashes = 0, ~Settled(c)'
               PROVE  \E u \in Thread : th'[u].b = c /\ Active(th'[u])
    BY DEF Marked
  <2>1. ~Settled(c)
    BY <1>2 DEF Settled
  <2>2. PICK u \in Thread : th[u].b = c /\ Active(th[u])
    BY <2>1 DEF MarkInv, Marked
  <2>3. u # t
    BY <2>2 DEF Active
  <2> QED BY <1>1, <2>2, <2>3
<1> QED BY <1>3, <1>4, <1>5 DEF MarkInv

(* checkPendingBundles takes its next bundle *)
LEMMA RetryMarks ==
  ASSUME IndInv, MarkInv, NEW t \in Thread, NEW c \in Bundle, NextPending(t, c)
  PROVE  MarkInv'
<1> DEFINE r == [Idle EXCEPT !.pc = "dispatching", !.b = c, !.cons = store[c].cons,
                             !.todo = th[t].todo \ {c}]
<1>1. /\ SetThread(t, r) /\ UNCHANGED <<store, accepted, fate, rx, crashes>> /\ th[t].pc = "next"
      /\ c \in th[t].todo
  BY DEF NextPending, At, env, history
<1>2. r.pc = "dispatching" /\ r.b = c /\ r.todo = th[t].todo \ {c}
  BY DEF Idle
<1> HIDE DEF r
<1>3. WorksOnAccepted(r, accepted') /\ EndsMarked(r, fate) /\ ~Receiving(r)
  BY <1>1, <1>2 DEF MarkInv, WorksOnAccepted, EndsMarked, Receiving
<1>4. rx \in [Bundle -> Nat] /\ \A b \in accepted : Header[b].own \/ rx[b] > 0
  BY DEF IndInv, TypeOK, MarkInv
<1> QED BY <1>1, <1>3, <1>4, StartFrame

(* Waiting goroutines start *)
LEMMA StartMarks == ASSUME IndInv, MarkInv, TypeOK', Start PROVE MarkInv'
<1>0. /\ rx \in [Bundle -> Nat] /\ rx' \in [Bundle -> Nat]
      /\ \A b \in accepted : b \in Bundle /\ (Header[b].own \/ rx[b] > 0)
  BY DEF IndInv, TypeOK, MarkInv
<1>1. ASSUME NEW t \in Thread, CheckPending(t), rx' = rx, crashes' = crashes PROVE MarkInv'
  <2> DEFINE pending == {b \in Bundle : store[b].pending}
             q == [Idle EXCEPT !.todo = pending]
             r == Finished(q)
  <2>1. /\ SetThread(t, r) /\ UNCHANGED <<store, accepted, fate>> /\ th[t].pc = "idle"
    BY <1>1 DEF CheckPending, At, history
  <2>2. q.todo = pending
    BY DEF Idle
  <2>3. r.todo = pending /\ r.pc \in {"idle", "next"}
    BY <2>2 DEF Finished, Idle
  <2>4. pending \subseteq accepted
    BY DEF MarkInv, NoItem
  <2> HIDE DEF r, pending
  <2>5. WorksOnAccepted(r, accepted') /\ EndsMarked(r, fate) /\ ~Receiving(r)
    BY <2>1, <2>3, <2>4 DEF WorksOnAccepted, EndsMarked, Receiving
  <2> QED BY <1>0, <1>1, <2>1, <2>5, StartFrame
<1>2. ASSUME NEW t \in Thread, NEW b \in Bundle, NEW prev, NEW pc \in {"recvSync1", "sendSync1"},
             Begin(t, b, prev, pc), crashes' = crashes,
             \/ pc = "sendSync1" /\ rx' = rx /\ Header[b].own
             \/ rx' = [rx EXCEPT ![b] = @ + 1]
      PROVE  MarkInv'
  <2>1. accepted' = accepted \cup {b} /\ UNCHANGED <<store, fate>> /\ th[t].pc = "idle"
    BY <1>2 DEF Begin, At
  <2>2. PICK r : SetThread(t, r) /\ r.b = b /\ r.pc = pc /\ r.cons = store[b].cons /\ r.todo = {}
    <3> DEFINE q == [Idle EXCEPT !.pc = pc, !.b = b, !.mem = TRUE, !.prev = prev, !.cons = store[b].cons]
    <3>1. q.b = b /\ q.pc = pc /\ q.cons = store[b].cons /\ q.todo = {}
      BY DEF Idle
    <3>2. SetThread(t, q)
      BY <1>2 DEF Begin
    <3> HIDE DEF q
    <3> QED BY <3>1, <3>2
  <2>3. WorksOnAccepted(r, accepted') /\ EndsMarked(r, fate)
    BY <2>1, <2>2 DEF WorksOnAccepted, EndsMarked
  <2>4. \A c \in Bundle : rx[c] =< rx'[c]
    BY <1>0, <1>2
  <2>5. \A c \in accepted' : Header[c].own \/ rx'[c] > 0
    <3> SUFFICES ASSUME NEW c \in accepted', ~Header[c].own PROVE rx'[c] > 0
      OBVIOUS
    <3>1. CASE c = b
      BY <1>0, <1>2, <3>1
    <3>2. CASE c # b
      BY <1>0, <2>1, <2>4, <3>2
    <3> QED BY <3>1, <3>2
  <2>6. ASSUME Receiving(r), r.cons # {} PROVE Repeated(r.b)'
    <3>1. rx'[b] = rx[b] + 1
      BY <1>0, <1>2, <2>2, <2>6 DEF Receiving
    <3>2. b \in accepted
      BY <2>2, <2>6 DEF MarkInv, NoItem
    <3>3. Header[b].own \/ rx[b] > 0
      BY <1>0, <3>2
    <3>4. Repeated(b)'
      BY <1>0, <3>1, <3>3 DEF Repeated
    <3> QED BY <2>2, <3>4
  <2> QED BY <1>0, <1>2, <2>1, <2>2, <2>3, <2>4, <2>5, <2>6, StartFrame
<1>3. ASSUME NEW t \in Thread, NEW p \in Peer, PeerAppeared(t, p) PROVE MarkInv'
  BY <1>1, <1>3 DEF PeerAppeared
<1>4. ASSUME NEW t \in Thread, Cron(t) PROVE MarkInv'
  BY <1>1, <1>4 DEF Cron, env
<1>5. ASSUME NEW t \in Thread, NEW p \in Peer, NEW b \in Bundle, ReceivedBundle(t, b, p) PROVE MarkInv'
  BY <1>2, <1>5 DEF ReceivedBundle, Begin
<1>6. ASSUME NEW t \in Thread, NEW b \in Bundle, SendBundle(t, b) PROVE MarkInv'
  BY <1>2, <1>6 DEF SendBundle, Begin
<1> QED BY <1>3, <1>4, <1>5, <1>6 DEF Start, Thread

(* Expiry settles a bundle; after a crash there may be unmarked ones *)
LEMMA EnvironmentMarks == ASSUME IndInv, MarkInv, Environment PROVE MarkInv'
<1>1. CASE UNCHANGED <<store, th, accepted, fate, rx, crashes>>
  BY <1>1 DEF MarkInv, Marked, Settled, Repeated, RepeatedKnown
<1>2. ASSUME NEW b \in Bundle, DeleteExpired(b) PROVE MarkInv'
  <2>1. /\ store' = [store EXCEPT ![b] = NoItem] /\ fate' = [fate EXCEPT ![b] = @ \cup {"expired"}]
        /\ UNCHANGED <<th, accepted, rx, crashes>>
    BY <1>2 DEF DeleteExpired, StoreDelete, Settle, env
  <2>2. /\ \A c \in Bundle : fate[c] \subseteq fate'[c]
        /\ fate'[b] # {}
        /\ \A c \in Bundle : c # b => store'[c] = store[c]
        /\ store'[b] = NoItem
    BY <2>1 DEF IndInv, TypeOK
  <2>3. \A t \in Thread : EndsMarked(th'[t], fate')
    BY <2>1, <2>2, LocalType DEF MarkInv, EndsMarked, IndInv
  <2>4. \A c \in Bundle : Marked(c)'
    BY <2>1, <2>2 DEF MarkInv, Marked, Settled, Repeated
  <2> QED BY <2>1, <2>2, <2>3, <2>4 DEF MarkInv, RepeatedKnown, Repeated
<1>3. CASE Crash
  <2>1. /\ UNCHANGED <<store, accepted, rx>> /\ crashes' # 0 /\ \A t \in Thread : th'[t] = Idle
    BY <1>3 DEF Crash, IndInv, TypeOK
  <2>2. Idle.pc = "idle" /\ Idle.todo = {}
    BY DEF Idle
  <2>3. \A t \in Thread : /\ WorksOnAccepted(th'[t], accepted')
                          /\ EndsMarked(th'[t], fate')
                          /\ RepeatedKnown(th[t])'
    BY <2>1, <2>2 DEF WorksOnAccepted, EndsMarked, RepeatedKnown, Receiving
  <2> QED BY <2>1, <2>3 DEF MarkInv, Marked
<1> QED BY <1>1, <1>2, <1>3 DEF Environment, PeerUp, PeerDown, AgentChange, Expire, history

(* Nothing is marked or worked on initially *)
LEMMA InitMarks == Init => MarkInv
<1> SUFFICES ASSUME Init PROVE MarkInv
  OBVIOUS
<1>1. Idle.pc = "idle" /\ Idle.todo = {}
  BY DEF Idle
<1>2. \A t \in Thread : WorksOnAccepted(th[t], accepted) /\ EndsMarked(th[t], fate) /\ RepeatedKnown(th[t])
  BY <1>1 DEF Init, WorksOnAccepted, EndsMarked, RepeatedKnown, Receiving
<1>3. \A b \in Bundle : Marked(b)
  BY DEF Init, Marked, Settled, NoItem
<1> QED BY <1>2, <1>3 DEF Init, MarkInv

(* Every step keeps the invariant *)
LEMMA NextMarks == IndInv /\ MarkInv /\ [Next]_vars => MarkInv'
<1> SUFFICES ASSUME IndInv, MarkInv, [Next]_vars PROVE MarkInv'
  OBVIOUS
<1>1. TypeOK'
  BY NextType DEF IndInv
<1>2. CASE UNCHANGED vars
  BY <1>2 DEF vars, MarkInv, Marked, Settled, Repeated, RepeatedKnown
<1>3. ASSUME NEW t \in Thread, Step(t) PROVE MarkInv'
  BY <1>3, SyncMarks, ReceptionMarks, RoutingMarks, ForwardMarks, DeliveryMarks, RetryMarks DEF Step
<1>4. ASSUME NEW t \in Thread, Sending(t) PROVE MarkInv'
  BY <1>4, ForwardMarks DEF Sending
<1> QED BY <1>1, <1>2, <1>3, <1>4, StartMarks, EnvironmentMarks DEF Next

(* Whenever all goroutines are through with a bundle nobody decided about, *)
(* checkPendingBundles will find it, or it waits for its local endpoint,   *)
(* or a repeated reception has unmarked it: no interleaving of receptions, *)
(* submissions, retries and transmissions leaves any other bundle behind.  *)
THEOREM FoundAgain == Spec => []NotStranded
<1>1. IndInv /\ MarkInv => NotStranded
  <2> SUFFICES ASSUME IndInv, MarkInv, NEW b \in accepted, Quiet(b), fate[b] = {}, crashes = 0
               PROVE  \/ store[b].pending
                      \/ store[b].cons = {"LocalEndpoint"}
                      \/ Repeated(b) /\ "DispatchPending" \in store[b].cons
    BY DEF NotStranded
  <2>1. b \in Bundle
    BY DEF IndInv, TypeOK
  <2>2. \A u \in Thread : ~(th[u].b = b /\ Active(th[u]))
    BY DEF Quiet, Active
  <2>3. store[b].known
    BY <2>2, VouchersMark DEF IndInv, NoSilentLoss, Vouches
  <2> QED BY <2>1, <2>2, <2>3 DEF MarkInv, Marked, Settled
<1> QED BY <1>1, InitInv, NextInv, InitMarks, NextMarks, PTL DEF Spec

-----------------------------------------------------------------------------
(* The node whose goroutines never overlap *)

Working(r) == r.pc \notin {"idle", "next"}

(* At most one goroutine has something to do; it alone sends.  Nothing is  *)
(* kept of a bundle that is not in the store, or was never accepted.       *)
Sole ==
    /\ \A t, u \in Thread : th[t].pc # "idle" /\ th[u].pc # "idle" => t = u
    /\ \A t \in Thread : th[t].pc = "idle" => th[t].todo = {}
    /\ \A t \in Thread : Working(th[t]) =>
          th[t].prev \subseteq from[th[t].b] /\ th[t].b \notin th[t].todo
    /\ \A t \in Thread, p \in Peer :
          go[t][p].st # "none" => th[t].pc \in {"updateSent", "sending"}
    /\ \A b \in Bundle : ~store[b].known => store[b] = NoItem
    /\ \A b \in Bundle \ accepted : fate[b] = {} /\ got[b] = {} /\ from[b] = {}

(* The peers that have b, and those a goroutine is sending to *)
Holders(b) == got[b] \cup from[b]
Flying(g) == {p \in Peer : g[p].st # "none"}

(* SentIsTrue, for the goroutine r that works on the bundle with the item  *)
(* s: neither the item, nor what will be written, names other peers than   *)
(* those in h, and those it is sending to.                                 *)
TrueAt(r, s, h, g) ==
    /\ s.sent \subseteq h \cup Flying(g)
    /\ r.pc # "sending" => r.item.sent \subseteq h \cup Flying(g)
    /\ \A q \in Peer : g[q].st = "update" => g[q].item.sent \subseteq h \cup Flying(g)

(* NoResend.  Before NotifyNewBundle is through, the peers h that have the *)
(* bundle are the one it came from; afterwards they are in the sent list.  *)
Early(r) ==
    \/ r.pc \in {"recvSync1", "recvSync2", "receive", "blocks", "sendSync1", "sendNotify",
                 "notify", "notifyDest", "notifySent"}
    \/ r.pc = "sync" /\ r.ret \in {"recvSync2", "receive", "blocks", "sendNotify"}

OnWay(r) ==
    \/ r.pc \in {"transmit", "srcCheck", "dispatching", "clasForBundle", "setPending", "bundle",
                 "forward", "checks", "localDelivery", "localSync", "deliver"}
    \/ r.pc = "sync" /\ r.ret \in {"srcCheck", "checks", "deliver", "handOver"}

EarlyKept(r, s, h, x) ==
    /\ h \subseteq r.prev /\ r.mem
    /\ ~s.pending /\ ~r.item.pending /\ ~IsPending(r.cons)
    /\ r.pc = "sendSync1" => ~s.known
    /\ r.pc = "sync" /\ r.ret = "sendNotify" => ~r.item.known
    /\ r.pc = "sync" /\ r.ret = "blocks" => r.cons # {}
    /\ ~x => /\ r.pc \in {"blocks", "sendNotify", "notify", "notifyDest", "notifySent"} => s.known
             /\ r.pc = "sync" /\ r.ret = "blocks" /\ r.item.known => s.known
             /\ r.pc \in {"notifyDest", "notifySent"} => s.sent = r.item.sent

OnWayKept(r, s, h) ==
    /\ s.known => h \subseteq s.sent
    /\ r.item.known => h \subseteq r.item.sent
    /\ r.mem => s.known
    /\ r.pc \notin {"dispatching", "clasForBundle", "setPending", "bundle"} => r.mem
    /\ r.pc = "sync" /\ r.ret # "handOver" => r.item.known /\ r.cons # {}

SendingKept(r, s, h, g, d) ==
    /\ r.pc = "senderForBundle" /\ s.known => h \subseteq s.sent
    /\ r.pc = "updateSent" => h \cup (Flying(g) \ d) \subseteq r.item.sent
    /\ r.pc = "sending" /\ s.known => h \cup (Flying(g) \ d) \subseteq s.sent
    /\ r.pc = "sync" /\ r.ret \in {"done", "inspect"} /\ IsPending(r.cons) /\ r.item.known
          => h \subseteq r.item.sent
    /\ (Flying(g) \ d) \cap h = {}
    /\ \A q \in Peer : g[q].st = "update" => h \cup (Flying(g) \ d) \subseteq g[q].item.sent

KeptAt(r, s, h, g, d, x) ==
    /\ s.pending /\ ~x => h \subseteq s.sent
    /\ Early(r) => EarlyKept(r, s, h, x)
    /\ OnWay(r) /\ ~x => OnWayKept(r, s, h)
    /\ SendingKept(r, s, h, g, d)

(* SettledIsGone.  LocalEndpoint, which would keep a bundle's item, is not *)
(* among the constraints until its delivery begins.                        *)
Over(f) == f # {} /\ f \subseteq {"forwarded", "deleted"}

Front(r) == /\ r.pc \notin {"deliver", "handOver", "finishLocal"}
            /\ r.pc = "sync" => r.ret \notin {"deliver", "handOver", "done"}

GoneAt(r, s, f, g) ==
    /\ Over(f) => \/ /\ r.pc = "sync" /\ r.ret = "done"
                     /\ r.cons = {} /\ r.item.known
                  \/ /\ r.pc \in {"dispatching", "bundle"}
                     /\ ~s.known /\ ~r.mem
    /\ Front(r) => "LocalEndpoint" \notin r.cons \cup r.item.cons \cup s.cons
    /\ r.pc = "sync" /\ r.ret = "done" /\ IsPending(r.cons) => "LocalEndpoint" \notin r.cons
    /\ r.pc = "sync" /\ ~r.item.known => ~s.known
    /\ \A q \in Peer : g[q].st = "update" => "LocalEndpoint" \notin g[q].item.cons

(* What NoResend leaves out *)
Calm(b) == ~Repeated(b) /\ "reported" \notin fate[b]
Others(b) == Holders(b) \ {Header[b].dest}

(* A bundle a goroutine works on *)
WorkAt(t) ==
    LET r == th[t]
        b == r.b
    IN  /\ crashes = 0 /\ fate[b] = {} => TrueAt(r, store[b], Holders(b), go[t])
        /\ Calm(b) => KeptAt(r, store[b], Others(b), go[t], {Header[b].dest}, b \in expired)
        /\ crashes = 0 /\ ~Repeated(b) => GoneAt(r, store[b], fate[b], go[t])

(* A bundle at rest *)
RestAt(b) ==
    /\ crashes = 0 /\ fate[b] = {} => store[b].sent \subseteq Holders(b)
    /\ Calm(b) /\ b \notin expired /\ store[b].pending => Others(b) \subseteq store[b].sent
    /\ crashes = 0 /\ ~Repeated(b) =>
          /\ store[b].known => ~Over(fate[b])
          /\ store[b].pending => "LocalEndpoint" \notin store[b].cons

(* A bundle a pass of checkPendingBundles has still to look at *)
TodoAt(b) ==
    /\ Calm(b) /\ b \notin expired /\ store[b].known => Others(b) \subseteq store[b].sent
    /\ crashes = 0 /\ ~Repeated(b) => "LocalEndpoint" \notin store[b].cons

SerialInv ==
    /\ Sole /\ Alone
    /\ \A b \in Bundle : Quiet(b) => RestAt(b)
    /\ \A t \in Thread : Working(th[t]) => WorkAt(t)
    /\ \A t \in Thread : \A b \in th[t].todo : TodoAt(b)

-----------------------------------------------------------------------------
(* Frames *)

(* What the invariant says about the bundle a goroutine works on *)
LEMMA WorkFacts ==
  ASSUME SerialInv, NEW t \in Thread, NEW b \in Bundle, b = th[t].b, Working(th[t])
  PROVE  /\ crashes = 0 /\ fate[b] = {} => TrueAt(th[t], store[b], Holders(b), go[t])
         /\ Calm(b) => KeptAt(th[t], store[b], Others(b), go[t], {Header[b].dest}, b \in expired)
         /\ crashes = 0 /\ ~Repeated(b) => GoneAt(th[t], store[b], fate[b], go[t])
         /\ \A u \in Thread : u # t => th[u].pc = "idle" /\ th[u].todo = {}
         /\ th[t].prev \subseteq from[b] /\ b \notin th[t].todo
         /\ ~store[b].known => store[b] = NoItem
         /\ th[t].pc \notin {"updateSent", "sending"} => \A p \in Peer : go[t][p].st = "none"
<1>1. WorkAt(t)
  BY DEF SerialInv
<1>2. /\ crashes = 0 /\ fate[b] = {} => TrueAt(th[t], store[b], Holders(b), go[t])
      /\ Calm(b) => KeptAt(th[t], store[b], Others(b), go[t], {Header[b].dest}, b \in expired)
      /\ crashes = 0 /\ ~Repeated(b) => GoneAt(th[t], store[b], fate[b], go[t])
  BY <1>1 DEF WorkAt
<1>3. Sole /\ th[t].pc # "idle"
  BY DEF SerialInv, Working
<1>4. \A u \in Thread : u # t => th[u].pc = "idle" /\ th[u].todo = {}
  BY <1>3 DEF Sole
<1>5. /\ th[t].prev \subseteq from[b] /\ b \notin th[t].todo
      /\ ~store[b].known => store[b] = NoItem
      /\ th[t].pc \notin {"updateSent", "sending"} => \A p \in Peer : go[t][p].st = "none"
  BY <1>3 DEF Sole
<1> QED BY <1>2, <1>4, <1>5

(* A bundle without a decision, which its only goroutine does not vouch    *)
(* for, is in the store.                                                   *)
LEMMA KnownAtWork ==
  ASSUME IndInv, MarkInv, SerialInv, NEW t \in Thread, NEW b \in Bundle, b = th[t].b,
         Working(th[t]), ~Vouching(th[t]), fate[b] = {}
  PROVE  store[b].known
<1>1. \A u \in Thread : u # t => th[u].pc = "idle"
  BY WorkFacts
<1>2. \A u \in Thread : ~Vouches(u, b)
  BY <1>1 DEF Vouches, Vouching, InReception, InSubmission, InDelivery
<1>3. b \in accepted
  BY DEF MarkInv, WorksOnAccepted, Working
<1> QED BY <1>2, <1>3 DEF IndInv, NoSilentLoss

(* A bundle whose state a step leaves alone, or that a status report has   *)
(* deleted, keeps what the invariant says of it.                           *)
LEMMA RestFrame ==
  ASSUME NEW c \in Bundle, UNCHANGED <<expired, rx, crashes, from>>, got'[c] = got[c],
         \/ store'[c] = store[c] /\ fate'[c] = fate[c]
         \/ store'[c] = NoItem /\ "reported" \in fate'[c]
  PROVE  (RestAt(c) => RestAt(c)') /\ (TodoAt(c) => TodoAt(c)')
<1>1. Repeated(c)' = Repeated(c) /\ Others(c)' = Others(c) /\ Holders(c)' = Holders(c)
  BY DEF Repeated, Others, Holders
<1>2. CASE store'[c] = store[c] /\ fate'[c] = fate[c]
  <2>1. Calm(c)' = Calm(c)
    BY <1>1, <1>2 DEF Calm
  <2> QED BY <1>1, <1>2, <2>1 DEF RestAt, TodoAt
<1>3. CASE store'[c] = NoItem /\ "reported" \in fate'[c]
  <2>1. ~Calm(c)' /\ ~Over(fate'[c])
    BY <1>3 DEF Calm, Over
  <2>2. store'[c].sent = {} /\ store'[c].cons = {}
    BY <1>3 DEF NoItem
  <2> QED BY <2>1, <2>2 DEF RestAt, TodoAt
<1> QED BY <1>2, <1>3

(* A step of the goroutine t that works on b keeps the invariant if what   *)
(* it says of b is kept, be it that t goes on or that it is through.       *)
LEMMA WorkFrame ==
  ASSUME IndInv, MarkInv, SerialInv, TypeOK', Alone',
         UNCHANGED <<expired, rx, crashes, accepted, from>>,
         NEW t \in Thread, NEW b \in Bundle, b = th[t].b, Working(th[t]),
         \A c \in Bundle : c # b =>
             /\ got'[c] = got[c]
             /\ \/ store'[c] = store[c] /\ fate'[c] = fate[c]
                \/ store[c].known /\ store'[c] = NoItem /\ "reported" \in fate'[c],
         \A u \in Thread : u # t => go'[u] = go[u],
         ~store'[b].known => store'[b] = NoItem,
         NEW r, SetThread(t, r), r.todo = th[t].todo,
         \A p \in Peer : go'[t][p].st # "none" => r.pc \in {"updateSent", "sending"},
         \/ /\ Working(r) /\ r.b = b /\ r.prev = th[t].prev
            /\ crashes = 0 /\ fate'[b] = {} => TrueAt(r, store'[b], Holders(b)', go'[t])
            /\ Calm(b)' => KeptAt(r, store'[b], Others(b)', go'[t], {Header[b].dest}, b \in expired)
            /\ crashes = 0 /\ ~Repeated(b) => GoneAt(r, store'[b], fate'[b], go'[t])
         \/ r = Finished(th[t]) /\ RestAt(b)'
  PROVE  SerialInv'
<1>1. /\ th'[t] = r
      /\ \A u \in Thread : u # t => th'[u] = th[u]
  BY DEF IndInv, TypeOK, SetThread
<1>2. /\ \A u \in Thread : u # t => th[u].pc = "idle" /\ th[u].todo = {}
      /\ th[t].prev \subseteq from[b] /\ b \notin th[t].todo
      /\ th[t].pc \notin {"idle", "next"}
  BY WorkFacts DEF Working
<1>3. b \in accepted /\ \A c \in Bundle \ accepted : store[c] = NoItem
  BY <1>2 DEF MarkInv, WorksOnAccepted
<1>4. Sole /\ \A c \in Bundle : Quiet(c) => RestAt(c)
  BY DEF SerialInv
<1>5. r = Finished(th[t]) => /\ r.pc \in {"idle", "next"}
                             /\ r.pc = "idle" => r.todo = {}
  BY DEF Finished, Idle
<1>6. Working(r) => r.pc # "idle" /\ r.pc # "next"
  BY DEF Working
<1>7. Sole'
  <2>1. \A u, v \in Thread : th'[u].pc # "idle" /\ th'[v].pc # "idle" => u = v
    BY <1>1, <1>2
  <2>2. \A u \in Thread : th'[u].pc = "idle" => th'[u].todo = {}
    BY <1>1, <1>2, <1>5, <1>6
  <2>3. \A u \in Thread : Working(th'[u]) =>
          th'[u].prev \subseteq from'[th'[u].b] /\ th'[u].b \notin th'[u].todo
    BY <1>1, <1>2, <1>5 DEF Working
  <2>4. \A u \in Thread, p \in Peer :
          go'[u][p].st # "none" => th'[u].pc \in {"updateSent", "sending"}
    BY <1>1, <1>4 DEF Sole
  <2>5. \A c \in Bundle : ~store'[c].known => store'[c] = NoItem
    BY <1>4 DEF Sole
  <2>6. \A c \in Bundle \ accepted' : fate'[c] = {} /\ got'[c] = {} /\ from'[c] = {}
    <3> SUFFICES ASSUME NEW c \in Bundle \ accepted PROVE fate'[c] = {} /\ got'[c] = {} /\ from'[c] = {}
      OBVIOUS
    <3>1. c # b /\ ~store[c].known
      BY <1>3 DEF NoItem
    <3>2. fate'[c] = fate[c] /\ got'[c] = got[c] /\ from'[c] = from[c]
      BY <3>1
    <3> QED BY <1>4, <3>2 DEF Sole
  <2> QED BY <2>1, <2>2, <2>3, <2>4, <2>5, <2>6 DEF Sole
<1>8. ASSUME NEW c \in Bundle, c # b
      PROVE  RestAt(c)' /\ (TodoAt(c) => TodoAt(c)')
  <2>1. Quiet(c)
    BY <1>2, <1>8 DEF Quiet
  <2> QED BY <1>4, <1>8, <2>1, RestFrame
<1>9. \A c \in Bundle : Quiet(c)' => RestAt(c)'
  <2> SUFFICES ASSUME Quiet(b)' PROVE RestAt(b)'
    BY <1>8
  <2>1. ~(Working(r) /\ r.b = b)
    BY <1>1 DEF Quiet, Working
  <2> QED BY <2>1
<1>10. \A u \in Thread : Working(th'[u]) => WorkAt(u)'
  <2> SUFFICES ASSUME NEW u \in Thread, Working(th'[u]) PROVE WorkAt(u)'
    OBVIOUS
  <2>1. u = t /\ Working(r)
    BY <1>1, <1>2 DEF Working
  <2>2. r # Finished(th[t])
    BY <1>5, <2>1 DEF Working
  <2>3. Repeated(b)' = Repeated(b)
    BY DEF Repeated
  <2> QED BY <1>1, <2>1, <2>2, <2>3 DEF WorkAt
<1>11. \A u \in Thread : \A c \in th'[u].todo : TodoAt(c)'
  <2> SUFFICES ASSUME NEW u \in Thread, NEW c \in th'[u].todo PROVE TodoAt(c)'
    OBVIOUS
  <2>1. u = t /\ c \in th[t].todo
    BY <1>1, <1>2
  <2>2. c \in Bundle /\ c # b
    BY <1>2, <2>1, LocalType DEF IndInv
  <2> QED BY <1>8, <2>1, <2>2 DEF SerialInv
<1> QED BY <1>7, <1>9, <1>10, <1>11 DEF SerialInv

(* Decisions only add up *)
LEMMA CalmBefore ==
  ASSUME NEW b, UNCHANGED rx, fate[b] \subseteq fate'[b], Calm(b)' PROVE Calm(b)
BY DEF Calm, Repeated

(* BundleDescriptor.Sync up to its read: what the caller and the           *)
(* constraints it wrote must satisfy.                                      *)
LEMMA SyncFrameSerial ==
  ASSUME IndInv, MarkInv, SerialInv, TypeOK',
         UNCHANGED <<store, go, expired, rx, crashes, accepted, from, got>>,
         NEW t \in Thread, NEW b \in Bundle, b = th[t].b, Working(th[t]),
         \A p \in Peer : go[t][p].st = "none",
         fate[b] \subseteq fate'[b],
         \A c \in Bundle : c # b => fate'[c] = fate[c],
         NEW c, NEW ret, Sync(t, c, ret),
         ret \in {"recvSync2", "receive", "blocks", "sendNotify"} =>
             /\ Early(th[t]) /\ (Calm(b) => ~IsPending(c))
             /\ ret = "sendNotify" => th[t].pc = "sendSync1"
             /\ ret = "blocks" => c # {},
         ret \in {"srcCheck", "checks", "deliver", "handOver"} =>
             /\ OnWay(th[t])
             /\ th[t].pc \notin {"dispatching", "clasForBundle", "setPending", "bundle", "sync"}
             /\ ret # "handOver" => c # {},
         ret \in {"done", "inspect"} /\ IsPending(c) => th[t].pc = "sending",
         crashes = 0 /\ ~Repeated(b) =>
             /\ Over(fate'[b]) => ret = "done" /\ c = {} /\ store[b].known
             /\ ret \notin {"deliver", "handOver", "done"} =>
                    Front(th[t]) /\ "LocalEndpoint" \notin c
             /\ IsPending(c) /\ ret = "done" => "LocalEndpoint" \notin c
  PROVE  SerialInv'
<1>1. PICK r : /\ SetThread(t, r) /\ r.todo = th[t].todo /\ r.b = b /\ r.pc = "sync"
               /\ r.cons = c /\ r.ret = ret /\ r.item = store[b]
               /\ r.prev = th[t].prev /\ r.mem = th[t].mem
  <2> DEFINE q == [th[t] EXCEPT !.pc = "sync", !.cons = c, !.item = store[th[t].b], !.ret = ret]
  <2>0. th[t] \in ThreadState
    BY LocalType DEF IndInv
  <2>1. /\ q.todo = th[t].todo /\ q.b = b /\ q.pc = "sync"
        /\ q.cons = c /\ q.ret = ret /\ q.item = store[b]
        /\ q.prev = th[t].prev /\ q.mem = th[t].mem
    BY <2>0 DEF ThreadState
  <2>2. SetThread(t, q)
    BY DEF Sync
  <2> HIDE DEF q
  <2> QED BY <2>1, <2>2
<1>2. PICK s, g, h, d, x : /\ s = store[b] /\ g = go[t] /\ h = Others(b) /\ d = {Header[b].dest}
                           /\ x = (b \in expired)
  OBVIOUS
<1>3. /\ s = store'[b] /\ g = go'[t] /\ h = Others(b)' /\ Holders(b)' = Holders(b)
      /\ Flying(g) = {} /\ \A p \in Peer : g[p].st = "none"
  BY <1>2 DEF Others, Holders, Flying
<1>4. crashes = 0 /\ fate'[b] = {} => TrueAt(r, s, Holders(b), g)
  <2>1. crashes = 0 /\ fate'[b] = {} => TrueAt(th[t], s, Holders(b), g)
    BY <1>2, WorkFacts
  <2>2. crashes = 0 /\ fate'[b] = {} => s.sent \subseteq Holders(b) \cup Flying(g)
    BY <2>1 DEF TrueAt
  <2> QED BY <1>1, <1>2, <1>3, <2>2 DEF TrueAt
<1>5. Calm(b)' => KeptAt(r, s, h, g, d, x)
  <2> SUFFICES ASSUME Calm(b)' PROVE KeptAt(r, s, h, g, d, x)
    OBVIOUS
  <2>0. KeptAt(th[t], s, h, g, d, x) /\ Calm(b)
    BY <1>2, CalmBefore, WorkFacts
  <2>1. s.pending /\ ~x => h \subseteq s.sent
    BY <2>0 DEF KeptAt
  <2>2. Early(r) => EarlyKept(r, s, h, x)
    <3> SUFFICES ASSUME Early(r) PROVE EarlyKept(r, s, h, x)
      OBVIOUS
    <3>1. ret \in {"recvSync2", "receive", "blocks", "sendNotify"}
      BY <1>1 DEF Early
    <3>2. EarlyKept(th[t], s, h, x)
      BY <2>0, <3>1 DEF KeptAt
    <3> QED BY <1>1, <1>2, <2>0, <3>1, <3>2 DEF EarlyKept
  <2>3. OnWay(r) /\ ~x => OnWayKept(r, s, h)
    <3> SUFFICES ASSUME OnWay(r), ~x PROVE OnWayKept(r, s, h)
      OBVIOUS
    <3>1. ret \in {"srcCheck", "checks", "deliver", "handOver"}
      BY <1>1 DEF OnWay
    <3>2. OnWayKept(th[t], s, h)
      BY <2>0, <3>1 DEF KeptAt
    <3> QED BY <1>1, <1>2, <3>1, <3>2 DEF OnWayKept
  <2>4. SendingKept(r, s, h, g, d)
    <3>1. SendingKept(th[t], s, h, g, d)
      BY <2>0 DEF KeptAt
    <3> QED BY <1>1, <1>2, <1>3, <3>1 DEF SendingKept
  <2> QED BY <2>1, <2>2, <2>3, <2>4 DEF KeptAt
<1>6. crashes = 0 /\ ~Repeated(b) => GoneAt(r, s, fate'[b], g)
  <2> SUFFICES ASSUME crashes = 0, ~Repeated(b) PROVE GoneAt(r, s, fate'[b], g)
    OBVIOUS
  <2>0. GoneAt(th[t], s, fate[b], g)
    BY <1>2, WorkFacts
  <2>1. Over(fate'[b]) => r.pc = "sync" /\ r.ret = "done" /\ r.cons = {} /\ r.item.known
    BY <1>1
  <2>2. Front(r) => "LocalEndpoint" \notin r.cons \cup r.item.cons \cup s.cons
    BY <1>1, <1>2, <2>0 DEF GoneAt, Front
  <2>3. r.pc = "sync" /\ r.ret = "done" /\ IsPending(r.cons) => "LocalEndpoint" \notin r.cons
    BY <1>1
  <2> QED BY <1>1, <1>2, <1>3, <2>1, <2>2, <2>3 DEF GoneAt
<1>7. Working(r) /\ Alone'
  BY <1>1 DEF Working, SerialInv, Alone
<1>8. /\ crashes = 0 /\ fate'[b] = {} => TrueAt(r, store'[b], Holders(b)', go'[t])
      /\ Calm(b)' => KeptAt(r, store'[b], Others(b)', go'[t], {Header[b].dest}, b \in expired)
      /\ crashes = 0 /\ ~Repeated(b) => GoneAt(r, store'[b], fate'[b], go'[t])
  BY <1>2, <1>3, <1>4, <1>5, <1>6
<1>9. /\ ~store'[b].known => store'[b] = NoItem
      /\ \A p \in Peer : go'[t][p].st # "none" => r.pc \in {"updateSent", "sending"}
      /\ \A e \in Bundle : e # b => got'[e] = got[e] /\ store'[e] = store[e] /\ fate'[e] = fate[e]
      /\ \A u \in Thread : u # t => go'[u] = go[u]
  BY WorkFacts
<1> QED BY <1>1, <1>7, <1>8, <1>9, WorkFrame

(* The calls of Sync that no decision goes before *)
LEMMA CallsSerial ==
  ASSUME IndInv, MarkInv, SerialInv, TypeOK', NEW t \in Thread,
         \/ RecvSync1(t) \/ RecvSync2(t) \/ ReceiveNew(t) \/ SendSync1(t)
         \/ transmit(t) \/ forward(t) \/ LocalSync(t)
         \/ Deliver(t) /\ AgentHasEndpoint(th[t].b)
  PROVE  SerialInv'
<1>1. PICK b \in Bundle : b = th[t].b
  BY LocalType DEF IndInv
<1>2. /\ UNCHANGED <<store, go, expired, rx, crashes, accepted, from, got, fate>>
      /\ th[t].pc \in {"recvSync1", "recvSync2", "receive", "sendSync1", "transmit", "forward",
                       "localSync", "deliver"}
  BY DEF RecvSync1, RecvSync2, ReceiveNew, SendSync1, transmit, forward, LocalSync, Deliver,
         At, env, history
<1>3. Working(th[t])
  BY <1>2 DEF Working
<1>4. /\ \A p \in Peer : go[t][p].st = "none"
      /\ Calm(b) /\ Early(th[t]) => ~IsPending(th[t].cons)
      /\ crashes = 0 /\ ~Repeated(b) =>
             /\ ~Over(fate[b])
             /\ Front(th[t]) => "LocalEndpoint" \notin th[t].cons
  <2>1. \A p \in Peer : go[t][p].st = "none"
    BY <1>1, <1>2, <1>3, WorkFacts
  <2>2. Calm(b) /\ Early(th[t]) => ~IsPending(th[t].cons)
    BY <1>1, <1>3, WorkFacts DEF KeptAt, EarlyKept
  <2>3. crashes = 0 /\ ~Repeated(b) => ~Over(fate[b])
    BY <1>1, <1>2, <1>3, WorkFacts DEF GoneAt
  <2>4. crashes = 0 /\ ~Repeated(b) /\ Front(th[t]) => "LocalEndpoint" \notin th[t].cons
    BY <1>1, <1>3, WorkFacts DEF GoneAt
  <2> QED BY <2>1, <2>2, <2>3, <2>4
<1>5. PICK c, ret :
         /\ Sync(t, c, ret)
         /\ ret \in {"recvSync2", "receive", "blocks", "sendNotify"} =>
             /\ Early(th[t]) /\ (Calm(b) => ~IsPending(c))
             /\ ret = "sendNotify" => th[t].pc = "sendSync1"
             /\ ret = "blocks" => c # {}
         /\ ret \in {"srcCheck", "checks", "deliver", "handOver"} =>
             /\ OnWay(th[t])
             /\ th[t].pc \notin {"dispatching", "clasForBundle", "setPending", "bundle", "sync"}
             /\ ret # "handOver" => c # {}
         /\ ret \notin {"done", "inspect"}
         /\ crashes = 0 /\ ~Repeated(b) /\ ret \notin {"deliver", "handOver", "done"} =>
             Front(th[t]) /\ "LocalEndpoint" \notin c
  <2>1. CASE RecvSync1(t) \/ RecvSync2(t) \/ SendSync1(t)
    <3>1. /\ Early(th[t]) /\ Front(th[t])
          /\ \E ret \in {"recvSync2", "receive", "sendNotify"} :
               Sync(t, th[t].cons, ret) /\ (ret = "sendNotify" => th[t].pc = "sendSync1")
      BY <2>1 DEF RecvSync1, RecvSync2, SendSync1, At, Early, Front
    <3> QED BY <1>4, <3>1
  <2>2. CASE ReceiveNew(t)
    <3>1. Early(th[t]) /\ Front(th[t]) /\ Sync(t, {"DispatchPending"}, "blocks")
      BY <2>2 DEF ReceiveNew, At, Early, Front
    <3>2. ~IsPending({"DispatchPending"}) /\ "LocalEndpoint" \notin {"DispatchPending"}
      BY DEF IsPending
    <3> QED BY <3>1, <3>2
  <2>3. CASE transmit(t) \/ forward(t)
    <3>1. /\ OnWay(th[t]) /\ Front(th[t]) /\ th[t].pc \in {"transmit", "forward"}
      BY <2>3 DEF transmit, forward, At, OnWay, Front
    <3>2. \/ Sync(t, th[t].cons \cup {"DispatchPending"}, "srcCheck")
          \/ Sync(t, (th[t].cons \cup {"ForwardPending"}) \ {"DispatchPending"}, "checks")
      BY <2>3 DEF transmit, forward
    <3>3. /\ th[t].cons \cup {"DispatchPending"} # {}
          /\ (th[t].cons \cup {"ForwardPending"}) \ {"DispatchPending"} # {}
          /\ "LocalEndpoint" \notin th[t].cons =>
                /\ "LocalEndpoint" \notin th[t].cons \cup {"DispatchPending"}
                /\ "LocalEndpoint" \notin (th[t].cons \cup {"ForwardPending"}) \ {"DispatchPending"}
      OBVIOUS
    <3> QED BY <1>4, <3>1, <3>2, <3>3
  <2>4. CASE LocalSync(t) \/ (Deliver(t) /\ AgentHasEndpoint(th[t].b))
    <3>1. OnWay(th[t]) /\ th[t].pc \in {"localSync", "deliver"}
      BY <2>4 DEF LocalSync, Deliver, At, OnWay
    <3>2. \/ Sync(t, th[t].cons \cup {"LocalEndpoint"}, "deliver")
          \/ Sync(t, th[t].cons \ {"LocalEndpoint"}, "handOver")
      BY <2>4 DEF LocalSync, Deliver
    <3>3. th[t].cons \cup {"LocalEndpoint"} # {}
      OBVIOUS
    <3> QED BY <3>1, <3>2, <3>3
  <2> QED BY <2>1, <2>2, <2>3, <2>4
<1> QED BY <1>1, <1>2, <1>3, <1>4, <1>5, SyncFrameSerial

(* The calls of Sync after a decision: the last access to the bundle *)
LEMMA DeletionSerial ==
  ASSUME IndInv, MarkInv, SerialInv, TypeOK', NEW t \in Thread,
         th[t].pc \in {"blocks", "srcCheck", "checks", "localDelivery", "sending"},
         \A p \in Peer : go[t][p].st = "none",
         UNCHANGED <<store, go, expired, rx, crashes, accepted, from, got>>,
         NEW f \in {"forwarded", "deleted"}, Settle(th[t].b, f),
         Sync(t, PurgeConstraints(th[t].cons), "done")
  PROVE  SerialInv'
<1>1. PICK b \in Bundle : b = th[t].b
  BY LocalType DEF IndInv
<1>2. Working(th[t]) /\ Front(th[t]) /\ ~Vouching(th[t])
  BY DEF Working, Front, Vouching, InReception, InSubmission, InDelivery
<1>3. PICK c : c = PurgeConstraints(th[t].cons)
  OBVIOUS
<1>4. ~IsPending(c) /\ ("LocalEndpoint" \notin th[t].cons => c = {})
  BY <1>3 DEF IsPending, PurgeConstraints
<1>5. fate'[b] = fate[b] \cup {f} /\ \A e \in Bundle : e # b => fate'[e] = fate[e]
  BY <1>1 DEF Settle, IndInv, TypeOK
<1>6. ASSUME crashes = 0, ~Repeated(b), Over(fate'[b]) PROVE c = {} /\ store[b].known
  <2>1. GoneAt(th[t], store[b], fate[b], go[t])
    BY <1>1, <1>2, <1>6, WorkFacts
  <2>2. ~Over(fate[b]) /\ "LocalEndpoint" \notin th[t].cons
    BY <1>2, <2>1 DEF GoneAt
  <2>3. fate[b] = {}
    BY <1>5, <1>6, <2>2 DEF Over
  <2> QED BY <1>1, <1>2, <1>4, <2>2, <2>3, KnownAtWork
<1> QED BY <1>1, <1>2, <1>3, <1>4, <1>5, <1>6, SyncFrameSerial

(* The ends of localDelivery and forward *)
LEMMA EndsSerial ==
  ASSUME IndInv, MarkInv, SerialInv, TypeOK', NEW t \in Thread, FinishLocal(t) \/ AfterSending(t)
  PROVE  SerialInv'
<1>1. PICK b \in Bundle : b = th[t].b
  BY LocalType DEF IndInv
<1>2. /\ UNCHANGED <<store, go, expired, rx, crashes, accepted, from, got>>
      /\ th[t].pc \in {"finishLocal", "sending"}
  BY DEF FinishLocal, AfterSending, At, env
<1>3. Working(th[t])
  BY <1>2 DEF Working
<1>4. /\ crashes = 0 /\ ~Repeated(b) =>
           /\ ~Over(fate[b])
           /\ th[t].pc = "sending" => "LocalEndpoint" \notin th[t].cons
  <2>1. crashes = 0 /\ ~Repeated(b) => GoneAt(th[t], store[b], fate[b], go[t])
    BY <1>1, <1>3, WorkFacts
  <2>2. th[t].pc = "sending" => Front(th[t])
    BY DEF Front
  <2> QED BY <1>2, <2>1, <2>2 DEF GoneAt
<1>5. CASE FinishLocal(t)
  <2>1. PICK c : c = PurgeConstraints(th[t].cons)
    OBVIOUS
  <2>2. ~IsPending(c) /\ Sync(t, c, "done") /\ \A p \in Peer : go[t][p].st = "none"
    <3>1. ~IsPending(c) /\ Sync(t, c, "done")
      BY <1>5, <2>1 DEF IsPending, PurgeConstraints, FinishLocal
    <3>2. th[t].pc = "finishLocal"
      BY <1>5 DEF FinishLocal, At
    <3>3. \A p \in Peer : go[t][p].st = "none"
      BY <1>1, <1>3, <3>2, WorkFacts
    <3> QED BY <3>1, <3>3
  <2>3. /\ fate'[b] = fate[b] \/ fate'[b] = fate[b] \cup {"finished"}
        /\ \A e \in Bundle : e # b => fate'[e] = fate[e]
    BY <1>1, <1>5 DEF FinishLocal, Settle, IndInv, TypeOK
  <2>4. crashes = 0 /\ ~Repeated(b) => ~Over(fate'[b])
    BY <1>4, <2>3 DEF Over
  <2>5. fate[b] \subseteq fate'[b]
    BY <2>3
  <2> QED BY <1>1, <1>2, <1>3, <2>2, <2>3, <2>4, <2>5, SyncFrameSerial
<1>6. CASE AfterSending(t)
  <2>1. th[t].pc = "sending" /\ \A p \in Peer : go[t][p].st = "none"
    BY <1>6 DEF AfterSending, At
  <2>2. CASE Settle(b, "forwarded") /\ Sync(t, PurgeConstraints(th[t].cons), "done")
    BY <1>1, <1>2, <2>1, <2>2, DeletionSerial
  <2>3. CASE ~(Settle(b, "forwarded") /\ Sync(t, PurgeConstraints(th[t].cons), "done"))
    <3>1. PICK c, ret : /\ c = th[t].cons \cup {"Contraindicated"} /\ ret \in {"inspect", "done"}
                        /\ Sync(t, c, ret) /\ UNCHANGED fate
      BY <1>1, <1>6, <2>3 DEF AfterSending
    <3>2. "LocalEndpoint" \notin th[t].cons => "LocalEndpoint" \notin c
      BY <3>1
    <3>3. Front(th[t])
      BY <2>1 DEF Front
    <3> QED BY <1>1, <1>2, <1>3, <1>4, <2>1, <3>1, <3>2, <3>3, SyncFrameSerial
  <2> QED BY <2>2, <2>3
<1> QED BY <1>5, <1>6

(* A step between two accesses to the store: the goroutine goes on with    *)
(* the same bundle, and knows no more of it.                               *)
LEMMA MoveSerial ==
  ASSUME IndInv, MarkInv, SerialInv, TypeOK',
         UNCHANGED <<store, go, expired, rx, crashes, accepted, from, got>>,
         NEW t \in Thread, NEW b \in Bundle, b = th[t].b, Working(th[t]),
         \A p \in Peer : go[t][p].st = "none",
         fate[b] \subseteq fate'[b],
         \A c \in Bundle : c # b => fate'[c] = fate[c],
         NEW r, SetThread(t, r), r.todo = th[t].todo, r.b = b, r.prev = th[t].prev,
         Working(r), r.pc \notin {"sync", "updateSent", "sending"}, th[t].pc \notin {"sync", "sending"},
         r.cons = th[t].cons, r.item \in {th[t].item, store[b], NoItem},
         Early(r) => /\ Early(th[t]) /\ r.pc # "sendSync1" /\ r.mem = th[t].mem
                     /\ \/ r.pc \in {"recvSync2", "receive"} \/ store[b].known
                        \/ th[t].pc \in {"blocks", "sendNotify", "notify", "notifyDest"},
         r.pc \in {"notifyDest", "notifySent"} => r.item = store[b],
         Calm(b) /\ OnWay(r) /\ b \notin expired => OnWayKept(r, store[b], Others(b)),
         Calm(b) /\ r.pc = "senderForBundle" /\ store[b].known => Others(b) \subseteq store[b].sent,
         crashes = 0 /\ ~Repeated(b) =>
             /\ Over(fate'[b]) => r.pc \in {"dispatching", "bundle"} /\ ~store[b].known /\ ~r.mem
             /\ Front(r) => Front(th[t])
  PROVE  SerialInv'
<1>2. PICK s, g, h, d, x : /\ s = store[b] /\ g = go[t] /\ h = Others(b) /\ d = {Header[b].dest}
                           /\ x = (b \in expired)
  OBVIOUS
<1>3. /\ s = store'[b] /\ g = go'[t] /\ h = Others(b)' /\ Holders(b)' = Holders(b)
      /\ Flying(g) = {} /\ \A p \in Peer : g[p].st = "none"
  BY <1>2 DEF Others, Holders, Flying
<1>30. r.item \in {th[t].item, s, NoItem}
  BY <1>2
<1>31. NoItem.sent = {} /\ NoItem.cons = {} /\ ~NoItem.pending /\ ~NoItem.known
  BY DEF NoItem
<1>4. crashes = 0 /\ fate'[b] = {} => TrueAt(r, s, Holders(b), g)
  <2>1. crashes = 0 /\ fate'[b] = {} => TrueAt(th[t], s, Holders(b), g)
    BY <1>2, WorkFacts
  <2> QED BY <1>3, <1>30, <1>31, <2>1 DEF TrueAt
<1>5. Calm(b)' => KeptAt(r, s, h, g, d, x)
  <2> SUFFICES ASSUME Calm(b)' PROVE KeptAt(r, s, h, g, d, x)
    OBVIOUS
  <2>0. KeptAt(th[t], s, h, g, d, x) /\ Calm(b)
    BY <1>2, CalmBefore, WorkFacts
  <2>1. s.pending /\ ~x => h \subseteq s.sent
    BY <2>0 DEF KeptAt
  <2>2. Early(r) => EarlyKept(r, s, h, x)
    <3> SUFFICES ASSUME Early(r) PROVE EarlyKept(r, s, h, x)
      OBVIOUS
    <3>2. EarlyKept(th[t], s, h, x)
      BY <2>0 DEF KeptAt
    <3> QED BY <1>2, <1>30, <1>31, <3>2 DEF EarlyKept
  <2>3. OnWay(r) /\ ~x => OnWayKept(r, s, h)
    BY <1>2, <2>0
  <2>4. SendingKept(r, s, h, g, d)
    BY <1>2, <1>3, <2>0 DEF SendingKept
  <2> QED BY <2>1, <2>2, <2>3, <2>4 DEF KeptAt
<1>6. crashes = 0 /\ ~Repeated(b) => GoneAt(r, s, fate'[b], g)
  <2> SUFFICES ASSUME crashes = 0, ~Repeated(b) PROVE GoneAt(r, s, fate'[b], g)
    OBVIOUS
  <2>0. GoneAt(th[t], s, fate[b], g)
    BY <1>2, WorkFacts
  <2>2. Front(r) => "LocalEndpoint" \notin r.cons \cup r.item.cons \cup s.cons
    BY <1>30, <1>31, <2>0 DEF GoneAt
  <2> QED BY <1>2, <1>3, <2>2 DEF GoneAt
<1>7. Alone'
  BY DEF SerialInv, Alone
<1>8. /\ crashes = 0 /\ fate'[b] = {} => TrueAt(r, store'[b], Holders(b)', go'[t])
      /\ Calm(b)' => KeptAt(r, store'[b], Others(b)', go'[t], {Header[b].dest}, b \in expired)
      /\ crashes = 0 /\ ~Repeated(b) => GoneAt(r, store'[b], fate'[b], go'[t])
  BY <1>2, <1>3, <1>4, <1>5, <1>6
<1>9. /\ ~store'[b].known => store'[b] = NoItem
      /\ \A p \in Peer : go'[t][p].st # "none" => r.pc \in {"updateSent", "sending"}
      /\ \A e \in Bundle : e # b => got'[e] = got[e] /\ store'[e] = store[e] /\ fate'[e] = fate[e]
      /\ \A u \in Thread : u # t => go'[u] = go[u]
  BY WorkFacts
<1> QED BY <1>7, <1>8, <1>9, WorkFrame

(* A goroutine that is through with its bundle, and has left it alone *)
LEMMA EndSerial ==
  ASSUME IndInv, MarkInv, SerialInv, TypeOK',
         UNCHANGED <<store, go, expired, rx, crashes, accepted, from, got, fate>>,
         NEW t \in Thread, NEW b \in Bundle, b = th[t].b, Working(th[t]),
         \A p \in Peer : go[t][p].st = "none",
         Front(th[t]), SetThread(t, Finished(th[t])),
         th[t].pc \notin {"sync", "dispatching"}, th[t].pc = "bundle" => ~store[b].known
  PROVE  SerialInv'
<1>1. Flying(go[t]) = {}
  BY DEF Flying
<1>2. RestAt(b)
  <2>1. crashes = 0 /\ fate[b] = {} => store[b].sent \subseteq Holders(b)
    BY <1>1, WorkFacts DEF TrueAt
  <2>2. Calm(b) /\ b \notin expired /\ store[b].pending => Others(b) \subseteq store[b].sent
    BY WorkFacts DEF KeptAt
  <2>3. crashes = 0 /\ ~Repeated(b) =>
          /\ store[b].known => ~Over(fate[b])
          /\ "LocalEndpoint" \notin store[b].cons
    BY WorkFacts DEF GoneAt
  <2> QED BY <2>1, <2>2, <2>3 DEF RestAt
<1>3. RestAt(b)'
  BY <1>2, RestFrame
<1>4. /\ ~store'[b].known => store'[b] = NoItem
      /\ \A e \in Bundle : e # b => got'[e] = got[e] /\ store'[e] = store[e] /\ fate'[e] = fate[e]
      /\ \A u \in Thread : u # t => go'[u] = go[u]
      /\ Finished(th[t]).todo = th[t].todo
      /\ \A p \in Peer : go'[t][p].st = "none"
      /\ Alone'
  <2>1. Finished(th[t]).todo = th[t].todo
    BY DEF Finished, Idle
  <2>2. Alone'
    BY DEF SerialInv, Alone
  <2> QED BY <2>1, <2>2, WorkFacts
<1> QED BY <1>3, <1>4, WorkFrame

(* Reception and submission, between their calls of Sync *)
LEMMA ReceptionMoves ==
  ASSUME IndInv, MarkInv, SerialInv, TypeOK', NEW t \in Thread,
         \/ ReceiveKnown(t) \/ Blocks(t) \/ SendNotify(t) \/ SrcCheck(t) \/ NotifyRead(t)
  PROVE  SerialInv'
<1>1. PICK b \in Bundle : b = th[t].b
  BY LocalType DEF IndInv
<1>2. /\ UNCHANGED <<store, go, expired, rx, crashes, accepted, from, got>>
      /\ th[t].pc \in {"receive", "blocks", "sendNotify", "srcCheck", "notify"}
      /\ th[t] \in ThreadState
  BY LocalType DEF ReceiveKnown, Blocks, SendNotify, SrcCheck, NotifyRead, At, env, history, IndInv
<1>3. Working(th[t]) /\ Front(th[t])
  BY <1>2 DEF Working, Front
<1>4. \A p \in Peer : go[t][p].st = "none"
  BY <1>1, <1>2, <1>3, WorkFacts
<1>5. crashes = 0 /\ ~Repeated(b) => ~Over(fate[b])
  BY <1>1, <1>2, <1>3, WorkFacts DEF GoneAt
<1>6. CASE ReceiveKnown(t)
  <2>1. SetThread(t, Finished(th[t])) /\ UNCHANGED fate
    BY <1>6 DEF ReceiveKnown, Done, history
  <2> QED BY <1>1, <1>2, <1>3, <1>4, <2>1, EndSerial
<1>7. CASE (Blocks(t) /\ Header[b].drop) \/ (SrcCheck(t) /\ Header[b].foreign)
  <2>1. Settle(b, "deleted") /\ Sync(t, PurgeConstraints(th[t].cons), "done")
    BY <1>1, <1>7 DEF Blocks, SrcCheck, bundleDeletion
  <2>2. th[t].pc \in {"blocks", "srcCheck"}
    BY <1>7 DEF Blocks, SrcCheck, At
  <2> QED BY <1>1, <1>2, <1>4, <2>1, <2>2, DeletionSerial
<1>8. CASE (Blocks(t) /\ ~Header[b].drop) \/ SendNotify(t)
  <2>1. PICK r : /\ SetThread(t, r) /\ r.todo = th[t].todo /\ r.b = b /\ r.prev = th[t].prev
                 /\ r.pc = "notify" /\ r.cons = th[t].cons /\ r.item = th[t].item
                 /\ r.mem = th[t].mem
    <3>1. PICK ret, q : q = [th[t] EXCEPT !.pc = "notify", !.ret = ret] /\ SetThread(t, q)
      BY <1>1, <1>8 DEF Blocks, SendNotify
    <3>2. /\ q.todo = th[t].todo /\ q.b = b /\ q.prev = th[t].prev
          /\ q.pc = "notify" /\ q.cons = th[t].cons /\ q.item = th[t].item /\ q.mem = th[t].mem
      BY <1>1, <1>2, <3>1 DEF ThreadState
    <3> QED BY <3>1, <3>2
  <2>2. UNCHANGED fate /\ th[t].pc \in {"blocks", "sendNotify"}
    BY <1>1, <1>8 DEF Blocks, SendNotify, At, history
  <2>3. Working(r) /\ Early(th[t]) /\ ~OnWay(r)
    BY <2>1, <2>2 DEF Working, Early, OnWay
  <2> QED BY <1>1, <1>2, <1>3, <1>4, <1>5, <2>1, <2>2, <2>3, MoveSerial
<1>9. CASE SrcCheck(t) /\ ~Header[b].foreign
  <2>1. PICK r : /\ SetThread(t, r) /\ r.todo = th[t].todo /\ r.b = b /\ r.prev = th[t].prev
                 /\ r.pc = "dispatching" /\ r.cons = th[t].cons /\ r.item = th[t].item
                 /\ r.mem = th[t].mem
    <3>1. PICK q : q = [th[t] EXCEPT !.pc = "dispatching"] /\ SetThread(t, q)
      BY <1>1, <1>9 DEF SrcCheck, Goto
    <3>2. /\ q.todo = th[t].todo /\ q.b = b /\ q.prev = th[t].prev
          /\ q.pc = "dispatching" /\ q.cons = th[t].cons /\ q.item = th[t].item /\ q.mem = th[t].mem
      BY <1>1, <1>2, <3>1 DEF ThreadState
    <3> QED BY <3>1, <3>2
  <2>2. UNCHANGED fate /\ th[t].pc = "srcCheck"
    BY <1>1, <1>9 DEF SrcCheck, At
  <2>3. Working(r) /\ OnWay(th[t]) /\ ~Early(r)
    BY <2>1, <2>2 DEF Working, Early, OnWay
  <2>4. Calm(b) /\ b \notin expired => OnWayKept(r, store[b], Others(b))
    <3>1. Calm(b) /\ b \notin expired => OnWayKept(th[t], store[b], Others(b))
      BY <1>1, <1>3, <2>3, WorkFacts DEF KeptAt
    <3> QED BY <2>1, <2>2, <3>1 DEF OnWayKept
  <2> QED BY <1>1, <1>2, <1>3, <1>4, <1>5, <2>1, <2>2, <2>3, <2>4, MoveSerial
<1>10. CASE NotifyRead(t) /\ store[b].known
  <2>1. PICK r : /\ SetThread(t, r) /\ r.todo = th[t].todo /\ r.b = b /\ r.prev = th[t].prev
                 /\ r.pc = "notifyDest" /\ r.cons = th[t].cons /\ r.item = store[b]
                 /\ r.mem = th[t].mem
    <3>1. PICK q : q = [th[t] EXCEPT !.pc = "notifyDest", !.item = store[b]] /\ SetThread(t, q)
      BY <1>1, <1>10 DEF NotifyRead
    <3>2. /\ q.todo = th[t].todo /\ q.b = b /\ q.prev = th[t].prev
          /\ q.pc = "notifyDest" /\ q.cons = th[t].cons /\ q.item = store[b] /\ q.mem = th[t].mem
      BY <1>1, <1>2, <3>1 DEF ThreadState
    <3> QED BY <3>1, <3>2
  <2>2. UNCHANGED fate /\ th[t].pc = "notify"
    BY <1>1, <1>10 DEF NotifyRead, At, history
  <2>3. Working(r) /\ Early(th[t]) /\ ~OnWay(r)
    BY <2>1, <2>2 DEF Working, Early, OnWay
  <2> QED BY <1>1, <1>2, <1>3, <1>4, <1>5, <2>1, <2>2, <2>3, MoveSerial
<1>11. CASE NotifyRead(t) /\ ~store[b].known
  <2>1. PICK r : /\ SetThread(t, r) /\ r.todo = th[t].todo /\ r.b = b /\ r.prev = th[t].prev
                 /\ r.pc = th[t].ret /\ r.cons = th[t].cons /\ r.item = th[t].item
                 /\ r.mem = th[t].mem
    <3>1. PICK q : q = [th[t] EXCEPT !.pc = th[t].ret, !.ret = "idle"] /\ SetThread(t, q)
      BY <1>1, <1>11 DEF NotifyRead
    <3>2. /\ q.todo = th[t].todo /\ q.b = b /\ q.prev = th[t].prev
          /\ q.pc = th[t].ret /\ q.cons = th[t].cons /\ q.item = th[t].item /\ q.mem = th[t].mem
      BY <1>1, <1>2, <3>1 DEF ThreadState
    <3> QED BY <3>1, <3>2
  <2>2. UNCHANGED fate /\ th[t].pc = "notify" /\ r.pc \in {"transmit", "dispatching"}
    BY <1>1, <1>11, <2>1 DEF NotifyRead, At, history, IndInv, ThreadOK, ReturnsToCaller
  <2>3. Working(r) /\ Early(th[t]) /\ ~Early(r)
    BY <2>1, <2>2 DEF Working, Early
  <2>4. ~(Calm(b) /\ b \notin expired)
    <3>1. Calm(b) => EarlyKept(th[t], store[b], Others(b), b \in expired)
      BY <1>1, <1>3, <2>3, WorkFacts DEF KeptAt
    <3> QED BY <1>11, <2>2, <3>1 DEF EarlyKept
  <2> QED BY <1>1, <1>2, <1>3, <1>4, <1>5, <2>1, <2>2, <2>3, <2>4, MoveSerial
<1> QED BY <1>1, <1>6, <1>7, <1>8, <1>9, <1>10, <1>11

(* Dispatching: the reads *)
LEMMA DispatchMoves ==
  ASSUME IndInv, MarkInv, SerialInv, TypeOK', NEW t \in Thread,
         dispatching(t) \/ clasForBundle(t) \/ LoadBundle(t)
  PROVE  SerialInv'
<1>1. PICK b \in Bundle : b = th[t].b
  BY LocalType DEF IndInv
<1>2. /\ UNCHANGED <<store, go, expired, rx, crashes, accepted, from, got, fate>>
      /\ th[t].pc \in {"dispatching", "clasForBundle", "bundle"}
      /\ th[t] \in ThreadState
  BY LocalType DEF dispatching, clasForBundle, LoadBundle, At, env, history, IndInv
<1>3. Working(th[t]) /\ Front(th[t]) /\ OnWay(th[t])
  BY <1>2 DEF Working, Front, OnWay
<1>4. \A p \in Peer : go[t][p].st = "none"
  BY <1>1, <1>2, <1>3, WorkFacts
<1>5. crashes = 0 /\ ~Repeated(b) /\ Over(fate[b]) =>
          th[t].pc \in {"dispatching", "bundle"} /\ ~store[b].known /\ ~th[t].mem
  BY <1>1, <1>2, <1>3, WorkFacts DEF GoneAt
<1>6. Calm(b) /\ b \notin expired => OnWayKept(th[t], store[b], Others(b))
  BY <1>1, <1>3, WorkFacts DEF KeptAt
<1>7. CASE LoadBundle(t) /\ ~th[t].mem /\ ~store[b].known
  <2>1. SetThread(t, Finished(th[t])) /\ th[t].pc = "bundle"
    BY <1>1, <1>7 DEF LoadBundle, At
  <2> QED BY <1>1, <1>2, <1>3, <1>4, <1>7, <2>1, EndSerial
<1>8. CASE LoadBundle(t) /\ ~(~th[t].mem /\ ~store[b].known)
  <2>1. PICK r : /\ SetThread(t, r) /\ r.todo = th[t].todo /\ r.b = b /\ r.prev = th[t].prev
                 /\ r.pc \in {"localDelivery", "forward"} /\ r.cons = th[t].cons
                 /\ r.item = th[t].item /\ r.mem
    <3>1. PICK pc : pc = IF HasEndpoint(b) THEN "localDelivery" ELSE "forward"
      OBVIOUS
    <3>2. PICK q : q = [th[t] EXCEPT !.mem = TRUE, !.pc = pc]
      OBVIOUS
    <3>3. SetThread(t, q) /\ pc \in {"localDelivery", "forward"}
      BY <1>1, <1>8, <3>1, <3>2 DEF LoadBundle
    <3>4. /\ q.todo = th[t].todo /\ q.b = b /\ q.prev = th[t].prev
          /\ q.pc = pc /\ q.cons = th[t].cons /\ q.item = th[t].item /\ q.mem = TRUE
      BY <1>1, <1>2, <3>2 DEF ThreadState
    <3> QED BY <3>3, <3>4
  <2>2. Working(r) /\ ~Early(r)
    BY <2>1 DEF Working, Early
  <2>3. Calm(b) /\ b \notin expired => OnWayKept(r, store[b], Others(b))
    BY <1>6, <1>8, <2>1 DEF OnWayKept
  <2>4. th[t].pc = "bundle"
    BY <1>8 DEF LoadBundle, At
  <2> QED BY <1>1, <1>2, <1>3, <1>4, <1>5, <1>8, <2>1, <2>2, <2>3, <2>4, MoveSerial
<1>9. CASE dispatching(t) \/ clasForBundle(t)
  <2>1. PICK r : /\ SetThread(t, r) /\ r.todo = th[t].todo /\ r.b = b /\ r.prev = th[t].prev
                 /\ r.cons = th[t].cons /\ r.mem = th[t].mem
                 /\ r.item \in {th[t].item, store[b], NoItem}
                 /\ r.pc \in {"bundle", "clasForBundle", "setPending"}
                 /\ th[t].pc = "dispatching" /\ ~store[b].known => r.pc = "bundle"
    <3>1. CASE dispatching(t)
      <4>1. PICK pc, item, q :
                /\ q = [th[t] EXCEPT !.pc = pc, !.item = item] /\ SetThread(t, q)
                /\ item \in {th[t].item, store[b]}
                /\ pc \in {"bundle", "clasForBundle"} /\ (~store[b].known => pc = "bundle")
        <5>1. [th[t] EXCEPT !.pc = "bundle"] = [th[t] EXCEPT !.pc = "bundle", !.item = th[t].item]
          BY <1>2 DEF ThreadState
        <5>2. \/ /\ ~store[b].known
                 /\ SetThread(t, [th[t] EXCEPT !.pc = "bundle", !.item = th[t].item])
              \/ SetThread(t, [th[t] EXCEPT !.pc = "bundle", !.item = th[t].item])
              \/ /\ store[b].known
                 /\ SetThread(t, [th[t] EXCEPT !.pc = "clasForBundle", !.item = store[b]])
          BY <1>1, <3>1, <5>1 DEF dispatching
        <5> QED BY <5>2
      <4>2. /\ q.todo = th[t].todo /\ q.b = b /\ q.prev = th[t].prev
            /\ q.pc = pc /\ q.cons = th[t].cons /\ q.item = item /\ q.mem = th[t].mem
        BY <1>1, <1>2, <4>1 DEF ThreadState
      <4> QED BY <4>1, <4>2
    <3>2. CASE clasForBundle(t)
      <4>1. PICK pc, item, q :
                /\ q = [th[t] EXCEPT !.pc = pc, !.item = item] /\ SetThread(t, q)
                /\ item \in {th[t].item, NoItem}
                /\ pc \in {"bundle", "setPending"}
        <5>1. [th[t] EXCEPT !.pc = "setPending"]
                = [th[t] EXCEPT !.pc = "setPending", !.item = th[t].item]
          BY <1>2 DEF ThreadState
        <5>2. \/ SetThread(t, [th[t] EXCEPT !.pc = "setPending", !.item = th[t].item])
              \/ SetThread(t, [th[t] EXCEPT !.pc = "bundle", !.item = NoItem])
          BY <1>1, <3>2, <5>1 DEF clasForBundle
        <5> QED BY <5>2
      <4>2. /\ q.todo = th[t].todo /\ q.b = b /\ q.prev = th[t].prev
            /\ q.pc = pc /\ q.cons = th[t].cons /\ q.item = item /\ q.mem = th[t].mem
        BY <1>1, <1>2, <4>1 DEF ThreadState
      <4>3. th[t].pc = "clasForBundle"
        BY <3>2 DEF clasForBundle, At
      <4> QED BY <4>1, <4>2, <4>3
    <3> QED BY <1>9, <3>1, <3>2
  <2>2. Working(r) /\ ~Early(r)
    BY <2>1 DEF Working, Early
  <2>3. Calm(b) /\ b \notin expired => OnWayKept(r, store[b], Others(b))
    <3>1. ~NoItem.known
      BY DEF NoItem
    <3> QED BY <1>6, <2>1, <3>1 DEF OnWayKept
  <2>4. crashes = 0 /\ ~Repeated(b) /\ Over(fate[b]) =>
            r.pc \in {"dispatching", "bundle"} /\ ~store[b].known /\ ~r.mem
    <3>1. th[t].pc \in {"dispatching", "clasForBundle"}
      BY <1>9 DEF dispatching, clasForBundle, At
    <3> QED BY <1>5, <2>1, <3>1
  <2>5. r.pc \notin {"sync", "updateSent", "sending", "senderForBundle"}
        /\ th[t].pc \notin {"sync", "sending"}
    BY <1>2, <2>1
  <2> QED BY <1>1, <1>2, <1>3, <1>4, <2>1, <2>2, <2>3, <2>4, <2>5, MoveSerial
<1> QED BY <1>1, <1>7, <1>8, <1>9

(* Forwarding and local delivery, between the accesses to the store *)
LEMMA DeliveryMoves ==
  ASSUME IndInv, MarkInv, SerialInv, TypeOK', NEW t \in Thread,
         \/ ForwardExceeded(t)
         \/ senderForDestination(t) /\ up \cap {Header[th[t].b].dest} = {}
         \/ localDelivery(t) /\ Header[th[t].b].admin # "report"
         \/ Deliver(t) /\ ~AgentHasEndpoint(th[t].b)
         \/ HandOver(t)
  PROVE  SerialInv'
<1>1. PICK b \in Bundle : b = th[t].b
  BY LocalType DEF IndInv
<1>2. /\ UNCHANGED <<store, go, expired, rx, crashes, accepted, from, got>>
      /\ th[t].pc \in {"checks", "localDelivery", "deliver", "handOver"}
      /\ th[t] \in ThreadState
  BY LocalType DEF ForwardExceeded, senderForDestination, localDelivery, Deliver, HandOver, At,
                   env, history, IndInv
<1>3. Working(th[t]) /\ (th[t].pc # "handOver" => OnWay(th[t]))
  BY <1>2 DEF Working, OnWay
<1>4. \A p \in Peer : go[t][p].st = "none"
  BY <1>1, <1>2, <1>3, WorkFacts
<1>5. crashes = 0 /\ ~Repeated(b) => ~Over(fate[b])
  BY <1>1, <1>2, <1>3, WorkFacts DEF GoneAt
<1>6. Calm(b) /\ b \notin expired /\ th[t].pc # "handOver"
          => OnWayKept(th[t], store[b], Others(b))
  BY <1>1, <1>3, WorkFacts DEF KeptAt
<1>7. CASE ForwardExceeded(t) \/ (localDelivery(t) /\ Header[b].admin = "bad")
  <2>1. Settle(b, "deleted") /\ Sync(t, PurgeConstraints(th[t].cons), "done")
    BY <1>1, <1>7 DEF ForwardExceeded, localDelivery, bundleDeletion
  <2>2. th[t].pc \in {"checks", "localDelivery"}
    BY <1>7 DEF ForwardExceeded, localDelivery, At
  <2> QED BY <1>1, <1>2, <1>4, <2>1, <2>2, DeletionSerial
<1>8. CASE \/ senderForDestination(t) /\ up \cap {Header[th[t].b].dest} = {}
           \/ localDelivery(t) /\ Header[b].admin = "no"
           \/ Deliver(t) /\ ~AgentHasEndpoint(th[t].b)
           \/ HandOver(t)
  <2>1. PICK pc : /\ Goto(t, pc)
                  /\ \/ th[t].pc = "checks" /\ pc = "senderForBundle" /\ b \notin expired
                     \/ th[t].pc = "localDelivery" /\ pc = "localSync"
                     \/ th[t].pc \in {"deliver", "handOver"} /\ pc = "finishLocal"
    BY <1>1, <1>8 DEF senderForDestination, localDelivery, Deliver, HandOver, At
  <2>2. PICK r : /\ SetThread(t, r) /\ r.todo = th[t].todo /\ r.b = b /\ r.prev = th[t].prev
                 /\ r.pc = pc /\ r.cons = th[t].cons /\ r.item = th[t].item
                 /\ r.mem = th[t].mem
    <3>1. PICK q : q = [th[t] EXCEPT !.pc = pc] /\ SetThread(t, q)
      BY <2>1 DEF Goto
    <3>2. /\ q.todo = th[t].todo /\ q.b = b /\ q.prev = th[t].prev
          /\ q.pc = pc /\ q.cons = th[t].cons /\ q.item = th[t].item /\ q.mem = th[t].mem
      BY <1>1, <1>2, <3>1 DEF ThreadState
    <3> QED BY <3>1, <3>2
  <2>3. /\ fate'[b] = fate[b] \/ fate'[b] = fate[b] \cup {"delivered"}
        /\ \A e \in Bundle : e # b => fate'[e] = fate[e]
    <3>1. UNCHANGED fate \/ Settle(b, "delivered")
      BY <1>1, <1>8 DEF senderForDestination, localDelivery, Deliver, HandOver, history
    <3> QED BY <3>1 DEF Settle, IndInv, TypeOK
  <2>4. crashes = 0 /\ ~Repeated(b) => ~Over(fate'[b])
    BY <1>5, <2>3 DEF Over
  <2>5. Working(r) /\ ~Early(r) /\ (Front(r) => Front(th[t]))
    BY <2>1, <2>2 DEF Working, Early, Front
  <2>6. Calm(b) /\ OnWay(r) /\ b \notin expired => OnWayKept(r, store[b], Others(b))
    BY <1>6, <2>1, <2>2 DEF OnWayKept, OnWay
  <2>7. Calm(b) /\ r.pc = "senderForBundle" /\ store[b].known => Others(b) \subseteq store[b].sent
    BY <1>6, <2>1, <2>2 DEF OnWayKept
  <2>8. /\ r.pc \notin {"sync", "updateSent", "sending", "notifyDest", "notifySent"}
        /\ th[t].pc \notin {"sync", "sending"}
        /\ fate[b] \subseteq fate'[b]
    BY <1>2, <2>1, <2>2, <2>3
  <2> QED BY <1>1, <1>2, <1>3, <1>4, <2>2, <2>3, <2>4, <2>5, <2>6, <2>7, <2>8, MoveSerial
<1>9. Header[b].admin \in {"no", "bad", "report"}
  BY HeaderAssumption DEF HeaderType
<1> QED BY <1>1, <1>7, <1>8, <1>9

(* The return of Sync to its caller, when it has made b's item s *)
LEMMA ReturnSerial ==
  ASSUME IndInv, MarkInv, SerialInv, TypeOK',
         UNCHANGED <<go, expired, rx, crashes, accepted, from, got, fate>>,
         NEW t \in Thread, NEW b \in Bundle, b = th[t].b, th[t].pc = "sync",
         \A c \in Bundle : c # b => store'[c] = store[c],
         NEW s, store'[b] = s, ~s.known => s = NoItem, NEW err, Return(t, err),
         crashes = 0 /\ fate[b] = {} => s.sent \subseteq Holders(b),
         Calm(b) /\ b \notin expired /\ s.pending => Others(b) \subseteq s.sent,
         Calm(b) /\ th[t].ret \in {"recvSync2", "receive", "blocks", "sendNotify"} =>
             /\ ~s.pending
             /\ b \notin expired /\ th[t].ret \in {"blocks", "sendNotify"} => s.known,
         Calm(b) /\ b \notin expired /\ th[t].ret \in {"srcCheck", "checks", "deliver"} =>
             s.known /\ Others(b) \subseteq s.sent,
         crashes = 0 /\ ~Repeated(b) =>
             /\ th[t].ret # "done" \/ s.known => ~Over(fate[b])
             /\ Front(th[t]) \/ (th[t].ret = "done" /\ s.pending) => "LocalEndpoint" \notin s.cons
  PROVE  SerialInv'
<1>1. Working(th[t]) /\ th[t] \in ThreadState /\ ReturnsToCaller(th[t])
  BY LocalType DEF Working, IndInv, ThreadOK
<1>2. /\ Holders(b)' = Holders(b) /\ Others(b)' = Others(b) /\ Calm(b)' = Calm(b)
      /\ Repeated(b)' = Repeated(b) /\ Alone'
  BY DEF Holders, Others, Calm, Repeated, SerialInv, Alone
<1>3. /\ \A e \in Bundle : e # b => got'[e] = got[e] /\ store'[e] = store[e] /\ fate'[e] = fate[e]
      /\ \A u \in Thread : u # t => go'[u] = go[u]
      /\ \A p \in Peer : go'[t][p].st = "none"
      /\ ~store'[b].known => store'[b] = NoItem
  BY <1>1, WorkFacts
<1>4. CASE th[t].ret = "done"
  <2>1. SetThread(t, Finished(th[t])) /\ Finished(th[t]).todo = th[t].todo
    BY <1>4 DEF Return, Finished, Idle
  <2>2. RestAt(b)'
    BY <1>2, <1>4 DEF RestAt
  <2> QED BY <1>1, <1>2, <1>3, <2>1, <2>2, WorkFrame
<1>5. CASE th[t].ret # "done"
  <2>1. PICK r : /\ SetThread(t, r) /\ r.todo = th[t].todo /\ r.b = b /\ r.prev = th[t].prev
                 /\ r.pc = th[t].ret /\ r.cons = th[t].cons /\ r.item = NoItem
                 /\ r.mem = th[t].mem
    <3>1. PICK q : q = [th[t] EXCEPT !.pc = th[t].ret, !.ret = "idle", !.item = NoItem, !.err = err]
      OBVIOUS
    <3>2. SetThread(t, q)
      BY <1>5, <3>1 DEF Return
    <3>3. /\ q.todo = th[t].todo /\ q.b = b /\ q.prev = th[t].prev
          /\ q.pc = th[t].ret /\ q.cons = th[t].cons /\ q.item = NoItem /\ q.mem = th[t].mem
      BY <1>1, <3>1 DEF ThreadState
    <3> QED BY <3>2, <3>3
  <2>2. PICK h, d, x, g : /\ h = Others(b) /\ d = {Header[b].dest} /\ x = (b \in expired)
                          /\ g = go[t] /\ g = go'[t]
    OBVIOUS
  <2>3. Flying(g) = {} /\ \A p \in Peer : g[p].st = "none"
    BY <1>3, <2>2 DEF Flying
  <2>4. r.pc \in {"recvSync2", "receive", "blocks", "sendNotify", "srcCheck", "checks", "deliver",
                  "handOver", "inspect"}
    BY <1>1, <1>5, <2>1 DEF ReturnsToCaller
  <2>5. NoItem.sent = {} /\ NoItem.cons = {} /\ ~NoItem.pending /\ ~NoItem.known
    BY DEF NoItem
  <2>6. crashes = 0 /\ fate[b] = {} => TrueAt(r, s, Holders(b), g)
    BY <2>1, <2>3, <2>5 DEF TrueAt
  <2>7. Calm(b) => KeptAt(r, s, h, g, d, x)
    <3> SUFFICES ASSUME Calm(b) PROVE KeptAt(r, s, h, g, d, x)
      OBVIOUS
    <3>0. KeptAt(th[t], store[b], h, g, d, x)
      BY <1>1, <2>2, WorkFacts
    <3>1. s.pending /\ ~x => h \subseteq s.sent
      BY <2>2
    <3>2. Early(r) => EarlyKept(r, s, h, x)
      <4> SUFFICES ASSUME Early(r) PROVE EarlyKept(r, s, h, x)
        OBVIOUS
      <4>1. th[t].ret \in {"recvSync2", "receive", "blocks", "sendNotify"} /\ Early(th[t])
        BY <2>1, <2>4 DEF Early
      <4>2. EarlyKept(th[t], store[b], h, x)
        BY <3>0, <4>1 DEF KeptAt
      <4> QED BY <2>1, <2>2, <2>5, <4>1, <4>2 DEF EarlyKept
    <3>3. OnWay(r) /\ ~x => OnWayKept(r, s, h)
      <4> SUFFICES ASSUME OnWay(r), ~x PROVE OnWayKept(r, s, h)
        OBVIOUS
      <4>1. th[t].ret \in {"srcCheck", "checks", "deliver"} /\ OnWay(th[t])
        BY <2>1, <2>4 DEF OnWay
      <4>2. OnWayKept(th[t], store[b], h)
        BY <3>0, <4>1 DEF KeptAt
      <4> QED BY <2>1, <2>2, <2>5, <4>1, <4>2 DEF OnWayKept
    <3>4. SendingKept(r, s, h, g, d)
      BY <2>3, <2>4 DEF SendingKept
    <3> QED BY <3>1, <3>2, <3>3, <3>4 DEF KeptAt
  <2>8. crashes = 0 /\ ~Repeated(b) => GoneAt(r, s, fate[b], g)
    <3> SUFFICES ASSUME crashes = 0, ~Repeated(b) PROVE GoneAt(r, s, fate[b], g)
      OBVIOUS
    <3>0. GoneAt(th[t], store[b], fate[b], g)
      BY <1>1, <2>2, WorkFacts
    <3>1. Front(r) => Front(th[t])
      BY <1>5, <2>1, <2>4 DEF Front
    <3>2. Front(r) => "LocalEndpoint" \notin r.cons \cup r.item.cons \cup s.cons
      BY <2>1, <2>5, <3>0, <3>1 DEF GoneAt
    <3> QED BY <1>5, <2>3, <2>4, <3>2 DEF GoneAt
  <2>9. Working(r) /\ r.pc \notin {"updateSent", "sending"}
    BY <2>4 DEF Working
  <2>10. /\ crashes = 0 /\ fate'[b] = {} => TrueAt(r, store'[b], Holders(b)', go'[t])
         /\ Calm(b)' => KeptAt(r, store'[b], Others(b)', go'[t], {Header[b].dest}, b \in expired)
         /\ crashes = 0 /\ ~Repeated(b) => GoneAt(r, store'[b], fate'[b], go'[t])
    BY <1>2, <2>2, <2>6, <2>7, <2>8
  <2> QED BY <1>1, <1>2, <1>3, <2>1, <2>9, <2>10, WorkFrame
<1> QED BY <1>4, <1>5

(* The second half of BundleDescriptor.Sync *)
LEMMA SyncSerial ==
  ASSUME IndInv, MarkInv, SerialInv, TypeOK', NEW t \in Thread,
         SyncPush(t) \/ SyncDelete(t) \/ SyncUpdate(t)
  PROVE  SerialInv'
<1>1. PICK b \in Bundle : b = th[t].b
  BY LocalType DEF IndInv
<1>2. /\ UNCHANGED <<go, expired, rx, crashes, accepted, from, got, fate>> /\ th[t].pc = "sync"
      /\ store \in [Bundle -> BundleItem] /\ th[t].item \in BundleItem
      /\ ReturnsToCaller(th[t])
  BY LocalType DEF SyncPush, SyncDelete, SyncUpdate, At, env, history, IndInv, TypeOK, ThreadOK
<1>3. PICK err : Return(t, err)
  BY DEF SyncPush, SyncDelete, SyncUpdate
<1>4. \A c \in Bundle : c # b => store'[c] = store[c]
  BY <1>1, <1>2 DEF SyncPush, SyncDelete, SyncUpdate, StoreDelete, StoreUpdate
<1>5. PICK s, o, h, x : /\ s = store'[b] /\ o = store[b] /\ h = Others(b) /\ x = (b \in expired)
  OBVIOUS
<1>6. PICK r : r = th[t]
  OBVIOUS
<1>7. Working(th[t]) /\ o \in BundleItem /\ (~o.known => o = NoItem)
  <2>1. Working(th[t])
    BY <1>2 DEF Working
  <2> QED BY <1>1, <1>2, <1>5, <2>1, WorkFacts
<1>8. /\ crashes = 0 /\ fate[b] = {} => o.sent \subseteq Holders(b) /\ r.item.sent \subseteq Holders(b)
      /\ Calm(b) => KeptAt(r, o, h, go[t], {Header[b].dest}, x)
      /\ crashes = 0 /\ ~Repeated(b) => GoneAt(r, o, fate[b], go[t])
  <2>1. Flying(go[t]) = {}
    BY <1>1, <1>2, <1>7, WorkFacts DEF Flying
  <2> QED BY <1>1, <1>2, <1>5, <1>6, <1>7, <2>1, WorkFacts DEF TrueAt
<1>9. /\ Calm(b) /\ ~x /\ o.pending => h \subseteq o.sent
      /\ Calm(b) /\ r.ret \in {"recvSync2", "receive", "blocks", "sendNotify"} =>
             EarlyKept(r, o, h, x)
      /\ Calm(b) /\ ~x /\ r.ret \in {"srcCheck", "checks", "deliver", "handOver"} =>
             OnWayKept(r, o, h)
      /\ Calm(b) /\ r.ret \in {"done", "inspect"} /\ IsPending(r.cons) /\ r.item.known =>
             h \subseteq r.item.sent
  <2>1. Calm(b) /\ ~x /\ o.pending => h \subseteq o.sent
    BY <1>8 DEF KeptAt
  <2>2. /\ r.ret \in {"recvSync2", "receive", "blocks", "sendNotify"} => Early(r)
        /\ r.ret \in {"srcCheck", "checks", "deliver", "handOver"} => OnWay(r)
    BY <1>2, <1>6 DEF Early, OnWay
  <2>3. Calm(b) /\ r.ret \in {"recvSync2", "receive", "blocks", "sendNotify"} =>
             EarlyKept(r, o, h, x)
    BY <1>8, <2>2 DEF KeptAt
  <2>4. Calm(b) /\ ~x /\ r.ret \in {"srcCheck", "checks", "deliver", "handOver"} =>
             OnWayKept(r, o, h)
    BY <1>8, <2>2 DEF KeptAt
  <2>5. Calm(b) /\ r.ret \in {"done", "inspect"} /\ IsPending(r.cons) /\ r.item.known =>
             h \subseteq r.item.sent
    BY <1>2, <1>6, <1>8 DEF KeptAt, SendingKept
  <2> QED BY <2>1, <2>3, <2>4, <2>5
<1>10. CASE SyncPush(t)
  <2>1. ~r.item.known /\ s = (IF o.known THEN o ELSE newBundleItem)
    BY <1>1, <1>2, <1>5, <1>6, <1>10 DEF SyncPush
  <2>2. newBundleItem.sent = {} /\ newBundleItem.cons = {} /\ newBundleItem.known /\ ~newBundleItem.pending
    BY DEF newBundleItem, NoItem
  <2>3. ~s.known => s = NoItem
    BY <2>1, <2>2
  <2>4. crashes = 0 /\ fate[b] = {} => s.sent \subseteq Holders(b)
    BY <1>8, <2>1, <2>2
  <2>5. Calm(b) /\ b \notin expired /\ s.pending => Others(b) \subseteq s.sent
    BY <1>5, <1>9, <2>1, <2>2
  <2>6. Calm(b) /\ r.ret \in {"recvSync2", "receive", "blocks", "sendNotify"} =>
             ~s.pending /\ s.known
    BY <1>9, <2>1, <2>2 DEF EarlyKept
  <2>7. ~(Calm(b) /\ ~x /\ r.ret \in {"srcCheck", "checks", "deliver"})
    BY <1>2, <1>6, <1>9, <2>1 DEF OnWayKept
  <2>8. crashes = 0 /\ ~Repeated(b) => ~Over(fate[b])
    BY <1>2, <1>6, <1>8, <2>1 DEF GoneAt
  <2>9. crashes = 0 /\ ~Repeated(b) => "LocalEndpoint" \notin s.cons
    BY <1>2, <1>6, <1>8, <2>1, <2>2 DEF GoneAt
  <2>10. /\ ~s.known => s = NoItem
         /\ crashes = 0 /\ fate[b] = {} => s.sent \subseteq Holders(b)
         /\ Calm(b) /\ b \notin expired /\ s.pending => Others(b) \subseteq s.sent
         /\ Calm(b) /\ th[t].ret \in {"recvSync2", "receive", "blocks", "sendNotify"} =>
                /\ ~s.pending
                /\ b \notin expired /\ th[t].ret \in {"blocks", "sendNotify"} => s.known
         /\ Calm(b) /\ b \notin expired /\ th[t].ret \in {"srcCheck", "checks", "deliver"} =>
                s.known /\ Others(b) \subseteq s.sent
         /\ crashes = 0 /\ ~Repeated(b) =>
                /\ th[t].ret # "done" \/ s.known => ~Over(fate[b])
                /\ Front(th[t]) \/ (th[t].ret = "done" /\ s.pending) => "LocalEndpoint" \notin s.cons
    BY <1>5, <1>6, <2>3, <2>4, <2>5, <2>6, <2>7, <2>8, <2>9
  <2> QED BY <1>1, <1>2, <1>3, <1>4, <1>5, <2>10, ReturnSerial
<1>11. CASE SyncDelete(t)
  <2>1. r.item.known /\ r.cons = {} /\ s = NoItem
    BY <1>1, <1>2, <1>5, <1>6, <1>11 DEF SyncDelete, StoreDelete
  <2>2. s.sent = {} /\ s.cons = {} /\ ~s.known /\ ~s.pending
    BY <2>1 DEF NoItem
  <2>3. Calm(b) => r.ret \notin {"blocks", "sendNotify"}
    BY <1>2, <1>6, <1>9, <2>1 DEF EarlyKept
  <2>4. ~(Calm(b) /\ ~x /\ r.ret \in {"srcCheck", "checks", "deliver"})
    BY <1>2, <1>6, <1>9, <2>1 DEF OnWayKept
  <2>5. crashes = 0 /\ ~Repeated(b) => r.ret = "done" \/ ~Over(fate[b])
    BY <1>2, <1>6, <1>8, <2>1 DEF GoneAt
  <2>6. /\ ~store'[b].known => store'[b] = NoItem
        /\ crashes = 0 /\ fate[b] = {} => store'[b].sent \subseteq Holders(b)
        /\ Calm(b) /\ b \notin expired /\ store'[b].pending => Others(b) \subseteq store'[b].sent
        /\ Calm(b) /\ th[t].ret \in {"recvSync2", "receive", "blocks", "sendNotify"} =>
               /\ ~store'[b].pending
               /\ b \notin expired /\ th[t].ret \in {"blocks", "sendNotify"} => store'[b].known
        /\ Calm(b) /\ b \notin expired /\ th[t].ret \in {"srcCheck", "checks", "deliver"} =>
               store'[b].known /\ Others(b) \subseteq store'[b].sent
        /\ crashes = 0 /\ ~Repeated(b) =>
               /\ th[t].ret # "done" \/ store'[b].known => ~Over(fate[b])
               /\ Front(th[t]) \/ (th[t].ret = "done" /\ store'[b].pending) => "LocalEndpoint" \notin store'[b].cons
    BY <1>5, <1>6, <2>1, <2>2, <2>3, <2>4, <2>5
  <2> QED BY <1>1, <1>2, <1>3, <1>4, <2>6, ReturnSerial
<1>12. CASE SyncUpdate(t)
  <2>1. r.item.known /\ r.cons # {} /\ r.item \in BundleItem
    BY <1>2, <1>6, <1>12 DEF SyncUpdate
  <2>2. IF o.known THEN /\ s.sent = r.item.sent /\ s.cons = r.cons /\ s.known
                        /\ s.pending = IsPending(r.cons)
        ELSE s = NoItem
    BY <1>1, <1>2, <1>5, <1>6, <1>7, <1>12, <2>1 DEF SyncUpdate, StoreUpdate, BundleItem
  <2>20. NoItem.sent = {} /\ NoItem.cons = {} /\ ~NoItem.known /\ ~NoItem.pending
    BY DEF NoItem
  <2>3. crashes = 0 /\ fate[b] = {} => s.sent \subseteq Holders(b)
    BY <1>8, <2>2, <2>20
  <2>4. Calm(b) /\ ~x /\ s.pending => h \subseteq s.sent
    <3> SUFFICES ASSUME Calm(b), ~x, s.pending PROVE h \subseteq r.item.sent
      BY <2>2, <2>20
    <3>1. IsPending(r.cons)
      BY <2>2, <2>20
    <3>2. r.ret \notin {"recvSync2", "receive", "blocks", "sendNotify"}
      BY <1>9, <3>1 DEF EarlyKept
    <3>3. r.ret \in {"srcCheck", "checks", "deliver", "handOver"} => h \subseteq r.item.sent
      BY <1>9, <2>1 DEF OnWayKept
    <3> QED BY <1>2, <1>6, <1>9, <2>1, <3>1, <3>2, <3>3 DEF ReturnsToCaller
  <2>5. Calm(b) /\ r.ret \in {"recvSync2", "receive", "blocks", "sendNotify"} =>
             /\ ~s.pending
             /\ ~x /\ r.ret \in {"blocks", "sendNotify"} => s.known
    BY <1>2, <1>6, <1>9, <2>1, <2>2, <2>20 DEF EarlyKept
  <2>6. Calm(b) /\ ~x /\ r.ret \in {"srcCheck", "checks", "deliver"} => s.known /\ h \subseteq s.sent
    BY <1>2, <1>6, <1>9, <2>1, <2>2 DEF OnWayKept
  <2>7. crashes = 0 /\ ~Repeated(b) => ~Over(fate[b])
    BY <1>2, <1>6, <1>8, <2>1 DEF GoneAt
  <2>8. crashes = 0 /\ ~Repeated(b) =>
            (Front(r) \/ (r.ret = "done" /\ s.pending) => "LocalEndpoint" \notin s.cons)
    BY <1>2, <1>6, <1>8, <2>2, <2>20 DEF GoneAt
  <2>9. ~s.known => s = NoItem
    BY <2>2
  <2>10. /\ ~s.known => s = NoItem
         /\ crashes = 0 /\ fate[b] = {} => s.sent \subseteq Holders(b)
         /\ Calm(b) /\ b \notin expired /\ s.pending => Others(b) \subseteq s.sent
         /\ Calm(b) /\ th[t].ret \in {"recvSync2", "receive", "blocks", "sendNotify"} =>
                /\ ~s.pending
                /\ b \notin expired /\ th[t].ret \in {"blocks", "sendNotify"} => s.known
         /\ Calm(b) /\ b \notin expired /\ th[t].ret \in {"srcCheck", "checks", "deliver"} =>
                s.known /\ Others(b) \subseteq s.sent
         /\ crashes = 0 /\ ~Repeated(b) =>
                /\ th[t].ret # "done" \/ s.known => ~Over(fate[b])
                /\ Front(th[t]) \/ (th[t].ret = "done" /\ s.pending) => "LocalEndpoint" \notin s.cons
    BY <1>5, <1>6, <2>3, <2>4, <2>5, <2>6, <2>7, <2>8, <2>9
  <2> QED BY <1>1, <1>2, <1>3, <1>4, <1>5, <2>10, ReturnSerial
<1> QED BY <1>10, <1>11, <1>12

(* NotifyNewBundle's updates *)
LEMMA NotifySerial ==
  ASSUME IndInv, MarkInv, SerialInv, TypeOK', NEW t \in Thread, NotifyDest(t) \/ NotifySent(t)
  PROVE  SerialInv'
<1>1. PICK b \in Bundle : b = th[t].b
  BY LocalType DEF IndInv
<1>2. /\ UNCHANGED <<go, expired, rx, crashes, accepted, from, got, fate>>
      /\ th[t].pc \in {"notifyDest", "notifySent"}
      /\ store \in [Bundle -> BundleItem] /\ th[t].item \in BundleItem /\ th[t] \in ThreadState
      /\ th[t].item.known /\ th[t].ret \in {"transmit", "dispatching"}
  BY LocalType DEF NotifyDest, NotifySent, At, env, history, IndInv, TypeOK, ThreadOK, WritesKnown,
                   ReturnsToCaller
<1>3. Working(th[t]) /\ Early(th[t]) /\ Front(th[t])
  BY <1>2 DEF Working, Early, Front
<1>4. \A c \in Bundle : c # b => store'[c] = store[c]
  BY <1>1, <1>2 DEF NotifyDest, NotifySent, StoreUpdate
<1>5. PICK s, o, h, x, g, d, i :
          /\ s = store'[b] /\ o = store[b] /\ h = Others(b) /\ x = (b \in expired)
          /\ g = go[t] /\ d = {Header[b].dest} /\ i = th[t].item
  OBVIOUS
<1>6. /\ \A p \in Peer : g[p].st = "none"
      /\ ~o.known => o = NoItem
      /\ th[t].prev \subseteq from[b]
      /\ crashes = 0 /\ fate[b] = {} => TrueAt(th[t], o, Holders(b), g)
      /\ Calm(b) => KeptAt(th[t], o, h, g, d, x)
      /\ crashes = 0 /\ ~Repeated(b) => GoneAt(th[t], o, fate[b], g)
  BY <1>1, <1>2, <1>3, <1>5, WorkFacts
<1>7. /\ Calm(b) => EarlyKept(th[t], o, h, x)
      /\ Flying(g) = {}
      /\ crashes = 0 /\ ~Repeated(b) =>
             ~Over(fate[b]) /\ "LocalEndpoint" \notin th[t].cons \cup i.cons \cup o.cons
  <2>1. Calm(b) => EarlyKept(th[t], o, h, x)
    BY <1>3, <1>6 DEF KeptAt
  <2>2. Flying(g) = {}
    BY <1>6 DEF Flying
  <2>3. crashes = 0 /\ ~Repeated(b) =>
             ~Over(fate[b]) /\ "LocalEndpoint" \notin th[t].cons \cup i.cons \cup o.cons
    BY <1>2, <1>3, <1>5, <1>6 DEF GoneAt
  <2> QED BY <2>1, <2>2, <2>3
<1>8. PICK r : /\ SetThread(t, r) /\ r.todo = th[t].todo /\ r.b = b /\ r.prev = th[t].prev
               /\ r.cons = th[t].cons /\ r.mem = th[t].mem
               /\ \/ /\ r.pc = th[t].ret /\ r.item = NoItem
                     /\ \/ th[t].pc = "notifyDest" /\ th[t].prev \subseteq i.sent
                        \/ th[t].pc = "notifySent"
                  \/ /\ th[t].pc = "notifyDest" /\ r.pc = "notifySent" /\ r.item.known
                     /\ r.item.sent = i.sent /\ r.item.cons = i.cons /\ r.item.pending = i.pending
  <2>1. PICK q : q = [th[t] EXCEPT !.pc = th[t].ret, !.ret = "idle", !.item = NoItem]
    OBVIOUS
  <2>2. PICK j : j = [i EXCEPT !.dest = TRUE]
    OBVIOUS
  <2>3. PICK p : p = [th[t] EXCEPT !.pc = "notifySent", !.item = j]
    OBVIOUS
  <2>4. /\ q.todo = th[t].todo /\ q.b = b /\ q.prev = th[t].prev
        /\ q.cons = th[t].cons /\ q.mem = th[t].mem
        /\ q.pc = th[t].ret /\ q.item = NoItem
    BY <1>1, <1>2, <2>1 DEF ThreadState
  <2>5. /\ p.todo = th[t].todo /\ p.b = b /\ p.prev = th[t].prev
        /\ p.cons = th[t].cons /\ p.mem = th[t].mem
        /\ p.pc = "notifySent" /\ p.item = j
    BY <1>1, <1>2, <2>3 DEF ThreadState
  <2>6. j.sent = i.sent /\ j.cons = i.cons /\ j.pending = i.pending /\ j.known = i.known
    BY <1>2, <1>5, <2>2 DEF BundleItem
  <2>7. CASE NotifySent(t)
    <3>1. SetThread(t, q) /\ th[t].pc = "notifySent"
      BY <2>1, <2>7 DEF NotifySent, At
    <3> QED BY <2>4, <3>1
  <2>8. CASE NotifyDest(t)
    <3>1. /\ th[t].pc = "notifyDest"
          /\ SetThread(t, IF th[t].prev \subseteq j.sent THEN q ELSE p)
      BY <1>5, <2>1, <2>2, <2>3, <2>8 DEF NotifyDest, At
    <3>2. \/ SetThread(t, q) /\ th[t].prev \subseteq i.sent
          \/ SetThread(t, p)
      BY <2>6, <3>1
    <3> QED BY <1>2, <1>5, <2>4, <2>5, <2>6, <3>1, <3>2
  <2> QED BY <2>7, <2>8
<1>9. \/ s = o /\ (~o.known \/ (th[t].pc = "notifyDest"))
      \/ /\ o.known /\ s.known /\ s.cons = i.cons /\ s.pending = i.pending
         /\ s.sent = IF th[t].pc = "notifyDest" THEN i.sent ELSE i.sent \cup th[t].prev
  <2>1. CASE NotifySent(t)
    <3>1. PICK j : j = [i EXCEPT !.sent = @ \cup th[t].prev]
      OBVIOUS
    <3>2. j.sent = i.sent \cup th[t].prev /\ j.cons = i.cons /\ j.pending = i.pending /\ j.known = i.known
      BY <1>2, <1>5, <3>1 DEF BundleItem
    <3>3. th[t].pc = "notifySent" /\ s = (IF o.known THEN j ELSE o)
      BY <1>1, <1>2, <1>5, <2>1, <3>1 DEF NotifySent, StoreUpdate, At
    <3> QED BY <1>2, <1>5, <3>2, <3>3
  <2>2. CASE NotifyDest(t)
    <3>1. PICK j : j = [i EXCEPT !.dest = TRUE]
      OBVIOUS
    <3>2. j.sent = i.sent /\ j.cons = i.cons /\ j.pending = i.pending /\ j.known = i.known
      BY <1>2, <1>5, <3>1 DEF BundleItem
    <3>3. th[t].pc = "notifyDest" /\ (s = o \/ (s = (IF o.known THEN j ELSE o)))
      BY <1>1, <1>2, <1>5, <2>2, <3>1 DEF NotifyDest, StoreUpdate, At
    <3> QED BY <1>2, <1>5, <3>2, <3>3
  <2> QED BY <2>1, <2>2
<1>10. NoItem.sent = {} /\ NoItem.cons = {} /\ ~NoItem.pending /\ ~NoItem.known
  BY DEF NoItem
<1>11. crashes = 0 /\ fate[b] = {} => TrueAt(r, s, Holders(b), g)
  <2> SUFFICES ASSUME crashes = 0, fate[b] = {} PROVE TrueAt(r, s, Holders(b), g)
    OBVIOUS
  <2>1. /\ o.sent \subseteq Holders(b) /\ i.sent \subseteq Holders(b)
        /\ th[t].prev \subseteq Holders(b)
    BY <1>2, <1>5, <1>6, <1>7 DEF TrueAt, Holders
  <2>2. s.sent \subseteq Holders(b)
    BY <1>9, <2>1
  <2>3. r.item.sent \subseteq Holders(b)
    BY <1>8, <1>10, <2>1
  <2> QED BY <1>6, <2>2, <2>3 DEF TrueAt
<1>12. Calm(b) => KeptAt(r, s, h, g, d, x)
  <2> SUFFICES ASSUME Calm(b) PROVE KeptAt(r, s, h, g, d, x)
    OBVIOUS
  <2>1. /\ h \subseteq th[t].prev /\ th[t].mem
        /\ ~o.pending /\ ~i.pending /\ ~IsPending(th[t].cons)
        /\ ~x => o.known /\ o.sent = i.sent
    BY <1>2, <1>5, <1>7 DEF EarlyKept
  <2>2. ~s.pending
    BY <1>9, <2>1
  <2>3. Early(r) => EarlyKept(r, s, h, x)
    <3> SUFFICES ASSUME Early(r) PROVE EarlyKept(r, s, h, x)
      OBVIOUS
    <3>1. r.pc = "notifySent" /\ th[t].pc = "notifyDest" /\ r.item.sent = i.sent /\ ~r.item.pending
      BY <1>2, <1>8, <2>1 DEF Early
    <3>2. ~x => s.known /\ s.sent = r.item.sent
      BY <1>9, <2>1, <3>1
    <3> QED BY <1>8, <2>1, <2>2, <3>1, <3>2 DEF EarlyKept
  <2>4. OnWay(r) /\ ~x => OnWayKept(r, s, h)
    <3> SUFFICES ASSUME OnWay(r), ~x PROVE OnWayKept(r, s, h)
      OBVIOUS
    <3>1. /\ r.pc = th[t].ret /\ r.item = NoItem
          /\ \/ th[t].pc = "notifyDest" /\ th[t].prev \subseteq i.sent
             \/ th[t].pc = "notifySent"
      BY <1>8 DEF OnWay
    <3>2. s.known /\ th[t].prev \subseteq s.sent
      BY <1>9, <2>1, <3>1
    <3> QED BY <1>2, <1>8, <1>10, <2>1, <3>1, <3>2 DEF OnWayKept
  <2>5. SendingKept(r, s, h, g, d)
    <3>1. r.pc \in {"transmit", "dispatching", "notifySent"}
      BY <1>2, <1>8
    <3> QED BY <1>6, <1>7, <3>1 DEF SendingKept
  <2> QED BY <2>2, <2>3, <2>4, <2>5 DEF KeptAt
<1>13. crashes = 0 /\ ~Repeated(b) => GoneAt(r, s, fate[b], g)
  <2>1. r.pc \in {"transmit", "dispatching", "notifySent"}
    BY <1>2, <1>8
  <2>2. crashes = 0 /\ ~Repeated(b) => "LocalEndpoint" \notin r.cons \cup r.item.cons \cup s.cons
    BY <1>7, <1>8, <1>9, <1>10
  <2> QED BY <1>6, <1>7, <2>1, <2>2 DEF GoneAt
<1>14. /\ Holders(b)' = Holders(b) /\ Others(b)' = Others(b) /\ Calm(b)' = Calm(b) /\ Alone'
       /\ g = go'[t]
  BY <1>2, <1>5 DEF Holders, Others, Calm, Repeated, SerialInv, Alone
<1>15. /\ crashes = 0 /\ fate'[b] = {} => TrueAt(r, store'[b], Holders(b)', go'[t])
       /\ Calm(b)' => KeptAt(r, store'[b], Others(b)', go'[t], {Header[b].dest}, b \in expired)
       /\ crashes = 0 /\ ~Repeated(b) => GoneAt(r, store'[b], fate'[b], go'[t])
  BY <1>2, <1>5, <1>11, <1>12, <1>13, <1>14
<1>16. Working(r) /\ (~s.known => s = NoItem)
  <2>1. Working(r)
    BY <1>2, <1>8 DEF Working
  <2>2. ~s.known => s = NoItem
    BY <1>6, <1>9
  <2> QED BY <2>1, <2>2
<1>17. /\ \A e \in Bundle : e # b => got'[e] = got[e] /\ store'[e] = store[e] /\ fate'[e] = fate[e]
       /\ \A u \in Thread : u # t => go'[u] = go[u]
       /\ \A p \in Peer : go'[t][p].st = "none"
  BY <1>2, <1>4, <1>6, <1>14
<1>18. /\ SetThread(t, r) /\ r.todo = th[t].todo /\ r.b = b /\ r.prev = th[t].prev
       /\ ~store'[b].known => store'[b] = NoItem
       /\ UNCHANGED <<expired, rx, crashes, accepted, from>>
       /\ Working(th[t]) /\ Working(r) /\ Alone'
  BY <1>2, <1>3, <1>5, <1>8, <1>14, <1>16
<1> QED BY <1>1, <1>15, <1>17, <1>18, WorkFrame

(* DispatchingAllowed's update *)
LEMMA PendingSerial ==
  ASSUME IndInv, MarkInv, SerialInv, TypeOK', NEW t \in Thread, SetPending(t)
  PROVE  SerialInv'
<1>1. PICK b \in Bundle : b = th[t].b
  BY LocalType DEF IndInv
<1>2. /\ UNCHANGED <<go, expired, rx, crashes, accepted, from, got, fate>>
      /\ th[t].pc = "setPending"
      /\ store \in [Bundle -> BundleItem] /\ th[t].item \in BundleItem /\ th[t].item.known
  BY LocalType DEF SetPending, At, env, history, IndInv, TypeOK, ThreadOK, WritesKnown
<1>3. Working(th[t]) /\ OnWay(th[t]) /\ Front(th[t])
  BY <1>2 DEF Working, OnWay, Front
<1>4. \A c \in Bundle : c # b => store'[c] = store[c]
  BY <1>1, <1>2 DEF SetPending, StoreUpdate
<1>5. PICK s, i : s = store'[b] /\ i = th[t].item
  OBVIOUS
<1>6. /\ \A p \in Peer : go[t][p].st = "none"
      /\ ~store[b].known => store[b] = NoItem
      /\ crashes = 0 /\ fate[b] = {} => TrueAt(th[t], store[b], Holders(b), go[t])
      /\ Calm(b) /\ b \notin expired => OnWayKept(th[t], store[b], Others(b))
      /\ crashes = 0 /\ ~Repeated(b) => GoneAt(th[t], store[b], fate[b], go[t])
  BY <1>1, <1>2, <1>3, WorkFacts DEF KeptAt
<1>7. Flying(go[t]) = {}
  BY <1>6 DEF Flying
<1>8. \/ s = NoItem
      \/ s.known /\ s.sent = i.sent /\ s.cons = i.cons
  <2>1. PICK j : j = [i EXCEPT !.pending = TRUE]
    OBVIOUS
  <2>2. j.sent = i.sent /\ j.cons = i.cons /\ j.known = i.known
    BY <1>2, <1>5, <2>1 DEF BundleItem
  <2>3. s = (IF store[b].known THEN j ELSE store[b])
    BY <1>1, <1>2, <1>5, <2>1 DEF SetPending, StoreUpdate
  <2> QED BY <1>2, <1>5, <1>6, <2>2, <2>3
<1>9. NoItem.sent = {} /\ NoItem.cons = {} /\ ~NoItem.pending /\ ~NoItem.known
  BY DEF NoItem
<1>10. /\ Holders(b)' = Holders(b) /\ Others(b)' = Others(b) /\ Calm(b)' = Calm(b) /\ Alone'
       /\ Repeated(b)' = Repeated(b)
  BY <1>2, <1>5 DEF Holders, Others, Calm, Repeated, SerialInv, Alone
<1>11. RestAt(b)'
  <2>1. crashes = 0 /\ fate[b] = {} => s.sent \subseteq Holders(b)
    BY <1>2, <1>5, <1>6, <1>7, <1>8, <1>9 DEF TrueAt
  <2>2. Calm(b) /\ b \notin expired /\ s.pending => Others(b) \subseteq s.sent
    BY <1>2, <1>5, <1>6, <1>8, <1>9 DEF OnWayKept
  <2>3. crashes = 0 /\ ~Repeated(b) => ~Over(fate[b]) /\ "LocalEndpoint" \notin s.cons
    BY <1>2, <1>3, <1>5, <1>6, <1>8, <1>9 DEF GoneAt
  <2> QED BY <1>2, <1>5, <1>10, <2>1, <2>2, <2>3 DEF RestAt
<1>12. SetThread(t, Finished(th[t])) /\ Finished(th[t]).todo = th[t].todo
  BY DEF SetPending, Done, Finished, Idle
<1>13. ~store'[b].known => store'[b] = NoItem
  BY <1>5, <1>8
<1> QED BY <1>1, <1>2, <1>3, <1>4, <1>6, <1>10, <1>11, <1>12, <1>13, WorkFrame

(* The start of the transmissions: to the destination itself, or to the    *)
(* peers that are not in the sent list.                                    *)
LEMMA SenderSerial ==
  ASSUME IndInv, MarkInv, SerialInv, TypeOK', NEW t \in Thread,
         \/ senderForDestination(t) /\ up \cap {Header[th[t].b].dest} # {}
         \/ SenderForBundle(t)
  PROVE  SerialInv'
<1>1. PICK b \in Bundle : b = th[t].b
  BY LocalType DEF IndInv
<1>2. /\ UNCHANGED <<store, expired, rx, crashes, accepted, from, got, fate>>
      /\ th[t].pc \in {"checks", "senderForBundle"}
      /\ store[b] \in BundleItem /\ th[t] \in ThreadState /\ go \in [Thread -> [Peer -> SendState]]
      /\ up \subseteq Peer
  BY <1>1, LocalType DEF senderForDestination, SenderForBundle, At, env, history, IndInv, TypeOK
<1>3. Working(th[t]) /\ Front(th[t])
  BY <1>2 DEF Working, Front
<1>4. PICK s, h, x, d : s = store[b] /\ h = Others(b) /\ x = (b \in expired) /\ d = {Header[b].dest}
  OBVIOUS
<1>5. /\ \A p \in Peer : go[t][p].st = "none"
      /\ ~s.known => s = NoItem
      /\ crashes = 0 /\ fate[b] = {} => TrueAt(th[t], s, Holders(b), go[t])
      /\ Calm(b) => KeptAt(th[t], s, h, go[t], d, x)
      /\ crashes = 0 /\ ~Repeated(b) => GoneAt(th[t], s, fate[b], go[t])
  BY <1>1, <1>2, <1>3, <1>4, WorkFacts
<1>6. /\ crashes = 0 /\ fate[b] = {} => s.sent \subseteq Holders(b)
      /\ Calm(b) /\ s.pending /\ ~x => h \subseteq s.sent
      /\ crashes = 0 /\ ~Repeated(b) =>
             ~Over(fate[b]) /\ "LocalEndpoint" \notin th[t].cons \cup s.cons
  <2>1. Flying(go[t]) = {}
    BY <1>5 DEF Flying
  <2>2. crashes = 0 /\ fate[b] = {} => s.sent \subseteq Holders(b)
    BY <1>5, <2>1 DEF TrueAt
  <2>3. Calm(b) /\ s.pending /\ ~x => h \subseteq s.sent
    BY <1>5 DEF KeptAt
  <2>4. crashes = 0 /\ ~Repeated(b) =>
             ~Over(fate[b]) /\ "LocalEndpoint" \notin th[t].cons \cup s.cons
    BY <1>2, <1>3, <1>5 DEF GoneAt
  <2> QED BY <2>2, <2>3, <2>4
<1>7. Calm(b) /\ s.known => h \subseteq s.sent
  <2>1. CASE senderForDestination(t)
    <3>1. th[t].pc = "checks" /\ b \notin expired
      BY <1>1, <2>1 DEF senderForDestination, At
    <3>2. OnWay(th[t])
      BY <3>1 DEF OnWay
    <3> QED BY <1>4, <1>5, <3>1, <3>2 DEF KeptAt, OnWayKept
  <2>2. CASE SenderForBundle(t)
    <3>1. th[t].pc = "senderForBundle"
      BY <2>2 DEF SenderForBundle, At
    <3> QED BY <1>5, <3>1 DEF KeptAt, SendingKept
  <2> QED BY <2>1, <2>2
<1>8. PICK n, r, i :
          /\ n \in SUBSET Peer
          /\ go' = [go EXCEPT ![t] = [p \in Peer |-> IF p \in n THEN [NoSend EXCEPT !.st = "sending"]
                                                     ELSE NoSend]]
          /\ SetThread(t, r) /\ r.todo = th[t].todo /\ r.b = b /\ r.prev = th[t].prev
          /\ r.cons = th[t].cons /\ r.item = i
          /\ \/ r.pc = "sending" /\ i = NoItem /\ n \subseteq d
             \/ r.pc = "sending" /\ i = NoItem /\ n = {} /\ ~s.known
             \/ /\ r.pc = "updateSent" /\ s.known /\ i = [s EXCEPT !.sent = @ \cup up]
                /\ n = up \ s.sent
  <2>1. ASSUME NEW k, NEW del, StartSending(t, k, del), k \in SUBSET Peer,
               k \subseteq d \/ (k = {} /\ ~s.known)
        PROVE  \E n, r, i :
          /\ n \in SUBSET Peer
          /\ go' = [go EXCEPT ![t] = [p \in Peer |-> IF p \in n THEN [NoSend EXCEPT !.st = "sending"]
                                                     ELSE NoSend]]
          /\ SetThread(t, r) /\ r.todo = th[t].todo /\ r.b = b /\ r.prev = th[t].prev
          /\ r.cons = th[t].cons /\ r.item = i
          /\ \/ r.pc = "sending" /\ i = NoItem /\ n \subseteq d
             \/ r.pc = "sending" /\ i = NoItem /\ n = {} /\ ~s.known
    <3>1. PICK q : q = [th[t] EXCEPT !.pc = "sending", !.del = del, !.ok = FALSE, !.item = NoItem]
      OBVIOUS
    <3>2. /\ SetThread(t, q)
          /\ go' = [go EXCEPT ![t] = [p \in Peer |-> IF p \in k THEN [NoSend EXCEPT !.st = "sending"]
                                                     ELSE NoSend]]
      BY <2>1, <3>1 DEF StartSending
    <3>3. /\ q.todo = th[t].todo /\ q.b = b /\ q.prev = th[t].prev
          /\ q.cons = th[t].cons /\ q.item = NoItem /\ q.pc = "sending"
      BY <1>1, <1>2, <3>1 DEF ThreadState
    <3> WITNESS k, q, NoItem
    <3> QED BY <2>1, <3>2, <3>3
  <2>2. CASE senderForDestination(t) /\ up \cap {Header[th[t].b].dest} # {}
    <3>1. PICK k : k = up \cap d
      OBVIOUS
    <3>2. StartSending(t, k, TRUE) /\ k \in SUBSET Peer /\ k \subseteq d
      BY <1>1, <1>2, <1>4, <2>2, <3>1 DEF senderForDestination
    <3> QED BY <2>1, <3>2
  <2>3. CASE SenderForBundle(t) /\ ~s.known
    <3>1. PICK k : k = {}
      OBVIOUS
    <3>2. StartSending(t, k, FALSE) /\ k \in SUBSET Peer
      BY <1>1, <1>4, <2>3, <3>1 DEF SenderForBundle
    <3> QED BY <2>1, <2>3, <3>1, <3>2
  <2>4. CASE SenderForBundle(t) /\ s.known
    <3>1. PICK i : i = [s EXCEPT !.sent = @ \cup up]
      OBVIOUS
    <3>2. PICK q : q = [th[t] EXCEPT !.pc = "updateSent", !.item = i]
      OBVIOUS
    <3>3. PICK k : k = up \ s.sent
      OBVIOUS
    <3>4. /\ SetThread(t, q)
          /\ go' = [go EXCEPT ![t] = [p \in Peer |-> IF p \in k THEN [NoSend EXCEPT !.st = "sending"]
                                                     ELSE NoSend]]
      BY <1>1, <1>4, <2>4, <3>1, <3>2, <3>3 DEF SenderForBundle, filterCLAs
    <3>5. /\ q.todo = th[t].todo /\ q.b = b /\ q.prev = th[t].prev
          /\ q.cons = th[t].cons /\ q.item = i /\ q.pc = "updateSent"
      BY <1>1, <1>2, <3>2 DEF ThreadState
    <3>6. k \in SUBSET Peer
      BY <1>2, <3>3
    <3> WITNESS k, q, i
    <3> QED BY <2>4, <3>1, <3>3, <3>4, <3>5, <3>6
  <2> QED BY <2>2, <2>3, <2>4
<1>9. PICK g : g = [p \in Peer |-> IF p \in n THEN [NoSend EXCEPT !.st = "sending"] ELSE NoSend]
  OBVIOUS
<1>10. /\ g = go'[t] /\ \A u \in Thread : u # t => go'[u] = go[u]
       /\ \A p \in Peer : g[p].st # "update" /\ (g[p].st # "none" => p \in n)
       /\ Flying(g) = n
  <2>1. g = go'[t] /\ \A u \in Thread : u # t => go'[u] = go[u]
    BY <1>2, <1>8, <1>9
  <2>2. \A p \in Peer : g[p].st = IF p \in n THEN "sending" ELSE "none"
    BY <1>9 DEF NoSend
  <2>3. Flying(g) = n
    BY <1>8, <2>2 DEF Flying
  <2> QED BY <2>1, <2>2, <2>3
<1>11. /\ i.cons = {} \/ i.cons = s.cons
       /\ r.pc = "updateSent" => i.sent = s.sent \cup up
  BY <1>2, <1>4, <1>8 DEF NoItem, BundleItem
<1>12. crashes = 0 /\ fate[b] = {} => TrueAt(r, s, Holders(b), g)
  <2>1. r.pc # "sending" => r.pc = "updateSent" /\ n = up \ s.sent
    BY <1>8
  <2> QED BY <1>6, <1>8, <1>10, <1>11, <2>1 DEF TrueAt
<1>13. Calm(b) => KeptAt(r, s, h, g, d, x)
  <2> SUFFICES ASSUME Calm(b) PROVE KeptAt(r, s, h, g, d, x)
    OBVIOUS
  <2>1. ~Early(r) /\ ~OnWay(r)
    BY <1>8 DEF Early, OnWay
  <2>2. /\ r.pc = "updateSent" => h \cup (n \ d) \subseteq i.sent
        /\ r.pc = "sending" /\ s.known => h \cup (n \ d) \subseteq s.sent
        /\ (n \ d) \cap h = {}
    BY <1>7, <1>8, <1>11
  <2>3. SendingKept(r, s, h, g, d)
    BY <1>8, <1>10, <2>2 DEF SendingKept
  <2> QED BY <1>6, <2>1, <2>3 DEF KeptAt
<1>14. crashes = 0 /\ ~Repeated(b) => GoneAt(r, s, fate[b], g)
  BY <1>6, <1>8, <1>10, <1>11 DEF GoneAt
<1>15. /\ Holders(b)' = Holders(b) /\ Others(b)' = Others(b) /\ Calm(b)' = Calm(b)
  BY <1>2, <1>4 DEF Holders, Others, Calm, Repeated
<1>16. /\ crashes = 0 /\ fate'[b] = {} => TrueAt(r, store'[b], Holders(b)', go'[t])
       /\ Calm(b)' => KeptAt(r, store'[b], Others(b)', go'[t], {Header[b].dest}, b \in expired)
       /\ crashes = 0 /\ ~Repeated(b) => GoneAt(r, store'[b], fate'[b], go'[t])
  BY <1>2, <1>4, <1>10, <1>12, <1>13, <1>14, <1>15
<1>17. Working(r) /\ r.pc \in {"updateSent", "sending"}
  BY <1>8 DEF Working
<1>18. Alone'
  <2>1. Alone
    BY DEF SerialInv
  <2> QED BY <1>10, <2>1 DEF Alone
<1>19. /\ \A e \in Bundle : e # b => got'[e] = got[e] /\ store'[e] = store[e] /\ fate'[e] = fate[e]
       /\ SetThread(t, r) /\ r.todo = th[t].todo /\ r.b = b /\ r.prev = th[t].prev
       /\ ~store'[b].known => store'[b] = NoItem
       /\ UNCHANGED <<expired, rx, crashes, accepted, from>>
       /\ \A u \in Thread : u # t => go'[u] = go[u]
  BY <1>2, <1>4, <1>5, <1>8, <1>10
<1> QED BY <1>1, <1>3, <1>16, <1>17, <1>18, <1>19, WorkFrame

(* The same while a bundle is being sent, when the goroutine that waits    *)
(* for the transmissions g has no item of its own.                         *)
SentTrue(s, h, g) ==
    /\ s.sent \subseteq h \cup Flying(g)
    /\ \A q \in Peer : g[q].st = "update" => g[q].item.sent \subseteq h \cup Flying(g)

SentKept(s, h, g, d) ==
    /\ s.known => h \cup (Flying(g) \ d) \subseteq s.sent
    /\ (Flying(g) \ d) \cap h = {}
    /\ \A q \in Peer : g[q].st = "update" => h \cup (Flying(g) \ d) \subseteq g[q].item.sent

SentGone(s, g) ==
    /\ "LocalEndpoint" \notin s.cons
    /\ \A q \in Peer : g[q].st = "update" => "LocalEndpoint" \notin g[q].item.cons

(* A step while the bundle is being sent, or just before: what it must     *)
(* make of the item s and of the transmissions g, and what it can build on *)
LEMMA SendingFrame ==
  ASSUME IndInv, MarkInv, SerialInv, TypeOK', Alone',
         UNCHANGED <<expired, rx, crashes, accepted, from, fate>>,
         NEW t \in Thread, NEW b \in Bundle, b = th[t].b, th[t].pc \in {"updateSent", "sending"},
         \A c \in Bundle : c # b => got'[c] = got[c] /\ store'[c] = store[c],
         \A u \in Thread : u # t => go'[u] = go[u],
         NEW r, SetThread(t, r), r.todo = th[t].todo, r.b = b, r.prev = th[t].prev,
         r.pc = "sending", r.cons = th[t].cons,
         r.item.cons = {} \/ r.item = th[t].item,
         ~store'[b].known => store'[b] = NoItem,
         crashes = 0 /\ fate[b] = {} => SentTrue(store'[b], Holders(b)', go'[t]),
         Calm(b) => SentKept(store'[b], Others(b)', go'[t], {Header[b].dest}),
         crashes = 0 /\ ~Repeated(b) => SentGone(store'[b], go'[t])
  PROVE  SerialInv'
<1>0. PICK s, g, h, d : s = store'[b] /\ g = go'[t] /\ h = Others(b)' /\ d = {Header[b].dest}
  OBVIOUS
<1>1. Working(th[t]) /\ Working(r) /\ Front(th[t]) /\ ~Early(r) /\ ~OnWay(r)
  BY DEF Working, Front, Early, OnWay
<1>2. Calm(b)' = Calm(b)
  BY DEF Calm, Repeated
<1>3. crashes = 0 /\ fate[b] = {} => TrueAt(r, s, Holders(b)', g)
  BY <1>0 DEF TrueAt, SentTrue
<1>4. Calm(b) => KeptAt(r, s, h, g, d, b \in expired)
  <2> SUFFICES ASSUME Calm(b) PROVE KeptAt(r, s, h, g, d, b \in expired)
    OBVIOUS
  <2>1. SendingKept(r, s, h, g, d)
    BY <1>0 DEF SendingKept, SentKept
  <2>2. s.pending => s.known
    BY <1>0 DEF NoItem
  <2>3. s.pending => h \subseteq s.sent
    BY <1>0, <2>2 DEF SentKept
  <2> QED BY <1>1, <2>1, <2>3 DEF KeptAt
<1>5. crashes = 0 /\ ~Repeated(b) => GoneAt(r, s, fate[b], g)
  <2> SUFFICES ASSUME crashes = 0, ~Repeated(b) PROVE GoneAt(r, s, fate[b], g)
    OBVIOUS
  <2>1. GoneAt(th[t], store[b], fate[b], go[t])
    BY <1>1, WorkFacts
  <2>2. ~Over(fate[b]) /\ "LocalEndpoint" \notin th[t].cons \cup th[t].item.cons
    BY <1>1, <2>1 DEF GoneAt
  <2> QED BY <1>0, <2>2 DEF GoneAt, SentGone
<1>6. /\ crashes = 0 /\ fate'[b] = {} => TrueAt(r, store'[b], Holders(b)', go'[t])
      /\ Calm(b)' => KeptAt(r, store'[b], Others(b)', go'[t], {Header[b].dest}, b \in expired)
      /\ crashes = 0 /\ ~Repeated(b) => GoneAt(r, store'[b], fate'[b], go'[t])
  BY <1>0, <1>2, <1>3, <1>4, <1>5
<1>7. \A c \in Bundle : c # b => got'[c] = got[c] /\ store'[c] = store[c] /\ fate'[c] = fate[c]
  OBVIOUS
<1>8. ~store'[b].known => store'[b] = NoItem
  OBVIOUS
<1> QED BY <1>1, <1>6, <1>7, <1>8, WorkFrame

(* What holds of the transmissions *)
LEMMA SendingFacts ==
  ASSUME SerialInv, NEW t \in Thread, NEW b \in Bundle, b = th[t].b,
         th[t].pc \in {"updateSent", "sending"}
  PROVE  /\ ~store[b].known => store[b] = NoItem
         /\ crashes = 0 /\ fate[b] = {} =>
             /\ SentTrue(store[b], Holders(b), go[t])
             /\ th[t].pc = "updateSent" => SentTrue(th[t].item, Holders(b), go[t])
         /\ Calm(b) =>
             /\ th[t].pc = "updateSent" => SentKept(th[t].item, Others(b), go[t], {Header[b].dest})
             /\ th[t].pc = "sending" => SentKept(store[b], Others(b), go[t], {Header[b].dest})
         /\ Others(b) \cap {Header[b].dest} = {}
         /\ crashes = 0 /\ ~Repeated(b) => SentGone(store[b], go[t]) /\ SentGone(th[t].item, go[t])
<1>0. PICK s, g, h, d : s = store[b] /\ g = go[t] /\ h = Others(b) /\ d = {Header[b].dest}
  OBVIOUS
<1>1. Working(th[t]) /\ Front(th[t])
  BY DEF Working, Front
<1>2. /\ ~s.known => s = NoItem
      /\ crashes = 0 /\ fate[b] = {} => TrueAt(th[t], s, Holders(b), g)
      /\ Calm(b) => SendingKept(th[t], s, h, g, d)
      /\ crashes = 0 /\ ~Repeated(b) => GoneAt(th[t], s, fate[b], g)
  BY <1>0, <1>1, WorkFacts DEF KeptAt
<1>3. h \cap d = {}
  BY <1>0 DEF Others
<1>4. crashes = 0 /\ fate[b] = {} =>
          /\ SentTrue(s, Holders(b), g)
          /\ th[t].pc = "updateSent" => SentTrue(th[t].item, Holders(b), g)
  BY <1>2 DEF TrueAt, SentTrue
<1>5. Calm(b) =>
          /\ th[t].pc = "updateSent" => SentKept(th[t].item, h, g, d)
          /\ th[t].pc = "sending" => SentKept(s, h, g, d)
  BY <1>2 DEF SendingKept, SentKept
<1>6. crashes = 0 /\ ~Repeated(b) => SentGone(s, g) /\ SentGone(th[t].item, g)
  BY <1>1, <1>2 DEF GoneAt, SentGone
<1> QED BY <1>0, <1>2, <1>3, <1>4, <1>5, <1>6

(* The update of the sent list *)
LEMMA UpdateSentSerial ==
  ASSUME IndInv, MarkInv, SerialInv, TypeOK', NEW t \in Thread, UpdateSent(t)
  PROVE  SerialInv'
<1>1. PICK b \in Bundle : b = th[t].b
  BY LocalType DEF IndInv
<1>2. /\ UNCHANGED <<go, expired, rx, crashes, accepted, from, got, fate>>
      /\ th[t].pc = "updateSent" /\ th[t] \in ThreadState
      /\ store \in [Bundle -> BundleItem] /\ th[t].item.known
  BY LocalType DEF UpdateSent, At, env, history, IndInv, TypeOK, ThreadOK, WritesKnown
<1>3. \A c \in Bundle : c # b => got'[c] = got[c] /\ store'[c] = store[c]
  BY <1>1, <1>2 DEF UpdateSent, StoreUpdate
<1>4. PICK s, o, g, h, d, i : /\ s = store'[b] /\ o = store[b] /\ g = go[t] /\ h = Others(b)
                              /\ d = {Header[b].dest} /\ i = th[t].item
  OBVIOUS
<1>5. s = IF o.known THEN i ELSE o
  BY <1>1, <1>2, <1>4 DEF UpdateSent, StoreUpdate
<1>6. PICK r : /\ SetThread(t, r) /\ r.todo = th[t].todo /\ r.b = b /\ r.prev = th[t].prev
               /\ r.pc = "sending" /\ r.cons = th[t].cons /\ r.item = NoItem
  <2>1. PICK q : q = [th[t] EXCEPT !.pc = "sending", !.del = FALSE, !.ok = FALSE, !.item = NoItem]
    OBVIOUS
  <2>2. SetThread(t, q)
    BY <2>1 DEF UpdateSent
  <2>3. /\ q.todo = th[t].todo /\ q.b = b /\ q.prev = th[t].prev
        /\ q.pc = "sending" /\ q.cons = th[t].cons /\ q.item = NoItem
    BY <1>1, <1>2, <2>1 DEF ThreadState
  <2> QED BY <2>2, <2>3
<1>7. /\ ~o.known => o = NoItem
      /\ crashes = 0 /\ fate[b] = {} => SentTrue(o, Holders(b), g) /\ SentTrue(i, Holders(b), g)
      /\ Calm(b) => SentKept(i, h, g, d)
      /\ crashes = 0 /\ ~Repeated(b) => SentGone(o, g) /\ SentGone(i, g)
  BY <1>1, <1>2, <1>4, SendingFacts
<1>8. /\ Holders(b)' = Holders(b) /\ h = Others(b)' /\ Alone' /\ g = go'[t] /\ NoItem.cons = {}
  BY <1>2, <1>4 DEF Holders, Others, SerialInv, Alone, NoItem
<1>9. /\ crashes = 0 /\ fate[b] = {} => SentTrue(s, Holders(b)', g)
      /\ Calm(b) => SentKept(s, h, g, d)
      /\ crashes = 0 /\ ~Repeated(b) => SentGone(s, g)
      /\ ~s.known => s = NoItem
  <2>1. CASE o.known
    BY <1>2, <1>4, <1>5, <1>7, <1>8, <2>1
  <2>2. CASE ~o.known
    <3>1. Calm(b) => SentKept(o, h, g, d)
      BY <1>7, <2>2 DEF SentKept
    <3> QED BY <1>5, <1>7, <1>8, <2>2, <3>1
  <2> QED BY <2>1, <2>2
<1>10. r.item.cons = {} /\ \A u \in Thread : u # t => go'[u] = go[u]
  BY <1>2, <1>6, <1>8
<1>11. /\ ~store'[b].known => store'[b] = NoItem
       /\ crashes = 0 /\ fate[b] = {} => SentTrue(store'[b], Holders(b)', go'[t])
       /\ Calm(b) => SentKept(store'[b], Others(b)', go'[t], {Header[b].dest})
       /\ crashes = 0 /\ ~Repeated(b) => SentGone(store'[b], go'[t])
  BY <1>4, <1>8, <1>9
<1>12. /\ Alone'
       /\ th[t].pc \in {"updateSent", "sending"}
       /\ SetThread(t, r) /\ r.todo = th[t].todo /\ r.b = b /\ r.prev = th[t].prev
       /\ r.pc = "sending" /\ r.cons = th[t].cons
       /\ UNCHANGED <<expired, rx, crashes, accepted, from, fate>>
  BY <1>2, <1>4, <1>6, <1>8
<1> QED BY <1>1, <1>3, <1>10, <1>11, <1>12, SendingFrame

(* Send's return, and ReportFailure *)
LEMMA TransmitSerial ==
  ASSUME IndInv, MarkInv, SerialInv, TypeOK', Alone', NEW t \in Thread, NEW p \in Peer,
         SendOk(t, p) \/ SendFail(t, p) \/ ReportFailureRead(t, p) \/ ReportFailureUpdate(t, p)
  PROVE  SerialInv'
<1>1. PICK b \in Bundle : b = th[t].b
  BY LocalType DEF IndInv
<1>2. /\ UNCHANGED <<expired, rx, crashes, accepted, from, fate>>
      /\ th[t].pc = "sending" /\ th[t] \in ThreadState /\ store \in [Bundle -> BundleItem]
      /\ th \in [Thread -> ThreadState]
      /\ go \in [Thread -> [Peer -> SendState]] /\ got \in [Bundle -> SUBSET Peer]
      /\ go[t][p].st # "none"
  BY LocalType DEF SendOk, SendFail, ReportFailureRead, ReportFailureUpdate, At, env, history,
                   IndInv, TypeOK
<1>3. PICK s, o, g, f, h, k, d : /\ s = store'[b] /\ o = store[b] /\ g = go[t] /\ f = go'[t]
                                 /\ h = Others(b) /\ k = Others(b)' /\ d = {Header[b].dest}
  OBVIOUS
<1>4. PICK e : SetGo(t, p, e)
  BY DEF SendOk, SendFail, ReportFailureRead, ReportFailureUpdate
<1>5. /\ f[p] = e /\ \A q \in Peer : q # p => f[q] = g[q]
      /\ \A u \in Thread : u # t => go'[u] = go[u]
  BY <1>2, <1>3, <1>4 DEF SetGo
<1>6. /\ e.st = "none" => Flying(f) = Flying(g) \ {p}
      /\ e.st # "none" => Flying(f) = Flying(g)
      /\ p \in Flying(g)
  <2>1. p \in Flying(g) /\ \A q \in Peer : q \in Flying(g) <=> g[q].st # "none"
    BY <1>2, <1>3 DEF Flying
  <2>2. \A q \in Peer : q \in Flying(f) <=> f[q].st # "none"
    BY DEF Flying
  <2>3. Flying(f) \subseteq Peer /\ Flying(g) \subseteq Peer
    BY DEF Flying
  <2> QED BY <1>5, <2>1, <2>2, <2>3
<1>7. /\ ~o.known => o = NoItem
      /\ crashes = 0 /\ fate[b] = {} => SentTrue(o, Holders(b), g)
      /\ Calm(b) => SentKept(o, h, g, d)
      /\ h \cap d = {}
      /\ crashes = 0 /\ ~Repeated(b) => SentGone(o, g)
  BY <1>1, <1>2, <1>3, SendingFacts
<1>8. PICK r : /\ SetThread(t, r) /\ r.todo = th[t].todo /\ r.b = b /\ r.prev = th[t].prev
               /\ r.pc = "sending" /\ r.cons = th[t].cons /\ r.item = th[t].item
  <2>1. CASE SendOk(t, p)
    <3>1. PICK q : q = [th[t] EXCEPT !.ok = TRUE]
      OBVIOUS
    <3>2. SetThread(t, q)
      BY <2>1, <3>1 DEF SendOk
    <3>3. /\ q.todo = th[t].todo /\ q.b = b /\ q.prev = th[t].prev
          /\ q.pc = "sending" /\ q.cons = th[t].cons /\ q.item = th[t].item
      BY <1>1, <1>2, <3>1 DEF ThreadState
    <3> QED BY <3>2, <3>3
  <2>2. CASE ~SendOk(t, p)
    <3>1. UNCHANGED th
      BY <2>2 DEF SendFail, ReportFailureRead, ReportFailureUpdate
    <3>2. SetThread(t, th[t])
      BY <1>2, <3>1 DEF SetThread
    <3> QED BY <1>1, <1>2, <3>2
  <2> QED BY <2>1, <2>2
<1>9. /\ ~s.known => s = NoItem
      /\ crashes = 0 /\ fate[b] = {} => SentTrue(s, Holders(b)', f)
      /\ Calm(b) => SentKept(s, k, f, d)
      /\ crashes = 0 /\ ~Repeated(b) => SentGone(s, f)
      /\ \A c \in Bundle : c # b => got'[c] = got[c] /\ store'[c] = store[c]
  <2>1. CASE SendOk(t, p)
    <3>1. /\ s = o /\ Holders(b)' = Holders(b) \cup {p} /\ k = (h \cup {p}) \ d
          /\ \A c \in Bundle : c # b => got'[c] = got[c] /\ store'[c] = store[c]
      BY <1>1, <1>2, <1>3, <1>7, <2>1 DEF SendOk, Holders, Others
    <3>2. e = NoSend /\ e.st = "none"
      <4>1. SetGo(t, p, NoSend)
        BY <2>1 DEF SendOk
      <4>2. f[p] = NoSend
        BY <1>2, <1>3, <4>1 DEF SetGo
      <4> QED BY <1>5, <4>2 DEF NoSend
    <3>3. \A q \in Peer : f[q].st = "update" => q # p /\ g[q].st = "update" /\ f[q] = g[q]
      BY <1>5, <3>2
    <3>4. Holders(b)' \cup Flying(f) = Holders(b) \cup Flying(g)
      BY <1>6, <3>1, <3>2
    <3>5. k \cup (Flying(f) \ d) = h \cup (Flying(g) \ d) /\ ((Flying(g) \ d) \cap h = {} => (Flying(f) \ d) \cap k = {})
      BY <1>6, <1>7, <3>1, <3>2
    <3>6. crashes = 0 /\ fate[b] = {} => SentTrue(s, Holders(b)', f)
      BY <1>7, <3>1, <3>3, <3>4 DEF SentTrue
    <3>7. Calm(b) => SentKept(s, k, f, d)
      BY <1>7, <3>1, <3>3, <3>5 DEF SentKept
    <3>8. crashes = 0 /\ ~Repeated(b) => SentGone(s, f)
      BY <1>7, <3>1, <3>3 DEF SentGone
    <3> QED BY <1>7, <3>1, <3>6, <3>7, <3>8
  <2>2. CASE SendFail(t, p) \/ ReportFailureRead(t, p)
    <3>1. /\ s = o /\ Holders(b)' = Holders(b) /\ k = h
          /\ \A c \in Bundle : c # b => got'[c] = got[c] /\ store'[c] = store[c]
      BY <1>3, <2>2 DEF SendFail, ReportFailureRead, history, Holders, Others
    <3>2. \/ e.st = "failed"
          \/ e.st = "update" /\ e.item = o /\ o.known
          \/ e.st = "none" /\ ~o.known
      <4>1. PICK y : y = [NoSend EXCEPT !.st = "failed"]
        OBVIOUS
      <4>2. PICK z : z = [st |-> "update", item |-> o]
        OBVIOUS
      <4>3. y.st = "failed" /\ z.st = "update" /\ z.item = o /\ NoSend.st = "none"
        BY <4>1, <4>2 DEF NoSend
      <4>4. SetGo(t, p, y) \/ (SetGo(t, p, z) /\ o.known) \/ (SetGo(t, p, NoSend) /\ ~o.known)
        BY <1>1, <1>3, <2>2, <4>1, <4>2 DEF SendFail, ReportFailureRead
      <4>5. f[p] = y \/ (f[p] = z /\ o.known) \/ (f[p] = NoSend /\ ~o.known)
        BY <1>2, <1>3, <4>4 DEF SetGo
      <4> QED BY <1>5, <4>3, <4>5
    <3>3. \A q \in Peer : f[q].st = "update" =>
              \/ g[q].st = "update" /\ f[q] = g[q]
              \/ f[q].item = o /\ o.known
      BY <1>5, <3>2
    <3>4. e.st = "none" /\ crashes = 0 => fate[b] # {}
      <4>1. Working(th[t]) /\ ~Vouching(th[t])
        BY <1>2 DEF Working, Vouching, InReception, InSubmission, InDelivery
      <4>2. fate[b] = {} => o.known
        BY <1>1, <1>3, <4>1, KnownAtWork
      <4> QED BY <3>2, <4>2
    <3>5. crashes = 0 /\ fate[b] = {} => SentTrue(s, Holders(b)', f)
      BY <1>6, <1>7, <3>1, <3>3, <3>4 DEF SentTrue
    <3>6. Calm(b) => SentKept(s, k, f, d)
      <4>1. Flying(f) \subseteq Flying(g)
        BY <1>6
      <4>2. k \cup (Flying(f) \ d) \subseteq h \cup (Flying(g) \ d)
        BY <3>1, <4>1
      <4> QED BY <1>7, <3>1, <3>3, <4>1, <4>2 DEF SentKept
    <3>7. crashes = 0 /\ ~Repeated(b) => SentGone(s, f)
      BY <1>7, <3>1, <3>3 DEF SentGone
    <3> QED BY <1>7, <3>1, <3>5, <3>6, <3>7
  <2>3. CASE ReportFailureUpdate(t, p)
    <3>1. /\ Holders(b)' = Holders(b) /\ k = h /\ g[p].st = "update" /\ g[p].item.known
          /\ g[p].item \in BundleItem
          /\ \A c \in Bundle : c # b => got'[c] = got[c] /\ store'[c] = store[c]
      <4>1. g[p] \in SendState
        BY <1>2, <1>3
      <4>2. g[p].item \in BundleItem
        BY <4>1 DEF SendState
      <4> QED BY <1>1, <1>2, <1>3, <2>3, <4>2 DEF ReportFailureUpdate, StoreUpdate, history, Holders, Others,
                                       IndInv, FailureKnown
    <3>2. e.st = "none"
      <4>1. SetGo(t, p, NoSend)
        BY <2>3 DEF ReportFailureUpdate
      <4>2. f[p] = NoSend
        BY <1>2, <1>3, <4>1 DEF SetGo
      <4> QED BY <1>5, <4>2 DEF NoSend
    <3>3. \/ s = o /\ ~o.known
          \/ s.known /\ s.sent = g[p].item.sent \ {p} /\ s.cons = g[p].item.cons
      <4>1. PICK j : j = [g[p].item EXCEPT !.sent = @ \ {p}]
        OBVIOUS
      <4>2. j.known /\ j.sent = g[p].item.sent \ {p} /\ j.cons = g[p].item.cons
        BY <3>1, <4>1 DEF BundleItem
      <4>3. s = IF o.known THEN j ELSE o
        BY <1>1, <1>2, <1>3, <2>3, <4>1 DEF ReportFailureUpdate, StoreUpdate
      <4> QED BY <4>2, <4>3
    <3>4. \A q \in Peer : f[q].st # "update"
      <4>1. \A q \in Peer : q # p => g[q].st # "update"
        BY <1>3, <3>1 DEF SerialInv, Alone
      <4> QED BY <1>5, <3>2, <4>1
    <3>5. crashes = 0 /\ fate[b] = {} => SentTrue(s, Holders(b)', f)
      <4>1. NoItem.sent = {}
        BY DEF NoItem
      <4> QED BY <1>6, <1>7, <3>1, <3>2, <3>3, <3>4, <4>1 DEF SentTrue
    <3>6. Calm(b) => SentKept(s, k, f, d)
      <4>1. Calm(b) => p \notin h
        BY <1>6, <1>7 DEF SentKept
      <4> QED BY <1>6, <1>7, <3>1, <3>2, <3>3, <3>4, <4>1 DEF SentKept
    <3>7. crashes = 0 /\ ~Repeated(b) => SentGone(s, f)
      BY <1>7, <3>1, <3>3, <3>4 DEF SentGone
    <3> QED BY <1>7, <3>1, <3>3, <3>5, <3>6, <3>7
  <2> QED BY <2>1, <2>2, <2>3
<1>10. /\ th[t].pc \in {"updateSent", "sending"}
       /\ SetThread(t, r) /\ r.todo = th[t].todo /\ r.b = b /\ r.prev = th[t].prev
       /\ r.pc = "sending" /\ r.cons = th[t].cons
       /\ r.item.cons = {} \/ r.item = th[t].item
       /\ UNCHANGED <<expired, rx, crashes, accepted, from, fate>>
       /\ \A u \in Thread : u # t => go'[u] = go[u]
  BY <1>2, <1>5, <1>8
<1>11. /\ ~store'[b].known => store'[b] = NoItem
       /\ crashes = 0 /\ fate[b] = {} => SentTrue(store'[b], Holders(b)', go'[t])
       /\ Calm(b) => SentKept(store'[b], Others(b)', go'[t], {Header[b].dest})
       /\ crashes = 0 /\ ~Repeated(b) => SentGone(store'[b], go'[t])
       /\ \A c \in Bundle : c # b => got'[c] = got[c] /\ store'[c] = store[c]
  BY <1>3, <1>9
<1> QED BY <1>1, <1>10, <1>11, SendingFrame

(* A status report deletes the bundles it calls delivered, even the one    *)
(* that carries it.                                                        *)
LEMMA ReportFrame ==
  ASSUME IndInv, NEW t \in Thread, InspectStatusReport(t)
  PROVE  \A c \in Bundle :
             \/ store'[c] = store[c] /\ fate'[c] = fate[c]
             \/ store[c].known /\ store'[c] = NoItem /\ fate'[c] = fate[c] \cup {"reported"}
BY DEF InspectStatusReport, IndInv, TypeOK

(* Inspecting an administrative record, forwarded or delivered *)
LEMMA InspectSerial ==
  ASSUME IndInv, MarkInv, SerialInv, TypeOK', NEW t \in Thread,
         Inspect(t) \/ (localDelivery(t) /\ Header[th[t].b].admin = "report")
  PROVE  SerialInv'
<1>1. PICK b \in Bundle : b = th[t].b
  BY LocalType DEF IndInv
<1>2. /\ UNCHANGED <<go, expired, rx, crashes, accepted, from, got>>
      /\ th[t].pc \in {"inspect", "localDelivery"} /\ th[t] \in ThreadState
  BY LocalType DEF Inspect, localDelivery, At, env, IndInv
<1>3. Working(th[t]) /\ Front(th[t])
  BY <1>2 DEF Working, Front
<1>4. \A c \in Bundle :
          \/ store'[c] = store[c] /\ fate'[c] = fate[c]
          \/ store[c].known /\ store'[c] = NoItem /\ fate'[c] = fate[c] \cup {"reported"}
  <2>1. InspectStatusReport(t) \/ UNCHANGED <<store, fate>>
    BY DEF Inspect, localDelivery
  <2> QED BY <2>1, ReportFrame
<1>5. /\ \A p \in Peer : go[t][p].st = "none"
      /\ ~store[b].known => store[b] = NoItem
      /\ crashes = 0 /\ fate[b] = {} => TrueAt(th[t], store[b], Holders(b), go[t])
      /\ Calm(b) => KeptAt(th[t], store[b], Others(b), go[t], {Header[b].dest}, b \in expired)
      /\ crashes = 0 /\ ~Repeated(b) => GoneAt(th[t], store[b], fate[b], go[t])
  BY <1>1, <1>2, <1>3, WorkFacts
<1>6. /\ Flying(go[t]) = {} /\ Alone'
  BY <1>2, <1>5 DEF Flying, SerialInv, Alone
<1>7. crashes = 0 /\ ~Repeated(b) =>
          ~Over(fate[b]) /\ "LocalEndpoint" \notin th[t].cons \cup th[t].item.cons \cup store[b].cons
  BY <1>2, <1>3, <1>5 DEF GoneAt
<1>8. /\ \A c \in Bundle : c # b =>
             /\ got'[c] = got[c]
             /\ \/ store'[c] = store[c] /\ fate'[c] = fate[c]
                \/ store[c].known /\ store'[c] = NoItem /\ "reported" \in fate'[c]
      /\ \A u \in Thread : u # t => go'[u] = go[u]
      /\ ~store'[b].known => store'[b] = NoItem
      /\ \A p \in Peer : go'[t][p].st = "none"
  BY <1>2, <1>4, <1>5
<1>9. CASE Inspect(t)
  <2>1. SetThread(t, Finished(th[t])) /\ Finished(th[t]).todo = th[t].todo
    BY <1>9 DEF Inspect, Done, Finished, Idle
  <2>2. RestAt(b)
    <3>1. crashes = 0 /\ fate[b] = {} => store[b].sent \subseteq Holders(b)
      BY <1>5, <1>6 DEF TrueAt
    <3>2. Calm(b) /\ b \notin expired /\ store[b].pending => Others(b) \subseteq store[b].sent
      BY <1>5 DEF KeptAt
    <3> QED BY <1>7, <3>1, <3>2 DEF RestAt
  <2>3. RestAt(b)'
    BY <1>2, <1>4, <2>2, RestFrame
  <2> QED BY <1>1, <1>2, <1>3, <1>6, <1>8, <2>1, <2>3, WorkFrame
<1>10. CASE localDelivery(t) /\ Header[th[t].b].admin = "report"
  <2>1. PICK r : /\ SetThread(t, r) /\ r.todo = th[t].todo /\ r.b = b /\ r.prev = th[t].prev
                 /\ r.pc = "localSync" /\ r.cons = th[t].cons /\ r.item = th[t].item
                 /\ r.mem = th[t].mem
    <3>1. PICK q : q = [th[t] EXCEPT !.pc = "localSync"]
      OBVIOUS
    <3>2. SetThread(t, q)
      BY <1>10, <3>1 DEF localDelivery, Goto
    <3>3. /\ q.todo = th[t].todo /\ q.b = b /\ q.prev = th[t].prev
          /\ q.pc = "localSync" /\ q.cons = th[t].cons /\ q.item = th[t].item
          /\ q.mem = th[t].mem
      BY <1>1, <1>2, <3>1 DEF ThreadState
    <3> QED BY <3>2, <3>3
  <2>2. th[t].pc = "localDelivery" /\ OnWay(th[t])
    BY <1>10 DEF localDelivery, At, OnWay
  <2>3. Working(r) /\ ~Early(r) /\ OnWay(r)
    BY <2>1 DEF Working, Early, OnWay
  <2>4. PICK s, f, h, d, x, g, H : /\ s = store'[b] /\ f = fate'[b] /\ h = Others(b) /\ h = Others(b)'
                                /\ H = Holders(b) /\ H = Holders(b)' /\ g = go[t] /\ g = go'[t]
                                /\ d = {Header[b].dest} /\ x = (b \in expired)
    BY <1>2 DEF Others, Holders
  <2>5. CASE s = store[b] /\ f = fate[b]
    <3>1. crashes = 0 /\ f = {} => TrueAt(r, s, H, g)
      BY <1>5, <2>1, <2>2, <2>4, <2>5 DEF TrueAt
    <3>2. Calm(b) => KeptAt(r, s, h, g, d, x)
      <4> SUFFICES ASSUME Calm(b) PROVE KeptAt(r, s, h, g, d, x)
        OBVIOUS
      <4>1. KeptAt(th[t], s, h, g, d, x)
        BY <1>5, <2>4, <2>5
      <4>2. ~x => OnWayKept(r, s, h)
        BY <2>1, <2>2, <4>1 DEF KeptAt, OnWayKept
      <4>3. SendingKept(r, s, h, g, d)
        BY <1>5, <1>6, <2>1, <2>4 DEF SendingKept
      <4> QED BY <2>3, <4>1, <4>2, <4>3 DEF KeptAt
    <3>3. crashes = 0 /\ ~Repeated(b) => GoneAt(r, s, f, g)
      BY <1>5, <1>7, <2>1, <2>4, <2>5 DEF GoneAt
    <3>4. Calm(b)' = Calm(b)
      BY <1>2, <2>4, <2>5 DEF Calm, Repeated
    <3>5. /\ crashes = 0 /\ fate'[b] = {} => TrueAt(r, store'[b], Holders(b)', go'[t])
          /\ Calm(b)' => KeptAt(r, store'[b], Others(b)', go'[t], {Header[b].dest}, b \in expired)
          /\ crashes = 0 /\ ~Repeated(b) => GoneAt(r, store'[b], fate'[b], go'[t])
      BY <2>4, <3>1, <3>2, <3>3, <3>4
    <3>6. \A p \in Peer : go'[t][p].st # "none" => r.pc \in {"updateSent", "sending"}
      BY <1>2, <1>5
    <3> QED BY <1>1, <1>2, <1>3, <1>6, <1>8, <2>1, <2>3, <3>5, <3>6, WorkFrame
  <2>6. CASE s = NoItem /\ f = fate[b] \cup {"reported"}
    <3>1. f # {} /\ ~Over(f) /\ ~Calm(b)'
      BY <2>4, <2>6 DEF Over, Calm
    <3>2. s.cons = {}
      BY <2>6 DEF NoItem
    <3>3. crashes = 0 /\ ~Repeated(b) => GoneAt(r, s, f, g)
      BY <1>5, <1>7, <2>1, <2>4, <3>1, <3>2 DEF GoneAt
    <3>4. /\ crashes = 0 /\ fate'[b] = {} => TrueAt(r, store'[b], Holders(b)', go'[t])
          /\ Calm(b)' => KeptAt(r, store'[b], Others(b)', go'[t], {Header[b].dest}, b \in expired)
          /\ crashes = 0 /\ ~Repeated(b) => GoneAt(r, store'[b], fate'[b], go'[t])
      BY <2>4, <3>1, <3>3
    <3>5. \A p \in Peer : go'[t][p].st # "none" => r.pc \in {"updateSent", "sending"}
      BY <1>2, <1>5
    <3> QED BY <1>1, <1>2, <1>3, <1>6, <1>8, <2>1, <2>3, <3>4, <3>5, WorkFrame
  <2> QED BY <1>4, <2>4, <2>5, <2>6
<1> QED BY <1>9, <1>10

(* A pass of checkPendingBundles turns to its next bundle *)
LEMMA RetrySerial ==
  ASSUME IndInv, MarkInv, SerialInv, TypeOK', NEW t \in Thread, NEW b \in Bundle, NextPending(t, b)
  PROVE  SerialInv'
<1>1. /\ UNCHANGED <<store, go, expired, rx, crashes, accepted, fate, from, got>>
      /\ th[t].pc = "next" /\ b \in th[t].todo /\ th \in [Thread -> ThreadState]
  BY DEF NextPending, At, env, history, IndInv, TypeOK
<1>2. PICK r : /\ SetThread(t, r) /\ r.todo = th[t].todo \ {b} /\ r.b = b /\ r.pc = "dispatching"
               /\ r.cons = store[b].cons /\ r.item = NoItem /\ r.prev = {} /\ r.mem = FALSE
  <2>1. PICK q : q = [Idle EXCEPT !.pc = "dispatching", !.b = b, !.cons = store[b].cons,
                                  !.todo = th[t].todo \ {b}]
    OBVIOUS
  <2>2. SetThread(t, q)
    BY <2>1 DEF NextPending
  <2>3. /\ q.todo = th[t].todo \ {b} /\ q.b = b /\ q.pc = "dispatching"
        /\ q.cons = store[b].cons /\ q.item = NoItem /\ q.prev = {} /\ q.mem = FALSE
    BY <2>1 DEF Idle
  <2> QED BY <2>2, <2>3
<1>3. th'[t] = r /\ \A u \in Thread : u # t => th'[u] = th[u]
  BY <1>1, <1>2 DEF SetThread
<1>4. Sole /\ \A c \in Bundle : Quiet(c) => RestAt(c)
  BY DEF SerialInv
<1>5. \A u \in Thread : u # t => th[u].pc = "idle" /\ th[u].todo = {}
  BY <1>1, <1>4 DEF Sole
<1>6. /\ \A c \in Bundle : Quiet(c) /\ RestAt(c)
      /\ \A c \in th[t].todo : TodoAt(c)
  <2>1. \A c \in Bundle : Quiet(c)
    BY <1>1, <1>5 DEF Quiet
  <2> QED BY <1>4, <2>1 DEF SerialInv
<1>7. \A p \in Peer : go[t][p].st = "none"
  BY <1>1, <1>4 DEF Sole
<1>8. Sole'
  <2>1. \A u, v \in Thread : th'[u].pc # "idle" /\ th'[v].pc # "idle" => u = v
    BY <1>3, <1>5
  <2>2. \A u \in Thread : th'[u].pc = "idle" => th'[u].todo = {}
    BY <1>2, <1>3, <1>5
  <2>3. \A u \in Thread : Working(th'[u]) =>
          th'[u].prev \subseteq from'[th'[u].b] /\ th'[u].b \notin th'[u].todo
    BY <1>2, <1>3, <1>5 DEF Working
  <2>4. \A u \in Thread, p \in Peer :
          go'[u][p].st # "none" => th'[u].pc \in {"updateSent", "sending"}
    BY <1>1, <1>3, <1>4, <1>7 DEF Sole
  <2>5. /\ \A c \in Bundle : ~store'[c].known => store'[c] = NoItem
        /\ \A c \in Bundle \ accepted' : fate'[c] = {} /\ got'[c] = {} /\ from'[c] = {}
    BY <1>1, <1>4 DEF Sole
  <2> QED BY <2>1, <2>2, <2>3, <2>4, <2>5 DEF Sole
<1>9. \A c \in Bundle : RestAt(c)' /\ (TodoAt(c) => TodoAt(c)')
  <2>1. \A c \in Bundle : got'[c] = got[c] /\ store'[c] = store[c] /\ fate'[c] = fate[c]
    BY <1>1
  <2> QED BY <1>1, <1>6, <2>1, RestFrame
<1>10. \A u \in Thread : Working(th'[u]) => WorkAt(u)'
  <2>1. \A u \in Thread : Working(th'[u]) => u = t
    BY <1>3, <1>5 DEF Working
  <2>2. PICK s, h, d, x, g : s = store[b] /\ h = Others(b) /\ g = go[t]
                                /\ d = {Header[b].dest} /\ x = (b \in expired)
    OBVIOUS
  <2>3. NoItem.sent = {} /\ NoItem.cons = {} /\ ~NoItem.pending /\ ~NoItem.known
    BY DEF NoItem
  <2>4. Flying(g) = {} /\ \A p \in Peer : g[p].st = "none"
    BY <1>7, <2>2 DEF Flying
  <2>5. RestAt(b) /\ TodoAt(b)
    BY <1>1, <1>6
  <2>6. crashes = 0 /\ fate[b] = {} => TrueAt(r, s, Holders(b), g)
    BY <1>2, <2>2, <2>3, <2>4, <2>5 DEF TrueAt, RestAt
  <2>7. Calm(b) => KeptAt(r, s, h, g, d, x)
    <3> SUFFICES ASSUME Calm(b) PROVE KeptAt(r, s, h, g, d, x)
      OBVIOUS
    <3>1. s.pending /\ ~x => h \subseteq s.sent
      BY <2>2, <2>5 DEF RestAt
    <3>2. ~Early(r)
      BY <1>2 DEF Early
    <3>3. ~x => OnWayKept(r, s, h)
      BY <1>2, <2>2, <2>3, <2>5 DEF TodoAt, OnWayKept
    <3>4. SendingKept(r, s, h, g, d)
      BY <1>2, <2>4 DEF SendingKept
    <3> QED BY <3>1, <3>2, <3>3, <3>4 DEF KeptAt
  <2>8. crashes = 0 /\ ~Repeated(b) => GoneAt(r, s, fate[b], g)
    BY <1>2, <2>2, <2>3, <2>4, <2>5 DEF GoneAt, RestAt, TodoAt
  <2>9. /\ Others(b)' = Others(b) /\ Holders(b)' = Holders(b) /\ Calm(b)' = Calm(b)
        /\ Repeated(b)' = Repeated(b)
    BY <1>1 DEF Others, Holders, Calm, Repeated
  <2>10. /\ crashes' = 0 /\ fate'[b] = {} => TrueAt(r, store'[b], Holders(b)', go'[t])
         /\ Calm(b)' => KeptAt(r, store'[b], Others(b)', go'[t], {Header[b].dest}, b \in expired')
         /\ crashes' = 0 /\ ~Repeated(b)' => GoneAt(r, store'[b], fate'[b], go'[t])
    BY <1>1, <2>2, <2>6, <2>7, <2>8, <2>9
  <2>11. WorkAt(t)'
    BY <1>2, <1>3, <2>10 DEF WorkAt
  <2> QED BY <2>1, <2>11
<1>11. \A u \in Thread : \A c \in th'[u].todo : TodoAt(c)'
  <2> SUFFICES ASSUME NEW u \in Thread, NEW c \in th'[u].todo PROVE TodoAt(c)'
    OBVIOUS
  <2>1. c \in th[t].todo
    BY <1>2, <1>3, <1>5
  <2>2. c \in Bundle
    BY <2>1, LocalType DEF IndInv
  <2> QED BY <1>6, <1>9, <2>1, <2>2
<1>12. Alone'
  BY <1>1 DEF SerialInv, Alone
<1> QED BY <1>8, <1>9, <1>10, <1>11, <1>12 DEF SerialInv

(* A pass of checkPendingBundles begins when no goroutine is at work *)
LEMMA CheckSerial ==
  ASSUME IndInv, MarkInv, SerialInv, TypeOK', NEW t \in Thread, \A u \in Thread : At(u, "idle"),
         CheckPending(t), UNCHANGED <<expired, rx, crashes>>
  PROVE  SerialInv'
<1>1. /\ UNCHANGED <<store, go, expired, rx, crashes, accepted, fate, from, got>>
      /\ th \in [Thread -> ThreadState] /\ \A u \in Thread : th[u].pc = "idle"
  BY DEF CheckPending, At, history, IndInv, TypeOK
<1>2. PICK r : /\ SetThread(t, r) /\ r.todo = {b \in Bundle : store[b].pending}
               /\ r.pc = IF r.todo = {} THEN "idle" ELSE "next"
  <2>1. PICK n : n = {b \in Bundle : store[b].pending}
    OBVIOUS
  <2>2. PICK q : q = Finished([Idle EXCEPT !.todo = n])
    OBVIOUS
  <2>3. SetThread(t, q)
    BY <2>1, <2>2 DEF CheckPending
  <2>4. q.todo = n /\ q.pc = IF n = {} THEN "idle" ELSE "next"
    BY <2>2 DEF Finished, Idle
  <2> QED BY <2>1, <2>3, <2>4
<1>3. th'[t] = r /\ \A u \in Thread : u # t => th'[u] = th[u]
  BY <1>1, <1>2 DEF SetThread
<1>4. Sole /\ \A c \in Bundle : Quiet(c) => RestAt(c)
  BY DEF SerialInv
<1>5. \A c \in Bundle : RestAt(c)
  <2>1. \A c \in Bundle : Quiet(c)
    BY <1>1 DEF Quiet
  <2> QED BY <1>4, <2>1
<1>6. r.pc \in {"idle", "next"}
  BY <1>2
<1>7. Sole'
  <2>1. \A u, v \in Thread : th'[u].pc # "idle" /\ th'[v].pc # "idle" => u = v
    BY <1>1, <1>3
  <2>2. \A u \in Thread : th'[u].pc = "idle" => th'[u].todo = {}
    BY <1>1, <1>2, <1>3, <1>4 DEF Sole
  <2>3. \A u \in Thread : ~Working(th'[u])
    BY <1>1, <1>3, <1>6 DEF Working
  <2>4. \A u \in Thread, p \in Peer : go'[u][p].st = "none"
    BY <1>1, <1>4 DEF Sole
  <2>5. /\ \A c \in Bundle : ~store'[c].known => store'[c] = NoItem
        /\ \A c \in Bundle \ accepted' : fate'[c] = {} /\ got'[c] = {} /\ from'[c] = {}
    BY <1>1, <1>4 DEF Sole
  <2> QED BY <2>1, <2>2, <2>3, <2>4, <2>5 DEF Sole
<1>8. \A c \in Bundle : RestAt(c)' /\ (TodoAt(c) => TodoAt(c)')
  <2>1. \A c \in Bundle : got'[c] = got[c] /\ store'[c] = store[c] /\ fate'[c] = fate[c]
    BY <1>1
  <2> QED BY <1>1, <1>5, <2>1, RestFrame
<1>9. \A u \in Thread : ~Working(th'[u])
  BY <1>1, <1>3, <1>6 DEF Working
<1>10. \A u \in Thread : \A c \in th'[u].todo : TodoAt(c)'
  <2> SUFFICES ASSUME NEW u \in Thread, NEW c \in th'[u].todo PROVE TodoAt(c)'
    OBVIOUS
  <2>1. c \in Bundle /\ store[c].pending
    <3>1. u # t => th'[u].todo = {}
      BY <1>1, <1>3, <1>4 DEF Sole
    <3> QED BY <1>2, <1>3, <3>1
  <2>2. TodoAt(c)
    BY <1>5, <2>1 DEF RestAt, TodoAt
  <2> QED BY <1>8, <2>1, <2>2
<1>11. Alone'
  BY <1>1 DEF SerialInv, Alone
<1> QED BY <1>7, <1>8, <1>9, <1>10, <1>11 DEF SerialInv

(* A reception or submission begins when no goroutine is at work.  The     *)
(* first one finds nothing of the bundle.                                  *)
LEMMA BeginSerial ==
  ASSUME IndInv, MarkInv, SerialInv, TypeOK', NEW t \in Thread, \A u \in Thread : At(u, "idle"),
         NEW b \in Bundle, NEW prev, NEW pc, Begin(t, b, prev, pc),
         pc \in {"recvSync1", "sendSync1"},
         \A c \in Bundle : c # b => rx'[c] = rx[c] /\ from'[c] = from[c],
         from'[b] = from[b] \cup prev,
         b \notin accepted \/ (pc = "recvSync1" /\ Repeated(b)')
  PROVE  SerialInv'
<1>1. /\ UNCHANGED <<store, go, expired, crashes, fate, got>> /\ accepted' = accepted \cup {b}
      /\ th \in [Thread -> ThreadState] /\ \A u \in Thread : th[u].pc = "idle"
  BY DEF Begin, At, IndInv, TypeOK
<1>2. PICK r : /\ SetThread(t, r) /\ r.todo = {} /\ r.b = b /\ r.pc = pc
               /\ r.cons = store[b].cons /\ r.item = NoItem /\ r.prev = prev /\ r.mem
  <2>1. PICK q : q = [Idle EXCEPT !.pc = pc, !.b = b, !.mem = TRUE,
                                  !.prev = prev, !.cons = store[b].cons]
    OBVIOUS
  <2>2. SetThread(t, q)
    BY <2>1 DEF Begin
  <2>3. /\ q.todo = {} /\ q.b = b /\ q.pc = pc
        /\ q.cons = store[b].cons /\ q.item = NoItem /\ q.prev = prev /\ q.mem = TRUE
    BY <2>1 DEF Idle
  <2> QED BY <2>2, <2>3
<1>3. th'[t] = r /\ \A u \in Thread : u # t => th'[u] = th[u]
  BY <1>1, <1>2 DEF SetThread
<1>4. Sole /\ \A c \in Bundle : Quiet(c) => RestAt(c)
  BY DEF SerialInv
<1>5. \A c \in Bundle : RestAt(c)
  <2>1. \A c \in Bundle : Quiet(c)
    BY <1>1 DEF Quiet
  <2> QED BY <1>4, <2>1
<1>6. \A u \in Thread : th'[u].todo = {} /\ (u # t => th'[u].pc = "idle")
  BY <1>1, <1>2, <1>3, <1>4 DEF Sole
<1>60. \A u \in Thread, p \in Peer : go[u][p].st = "none"
  BY <1>1, <1>4 DEF Sole
<1>7. Sole'
  <2>1. \A u, v \in Thread : th'[u].pc # "idle" /\ th'[v].pc # "idle" => u = v
    BY <1>6
  <2>3. \A u \in Thread : Working(th'[u]) =>
          th'[u].prev \subseteq from'[th'[u].b] /\ th'[u].b \notin th'[u].todo
    BY <1>2, <1>3, <1>6 DEF Working
  <2>4. \A u \in Thread, p \in Peer : go'[u][p].st = "none"
    BY <1>1, <1>60
  <2>5. /\ \A c \in Bundle : ~store'[c].known => store'[c] = NoItem
        /\ \A c \in Bundle \ accepted' : fate'[c] = {} /\ got'[c] = {} /\ from'[c] = {}
    BY <1>1, <1>4 DEF Sole
  <2> QED BY <1>6, <2>1, <2>3, <2>4, <2>5 DEF Sole
<1>8. \A c \in Bundle : c # b => RestAt(c)'
  <2> SUFFICES ASSUME NEW c \in Bundle, c # b PROVE RestAt(c)'
    OBVIOUS
  <2>1. /\ Others(c)' = Others(c) /\ Holders(c)' = Holders(c) /\ Calm(c)' = Calm(c)
        /\ Repeated(c)' = Repeated(c)
    BY <1>1 DEF Others, Holders, Calm, Repeated
  <2> QED BY <1>1, <1>5, <2>1 DEF RestAt
<1>9. ~Quiet(b)'
  BY <1>2, <1>3 DEF Quiet
<1>10. \A u \in Thread : Working(th'[u]) => WorkAt(u)'
  <2>1. \A u \in Thread : Working(th'[u]) => u = t
    BY <1>6 DEF Working
  <2>2. PICK s, h, d, x, g : /\ s = store[b] /\ s = store'[b] /\ h = Others(b)' /\ g = go[t] /\ g = go'[t]
                             /\ d = {Header[b].dest} /\ x = (b \in expired) /\ x = (b \in expired')
    BY <1>1
  <2>3. NoItem.sent = {} /\ NoItem.cons = {} /\ ~NoItem.pending /\ ~NoItem.known
    BY DEF NoItem
  <2>4. Flying(g) = {} /\ \A p \in Peer : g[p].st = "none"
    BY <1>60, <2>2 DEF Flying
  <2>5. b \notin accepted => s = NoItem /\ fate[b] = {} /\ h \subseteq prev
    <3>1. b \notin accepted => s = NoItem /\ fate[b] = {} /\ got[b] = {} /\ from[b] = {}
      BY <1>4, <2>2 DEF Sole, MarkInv
    <3> QED BY <1>1, <2>2, <3>1 DEF Others, Holders
  <2>6. crashes = 0 /\ fate[b] = {} => TrueAt(r, s, Holders(b)', g)
    <3>1. crashes = 0 /\ fate[b] = {} => s.sent \subseteq Holders(b)
      BY <1>5, <2>2 DEF RestAt
    <3>2. Holders(b) \subseteq Holders(b)'
      BY <1>1 DEF Holders
    <3> QED BY <1>2, <2>3, <2>4, <3>1, <3>2 DEF TrueAt
  <2>7. b \notin accepted => KeptAt(r, s, h, g, d, x)
    <3> SUFFICES ASSUME b \notin accepted PROVE KeptAt(r, s, h, g, d, x)
      OBVIOUS
    <3>1. ~OnWay(r)
      BY <1>2 DEF OnWay
    <3>2. /\ h \subseteq r.prev /\ ~s.pending /\ ~s.known /\ ~r.item.pending /\ r.cons = {}
          /\ r.pc \in {"recvSync1", "sendSync1"}
      BY <1>2, <2>2, <2>3, <2>5
    <3>20. ~IsPending(r.cons)
      BY <3>2 DEF IsPending
    <3>3. EarlyKept(r, s, h, x)
      BY <1>2, <3>2, <3>20 DEF EarlyKept
    <3>4. SendingKept(r, s, h, g, d)
      BY <1>2, <2>4 DEF SendingKept
    <3> QED BY <2>3, <2>5, <3>1, <3>3, <3>4 DEF KeptAt
  <2>8. b \notin accepted => GoneAt(r, s, fate[b], g)
    BY <1>2, <2>2, <2>3, <2>4, <2>5 DEF GoneAt, Over
  <2>9. ~Repeated(b)' => b \notin accepted
    OBVIOUS
  <2>10. /\ crashes' = 0 /\ fate'[b] = {} => TrueAt(r, store'[b], Holders(b)', go'[t])
         /\ ~Repeated(b)' => KeptAt(r, store'[b], Others(b)', go'[t], {Header[b].dest}, b \in expired')
         /\ ~Repeated(b)' => GoneAt(r, store'[b], fate'[b], go'[t])
    BY <1>1, <2>2, <2>6, <2>7, <2>8, <2>9
  <2>11. WorkAt(t)'
    BY <1>2, <1>3, <2>10 DEF WorkAt, Calm
  <2> QED BY <2>1, <2>11
<1>11. Alone'
  BY <1>1 DEF SerialInv, Alone
<1> QED BY <1>6, <1>7, <1>8, <1>9, <1>10, <1>11 DEF SerialInv

(* What makes an idle goroutine start *)
LEMMA StartSerial ==
  ASSUME IndInv, MarkInv, SerialInv, TypeOK', \A u \in Thread : At(u, "idle"), Start
  PROVE  SerialInv'
<1>1. CASE \/ \E t \in Handlers, p \in Peer : PeerAppeared(t, p)
           \/ \E t \in Workers : Cron(t)
  <2>1. PICK t \in Thread : CheckPending(t) /\ UNCHANGED <<expired, rx, crashes>>
    BY <1>1 DEF Thread, PeerAppeared, Cron, env
  <2> QED BY <2>1, CheckSerial
<1>2. ASSUME NEW t \in Handlers, NEW p \in Peer, NEW b \in Bundle, ReceivedBundle(t, b, p)
      PROVE  SerialInv'
  <2>1. PICK prev : /\ Begin(t, b, prev, "recvSync1")
                    /\ rx' = [rx EXCEPT ![b] = @ + 1] /\ from' = [from EXCEPT ![b] = @ \cup prev]
    BY <1>2 DEF ReceivedBundle
  <2>2. /\ \A c \in Bundle : c # b => rx'[c] = rx[c] /\ from'[c] = from[c]
        /\ from'[b] = from[b] \cup prev /\ rx'[b] = rx[b] + 1 /\ rx[b] \in Nat
    BY <2>1 DEF IndInv, TypeOK
  <2>3. b \notin accepted \/ Repeated(b)'
    <3> SUFFICES ASSUME b \in accepted PROVE Repeated(b)'
      OBVIOUS
    <3>1. Header[b].own \/ rx[b] > 0
      BY DEF MarkInv
    <3> QED BY <2>2, <3>1 DEF Repeated
  <2>4. t \in Thread /\ "recvSync1" \in {"recvSync1", "sendSync1"}
    BY DEF Thread
  <2> QED BY <2>1, <2>2, <2>3, <2>4, BeginSerial
<1>3. ASSUME NEW t \in Senders, NEW b \in Bundle, SendBundle(t, b)
      PROVE  SerialInv'
  <2>1. PICK prev : prev = {} /\ Begin(t, b, prev, "sendSync1") /\ UNCHANGED <<rx, from>>
    BY <1>3 DEF SendBundle
  <2>2. /\ \A c \in Bundle : c # b => rx'[c] = rx[c] /\ from'[c] = from[c]
        /\ from'[b] = from[b] \cup prev /\ b \notin accepted
    BY <1>3, <2>1 DEF SendBundle
  <2>3. t \in Thread /\ "sendSync1" \in {"recvSync1", "sendSync1"}
    BY DEF Thread
  <2> QED BY <2>1, <2>2, <2>3, BeginSerial
<1> QED BY <1>1, <1>2, <1>3 DEF Start

(* Neighbours, agents, time, the clean_store job, and crashes *)
LEMMA EnvironmentSerial ==
  ASSUME IndInv, MarkInv, SerialInv, TypeOK', Alone', Environment
  PROVE  SerialInv'
<1>0. /\ Sole /\ \A c \in Bundle : Quiet(c) => RestAt(c)
      /\ \A t \in Thread : Working(th[t]) => WorkAt(t)
      /\ \A t \in Thread : \A c \in th[t].todo : TodoAt(c)
      /\ \A t \in Thread : th[t].b \in Bundle /\ th[t].todo \subseteq Bundle
  BY LocalType DEF SerialInv, IndInv
<1>1. CASE (\E p \in Peer : PeerUp(p) \/ PeerDown(p)) \/ AgentChange
  <2>1. UNCHANGED <<store, th, go, expired, rx, crashes, accepted, fate, from, got>>
    BY <1>1 DEF PeerUp, PeerDown, AgentChange, history
  <2>2. \A c : /\ Others(c)' = Others(c) /\ Holders(c)' = Holders(c) /\ Calm(c)' = Calm(c)
               /\ Repeated(c)' = Repeated(c) /\ Quiet(c)' = Quiet(c)
    BY <2>1 DEF Others, Holders, Calm, Repeated, Quiet
  <2>3. Sole'
    BY <1>0, <2>1 DEF Sole
  <2>4. \A c \in Bundle : (RestAt(c) => RestAt(c)') /\ (TodoAt(c) => TodoAt(c)')
    BY <2>1, <2>2 DEF RestAt, TodoAt
  <2>5. \A t \in Thread : WorkAt(t) => WorkAt(t)'
    BY <2>1, <2>2 DEF WorkAt
  <2> QED BY <1>0, <2>1, <2>2, <2>3, <2>4, <2>5 DEF SerialInv
<1>2. ASSUME NEW b \in Bundle, Expire(b) PROVE SerialInv'
  <2>1. /\ UNCHANGED <<store, th, go, rx, crashes, accepted, fate, from, got>>
        /\ expired' = expired \cup {b}
    BY <1>2 DEF Expire, history
  <2>2. \A c : /\ Others(c)' = Others(c) /\ Holders(c)' = Holders(c) /\ Calm(c)' = Calm(c)
               /\ Repeated(c)' = Repeated(c) /\ Quiet(c)' = Quiet(c)
    BY <2>1 DEF Others, Holders, Calm, Repeated, Quiet
  <2>3. Sole'
    BY <1>0, <2>1 DEF Sole
  <2>4. \A c \in Bundle : (RestAt(c) => RestAt(c)') /\ (TodoAt(c) => TodoAt(c)')
    BY <2>1, <2>2 DEF RestAt, TodoAt
  <2>5. ASSUME NEW r, NEW s, NEW h, NEW g, NEW d, NEW c, KeptAt(r, s, h, g, d, c \in expired)
        PROVE  KeptAt(r, s, h, g, d, c \in expired')
    <3>1. EarlyKept(r, s, h, c \in expired) => EarlyKept(r, s, h, c \in expired')
      BY <2>1 DEF EarlyKept
    <3> QED BY <2>1, <2>5, <3>1 DEF KeptAt
  <2>6. \A t \in Thread : WorkAt(t) => WorkAt(t)'
    BY <2>1, <2>2, <2>5 DEF WorkAt
  <2> QED BY <1>0, <2>1, <2>2, <2>3, <2>4, <2>6 DEF SerialInv
<1>3. ASSUME NEW b \in Bundle, DeleteExpired(b) PROVE SerialInv'
  <2>1. /\ UNCHANGED <<th, go, expired, rx, crashes, accepted, from, got>> /\ b \in expired
        /\ store'[b] = NoItem /\ fate'[b] = fate[b] \cup {"expired"} /\ store[b].known
        /\ \A c \in Bundle : c # b => store'[c] = store[c] /\ fate'[c] = fate[c]
    BY <1>3 DEF DeleteExpired, StoreDelete, Settle, env, IndInv, TypeOK
  <2>2. \A c : /\ Others(c)' = Others(c) /\ Holders(c)' = Holders(c)
               /\ Repeated(c)' = Repeated(c) /\ Quiet(c)' = Quiet(c)
    BY <2>1 DEF Others, Holders, Repeated, Quiet
  <2>3. \A c \in Bundle : Calm(c)' = Calm(c)
    BY <2>1, <2>2 DEF Calm
  <2>4. NoItem.sent = {} /\ NoItem.cons = {} /\ ~NoItem.pending /\ ~NoItem.known /\ ~Over(fate'[b])
        /\ fate'[b] # {}
    BY <2>1 DEF NoItem, Over
  <2>5. Sole'
    <3>1. b \in accepted
      BY <2>1, <2>4 DEF MarkInv
    <3>2. \A c \in Bundle : ~store'[c].known => store'[c] = NoItem
      BY <1>0, <2>1 DEF Sole
    <3>3. \A c \in Bundle \ accepted' : fate'[c] = {} /\ got'[c] = {} /\ from'[c] = {}
      BY <1>0, <2>1, <3>1 DEF Sole
    <3> QED BY <1>0, <2>1, <3>2, <3>3 DEF Sole
  <2>6. \A c \in Bundle : (RestAt(c) => RestAt(c)') /\ (TodoAt(c) => TodoAt(c)')
    <3> SUFFICES ASSUME NEW c \in Bundle PROVE (RestAt(c) => RestAt(c)') /\ (TodoAt(c) => TodoAt(c)')
      OBVIOUS
    <3>1. CASE c = b
      BY <2>1, <2>4, <3>1 DEF RestAt, TodoAt
    <3>2. CASE c # b
      BY <2>1, <2>2, <2>3, <3>2 DEF RestAt, TodoAt
    <3> QED BY <3>1, <3>2
  <2>7. \A t \in Thread : Working(th[t]) => WorkAt(t)'
    <3> SUFFICES ASSUME NEW t \in Thread, Working(th[t]) PROVE WorkAt(t)'
      OBVIOUS
    <3>1. CASE th[t].b # b
      <4>1. PICK c \in Bundle : c = th[t].b
        BY <1>0
      <4> QED BY <1>0, <2>1, <2>2, <2>3, <3>1, <4>1 DEF WorkAt
    <3>2. CASE th[t].b = b
      <4>1. PICK r, h, g, d : r = th[t] /\ h = Others(b) /\ g = go[t] /\ d = {Header[b].dest}
        OBVIOUS
      <4>2. /\ Calm(b) => KeptAt(r, store[b], h, g, d, TRUE)
            /\ crashes = 0 /\ ~Repeated(b) => GoneAt(r, store[b], fate[b], g)
        <5>1. b \in expired <=> TRUE
          BY <2>1
        <5>2. (b \in expired) = TRUE
          BY <5>1
        <5> QED BY <3>2, <4>1, <5>2, WorkFacts
      <4>3. Calm(b) => KeptAt(r, NoItem, h, g, d, TRUE)
        <5> SUFFICES ASSUME Calm(b) PROVE KeptAt(r, NoItem, h, g, d, TRUE)
          OBVIOUS
        <5>1. Early(r) => EarlyKept(r, NoItem, h, TRUE)
          BY <2>4, <4>2 DEF KeptAt, EarlyKept
        <5>2. SendingKept(r, NoItem, h, g, d)
          BY <2>4, <4>2 DEF KeptAt, SendingKept
        <5> QED BY <2>4, <5>1, <5>2 DEF KeptAt
      <4>4. crashes = 0 /\ ~Repeated(b) => GoneAt(r, NoItem, fate'[b], g)
        BY <2>4, <4>2 DEF GoneAt
      <4>5. (b \in expired') = TRUE
        BY <2>1
      <4> QED BY <2>1, <2>2, <2>3, <2>4, <3>2, <4>1, <4>3, <4>4, <4>5 DEF WorkAt
    <3> QED BY <3>1, <3>2
  <2> QED BY <1>0, <2>1, <2>2, <2>5, <2>6, <2>7 DEF SerialInv
<1>4. CASE Crash
  <2>1. /\ UNCHANGED <<store, expired, rx, accepted, from, got>> /\ crashes' # 0
        /\ \A t \in Thread : th'[t] = Idle
        /\ \A t \in Thread, p \in Peer : go'[t][p] = NoSend
        /\ \A c \in Bundle : /\ fate[c] \subseteq fate'[c]
                             /\ (\A t \in Thread : ~Vouches(t, c)) => fate'[c] = fate[c]
    BY <1>4 DEF Crash, IndInv, TypeOK
  <2>2. Idle.pc = "idle" /\ Idle.todo = {} /\ NoSend.st = "none"
    BY DEF Idle, NoSend
  <2>3. \A t \in Thread : ~Working(th'[t])
    BY <2>1, <2>2 DEF Working
  <2>4. Sole'
    <3>1. \A c \in Bundle \ accepted : fate'[c] = {} /\ got'[c] = {} /\ from'[c] = {}
      <4> SUFFICES ASSUME NEW c \in Bundle \ accepted PROVE fate'[c] = {} /\ got'[c] = {} /\ from'[c] = {}
        OBVIOUS
      <4>1. ASSUME NEW t \in Thread PROVE ~Vouches(t, c)
        BY DEF Vouches, Vouching, InReception, InSubmission, InDelivery, MarkInv, WorksOnAccepted
      <4> QED BY <1>0, <2>1, <4>1 DEF Sole
    <3>2. \A c \in Bundle : ~store'[c].known => store'[c] = NoItem
      BY <1>0, <2>1 DEF Sole
    <3> QED BY <2>1, <2>2, <2>3, <3>1, <3>2 DEF Sole
  <2>5. \A c \in Bundle : RestAt(c)'
    <3> SUFFICES ASSUME NEW c \in Bundle PROVE RestAt(c)'
      OBVIOUS
    <3>1. Calm(c) /\ c \notin expired /\ store[c].pending => Others(c) \subseteq store[c].sent
      <4>1. CASE Quiet(c)
        BY <1>0, <4>1 DEF RestAt
      <4>2. CASE ~Quiet(c)
        <5>1. PICK t \in Thread : Working(th[t]) /\ th[t].b = c
          BY <4>2 DEF Quiet, Working
        <5> QED BY <5>1, WorkFacts DEF KeptAt
      <4> QED BY <4>1, <4>2
    <3>2. (Calm(c)' => Calm(c)) /\ Others(c)' = Others(c)
      BY <2>1 DEF Calm, Repeated, Others, Holders
    <3> QED BY <2>1, <3>1, <3>2 DEF RestAt
  <2> QED BY <2>1, <2>2, <2>3, <2>4, <2>5 DEF SerialInv
<1> QED BY <1>1, <1>2, <1>3, <1>4 DEF Environment

(* Every step of a goroutine that has the node to itself *)
LEMMA StepSerial ==
  ASSUME IndInv, MarkInv, SerialInv, TypeOK', Alone', NEW t \in Thread, Step(t) \/ Sending(t)
  PROVE  SerialInv'
<1>1. CASE Sending(t) \/ \E p \in Peer : ReportFailureRead(t, p) \/ ReportFailureUpdate(t, p)
  BY <1>1, TransmitSerial DEF Sending
<1>2. CASE \E b \in Bundle : NextPending(t, b)
  BY <1>2, RetrySerial
<1>3. CASE SyncPush(t) \/ SyncDelete(t) \/ SyncUpdate(t)
  BY <1>3, SyncSerial
<1>4. CASE \/ RecvSync1(t) \/ RecvSync2(t) \/ ReceiveNew(t) \/ SendSync1(t)
           \/ transmit(t) \/ forward(t) \/ LocalSync(t)
  BY <1>4, CallsSerial
<1>5. CASE ReceiveKnown(t) \/ Blocks(t) \/ SendNotify(t) \/ SrcCheck(t) \/ NotifyRead(t)
  BY <1>5, ReceptionMoves
<1>6. CASE NotifyDest(t) \/ NotifySent(t)
  BY <1>6, NotifySerial
<1>7. CASE dispatching(t) \/ clasForBundle(t) \/ LoadBundle(t)
  BY <1>7, DispatchMoves
<1>8. CASE SetPending(t)
  BY <1>8, PendingSerial
<1>9. CASE ForwardExceeded(t) \/ HandOver(t)
  BY <1>9, DeliveryMoves
<1>10. CASE senderForDestination(t)
  BY <1>10, DeliveryMoves, SenderSerial
<1>11. CASE SenderForBundle(t)
  BY <1>11, SenderSerial
<1>12. CASE UpdateSent(t)
  BY <1>12, UpdateSentSerial
<1>13. CASE FinishLocal(t) \/ AfterSending(t)
  BY <1>13, EndsSerial
<1>14. CASE localDelivery(t)
  BY <1>14, DeliveryMoves, InspectSerial
<1>15. CASE Deliver(t)
  BY <1>15, DeliveryMoves, CallsSerial
<1>16. CASE Inspect(t)
  BY <1>16, InspectSerial
<1> QED BY <1>1, <1>2, <1>3, <1>4, <1>5, <1>6, <1>7, <1>8, <1>9, <1>10, <1>11, <1>12, <1>13,
           <1>14, <1>15, <1>16 DEF Step

(* The serial node starts in the invariant *)
LEMMA InitSerial == Init => SerialInv
<1> SUFFICES ASSUME Init PROVE SerialInv
  OBVIOUS
<1>1. /\ \A t \in Thread : th[t].pc = "idle" /\ th[t].todo = {}
      /\ \A t \in Thread, p \in Peer : go[t][p].st = "none"
      /\ \A b \in Bundle : store[b] = NoItem /\ fate[b] = {} /\ got[b] = {} /\ from[b] = {}
  BY DEF Init, Idle, NoSend
<1>2. NoItem.sent = {} /\ NoItem.cons = {} /\ ~NoItem.pending /\ ~NoItem.known
  BY DEF NoItem
<1>3. Sole /\ Alone
  BY <1>1, <1>2 DEF Sole, Alone, Working
<1>4. \A b \in Bundle : RestAt(b)
  BY <1>1, <1>2 DEF RestAt, Over
<1> QED BY <1>1, <1>3, <1>4 DEF SerialInv, Working

(* Every step of the serial node keeps it *)
LEMMA NextSerial == IndInv /\ MarkInv /\ SerialInv /\ [SerialNext]_vars => SerialInv'
<1> SUFFICES ASSUME IndInv, MarkInv, SerialInv, [SerialNext]_vars PROVE SerialInv'
  OBVIOUS
<1>1. CASE UNCHANGED vars
  <2>1. UNCHANGED <<store, th, go, expired, rx, crashes, accepted, fate, from, got>>
    BY <1>1 DEF vars
  <2>2. \A c : /\ Others(c)' = Others(c) /\ Holders(c)' = Holders(c) /\ Calm(c)' = Calm(c)
               /\ Repeated(c)' = Repeated(c) /\ Quiet(c)' = Quiet(c)
    BY <2>1 DEF Others, Holders, Calm, Repeated, Quiet
  <2>3. Sole' /\ Alone'
    BY <2>1 DEF SerialInv, Sole, Alone
  <2>4. \A c \in Bundle : RestAt(c)' = RestAt(c) /\ TodoAt(c)' = TodoAt(c)
    BY <2>1, <2>2 DEF RestAt, TodoAt
  <2>5. \A t \in Thread : WorkAt(t) => WorkAt(t)'
    BY <2>1, <2>2 DEF WorkAt
  <2>6. \A t \in Thread : th[t].todo \subseteq Bundle
    BY LocalType DEF IndInv
  <2> QED BY <2>1, <2>2, <2>3, <2>4, <2>5, <2>6 DEF SerialInv
<1>2. CASE SerialNext
  <2>1. Next /\ Alone'
    BY <1>2 DEF SerialNext, Next
  <2>2. TypeOK'
    BY <2>1, NextType DEF IndInv
  <2>3. CASE \E t \in Thread : Step(t) \/ Sending(t)
    BY <2>1, <2>2, <2>3, StepSerial
  <2>4. CASE (\A t \in Thread : At(t, "idle")) /\ Start
    BY <2>2, <2>4, StartSerial
  <2>5. CASE Environment
    BY <2>1, <2>2, <2>5, EnvironmentSerial
  <2> QED BY <1>2, <2>3, <2>4, <2>5 DEF SerialNext
<1> QED BY <1>1, <1>2

(* SerialInv says what the three properties promise *)
LEMMA SerialPromises == SerialInv /\ IndInv => NoResend /\ SentIsTrue /\ SettledIsGone
<1> SUFFICES ASSUME SerialInv, IndInv PROVE NoResend /\ SentIsTrue /\ SettledIsGone
  OBVIOUS
<1>1. NoResend
  <2> SUFFICES ASSUME NEW t \in Thread, NEW p \in Peer, NEW b, b = th[t].b,
                      go[t][p].st = "sending", p \in got[b] \cup from[b], p # Header[b].dest,
                      Calm(b)
               PROVE  FALSE
    BY DEF NoResend, Calm
  <2>1. b \in Bundle /\ th[t].pc \in {"updateSent", "sending"}
    BY LocalType DEF IndInv, SerialInv, Sole
  <2>2. SendingKept(th[t], store[b], Others(b), go[t], {Header[b].dest})
    BY <2>1, WorkFacts DEF Working, KeptAt
  <2>3. p \in Flying(go[t]) /\ p \in Others(b)
    BY DEF Flying, Others, Holders
  <2> QED BY <2>2, <2>3 DEF SendingKept
<1>2. SentIsTrue
  <2> SUFFICES ASSUME crashes = 0, NEW b \in Bundle, NEW p \in store[b].sent, fate[b] = {},
                      p \notin Holders(b)
               PROVE  InFlight(b, p)
    BY DEF SentIsTrue, Holders
  <2>1. ~Quiet(b)
    BY DEF SerialInv, RestAt
  <2>2. PICK t \in Thread : Working(th[t]) /\ b = th[t].b
    BY <2>1 DEF Quiet, Working
  <2>3. p \in Flying(go[t])
    BY <2>2, WorkFacts DEF TrueAt
  <2> QED BY <2>2, <2>3 DEF Flying, InFlight
<1>3. SettledIsGone
  BY DEF SettledIsGone, SerialInv, RestAt, Over
<1> QED BY <1>1, <1>2, <1>3

(* SerialInv is an invariant of the node whose goroutines do not overlap *)
THEOREM SerialInvariance == SerialSpec => [](IndInv /\ MarkInv /\ SerialInv)
<1>1. Init => IndInv /\ MarkInv /\ SerialInv
  BY InitInv, InitMarks, InitSerial
<1>2. (IndInv /\ MarkInv /\ SerialInv) /\ [SerialNext]_vars => (IndInv /\ MarkInv /\ SerialInv)'
  <2>1. [SerialNext]_vars => [Next]_vars
    BY DEF SerialNext, Next
  <2> QED BY <2>1, NextInv, NextMarks, NextSerial
<1> QED BY <1>1, <1>2, PTL DEF SerialSpec

(* filterCLAs selects no peer that has the bundle already *)
THEOREM NeverResent == SerialSpec => []NoResend
<1>1. IndInv /\ MarkInv /\ SerialInv => NoResend
  BY SerialPromises
<1> QED BY <1>1, SerialInvariance, PTL

(* The sent list names no peer that does not have the bundle *)
THEOREM SentListTrue == SerialSpec => []SentIsTrue
<1>1. IndInv /\ MarkInv /\ SerialInv => SentIsTrue
  BY SerialPromises
<1> QED BY <1>1, SerialInvariance, PTL

(* What was deleted, or handed to its destination, has left the store *)
THEOREM SettledGone == SerialSpec => []SettledIsGone
<1>1. IndInv /\ MarkInv /\ SerialInv => SettledIsGone
  BY SerialPromises
<1> QED BY <1>1, SerialInvariance, PTL
=============================================================================
