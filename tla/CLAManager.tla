----------------------------- MODULE CLAManager -----------------------------
(***************************************************************************)
(* The manager of the convergence layer adapters: pkg/cla/manager.go and   *)
(* manager_elem.go.  Goroutines:                                           *)
(*   - manager.handler ("mgr"), which passes status messages on to the     *)
(*     core, restarts a CLA whose peer disappeared and retries the ones    *)
(*     that could not be started;                                          *)
(*   - one registrar per Convergence instance, which calls Register (the   *)
(*     configuration, a listener's accept loop, the discovery);            *)
(*   - convergenceElem.handler of every started element.                   *)
(* A Convergence is known by its interface only: Start succeeds or fails,  *)
(* a started one emits status messages, Close ends it.                     *)
(***************************************************************************)
EXTENDS Integers, Sequences, FiniteSets

CONSTANTS Conv,       \* Convergence instances
          Address,    \* their addresses, the keys of manager.convs
          Layouts,    \* what the instances may be, see Layout
          Permanent,  \* Convergence.IsPermanent
          queueTtl,   \* Manager.queueTtl
          InCap,      \* capacity of inChnl
          CanClose,   \* bound: Core.Close happens
          MaxStatus   \* bound: instance -> status messages it emits

(* Convergence.Address, and the receivers whose endpoint is the peer of a  *)
(* sender.                                                                 *)
Layout == [address: [Conv -> Address], shadows: [Conv -> SUBSET Conv]]

ASSUME ConvAssumption == /\ Layouts \subseteq Layout /\ Layouts # {}
                         /\ Permanent \subseteq Conv
                         /\ Conv # {} /\ "mgr" \notin Conv
ASSUME CapAssumption == queueTtl \in Nat /\ InCap \in Nat \ {0} /\ MaxStatus \in [Conv -> Nat]
ASSUME CloseAssumption == CanClose \in BOOLEAN

Thread == Conv \cup {"mgr"}

VARIABLES layout,    \* the Convergences of this node
          elem,      \* the convergenceElems that were ever created
          convs,     \* manager.convs: address -> index into elem, 0 for none
          th,        \* the registrars and manager.handler
          inChnl, inClosed,
          stopFlag, core,
          panic,     \* a goroutine panicked, which ends the process
          opened,    \* instance -> Starts that no Close has ended
          emitted,   \* instance -> status messages it emitted
          seen       \* instance -> number of the last one the core got

vars == <<layout, elem, convs, th, inChnl, inClosed, stopFlag, core, panic, opened, emitted, seen>>
chan == <<layout, inChnl, inClosed, core, stopFlag, panic, emitted, seen>>

Status == [conv: Conv, gone: BOOLEAN, n: Nat]
None == [gone |-> FALSE, n |-> 0]

(* h: convergenceElem.handler, stop: stopSyn is closed *)
Elem == [conv: Conv, ttl: -1..queueTtl, h: {"none", "select", "put", "closed"},
         stop: BOOLEAN, cs: Status \cup {None}]

newConvergenceElement(c) == [conv |-> c, ttl |-> queueTtl, h |-> "none", stop |-> FALSE, cs |-> None]

AddressOf(c) == layout.address[c]

isActive(e) == elem[e].ttl < 0

Active(a) == convs[a] # 0 /\ isActive(convs[a])

-----------------------------------------------------------------------------
(* Register and Restart.  why says what the registration belongs to; a     *)
(* pass of the retry ticker enters at activate.                            *)

At(t, pc) == th[t].pc = pc

Goto(t, pc) == th' = [th EXCEPT ![t].pc = pc]

AfterRegister(t) == Goto(t, IF t = "mgr" THEN "put" ELSE "done")

Register(t) ==
    /\ At(t, "register")
    /\ IF stopFlag THEN AfterRegister(t) ELSE Goto(t, "load")
    /\ UNCHANGED <<elem, convs, chan, opened>>

(* Mutant: an active element is not left alone *)
LoadAny(t) ==
    /\ At(t, "load")
    /\ elem' = Append(elem, newConvergenceElement(th[t].conv))
    /\ th' = [th EXCEPT ![t].pc = "receiver", ![t].e = Len(elem) + 1]
    /\ UNCHANGED <<convs, chan, opened>>

Load(t) ==
    LET a == AddressOf(th[t].conv)
    IN  /\ At(t, "load")
        /\ \/ /\ Active(a)
              /\ AfterRegister(t)
              /\ UNCHANGED elem
           \/ /\ convs[a] # 0 /\ ~isActive(convs[a])
              /\ th' = [th EXCEPT ![t].pc = "receiver", ![t].e = convs[a]]
              /\ UNCHANGED elem
           \/ /\ convs[a] = 0
              /\ elem' = Append(elem, newConvergenceElement(th[t].conv))
              /\ th' = [th EXCEPT ![t].pc = "receiver", ![t].e = Len(elem) + 1]
        /\ UNCHANGED <<convs, chan, opened>>

(* A sender to the endpoint of an active receiver is not registered *)
CheckReceiver(t) ==
    /\ At(t, "receiver")
    /\ IF \E a \in Address : Active(a) /\ elem[convs[a]].conv \in layout.shadows[elem[th[t].e].conv]
       THEN AfterRegister(t) ELSE Goto(t, "activate")
    /\ UNCHANGED <<elem, convs, chan, opened>>

-----------------------------------------------------------------------------
(* convergenceElem.activate: the check without the lock, and the rest.     *)
(* keep is FALSE for "neither successful nor worth a retry".               *)

AfterActivate(t, keep) ==
    Goto(t, CASE th[t].why = "tick" -> (IF keep THEN "tick" ELSE "drop")
              [] th[t].why # "tick" /\ keep -> "store"
              [] OTHER -> (IF t = "mgr" THEN "put" ELSE "done"))

Activate(t) ==
    /\ At(t, "activate")
    /\ IF isActive(th[t].e) THEN AfterActivate(t, FALSE) ELSE Goto(t, "start")
    /\ UNCHANGED <<elem, convs, chan, opened>>

(* convergenceElem.mutex is held by a deactivation *)
Locked(e) == th["mgr"].pc = "deactivate" /\ th["mgr"].e = e

TtlExpired(e) == elem[e].ttl = 0 /\ elem[e].conv \notin Permanent

StartExpired(t) ==
    /\ At(t, "start") /\ ~Locked(th[t].e) /\ TtlExpired(th[t].e)
    /\ AfterActivate(t, FALSE)
    /\ UNCHANGED <<elem, convs, chan, opened>>

(* Starting an element a second time leaves two handlers, of which the     *)
(* model follows one only: NotOpenedTwice is false from then on.           *)
StartOk(t) ==
    LET e == th[t].e
    IN  /\ At(t, "start") /\ ~Locked(e) /\ ~TtlExpired(e)
        /\ elem' = [elem EXCEPT ![e].ttl = -1, ![e].h = "select", ![e].stop = FALSE]
        /\ opened' = [opened EXCEPT ![elem[e].conv] = @ + 1]
        /\ AfterActivate(t, TRUE)
        /\ UNCHANGED <<convs, chan>>

(* Mutant: the attempt is not counted *)
RetryUncounted(t) ==
    /\ At(t, "start") /\ ~Locked(th[t].e) /\ ~TtlExpired(th[t].e)
    /\ AfterActivate(t, TRUE)
    /\ UNCHANGED <<elem, convs, chan, opened>>

StartRetry(t) ==
    LET e == th[t].e
    IN  /\ At(t, "start") /\ ~Locked(e) /\ ~TtlExpired(e)
        /\ elem' = [elem EXCEPT ![e].ttl = @ - 1]
        /\ AfterActivate(t, TRUE)
        /\ UNCHANGED <<convs, chan, opened>>

StartFail(t) ==
    LET e == th[t].e
    IN  /\ At(t, "start") /\ ~Locked(e) /\ ~TtlExpired(e)
        /\ elem' = [elem EXCEPT ![e].ttl = 0]
        /\ AfterActivate(t, FALSE)
        /\ UNCHANGED <<convs, chan, opened>>

Store(t) ==
    /\ At(t, "store")
    /\ convs' = [convs EXCEPT ![AddressOf(th[t].conv)] = th[t].e]
    /\ AfterRegister(t)
    /\ UNCHANGED <<elem, chan, opened>>

-----------------------------------------------------------------------------
(* manager.handler *)

mgr == th["mgr"]

(* Mutant: PeerDisappeared is not passed on *)
TakeSwallow ==
    LET cs == Head(inChnl)
    IN  /\ At("mgr", "select") /\ inChnl # <<>>
        /\ inChnl' = Tail(inChnl)
        /\ th' = [th EXCEPT !["mgr"].cs = cs, !["mgr"].conv = cs.conv,
                            !["mgr"].pc = IF cs.gone THEN "select" ELSE "put"]
        /\ UNCHANGED <<layout, elem, convs, inClosed, stopFlag, core, panic, opened, emitted, seen>>

(* A status message; PeerDisappeared restarts the CLA before it is passed  *)
(* on.                                                                     *)
TakeStatus ==
    LET cs == Head(inChnl)
    IN  /\ At("mgr", "select") /\ inChnl # <<>>
        /\ inChnl' = Tail(inChnl)
        /\ th' = [th EXCEPT !["mgr"].cs = cs, !["mgr"].conv = cs.conv, !["mgr"].why = "restart",
                            !["mgr"].pc = IF cs.gone THEN "unregister" ELSE "put"]
        /\ UNCHANGED <<layout, elem, convs, inClosed, stopFlag, core, panic, opened, emitted, seen>>

(* The core reads outChnl *)
PassOn ==
    /\ At("mgr", "put") /\ core = "serving"
    /\ seen' = [seen EXCEPT ![mgr.cs.conv] = mgr.cs.n]
    /\ th' = [th EXCEPT !["mgr"].pc = "select", !["mgr"].cs = None]
    /\ UNCHANGED <<layout, elem, convs, inChnl, inClosed, stopFlag, core, panic, opened, emitted>>

AfterUnregister == Goto("mgr", IF mgr.why = "stop" THEN "stopping" ELSE "register")

(* Mutant: the element is removed, but not deactivated *)
UnregisterOnly ==
    LET e == convs[AddressOf(mgr.conv)]
    IN  /\ At("mgr", "unregister")
        /\ IF e # 0 /\ elem[e].conv = mgr.conv
           THEN th' = [th EXCEPT !["mgr"].pc = "delete", !["mgr"].e = e]
           ELSE AfterUnregister
        /\ UNCHANGED <<elem, convs, chan, opened>>

(* unregisterConvergence, up to the lock of deactivate.  Closing stopSyn   *)
(* of an element whose handler does not run is a panic.                    *)
Unregister ==
    LET a == AddressOf(mgr.conv)
        e == convs[a]
    IN  /\ At("mgr", "unregister")
        /\ \/ /\ e = 0 \/ (e # 0 /\ elem[e].conv # mgr.conv)
              /\ AfterUnregister
              /\ UNCHANGED <<elem, panic>>
           \/ /\ e # 0 /\ elem[e].conv = mgr.conv /\ ~isActive(e)
              /\ th' = [th EXCEPT !["mgr"].pc = "delete", !["mgr"].e = e]
              /\ UNCHANGED <<elem, panic>>
           \/ /\ e # 0 /\ elem[e].conv = mgr.conv /\ isActive(e)
              /\ elem' = [elem EXCEPT ![e].stop = TRUE]
              /\ panic' = (elem[e].h \in {"none", "closed"})
              /\ th' = [th EXCEPT !["mgr"].pc = "deactivate", !["mgr"].e = e]
        /\ UNCHANGED <<layout, convs, inChnl, inClosed, stopFlag, core, opened, emitted, seen>>

(* stopAck was closed *)
Deactivated ==
    /\ At("mgr", "deactivate") /\ elem[mgr.e].h = "closed"
    /\ elem' = [elem EXCEPT ![mgr.e].ttl = queueTtl]
    /\ Goto("mgr", "delete")
    /\ UNCHANGED <<convs, chan, opened>>

Delete ==
    /\ At("mgr", "delete")
    /\ convs' = [convs EXCEPT ![AddressOf(mgr.conv)] = 0]
    /\ AfterUnregister
    /\ UNCHANGED <<elem, chan, opened>>

(* The ticker of manager.handler, and its loop over convs *)
Tick ==
    /\ At("mgr", "select")
    /\ th' = [th EXCEPT !["mgr"].pc = "tick", !["mgr"].why = "tick",
                        !["mgr"].todo = {a \in Address : convs[a] # 0}]
    /\ UNCHANGED <<elem, convs, chan, opened>>

TickNext(a) ==
    LET try == convs[a] # 0 /\ ~isActive(convs[a])
    IN  /\ At("mgr", "tick") /\ a \in mgr.todo
        /\ th' = [th EXCEPT !["mgr"].todo = @ \ {a},
                            !["mgr"].pc = IF try THEN "activate" ELSE "tick",
                            !["mgr"].e = IF try THEN convs[a] ELSE @,
                            !["mgr"].conv = IF try THEN elem[convs[a]].conv ELSE @]
        /\ UNCHANGED <<elem, convs, chan, opened>>

Drop ==
    /\ At("mgr", "drop")
    /\ convs' = [convs EXCEPT ![AddressOf(mgr.conv)] = 0]
    /\ Goto("mgr", "tick")
    /\ UNCHANGED <<elem, chan, opened>>

TickEnd ==
    /\ At("mgr", "tick") /\ mgr.todo = {}
    /\ Goto("mgr", "select")
    /\ UNCHANGED <<elem, convs, chan, opened>>

(* Mutant: the CLAs are not unregistered *)
StopAtOnce ==
    /\ At("mgr", "select") /\ core = "closing"
    /\ th' = [th EXCEPT !["mgr"].pc = "stopping", !["mgr"].why = "stop", !["mgr"].todo = {}]
    /\ UNCHANGED <<elem, convs, chan, opened>>

(* manager.stopSyn: every element is unregistered, then the channels close *)
StopSyn ==
    /\ At("mgr", "select") /\ core = "closing"
    /\ th' = [th EXCEPT !["mgr"].pc = "stopping", !["mgr"].why = "stop",
                        !["mgr"].todo = {a \in Address : convs[a] # 0}]
    /\ UNCHANGED <<elem, convs, chan, opened>>

StopNext(a) ==
    /\ At("mgr", "stopping") /\ a \in mgr.todo
    /\ th' = [th EXCEPT !["mgr"].todo = @ \ {a},
                        !["mgr"].pc = IF convs[a] # 0 THEN "unregister" ELSE "stopping",
                        !["mgr"].conv = IF convs[a] # 0 THEN elem[convs[a]].conv ELSE @]
    /\ UNCHANGED <<elem, convs, chan, opened>>

StopEnd ==
    /\ At("mgr", "stopping") /\ mgr.todo = {}
    /\ inClosed' = TRUE
    /\ core' = "closed"
    /\ Goto("mgr", "done")
    /\ UNCHANGED <<layout, elem, convs, inChnl, stopFlag, panic, opened, emitted, seen>>

(* Core.Close: core.handler calls Manager.Close and reads outChnl no more *)
Close ==
    /\ CanClose /\ core = "serving"
    /\ core' = "closing" /\ stopFlag' = TRUE
    /\ UNCHANGED <<layout, elem, convs, th, inChnl, inClosed, panic, opened, emitted, seen>>

-----------------------------------------------------------------------------
(* convergenceElem.handler *)

ElemTake(e, gone) ==
    LET c == elem[e].conv
    IN  /\ elem[e].h = "select" /\ opened[c] > 0 /\ emitted[c] < MaxStatus[c]
        /\ emitted' = [emitted EXCEPT ![c] = @ + 1]
        /\ elem' = [elem EXCEPT ![e].h = "put",
                                ![e].cs = [conv |-> c, gone |-> gone, n |-> emitted[c] + 1]]
        /\ UNCHANGED <<layout, convs, th, inChnl, inClosed, stopFlag, core, panic, opened, seen>>

ElemPut(e) ==
    /\ elem[e].h = "put" /\ (inClosed \/ Len(inChnl) < InCap)
    /\ IF inClosed THEN panic' = TRUE /\ UNCHANGED inChnl
       ELSE inChnl' = Append(inChnl, elem[e].cs) /\ UNCHANGED panic
    /\ elem' = [elem EXCEPT ![e].h = "select", ![e].cs = None]
    /\ UNCHANGED <<layout, convs, th, inClosed, stopFlag, core, opened, emitted, seen>>

ElemStop(e) ==
    /\ elem[e].h = "select" /\ elem[e].stop
    /\ elem' = [elem EXCEPT ![e].h = "closed"]
    /\ opened' = [opened EXCEPT ![elem[e].conv] = IF @ = 0 THEN 0 ELSE @ - 1]
    /\ UNCHANGED <<convs, th, chan>>

-----------------------------------------------------------------------------
Init ==
    /\ layout \in Layouts
    /\ elem = <<>>
    /\ convs = [a \in Address |-> 0]
    /\ th = [t \in Thread |-> [pc |-> IF t = "mgr" THEN "select" ELSE "register",
                               conv |-> IF t = "mgr" THEN CHOOSE c \in Conv : TRUE ELSE t,
                               e |-> 0, why |-> "register", todo |-> {}, cs |-> None]]
    /\ inChnl = <<>> /\ inClosed = FALSE
    /\ stopFlag = FALSE /\ core = "serving" /\ panic = FALSE
    /\ opened = [c \in Conv |-> 0]
    /\ emitted = [c \in Conv |-> 0]
    /\ seen = [c \in Conv |-> 0]

Registering(t) == th[t].pc \notin {"register", "done"}

RegisterStep(t) ==
    \/ Load(t) \/ CheckReceiver(t) \/ Activate(t) \/ Store(t)
    \/ StartExpired(t) \/ StartOk(t) \/ StartRetry(t) \/ StartFail(t)

(* What manager.handler does about what its select chose *)
ManagerStep ==
    \/ PassOn \/ Unregister \/ Deactivated \/ Delete
    \/ Drop \/ TickEnd \/ StopEnd
    \/ \E a \in Address : TickNext(a) \/ StopNext(a)

Select == TakeStatus \/ Tick \/ StopSyn

Handler(e) == ElemPut(e) \/ ElemStop(e)

Running == ~panic

Next ==
    /\ Running
    /\ \/ \E t \in Thread : Register(t) \/ RegisterStep(t)
       \/ ManagerStep \/ Select \/ Close
       \/ \E e \in DOMAIN elem : Handler(e) \/ \E gone \in BOOLEAN : ElemTake(e, gone)

Spec == Init /\ [][Next]_vars

(* Registrations that overlap neither each other nor the work of           *)
(* manager.handler, as of the configured CLAs of a node whose peers are    *)
(* quiet while it starts.                                                  *)
OrderlyNext ==
    /\ Running
    /\ \/ \E t \in Thread : RegisterStep(t)
       \/ Register("mgr")
       \/ (\A c \in Conv : ~Registering(c)) /\ At("mgr", "select") /\ \E c \in Conv : Register(c)
       \/ ManagerStep \/ Close
       \/ (\A c \in Conv : ~Registering(c)) /\ Select
       \/ \E e \in DOMAIN elem : Handler(e) \/ \E gone \in BOOLEAN : ElemTake(e, gone)

OrderlySpec == Init /\ [][OrderlyNext]_vars

(* The goroutines run, the core reads outChnl while it serves, and Go's    *)
(* select neglects no channel for ever.                                    *)
Fairness ==
    /\ \A t \in Thread : WF_vars(RegisterStep(t))
    /\ WF_vars(Register("mgr"))
    /\ WF_vars(ManagerStep)
    /\ SF_vars(TakeStatus) /\ SF_vars(Tick)
    /\ WF_vars(\E e \in DOMAIN elem : ElemPut(e))
    /\ SF_vars(\E e \in DOMAIN elem : ElemStop(e))

FairSpec == OrderlySpec /\ Fairness

-----------------------------------------------------------------------------
(* Properties *)

ThreadState == [pc: {"register", "load", "receiver", "activate", "start", "store", "done",
                     "select", "put", "unregister", "deactivate", "delete", "tick", "drop",
                     "stopping"},
                conv: Conv, e: 0..Len(elem), why: {"register", "restart", "tick", "stop"},
                todo: SUBSET Address, cs: Status \cup {None}]

TypeOK ==
    /\ layout \in Layouts
    /\ elem \in Seq(Elem)
    /\ convs \in [Address -> 0..Len(elem)]
    /\ th \in [Thread -> ThreadState]
    /\ inChnl \in Seq(Status) /\ Len(inChnl) <= InCap
    /\ inClosed \in BOOLEAN /\ stopFlag \in BOOLEAN /\ panic \in BOOLEAN
    /\ core \in {"serving", "closing", "closed"}
    /\ opened \in [Conv -> Nat] /\ emitted \in [Conv -> Nat] /\ seen \in [Conv -> Nat]

(* Convergence.Address is there "to ensure it will not opened twice": no   *)
(* two of the instances with one address are started at the same time.     *)
NotOpenedTwice ==
    \A c, d \in Conv : /\ opened[c] <= 1
                       /\ AddressOf(c) = AddressOf(d) /\ opened[c] > 0 /\ opened[d] > 0 => c = d

(* Some goroutine is between Start and Store, or closes the CLA *)
InHand(c) ==
    \E t \in Thread : /\ th[t].pc \in {"store", "deactivate"}
                      /\ elem[th[t].e].conv = c

(* A started CLA is an active element of manager.convs with a handler that *)
(* can close it: none runs on unobserved, also not after Close.            *)
Supervised ==
    \A c \in Conv : opened[c] > 0 =>
        \/ InHand(c)
        \/ LET e == convs[AddressOf(c)]
           IN  e # 0 /\ elem[e].conv = c /\ isActive(e) /\ elem[e].h \in {"select", "put"}

(* A permanent CLA whose failed retries took ttl below zero: it counts as  *)
(* active though it has no handler, and is not retried.                    *)
Feigned(e) == isActive(e) /\ elem[e].h \notin {"select", "put"} /\ elem[e].conv \in Permanent

(* No goroutine sends on the closed inChnl, and none closes a nil or a     *)
(* closed stopSyn but the manager at the restart or the shutdown of a      *)
(* permanent CLA that could not be started.                                *)
NoPanic == panic => At("mgr", "deactivate") /\ Feigned(mgr.e)

(* The core gets the status messages of a CLA in the order in which it     *)
(* emitted them, without a gap, across restarts of the CLA.                *)
InOrder == [][\A c \in Conv : seen'[c] \in {seen[c], seen[c] + 1}]_vars

(* The manager waits for stopAck of an element whose handler waits for the *)
(* manager to read the full inChnl: for ever.                              *)
Jammed == At("mgr", "deactivate") /\ elem[mgr.e].h = "put" /\ Len(inChnl) = InCap

Over == core # "serving" \/ panic \/ Jammed

(* The retries of a CLA come to an end: it is active (a permanent one at   *)
(* least counts as such) or given up.                                      *)
Settles ==
    \A a \in Address : convs[a] # 0 /\ ~Active(a) ~> convs[a] = 0 \/ Active(a) \/ Over

(* What a CLA emits reaches the core as long as outChnl is read, also if   *)
(* inChnl is full: the one thing that stops the manager is a restart of a  *)
(* CLA whose next status message does not fit into inChnl.                 *)
StatusReaches ==
    \A c \in Conv : \A n \in 1..MaxStatus[c] : emitted[c] >= n ~> seen[c] >= n \/ Over
=============================================================================
