-------------------------- MODULE CLAManagerProofs --------------------------
(***************************************************************************)
(* The manager of the convergence layer adapters, for any number of them,  *)
(* any layout of addresses and any number of retries, as long as           *)
(* registrations do not overlap (OrderlySpec): no address is opened twice, *)
(* a started CLA is supervised, no goroutine panics but at the end of a    *)
(* permanent CLA that could not be started, and the core gets the status   *)
(* messages in order.                                                      *)
(***************************************************************************)
EXTENDS CLAManager, SequenceTheorems, TLAPS

Place == {"register", "load", "receiver", "activate", "start", "store", "done", "select",
          "put", "unregister", "deactivate", "delete", "tick", "drop", "stopping"}
Why == {"register", "restart", "tick", "stop"}

ThreadRecord == [pc: Place, conv: Conv, e: Nat, why: Why, todo: SUBSET Address,
                 cs: Status \cup {None}]

Types ==
    /\ layout \in Layout
    /\ elem \in Seq(Elem)
    /\ convs \in [Address -> 0..Len(elem)]
    /\ th \in [Thread -> ThreadRecord]
    /\ inChnl \in Seq(Status)
    /\ inClosed \in BOOLEAN /\ panic \in BOOLEAN
    /\ opened \in [Conv -> Nat] /\ emitted \in [Conv -> Nat] /\ seen \in [Conv -> Nat]

-----------------------------------------------------------------------------
(* One goroutine at a time is about to change manager.convs.               *)
Quiet(t) == th[t].pc \in IF t = "mgr" THEN {"select"} ELSE {"register", "done"}

OneBusy == \A t, u \in Thread : t # u => Quiet(t) \/ Quiet(u)

(* The element that a goroutine works on *)
Slot(t) == convs[AddressOf(th[t].conv)]

Same(t) == /\ th[t].e \in DOMAIN elem
           /\ AddressOf(elem[th[t].e].conv) = AddressOf(th[t].conv)

Phase(t) ==
    /\ th[t].pc \in {"receiver", "activate", "start", "store", "drop", "deactivate", "delete"} =>
          Same(t) /\ Slot(t) \in {0, th[t].e}
    /\ th[t].pc \in {"receiver", "activate", "start", "drop", "delete"} => elem[th[t].e].ttl >= 0
    /\ th[t].pc \in {"drop", "deactivate", "delete"} => Slot(t) = th[t].e
    /\ th[t].pc \in {"activate", "start"} /\ th[t].why = "tick" => Slot(t) = th[t].e

Role(t) ==
    IF t = "mgr"
    THEN \/ mgr.pc = "select" /\ mgr.cs = None
         \/ /\ mgr.pc \in {"register", "load", "receiver", "activate", "start", "store", "put",
                           "unregister", "deactivate", "delete"}
            /\ mgr.why = "restart" /\ mgr.cs \in Status
         \/ /\ mgr.pc \in {"tick", "activate", "start", "drop"}
            /\ mgr.why = "tick" /\ mgr.cs = None
         \/ /\ mgr.pc \in {"stopping", "unregister", "deactivate", "delete", "done"}
            /\ mgr.why = "stop" /\ mgr.cs = None
    ELSE /\ th[t].pc \in {"register", "load", "receiver", "activate", "start", "store", "done"}
         /\ th[t].why = "register"

(* While the manager stops, the CLAs it knows are the ones yet to do.      *)
Emptying ==
    mgr.why = "stop" /\ mgr.pc # "select" =>
        /\ \A a \in Address : convs[a] # 0 =>
              a \in mgr.todo \/ (mgr.pc \in {"unregister", "deactivate", "delete"}
                                 /\ a = AddressOf(mgr.conv))
        /\ mgr.pc = "unregister" => Slot("mgr") # 0 /\ elem[Slot("mgr")].conv = mgr.conv
        /\ mgr.pc = "done" => mgr.todo = {}

Shutdown == inClosed => mgr.pc = "done" /\ mgr.why = "stop"

-----------------------------------------------------------------------------
(* The handler of the element runs.                                        *)
Live(e) == elem[e].h \in {"select", "put"}

Closing(e) == mgr.pc = "deactivate" /\ mgr.e = e

Stored(e) == \/ convs[AddressOf(elem[e].conv)] = e
             \/ \E t \in Thread : th[t].pc = "store" /\ th[t].e = e

ElemInv(e) ==
    /\ Live(e) => /\ elem[e].ttl < 0 /\ Stored(e) /\ opened[elem[e].conv] = 1
                  /\ elem[e].stop => Closing(e)
    /\ elem[e].ttl < 0 => Live(e) \/ Closing(e) \/ elem[e].conv \in Permanent

ConvInv(c) == opened[c] = 0 \/ (opened[c] = 1 /\ \E e \in DOMAIN elem : Live(e) /\ elem[e].conv = c)

Filed(a) == convs[a] # 0 => AddressOf(elem[convs[a]].conv) = a

Registry ==
    /\ Types
    /\ OneBusy
    /\ \A t \in Thread : Phase(t) /\ Role(t)
    /\ Emptying /\ Shutdown
    /\ \A e \in DOMAIN elem : ElemInv(e)
    /\ \A c \in Conv : ConvInv(c)
    /\ \A a \in Address : Filed(a)

-----------------------------------------------------------------------------
(* The status messages of c between its handler and the core are           *)
(* numbered without a gap.                                                 *)
Putting(c) == \E e \in DOMAIN elem : elem[e].h = "put" /\ elem[e].conv = c
Low(c) == IF mgr.cs \in Status /\ mgr.cs.conv = c THEN mgr.cs.n ELSE seen[c]
High(c) == IF Putting(c) THEN emitted[c] - 1 ELSE emitted[c]

Numbered(c) ==
    /\ \A e \in DOMAIN elem : elem[e].h = "put" /\ elem[e].conv = c =>
          elem[e].cs \in Status /\ elem[e].cs.conv = c /\ elem[e].cs.n = emitted[c]
    /\ mgr.cs \in Status /\ mgr.cs.conv = c => mgr.cs.n = seen[c] + 1
    /\ Low(c) <= High(c)
    /\ \A i \in DOMAIN inChnl : inChnl[i].conv = c =>
          inChnl[i].n > Low(c) /\ inChnl[i].n <= High(c)
    /\ \A i, j \in DOMAIN inChnl :
          i < j /\ inChnl[i].conv = c /\ inChnl[j].conv = c => inChnl[i].n < inChnl[j].n
    /\ \A n \in Nat : n > Low(c) /\ n <= High(c) =>
          \E i \in DOMAIN inChnl : inChnl[i].conv = c /\ inChnl[i].n = n

IndInv == Registry /\ NoPanic /\ \A c \in Conv : Numbered(c)

-----------------------------------------------------------------------------
(* One goroutine moves *)

LEMMA Going ==
    ASSUME Types, NEW t \in Thread, NEW pc \in Place, th' = [th EXCEPT ![t].pc = pc]
    PROVE  /\ th' \in [Thread -> ThreadRecord] /\ \A u \in Thread : u # t => th'[u] = th[u]
           /\ th'[t].pc = pc /\ th'[t].conv = th[t].conv /\ th'[t].e = th[t].e
           /\ th'[t].why = th[t].why /\ th'[t].todo = th[t].todo /\ th'[t].cs = th[t].cs
<1>. DEFINE r == [th[t] EXCEPT !.pc = pc]
<1>1. th[t] \in ThreadRecord /\ th \in [Thread -> ThreadRecord]
  BY DEF Types
<1>2. /\ r \in ThreadRecord /\ r.pc = pc /\ r.conv = th[t].conv /\ r.e = th[t].e
      /\ r.why = th[t].why /\ r.todo = th[t].todo /\ r.cs = th[t].cs
  BY <1>1 DEF ThreadRecord
<1>3. th' = [th EXCEPT ![t] = r]
  BY <1>1
<1>. HIDE DEF r
<1>4. th'[t] = r
  BY <1>1, <1>3
<1>. QED  BY <1>1, <1>2, <1>3, <1>4

LEMMA Taking ==
    ASSUME Types, NEW t \in Thread, NEW pc \in Place, NEW e \in Nat,
           th' = [th EXCEPT ![t].pc = pc, ![t].e = e]
    PROVE  /\ th' \in [Thread -> ThreadRecord] /\ \A u \in Thread : u # t => th'[u] = th[u]
           /\ th'[t].pc = pc /\ th'[t].conv = th[t].conv /\ th'[t].e = e
           /\ th'[t].why = th[t].why /\ th'[t].todo = th[t].todo /\ th'[t].cs = th[t].cs
<1>. DEFINE r == [th[t] EXCEPT !.pc = pc, !.e = e]
<1>1. th[t] \in ThreadRecord /\ th \in [Thread -> ThreadRecord]
  BY DEF Types
<1>2. /\ r \in ThreadRecord /\ r.pc = pc /\ r.conv = th[t].conv /\ r.e = e
      /\ r.why = th[t].why /\ r.todo = th[t].todo /\ r.cs = th[t].cs
  BY <1>1 DEF ThreadRecord
<1>3. th' = [th EXCEPT ![t] = r]
  BY <1>1
<1>. HIDE DEF r
<1>4. th'[t] = r
  BY <1>1, <1>3
<1>. QED  BY <1>1, <1>2, <1>3, <1>4

LEMMA MgrThread == "mgr" \in Thread /\ \A c \in Conv : c \in Thread /\ c # "mgr"
  BY ConvAssumption DEF Thread

(* Whoever is not quiet is alone.                                          *)
LEMMA Alone ==
    ASSUME OneBusy, NEW t \in Thread, ~Quiet(t)
    PROVE  \A u \in Thread : u # t => Quiet(u)
  BY DEF OneBusy

(* Of a registrar the manager knows nothing, as it waits in its select.    *)
LEMMA ManagerWaits ==
    ASSUME th'["mgr"] = th["mgr"], Quiet("mgr"), Shutdown, inClosed' = inClosed
    PROVE  Emptying' /\ Shutdown'
  BY DEF Quiet, Emptying, Shutdown, mgr

LEMMA Others ==
    ASSUME NEW t \in Thread, \A u \in Thread : u # t => Quiet(u),
           \A u \in Thread : u # t => th'[u] = th[u], \A u \in Thread : Role(u), Role(t)'
    PROVE  OneBusy' /\ \A u \in Thread : Role(u)'
<1>1. \A u \in Thread : u # t => Quiet(u)'
  BY DEF Quiet
<1>2. ASSUME NEW u \in Thread, u # t
      PROVE  Role(u)'
  BY <1>2, MgrThread DEF Role, mgr
<1>. QED  BY <1>1, <1>2 DEF OneBusy

(* A goroutine that is quiet is in no phase.                               *)
LEMMA QuietPhase ==
    ASSUME NEW u \in Thread, Quiet(u), th'[u] = th[u]
    PROVE  Phase(u)'
  BY DEF Quiet, Phase

(* A step of one goroutine that leaves elements and convs alone *)
LEMMA ThreadMove ==
    ASSUME Registry, Types', NEW t \in Thread, \A u \in Thread : u # t => Quiet(u),
           layout' = layout, elem' = elem, convs' = convs, opened' = opened,
           \A u \in Thread : u # t => th'[u] = th[u],
           th[t].pc \notin {"store", "deactivate"},
           Phase(t)', Role(t)', Emptying', Shutdown'
    PROVE  Registry'
<1>1. OneBusy' /\ \A u \in Thread : Role(u)'
  BY Others DEF Registry
<1>2. \A u \in Thread : Phase(u)'
  BY QuietPhase
<1>3. ASSUME NEW e \in DOMAIN elem
      PROVE  ElemInv(e)'
  <2>1. ElemInv(e) /\ Live(e)' = Live(e)
    BY DEF Registry, Live
  <2>2. Stored(e) => Stored(e)'
    BY DEF Stored, AddressOf
  <2>3. Closing(e) => Closing(e)'
    BY MgrThread DEF Closing, mgr
  <2>. QED  BY <2>1, <2>2, <2>3 DEF ElemInv
<1>4. \A c \in Conv : ConvInv(c)'
  BY DEF Registry, ConvInv, Live
<1>5. \A a \in Address : Filed(a)'
  BY DEF Registry, Filed, AddressOf
<1>. QED  BY <1>1, <1>2, <1>3, <1>4, <1>5 DEF Registry

LEMMA SeqDomain ==
    ASSUME Types
    PROVE  DOMAIN elem = 1..Len(elem) /\ Len(elem) \in Nat /\ \A e \in DOMAIN elem : elem[e] \in Elem
  BY DEF Types

(* The same, with what it takes for the manager and for a registrar *)
LEMMA Walk ==
    ASSUME Registry, NEW t \in Thread, \A u \in Thread : u # t => Quiet(u),
           th' \in [Thread -> ThreadRecord], \A u \in Thread : u # t => th'[u] = th[u],
           th[t].pc \notin {"store", "deactivate"},
           UNCHANGED <<elem, convs, chan, opened>>,
           Phase(t)', Role(t)', t = "mgr" => Emptying' /\ ~inClosed
    PROVE  Registry'
<1>1. Types /\ Shutdown
  BY DEF Registry
<1>2. /\ layout' = layout /\ elem' = elem /\ convs' = convs /\ opened' = opened
      /\ inClosed' = inClosed /\ panic' = panic /\ inChnl' = inChnl /\ emitted' = emitted /\ seen' = seen
  BY DEF chan
<1>3. Types'
  BY <1>1, <1>2 DEF Types
<1>4. Emptying' /\ Shutdown'
  <2>1. CASE t = "mgr"
    BY <1>2, <2>1 DEF Shutdown
  <2>2. CASE t # "mgr"
    <3>1. Quiet("mgr") /\ th'["mgr"] = th["mgr"]
      BY <2>2, MgrThread
    <3>. QED  BY <1>1, <1>2, <3>1, ManagerWaits
  <2>. QED  BY <2>1, <2>2
<1>. QED  BY <1>2, <1>3, <1>4, ThreadMove

(* The manager is neither stopped nor stopping.                            *)
LEMMA NotStopping ==
    ASSUME Registry, mgr.why # "stop"
    PROVE  ~inClosed
  BY DEF Registry, Shutdown

(* AfterRegister: the registrar is done, the manager passes the message on *)
LEMMA Registered ==
    ASSUME Registry, NEW t \in Thread, AfterRegister(t), \A u \in Thread : u # t => Quiet(u),
           t = "mgr" => mgr.why = "restart" /\ mgr.pc # "select",
           th[t].pc \notin {"store", "deactivate"},
           UNCHANGED <<elem, convs, chan, opened>>
    PROVE  Registry'
<1>. DEFINE pc == IF t = "mgr" THEN "put" ELSE "done"
<1>1. Types /\ Role(t)
  BY DEF Registry
<1>2. pc \in Place /\ th' = [th EXCEPT ![t].pc = pc]
  BY DEF AfterRegister, Goto, Place
<1>3. /\ th' \in [Thread -> ThreadRecord] /\ \A u \in Thread : u # t => th'[u] = th[u]
      /\ th'[t].pc = pc /\ th'[t].why = th[t].why /\ th'[t].cs = th[t].cs
  <2>. HIDE DEF pc
  <2>. QED  BY <1>1, <1>2, Going
<1>4. Phase(t)'
  BY <1>3 DEF Phase
<1>5. Role(t)' /\ (t = "mgr" => Emptying' /\ ~inClosed)
  <2>1. CASE t = "mgr"
    <3>1. ~inClosed
      BY <2>1, NotStopping
    <3>. QED  BY <1>1, <1>3, <2>1, <3>1 DEF Role, Emptying, mgr
  <2>2. CASE t # "mgr"
    BY <1>1, <1>3, <2>2 DEF Role
  <2>. QED  BY <2>1, <2>2
<1>. QED  BY <1>3, <1>4, <1>5, Walk

(* What a goroutine that is registering is allowed to be *)
LEMMA Registrant ==
    ASSUME Registry, NEW t \in Thread,
           th[t].pc \in {"load", "receiver", "store"} \/ (t = "mgr" /\ th[t].pc = "register")
    PROVE  /\ t = "mgr" => mgr.why = "restart" /\ mgr.cs \in Status /\ ~inClosed
           /\ th[t].why # "tick" /\ th[t].why # "stop" /\ ~Quiet(t)
<1>1. Role(t)
  BY DEF Registry
<1>2. CASE t = "mgr"
  <2>1. mgr.why = "restart" /\ mgr.cs \in Status
    BY <1>1, <1>2 DEF Role, mgr
  <2>. QED  BY <1>2, <2>1, NotStopping DEF Quiet, mgr
<1>3. CASE t # "mgr"
  BY <1>1, <1>3 DEF Role, Quiet
<1>. QED  BY <1>2, <1>3

LEMMA RegisterStepR ==
    ASSUME Registry, NEW t \in Thread, Register(t), \A u \in Thread : u # t => Quiet(u)
    PROVE  Registry'
<1>1. Types /\ Role(t) /\ th[t].pc = "register" /\ UNCHANGED <<elem, convs, chan, opened>>
  BY DEF Registry, Register, At
<1>2. t = "mgr" => mgr.why = "restart" /\ mgr.cs \in Status /\ mgr.pc # "select" /\ ~inClosed
  BY <1>1, Registrant DEF mgr
<1>3. CASE AfterRegister(t)
  BY <1>1, <1>2, <1>3, Registered
<1>4. CASE Goto(t, "load")
  <2>1. "load" \in Place /\ th' = [th EXCEPT ![t].pc = "load"]
    BY <1>4 DEF Goto, Place
  <2>2. /\ th' \in [Thread -> ThreadRecord] /\ \A u \in Thread : u # t => th'[u] = th[u]
        /\ th'[t].pc = "load" /\ th'[t].why = th[t].why /\ th'[t].cs = th[t].cs
    BY <1>1, <2>1, Going
  <2>3. Phase(t)'
    BY <2>2 DEF Phase
  <2>4. Role(t)'
    BY <1>1, <1>2, <2>2 DEF Role, mgr
  <2>5. t = "mgr" => Emptying'
    BY <1>2, <2>2 DEF Emptying, mgr
  <2>. QED  BY <1>1, <1>2, <2>2, <2>3, <2>4, <2>5, Walk
<1>. QED  BY <1>3, <1>4 DEF Register

LEMMA CheckReceiverStep ==
    ASSUME Registry, NEW t \in Thread, CheckReceiver(t)
    PROVE  Registry'
<1>1. Types /\ Role(t) /\ Phase(t) /\ OneBusy /\ th[t].pc = "receiver"
      /\ UNCHANGED <<elem, convs, chan, opened>>
  BY DEF Registry, CheckReceiver, At
<1>2. /\ t = "mgr" => mgr.why = "restart" /\ mgr.cs \in Status /\ ~inClosed
      /\ th[t].why # "tick" /\ ~Quiet(t)
  BY <1>1, Registrant
<1>3. \A u \in Thread : u # t => Quiet(u)
  BY <1>1, <1>2, Alone
<1>4. CASE AfterRegister(t)
  BY <1>1, <1>2, <1>3, <1>4, Registered DEF mgr
<1>5. CASE Goto(t, "activate")
  <2>1. "activate" \in Place /\ th' = [th EXCEPT ![t].pc = "activate"]
    BY <1>5 DEF Goto, Place
  <2>2. /\ th' \in [Thread -> ThreadRecord] /\ \A u \in Thread : u # t => th'[u] = th[u]
        /\ th'[t].pc = "activate" /\ th'[t].why = th[t].why /\ th'[t].cs = th[t].cs
        /\ th'[t].e = th[t].e /\ th'[t].conv = th[t].conv
    BY <1>1, <2>1, Going
  <2>3. Phase(t)'
    <3>1. layout' = layout /\ elem' = elem /\ convs' = convs
      BY <1>1 DEF chan
    <3>. QED  BY <1>1, <1>2, <2>2, <3>1 DEF Phase, Same, Slot, AddressOf
  <2>4. Role(t)'
    BY <1>1, <1>2, <2>2 DEF Role, mgr
  <2>5. t = "mgr" => Emptying'
    BY <1>2, <2>2 DEF Emptying, mgr
  <2>. QED  BY <1>1, <1>2, <1>3, <2>2, <2>3, <2>4, <2>5, Walk
<1>. QED  BY <1>4, <1>5 DEF CheckReceiver

(* Any step of one goroutine *)
LEMMA Whole ==
    ASSUME Registry, Types', NEW t \in Thread, \A u \in Thread : u # t => Quiet(u),
           \A u \in Thread : u # t => th'[u] = th[u],
           Phase(t)', Role(t)', Emptying', Shutdown',
           \A e \in DOMAIN elem' : ElemInv(e)', \A c \in Conv : ConvInv(c)',
           \A a \in Address : Filed(a)'
    PROVE  Registry'
<1>1. OneBusy' /\ \A u \in Thread : Role(u)'
  BY Others DEF Registry
<1>2. \A u \in Thread : Phase(u)'
  BY QuietPhase
<1>. QED  BY <1>1, <1>2 DEF Registry

LEMMA StopFacts ==
    ASSUME Registry, NEW t \in Thread, \A u \in Thread : u # t => Quiet(u),
           \A u \in Thread : u # t => th'[u] = th[u], inClosed' = inClosed,
           t = "mgr" => mgr.why # "stop" /\ mgr'.why # "stop"
    PROVE  Emptying' /\ Shutdown'
<1>1. CASE t = "mgr"
  BY <1>1, NotStopping DEF Emptying, Shutdown
<1>2. CASE t # "mgr"
  <2>1. Quiet("mgr") /\ th'["mgr"] = th["mgr"]
    BY <1>2, MgrThread
  <2>. QED  BY <2>1, ManagerWaits DEF Registry
<1>. QED  BY <1>1, <1>2

LEMMA LoadStep ==
    ASSUME Registry, NEW t \in Thread, Load(t)
    PROVE  Registry'
<1>. DEFINE a == AddressOf(th[t].conv)
<1>1. Types /\ Role(t) /\ Phase(t) /\ OneBusy /\ th[t].pc = "load"
      /\ UNCHANGED <<convs, chan, opened>>
  BY DEF Registry, Load, At
<1>2. /\ t = "mgr" => mgr.why = "restart" /\ mgr.cs \in Status /\ ~inClosed
      /\ th[t].why # "tick" /\ th[t].why # "stop" /\ ~Quiet(t)
  BY <1>1, Registrant
<1>3. \A u \in Thread : u # t => Quiet(u)
  BY <1>1, <1>2, Alone
<1>4. /\ a \in Address /\ convs[a] \in 0..Len(elem) /\ Filed(a) /\ Len(elem) \in Nat
      /\ th[t] \in ThreadRecord /\ th \in [Thread -> ThreadRecord] /\ th[t].conv \in Conv
  BY <1>1, SeqDomain DEF Registry, Types, AddressOf, Layout, ThreadRecord
<1>5. CASE Active(a) /\ AfterRegister(t) /\ UNCHANGED elem
  <2>1. UNCHANGED <<elem, convs, chan, opened>>
    BY <1>1, <1>5
  <2>. QED  BY <1>1, <1>2, <1>3, <1>5, <2>1, Registered DEF mgr
<1>6. ASSUME NEW e \in Nat, th' = [th EXCEPT ![t].pc = "receiver", ![t].e = e]
      PROVE  /\ th' \in [Thread -> ThreadRecord] /\ \A u \in Thread : u # t => th'[u] = th[u]
             /\ th'[t].pc = "receiver" /\ th'[t].e = e /\ th'[t].conv = th[t].conv
             /\ th'[t].why = th[t].why /\ th'[t].cs = th[t].cs
             /\ Role(t)' /\ (t = "mgr" => mgr.why # "stop" /\ mgr'.why # "stop")
  <2>1. "receiver" \in Place
    BY DEF Place
  <2>2. /\ th' \in [Thread -> ThreadRecord] /\ \A u \in Thread : u # t => th'[u] = th[u]
        /\ th'[t].pc = "receiver" /\ th'[t].e = e /\ th'[t].conv = th[t].conv
        /\ th'[t].why = th[t].why /\ th'[t].cs = th[t].cs
    BY <1>1, <1>6, <2>1, Taking
  <2>4. Role(t)' /\ (t = "mgr" => mgr.why # "stop" /\ mgr'.why # "stop")
    BY <1>1, <1>2, <2>2 DEF Role, mgr
  <2>. QED  BY <2>2, <2>4
<1>7. CASE convs[a] # 0 /\ ~isActive(convs[a]) /\ UNCHANGED elem
           /\ th' = [th EXCEPT ![t].pc = "receiver", ![t].e = convs[a]]
  <2>. DEFINE e == convs[a]
  <2>0. e \in Nat /\ th' = [th EXCEPT ![t].pc = "receiver", ![t].e = e]
    BY <1>4, <1>7
  <2>1. /\ th' \in [Thread -> ThreadRecord] /\ \A u \in Thread : u # t => th'[u] = th[u]
        /\ th'[t].pc = "receiver" /\ th'[t].e = e /\ th'[t].conv = th[t].conv
        /\ th'[t].why = th[t].why
        /\ Role(t)' /\ (t = "mgr" => mgr.why # "stop" /\ mgr'.why # "stop")
    <3>. HIDE DEF e
    <3>. QED  BY <2>0, <1>6
  <2>2. UNCHANGED <<elem, convs, chan, opened>> /\ elem' = elem /\ convs' = convs /\ layout' = layout
    BY <1>1, <1>7 DEF chan
  <2>3. e \in DOMAIN elem /\ AddressOf(elem[e].conv) = a /\ elem[e].ttl >= 0
    <3>1. e \in DOMAIN elem /\ elem[e].ttl \in -1..queueTtl
      BY <1>1, <1>4, <1>7, SeqDomain DEF Elem
    <3>. QED  BY <1>4, <1>7, <3>1, CapAssumption DEF Filed, isActive
  <2>4. Phase(t)'
    BY <1>2, <2>1, <2>2, <2>3 DEF Phase, Same, Slot, AddressOf
  <2>5. t = "mgr" => Emptying'
    BY <2>1 DEF Emptying
  <2>. QED  BY <1>1, <1>2, <1>3, <2>1, <2>2, <2>4, <2>5, Walk
<1>8. CASE convs[a] = 0 /\ elem' = Append(elem, newConvergenceElement(th[t].conv))
           /\ th' = [th EXCEPT ![t].pc = "receiver", ![t].e = Len(elem) + 1]
  <2>. DEFINE e == Len(elem) + 1
              x == newConvergenceElement(th[t].conv)
  <2>0. e \in Nat /\ th' = [th EXCEPT ![t].pc = "receiver", ![t].e = e]
    BY <1>4, <1>8
  <2>1. /\ th' \in [Thread -> ThreadRecord] /\ \A u \in Thread : u # t => th'[u] = th[u]
        /\ th'[t].pc = "receiver" /\ th'[t].e = e /\ th'[t].conv = th[t].conv
        /\ th'[t].why = th[t].why
        /\ Role(t)' /\ (t = "mgr" => mgr.why # "stop" /\ mgr'.why # "stop")
    <3>. HIDE DEF e
    <3>. QED  BY <2>0, <1>6
  <2>2. /\ x \in Elem /\ x.conv = th[t].conv /\ x.ttl = queueTtl /\ x.h = "none" /\ queueTtl \in Nat
    BY <1>4, CapAssumption DEF newConvergenceElement, Elem
  <2>3. elem' = Append(elem, x) /\ elem \in Seq(Elem)
    BY <1>1, <1>8 DEF Types
  <2>. HIDE DEF x
  <2>4. /\ elem' \in Seq(Elem) /\ Len(elem') = e /\ elem'[e] = x
        /\ \A i \in DOMAIN elem : elem'[i] = elem[i]
        /\ DOMAIN elem' = DOMAIN elem \union {e} /\ e \notin DOMAIN elem
    BY <1>4, <2>2, <2>3
  <2>. HIDE DEF e
  <2>5. /\ convs' = convs /\ layout' = layout /\ opened' = opened /\ inClosed' = inClosed
        /\ panic' = panic /\ inChnl' = inChnl /\ emitted' = emitted /\ seen' = seen
    BY <1>1 DEF chan
  <2>6. Types'
    <3>1. convs' \in [Address -> 0..Len(elem')]
      BY <1>1, <1>4, <2>4, <2>5 DEF e, Types
    <3>. QED  BY <1>1, <2>1, <2>4, <2>5, <3>1 DEF Types
  <2>7. Phase(t)'
    BY <1>2, <1>8, <2>1, <2>2, <2>4, <2>5 DEF Phase, Same, Slot, AddressOf
  <2>8. Emptying' /\ Shutdown'
    BY <1>3, <2>1, <2>5, StopFacts
  <2>9. ASSUME NEW i \in DOMAIN elem'
        PROVE  ElemInv(i)'
    <3>1. CASE i = e
      BY <2>2, <2>4, <3>1 DEF ElemInv, Live
    <3>2. CASE i \in DOMAIN elem
      <4>1. ElemInv(i) /\ elem'[i] = elem[i]
        BY <2>4, <3>2 DEF Registry
      <4>2. Live(i)' = Live(i) /\ (Stored(i) => Stored(i)')
        BY <1>1, <2>1, <2>5, <4>1 DEF Live, Stored, AddressOf
      <4>3. Closing(i) => Closing(i)'
        BY <1>1, <2>1, MgrThread DEF Closing, mgr
      <4>. QED  BY <2>5, <4>1, <4>2, <4>3 DEF ElemInv
    <3>. QED  BY <2>4, <3>1, <3>2
  <2>10. \A c \in Conv : ConvInv(c)'
    <3>1. \A i \in DOMAIN elem : Live(i)' = Live(i) /\ elem'[i].conv = elem[i].conv /\ i \in DOMAIN elem'
      BY <2>4 DEF Live
    <3>. QED  BY <2>5, <3>1 DEF Registry, ConvInv
  <2>11. \A b \in Address : Filed(b)'
    <3>1. \A b \in Address : convs[b] # 0 => convs[b] \in DOMAIN elem
      BY <1>1, SeqDomain DEF Types
    <3>. QED  BY <2>4, <2>5, <3>1 DEF Registry, Filed, AddressOf
  <2>. QED  BY <1>3, <2>1, <2>5, <2>6, <2>7, <2>8, <2>9, <2>10, <2>11, Whole DEF Registry
<1>. QED  BY <1>1, <1>5, <1>7, <1>8 DEF Load

-----------------------------------------------------------------------------
(* activate *)

Starting(t) == th[t].pc \in {"activate", "start"}

LEMMA StartingFacts ==
    ASSUME Registry, NEW t \in Thread, Starting(t)
    PROVE  /\ ~Quiet(t) /\ \A u \in Thread : u # t => Quiet(u)
           /\ th[t].e \in DOMAIN elem /\ elem[th[t].e].ttl >= 0 /\ elem[th[t].e] \in Elem
           /\ AddressOf(elem[th[t].e].conv) = AddressOf(th[t].conv)
           /\ Slot(t) \in {0, th[t].e} /\ (th[t].why = "tick" => Slot(t) = th[t].e)
           /\ t = "mgr" => /\ mgr.why \in {"restart", "tick"} /\ ~inClosed
                           /\ mgr.why = "restart" => mgr.cs \in Status
                           /\ mgr.why = "tick" => mgr.cs = None
           /\ t # "mgr" => th[t].why = "register"
<1>1. Types /\ Role(t) /\ Phase(t) /\ OneBusy
  BY DEF Registry
<1>2. ~Quiet(t)
  BY DEF Starting, Quiet
<1>3. \A u \in Thread : u # t => Quiet(u)
  BY <1>1, <1>2, Alone
<1>4. /\ t = "mgr" => /\ mgr.why \in {"restart", "tick"}
                      /\ mgr.why = "restart" => mgr.cs \in Status
                      /\ mgr.why = "tick" => mgr.cs = None
      /\ t # "mgr" => th[t].why = "register"
  BY <1>1 DEF Role, mgr, Starting
<1>5. t = "mgr" => ~inClosed
  BY <1>4, NotStopping
<1>. QED  BY <1>1, <1>2, <1>3, <1>4, <1>5, SeqDomain DEF Phase, Same, Starting

LEMMA AfterActivateFacts ==
    ASSUME Registry, NEW t \in Thread, Starting(t), NEW keep \in BOOLEAN, AfterActivate(t, keep)
    PROVE  /\ th' \in [Thread -> ThreadRecord] /\ \A u \in Thread : u # t => th'[u] = th[u]
           /\ th'[t].conv = th[t].conv /\ th'[t].e = th[t].e /\ th'[t].why = th[t].why
           /\ th[t].why = "tick" /\ keep => th'[t].pc = "tick"
           /\ th[t].why = "tick" /\ ~keep => th'[t].pc = "drop"
           /\ th[t].why # "tick" /\ keep => th'[t].pc = "store"
           /\ th[t].why # "tick" /\ ~keep => th'[t].pc \in {"put", "done"}
           /\ Role(t)' /\ (t = "mgr" => mgr.why # "stop" /\ mgr'.why # "stop")
<1>. DEFINE pc == CASE th[t].why = "tick" -> (IF keep THEN "tick" ELSE "drop")
              [] th[t].why # "tick" /\ keep -> "store"
              [] OTHER -> (IF t = "mgr" THEN "put" ELSE "done")
<1>1. Types /\ th' = [th EXCEPT ![t].pc = pc] /\ pc \in Place
  BY DEF Registry, AfterActivate, Goto, Place
<1>2. /\ th' \in [Thread -> ThreadRecord] /\ \A u \in Thread : u # t => th'[u] = th[u]
      /\ th'[t].conv = th[t].conv /\ th'[t].e = th[t].e /\ th'[t].why = th[t].why
      /\ th'[t].cs = th[t].cs /\ th'[t].pc = pc
  <2>. HIDE DEF pc
  <2>. QED  BY <1>1, Going
<1>3. /\ t = "mgr" => /\ mgr.why \in {"restart", "tick"}
                      /\ mgr.why = "restart" => mgr.cs \in Status
                      /\ mgr.why = "tick" => mgr.cs = None
      /\ t # "mgr" => th[t].why = "register"
  BY StartingFacts
<1>4. /\ th[t].why = "tick" /\ keep => pc = "tick"
      /\ th[t].why = "tick" /\ ~keep => pc = "drop"
      /\ th[t].why # "tick" /\ keep => pc = "store"
      /\ th[t].why # "tick" /\ ~keep => pc = IF t = "mgr" THEN "put" ELSE "done"
  OBVIOUS
<1>. HIDE DEF pc
<1>5. Role(t)'
  <2>1. CASE t = "mgr"
    BY <1>2, <1>3, <1>4, <2>1 DEF Role, mgr
  <2>2. CASE t # "mgr"
    BY <1>2, <1>3, <1>4, <2>2 DEF Role
  <2>. QED  BY <2>1, <2>2
<1>. QED  BY <1>2, <1>3, <1>4, <1>5 DEF mgr

(* "neither successful nor worth a retry": convs loses or does not get it  *)
LEMMA GivenUp ==
    ASSUME Registry, NEW t \in Thread, Starting(t), AfterActivate(t, FALSE),
           UNCHANGED <<elem, convs, chan, opened>>
    PROVE  Registry'
<1>1. /\ \A u \in Thread : u # t => Quiet(u)
      /\ th[t].e \in DOMAIN elem /\ elem[th[t].e].ttl >= 0
      /\ AddressOf(elem[th[t].e].conv) = AddressOf(th[t].conv)
      /\ Slot(t) \in {0, th[t].e} /\ (th[t].why = "tick" => Slot(t) = th[t].e)
      /\ t = "mgr" => ~inClosed
  BY StartingFacts
<1>2. /\ th' \in [Thread -> ThreadRecord] /\ \A u \in Thread : u # t => th'[u] = th[u]
      /\ th'[t].conv = th[t].conv /\ th'[t].e = th[t].e /\ th'[t].why = th[t].why
      /\ th[t].why = "tick" => th'[t].pc = "drop"
      /\ th[t].why # "tick" => th'[t].pc \in {"put", "done"}
      /\ Role(t)' /\ (t = "mgr" => mgr.why # "stop" /\ mgr'.why # "stop")
  BY AfterActivateFacts
<1>3. elem' = elem /\ convs' = convs /\ layout' = layout
  BY DEF chan
<1>4. Phase(t)'
  BY <1>1, <1>2, <1>3 DEF Phase, Same, Slot, AddressOf
<1>5. t = "mgr" => Emptying'
  BY <1>2 DEF Emptying
<1>. QED  BY <1>1, <1>2, <1>4, <1>5, Walk DEF Starting

LEMMA ActivateStep ==
    ASSUME Registry, NEW t \in Thread, Activate(t)
    PROVE  Registry'
<1>1. Types /\ Role(t) /\ Phase(t) /\ th[t].pc = "activate" /\ Starting(t)
      /\ UNCHANGED <<elem, convs, chan, opened>>
  BY DEF Registry, Activate, At, Starting
<1>2. /\ \A u \in Thread : u # t => Quiet(u)
      /\ t = "mgr" => mgr.why \in {"restart", "tick"} /\ ~inClosed
  BY <1>1, StartingFacts
<1>3. CASE AfterActivate(t, FALSE)
  BY <1>1, <1>3, GivenUp
<1>4. CASE Goto(t, "start")
  <2>1. "start" \in Place /\ th' = [th EXCEPT ![t].pc = "start"]
    BY <1>4 DEF Goto, Place
  <2>2. /\ th' \in [Thread -> ThreadRecord] /\ \A u \in Thread : u # t => th'[u] = th[u]
        /\ th'[t].pc = "start" /\ th'[t].why = th[t].why /\ th'[t].cs = th[t].cs
        /\ th'[t].e = th[t].e /\ th'[t].conv = th[t].conv
    BY <1>1, <2>1, Going
  <2>3. Phase(t)'
    <3>1. layout' = layout /\ elem' = elem /\ convs' = convs
      BY <1>1 DEF chan
    <3>. QED  BY <1>1, <2>2, <3>1 DEF Phase, Same, Slot, AddressOf
  <2>4. Role(t)'
    BY <1>1, <2>2 DEF Role, mgr
  <2>5. t = "mgr" => Emptying'
    BY <1>2, <2>2 DEF Emptying, mgr
  <2>. QED  BY <1>1, <1>2, <2>2, <2>3, <2>4, <2>5, Walk
<1>. QED  BY <1>3, <1>4 DEF Activate

LEMMA StartExpiredStep ==
    ASSUME Registry, NEW t \in Thread, StartExpired(t)
    PROVE  Registry'
  BY GivenUp DEF StartExpired, At, Starting

(* An element is replaced *)
LEMMA ElemUpdate ==
    ASSUME Types, NEW e \in DOMAIN elem, NEW x \in Elem, elem' = [elem EXCEPT ![e] = x]
    PROVE  /\ elem' \in Seq(Elem) /\ Len(elem') = Len(elem) /\ DOMAIN elem' = DOMAIN elem
           /\ elem'[e] = x /\ \A i \in DOMAIN elem : i # e => elem'[i] = elem[i]
<1>1. elem \in Seq(Elem)
  BY DEF Types
<1>2. elem' \in Seq(Elem) /\ Len(elem') = Len(elem)
  BY <1>1, ExceptSeq
<1>. QED  BY <1>1, <1>2

(* Handlers that run for one address are one.                              *)
LEMMA OneHandler ==
    ASSUME Registry, NEW d \in DOMAIN elem, NEW e \in DOMAIN elem, Live(d), Live(e),
           AddressOf(elem[d].conv) = AddressOf(elem[e].conv)
    PROVE  d = e
<1>1. Stored(d) /\ Stored(e)
  BY DEF Registry, ElemInv
<1>2. ASSUME NEW t \in Thread, th[t].pc = "store"
      PROVE  Slot(t) \in {0, th[t].e} /\ AddressOf(elem[th[t].e].conv) = AddressOf(th[t].conv)
  BY <1>2 DEF Registry, Phase, Same
<1>3. \A t, u \in Thread : th[t].pc = "store" /\ th[u].pc = "store" => t = u
  BY DEF Registry, OneBusy, Quiet
<1>4. d # 0 /\ e # 0
  BY SeqDomain DEF Registry
<1>. QED  BY <1>1, <1>2, <1>3, <1>4 DEF Stored, Slot

(* The CLA of an element that is about to start is not open.               *)
LEMMA NotYetOpen ==
    ASSUME Registry, NEW t \in Thread, Starting(t)
    PROVE  opened[elem[th[t].e].conv] = 0 /\ ~Live(th[t].e)
<1>. DEFINE e == th[t].e
            c == elem[e].conv
<1>1. /\ \A u \in Thread : u # t => Quiet(u)
      /\ e \in DOMAIN elem /\ elem[e].ttl >= 0 /\ elem[e] \in Elem
      /\ AddressOf(elem[e].conv) = AddressOf(th[t].conv)
      /\ Slot(t) \in {0, e}
  BY StartingFacts
<1>2. ~Live(e)
  <2>1. elem[e].ttl \in Int
    BY <1>1, CapAssumption DEF Elem
  <2>. QED  BY <1>1, <2>1 DEF Registry, ElemInv
<1>3. c \in Conv
  BY <1>1 DEF Elem
<1>4. \A u \in Thread : th[u].pc # "store"
  BY <1>1 DEF Quiet, Starting
<1>5. ASSUME opened[c] # 0
      PROVE  FALSE
  <2>1. PICK d \in DOMAIN elem : Live(d) /\ elem[d].conv = c
    BY <1>3, <1>5 DEF Registry, ConvInv
  <2>2. convs[AddressOf(c)] = d
    BY <1>4, <2>1 DEF Registry, ElemInv, Stored
  <2>3. d # 0
    BY SeqDomain DEF Registry
  <2>. QED  BY <1>1, <1>2, <2>1, <2>2, <2>3 DEF Slot
<1>. QED  BY <1>2, <1>5

LEMMA Attempted ==
    ASSUME Registry, NEW t \in Thread, Starting(t), NEW keep \in BOOLEAN, AfterActivate(t, keep),
           NEW e, e = th[t].e, NEW x \in Elem, elem' = [elem EXCEPT ![e] = x],
           x.conv = elem[e].conv, UNCHANGED <<convs, chan>>,
           \/ /\ x.h = "select" /\ ~x.stop /\ x.ttl = -1 /\ keep
              /\ opened' = [opened EXCEPT ![x.conv] = 1]
           \/ /\ x.h = elem[e].h /\ opened' = opened
              /\ x.ttl < 0 => x.conv \in Permanent
              /\ ~keep => x.ttl >= 0
    PROVE  Registry'
<1>1. /\ \A u \in Thread : u # t => Quiet(u)
      /\ e \in DOMAIN elem /\ elem[e].ttl >= 0
      /\ AddressOf(elem[e].conv) = AddressOf(th[t].conv)
      /\ Slot(t) \in {0, e} /\ (th[t].why = "tick" => Slot(t) = e)
      /\ t = "mgr" => ~inClosed
  BY StartingFacts
<1>2. /\ th' \in [Thread -> ThreadRecord] /\ \A u \in Thread : u # t => th'[u] = th[u]
      /\ th'[t].conv = th[t].conv /\ th'[t].e = e /\ th'[t].why = th[t].why
      /\ th[t].why = "tick" /\ keep => th'[t].pc = "tick"
      /\ th[t].why = "tick" /\ ~keep => th'[t].pc = "drop"
      /\ th[t].why # "tick" /\ keep => th'[t].pc = "store"
      /\ th[t].why # "tick" /\ ~keep => th'[t].pc \in {"put", "done"}
      /\ Role(t)' /\ (t = "mgr" => mgr.why # "stop" /\ mgr'.why # "stop")
  BY AfterActivateFacts
<1>3. Types /\ opened[x.conv] = 0 /\ ~Live(e) /\ x.conv \in Conv
  BY NotYetOpen DEF Registry, Elem
<1>4. /\ elem' \in Seq(Elem) /\ Len(elem') = Len(elem) /\ DOMAIN elem' = DOMAIN elem
      /\ elem'[e] = x /\ \A i \in DOMAIN elem : i # e => elem'[i] = elem[i]
  BY <1>1, <1>3, ElemUpdate
<1>5. /\ convs' = convs /\ layout' = layout /\ inClosed' = inClosed
      /\ panic' = panic /\ inChnl' = inChnl /\ emitted' = emitted /\ seen' = seen
  BY DEF chan
<1>6. \A i \in DOMAIN elem : elem'[i].conv = elem[i].conv
  BY <1>4
<1>7. Types'
  <2>1. opened' \in [Conv -> Nat]
    <3>1. opened \in [Conv -> Nat]
      BY <1>3 DEF Types
    <3>2. opened' = opened \/ opened' = [opened EXCEPT ![x.conv] = 1]
      OBVIOUS
    <3>. QED  BY <3>1, <3>2
  <2>. QED  BY <1>2, <1>3, <1>4, <1>5, <2>1 DEF Types
<1>8. Phase(t)'
  BY <1>1, <1>2, <1>4, <1>5, <1>6 DEF Phase, Same, Slot, AddressOf
<1>9. Emptying' /\ Shutdown'
  BY <1>1, <1>2, <1>5, StopFacts
<1>10. ASSUME NEW i \in DOMAIN elem, i # e
       PROVE  ElemInv(i)'
  <2>1. ElemInv(i) /\ elem'[i] = elem[i] /\ elem[i].conv \in Conv
    BY <1>3, <1>4, <1>10, SeqDomain DEF Registry, Elem
  <2>2. Live(i)' = Live(i) /\ (Stored(i) => Stored(i)')
    BY <1>2, <1>5, <2>1 DEF Live, Stored, AddressOf, Starting
  <2>3. Closing(i) => Closing(i)'
    BY <1>2, MgrThread DEF Closing, mgr, Starting
  <2>4. Live(i) => opened'[elem[i].conv] = opened[elem[i].conv]
    <3>1. Live(i) => opened[elem[i].conv] = 1
      BY <2>1 DEF ElemInv
    <3>2. opened \in [Conv -> Nat]
      BY <1>3 DEF Types
    <3>. QED  BY <1>3, <2>1, <3>1, <3>2
  <2>. QED  BY <2>1, <2>2, <2>3, <2>4 DEF ElemInv
<1>11. ElemInv(e)'
  <2>1. CASE /\ x.h = "select" /\ ~x.stop /\ x.ttl = -1 /\ keep
             /\ opened' = [opened EXCEPT ![x.conv] = 1]
    <3>1. Stored(e)'
      BY <1>1, <1>2, <1>4, <1>5, <2>1 DEF Stored, Slot, AddressOf
    <3>2. opened'[x.conv] = 1
      BY <1>3, <2>1 DEF Types
    <3>. QED  BY <1>4, <2>1, <3>1, <3>2 DEF ElemInv, Live
  <2>2. CASE /\ x.h = elem[e].h /\ opened' = opened
             /\ x.ttl < 0 => x.conv \in Permanent
    BY <1>3, <1>4, <2>2 DEF ElemInv, Live
  <2>. QED  BY <2>1, <2>2
<1>12. \A i \in DOMAIN elem' : ElemInv(i)'
  BY <1>4, <1>10, <1>11
<1>13. ASSUME NEW c \in Conv
       PROVE  ConvInv(c)'
  <2>1. ConvInv(c)
    BY DEF Registry
  <2>2. \A i \in DOMAIN elem : Live(i) => Live(i)' /\ elem'[i].conv = elem[i].conv
    BY <1>3, <1>4 DEF Live
  <2>3. CASE opened'[c] = opened[c]
    BY <1>4, <2>1, <2>2, <2>3 DEF ConvInv
  <2>4. CASE opened' = [opened EXCEPT ![x.conv] = 1] /\ c = x.conv /\ x.h = "select"
    <3>1. opened'[c] = 1 /\ Live(e)' /\ elem'[e].conv = c
      BY <1>3, <1>4, <2>4 DEF Types, Live
    <3>. QED  BY <1>1, <1>4, <3>1 DEF ConvInv
  <2>. QED  BY <1>3, <2>3, <2>4 DEF Types
<1>14. \A a \in Address : Filed(a)'
  <2>1. \A a \in Address : convs[a] # 0 => convs[a] \in DOMAIN elem
    BY <1>3, SeqDomain DEF Types
  <2>. QED  BY <1>5, <1>6, <2>1 DEF Registry, Filed, AddressOf
<1>. QED  BY <1>1, <1>2, <1>5, <1>7, <1>8, <1>9, <1>12, <1>13, <1>14, Whole DEF Registry

LEMMA StartOkStep ==
    ASSUME Registry, NEW t \in Thread, StartOk(t)
    PROVE  Registry'
<1>. DEFINE e == th[t].e
            x == [elem[e] EXCEPT !.ttl = -1, !.h = "select", !.stop = FALSE]
<1>1. Starting(t) /\ AfterActivate(t, TRUE) /\ UNCHANGED <<convs, chan>>
  BY DEF StartOk, At, Starting
<1>2. Types /\ e \in DOMAIN elem /\ elem[e] \in Elem /\ opened[elem[e].conv] = 0
  BY <1>1, StartingFacts, NotYetOpen DEF Registry
<1>3. /\ x \in Elem /\ x.conv = elem[e].conv /\ x.h = "select" /\ ~x.stop /\ x.ttl = -1
  <2>1. x.conv = elem[e].conv /\ x.h = "select" /\ ~x.stop /\ x.ttl = -1
    BY <1>2 DEF Elem
  <2>2. -1 \in -1..queueTtl
    BY CapAssumption
  <2>3. x \in Elem
    BY <1>2, <2>2 DEF Elem
  <2>. QED  BY <2>1, <2>3
<1>4. elem' = [elem EXCEPT ![e] = x]
  BY <1>2 DEF StartOk
<1>. HIDE DEF x
<1>5. opened' = [opened EXCEPT ![x.conv] = 1]
  BY <1>2, <1>3 DEF StartOk
<1>. HIDE DEF e
<1>. QED  BY <1>1, <1>3, <1>4, <1>5, Attempted DEF e

LEMMA StartRetryStep ==
    ASSUME Registry, NEW t \in Thread, StartRetry(t)
    PROVE  Registry'
<1>. DEFINE e == th[t].e
            x == [elem[e] EXCEPT !.ttl = @ - 1]
<1>1. Starting(t) /\ AfterActivate(t, TRUE) /\ UNCHANGED <<convs, chan>> /\ opened' = opened
  BY DEF StartRetry, At, Starting
<1>2. Types /\ e \in DOMAIN elem /\ elem[e] \in Elem /\ elem[e].ttl >= 0
  BY <1>1, StartingFacts DEF Registry
<1>3. x \in Elem /\ x.conv = elem[e].conv /\ x.h = elem[e].h /\ x.ttl = elem[e].ttl - 1
  BY <1>2, CapAssumption DEF Elem
<1>4. x.ttl < 0 => x.conv \in Permanent
  <2>1. elem[e].ttl \in Int
    BY <1>2, CapAssumption DEF Elem
  <2>2. ~TtlExpired(e)
    BY DEF StartRetry
  <2>. HIDE DEF x
  <2>. QED  BY <1>2, <1>3, <2>1, <2>2 DEF TtlExpired
<1>5. elem' = [elem EXCEPT ![e] = x]
  BY <1>2 DEF StartRetry
<1>. HIDE DEF x, e
<1>. QED  BY <1>1, <1>3, <1>4, <1>5, Attempted DEF e

LEMMA StartFailStep ==
    ASSUME Registry, NEW t \in Thread, StartFail(t)
    PROVE  Registry'
<1>. DEFINE e == th[t].e
            x == [elem[e] EXCEPT !.ttl = 0]
<1>1. Starting(t) /\ AfterActivate(t, FALSE) /\ UNCHANGED <<convs, chan>> /\ opened' = opened
  BY DEF StartFail, At, Starting
<1>2. Types /\ e \in DOMAIN elem /\ elem[e] \in Elem
  BY <1>1, StartingFacts DEF Registry
<1>3. x \in Elem /\ x.conv = elem[e].conv /\ x.h = elem[e].h /\ x.ttl >= 0 /\ ~(x.ttl < 0)
  <2>1. 0 \in -1..queueTtl
    BY CapAssumption
  <2>. QED  BY <1>2, <2>1 DEF Elem
<1>5. elem' = [elem EXCEPT ![e] = x]
  BY <1>2 DEF StartFail
<1>. HIDE DEF x, e
<1>. QED  BY <1>1, <1>3, <1>5, Attempted DEF e

-----------------------------------------------------------------------------
(* A step that changes convs at one address *)
LEMMA Filing ==
    ASSUME Registry, NEW t \in Thread, \A u \in Thread : u # t => Quiet(u),
           th' \in [Thread -> ThreadRecord], \A u \in Thread : u # t => th'[u] = th[u],
           NEW a \in Address, NEW v \in 0..Len(elem), convs' = [convs EXCEPT ![a] = v],
           v # 0 => AddressOf(elem[v].conv) = a,
           \A i \in DOMAIN elem : Live(i) /\ AddressOf(elem[i].conv) = a => v = i,
           th[t].pc = "store" => AddressOf(elem[th[t].e].conv) = a,
           th[t].pc # "deactivate", UNCHANGED <<elem, chan, opened>>,
           Phase(t)', Role(t)', Emptying', Shutdown'
    PROVE  Registry'
<1>1. /\ layout' = layout /\ elem' = elem /\ opened' = opened /\ inClosed' = inClosed
      /\ panic' = panic /\ inChnl' = inChnl /\ emitted' = emitted /\ seen' = seen
  BY DEF chan
<1>2. Types /\ convs \in [Address -> 0..Len(elem)]
  BY DEF Registry, Types
<1>3. /\ convs' \in [Address -> 0..Len(elem)] /\ convs'[a] = v
      /\ \A b \in Address : b # a => convs'[b] = convs[b]
  BY <1>2
<1>4. Types'
  BY <1>1, <1>2, <1>3 DEF Types
<1>5. ASSUME NEW i \in DOMAIN elem'
      PROVE  ElemInv(i)'
  <2>1. ElemInv(i) /\ i \in DOMAIN elem /\ Live(i)' = Live(i) /\ AddressOf(elem[i].conv) \in Address
    <3>1. elem[i].conv \in Conv /\ layout \in Layout
      BY <1>1, <1>2, SeqDomain DEF Elem, Types
    <3>. QED  BY <1>1, <3>1 DEF Registry, Live, AddressOf, Layout
  <2>2. Closing(i) => Closing(i)'
    BY MgrThread DEF Closing, mgr
  <2>3. ASSUME Live(i)
        PROVE  Stored(i)'
    <3>1. CASE AddressOf(elem[i].conv) = a
      BY <1>1, <1>3, <2>1, <2>3, <3>1 DEF Stored, AddressOf
    <3>2. CASE AddressOf(elem[i].conv) # a
      <4>1. Stored(i)
        BY <2>1, <2>3 DEF ElemInv
      <4>2. \A u \in Thread : th[u].pc = "store" => u = t
        BY DEF Quiet
      <4>3. convs[AddressOf(elem[i].conv)] = i
        BY <3>2, <4>1, <4>2 DEF Stored
      <4>. QED  BY <1>1, <1>3, <2>1, <3>2, <4>3 DEF Stored, AddressOf
    <3>. QED  BY <3>1, <3>2
  <2>. QED  BY <1>1, <2>1, <2>2, <2>3 DEF ElemInv
<1>6. \A c \in Conv : ConvInv(c)'
  BY <1>1 DEF Registry, ConvInv, Live
<1>7. \A b \in Address : Filed(b)'
  BY <1>1, <1>3 DEF Registry, Filed, AddressOf
<1>. QED  BY <1>1, <1>4, <1>5, <1>6, <1>7, Whole DEF Registry

LEMMA StoreStep ==
    ASSUME Registry, NEW t \in Thread, Store(t)
    PROVE  Registry'
<1>. DEFINE a == AddressOf(th[t].conv)
            e == th[t].e
            pc == IF t = "mgr" THEN "put" ELSE "done"
<1>1. Types /\ Role(t) /\ Phase(t) /\ OneBusy /\ th[t].pc = "store"
      /\ UNCHANGED <<elem, chan, opened>> /\ convs' = [convs EXCEPT ![a] = e]
  BY DEF Registry, Store, At
<1>2. /\ t = "mgr" => mgr.why = "restart" /\ mgr.cs \in Status /\ ~inClosed
      /\ th[t].why # "tick" /\ ~Quiet(t)
  BY <1>1, Registrant
<1>3. \A u \in Thread : u # t => Quiet(u)
  BY <1>1, <1>2, Alone
<1>4. pc \in Place /\ th' = [th EXCEPT ![t].pc = pc]
  BY DEF Store, AfterRegister, Goto, Place
<1>5. /\ th' \in [Thread -> ThreadRecord] /\ \A u \in Thread : u # t => th'[u] = th[u]
      /\ th'[t].pc = pc /\ th'[t].why = th[t].why /\ th'[t].cs = th[t].cs
  <2>. HIDE DEF pc
  <2>. QED  BY <1>1, <1>4, Going
<1>6. e \in DOMAIN elem /\ e \in 0..Len(elem) /\ AddressOf(elem[e].conv) = a /\ Slot(t) \in {0, e}
  BY <1>1, SeqDomain DEF Phase, Same
<1>7. a \in Address
  BY <1>1 DEF Types, AddressOf, Layout, ThreadRecord
<1>8. ASSUME NEW i \in DOMAIN elem, Live(i), AddressOf(elem[i].conv) = a
      PROVE  e = i
  <2>1. Stored(i) /\ i # 0
    BY <1>1, <1>8, SeqDomain DEF Registry, ElemInv
  <2>2. \A u \in Thread : th[u].pc = "store" => u = t
    BY <1>3 DEF Quiet
  <2>. QED  BY <1>6, <1>8, <2>1, <2>2 DEF Stored, Slot
<1>9. Phase(t)' /\ Role(t)'
  <2>1. Phase(t)'
    BY <1>5 DEF Phase
  <2>2. Role(t)'
    BY <1>1, <1>2, <1>5 DEF Role, mgr
  <2>. QED  BY <2>1, <2>2
<1>10. Emptying' /\ Shutdown'
  <2>1. inClosed' = inClosed
    BY <1>1 DEF chan
  <2>2. t = "mgr" => mgr.why # "stop" /\ mgr'.why # "stop"
    BY <1>2, <1>5 DEF mgr
  <2>. QED  BY <1>3, <1>5, <2>1, <2>2, StopFacts
<1>. HIDE DEF a, e, pc
<1>. QED  BY <1>1, <1>3, <1>5, <1>6, <1>7, <1>8, <1>9, <1>10, Filing DEF e

-----------------------------------------------------------------------------
(* manager.handler *)

LEMMA ManagerFacts ==
    ASSUME Registry
    PROVE  /\ "mgr" \in Thread /\ Types /\ Phase("mgr") /\ Role("mgr") /\ Emptying /\ Shutdown
           /\ th["mgr"] \in ThreadRecord /\ mgr = th["mgr"]
           /\ mgr.pc # "select" => \A u \in Thread : u # "mgr" => Quiet(u)
           /\ mgr.pc # "done" => ~inClosed
<1>1. "mgr" \in Thread /\ Types /\ Phase("mgr") /\ Role("mgr") /\ Emptying /\ Shutdown /\ OneBusy
  BY MgrThread DEF Registry
<1>2. mgr.pc # "select" => \A u \in Thread : u # "mgr" => Quiet(u)
  BY <1>1, Alone DEF Quiet, mgr
<1>. QED  BY <1>1, <1>2 DEF Types, mgr, Shutdown

LEMMA TakeStatusStep ==
    ASSUME Registry, TakeStatus, \A u \in Thread : u # "mgr" => Quiet(u)
    PROVE  Registry'
<1>. DEFINE cs == Head(inChnl)
            r == [th["mgr"] EXCEPT !.cs = cs, !.conv = cs.conv, !.why = "restart",
                                   !.pc = IF cs.gone THEN "unregister" ELSE "put"]
<1>1. Types /\ "mgr" \in Thread /\ mgr.pc = "select" /\ mgr = th["mgr"] /\ th["mgr"] \in ThreadRecord
      /\ ~inClosed
  BY ManagerFacts DEF TakeStatus, At, mgr
<1>2. cs \in Status /\ inChnl \in Seq(Status) /\ inChnl' \in Seq(Status)
  BY <1>1 DEF TakeStatus, Types
<1>3. /\ r \in ThreadRecord /\ r.pc \in {"unregister", "put"} /\ r.why = "restart" /\ r.cs = cs
      /\ r.conv = cs.conv
  BY <1>1, <1>2 DEF ThreadRecord, Place, Why, Status
<1>4. th' = [th EXCEPT !["mgr"] = r] /\ th \in [Thread -> ThreadRecord]
  BY <1>1 DEF TakeStatus, Types
<1>. HIDE DEF r, cs
<1>5. /\ th' \in [Thread -> ThreadRecord] /\ \A u \in Thread : u # "mgr" => th'[u] = th[u]
      /\ th'["mgr"] = r
  BY <1>1, <1>3, <1>4
<1>6. /\ layout' = layout /\ elem' = elem /\ convs' = convs /\ opened' = opened
      /\ inClosed' = inClosed /\ panic' = panic /\ emitted' = emitted /\ seen' = seen
  BY DEF TakeStatus
<1>7. Types'
  BY <1>1, <1>2, <1>5, <1>6 DEF Types
<1>8. Phase("mgr")' /\ Role("mgr")' /\ Emptying' /\ Shutdown'
  BY <1>1, <1>2, <1>3, <1>5, <1>6 DEF Phase, Role, Emptying, Shutdown, mgr
<1>. QED  BY <1>1, <1>5, <1>6, <1>7, <1>8, ThreadMove

LEMMA PassOnStep ==
    ASSUME Registry, PassOn
    PROVE  Registry'
<1>. DEFINE r == [th["mgr"] EXCEPT !.pc = "select", !.cs = None]
<1>1. Types /\ "mgr" \in Thread /\ mgr.pc = "put" /\ mgr = th["mgr"] /\ th["mgr"] \in ThreadRecord
      /\ ~inClosed /\ mgr.cs \in Status /\ \A u \in Thread : u # "mgr" => Quiet(u)
  BY ManagerFacts DEF PassOn, At, mgr, Role
<1>3. r \in ThreadRecord /\ r.pc = "select" /\ r.cs = None
  BY <1>1 DEF ThreadRecord, Place
<1>4. th' = [th EXCEPT !["mgr"] = r] /\ th \in [Thread -> ThreadRecord]
  BY <1>1 DEF PassOn, Types
<1>. HIDE DEF r
<1>5. /\ th' \in [Thread -> ThreadRecord] /\ \A u \in Thread : u # "mgr" => th'[u] = th[u]
      /\ th'["mgr"] = r
  BY <1>1, <1>3, <1>4
<1>6. /\ layout' = layout /\ elem' = elem /\ convs' = convs /\ opened' = opened
      /\ inClosed' = inClosed /\ panic' = panic /\ emitted' = emitted /\ inChnl' = inChnl
  BY DEF PassOn
<1>2. seen' \in [Conv -> Nat]
  <2>1. mgr.cs.conv \in Conv /\ mgr.cs.n \in Nat
    BY <1>1 DEF Status
  <2>. QED  BY <1>1, <2>1 DEF PassOn, Types
<1>7. Types'
  BY <1>1, <1>2, <1>5, <1>6 DEF Types
<1>8. Phase("mgr")' /\ Role("mgr")' /\ Emptying' /\ Shutdown'
  BY <1>1, <1>3, <1>5, <1>6 DEF Phase, Role, Emptying, Shutdown, mgr
<1>. QED  BY <1>1, <1>5, <1>6, <1>7, <1>8, ThreadMove

(* AfterUnregister *)
LEMMA Unregistered ==
    ASSUME Registry, AfterUnregister, mgr.pc \in {"unregister", "delete"}
    PROVE  /\ th' \in [Thread -> ThreadRecord] /\ \A u \in Thread : u # "mgr" => th'[u] = th[u]
           /\ mgr'.why = mgr.why /\ mgr'.todo = mgr.todo /\ mgr'.conv = mgr.conv
           /\ mgr'.pc = IF mgr.why = "stop" THEN "stopping" ELSE "register"
           /\ Phase("mgr")' /\ Role("mgr")'
<1>. DEFINE pc == IF mgr.why = "stop" THEN "stopping" ELSE "register"
<1>1. Types /\ "mgr" \in Thread /\ Role("mgr")
  BY ManagerFacts
<1>2. pc \in Place /\ th' = [th EXCEPT !["mgr"].pc = pc]
  BY DEF AfterUnregister, Goto, Place
<1>3. /\ th' \in [Thread -> ThreadRecord] /\ \A u \in Thread : u # "mgr" => th'[u] = th[u]
      /\ th'["mgr"].pc = pc /\ th'["mgr"].conv = th["mgr"].conv /\ th'["mgr"].cs = th["mgr"].cs
      /\ th'["mgr"].why = th["mgr"].why /\ th'["mgr"].todo = th["mgr"].todo
  <2>. HIDE DEF pc
  <2>. QED  BY <1>1, <1>2, Going
<1>4. Phase("mgr")'
  BY <1>3 DEF Phase
<1>5. Role("mgr")'
  BY <1>1, <1>3 DEF Role, mgr
<1>. QED  BY <1>3, <1>4, <1>5 DEF mgr

LEMMA MgrTakes ==
    ASSUME Types, NEW pc \in Place, NEW e \in Nat,
           th' = [th EXCEPT !["mgr"].pc = pc, !["mgr"].e = e]
    PROVE  /\ th' \in [Thread -> ThreadRecord] /\ \A u \in Thread : u # "mgr" => th'[u] = th[u]
           /\ th'["mgr"].pc = pc /\ th'["mgr"].conv = mgr.conv /\ th'["mgr"].e = e
           /\ th'["mgr"].why = mgr.why /\ th'["mgr"].todo = mgr.todo /\ th'["mgr"].cs = mgr.cs
<1>1. "mgr" \in Thread
  BY MgrThread
<1>. QED  BY <1>1, Taking DEF mgr

LEMMA UnregisterStep ==
    ASSUME Registry, Unregister
    PROVE  Registry'
<1>. DEFINE a == AddressOf(mgr.conv)
            e == convs[a]
<1>1. /\ "mgr" \in Thread /\ Types /\ Phase("mgr") /\ Role("mgr") /\ Emptying /\ Shutdown
      /\ th["mgr"] \in ThreadRecord /\ mgr = th["mgr"] /\ mgr.pc = "unregister" /\ ~inClosed
      /\ \A u \in Thread : u # "mgr" => Quiet(u)
  BY ManagerFacts DEF Unregister, At, mgr
<1>2. a \in Address /\ e \in 0..Len(elem) /\ Slot("mgr") = e /\ DOMAIN elem = 1..Len(elem)
      /\ Len(elem) \in Nat
  BY <1>1, SeqDomain DEF Types, AddressOf, Layout, ThreadRecord, Slot, mgr
<1>3. /\ layout' = layout /\ convs' = convs /\ opened' = opened /\ inChnl' = inChnl
      /\ inClosed' = inClosed /\ emitted' = emitted /\ seen' = seen
      /\ core' = core /\ stopFlag' = stopFlag
  BY DEF Unregister
<1>4. CASE (e = 0 \/ (e # 0 /\ elem[e].conv # mgr.conv)) /\ AfterUnregister /\ UNCHANGED <<elem, panic>>
  <2>1. mgr.why # "stop"
    BY <1>1, <1>2, <1>4 DEF Emptying
  <2>2. /\ th' \in [Thread -> ThreadRecord] /\ \A u \in Thread : u # "mgr" => th'[u] = th[u]
        /\ mgr'.why = mgr.why /\ Phase("mgr")' /\ Role("mgr")'
    BY <1>1, <1>4, Unregistered
  <2>3. UNCHANGED <<elem, convs, chan, opened>>
    BY <1>3, <1>4 DEF chan
  <2>4. Emptying'
    BY <2>1, <2>2 DEF Emptying
  <2>. QED  BY <1>1, <2>2, <2>3, <2>4, Walk
<1>5. CASE e # 0 /\ elem[e].conv = mgr.conv /\ ~isActive(e) /\ UNCHANGED <<elem, panic>>
           /\ th' = [th EXCEPT !["mgr"].pc = "delete", !["mgr"].e = e]
  <2>1. "delete" \in Place /\ e \in Nat
    BY <1>2 DEF Place
  <2>3. /\ th' \in [Thread -> ThreadRecord] /\ \A u \in Thread : u # "mgr" => th'[u] = th[u]
        /\ th'["mgr"].pc = "delete" /\ th'["mgr"].e = e /\ th'["mgr"].conv = mgr.conv
        /\ th'["mgr"].why = mgr.why /\ th'["mgr"].cs = mgr.cs /\ th'["mgr"].todo = mgr.todo
    <3>1. th' = [th EXCEPT !["mgr"].pc = "delete", !["mgr"].e = e]
      BY <1>5
    <3>. HIDE DEF e
    <3>. QED  BY <1>1, <2>1, <3>1, MgrTakes
  <2>4. UNCHANGED <<elem, convs, chan, opened>> /\ elem' = elem
    BY <1>3, <1>5 DEF chan
  <2>5. e \in DOMAIN elem /\ elem[e].ttl >= 0
    <3>1. e \in DOMAIN elem /\ elem[e].ttl \in Int
      BY <1>1, <1>2, <1>5, SeqDomain, CapAssumption DEF Elem
    <3>. QED  BY <1>5, <3>1 DEF isActive
  <2>6. Phase("mgr")'
    BY <1>3, <1>5, <2>1, <2>3, <2>4, <2>5 DEF Phase, Same, Slot, AddressOf
  <2>7. Role("mgr")'
    BY <1>1, <2>1, <2>3 DEF Role, mgr
  <2>8. Emptying'
    BY <1>1, <1>3, <2>1, <2>3 DEF Emptying, AddressOf, mgr
  <2>. QED  BY <1>1, <2>3, <2>4, <2>6, <2>7, <2>8, Walk
<1>6. CASE /\ e # 0 /\ elem[e].conv = mgr.conv /\ isActive(e)
           /\ elem' = [elem EXCEPT ![e].stop = TRUE]
           /\ panic' = (elem[e].h \in {"none", "closed"})
           /\ th' = [th EXCEPT !["mgr"].pc = "deactivate", !["mgr"].e = e]
  <2>. DEFINE x == [elem[e] EXCEPT !.stop = TRUE]
  <2>1. "deactivate" \in Place /\ e \in Nat
    BY <1>2 DEF Place
  <2>3. /\ th' \in [Thread -> ThreadRecord] /\ \A u \in Thread : u # "mgr" => th'[u] = th[u]
        /\ th'["mgr"].pc = "deactivate" /\ th'["mgr"].e = e /\ th'["mgr"].conv = mgr.conv
        /\ th'["mgr"].why = mgr.why /\ th'["mgr"].cs = mgr.cs /\ th'["mgr"].todo = mgr.todo
    <3>1. th' = [th EXCEPT !["mgr"].pc = "deactivate", !["mgr"].e = e]
      BY <1>6
    <3>. HIDE DEF e
    <3>. QED  BY <1>1, <2>1, <3>1, MgrTakes
  <2>4. e \in DOMAIN elem /\ elem[e] \in Elem
    BY <1>1, <1>2, <1>6, SeqDomain
  <2>5. x \in Elem /\ x.conv = elem[e].conv /\ x.h = elem[e].h /\ x.ttl = elem[e].ttl
    BY <2>4 DEF Elem
  <2>6. elem' = [elem EXCEPT ![e] = x]
    BY <1>6, <2>4
  <2>. HIDE DEF x
  <2>7. /\ elem' \in Seq(Elem) /\ Len(elem') = Len(elem) /\ DOMAIN elem' = DOMAIN elem
        /\ elem'[e] = x /\ \A i \in DOMAIN elem : i # e => elem'[i] = elem[i]
    <3>. HIDE DEF e
    <3>. QED  BY <1>1, <2>4, <2>5, <2>6, ElemUpdate
  <2>8. \A i \in DOMAIN elem : elem'[i].conv = elem[i].conv /\ elem'[i].h = elem[i].h
                               /\ elem'[i].ttl = elem[i].ttl
    BY <2>5, <2>7
  <2>9. Types'
    <3>1. panic' \in BOOLEAN
      BY <1>6
    <3>. QED  BY <1>1, <1>3, <2>3, <2>7, <3>1 DEF Types
  <2>10. Phase("mgr")'
    BY <1>3, <1>6, <2>1, <2>3, <2>4, <2>7, <2>8 DEF Phase, Same, Slot, AddressOf
  <2>11. Role("mgr")'
    BY <1>1, <2>1, <2>3 DEF Role, mgr
  <2>12. Emptying' /\ Shutdown'
    BY <1>1, <1>3, <2>1, <2>3 DEF Emptying, Shutdown, AddressOf, mgr
  <2>14. ASSUME NEW i \in DOMAIN elem'
         PROVE  ElemInv(i)'
    <3>1. i \in DOMAIN elem /\ ElemInv(i) /\ Live(i)' = Live(i) /\ ~Closing(i)
      BY <1>1, <2>7, <2>8 DEF Registry, Live, Closing
    <3>2. Stored(i) => Stored(i)'
      BY <1>1, <1>3, <2>3, <2>8, <3>1 DEF Stored, AddressOf, mgr
    <3>3. i = e => Closing(i)'
      BY <2>1, <2>3 DEF Closing, mgr
    <3>. QED  BY <1>3, <2>7, <2>8, <3>1, <3>2, <3>3 DEF ElemInv
  <2>15. \A c \in Conv : ConvInv(c)'
    BY <1>3, <2>7, <2>8 DEF Registry, ConvInv, Live
  <2>16. \A b \in Address : Filed(b)'
    <3>1. \A b \in Address : convs[b] # 0 => convs[b] \in DOMAIN elem
      BY <1>1, SeqDomain DEF Types
    <3>. QED  BY <1>3, <2>8, <3>1 DEF Registry, Filed, AddressOf
  <2>. QED  BY <1>1, <2>3, <2>9, <2>10, <2>11, <2>12, <2>14, <2>15, <2>16, Whole
<1>. QED  BY <1>4, <1>5, <1>6 DEF Unregister

LEMMA DeactivatedStep ==
    ASSUME Registry, Deactivated
    PROVE  Registry'
<1>. DEFINE e == mgr.e
            x == [elem[e] EXCEPT !.ttl = queueTtl]
<1>1. /\ "mgr" \in Thread /\ Types /\ Phase("mgr") /\ Role("mgr") /\ Emptying /\ Shutdown
      /\ mgr = th["mgr"] /\ mgr.pc = "deactivate" /\ ~inClosed
      /\ \A u \in Thread : u # "mgr" => Quiet(u)
  BY ManagerFacts DEF Deactivated, At, mgr
<1>2. /\ e \in DOMAIN elem /\ elem[e] \in Elem /\ elem[e].h = "closed" /\ queueTtl \in Nat
      /\ AddressOf(elem[e].conv) = AddressOf(mgr.conv) /\ Slot("mgr") = e
  BY <1>1, SeqDomain, CapAssumption DEF Phase, Same, Deactivated
<1>3. "delete" \in Place /\ th' = [th EXCEPT !["mgr"].pc = "delete"]
  BY DEF Deactivated, Goto, Place
<1>4. /\ th' \in [Thread -> ThreadRecord] /\ \A u \in Thread : u # "mgr" => th'[u] = th[u]
      /\ th'["mgr"].pc = "delete" /\ th'["mgr"].conv = mgr.conv /\ th'["mgr"].cs = mgr.cs
      /\ th'["mgr"].why = mgr.why /\ th'["mgr"].todo = mgr.todo /\ th'["mgr"].e = e
  BY <1>1, <1>3, Going
<1>5. x \in Elem /\ x.conv = elem[e].conv /\ x.h = "closed" /\ x.ttl = queueTtl /\ x.ttl >= 0
  BY <1>2 DEF Elem
<1>6. elem' = [elem EXCEPT ![e] = x]
  BY <1>2 DEF Deactivated
<1>. HIDE DEF x
<1>7. /\ elem' \in Seq(Elem) /\ Len(elem') = Len(elem) /\ DOMAIN elem' = DOMAIN elem
      /\ elem'[e] = x /\ \A i \in DOMAIN elem : i # e => elem'[i] = elem[i]
  <2>. HIDE DEF e
  <2>. QED  BY <1>1, <1>2, <1>5, <1>6, ElemUpdate
<1>8. \A i \in DOMAIN elem : elem'[i].conv = elem[i].conv /\ elem'[i].h = elem[i].h
  BY <1>2, <1>5, <1>7
<1>9. /\ layout' = layout /\ convs' = convs /\ opened' = opened /\ inChnl' = inChnl /\ panic' = panic
      /\ inClosed' = inClosed /\ emitted' = emitted /\ seen' = seen
  BY DEF Deactivated, chan
<1>10. Types'
  BY <1>1, <1>4, <1>7, <1>9 DEF Types
<1>11. Phase("mgr")'
  BY <1>1, <1>2, <1>4, <1>5, <1>7, <1>9 DEF Phase, Same, Slot, AddressOf
<1>12. Role("mgr")'
  BY <1>1, <1>4 DEF Role, mgr
<1>13. Emptying' /\ Shutdown'
  BY <1>1, <1>4, <1>9 DEF Emptying, Shutdown, AddressOf, mgr
<1>14. ASSUME NEW i \in DOMAIN elem'
       PROVE  ElemInv(i)'
  <2>1. i \in DOMAIN elem /\ ElemInv(i) /\ Live(i)' = Live(i)
    BY <1>7, <1>8 DEF Registry, Live
  <2>2. CASE i = e
    BY <1>2, <1>5, <1>7, <2>1, <2>2 DEF ElemInv, Live
  <2>3. CASE i # e
    <3>1. ~Closing(i)
      BY <2>3 DEF Closing
    <3>2. Stored(i) => Stored(i)'
      BY <1>1, <1>4, <1>8, <1>9, <2>1 DEF Stored, AddressOf, mgr
    <3>. QED  BY <1>7, <1>9, <2>1, <2>3, <3>1, <3>2 DEF ElemInv
  <2>. QED  BY <2>2, <2>3
<1>15. \A c \in Conv : ConvInv(c)'
  BY <1>7, <1>8, <1>9 DEF Registry, ConvInv, Live
<1>16. \A b \in Address : Filed(b)'
  <2>1. \A b \in Address : convs[b] # 0 => convs[b] \in DOMAIN elem
    BY <1>1, SeqDomain DEF Types
  <2>. QED  BY <1>8, <1>9, <2>1 DEF Registry, Filed, AddressOf
<1>. QED  BY <1>1, <1>4, <1>9, <1>10, <1>11, <1>12, <1>13, <1>14, <1>15, <1>16, Whole DEF Registry

(* An element that is not active leaves convs.                             *)
LEMMA Forgotten ==
    ASSUME Registry, mgr.pc \in {"delete", "drop"}
    PROVE  /\ AddressOf(mgr.conv) \in Address
           /\ \A i \in DOMAIN elem : Live(i) /\ AddressOf(elem[i].conv) = AddressOf(mgr.conv) => 0 = i
<1>1. /\ "mgr" \in Thread /\ Types /\ Phase("mgr") /\ mgr = th["mgr"] /\ th["mgr"] \in ThreadRecord
      /\ \A u \in Thread : u # "mgr" => Quiet(u)
  BY ManagerFacts
<1>2. Slot("mgr") = mgr.e /\ elem[mgr.e].ttl >= 0 /\ mgr.e \in DOMAIN elem /\ elem[mgr.e].ttl \in Int
  BY <1>1, SeqDomain, CapAssumption DEF Phase, Same, Elem
<1>3. AddressOf(mgr.conv) \in Address
  BY <1>1 DEF Types, AddressOf, Layout, ThreadRecord
<1>4. ASSUME NEW i \in DOMAIN elem, Live(i), AddressOf(elem[i].conv) = AddressOf(mgr.conv)
      PROVE  FALSE
  <2>1. Stored(i) /\ elem[i].ttl < 0
    BY <1>4 DEF Registry, ElemInv
  <2>2. \A u \in Thread : th[u].pc # "store"
    BY <1>1 DEF Quiet, mgr
  <2>3. i = mgr.e
    BY <1>1, <1>2, <1>4, <2>1, <2>2 DEF Stored, Slot
  <2>. QED  BY <1>2, <2>1, <2>3
<1>. QED  BY <1>3, <1>4

LEMMA DeleteStep ==
    ASSUME Registry, Delete
    PROVE  Registry'
<1>. DEFINE a == AddressOf(mgr.conv)
<1>1. /\ "mgr" \in Thread /\ Types /\ Emptying /\ Shutdown
      /\ mgr = th["mgr"] /\ mgr.pc = "delete" /\ ~inClosed
      /\ \A u \in Thread : u # "mgr" => Quiet(u)
  BY ManagerFacts DEF Delete, At, mgr
<1>2. /\ th' \in [Thread -> ThreadRecord] /\ \A u \in Thread : u # "mgr" => th'[u] = th[u]
      /\ mgr'.why = mgr.why /\ mgr'.todo = mgr.todo /\ mgr'.conv = mgr.conv
      /\ mgr'.pc = IF mgr.why = "stop" THEN "stopping" ELSE "register"
      /\ Phase("mgr")' /\ Role("mgr")'
  BY <1>1, Unregistered DEF Delete
<1>3. /\ a \in Address
      /\ \A i \in DOMAIN elem : Live(i) /\ AddressOf(elem[i].conv) = a => 0 = i
  BY <1>1, Forgotten
<1>4. convs' = [convs EXCEPT ![a] = 0] /\ UNCHANGED <<elem, chan, opened>> /\ 0 \in 0..Len(elem)
      /\ inClosed' = inClosed
  BY <1>1, SeqDomain DEF Delete, chan
<1>5. Emptying' /\ Shutdown'
  <2>1. \A b \in Address : convs'[b] # 0 => b # a /\ convs[b] # 0
    BY <1>1, <1>3, <1>4 DEF Types
  <2>. HIDE DEF a
  <2>2. Emptying'
    BY <1>1, <1>2, <2>1 DEF Emptying, a
  <2>. QED  BY <1>1, <1>4, <2>2 DEF Shutdown
<1>6. th["mgr"].pc \notin {"store", "deactivate"}
  BY <1>1
<1>. HIDE DEF a
<1>. QED  BY <1>1, <1>2, <1>3, <1>4, <1>5, <1>6, Filing

LEMMA DropStep ==
    ASSUME Registry, Drop
    PROVE  Registry'
<1>. DEFINE a == AddressOf(mgr.conv)
<1>1. /\ "mgr" \in Thread /\ Types /\ Shutdown /\ Role("mgr")
      /\ mgr = th["mgr"] /\ mgr.pc = "drop" /\ ~inClosed /\ mgr.why = "tick" /\ mgr.cs = None
      /\ \A u \in Thread : u # "mgr" => Quiet(u)
  BY ManagerFacts DEF Drop, At, mgr, Role
<1>2. "tick" \in Place /\ th' = [th EXCEPT !["mgr"].pc = "tick"]
  BY DEF Drop, Goto, Place
<1>3. /\ th' \in [Thread -> ThreadRecord] /\ \A u \in Thread : u # "mgr" => th'[u] = th[u]
      /\ th'["mgr"].pc = "tick" /\ th'["mgr"].cs = mgr.cs /\ th'["mgr"].why = mgr.why
  BY <1>1, <1>2, Going
<1>4. /\ a \in Address
      /\ \A i \in DOMAIN elem : Live(i) /\ AddressOf(elem[i].conv) = a => 0 = i
  BY <1>1, Forgotten
<1>5. convs' = [convs EXCEPT ![a] = 0] /\ UNCHANGED <<elem, chan, opened>> /\ 0 \in 0..Len(elem)
      /\ inClosed' = inClosed
  BY <1>1, SeqDomain DEF Drop, chan
<1>6. Phase("mgr")' /\ Role("mgr")' /\ Emptying' /\ Shutdown'
  BY <1>1, <1>3, <1>5 DEF Phase, Role, Emptying, Shutdown, mgr
<1>7. th["mgr"].pc \notin {"store", "deactivate"}
  BY <1>1
<1>. HIDE DEF a
<1>. QED  BY <1>1, <1>3, <1>4, <1>5, <1>6, <1>7, Filing

LEMMA MgrBecomes ==
    ASSUME Types, NEW r \in ThreadRecord, th' = [th EXCEPT !["mgr"] = r]
    PROVE  /\ th' \in [Thread -> ThreadRecord] /\ \A u \in Thread : u # "mgr" => th'[u] = th[u]
           /\ th'["mgr"] = r /\ mgr' = r
  BY MgrThread DEF Types, mgr

LEMMA TickStep ==
    ASSUME Registry, Tick, \A u \in Thread : u # "mgr" => Quiet(u)
    PROVE  Registry'
<1>. DEFINE todo == {a \in Address : convs[a] # 0}
            r == [th["mgr"] EXCEPT !.pc = "tick", !.why = "tick", !.todo = todo]
<1>1. /\ Types /\ "mgr" \in Thread /\ mgr.pc = "select" /\ mgr = th["mgr"] /\ th["mgr"] \in ThreadRecord
      /\ ~inClosed /\ mgr.cs = None /\ th \in [Thread -> ThreadRecord]
  BY ManagerFacts DEF Tick, At, mgr, Role, Types
<1>2. UNCHANGED <<elem, convs, chan, opened>>
  BY DEF Tick
<1>3. todo \subseteq Address
  OBVIOUS
<1>4. th' = [th EXCEPT !["mgr"] = r]
  BY <1>1 DEF Tick
<1>. HIDE DEF todo
<1>5. r \in ThreadRecord /\ r.pc = "tick" /\ r.why = "tick" /\ r.cs = None
  BY <1>1, <1>3 DEF ThreadRecord, Place, Why
<1>. HIDE DEF r
<1>6. /\ th' \in [Thread -> ThreadRecord] /\ \A u \in Thread : u # "mgr" => th'[u] = th[u]
      /\ th'["mgr"] = r /\ mgr' = r
  BY <1>1, <1>4, <1>5, MgrBecomes
<1>7. Phase("mgr")' /\ Role("mgr")' /\ Emptying'
  BY <1>5, <1>6 DEF Phase, Role, Emptying
<1>. QED  BY <1>1, <1>2, <1>6, <1>7, Walk

LEMMA TickEndStep ==
    ASSUME Registry, TickEnd
    PROVE  Registry'
<1>1. /\ Types /\ "mgr" \in Thread /\ mgr.pc = "tick" /\ mgr = th["mgr"]
      /\ ~inClosed /\ mgr.cs = None /\ \A u \in Thread : u # "mgr" => Quiet(u)
  BY ManagerFacts DEF TickEnd, At, mgr, Role
<1>2. UNCHANGED <<elem, convs, chan, opened>> /\ "select" \in Place
      /\ th' = [th EXCEPT !["mgr"].pc = "select"]
  BY DEF TickEnd, Goto, Place
<1>3. /\ th' \in [Thread -> ThreadRecord] /\ \A u \in Thread : u # "mgr" => th'[u] = th[u]
      /\ th'["mgr"].pc = "select" /\ th'["mgr"].cs = mgr.cs
  BY <1>1, <1>2, Going
<1>4. Phase("mgr")' /\ Role("mgr")' /\ Emptying'
  BY <1>1, <1>3 DEF Phase, Role, Emptying, mgr
<1>. QED  BY <1>1, <1>2, <1>3, <1>4, Walk

LEMMA TickNextStep ==
    ASSUME Registry, NEW a \in Address, TickNext(a)
    PROVE  Registry'
<1>. DEFINE try == convs[a] # 0 /\ ~isActive(convs[a])
            e == convs[a]
            c == elem[e].conv
            r == [th["mgr"] EXCEPT !.todo = @ \ {a}, !.pc = "tick", !.e = @, !.conv = @]
            s == [th["mgr"] EXCEPT !.todo = @ \ {a}, !.pc = "activate", !.e = e, !.conv = c]
<1>1. /\ Types /\ "mgr" \in Thread /\ mgr.pc = "tick" /\ mgr = th["mgr"] /\ th["mgr"] \in ThreadRecord
      /\ ~inClosed /\ mgr.cs = None /\ mgr.why = "tick" /\ th \in [Thread -> ThreadRecord]
      /\ \A u \in Thread : u # "mgr" => Quiet(u)
  BY ManagerFacts DEF TickNext, At, mgr, Role, Types
<1>2. UNCHANGED <<elem, convs, chan, opened>> /\ elem' = elem /\ convs' = convs /\ layout' = layout
  BY DEF TickNext, chan
<1>3. CASE ~try
  <2>1. th' = [th EXCEPT !["mgr"] = r]
    BY <1>1, <1>3 DEF TickNext
  <2>2. r \in ThreadRecord /\ r.pc = "tick" /\ r.why = "tick" /\ r.cs = None
    BY <1>1 DEF ThreadRecord, Place
  <2>. HIDE DEF r
  <2>3. /\ th' \in [Thread -> ThreadRecord] /\ \A u \in Thread : u # "mgr" => th'[u] = th[u]
        /\ th'["mgr"] = r /\ mgr' = r
    BY <1>1, <2>1, <2>2, MgrBecomes
  <2>4. Phase("mgr")' /\ Role("mgr")' /\ Emptying'
    BY <2>2, <2>3 DEF Phase, Role, Emptying
  <2>. QED  BY <1>1, <1>2, <2>3, <2>4, Walk
<1>4. CASE try
  <2>0. th' = [th EXCEPT !["mgr"] = s]
    BY <1>1, <1>4 DEF TickNext
  <2>1. e \in DOMAIN elem /\ e \in Nat /\ elem[e] \in Elem /\ c \in Conv /\ AddressOf(c) = a
    <3>1. e \in 0..Len(elem) /\ e # 0
      BY <1>1, <1>4 DEF Types
    <3>2. e \in DOMAIN elem /\ e \in Nat /\ elem[e] \in Elem
      BY <1>1, <3>1, SeqDomain
    <3>. QED  BY <3>1, <3>2 DEF Elem, Registry, Filed
  <2>2. elem[e].ttl >= 0
    <3>1. elem[e].ttl \in Int
      BY <2>1, CapAssumption DEF Elem
    <3>. QED  BY <1>4, <3>1 DEF isActive
  <2>3. convs[a] = e /\ elem[e].conv = c
    OBVIOUS
  <2>. HIDE DEF e, c
  <2>4. /\ s \in ThreadRecord /\ s.pc = "activate" /\ s.why = "tick" /\ s.cs = None
        /\ s.e = e /\ s.conv = c
    BY <1>1, <2>1 DEF ThreadRecord, Place
  <2>. HIDE DEF s
  <2>5. /\ th' \in [Thread -> ThreadRecord] /\ \A u \in Thread : u # "mgr" => th'[u] = th[u]
        /\ th'["mgr"] = s /\ mgr' = s
    BY <1>1, <2>0, <2>4, MgrBecomes
  <2>6. Role("mgr")' /\ Emptying'
    BY <2>4, <2>5 DEF Role, Emptying
  <2>7. Phase("mgr")'
    BY <1>2, <2>1, <2>2, <2>3, <2>4, <2>5 DEF Phase, Same, Slot, AddressOf
  <2>. QED  BY <1>1, <1>2, <2>5, <2>6, <2>7, Walk
<1>. QED  BY <1>3, <1>4

LEMMA StopSynStep ==
    ASSUME Registry, StopSyn, \A u \in Thread : u # "mgr" => Quiet(u)
    PROVE  Registry'
<1>. DEFINE todo == {a \in Address : convs[a] # 0}
            r == [th["mgr"] EXCEPT !.pc = "stopping", !.why = "stop", !.todo = todo]
<1>1. /\ Types /\ "mgr" \in Thread /\ mgr.pc = "select" /\ mgr = th["mgr"] /\ th["mgr"] \in ThreadRecord
      /\ ~inClosed /\ mgr.cs = None /\ th \in [Thread -> ThreadRecord]
  BY ManagerFacts DEF StopSyn, At, mgr, Role, Types
<1>2. UNCHANGED <<elem, convs, chan, opened>> /\ convs' = convs
  BY DEF StopSyn
<1>3. todo \subseteq Address /\ \A b \in Address : convs[b] # 0 => b \in todo
  OBVIOUS
<1>4. th' = [th EXCEPT !["mgr"] = r]
  BY <1>1 DEF StopSyn
<1>. HIDE DEF todo
<1>5. r \in ThreadRecord /\ r.pc = "stopping" /\ r.why = "stop" /\ r.cs = None /\ r.todo = todo
  BY <1>1, <1>3 DEF ThreadRecord, Place, Why
<1>. HIDE DEF r
<1>6. /\ th' \in [Thread -> ThreadRecord] /\ \A u \in Thread : u # "mgr" => th'[u] = th[u]
      /\ th'["mgr"] = r /\ mgr' = r
  BY <1>1, <1>4, <1>5, MgrBecomes
<1>7. Phase("mgr")' /\ Role("mgr")' /\ Emptying'
  BY <1>2, <1>3, <1>5, <1>6 DEF Phase, Role, Emptying
<1>. QED  BY <1>1, <1>2, <1>6, <1>7, Walk

LEMMA StopNextStep ==
    ASSUME Registry, NEW a \in Address, StopNext(a)
    PROVE  Registry'
<1>. DEFINE e == convs[a]
            c == elem[e].conv
            r == [th["mgr"] EXCEPT !.todo = @ \ {a}, !.pc = "stopping", !.conv = @]
            s == [th["mgr"] EXCEPT !.todo = @ \ {a}, !.pc = "unregister", !.conv = c]
<1>1. /\ Types /\ "mgr" \in Thread /\ mgr.pc = "stopping" /\ mgr = th["mgr"]
      /\ th["mgr"] \in ThreadRecord /\ ~inClosed /\ mgr.cs = None /\ mgr.why = "stop"
      /\ th \in [Thread -> ThreadRecord] /\ \A u \in Thread : u # "mgr" => Quiet(u)
  BY ManagerFacts DEF StopNext, At, mgr, Role, Types
<1>2. /\ UNCHANGED <<elem, convs, chan, opened>> /\ elem' = elem /\ convs' = convs /\ layout' = layout
  BY DEF StopNext, chan
<1>3. \A b \in Address : convs[b] # 0 => b \in mgr.todo
  BY <1>1, ManagerFacts DEF Emptying
<1>4. CASE convs[a] = 0
  <2>1. th' = [th EXCEPT !["mgr"] = r]
    BY <1>1, <1>4 DEF StopNext
  <2>2. /\ r \in ThreadRecord /\ r.pc = "stopping" /\ r.why = "stop" /\ r.cs = None
        /\ r.todo = mgr.todo \ {a}
    BY <1>1 DEF ThreadRecord, Place
  <2>. HIDE DEF r
  <2>3. /\ th' \in [Thread -> ThreadRecord] /\ \A u \in Thread : u # "mgr" => th'[u] = th[u]
        /\ th'["mgr"] = r /\ mgr' = r
    BY <1>1, <2>1, <2>2, MgrBecomes
  <2>4. Phase("mgr")' /\ Role("mgr")' /\ Emptying'
    BY <1>2, <1>3, <1>4, <2>2, <2>3 DEF Phase, Role, Emptying
  <2>. QED  BY <1>1, <1>2, <2>3, <2>4, Walk
<1>5. CASE convs[a] # 0
  <2>0. th' = [th EXCEPT !["mgr"] = s]
    BY <1>1, <1>5 DEF StopNext
  <2>1. e \in DOMAIN elem /\ e \in Nat /\ elem[e] \in Elem /\ c \in Conv /\ AddressOf(c) = a
    <3>1. e \in 0..Len(elem) /\ e # 0
      BY <1>1, <1>5 DEF Types
    <3>2. e \in DOMAIN elem /\ e \in Nat /\ elem[e] \in Elem
      BY <1>1, <3>1, SeqDomain
    <3>. QED  BY <3>1, <3>2 DEF Elem, Registry, Filed
  <2>3. convs[a] = e /\ elem[e].conv = c
    OBVIOUS
  <2>. HIDE DEF e, c
  <2>4. /\ s \in ThreadRecord /\ s.pc = "unregister" /\ s.why = "stop" /\ s.cs = None
        /\ s.conv = c /\ s.todo = mgr.todo \ {a}
    BY <1>1, <2>1 DEF ThreadRecord, Place
  <2>. HIDE DEF s
  <2>5. /\ th' \in [Thread -> ThreadRecord] /\ \A u \in Thread : u # "mgr" => th'[u] = th[u]
        /\ th'["mgr"] = s /\ mgr' = s
    BY <1>1, <2>0, <2>4, MgrBecomes
  <2>6. Role("mgr")' /\ Phase("mgr")'
    BY <2>4, <2>5 DEF Role, Phase
  <2>7. Emptying'
    <3>1. layout'.address[mgr'.conv] = a /\ Slot("mgr")' = e
      BY <1>2, <2>1, <2>3, <2>4, <2>5 DEF Slot, AddressOf
    <3>. QED  BY <1>2, <1>3, <1>5, <2>1, <2>3, <2>4, <2>5, <3>1 DEF Emptying, AddressOf
  <2>. QED  BY <1>1, <1>2, <2>5, <2>6, <2>7, Walk
<1>. QED  BY <1>4, <1>5

LEMMA StopEndStep ==
    ASSUME Registry, StopEnd
    PROVE  Registry'
<1>1. /\ Types /\ "mgr" \in Thread /\ mgr.pc = "stopping" /\ mgr = th["mgr"] /\ Emptying
      /\ mgr.cs = None /\ mgr.why = "stop" /\ mgr.todo = {} /\ \A u \in Thread : u # "mgr" => Quiet(u)
  BY ManagerFacts DEF StopEnd, At, mgr, Role
<1>2. /\ layout' = layout /\ elem' = elem /\ convs' = convs /\ opened' = opened /\ panic' = panic
      /\ inChnl' = inChnl /\ emitted' = emitted /\ seen' = seen /\ inClosed' = TRUE
  BY DEF StopEnd
<1>3. "done" \in Place /\ th' = [th EXCEPT !["mgr"].pc = "done"]
  BY DEF StopEnd, Goto, Place
<1>4. /\ th' \in [Thread -> ThreadRecord] /\ \A u \in Thread : u # "mgr" => th'[u] = th[u]
      /\ th'["mgr"].pc = "done" /\ th'["mgr"].cs = mgr.cs /\ th'["mgr"].why = mgr.why
      /\ th'["mgr"].todo = mgr.todo
  BY <1>1, <1>3, Going
<1>5. Types'
  BY <1>1, <1>2, <1>4 DEF Types
<1>6. Phase("mgr")' /\ Role("mgr")' /\ Emptying' /\ Shutdown'
  BY <1>1, <1>2, <1>4 DEF Phase, Role, Emptying, Shutdown, mgr
<1>. QED  BY <1>1, <1>2, <1>4, <1>5, <1>6, ThreadMove

-----------------------------------------------------------------------------
(* Steps of nobody that registers: Close and the handlers *)
LEMMA ThreadsStay ==
    ASSUME Registry, th' = th, convs' = convs, layout' = layout, inClosed' = inClosed,
           DOMAIN elem' = DOMAIN elem,
           \A i \in DOMAIN elem : elem'[i].conv = elem[i].conv /\ elem'[i].ttl = elem[i].ttl,
           Types', \A e \in DOMAIN elem' : ElemInv(e)', \A c \in Conv : ConvInv(c)'
    PROVE  Registry'
<1>1. \A a \in Address : convs[a] # 0 => convs[a] \in DOMAIN elem
  BY SeqDomain DEF Registry, Types
<1>2. \A a \in Address : Filed(a)'
  BY <1>1 DEF Registry, Filed, AddressOf
<1>3. OneBusy'
  BY DEF Registry, OneBusy, Quiet
<1>4. ASSUME NEW t \in Thread
      PROVE  Phase(t)' /\ Role(t)'
  <2>1. Phase(t) /\ Role(t)
    BY DEF Registry
  <2>2. Role(t)'
    BY <2>1 DEF Role, mgr
  <2>3. Phase(t)'
    BY <2>1 DEF Phase, Same, Slot, AddressOf
  <2>. QED  BY <2>2, <2>3
<1>5. Emptying' /\ Shutdown'
  <2>1. Slot("mgr") # 0 => Slot("mgr") \in DOMAIN elem
    BY <1>1, ManagerFacts DEF Slot, AddressOf, Types, Layout, ThreadRecord
  <2>. QED  BY <2>1 DEF Registry, Emptying, Shutdown, Slot, AddressOf, mgr
<1>. QED  BY <1>2, <1>3, <1>4, <1>5 DEF Registry

LEMMA CloseStep ==
    ASSUME Registry, Close
    PROVE  Registry'
<1>1. /\ layout' = layout /\ elem' = elem /\ convs' = convs /\ opened' = opened /\ panic' = panic
      /\ inChnl' = inChnl /\ emitted' = emitted /\ seen' = seen /\ inClosed' = inClosed /\ th' = th
  BY DEF Close
<1>2. Types'
  BY <1>1 DEF Registry, Types
<1>3. \A e \in DOMAIN elem' : ElemInv(e)'
  BY <1>1 DEF Registry, ElemInv, Live, Stored, Closing, AddressOf, mgr
<1>4. \A c \in Conv : ConvInv(c)'
  BY <1>1 DEF Registry, ConvInv, Live
<1>. QED  BY <1>1, <1>2, <1>3, <1>4, ThreadsStay

(* A handler goes from select to put and back.                             *)
LEMMA HandlerMove ==
    ASSUME Registry, NEW e \in DOMAIN elem, Live(e), NEW x \in Elem, elem' = [elem EXCEPT ![e] = x],
           x.conv = elem[e].conv, x.ttl = elem[e].ttl, x.stop = elem[e].stop, x.h \in {"select", "put"},
           layout' = layout, convs' = convs, th' = th, inClosed' = inClosed, opened' = opened,
           inChnl' \in Seq(Status), emitted' \in [Conv -> Nat], seen' = seen,
           panic' = panic
    PROVE  Registry'
<1>1. Types
  BY DEF Registry
<1>2. /\ elem' \in Seq(Elem) /\ Len(elem') = Len(elem) /\ DOMAIN elem' = DOMAIN elem
      /\ elem'[e] = x /\ \A i \in DOMAIN elem : i # e => elem'[i] = elem[i]
  BY <1>1, ElemUpdate
<1>3. \A i \in DOMAIN elem : /\ elem'[i].conv = elem[i].conv /\ elem'[i].ttl = elem[i].ttl
                             /\ elem'[i].stop = elem[i].stop /\ Live(i)' = Live(i)
  BY <1>2 DEF Live
<1>4. Types'
  BY <1>1, <1>2 DEF Types, Registry
<1>5. ASSUME NEW i \in DOMAIN elem'
      PROVE  ElemInv(i)'
  <2>1. i \in DOMAIN elem /\ ElemInv(i)
    BY <1>2 DEF Registry
  <2>2. Stored(i)' = Stored(i) /\ Closing(i)' = Closing(i)
    BY <1>3, <2>1 DEF Stored, Closing, AddressOf, mgr
  <2>. QED  BY <1>3, <2>1, <2>2 DEF ElemInv
<1>6. \A c \in Conv : ConvInv(c)'
  BY <1>2, <1>3 DEF Registry, ConvInv
<1>. QED  BY <1>2, <1>3, <1>4, <1>5, <1>6, ThreadsStay

LEMMA ElemTakeStep ==
    ASSUME Registry, NEW e \in DOMAIN elem, NEW gone \in BOOLEAN, ElemTake(e, gone)
    PROVE  Registry'
<1>. DEFINE c == elem[e].conv
            cs == [conv |-> c, gone |-> gone, n |-> emitted[c] + 1]
            x == [elem[e] EXCEPT !.h = "put", !.cs = cs]
<1>1. Types /\ elem[e] \in Elem /\ elem \in Seq(Elem) /\ Live(e)
  BY SeqDomain DEF Registry, Types, ElemTake, Live
<1>2. cs \in Status /\ c \in Conv /\ emitted[c] \in Nat
  BY <1>1 DEF Elem, Status, Types
<1>3. emitted' \in [Conv -> Nat]
  BY <1>1, <1>2 DEF Types, ElemTake
<1>4. elem' = [elem EXCEPT ![e] = x]
  BY <1>1 DEF ElemTake
<1>. HIDE DEF cs
<1>5. /\ x \in Elem /\ x.conv = elem[e].conv /\ x.ttl = elem[e].ttl /\ x.stop = elem[e].stop
      /\ x.h \in {"select", "put"}
  BY <1>1, <1>2 DEF Elem
<1>. HIDE DEF x
<1>6. /\ layout' = layout /\ convs' = convs /\ th' = th /\ inClosed' = inClosed /\ opened' = opened
      /\ inChnl' \in Seq(Status) /\ seen' = seen /\ panic' = panic
  BY <1>1 DEF ElemTake, Types
<1>. QED  BY <1>1, <1>3, <1>4, <1>5, <1>6, HandlerMove

(* A handler that runs keeps inChnl open.                                  *)
LEMMA StillOpen ==
    ASSUME Registry, NEW e \in DOMAIN elem, Live(e)
    PROVE  ~inClosed
<1>1. SUFFICES ASSUME inClosed PROVE FALSE
  OBVIOUS
<1>2. mgr.pc = "done" /\ mgr.why = "stop" /\ \A u \in Thread : th[u].pc # "store"
  BY <1>1, ManagerFacts DEF Shutdown, Quiet, mgr
<1>3. \A a \in Address : convs[a] = 0
  BY <1>2, ManagerFacts DEF Emptying
<1>4. AddressOf(elem[e].conv) \in Address /\ e # 0
  <2>1. Types /\ elem[e] \in Elem /\ e # 0
    BY SeqDomain DEF Registry
  <2>. QED  BY <2>1 DEF Types, AddressOf, Layout, Elem
<1>5. Stored(e)
  BY DEF Registry, ElemInv
<1>. QED  BY <1>2, <1>3, <1>4, <1>5 DEF Stored

LEMMA ElemPutStep ==
    ASSUME Registry, NEW e \in DOMAIN elem, ElemPut(e), \A c \in Conv : Numbered(c)
    PROVE  Registry'
<1>. DEFINE x == [elem[e] EXCEPT !.h = "select", !.cs = None]
<1>1. Types /\ elem[e] \in Elem /\ elem \in Seq(Elem) /\ Live(e)
  BY SeqDomain DEF Registry, Types, ElemPut, Live
<1>2. ~inClosed
  BY <1>1, StillOpen
<1>3. elem' = [elem EXCEPT ![e] = x] /\ inChnl' = Append(inChnl, elem[e].cs) /\ panic' = panic
  BY <1>1, <1>2 DEF ElemPut
<1>4. elem[e].conv \in Conv /\ elem[e].cs \in Status
  BY <1>1 DEF Elem, Numbered, ElemPut
<1>5. /\ x \in Elem /\ x.conv = elem[e].conv /\ x.ttl = elem[e].ttl /\ x.stop = elem[e].stop
      /\ x.h \in {"select", "put"}
  BY <1>1 DEF Elem
<1>. HIDE DEF x
<1>6. /\ layout' = layout /\ convs' = convs /\ th' = th /\ inClosed' = inClosed /\ opened' = opened
      /\ inChnl' \in Seq(Status) /\ seen' = seen /\ emitted' \in [Conv -> Nat]
  BY <1>1, <1>3, <1>4 DEF ElemPut, Types
<1>. QED  BY <1>1, <1>3, <1>5, <1>6, HandlerMove

LEMMA ElemStopStep ==
    ASSUME Registry, NEW e \in DOMAIN elem, ElemStop(e)
    PROVE  Registry'
<1>. DEFINE c == elem[e].conv
            x == [elem[e] EXCEPT !.h = "closed"]
<1>1. /\ Types /\ elem[e] \in Elem /\ elem \in Seq(Elem) /\ Live(e) /\ c \in Conv /\ elem[e].stop
      /\ ElemInv(e)
  BY SeqDomain DEF Registry, Types, ElemStop, Live, Elem
<1>2. opened[c] = 1 /\ Closing(e)
  BY <1>1 DEF ElemInv
<1>3. opened' = [opened EXCEPT ![c] = 0]
  BY <1>1, <1>2 DEF ElemStop, Types
<1>4. elem' = [elem EXCEPT ![e] = x]
  BY <1>1 DEF ElemStop
<1>5. /\ x \in Elem /\ x.conv = c /\ x.ttl = elem[e].ttl /\ x.stop = elem[e].stop
      /\ x.h = "closed"
  BY <1>1 DEF Elem
<1>. HIDE DEF x
<1>6. /\ elem' \in Seq(Elem) /\ Len(elem') = Len(elem) /\ DOMAIN elem' = DOMAIN elem
      /\ elem'[e] = x /\ \A i \in DOMAIN elem : i # e => elem'[i] = elem[i]
  BY <1>1, <1>4, <1>5, ElemUpdate
<1>7. /\ layout' = layout /\ convs' = convs /\ th' = th /\ inClosed' = inClosed /\ panic' = panic
      /\ inChnl' = inChnl /\ seen' = seen /\ emitted' = emitted
  BY DEF ElemStop, chan
<1>8. opened' \in [Conv -> Nat] /\ opened'[c] = 0 /\ \A d \in Conv : d # c => opened'[d] = opened[d]
  BY <1>1, <1>3 DEF Types
<1>9. Types'
  BY <1>1, <1>6, <1>7, <1>8 DEF Types, Registry
<1>10. \A i \in DOMAIN elem : elem'[i].conv = elem[i].conv /\ elem'[i].ttl = elem[i].ttl
  BY <1>5, <1>6
<1>11. \A i \in DOMAIN elem : i # e /\ Live(i) => elem[i].conv # c
  BY <1>1, OneHandler
<1>12. ASSUME NEW i \in DOMAIN elem'
       PROVE  ElemInv(i)'
  <2>1. i \in DOMAIN elem /\ ElemInv(i) /\ elem[i].conv \in Conv
    BY <1>1, <1>6, SeqDomain DEF Registry, Elem
  <2>2. Stored(i)' = Stored(i) /\ Closing(i)' = Closing(i)
    BY <1>7, <1>10, <2>1 DEF Stored, Closing, AddressOf, mgr
  <2>3. CASE i = e
    BY <1>2, <1>5, <1>6, <2>2, <2>3 DEF ElemInv, Live
  <2>4. CASE i # e
    <3>1. elem'[i] = elem[i] /\ Live(i)' = Live(i)
      BY <1>6, <2>1, <2>4 DEF Live
    <3>2. Live(i) => opened'[elem[i].conv] = opened[elem[i].conv]
      BY <1>8, <1>11, <2>1, <2>4
    <3>. QED  BY <2>1, <2>2, <3>1, <3>2 DEF ElemInv
  <2>. QED  BY <2>3, <2>4
<1>13. ASSUME NEW d \in Conv
       PROVE  ConvInv(d)'
  <2>1. CASE d = c
    BY <1>8, <2>1 DEF ConvInv
  <2>2. CASE d # c
    <3>1. opened'[d] = opened[d] /\ ConvInv(d)
      BY <1>8, <2>2 DEF Registry
    <3>2. \A i \in DOMAIN elem : Live(i) /\ elem[i].conv = d => Live(i)' /\ elem'[i].conv = d
      BY <1>6, <2>2 DEF Live
    <3>. QED  BY <1>6, <3>1, <3>2 DEF ConvInv
  <2>. QED  BY <2>1, <2>2
<1>. QED  BY <1>6, <1>7, <1>9, <1>10, <1>12, <1>13, ThreadsStay

-----------------------------------------------------------------------------
(* The numbers of the status messages *)

(* What Numbered speaks of is left alone.                                  *)
LEMMA NumbersStay ==
    ASSUME NEW c \in Conv, Numbered(c), seen' = seen, emitted' = emitted, inChnl' = inChnl,
           mgr'.cs = mgr.cs, DOMAIN elem \subseteq DOMAIN elem',
           \A i \in DOMAIN elem' : elem'[i].h = "put" => i \in DOMAIN elem,
           \A i \in DOMAIN elem : /\ (elem'[i].h = "put") = (elem[i].h = "put")
                                  /\ elem[i].h = "put" => elem'[i].conv = elem[i].conv
                                                          /\ elem'[i].cs = elem[i].cs
    PROVE  Numbered(c)'
<1>1. Putting(c)' = Putting(c)
  BY DEF Putting
<1>2. Low(c)' = Low(c) /\ High(c)' = High(c)
  BY <1>1 DEF Low, High
<1>. QED  BY <1>2 DEF Numbered

LEMMA LowHigh ==
    ASSUME Types, NEW c \in Conv, Numbered(c)
    PROVE  /\ Low(c) \in Nat /\ High(c) \in Int /\ Low(c) <= High(c) /\ seen[c] \in Nat /\ emitted[c] \in Nat
           /\ None \notin Status
<1>1. seen[c] \in Nat /\ emitted[c] \in Nat
  BY DEF Types
<1>2. Low(c) \in Nat
  BY <1>1 DEF Low, Status
<1>3. High(c) \in Int
  BY <1>1 DEF High
<1>4. None \notin Status
  BY DEF None, Status
<1>. QED  BY <1>1, <1>2, <1>3, <1>4 DEF Numbered

LEMMA TakeStatusNumbers ==
    ASSUME Registry, TakeStatus, NEW c \in Conv, Numbered(c)
    PROVE  Numbered(c)'
<1>. DEFINE cs == Head(inChnl)
<1>1. /\ Types /\ mgr.cs = None /\ inChnl # <<>> /\ inChnl \in Seq(Status) /\ inChnl' = Tail(inChnl)
      /\ seen' = seen /\ emitted' = emitted /\ elem' = elem /\ "mgr" \in Thread
  BY ManagerFacts DEF TakeStatus, Types, Role, At, mgr
<1>2. /\ Low(c) \in Nat /\ High(c) \in Int /\ Low(c) <= High(c) /\ seen[c] \in Nat /\ None \notin Status
  BY <1>1, LowHigh
<1>3. mgr'.cs = cs /\ cs = inChnl[1] /\ cs \in Status
  BY <1>1 DEF TakeStatus, mgr, Types, ThreadRecord
<1>4. Low(c) = seen[c] /\ High(c)' = High(c)
  BY <1>1, <1>2 DEF Low, High, Putting
<1>5. /\ Len(inChnl) \in Nat \ {0} /\ DOMAIN inChnl = 1..Len(inChnl)
      /\ DOMAIN inChnl' = 1..Len(inChnl) - 1
      /\ \A i \in DOMAIN inChnl' : i + 1 \in DOMAIN inChnl /\ inChnl'[i] = inChnl[i + 1]
      /\ \A i \in DOMAIN inChnl : inChnl[i] \in Status /\ inChnl[i].n \in Nat
      /\ \A i \in DOMAIN inChnl : i # 1 => i - 1 \in DOMAIN inChnl' /\ inChnl'[i - 1] = inChnl[i]
  <2>1. Len(inChnl) \in Nat \ {0} /\ DOMAIN inChnl = 1..Len(inChnl)
    BY <1>1, EmptySeq
  <2>2. DOMAIN inChnl' = 1..Len(inChnl) - 1
        /\ \A i \in 1..Len(inChnl) - 1 : inChnl'[i] = inChnl[i + 1]
    BY <1>1, <2>1, HeadTailProperties
  <2>3. \A i \in DOMAIN inChnl : inChnl[i] \in Status
    BY <1>1
  <2>. QED  BY <2>1, <2>2, <2>3 DEF Status
<1>6. CASE cs.conv # c
  <2>1. Low(c)' = Low(c)
    BY <1>1, <1>3, <1>4, <1>6 DEF Low
  <2>2. \A i \in DOMAIN inChnl : inChnl[i].conv = c => i # 1
    BY <1>3, <1>6
  <2>3. \A n \in Nat : n > Low(c)' /\ n <= High(c)' =>
          \E i \in DOMAIN inChnl' : inChnl'[i].conv = c /\ inChnl'[i].n = n
    <3>. SUFFICES ASSUME NEW n \in Nat, n > Low(c)', n <= High(c)'
                  PROVE  \E i \in DOMAIN inChnl' : inChnl'[i].conv = c /\ inChnl'[i].n = n
      OBVIOUS
    <3>1. PICK i \in DOMAIN inChnl : inChnl[i].conv = c /\ inChnl[i].n = n
      BY <1>4, <2>1 DEF Numbered
    <3>. QED  BY <1>5, <2>2, <3>1
  <2>4. \A i \in DOMAIN inChnl' : inChnl'[i].conv = c => inChnl'[i].n > Low(c)' /\ inChnl'[i].n <= High(c)'
    BY <1>4, <1>5, <2>1 DEF Numbered
  <2>5. \A i, j \in DOMAIN inChnl' :
          i < j /\ inChnl'[i].conv = c /\ inChnl'[j].conv = c => inChnl'[i].n < inChnl'[j].n
    <3>. SUFFICES ASSUME NEW i \in DOMAIN inChnl', NEW j \in DOMAIN inChnl', i < j,
                         inChnl'[i].conv = c, inChnl'[j].conv = c
                  PROVE  inChnl'[i].n < inChnl'[j].n
      OBVIOUS
    <3>1. i + 1 \in DOMAIN inChnl /\ j + 1 \in DOMAIN inChnl /\ i + 1 < j + 1
      BY <1>5
    <3>. QED  BY <1>5, <3>1 DEF Numbered
  <2>. QED  BY <1>1, <1>2, <1>3, <1>4, <1>6, <2>1, <2>3, <2>4, <2>5 DEF Numbered
<1>7. CASE cs.conv = c
  <2>1. 1 \in DOMAIN inChnl /\ inChnl[1].conv = c /\ inChnl[1].n > Low(c) /\ inChnl[1].n <= High(c)
    BY <1>3, <1>5, <1>7 DEF Numbered
  <2>2. inChnl[1].n = Low(c) + 1
    <3>1. PICK i \in DOMAIN inChnl : inChnl[i].conv = c /\ inChnl[i].n = Low(c) + 1
      <4>1. Low(c) + 1 \in Nat /\ Low(c) + 1 > Low(c) /\ Low(c) + 1 <= High(c)
        BY <1>2, <1>5, <2>1
      <4>. QED  BY <4>1 DEF Numbered
    <3>2. CASE i = 1
      BY <3>1, <3>2
    <3>3. CASE i # 1
      <4>1. inChnl[1].n < inChnl[i].n
        <5>1. 1 < i
          BY <1>5, <3>3
        <5>. QED  BY <2>1, <3>1, <5>1 DEF Numbered
      <4>. QED  BY <1>2, <1>5, <2>1, <3>1, <4>1
    <3>. QED  BY <3>2, <3>3
  <2>3. Low(c)' = Low(c) + 1 /\ mgr'.cs.n = seen[c] + 1
    BY <1>3, <1>4, <1>7, <2>2 DEF Low
  <2>4. Low(c)' <= High(c)'
    BY <1>4, <2>1, <2>2, <2>3
  <2>5. \A i \in DOMAIN inChnl' : inChnl'[i].conv = c => inChnl'[i].n > Low(c)' /\ inChnl'[i].n <= High(c)'
    <3>. SUFFICES ASSUME NEW i \in DOMAIN inChnl', inChnl'[i].conv = c
                  PROVE  inChnl'[i].n > Low(c)' /\ inChnl'[i].n <= High(c)'
      OBVIOUS
    <3>1. i + 1 \in DOMAIN inChnl /\ 1 < i + 1 /\ inChnl'[i] = inChnl[i + 1] /\ inChnl[i + 1].n \in Nat
      BY <1>5
    <3>2. inChnl[1].n < inChnl[i + 1].n /\ inChnl[i + 1].n <= High(c)
      BY <2>1, <3>1 DEF Numbered
    <3>. QED  BY <1>4, <2>2, <2>3, <3>1, <3>2
  <2>6. \A i, j \in DOMAIN inChnl' :
          i < j /\ inChnl'[i].conv = c /\ inChnl'[j].conv = c => inChnl'[i].n < inChnl'[j].n
    <3>. SUFFICES ASSUME NEW i \in DOMAIN inChnl', NEW j \in DOMAIN inChnl', i < j,
                         inChnl'[i].conv = c, inChnl'[j].conv = c
                  PROVE  inChnl'[i].n < inChnl'[j].n
      OBVIOUS
    <3>1. i + 1 \in DOMAIN inChnl /\ j + 1 \in DOMAIN inChnl /\ i + 1 < j + 1
      BY <1>5
    <3>. QED  BY <1>5, <3>1 DEF Numbered
  <2>7. \A n \in Nat : n > Low(c)' /\ n <= High(c)' =>
          \E i \in DOMAIN inChnl' : inChnl'[i].conv = c /\ inChnl'[i].n = n
    <3>. SUFFICES ASSUME NEW n \in Nat, n > Low(c)', n <= High(c)'
                  PROVE  \E i \in DOMAIN inChnl' : inChnl'[i].conv = c /\ inChnl'[i].n = n
      OBVIOUS
    <3>1. n > Low(c) /\ n <= High(c) /\ n # Low(c) + 1
      BY <1>2, <1>4, <2>3
    <3>2. PICK i \in DOMAIN inChnl : inChnl[i].conv = c /\ inChnl[i].n = n
      BY <3>1 DEF Numbered
    <3>3. i # 1
      BY <2>2, <3>1, <3>2
    <3>. QED  BY <1>5, <3>2, <3>3
  <2>. QED  BY <1>1, <1>3, <2>3, <2>4, <2>5, <2>6, <2>7 DEF Numbered
<1>. QED  BY <1>6, <1>7

LEMMA PassOnNumbers ==
    ASSUME Registry, PassOn, NEW c \in Conv, Numbered(c)
    PROVE  Numbered(c)' /\ seen'[c] \in {seen[c], seen[c] + 1}
<1>1. /\ Types /\ mgr.cs \in Status /\ inChnl' = inChnl /\ emitted' = emitted /\ elem' = elem
      /\ "mgr" \in Thread
  BY ManagerFacts DEF PassOn, Types, Role, At, mgr
<1>2. /\ Low(c) \in Nat /\ High(c) \in Int /\ Low(c) <= High(c) /\ seen[c] \in Nat /\ None \notin Status
  BY <1>1, LowHigh
<1>3. mgr'.cs = None /\ mgr'.cs \notin Status
  BY <1>1, <1>2 DEF PassOn, mgr, Types, ThreadRecord
<1>4. mgr.cs.conv \in Conv /\ seen' = [seen EXCEPT ![mgr.cs.conv] = mgr.cs.n] /\ seen \in [Conv -> Nat]
  BY <1>1 DEF PassOn, Status, Types
<1>5. seen'[c] = IF mgr.cs.conv = c THEN mgr.cs.n ELSE seen[c]
  BY <1>4
<1>6. Low(c)' = Low(c) /\ High(c)' = High(c)
  BY <1>1, <1>3, <1>5 DEF Low, High, Putting
<1>7. Numbered(c)'
  BY <1>1, <1>3, <1>6 DEF Numbered
<1>. QED  BY <1>1, <1>5, <1>7 DEF Numbered

LEMMA ElemTakeNumbers ==
    ASSUME Registry, NEW e \in DOMAIN elem, NEW gone \in BOOLEAN, ElemTake(e, gone),
           NEW c \in Conv, Numbered(c)
    PROVE  Numbered(c)'
<1>. DEFINE d == elem[e].conv
            cs == [conv |-> d, gone |-> gone, n |-> emitted[d] + 1]
            x == [elem[e] EXCEPT !.h = "put", !.cs = cs]
<1>1. /\ Types /\ elem[e] \in Elem /\ elem \in Seq(Elem) /\ Live(e) /\ seen' = seen /\ inChnl' = inChnl
      /\ th' = th /\ elem[e].h = "select"
  BY SeqDomain DEF Registry, Types, ElemTake, Live
<1>2. cs \in Status /\ d \in Conv /\ emitted[d] \in Nat /\ cs.conv = d /\ cs.n = emitted[d] + 1
  <2>1. d \in Conv
    BY <1>1 DEF Elem
  <2>2. emitted[d] \in Nat
    BY <1>1, <2>1 DEF Types
  <2>. HIDE DEF d
  <2>. QED  BY <2>1, <2>2 DEF Status
<1>3. emitted' = [emitted EXCEPT ![d] = emitted[d] + 1] /\ emitted \in [Conv -> Nat]
  BY <1>1, <1>2 DEF Types, ElemTake
<1>4. elem' = [elem EXCEPT ![e] = x]
  BY <1>1 DEF ElemTake
<1>. HIDE DEF cs
<1>5. x \in Elem /\ x.conv = d /\ x.h = "put" /\ x.cs = cs
  BY <1>1, <1>2 DEF Elem
<1>. HIDE DEF x
<1>6. /\ DOMAIN elem' = DOMAIN elem /\ elem'[e] = x /\ \A i \in DOMAIN elem : i # e => elem'[i] = elem[i]
  BY <1>1, <1>4, <1>5, ElemUpdate
<1>7. mgr'.cs = mgr.cs /\ Low(c)' = Low(c)
  BY <1>1 DEF Low, mgr
<1>8. /\ Low(c) \in Nat /\ High(c) \in Int /\ Low(c) <= High(c) /\ emitted[c] \in Nat
  BY <1>1, LowHigh
<1>9. CASE c = d
  <2>1. \A i \in DOMAIN elem : i # e /\ elem[i].conv = c => elem[i].h # "put"
    BY <1>1, <1>9, OneHandler DEF Live
  <2>2. Putting(c)' /\ ~Putting(c)
    BY <1>1, <1>5, <1>6, <1>9, <2>1 DEF Putting
  <2>3. emitted'[c] = emitted[c] + 1 /\ High(c)' = High(c)
    BY <1>3, <1>8, <1>9, <2>2 DEF High
  <2>4. \A i \in DOMAIN elem' : elem'[i].h = "put" /\ elem'[i].conv = c =>
          elem'[i].cs \in Status /\ elem'[i].cs.conv = c /\ elem'[i].cs.n = emitted'[c]
    BY <1>2, <1>5, <1>6, <1>9, <2>1, <2>3
  <2>. QED  BY <1>1, <1>7, <2>3, <2>4 DEF Numbered
<1>10. CASE c # d
  <2>1. emitted'[c] = emitted[c]
    BY <1>3, <1>10
  <2>2. Putting(c)' = Putting(c)
    BY <1>5, <1>6, <1>10 DEF Putting
  <2>3. High(c)' = High(c)
    BY <2>1, <2>2 DEF High
  <2>4. \A i \in DOMAIN elem' : elem'[i].h = "put" /\ elem'[i].conv = c =>
          elem'[i].cs \in Status /\ elem'[i].cs.conv = c /\ elem'[i].cs.n = emitted'[c]
    BY <1>5, <1>6, <1>10, <2>1 DEF Numbered
  <2>. QED  BY <1>1, <1>7, <2>3, <2>4 DEF Numbered
<1>. QED  BY <1>9, <1>10

LEMMA ElemPutNumbers ==
    ASSUME Registry, NEW e \in DOMAIN elem, ElemPut(e), NEW c \in Conv, \A d \in Conv : Numbered(d)
    PROVE  Numbered(c)'
<1>. DEFINE x == [elem[e] EXCEPT !.h = "select", !.cs = None]
            cs == elem[e].cs
            d == elem[e].conv
            N == Len(inChnl)
<1>1. /\ Types /\ elem[e] \in Elem /\ elem \in Seq(Elem) /\ Live(e) /\ elem[e].h = "put"
      /\ seen' = seen /\ emitted' = emitted /\ th' = th /\ inChnl \in Seq(Status) /\ d \in Conv
  BY SeqDomain DEF Registry, Types, ElemPut, Live, Elem
<1>2. ~inClosed
  BY <1>1, StillOpen
<1>3. elem' = [elem EXCEPT ![e] = x] /\ inChnl' = Append(inChnl, cs)
  BY <1>1, <1>2 DEF ElemPut
<1>4. cs \in Status /\ cs.conv = d /\ cs.n = emitted[d]
  BY <1>1 DEF Numbered
<1>5. x \in Elem /\ x.conv = d /\ x.h = "select"
  BY <1>1 DEF Elem
<1>. HIDE DEF x
<1>6. /\ DOMAIN elem' = DOMAIN elem /\ elem'[e] = x /\ \A i \in DOMAIN elem : i # e => elem'[i] = elem[i]
  BY <1>1, <1>3, <1>5, ElemUpdate
<1>7. mgr'.cs = mgr.cs /\ Low(c)' = Low(c)
  BY <1>1 DEF Low, mgr
<1>8. /\ Low(c) \in Nat /\ High(c) \in Int /\ Low(c) <= High(c) /\ emitted[c] \in Nat
  BY <1>1, LowHigh
<1>9. /\ N \in Nat /\ DOMAIN inChnl = 1..N /\ DOMAIN inChnl' = 1..N + 1 /\ inChnl'[N + 1] = cs
      /\ \A i \in 1..N : inChnl'[i] = inChnl[i] /\ inChnl[i] \in Status
      /\ \A i \in 1..N + 1 : i = N + 1 \/ i \in 1..N
  <2>1. cs \in Status /\ inChnl \in Seq(Status) /\ inChnl' = Append(inChnl, cs)
    BY <1>1, <1>3, <1>4
  <2>. HIDE DEF cs
  <2>. QED  BY <2>1
<1>. HIDE DEF N, cs, d
<1>10. CASE c = d
  <2>1. \A i \in DOMAIN elem : i # e /\ elem[i].conv = c => elem[i].h # "put"
    BY <1>1, <1>10, OneHandler DEF Live, d
  <2>2. Putting(c) /\ ~Putting(c)'
    BY <1>1, <1>5, <1>6, <1>10, <2>1 DEF Putting, d
  <2>3. High(c) = emitted[c] - 1 /\ High(c)' = emitted[c] /\ cs.n = High(c)'
    BY <1>1, <1>4, <1>10, <2>2 DEF High
  <2>4. \A i \in DOMAIN inChnl' : inChnl'[i].conv = c => inChnl'[i].n > Low(c)' /\ inChnl'[i].n <= High(c)'
    <3>. SUFFICES ASSUME NEW i \in DOMAIN inChnl', inChnl'[i].conv = c
                  PROVE  inChnl'[i].n > Low(c)' /\ inChnl'[i].n <= High(c)'
      OBVIOUS
    <3>1. CASE i = N + 1
      BY <1>7, <1>8, <1>9, <2>3, <3>1
    <3>2. CASE i \in 1..N
      <4>1. inChnl'[i] = inChnl[i] /\ inChnl[i].n \in Nat
        BY <1>9, <3>2 DEF Status
      <4>2. inChnl[i].n > Low(c) /\ inChnl[i].n <= High(c)
        BY <1>9, <3>2, <4>1 DEF Numbered
      <4>. QED  BY <1>7, <1>8, <2>3, <4>1, <4>2
    <3>. QED  BY <1>9, <3>1, <3>2
  <2>5. ASSUME NEW i \in DOMAIN inChnl', NEW j \in DOMAIN inChnl', i < j,
               inChnl'[i].conv = c, inChnl'[j].conv = c
        PROVE  inChnl'[i].n < inChnl'[j].n
    <3>1. i \in 1..N /\ inChnl'[i] = inChnl[i] /\ inChnl[i].n \in Nat
      <4>1. i \in 1..N
        BY <1>9, <2>5
      <4>. QED  BY <1>9, <4>1 DEF Status
    <3>2. CASE j = N + 1
      <4>1. inChnl[i].n <= High(c)
        BY <1>9, <2>5, <3>1 DEF Numbered
      <4>. QED  BY <1>8, <1>9, <2>3, <3>1, <3>2, <4>1
    <3>3. CASE j \in 1..N
      BY <1>9, <2>5, <3>1, <3>3 DEF Numbered
    <3>. QED  BY <1>9, <3>2, <3>3
  <2>6. ASSUME NEW n \in Nat, n > Low(c)', n <= High(c)'
        PROVE  \E i \in DOMAIN inChnl' : inChnl'[i].conv = c /\ inChnl'[i].n = n
    <3>1. CASE n = High(c)'
      BY <1>4, <1>9, <1>10, <2>3, <3>1
    <3>2. CASE n # High(c)'
      <4>1. n > Low(c) /\ n <= High(c)
        BY <1>7, <1>8, <2>3, <2>6, <3>2
      <4>2. PICK i \in DOMAIN inChnl : inChnl[i].conv = c /\ inChnl[i].n = n
        BY <4>1 DEF Numbered
      <4>. QED  BY <1>9, <4>2
    <3>. QED  BY <3>1, <3>2
  <2>7. Low(c)' <= High(c)'
    BY <1>7, <1>8, <2>3
  <2>8. \A i \in DOMAIN elem' : elem'[i].h = "put" /\ elem'[i].conv = c => FALSE
    BY <2>2 DEF Putting
  <2>9. mgr'.cs \in Status /\ mgr'.cs.conv = c => mgr'.cs.n = seen'[c] + 1
    BY <1>1, <1>7 DEF Numbered
  <2>. QED  BY <2>4, <2>5, <2>6, <2>7, <2>8, <2>9 DEF Numbered
<1>11. CASE c # d
  <2>1. Putting(c)' = Putting(c)
    BY <1>5, <1>6, <1>11 DEF Putting, d
  <2>2. High(c)' = High(c)
    BY <1>1, <2>1 DEF High
  <2>3. \A i \in DOMAIN inChnl' : inChnl'[i].conv = c => i \in 1..N
    BY <1>4, <1>9, <1>11
  <2>4. \A i \in DOMAIN inChnl' : inChnl'[i].conv = c => inChnl'[i].n > Low(c)' /\ inChnl'[i].n <= High(c)'
    BY <1>7, <1>9, <2>2, <2>3 DEF Numbered
  <2>5. \A i, j \in DOMAIN inChnl' :
          i < j /\ inChnl'[i].conv = c /\ inChnl'[j].conv = c => inChnl'[i].n < inChnl'[j].n
    BY <1>9, <2>3 DEF Numbered
  <2>6. ASSUME NEW n \in Nat, n > Low(c)', n <= High(c)'
        PROVE  \E i \in DOMAIN inChnl' : inChnl'[i].conv = c /\ inChnl'[i].n = n
    <3>1. PICK i \in DOMAIN inChnl : inChnl[i].conv = c /\ inChnl[i].n = n
      BY <1>7, <2>2, <2>6 DEF Numbered
    <3>. QED  BY <1>9, <3>1
  <2>7. \A i \in DOMAIN elem' : elem'[i].h = "put" /\ elem'[i].conv = c =>
          elem'[i].cs \in Status /\ elem'[i].cs.conv = c /\ elem'[i].cs.n = emitted'[c]
    BY <1>1, <1>5, <1>6, <1>11 DEF Numbered, d
  <2>8. mgr'.cs \in Status /\ mgr'.cs.conv = c => mgr'.cs.n = seen'[c] + 1
    BY <1>1, <1>7 DEF Numbered
  <2>9. Low(c)' <= High(c)'
    BY <1>7, <1>8, <2>2
  <2>. QED  BY <2>4, <2>5, <2>6, <2>7, <2>8, <2>9 DEF Numbered
<1>. QED  BY <1>10, <1>11

(* The steps of a registration, of the manager between a message and the   *)
(* next, and the end of a handler, emit, take and pass on nothing.         *)
Silent ==
    \/ \E t \in Thread : Register(t) \/ RegisterStep(t)
    \/ Unregister \/ Deactivated \/ Delete \/ Drop \/ Tick \/ TickEnd \/ StopSyn \/ StopEnd
    \/ \E a \in Address : TickNext(a) \/ StopNext(a)
    \/ Close \/ \E e \in DOMAIN elem : ElemStop(e)

LEMMA SilentElem ==
    ASSUME Registry, NEW e \in DOMAIN elem, NEW x, elem' = [elem EXCEPT ![e] = x],
           elem[e].h = "put" => x.h = "put" /\ x.conv = elem[e].conv /\ x.cs = elem[e].cs,
           elem[e].h # "put" => x.h # "put"
    PROVE  /\ DOMAIN elem' = DOMAIN elem
           /\ \A i \in DOMAIN elem : /\ (elem'[i].h = "put") = (elem[i].h = "put")
                                     /\ elem[i].h = "put" => elem'[i].conv = elem[i].conv
                                                             /\ elem'[i].cs = elem[i].cs
<1>1. DOMAIN elem' = DOMAIN elem /\ elem'[e] = x /\ \A i \in DOMAIN elem : i # e => elem'[i] = elem[i]
  BY DEF Registry, Types
<1>. QED  BY <1>1

ElemsQuiet == /\ DOMAIN elem \subseteq DOMAIN elem'
              /\ \A i \in DOMAIN elem' : elem'[i].h = "put" => i \in DOMAIN elem
              /\ \A i \in DOMAIN elem : /\ (elem'[i].h = "put") = (elem[i].h = "put")
                                        /\ elem[i].h = "put" => elem'[i].conv = elem[i].conv
                                                                /\ elem'[i].cs = elem[i].cs

LEMMA SilentStep ==
    ASSUME Registry, Silent
    PROVE  seen' = seen /\ emitted' = emitted /\ inChnl' = inChnl /\ mgr'.cs = mgr.cs /\ ElemsQuiet
<1>1. "mgr" \in Thread /\ th \in [Thread -> ThreadRecord] /\ th["mgr"] \in ThreadRecord /\ Types
  BY ManagerFacts DEF Types
<1>2. elem' = elem => ElemsQuiet
  BY DEF ElemsQuiet
<1>3. ASSUME NEW e \in DOMAIN elem, NEW x, elem' = [elem EXCEPT ![e] = x],
             elem[e].h = "put" => x.h = "put" /\ x.conv = elem[e].conv /\ x.cs = elem[e].cs,
             elem[e].h # "put" => x.h # "put"
      PROVE  ElemsQuiet
  BY <1>3, SilentElem DEF ElemsQuiet
<1>4. ASSUME NEW t \in Thread, NEW pc, Goto(t, pc)
      PROVE  mgr'.cs = mgr.cs
  BY <1>1, <1>4 DEF Goto, mgr, ThreadRecord
<1>5. ASSUME NEW t \in Thread, Register(t)
      PROVE  seen' = seen /\ emitted' = emitted /\ inChnl' = inChnl /\ mgr'.cs = mgr.cs /\ ElemsQuiet
  BY <1>2, <1>4, <1>5 DEF Register, AfterRegister, chan
<1>6. ASSUME NEW t \in Thread, CheckReceiver(t)
      PROVE  seen' = seen /\ emitted' = emitted /\ inChnl' = inChnl /\ mgr'.cs = mgr.cs /\ ElemsQuiet
  BY <1>2, <1>4, <1>6 DEF CheckReceiver, AfterRegister, chan
<1>7. ASSUME NEW t \in Thread, Activate(t) \/ StartExpired(t)
      PROVE  seen' = seen /\ emitted' = emitted /\ inChnl' = inChnl /\ mgr'.cs = mgr.cs /\ ElemsQuiet
  BY <1>2, <1>4, <1>7 DEF Activate, StartExpired, AfterActivate, chan
<1>8. ASSUME NEW t \in Thread, Store(t)
      PROVE  seen' = seen /\ emitted' = emitted /\ inChnl' = inChnl /\ mgr'.cs = mgr.cs /\ ElemsQuiet
  BY <1>2, <1>4, <1>8 DEF Store, AfterRegister, chan
<1>9. ASSUME NEW t \in Thread, Load(t)
      PROVE  seen' = seen /\ emitted' = emitted /\ inChnl' = inChnl /\ mgr'.cs = mgr.cs /\ ElemsQuiet
  <2>1. seen' = seen /\ emitted' = emitted /\ inChnl' = inChnl
    BY <1>9 DEF Load, chan
  <2>2. mgr'.cs = mgr.cs
    <3>1. ASSUME NEW e, th' = [th EXCEPT ![t].pc = "receiver", ![t].e = e]
          PROVE  mgr'.cs = mgr.cs
      BY <1>1, <3>1 DEF mgr, ThreadRecord
    <3>. QED  BY <1>4, <1>9, <3>1 DEF Load, AfterRegister
  <2>3. ElemsQuiet
    <3>1. ASSUME elem' = Append(elem, newConvergenceElement(th[t].conv))
          PROVE  ElemsQuiet
      <4>. DEFINE n == newConvergenceElement(th[t].conv)
      <4>1. n.h = "none" /\ elem \in Seq(Elem)
        BY <1>1 DEF newConvergenceElement, Types
      <4>2. /\ DOMAIN elem = 1..Len(elem) /\ Len(elem) \in Nat
            /\ DOMAIN elem' = 1..Len(elem) + 1 /\ elem'[Len(elem) + 1] = n
            /\ \A i \in 1..Len(elem) : elem'[i] = elem[i]
        BY <3>1, <4>1
      <4>. HIDE DEF n
      <4>. QED  BY <4>1, <4>2 DEF ElemsQuiet
    <3>. QED  BY <1>2, <1>9, <3>1 DEF Load
  <2>. QED  BY <2>1, <2>2, <2>3
<1>10. ASSUME NEW t \in Thread, StartOk(t) \/ StartRetry(t) \/ StartFail(t)
       PROVE  seen' = seen /\ emitted' = emitted /\ inChnl' = inChnl /\ mgr'.cs = mgr.cs /\ ElemsQuiet
  <2>. DEFINE e == th[t].e
  <2>1. seen' = seen /\ emitted' = emitted /\ inChnl' = inChnl /\ mgr'.cs = mgr.cs
    BY <1>4, <1>10 DEF StartOk, StartRetry, StartFail, AfterActivate, chan
  <2>2. Starting(t)
    BY <1>10 DEF StartOk, StartRetry, StartFail, At, Starting
  <2>3. e \in DOMAIN elem /\ elem[e] \in Elem /\ elem[e].h # "put"
    BY <2>2, NotYetOpen, StartingFacts DEF Live
  <2>4. PICK x : elem' = [elem EXCEPT ![e] = x] /\ x.h # "put"
    <3>1. CASE StartOk(t)
      <4>1. elem' = [elem EXCEPT ![e] = [elem[e] EXCEPT !.ttl = -1, !.h = "select", !.stop = FALSE]]
        BY <2>3, <3>1 DEF StartOk
      <4>2. [elem[e] EXCEPT !.ttl = -1, !.h = "select", !.stop = FALSE].h = "select"
        BY <2>3 DEF Elem
      <4>. QED  BY <4>1, <4>2
    <3>2. CASE StartRetry(t)
      <4>1. elem' = [elem EXCEPT ![e] = [elem[e] EXCEPT !.ttl = @ - 1]]
        BY <2>3, <3>2 DEF StartRetry
      <4>2. [elem[e] EXCEPT !.ttl = @ - 1].h = elem[e].h
        BY <2>3 DEF Elem
      <4>. QED  BY <2>3, <4>1, <4>2
    <3>3. CASE StartFail(t)
      <4>1. elem' = [elem EXCEPT ![e] = [elem[e] EXCEPT !.ttl = 0]]
        BY <2>3, <3>3 DEF StartFail
      <4>2. [elem[e] EXCEPT !.ttl = 0].h = elem[e].h
        BY <2>3 DEF Elem
      <4>. QED  BY <2>3, <4>1, <4>2
    <3>. QED  BY <1>10, <3>1, <3>2, <3>3
  <2>. HIDE DEF e
  <2>5. ElemsQuiet
    BY <1>3, <2>3, <2>4
  <2>. QED  BY <2>1, <2>5
<1>11. ASSUME Delete \/ Drop \/ TickEnd \/ StopEnd
       PROVE  seen' = seen /\ emitted' = emitted /\ inChnl' = inChnl /\ mgr'.cs = mgr.cs /\ ElemsQuiet
  BY <1>1, <1>2, <1>4, <1>11 DEF Delete, Drop, TickEnd, StopEnd, AfterUnregister, chan
<1>12. ASSUME Tick \/ StopSyn
       PROVE  seen' = seen /\ emitted' = emitted /\ inChnl' = inChnl /\ mgr'.cs = mgr.cs /\ ElemsQuiet
  <2>1. seen' = seen /\ emitted' = emitted /\ inChnl' = inChnl /\ ElemsQuiet
    BY <1>2, <1>12 DEF Tick, StopSyn, chan
  <2>2. mgr'.cs = mgr.cs
    BY <1>1, <1>12 DEF Tick, StopSyn, mgr, ThreadRecord
  <2>. QED  BY <2>1, <2>2
<1>13. ASSUME NEW a \in Address, TickNext(a) \/ StopNext(a)
       PROVE  seen' = seen /\ emitted' = emitted /\ inChnl' = inChnl /\ mgr'.cs = mgr.cs /\ ElemsQuiet
  <2>1. seen' = seen /\ emitted' = emitted /\ inChnl' = inChnl /\ ElemsQuiet
    BY <1>2, <1>13 DEF TickNext, StopNext, chan
  <2>2. mgr'.cs = mgr.cs
    <3>1. CASE TickNext(a)
      BY <1>1, <3>1 DEF TickNext, mgr, ThreadRecord
    <3>2. CASE StopNext(a)
      BY <1>1, <3>2 DEF StopNext, mgr, ThreadRecord
    <3>. QED  BY <1>13, <3>1, <3>2
  <2>. QED  BY <2>1, <2>2
<1>14. ASSUME Close
       PROVE  seen' = seen /\ emitted' = emitted /\ inChnl' = inChnl /\ mgr'.cs = mgr.cs /\ ElemsQuiet
  BY <1>2, <1>14 DEF Close, mgr
<1>15. ASSUME NEW e \in DOMAIN elem, ElemStop(e)
       PROVE  seen' = seen /\ emitted' = emitted /\ inChnl' = inChnl /\ mgr'.cs = mgr.cs /\ ElemsQuiet
  <2>. DEFINE x == [elem[e] EXCEPT !.h = "closed"]
  <2>1. elem' = [elem EXCEPT ![e] = x] /\ elem[e].h = "select" /\ elem[e] \in Elem
    BY <1>1, <1>15, SeqDomain DEF ElemStop
  <2>2. x.h = "closed"
    BY <2>1 DEF Elem
  <2>. HIDE DEF x
  <2>3. ElemsQuiet
    BY <1>3, <2>1, <2>2
  <2>. QED  BY <1>15, <2>3 DEF ElemStop, chan, mgr
<1>16. ASSUME Deactivated
       PROVE  seen' = seen /\ emitted' = emitted /\ inChnl' = inChnl /\ mgr'.cs = mgr.cs /\ ElemsQuiet
  <2>. DEFINE e == mgr.e
              x == [elem[e] EXCEPT !.ttl = queueTtl]
  <2>1. e \in DOMAIN elem /\ elem[e] \in Elem /\ elem[e].h = "closed"
    BY <1>1, <1>16, ManagerFacts, SeqDomain DEF Deactivated, At, Phase, Same, mgr
  <2>2. elem' = [elem EXCEPT ![e] = x] /\ x.h = "closed"
    BY <1>16, <2>1 DEF Deactivated, Elem
  <2>. HIDE DEF x, e
  <2>3. ElemsQuiet
    BY <1>3, <2>1, <2>2
  <2>. QED  BY <1>1, <1>4, <1>16, <2>3 DEF Deactivated, chan
<1>17. ASSUME Unregister
       PROVE  seen' = seen /\ emitted' = emitted /\ inChnl' = inChnl /\ mgr'.cs = mgr.cs /\ ElemsQuiet
  <2>. DEFINE e == convs[AddressOf(mgr.conv)]
              x == [elem[e] EXCEPT !.stop = TRUE]
  <2>1. seen' = seen /\ emitted' = emitted /\ inChnl' = inChnl
    BY <1>17 DEF Unregister
  <2>2. mgr'.cs = mgr.cs
    <3>1. ASSUME NEW f, NEW pc, th' = [th EXCEPT !["mgr"].pc = pc, !["mgr"].e = f]
          PROVE  mgr'.cs = mgr.cs
      BY <1>1, <3>1 DEF mgr, ThreadRecord
    <3>. QED  BY <1>1, <1>4, <1>17, <3>1 DEF Unregister, AfterUnregister
  <2>3. ASSUME e # 0, elem' = [elem EXCEPT ![e].stop = TRUE]
        PROVE  ElemsQuiet
    <3>1. e \in DOMAIN elem /\ elem[e] \in Elem
      <4>1. AddressOf(mgr.conv) \in Address
        BY <1>1 DEF Types, AddressOf, Layout, ThreadRecord, mgr
      <4>2. e \in 0..Len(elem)
        BY <1>1, <4>1 DEF Types
      <4>. QED  BY <1>1, <2>3, <4>2, SeqDomain
    <3>2. elem' = [elem EXCEPT ![e] = x] /\ x.h = elem[e].h /\ x.conv = elem[e].conv /\ x.cs = elem[e].cs
      BY <2>3, <3>1 DEF Elem
    <3>. HIDE DEF x, e
    <3>. QED  BY <1>3, <3>1, <3>2
  <2>. QED  BY <1>2, <1>17, <2>1, <2>2, <2>3 DEF Unregister
<1>. QED  BY <1>5, <1>6, <1>7, <1>8, <1>9, <1>10, <1>11, <1>12, <1>13, <1>14, <1>15, <1>16, <1>17
          DEF Silent, RegisterStep

-----------------------------------------------------------------------------
LEMMA StartIndInv == Init => IndInv
<1>. SUFFICES ASSUME Init PROVE IndInv
  OBVIOUS
<1>1. /\ layout \in Layout /\ elem = <<>> /\ elem \in Seq(Elem) /\ inChnl = <<>> /\ inChnl \in Seq(Status)
      /\ DOMAIN elem = {} /\ DOMAIN inChnl = {} /\ Len(elem) = 0
      /\ inClosed = FALSE /\ panic = FALSE
  BY ConvAssumption DEF Init
<1>2. /\ \A c \in Conv : opened[c] = 0 /\ emitted[c] = 0 /\ seen[c] = 0
      /\ \A a \in Address : convs[a] = 0 /\ convs \in [Address -> 0..Len(elem)]
      /\ opened \in [Conv -> Nat] /\ emitted \in [Conv -> Nat] /\ seen \in [Conv -> Nat]
      /\ convs \in [Address -> 0..Len(elem)]
  BY <1>1 DEF Init
<1>3. ASSUME NEW t \in Thread
      PROVE  /\ th[t] \in ThreadRecord /\ th[t].pc = (IF t = "mgr" THEN "select" ELSE "register")
             /\ th[t].why = "register" /\ th[t].cs = None
  <2>1. (CHOOSE c \in Conv : TRUE) \in Conv
    BY ConvAssumption
  <2>2. t # "mgr" => t \in Conv
    BY DEF Thread
  <2>3. th[t] = [pc |-> IF t = "mgr" THEN "select" ELSE "register",
                 conv |-> IF t = "mgr" THEN CHOOSE c \in Conv : TRUE ELSE t,
                 e |-> 0, why |-> "register", todo |-> {}, cs |-> None]
    BY DEF Init
  <2>. QED  BY <2>1, <2>2, <2>3 DEF ThreadRecord, Place, Why
<1>4. th \in [Thread -> ThreadRecord]
  <2>1. DOMAIN th = Thread /\ th = [t \in Thread |-> th[t]]
    BY DEF Init
  <2>. QED  BY <1>3, <2>1
<1>5. Types
  BY <1>1, <1>2, <1>4 DEF Types
<1>6. mgr.cs = None /\ mgr.pc = "select" /\ None \notin Status
  <2>1. None \notin Status
    BY DEF None, Status
  <2>. QED  BY <1>3, <2>1, MgrThread DEF mgr
<1>7. OneBusy /\ \A t \in Thread : Phase(t) /\ Role(t)
  BY <1>3, <1>6 DEF OneBusy, Quiet, Phase, Role
<1>8. Registry
  BY <1>1, <1>2, <1>5, <1>6, <1>7 DEF Registry, Emptying, Shutdown, ConvInv, Filed
<1>9. ASSUME NEW c \in Conv
      PROVE  Numbered(c)
  <2>1. Low(c) = 0 /\ High(c) = 0
    BY <1>1, <1>2, <1>6 DEF Low, High, Putting
  <2>. QED  BY <1>1, <1>6, <2>1 DEF Numbered
<1>10. NoPanic
  BY <1>1 DEF NoPanic
<1>. QED  BY <1>8, <1>9, <1>10 DEF IndInv

LEMMA NextRegistry == IndInv /\ OrderlyNext => Registry'
<1>. SUFFICES ASSUME IndInv, OrderlyNext PROVE Registry'
  OBVIOUS
<1>1. Registry /\ (\A c \in Conv : Numbered(c)) /\ "mgr" \in Thread /\ OneBusy
  BY MgrThread DEF IndInv, Registry
<1>2. ASSUME NEW t \in Thread, RegisterStep(t) PROVE Registry'
  BY <1>1, <1>2, LoadStep, CheckReceiverStep, ActivateStep, StoreStep, StartExpiredStep,
     StartOkStep, StartRetryStep, StartFailStep DEF RegisterStep
<1>3. ASSUME Register("mgr") PROVE Registry'
  <2>1. ~Quiet("mgr")
    BY <1>3 DEF Register, At, Quiet
  <2>2. \A u \in Thread : u # "mgr" => Quiet(u)
    BY <1>1, <2>1, Alone
  <2>. QED  BY <1>1, <1>3, <2>2, RegisterStepR
<1>4. ASSUME \A c \in Conv : ~Registering(c)
      PROVE  \A u \in Thread : u # "mgr" => Quiet(u)
  BY <1>4 DEF Registering, Quiet, Thread
<1>5. ASSUME \A c \in Conv : ~Registering(c), At("mgr", "select"), NEW c \in Conv, Register(c)
      PROVE  Registry'
  <2>1. \A u \in Thread : Quiet(u)
    BY <1>4, <1>5 DEF Quiet, At
  <2>. QED  BY <1>1, <1>5, <2>1, MgrThread, RegisterStepR
<1>6. ASSUME ManagerStep PROVE Registry'
  BY <1>1, <1>6, PassOnStep, UnregisterStep, DeactivatedStep, DeleteStep, DropStep, TickEndStep,
     StopEndStep, TickNextStep, StopNextStep DEF ManagerStep
<1>7. ASSUME Close PROVE Registry'
  BY <1>1, <1>7, CloseStep
<1>8. ASSUME \A c \in Conv : ~Registering(c), Select PROVE Registry'
  BY <1>1, <1>4, <1>8, TakeStatusStep, TickStep, StopSynStep DEF Select
<1>9. ASSUME NEW e \in DOMAIN elem, Handler(e) PROVE Registry'
  BY <1>1, <1>9, ElemPutStep, ElemStopStep DEF Handler
<1>10. ASSUME NEW e \in DOMAIN elem, NEW gone \in BOOLEAN, ElemTake(e, gone) PROVE Registry'
  BY <1>1, <1>10, ElemTakeStep
<1>. QED  BY <1>2, <1>3, <1>5, <1>6, <1>7, <1>8, <1>9, <1>10 DEF OrderlyNext

LEMMA NextNumbered ==
    IndInv /\ OrderlyNext =>
        \A c \in Conv : Numbered(c)' /\ seen'[c] \in {seen[c], seen[c] + 1}
<1>. SUFFICES ASSUME IndInv, OrderlyNext, NEW c \in Conv
              PROVE  Numbered(c)' /\ seen'[c] \in {seen[c], seen[c] + 1}
  OBVIOUS
<1>1. Registry /\ (\A d \in Conv : Numbered(d)) /\ Numbered(c) /\ "mgr" \in Thread
  BY MgrThread DEF IndInv
<1>2. CASE Silent
  BY <1>1, <1>2, SilentStep, NumbersStay DEF ElemsQuiet
<1>3. CASE TakeStatus
  BY <1>1, <1>3, TakeStatusNumbers DEF TakeStatus
<1>4. CASE PassOn
  BY <1>1, <1>4, PassOnNumbers
<1>5. CASE \E e \in DOMAIN elem : ElemPut(e)
  BY <1>1, <1>5, ElemPutNumbers DEF ElemPut
<1>6. CASE \E e \in DOMAIN elem : \E gone \in BOOLEAN : ElemTake(e, gone)
  BY <1>1, <1>6, ElemTakeNumbers DEF ElemTake
<1>7. Silent \/ TakeStatus \/ PassOn \/ (\E e \in DOMAIN elem : ElemPut(e))
      \/ (\E e \in DOMAIN elem : \E gone \in BOOLEAN : ElemTake(e, gone))
  BY <1>1, MgrThread DEF OrderlyNext, Silent, ManagerStep, Select, Handler
<1>. QED  BY <1>2, <1>3, <1>4, <1>5, <1>6, <1>7

(* Two steps may panic: a send on inChnl, which is open as long as a       *)
(* handler runs, and the close of stopSyn.                                 *)
LEMMA UnregisterPanic ==
    ASSUME Registry, Unregister, ~panic
    PROVE  NoPanic'
<1>. DEFINE e == convs[AddressOf(mgr.conv)]
<1>1. /\ "mgr" \in Thread /\ Types /\ mgr.pc = "unregister" /\ mgr.conv \in Conv
      /\ e \in 0..Len(elem) /\ th \in [Thread -> ThreadRecord] /\ th["mgr"] \in ThreadRecord
  BY MgrThread DEF Registry, Types, Unregister, At, mgr, ThreadRecord, AddressOf, Layout
<1>2. CASE UNCHANGED <<elem, panic>>
  BY <1>2 DEF NoPanic
<1>3. CASE /\ e # 0 /\ elem[e].conv = mgr.conv /\ isActive(e)
           /\ elem' = [elem EXCEPT ![e].stop = TRUE]
           /\ panic' = (elem[e].h \in {"none", "closed"})
           /\ th' = [th EXCEPT !["mgr"].pc = "deactivate", !["mgr"].e = e]
  <2>1. e \in DOMAIN elem /\ elem[e] \in Elem /\ elem \in Seq(Elem)
    BY <1>1, <1>3, SeqDomain DEF Types
  <2>2. elem'[e].h = elem[e].h /\ elem'[e].ttl = elem[e].ttl /\ elem'[e].conv = elem[e].conv
    BY <1>3, <2>1 DEF Elem
  <2>3. th'["mgr"].pc = "deactivate" /\ th'["mgr"].e = e
    BY <1>1, <1>3 DEF ThreadRecord
  <2>4. ElemInv(e) /\ elem[e].ttl < 0 /\ ~Closing(e)
    BY <1>1, <1>3, <2>1 DEF Registry, isActive, Closing
  <2>5. panic' => elem[e].h \notin {"select", "put"} /\ elem[e].conv \in Permanent
    BY <1>3, <2>4 DEF ElemInv, Live
  <2>. QED  BY <2>2, <2>3, <2>4, <2>5 DEF NoPanic, Feigned, At, isActive, mgr
<1>. QED  BY <1>2, <1>3 DEF Unregister

LEMMA NextPanic == IndInv /\ OrderlyNext => NoPanic'
<1>. SUFFICES ASSUME IndInv, OrderlyNext PROVE NoPanic'
  OBVIOUS
<1>1. Registry /\ ~panic
  BY DEF IndInv, OrderlyNext, Running
<1>2. CASE Unregister
  BY <1>1, <1>2, UnregisterPanic
<1>3. CASE \E e \in DOMAIN elem : ElemPut(e)
  <2>1. PICK e \in DOMAIN elem : ElemPut(e)
    BY <1>3
  <2>2. Live(e)
    BY <2>1 DEF ElemPut, Live
  <2>3. ~inClosed
    BY <1>1, <2>2, StillOpen
  <2>. QED  BY <1>1, <2>1, <2>3 DEF ElemPut, NoPanic
<1>4. ASSUME NEW t \in Thread, Register(t) \/ RegisterStep(t) PROVE panic' = panic
  BY <1>4 DEF Register, RegisterStep, Load, CheckReceiver, Activate, Store, StartExpired, StartOk,
              StartRetry, StartFail, chan
<1>5. ASSUME ManagerStep, ~Unregister PROVE panic' = panic
  BY <1>5 DEF ManagerStep, PassOn, Deactivated, Delete, Drop, TickEnd, StopEnd, TickNext, StopNext, chan
<1>6. ASSUME Select \/ Close PROVE panic' = panic
  BY <1>6 DEF Select, TakeStatus, Tick, StopSyn, Close, chan
<1>7. ASSUME NEW e \in DOMAIN elem, ElemStop(e) \/ \E gone \in BOOLEAN : ElemTake(e, gone)
      PROVE  panic' = panic
  BY <1>7 DEF ElemStop, ElemTake, chan
<1>8. panic' = panic => NoPanic'
  BY <1>1 DEF NoPanic
<1>. QED  BY <1>2, <1>3, <1>4, <1>5, <1>6, <1>7, <1>8, MgrThread DEF OrderlyNext, Handler

LEMMA StutterIndInv == IndInv /\ UNCHANGED vars => IndInv'
<1>. SUFFICES ASSUME IndInv, UNCHANGED vars PROVE IndInv'
  OBVIOUS
<1>1. /\ layout' = layout /\ elem' = elem /\ convs' = convs /\ th' = th /\ inChnl' = inChnl
      /\ inClosed' = inClosed /\ panic' = panic /\ opened' = opened /\ emitted' = emitted /\ seen' = seen
  BY DEF vars
<1>2. Registry /\ NoPanic /\ \A c \in Conv : Numbered(c)
  BY DEF IndInv
<1>3. Types'
  BY <1>1, <1>2 DEF Registry, Types
<1>4. \A e \in DOMAIN elem' : ElemInv(e)'
  BY <1>1, <1>2 DEF Registry, ElemInv, Live, Stored, Closing, AddressOf, mgr
<1>5. \A c \in Conv : ConvInv(c)'
  BY <1>1, <1>2 DEF Registry, ConvInv, Live
<1>6. Registry'
  BY <1>1, <1>2, <1>3, <1>4, <1>5, ThreadsStay
<1>7. \A c \in Conv : Numbered(c)'
  BY <1>1, <1>2, NumbersStay DEF mgr
<1>8. NoPanic'
  BY <1>1, <1>2 DEF NoPanic, Feigned, At, isActive, mgr
<1>. QED  BY <1>6, <1>7, <1>8 DEF IndInv

LEMMA Invariance == OrderlySpec => []IndInv
<1>1. IndInv /\ [OrderlyNext]_vars => IndInv'
  BY NextRegistry, NextPanic, NextNumbered, StutterIndInv DEF IndInv
<1>. QED  BY <1>1, StartIndInv, PTL DEF OrderlySpec

(* No two instances with one address are started at the same time, and     *)
(* none is started twice: what Convergence.Address is for holds as long as *)
(* registrations (Register, Restart) do not overlap, with any number of    *)
(* retries, permanent CLAs, and Close.                                     *)
THEOREM OpenedOnce == OrderlySpec => []NotOpenedTwice
<1>1. IndInv => NotOpenedTwice
  <2>. SUFFICES ASSUME Registry, NEW c \in Conv, NEW d \in Conv
                PROVE  /\ opened[c] <= 1
                       /\ AddressOf(c) = AddressOf(d) /\ opened[c] > 0 /\ opened[d] > 0 => c = d
    BY DEF NotOpenedTwice, IndInv
  <2>1. ConvInv(c) /\ ConvInv(d)
    BY DEF Registry
  <2>2. opened[c] <= 1
    BY <2>1 DEF ConvInv
  <2>3. ASSUME AddressOf(c) = AddressOf(d), opened[c] > 0, opened[d] > 0
        PROVE  c = d
    <3>1. PICK i \in DOMAIN elem : Live(i) /\ elem[i].conv = c
      BY <2>1, <2>3 DEF ConvInv
    <3>2. PICK j \in DOMAIN elem : Live(j) /\ elem[j].conv = d
      BY <2>1, <2>3 DEF ConvInv
    <3>. QED  BY <2>3, <3>1, <3>2, OneHandler
  <2>. QED  BY <2>2, <2>3
<1>. QED  BY <1>1, Invariance, PTL

(* A started CLA is an active element of manager.convs whose handler can   *)
(* close it, or some goroutine is about to file or to close it: also       *)
(* across the restarts and the removal of CLAs, and after Close.           *)
THEOREM Supervision == OrderlySpec => []Supervised
<1>1. IndInv => Supervised
  <2>. SUFFICES ASSUME Registry, NEW c \in Conv, opened[c] > 0
                PROVE  \/ InHand(c)
                       \/ LET e == convs[AddressOf(c)]
                          IN  e # 0 /\ elem[e].conv = c /\ isActive(e) /\ elem[e].h \in {"select", "put"}
    BY DEF Supervised, IndInv
  <2>1. PICK e \in DOMAIN elem : Live(e) /\ elem[e].conv = c
    BY DEF Registry, ConvInv
  <2>2. Stored(e) /\ elem[e].ttl < 0 /\ e # 0
    BY <2>1, SeqDomain DEF Registry, ElemInv
  <2>. QED  BY <2>1, <2>2 DEF Stored, InHand, isActive, Live
<1>. QED  BY <1>1, Invariance, PTL

(* No goroutine sends on the closed inChnl.  None closes a nil or a closed *)
(* stopSyn either, but the manager that restarts or shuts down a permanent *)
(* CLA (every configured one) whose ttl fell below zero though no handler  *)
(* runs; whatever CLAs are permanent.                                      *)
THEOREM Panicless == OrderlySpec => []NoPanic
<1>1. IndInv => NoPanic
  BY DEF IndInv
<1>. QED  BY <1>1, Invariance, PTL

(* The core gets the status messages of a CLA in the order in which it     *)
(* emitted them, and none is skipped.                                      *)
THEOREM Ordering == OrderlySpec => InOrder
<1>1. IndInv /\ [OrderlyNext]_vars => [\A c \in Conv : seen'[c] \in {seen[c], seen[c] + 1}]_vars
  BY NextNumbered
<1>. QED  BY <1>1, Invariance, PTL DEF OrderlySpec, InOrder
=============================================================================
