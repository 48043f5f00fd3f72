------------------------------- MODULE Agents -------------------------------
(***************************************************************************)
(* The multiplexer of application agents (pkg/agent/mux_agent.go), the     *)
(* AgentManager that hands bundles in and takes bundles out, PingAgents,   *)
(* and a WebSocketAgent, which is a child of the mux and has a mux of its  *)
(* own for its clients.                                                    *)
(*                                                                         *)
(* All channels are unbuffered: a send is a step of both sides.  A mux     *)
(* holds its mutex while it waits for a child; unregister, Register and    *)
(* Endpoints, which AgentManager.HasEndpoint calls, need the same mutex.   *)
(* AgentManager.handler runs SendBundle to its end, the delivery to        *)
(* another agent of this node included, before it takes the next message.  *)
(***************************************************************************)
EXTENDS Naturals, FiniteSets

CONSTANTS Pings, Webs,  \* the PingAgents and the clients of the WebSocketAgent
          MaxDeliver,   \* bound: agent -> bundles for it
          MaxSubmit     \* bound: bundles from WebSocket clients

VARIABLES children,     \* mux -> mux.children
          lock,         \* mux -> its mutex is taken, by mux.handle
          mux,          \* mux -> mux.handle: its place, its message, children left
          waiting,      \* agent -> Deliver calls that wait for mux.handle
          delivers,     \* agent -> bundles handed in so far
          agent,        \* child -> the goroutine that reads its receiver
          inner,        \* the message that WebSocketAgent.handler passes on
          webConn,      \* agent -> the goroutine that writes to its sender
          relay,        \* child -> mux.handleChild
          manager,      \* AgentManager.handler, and for whom its bundle is
          submits,      \* bundles from WebSocket clients so far
          shutdown      \* AgentManager.Close was called

avars == <<children, lock, mux, waiting, delivers, agent, inner, webConn, relay,
           manager, submits, shutdown>>

(* The mux of the AgentManager, and the WebSocketAgent with its own.       *)
Top == "top"
WS == "ws"
Muxes == {Top, WS}

Ends == Pings \union Webs
Kids == Ends \union {WS}
Of(k) == IF k \in Webs THEN WS ELSE Top

(* ShutdownMessage: its Recipients are nil, it is for every child.         *)
Shutdown == "shutdown"

ManagerIdle == [pc |-> "idle", to |-> Shutdown]

AInit == /\ children = [m \in Muxes |-> {}]
         /\ lock = [m \in Muxes |-> FALSE]
         /\ mux = [m \in Muxes |-> [pc |-> "idle", msg |-> Shutdown, to |-> {}]]
         /\ waiting = [k \in Ends |-> 0]
         /\ delivers = [k \in Ends |-> 0]
         /\ agent = [k \in Kids |-> "read"]
         /\ inner = Shutdown
         /\ webConn = [k \in Ends |-> "idle"]
         /\ relay = [k \in Kids |-> "none"]
         /\ manager = ManagerIdle
         /\ submits = 0
         /\ shutdown = FALSE

(* Endpoints of Top asks WS for its own: it needs both mutexes.            *)
EndpointsFree == \A m \in Muxes : ~lock[m]

AppAgentContainsEndpoint(k, msg) ==
    \/ msg = Shutdown
    \/ IF k = WS THEN msg \in children[WS] ELSE msg = k

HasEndpoint(e) == \E k \in children[Top] : AppAgentContainsEndpoint(k, e)
-----------------------------------------------------------------------------
(* Register: at the start of dtnd, or in ServeHTTP for a WebSocket client. *)
Register(k) ==
    /\ relay[k] = "none" /\ ~lock[Of(k)]
    /\ children' = [children EXCEPT ![Of(k)] = @ \union {k}]
    /\ relay' = [relay EXCEPT ![k] = "wait"]
    /\ UNCHANGED <<lock, mux, waiting, delivers, agent, inner, webConn, manager,
                   submits, shutdown>>

(* AgentManager.Deliver for a received bundle: HasEndpoint, and then the   *)
(* message waits.                                                          *)
Deliver(k) ==
    /\ delivers[k] < MaxDeliver[k] /\ ~shutdown
    /\ EndpointsFree /\ HasEndpoint(k)
    /\ delivers' = [delivers EXCEPT ![k] = @ + 1]
    /\ waiting' = [waiting EXCEPT ![k] = @ + 1]
    /\ UNCHANGED <<children, lock, mux, agent, inner, webConn, relay, manager,
                   submits, shutdown>>

(* mux.handle takes a message,                                             *)
Take(m, msg) ==
    /\ mux[m].pc = "idle"
    /\ mux' = [mux EXCEPT ![m] = [pc |-> "lock", msg |-> msg, to |-> {}]]
    /\ UNCHANGED <<children, lock, delivers, webConn, relay, submits>>

(* of a Deliver that waits,                                                *)
MuxTake(k) ==
    /\ waiting[k] > 0 /\ Take(Top, k)
    /\ waiting' = [waiting EXCEPT ![k] = @ - 1]
    /\ UNCHANGED <<agent, inner, manager, shutdown>>

(* of the Deliver that AgentManager.handler itself is in,                  *)
MuxTakeLocal ==
    /\ manager.pc = "deliver" /\ Take(Top, manager.to)
    /\ manager' = [ManagerIdle EXCEPT !.pc = "report"]
    /\ UNCHANGED <<waiting, agent, inner, shutdown>>

(* of WebSocketAgent.handler, which ends with a shutdown,                  *)
MuxTakeInner ==
    /\ agent[WS] = "message" /\ Take(WS, inner)
    /\ agent' = [agent EXCEPT ![WS] = IF inner = Shutdown THEN "gone" ELSE "read"]
    /\ inner' = Shutdown
    /\ UNCHANGED <<waiting, manager, shutdown>>

(* or of AgentManager.Close.  Bound: when no Deliver waits.                *)
Close ==
    /\ ~shutdown /\ \A k \in Ends : waiting[k] = 0
    /\ Take(Top, Shutdown)
    /\ shutdown' = TRUE
    /\ UNCHANGED <<waiting, agent, inner, manager>>

(* It takes its mutex and goes through its children,                       *)
MuxLock(m) ==
    /\ mux[m].pc = "lock" /\ ~lock[m]
    /\ lock' = [lock EXCEPT ![m] = TRUE]
    /\ mux' = [mux EXCEPT ![m].pc = "send", ![m].to = children[m]]
    /\ UNCHANGED <<children, waiting, delivers, agent, inner, webConn, relay,
                   manager, submits, shutdown>>

(* skips one that does not listen to the recipient,                        *)
MuxSkip(m, k) ==
    /\ mux[m].pc = "send" /\ k \in mux[m].to
    /\ k = WS => ~lock[WS]
    /\ ~AppAgentContainsEndpoint(k, mux[m].msg)
    /\ mux' = [mux EXCEPT ![m].to = @ \ {k}]
    /\ UNCHANGED <<children, lock, waiting, delivers, agent, inner, webConn, relay,
                   manager, submits, shutdown>>

(* and waits until one that does takes the message.  A shutdown ends an    *)
(* agent, which closes its sender: a client that waits to send panics.     *)
MuxSend(m, k) ==
    /\ mux[m].pc = "send" /\ k \in mux[m].to
    /\ k = WS => (mux[m].msg = Shutdown \/ ~lock[WS])
    /\ AppAgentContainsEndpoint(k, mux[m].msg)
    /\ agent[k] = "read"
    /\ mux' = [mux EXCEPT ![m].to = @ \ {k}]
    /\ IF mux[m].msg = Shutdown /\ k # WS
       THEN /\ agent' = [agent EXCEPT ![k] = "gone"]
            /\ webConn' = [webConn EXCEPT ![k] = IF @ = "answer" THEN "panic" ELSE "closed"]
            /\ UNCHANGED inner
       ELSE /\ agent' = [agent EXCEPT ![k] = "message"]
            /\ inner' = IF k = WS THEN mux[m].msg ELSE inner
            /\ UNCHANGED webConn
    /\ UNCHANGED <<children, lock, waiting, delivers, relay, manager, submits,
                   shutdown>>

MuxDone(m) ==
    /\ mux[m].pc = "send" /\ mux[m].to = {}
    /\ mux' = [mux EXCEPT ![m].pc = IF mux[m].msg = Shutdown THEN "closed" ELSE "idle",
                          ![m].msg = Shutdown]
    /\ UNCHANGED <<children, waiting, delivers, agent, inner, webConn, relay,
                   manager, submits, shutdown>>

(* Mutant: the mutex is not released *)
MuxUnlockLate(m) == MuxDone(m) /\ UNCHANGED lock

(* At last it releases its mutex.                                          *)
MuxUnlock(m) == MuxDone(m) /\ lock' = [lock EXCEPT ![m] = FALSE]
-----------------------------------------------------------------------------
(* PingAgent.handler: ackBundle, whose answer waits to be taken.           *)
AckBundle(k) ==
    /\ k \in Pings /\ agent[k] = "message"
    /\ agent' = [agent EXCEPT ![k] = "answer"]
    /\ UNCHANGED <<children, lock, mux, waiting, delivers, inner, webConn, relay,
                   manager, submits, shutdown>>

(* webAgentClient.handleReceiver: the bundle is written, or an error ends  *)
(* it; its shutdown closes the sender.                                     *)
WriteMessage(k) ==
    /\ k \in Webs /\ agent[k] = "message"
    /\ \/ /\ webConn[k] \in {"idle", "answer"}
          /\ agent' = [agent EXCEPT ![k] = "read"]
          /\ UNCHANGED webConn
       \/ /\ agent' = [agent EXCEPT ![k] = "gone"]
          /\ webConn' = [webConn EXCEPT ![k] = IF @ = "answer" THEN "panic" ELSE "closed"]
    /\ UNCHANGED <<children, lock, mux, waiting, delivers, inner, relay, manager,
                   submits, shutdown>>

(* webAgentClient.handleConn: a bundle of the application, or its end.     *)
HandleConn(k) ==
    /\ k \in Webs /\ relay[k] # "none" /\ webConn[k] = "idle"
    /\ \/ /\ submits < MaxSubmit
          /\ submits' = submits + 1
          /\ webConn' = [webConn EXCEPT ![k] = "answer"]
       \/ /\ webConn' = [webConn EXCEPT ![k] = "closed"]
          /\ UNCHANGED submits
    /\ UNCHANGED <<children, lock, mux, waiting, delivers, agent, inner, relay,
                   manager, shutdown>>
-----------------------------------------------------------------------------
(* mux.handleChild takes a message of its child; the sender of the         *)
(* WebSocketAgent is the one of its mux.                                   *)
RelayTake(k) ==
    /\ relay[k] = "wait"
    /\ \/ /\ agent[k] = "answer"
          /\ agent' = [agent EXCEPT ![k] = "read"]
          /\ relay' = [relay EXCEPT ![k] = "pass"]
          /\ UNCHANGED webConn
       \/ /\ k # WS /\ webConn[k] = "answer"
          /\ webConn' = [webConn EXCEPT ![k] = "idle"]
          /\ relay' = [relay EXCEPT ![k] = "pass"]
          /\ UNCHANGED agent
       \/ \E w \in Webs :
             /\ k = WS /\ relay[w] = "pass" /\ mux[WS].pc # "closed"
             /\ relay' = [relay EXCEPT ![WS] = "pass", ![w] = "wait"]
             /\ UNCHANGED <<agent, webConn>>
    /\ UNCHANGED <<children, lock, mux, waiting, delivers, inner, manager, submits,
                   shutdown>>

(* A send to a closed mux.sender: the process panics.                      *)
RelayPanic(k) ==
    /\ relay[k] = "pass" /\ mux[Of(k)].pc = "closed"
    /\ relay' = [relay EXCEPT ![k] = "panic"]
    /\ UNCHANGED <<children, lock, mux, waiting, delivers, agent, inner, webConn,
                   manager, submits, shutdown>>

(* The child has closed its sender: unregister closes its receiver, which  *)
(* ends the goroutine that reads it.                                       *)
Unregister(k) ==
    /\ relay[k] = "wait" /\ ~lock[Of(k)]
    /\ IF k = WS THEN mux[WS].pc = "closed" ELSE webConn[k] \in {"closed", "panic"}
    /\ children' = [children EXCEPT ![Of(k)] = @ \ {k}]
    /\ relay' = [relay EXCEPT ![k] = "done"]
    /\ agent' = [agent EXCEPT ![k] = IF @ = "read" THEN "gone" ELSE @]
    /\ UNCHANGED <<lock, mux, waiting, delivers, inner, webConn, manager, submits,
                   shutdown>>
-----------------------------------------------------------------------------
ManagerGoes(pc, to) ==
    /\ manager' = [pc |-> pc, to |-> to]
    /\ UNCHANGED <<children, lock, mux, waiting, agent, inner, webConn, submits,
                   shutdown>>

(* AgentManager.handler takes a message.                                   *)
ManagerTake(k) ==
    /\ relay[k] = "pass" /\ Of(k) = Top
    /\ manager.pc = "idle" /\ mux[Top].pc # "closed"
    /\ ManagerGoes("submit", Shutdown)
    /\ relay' = [relay EXCEPT ![k] = "wait"]
    /\ UNCHANGED delivers

(* SendBundle, transmit and dispatching: the bundle is for this node, or   *)
(* HasEndpoint must ask the agents, and it is forwarded or deleted.        *)
ManagerSubmit ==
    /\ manager.pc = "submit"
    /\ \/ \E k \in Ends : /\ delivers[k] < MaxDeliver[k]
                          /\ delivers' = [delivers EXCEPT ![k] = @ + 1]
                          /\ ManagerGoes("local", k)
       \/ /\ EndpointsFree
          /\ ManagerGoes("idle", Shutdown)
          /\ UNCHANGED delivers
    /\ UNCHANGED relay

(* localDelivery: AgentManager.Deliver asks HasEndpoint and waits for the  *)
(* mux (MuxTakeLocal), or errs.                                            *)
ManagerDeliver ==
    /\ manager.pc = "local" /\ EndpointsFree
    /\ IF HasEndpoint(manager.to) THEN ManagerGoes("deliver", manager.to)
                                  ELSE ManagerGoes("report", Shutdown)
    /\ UNCHANGED <<relay, delivers>>

(* The rest of localDelivery, with SendStatusReport, which asks            *)
(* HasEndpoint once more.                                                  *)
ManagerReport ==
    /\ manager.pc = "report" /\ EndpointsFree
    /\ ManagerGoes("idle", Shutdown)
    /\ UNCHANGED <<relay, delivers>>

(* AgentManager.Close stops the handler.                                   *)
ManagerStop ==
    /\ shutdown /\ manager.pc = "idle"
    /\ ManagerGoes("stopped", Shutdown)
    /\ UNCHANGED <<relay, delivers>>

Manager == ManagerSubmit \/ ManagerDeliver \/ ManagerReport

Mux == \/ MuxTakeLocal \/ MuxTakeInner
       \/ \E k \in Ends : MuxTake(k)
       \/ \E m \in Muxes : \/ MuxLock(m) \/ MuxUnlock(m)
                           \/ \E k \in Kids : MuxSkip(m, k) \/ MuxSend(m, k)

Kid(k) == AckBundle(k) \/ WriteMessage(k)

Relay(k) == RelayTake(k) \/ ManagerTake(k) \/ RelayPanic(k)

ANext == \/ Mux \/ Close \/ Manager \/ ManagerStop
         \/ \E k \in Kids : Register(k) \/ Relay(k) \/ Unregister(k)
         \/ \E k \in Ends : Deliver(k) \/ Kid(k) \/ HandleConn(k)

(* The steps that come by themselves: goroutines go on.  One weak fairness *)
(* for all of them is enough, as every step is bounded.                    *)
AProgress == \/ Mux \/ Manager
             \/ \E k \in Kids : Relay(k) \/ Unregister(k)
             \/ \E k \in Ends : Kid(k)

ASpec == AInit /\ [][ANext]_avars /\ WF_avars(AProgress)
-----------------------------------------------------------------------------
(* A mux, with its mutex, waits for a child that reads no more.            *)
Orphaned ==
    \E m \in Muxes : /\ mux[m].pc = "send"
                     /\ \E k \in mux[m].to : /\ agent[k] = "gone"
                                             /\ AppAgentContainsEndpoint(k, mux[m].msg)

(* The mux waits for a child that waits for its relay, which waits for     *)
(* AgentManager.handler.  That waits for the mutex of the mux, or for the  *)
(* mux itself to take a bundle for an agent of this node.                  *)
Cycle ==
    /\ mux[Top].pc = "send" /\ manager.pc \in {"submit", "local", "deliver", "report"}
    /\ \E k \in mux[Top].to : agent[k] = "answer" /\ relay[k] = "pass"

(***************************************************************************)
(* Either mux comes back to its next message, with its mutex free for the  *)
(* others, until AgentManager is closed and except in two cases: one waits *)
(* for a WebSocket client that has ended and is not unregistered yet, or   *)
(* the bundles in both directions wait for each other.                     *)
(***************************************************************************)
MuxServes ==
    \A m \in Muxes :
        []<>(\/ mux[m].pc \in {"idle", "closed"} /\ ~lock[m]
             \/ manager.pc = "stopped"
             \/ Orphaned
             \/ Cycle)
=============================================================================
