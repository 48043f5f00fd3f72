------------------------------ MODULE Prophet ------------------------------
(***************************************************************************)
(* PRoPHET routing (pkg/routing/algorithm_prophet.go) at one node: how its *)
(* delivery predictabilities change, and how one bundle for a distant      *)
(* destination is offered to peers that are more likely to deliver it.     *)
(*                                                                         *)
(* A predictability is a number of Scale parts, rounded down.  The list of *)
(* nodes that have the bundle is kept in its store item, which             *)
(* NotifyNewBundle, SenderForBundle and each ReportFailure read, change    *)
(* and write back.  Several runs of forward may be at work on the bundle:  *)
(* the ones of the handler that received it and of the cron's CheckBundles.*)
(***************************************************************************)
EXTENDS Naturals, TLC

CONSTANTS Peers,        \* the nodes this one meets
          Destination,  \* of the bundle, never a peer itself
          Runs,         \* runs of forward that may overlap
          Scale,        \* the predictability 1
          PInit, Beta, Gamma,   \* ProphetConfig, in parts of Scale
          Summaries,    \* predictabilities that peers may report
          NoBundle      \* the bundle is not in the store

VARIABLES connected,    \* claManager.Sender
          predictabilities, peerPredictabilities,
          item,         \* the sent list of the bundle's item, or NoBundle
          expired,      \* the lifetime of the bundle is over
          fwd,          \* run -> what it does for the bundle
          got,          \* history: the peers that have the bundle
          overwrote     \* history: an item was written that had changed since
                        \* it was read

vars == <<connected, predictabilities, peerPredictabilities, item, expired, fwd,
          got, overwrote>>

Idle == [pc |-> "idle", read |-> {}, css |-> {}, failed |-> {}]

Init == /\ connected = {}
        /\ predictabilities = [n \in Peers \union {Destination} |-> 0]
        /\ peerPredictabilities = [p \in Peers |-> 0]
        /\ item = NoBundle
        /\ expired = FALSE
        /\ fwd = [r \in Runs |-> Idle]
        /\ got = {}
        /\ overwrote = FALSE
-----------------------------------------------------------------------------
(* p + (1 - p) * q, for encounter and transitivity.                        *)
Raise(p, q) == p + ((Scale - p) * q) \div Scale

(* ReportPeerAppeared, for every CLA of the peer: encounter.  The summary  *)
(* it sends is a bundle for the peer's own node and goes the way of any    *)
(* bundle (module Processing).                                             *)
ReportPeerAppeared(p) ==
    /\ connected' = connected \union {p}
    /\ predictabilities' = [predictabilities EXCEPT ![p] = Raise(@, PInit)]
    /\ UNCHANGED <<peerPredictabilities, item, expired, fwd, got, overwrote>>

(* The last CLA of the peer is gone, of which ReportPeerDisappeared makes  *)
(* nothing.                                                                *)
ReportPeerDisappeared(p) ==
    /\ p \in connected
    /\ connected' = connected \ {p}
    /\ UNCHANGED <<predictabilities, peerPredictabilities, item, expired, fwd, got,
                   overwrote>>

(* NotifyNewBundle for a peer's summary, of which only the predictability  *)
(* of the destination is told; it replaces the one before, and             *)
(* transitivity raises the own one.                                        *)
NotifyMetadata(p, q) ==
    /\ peerPredictabilities' = [peerPredictabilities EXCEPT ![p] = q]
    /\ predictabilities' = [predictabilities EXCEPT ![Destination] =
           Raise(@, (predictabilities[p] * q * Beta) \div (Scale * Scale))]
    /\ UNCHANGED <<connected, item, expired, fwd, got, overwrote>>

(* ageCron.                                                                *)
AgeCron ==
    /\ predictabilities' = [n \in DOMAIN predictabilities |->
                               (predictabilities[n] * Gamma) \div Scale]
    /\ UNCHANGED <<connected, peerPredictabilities, item, expired, fwd, got,
                   overwrote>>
-----------------------------------------------------------------------------
(* NotifyNewBundle for the bundle: received from peer p, or from an agent  *)
(* of this node, which no PreviousNodeBlock tells.                         *)
NotifyNewBundle(prev) ==
    /\ item = NoBundle /\ ~expired
    /\ item' = prev
    /\ got' = got \union prev
    /\ UNCHANGED <<connected, predictabilities, peerPredictabilities, expired, fwd,
                   overwrote>>

(* The bundle comes once more, from peer p.  receive returns before        *)
(* NotifyNewBundle if the descriptor has constraints, and p is not listed; *)
(* it has none if it was read before the first reception stored them.      *)
ReceiveAgain(p) ==
    /\ item # NoBundle
    /\ item' \in {item, item \union {p}}
    /\ got' = got \union {p}
    /\ UNCHANGED <<connected, predictabilities, peerPredictabilities, expired, fwd,
                   overwrote>>

(* SenderForBundle reads the item and compares the predictabilities of    *)
(* those who are connected and not listed.  It takes no lock for that, and *)
(* what changes between two comparisons may as well change before them.    *)
SenderRead(r) ==
    /\ item # NoBundle /\ fwd[r].pc = "idle"
    /\ LET better == {p \in connected :
                         peerPredictabilities[p] > predictabilities[Destination]}
       IN  fwd' = [fwd EXCEPT ![r] = [Idle EXCEPT !.pc = "write", !.read = item,
                                                 !.css = better \ item]]
    /\ UNCHANGED <<connected, predictabilities, peerPredictabilities, item, expired,
                   got, overwrote>>

(* Store.Update, which fails if the item is gone.                          *)
Update(read, write) ==
    /\ item' = IF item = NoBundle THEN NoBundle ELSE write
    /\ overwrote' = (overwrote \/ item # read)

(* It writes the item back if it has found somebody.                       *)
SenderWrite(r) ==
    /\ fwd[r].pc = "write"
    /\ fwd' = [fwd EXCEPT ![r].pc = "send", ![r].read = {}]
    /\ IF fwd[r].css = {} THEN UNCHANGED <<item, overwrote>>
                          ELSE Update(fwd[r].read, fwd[r].read \union fwd[r].css)
    /\ UNCHANGED <<connected, predictabilities, peerPredictabilities, expired, got>>

SendOk(r, p) ==
    /\ fwd[r].pc = "send" /\ p \in fwd[r].css
    /\ fwd' = [fwd EXCEPT ![r].css = @ \ {p}]
    /\ got' = got \union {p}
    /\ UNCHANGED <<connected, predictabilities, peerPredictabilities, item, expired,
                   overwrote>>

(* Send errs, although the bundle may have arrived, and ReportFailure      *)
(* reads the item, if there is one.                                        *)
SendFail(r, p) ==
    /\ fwd[r].pc = "send" /\ p \in fwd[r].css
    /\ fwd' = [fwd EXCEPT
                  ![r].css = @ \ {p},
                  ![r].failed = @ \union (IF item = NoBundle THEN {}
                                          ELSE {[peer |-> p, read |-> item]})]
    /\ got' \in {got, got \union {p}}
    /\ UNCHANGED <<connected, predictabilities, peerPredictabilities, item, expired,
                   overwrote>>

(* Mutant: the failed peer stays in the sent list *)
ReportNothing(r) ==
    \E f \in fwd[r].failed :
        /\ fwd' = [fwd EXCEPT ![r].failed = @ \ {f}]
        /\ UNCHANGED <<connected, predictabilities, peerPredictabilities, item,
                       expired, got, overwrote>>

ReportFailure(r) ==
    \E f \in fwd[r].failed :
        /\ fwd' = [fwd EXCEPT ![r].failed = @ \ {f}]
        /\ Update(f.read, f.read \ {f.peer})
        /\ UNCHANGED <<connected, predictabilities, peerPredictabilities, expired, got>>

(* forward ends: the bundle stays in the store for the next attempt.       *)
ForwardEnd(r) ==
    /\ fwd[r].pc = "send" /\ fwd[r].css = {} /\ fwd[r].failed = {}
    /\ fwd' = [fwd EXCEPT ![r] = Idle]
    /\ UNCHANGED <<connected, predictabilities, peerPredictabilities, item, expired,
                   got, overwrote>>

(* clean_store, at any time: the lifetime of the bundle is over.  If it is *)
(* received again, forward deletes it before it asks for senders.          *)
Expire ==
    /\ item # NoBundle
    /\ item' = NoBundle /\ expired' = TRUE
    /\ UNCHANGED <<connected, predictabilities, peerPredictabilities, fwd, got,
                   overwrote>>

Next == \/ \E p \in Peers :
             \/ ReportPeerAppeared(p) \/ ReportPeerDisappeared(p)
             \/ NotifyNewBundle({p}) \/ ReceiveAgain(p)
        \/ \E p \in Peers, q \in Summaries : NotifyMetadata(p, q)
        \/ NotifyNewBundle({})
        \/ AgeCron \/ Expire
        \/ \E r \in Runs : \/ SenderRead(r) \/ SenderWrite(r)
                           \/ ReportFailure(r) \/ ForwardEnd(r)
                           \/ \E p \in Peers : SendOk(r, p) \/ SendFail(r, p)

Spec == Init /\ [][Next]_vars
-----------------------------------------------------------------------------
(* The peers whose transmission in a run is not over yet, or has failed    *)
(* and is not reported yet.                                                *)
Underway(r) ==
    IF fwd[r].pc = "send" THEN fwd[r].css \union {f.peer : f \in fwd[r].failed} ELSE {}

(***************************************************************************)
(* Nobody is left out: a peer in the sent list, which no later run offers  *)
(* the bundle to, has the bundle, or a transmission to it is under way.    *)
(* This holds whatever the predictabilities do and however often the       *)
(* bundle comes back, its transmissions fail and runs of forward overlap,  *)
(* as long as no item is written that has changed since it was read.       *)
(***************************************************************************)
SentIsTrue ==
    item # NoBundle /\ ~overwrote =>
        \A p \in item : p \in got \/ \E r \in Runs : p \in Underway(r)
=============================================================================
