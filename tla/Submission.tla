----------------------------- MODULE Submission -----------------------------
(***************************************************************************)
(* How a submitted bundle gets its sequence number and its place in the    *)
(* store: routing/id_keeper.go and Core.SendBundle and transmit of         *)
(* routing/processing.go.  Agents' bundles come through AgentManager, the  *)
(* node's own status reports from every goroutine that processes bundles;  *)
(* all builders leave the sequence number 0.                               *)
(*                                                                         *)
(* All bundles here have the same source node.  Time is counted in units   *)
(* of Window, the 60*60*24 milliseconds of IdKeeper.clean; 0 is the DTN    *)
(* epoch, the creation time of a node without a clock.                     *)
(***************************************************************************)
EXTENDS Naturals

CONSTANTS Bundle,   \* bundles to be submitted
          Window,   \* clean's threshold
          Late,     \* bound: bundles are submitted long after their creation
          MaxTime   \* bound of the clock

ASSUME TimeAssumption == Window \in Nat /\ MaxTime \in Nat \ {0}
ASSUME LateAssumption == Late \in BOOLEAN

VARIABLES now,     \* DtnTimeNow
          data,    \* IdKeeper.data: the creation times that have a state,
          state,   \* ... and the state
          b,       \* bundle -> where SendBundle is, its creation time and
                   \* sequence number
          marked,  \* the bundles whose descriptor has constraints
          store    \* the store: IDs, the bundles stored under them, and
                   \* whether constraints were stored with them

vars == <<now, data, state, b, marked, store>>

Time == 0..MaxTime
Pc == {"new", "load", "push", "update", "clean", "sync", "transmit", "settled"}

At(x, pc) == b[x].pc = pc

Epoch == 0

(* An agent builds a bundle, with the current time, the epoch or, if Late, *)
(* any earlier time, and calls SendBundle.                                 *)
Build(x, t) ==
    /\ At(x, "new") /\ (Late \/ t \in {Epoch, now})
    /\ b' = [b EXCEPT ![x] = [pc |-> "load", time |-> t, seq |-> 0]]
    /\ UNCHANGED <<now, data, state, marked, store>>

(* BundleDescriptor.Id: what the bundle is looked up by, taken before its  *)
(* sequence number is set; and the ID the bundle is pushed under.          *)
Id(x) == <<b[x].time, 0>>
BundleId(x) == <<b[x].time, b[x].seq>>

Items(id) == {e \in store : e.id = id}

(* The store after Sync.  An unknown bundle is pushed, unless its own ID   *)
(* is known; the item of a known one is deleted if the descriptor has no   *)
(* constraints, and else gets them.                                        *)
Synced(x, hasConstraints) ==
    CASE Items(Id(x)) = {} ->
            IF Items(BundleId(x)) # {} THEN store
            ELSE store \cup {[id |-> BundleId(x), bundle |-> x, constraints |-> FALSE]}
      [] Items(Id(x)) # {} /\ ~hasConstraints -> store \ Items(Id(x))
      [] OTHER -> (store \ Items(Id(x))) \cup {[e EXCEPT !.constraints = TRUE] : e \in Items(Id(x))}

(* NewBundleDescriptor has the constraints stored under the bundle's ID,   *)
(* and NewBundleDescriptorFromBundle calls Sync.                           *)
NewBundleDescriptor(x) ==
    /\ At(x, "load")
    /\ b' = [b EXCEPT ![x].pc = "push"]
    /\ marked' = IF \E e \in Items(Id(x)) : e.constraints THEN marked \cup {x} ELSE marked
    /\ UNCHANGED <<now, data, state, store>>

SendBundle(x) ==
    /\ At(x, "push")
    /\ b' = [b EXCEPT ![x].pc = "update"]
    /\ store' = Synced(x, x \in marked)
    /\ UNCHANGED <<now, data, state, marked>>

(* IdKeeper.update, under its mutex.  Unless Late, a bundle is submitted   *)
(* within Window.                                                          *)
update(x) ==
    LET t == b[x].time
    IN  /\ At(x, "update") /\ (Late \/ t = Epoch \/ t + Window >= now)
        /\ data' = data \cup {t}
        /\ state' = [state EXCEPT ![t] = IF t \in data THEN state[t] + 1 ELSE 0]
        /\ b' = [b EXCEPT ![x].pc = "clean", ![x].seq = state'[t]]
        /\ UNCHANGED <<now, marked, store>>

(* Mutant: the epoch is no exception *)
cleanEpoch(x) ==
    LET old == {t \in data : t + Window < now}
    IN  /\ At(x, "clean")
        /\ data' = data \ old
        /\ b' = [b EXCEPT ![x].pc = "sync"]
        /\ UNCHANGED <<now, state, marked, store>>

(* IdKeeper.clean, under its mutex again *)
clean(x) ==
    LET old == {t \in data : t + Window < now /\ t # Epoch}
    IN  /\ At(x, "clean")
        /\ data' = data \ old
        /\ b' = [b EXCEPT ![x].pc = "sync"]
        /\ UNCHANGED <<now, state, marked, store>>

(* Mutant: the descriptor is not synchronized again *)
transmitUnsynced(x) ==
    /\ At(x, "sync")
    /\ b' = [b EXCEPT ![x].pc = "transmit"]
    /\ UNCHANGED <<now, data, state, marked, store>>

(* transmit adds DispatchPending and calls Sync *)
transmit(x) ==
    /\ At(x, "sync")
    /\ b' = [b EXCEPT ![x].pc = "transmit"]
    /\ store' = Synced(x, TRUE)
    /\ UNCHANGED <<now, data, state, marked>>

(* The bundle was delivered or has expired, and Sync deletes its item *)
Settle(x) ==
    /\ At(x, "transmit")
    /\ b' = [b EXCEPT ![x].pc = "settled"]
    /\ store' = store \ Items(Id(x))
    /\ UNCHANGED <<now, data, state, marked>>

Tick ==
    /\ now < MaxTime
    /\ now' = now + 1
    /\ UNCHANGED <<data, state, b, marked, store>>

-----------------------------------------------------------------------------
Init ==
    /\ now = 1
    /\ data = {}
    /\ state = [t \in Time |-> 0]
    /\ b = [x \in Bundle |-> [pc |-> "new", time |-> 0, seq |-> 0]]
    /\ marked = {} /\ store = {}

Next == \/ \E x \in Bundle : \/ \E t \in 0..now : Build(x, t)
                             \/ NewBundleDescriptor(x) \/ SendBundle(x)
                             \/ update(x) \/ clean(x) \/ transmit(x) \/ Settle(x)
        \/ Tick

Spec == Init /\ [][Next]_vars

-----------------------------------------------------------------------------
(* Properties *)

TypeOK ==
    /\ now \in Time
    /\ data \subseteq Time
    /\ state \in [Time -> Nat]
    /\ b \in [Bundle -> [pc: Pc, time: Time, seq: Nat]]
    /\ marked \subseteq Bundle
    /\ store \subseteq [id: Time \X Nat, bundle: Bundle, constraints: BOOLEAN]

Numbered(x) == b[x].pc \in {"clean", "sync", "transmit", "settled"}

(* The creation timestamp and sequence number tell the bundles of a node   *)
(* apart: no two that left it have both in common, whatever the order in   *)
(* which goroutines submit them and clean forgets states.                  *)
UniqueIds ==
    \A x, y \in Bundle :
        Numbered(x) /\ Numbered(y) /\ b[x].time = b[y].time /\ b[x].seq = b[y].seq => x = y

(* The submitted bundles with a creation time; before update they have one *)
(* ID, and the descriptors keep it.                                        *)
Sharing(t) == {x \in Bundle : ~At(x, "new") /\ b[x].time = t}

(* One of the bundles that share their creation time is in the store once  *)
(* all of them are on their way and none is settled, the one bundle itself *)
(* if it shares it with none: whatever the order of their Syncs, in which  *)
(* one deletes or takes over the item of another, they never leave the     *)
(* node without any.                                                       *)
OneIsStored ==
    \A t \in Time :
        Sharing(t) # {} /\ (\A x \in Sharing(t) : At(x, "transmit"))
            => \E e \in store : e.bundle \in Sharing(t)
=============================================================================
