--------------------------- MODULE AdapterProofs ---------------------------
(***************************************************************************)
(* Four parts at the edge of a node, each for all of its constants:        *)
(* IdKeeper gives a node's bundles different IDs, and one that shares its  *)
(* creation time stays stored; the REST agent's mailboxes keep bundles; an *)
(* MTCP server finds the bundles in the stream that Sends and keepalives   *)
(* share; and a node that hears all of a broadcast bundle passes it on.    *)
(***************************************************************************)
EXTENDS Submission, RestAgent, Mtcp, Broadcast, SequenceTheorems,
        FiniteSetTheorems, TLAPS

(* A number that was given out is not above the state, and a state that    *)
(* was removed is of a time no bundle is submitted for any more.           *)
Kept ==
    \A x \in Bundle : Numbered(x) =>
        IF b[x].time \in data THEN b[x].seq <= state[b[x].time]
        ELSE b[x].time # Epoch /\ b[x].time + Window < now

Types ==
    /\ now \in Time
    /\ data \subseteq Time
    /\ state \in [Time -> Nat]
    /\ b \in [Bundle -> [pc: Pc, time: Time, seq: Nat]]

IndInv == Types /\ Kept /\ UniqueIds

(* IdKeeper.update gives a bundle a number no bundle of its time has *)
LEMMA Numbering ==
    ASSUME Late = FALSE, IndInv, NEW x \in Bundle, update(x)
    PROVE  IndInv'
<1>. DEFINE t == b[x].time
            s == IF t \in data THEN state[t] + 1 ELSE 0
<1>1. /\ x \in Bundle /\ t \in Time /\ t \in Nat /\ Window \in Nat /\ now \in Nat
      /\ (t = Epoch \/ t + Window >= now)
      /\ b[x].pc = "update" /\ ~Numbered(x)
  BY TimeAssumption DEF IndInv, Types, update, At, Time, Numbered
<1>2. /\ now' = now /\ data' = data \cup {t} /\ state' = [state EXCEPT ![t] = s]
      /\ b' = [b EXCEPT ![x].pc = "clean", ![x].seq = state'[t]]
  BY DEF update
<1>3. s \in Nat /\ state'[t] = s /\ \A u \in Time : u # t => state'[u] = state[u]
  BY <1>1, <1>2 DEF IndInv, Types
<1>4. /\ b'[x].pc = "clean" /\ b'[x].time = t /\ b'[x].seq = s
      /\ \A y \in Bundle : y # x => b'[y] = b[y]
  BY <1>1, <1>2, <1>3 DEF IndInv, Types
<1>6. ASSUME NEW y \in Bundle, y # x, Numbered(y), b[y].time = t
      PROVE  b[y].seq < s /\ t \in data /\ b[y].seq \in Nat
  <2>1. IF t \in data THEN b[y].seq <= state[t] ELSE t # Epoch /\ t + Window < now
    BY <1>6 DEF IndInv, Kept
  <2>2. b[y].seq \in Nat /\ state[t] \in Nat
    BY <1>1 DEF IndInv, Types
  <2>3. t \in data
    BY <1>1, <2>1
  <2>. QED  BY <2>1, <2>2, <2>3
<1>7. \A y \in Bundle : y # x => (Numbered(y)' <=> Numbered(y))
  BY <1>4 DEF Numbered
<1>. HIDE DEF s, t
<1>5. Types'
  <2>1. state' \in [Time -> Nat]
    BY <1>1, <1>2, <1>3 DEF IndInv, Types
  <2>2. b' \in [Bundle -> [pc: Pc, time: Time, seq: Nat]]
    <3>1. b' = [b EXCEPT ![x] = [b[x] EXCEPT !.pc = "clean", !.seq = s]]
      BY <1>2, <1>3
    <3>2. [b[x] EXCEPT !.pc = "clean", !.seq = s] \in [pc: Pc, time: Time, seq: Nat]
      BY <1>3 DEF IndInv, Types, Pc
    <3>. QED  BY <3>1, <3>2 DEF IndInv, Types
  <2>. QED  BY <1>1, <1>2, <2>1, <2>2 DEF IndInv, Types
<1>8. Kept'
  <2>. SUFFICES ASSUME NEW y \in Bundle, Numbered(y)'
                PROVE  IF b'[y].time \in data' THEN b'[y].seq <= state'[b'[y].time]
                       ELSE b'[y].time # Epoch /\ b'[y].time + Window < now'
    BY DEF Kept
  <2>1. CASE y = x
    BY <1>2, <1>3, <1>4, <2>1
  <2>2. CASE y # x /\ b[y].time = t
    <3>1. b'[y] = b[y] /\ Numbered(y)
      BY <1>4, <1>7, <2>2
    <3>2. b[y].seq < s /\ b[y].seq \in Nat
      BY <1>6, <2>2, <3>1
    <3>. QED  BY <1>2, <1>3, <2>2, <3>1, <3>2
  <2>3. CASE y # x /\ b[y].time # t
    <3>1. b'[y] = b[y] /\ Numbered(y) /\ b[y].time \in Time
      BY <1>4, <1>7, <2>3 DEF IndInv, Types
    <3>2. state'[b[y].time] = state[b[y].time] /\ (b[y].time \in data' <=> b[y].time \in data)
      BY <1>2, <1>3, <2>3, <3>1
    <3>. QED  BY <1>2, <3>1, <3>2 DEF IndInv, Kept
  <2>. QED  BY <2>1, <2>2, <2>3
<1>9. UniqueIds'
  <2>. SUFFICES ASSUME NEW y \in Bundle, NEW z \in Bundle, Numbered(y)', Numbered(z)',
                       b'[y].time = b'[z].time, b'[y].seq = b'[z].seq
                PROVE  y = z
    BY DEF UniqueIds
  <2>1. CASE y # x /\ z # x
    BY <1>4, <1>7, <2>1 DEF IndInv, UniqueIds
  <2>2. CASE y = x /\ z # x
    BY <1>3, <1>4, <1>6, <1>7, <2>2
  <2>3. CASE z = x /\ y # x
    BY <1>3, <1>4, <1>6, <1>7, <2>3
  <2>. QED  BY <2>1, <2>2, <2>3
<1>. QED  BY <1>5, <1>8, <1>9 DEF IndInv

(* IdKeeper.clean removes only states that are not needed any more *)
LEMMA Cleaning ==
    ASSUME IndInv, NEW x \in Bundle, clean(x)
    PROVE  IndInv'
<1>1. /\ b' = [b EXCEPT ![x].pc = "sync"] /\ b[x].pc = "clean"
      /\ data' = data \ {t \in data : t + Window < now /\ t # Epoch}
      /\ UNCHANGED <<now, state>>
  BY DEF clean, At
<1>2. \A y \in Bundle : b'[y].time = b[y].time /\ b'[y].seq = b[y].seq
                        /\ (Numbered(y)' <=> Numbered(y))
  BY <1>1 DEF Numbered, IndInv, Types
<1>3. Types'
  BY <1>1 DEF IndInv, Types, Pc
<1>4. Kept'
  BY <1>1, <1>2 DEF IndInv, Kept
<1>5. UniqueIds'
  BY <1>2 DEF IndInv, UniqueIds
<1>. QED  BY <1>3, <1>4, <1>5 DEF IndInv

(* A bundle goes on to the next step of its submission *)
LEMMA Moves ==
    ASSUME Types, NEW x \in Bundle, NEW p \in Pc, b' = [b EXCEPT ![x].pc = p]
    PROVE  /\ b' \in [Bundle -> [pc: Pc, time: Time, seq: Nat]]
           /\ b'[x].pc = p /\ b'[x].time = b[x].time /\ b'[x].seq = b[x].seq
           /\ \A y \in Bundle : y # x => b'[y] = b[y]
  BY DEF Types

LEMMA Moving ==
    ASSUME Types, NEW x \in Bundle,
           NewBundleDescriptor(x) \/ SendBundle(x) \/ clean(x) \/ transmit(x) \/ Settle(x)
    PROVE  /\ b' \in [Bundle -> [pc: Pc, time: Time, seq: Nat]]
           /\ b'[x].time = b[x].time /\ b'[x].seq = b[x].seq
           /\ \A y \in Bundle : y # x => b'[y] = b[y]
           /\ now' = now /\ state' = state /\ data' \subseteq data
           /\ ~clean(x) => data' = data
           /\ NewBundleDescriptor(x) => b'[x].pc = "push"
           /\ SendBundle(x) => b'[x].pc = "update"
           /\ clean(x) => b'[x].pc = "sync"
           /\ transmit(x) => b'[x].pc = "transmit"
           /\ Settle(x) => b'[x].pc = "settled"
<1>1. PICK p \in Pc : /\ b' = [b EXCEPT ![x].pc = p]
                      /\ NewBundleDescriptor(x) => p = "push"
                      /\ SendBundle(x) => p = "update"
                      /\ clean(x) => p = "sync"
                      /\ transmit(x) => p = "transmit"
                      /\ Settle(x) => p = "settled"
  <2>1. CASE NewBundleDescriptor(x)
    BY <2>1 DEF NewBundleDescriptor, SendBundle, clean, transmit, Settle, At, Pc
  <2>2. CASE SendBundle(x)
    BY <2>2 DEF NewBundleDescriptor, SendBundle, clean, transmit, Settle, At, Pc
  <2>3. CASE clean(x)
    BY <2>3 DEF NewBundleDescriptor, SendBundle, clean, transmit, Settle, At, Pc
  <2>4. CASE transmit(x)
    BY <2>4 DEF NewBundleDescriptor, SendBundle, clean, transmit, Settle, At, Pc
  <2>5. CASE Settle(x)
    BY <2>5 DEF NewBundleDescriptor, SendBundle, clean, transmit, Settle, At, Pc
  <2>. QED  BY <2>1, <2>2, <2>3, <2>4, <2>5
<1>2. /\ b' \in [Bundle -> [pc: Pc, time: Time, seq: Nat]]
      /\ b'[x].pc = p /\ b'[x].time = b[x].time /\ b'[x].seq = b[x].seq
      /\ \A y \in Bundle : y # x => b'[y] = b[y]
  BY <1>1, Moves
<1>3. now' = now /\ state' = state /\ data' \subseteq data /\ (~clean(x) => data' = data)
  BY DEF NewBundleDescriptor, SendBundle, clean, transmit, Settle
<1>. QED  BY <1>1, <1>2, <1>3

(* No other step numbers a bundle or removes a state *)
LEMMA Others ==
    ASSUME IndInv,
           \/ \E x \in Bundle : \/ \E t \in 0..now : Build(x, t)
                              \/ NewBundleDescriptor(x) \/ SendBundle(x) \/ transmit(x) \/ Settle(x)
           \/ Tick
           \/ UNCHANGED vars
    PROVE  IndInv'
<1>1. /\ data' = data /\ state' = state /\ now' \in Time /\ now <= now'
  <2>1. now \in Nat /\ now \in Time
    BY DEF IndInv, Types, Time
  <2>2. ASSUME NEW x \in Bundle, NewBundleDescriptor(x) \/ SendBundle(x) \/ transmit(x) \/ Settle(x)
        PROVE  now' = now /\ state' = state /\ data' = data
    BY <2>2 DEF NewBundleDescriptor, SendBundle, transmit, Settle
  <2>. QED  BY <2>1, <2>2, TimeAssumption DEF Build, Tick, vars, Time
<1>2. b' \in [Bundle -> [pc: Pc, time: Time, seq: Nat]]
  <2>1. ASSUME NEW x \in Bundle, NEW t \in 0..now, Build(x, t)
        PROVE  b' \in [Bundle -> [pc: Pc, time: Time, seq: Nat]]
    <3>1. t \in Time
      BY TimeAssumption DEF IndInv, Types, Time
    <3>. QED  BY <2>1, <3>1 DEF IndInv, Types, Build, Pc
  <2>2. ASSUME NEW x \in Bundle, NewBundleDescriptor(x) \/ SendBundle(x) \/ transmit(x) \/ Settle(x)
        PROVE  b' \in [Bundle -> [pc: Pc, time: Time, seq: Nat]]
    BY <2>2, Moving DEF IndInv
  <2>. QED  BY <2>1, <2>2 DEF IndInv, Types, Tick, vars
<1>3. ASSUME NEW y \in Bundle, Numbered(y)'
      PROVE  Numbered(y) /\ b'[y].time = b[y].time /\ b'[y].seq = b[y].seq
  <2>1. ASSUME NEW x \in Bundle, (\E t \in 0..now : Build(x, t)) \/ NewBundleDescriptor(x) \/ SendBundle(x)
        PROVE  y # x /\ b'[y] = b[y]
    <3>1. CASE \E t \in 0..now : Build(x, t)
      BY <1>3, <3>1 DEF IndInv, Types, Build, Numbered
    <3>2. CASE NewBundleDescriptor(x) \/ SendBundle(x)
      BY <1>3, <3>2, Moving DEF IndInv, Numbered
    <3>. QED  BY <2>1, <3>1, <3>2
  <2>2. ASSUME NEW x \in Bundle, transmit(x) \/ Settle(x)
        PROVE  Numbered(y) /\ b'[y].time = b[y].time /\ b'[y].seq = b[y].seq
    <3>1. b[x].pc \in {"sync", "transmit"}
      BY <2>2 DEF transmit, Settle, At
    <3>. QED  BY <1>3, <2>2, <3>1, Moving DEF IndInv, Numbered
  <2>. QED  BY <1>3, <2>1, <2>2 DEF Tick, vars, Numbered
<1>4. Types'
  BY <1>1, <1>2 DEF IndInv, Types
<1>5. Kept'
  <2>. SUFFICES ASSUME NEW y \in Bundle, Numbered(y)'
                PROVE  IF b'[y].time \in data' THEN b'[y].seq <= state'[b'[y].time]
                       ELSE b'[y].time # Epoch /\ b'[y].time + Window < now'
    BY DEF Kept
  <2>1. /\ Numbered(y) /\ b'[y].time = b[y].time /\ b'[y].seq = b[y].seq
        /\ b[y].time \in Nat /\ now \in Nat /\ Window \in Nat
    BY <1>3, TimeAssumption DEF IndInv, Types, Time
  <2>2. now' \in Nat /\ now <= now'
    BY <1>1 DEF Time
  <2>. QED  BY <1>1, <2>1, <2>2 DEF IndInv, Kept
<1>6. UniqueIds'
  BY <1>3 DEF IndInv, UniqueIds
<1>. QED  BY <1>4, <1>5, <1>6 DEF IndInv

(* IdKeeper tells the bundles of a node apart: as long as no bundle is     *)
(* submitted later than Window after its creation time, no two bundles     *)
(* leave with the same creation timestamp and sequence number.             *)
THEOREM Uniqueness ==
    ASSUME Late = FALSE
    PROVE  Spec => []UniqueIds
<1>1. Init => IndInv
  BY TimeAssumption DEF Init, IndInv, Types, Kept, UniqueIds, Numbered, Time, Pc
<1>2. IndInv /\ [Next]_vars => IndInv'
  BY Numbering, Cleaning, Others DEF Next
<1>3. IndInv => UniqueIds
  BY DEF IndInv
<1>. QED  BY <1>1, <1>2, <1>3, PTL DEF Spec

-----------------------------------------------------------------------------
(* What is stored is a submitted bundle, under its own creation time.      *)
Item == [id: Time \X Nat, bundle: Bundle, constraints: BOOLEAN]

Placed ==
    \A e \in store : e \in Item /\ ~At(e.bundle, "new") /\ e.id[1] = b[e.bundle].time

PlaceInv == Types /\ Placed /\ OneIsStored

(* A step that takes no bundle into or out of its way, and leaves the      *)
(* store alone, or keeps what is in it of the creation times of which all  *)
(* bundles are on their way.                                               *)
LEMMA PlaceFrame ==
    ASSUME PlaceInv, NEW x \in Bundle, Types', Placed',
           \A y \in Bundle : y # x => b'[y] = b[y],
           b[x].pc # "new" => b'[x].time = b[x].time,
           b'[x].pc \notin {"new", "transmit"},
           \A e \in store : e.id[1] # b'[x].time => e \in store'
    PROVE  PlaceInv'
<1>. SUFFICES ASSUME NEW t \in Time, Sharing(t)' # {}, \A y \in Sharing(t)' : At(y, "transmit")'
              PROVE  \E e \in store' : e.bundle \in Sharing(t)'
  BY DEF PlaceInv, OneIsStored
<1>1. x \notin Sharing(t)' /\ b'[x].time # t
  BY DEF At, Sharing
<1>2. x \notin Sharing(t)
  BY <1>1 DEF Sharing, At
<1>3. Sharing(t)' = Sharing(t) /\ \A y \in Sharing(t) : At(y, "transmit")
  BY <1>1, <1>2 DEF Sharing, At
<1>4. PICK e \in store : e.bundle \in Sharing(t)
  BY <1>3 DEF PlaceInv, OneIsStored
<1>5. e.id[1] = t
  BY <1>4 DEF PlaceInv, Placed, Sharing
<1>. QED  BY <1>1, <1>3, <1>4, <1>5

(* Sync keeps the items of other creation times, adds none but the         *)
(* bundle's own, and with constraints leaves one of its creation time.     *)
LEMMA Syncing ==
    ASSUME PlaceInv, NEW x \in Bundle, ~At(x, "new"), NEW c, NEW st, st = Synced(x, c)
    PROVE  /\ \A e \in st : e \in Item /\ ~At(e.bundle, "new") /\ e.id[1] = b[e.bundle].time
           /\ \A e \in store : e.id[1] # b[x].time => e \in st
           /\ c => \E e \in st : e.id[1] = b[x].time
<1>1. Id(x)[1] = b[x].time /\ BundleId(x)[1] = b[x].time
  BY DEF Id, BundleId
<1>2. \A id : \A e \in Items(id) : e \in store /\ e.id = id
  BY DEF Items
<1>3. CASE Items(Id(x)) = {} /\ Items(BundleId(x)) # {}
  <2>1. st = store
    BY <1>3 DEF Synced
  <2>. QED  BY <1>1, <1>2, <1>3, <2>1 DEF PlaceInv, Placed
<1>4. CASE Items(Id(x)) = {} /\ Items(BundleId(x)) = {}
  <2>1. PICK n : n = [id |-> BundleId(x), bundle |-> x, constraints |-> FALSE]
    OBVIOUS
  <2>2. n.id = BundleId(x) /\ n.bundle = x /\ n \in Item
    BY <2>1 DEF Item, BundleId, PlaceInv, Types
  <2>3. st = store \cup {n}
    BY <1>4, <2>1 DEF Synced
  <2>. QED  BY <1>1, <2>2, <2>3 DEF PlaceInv, Placed
<1>5. CASE Items(Id(x)) # {} /\ ~c
  <2>1. st = store \ Items(Id(x))
    BY <1>5 DEF Synced
  <2>. QED  BY <1>1, <1>2, <1>5, <2>1 DEF PlaceInv, Placed
<1>6. CASE Items(Id(x)) # {} /\ c
  <2>1. PICK m : m = {[e EXCEPT !.constraints = TRUE] : e \in Items(Id(x))}
    OBVIOUS
  <2>2. st = (store \ Items(Id(x))) \cup m
    BY <1>6, <2>1 DEF Synced
  <2>3. /\ \A d \in m : \E e \in Items(Id(x)) : d = [e EXCEPT !.constraints = TRUE]
        /\ \A e \in Items(Id(x)) : [e EXCEPT !.constraints = TRUE] \in m
    BY <2>1
  <2>4. ASSUME NEW e \in Item, NEW d, d = [e EXCEPT !.constraints = TRUE]
        PROVE  d \in Item /\ d.id = e.id /\ d.bundle = e.bundle
    BY <2>4 DEF Item
  <2>5. /\ \A d \in m : d \in Item /\ \E e \in store : d.id = e.id /\ d.bundle = e.bundle
        /\ \E d \in m : d.id = Id(x)
    <3>1. \A e \in Items(Id(x)) : e \in Item
      BY <1>2 DEF PlaceInv, Placed
    <3>2. ASSUME NEW d \in m
          PROVE  d \in Item /\ \E e \in Items(Id(x)) : d.id = e.id /\ d.bundle = e.bundle
      <4>1. PICK e \in Items(Id(x)) : d = [e EXCEPT !.constraints = TRUE]
        BY <2>3
      <4>. QED  BY <2>4, <3>1, <4>1
    <3>3. m # {}
      BY <1>6, <2>3
    <3>. QED  BY <1>2, <3>2, <3>3
  <2>6. \A e \in st : e \in Item /\ ~At(e.bundle, "new") /\ e.id[1] = b[e.bundle].time
    BY <2>2, <2>5 DEF PlaceInv, Placed
  <2>. QED  BY <1>1, <1>2, <2>2, <2>5, <2>6
<1>. QED  BY <1>3, <1>4, <1>5, <1>6

(* A new bundle, the load of its constraints and its numbering leave the   *)
(* store alone.                                                            *)
LEMMA Stepping ==
    ASSUME PlaceInv, NEW x \in Bundle, Types',
           (\E t \in 0..now : Build(x, t)) \/ NewBundleDescriptor(x) \/ update(x) \/ clean(x)
    PROVE  PlaceInv'
<1>1. /\ store' = store /\ b'[x].pc \notin {"new", "transmit"}
      /\ \A y \in Bundle : y # x => b'[y] = b[y]
      /\ b[x].pc # "new" => b'[x].time = b[x].time
  <2>1. CASE \E t \in 0..now : Build(x, t)
    BY <2>1 DEF Build, At, PlaceInv, Types
  <2>2. CASE NewBundleDescriptor(x) \/ clean(x)
    BY <2>2, Moving DEF NewBundleDescriptor, clean, At, PlaceInv
  <2>3. CASE update(x)
    BY <2>3 DEF update, At, PlaceInv, Types
  <2>. QED  BY <2>1, <2>2, <2>3
<1>2. Placed'
  BY <1>1 DEF PlaceInv, Placed, At, Item
<1>. QED  BY <1>1, <1>2, PlaceFrame

(* Core.SendBundle may delete an item: then its bundle is not yet on its   *)
(* way.                                                                    *)
LEMMA Pushing ==
    ASSUME PlaceInv, NEW x \in Bundle, SendBundle(x), Types'
    PROVE  PlaceInv'
<1>1. /\ b[x].pc = "push" /\ b'[x].pc = "update" /\ b'[x].time = b[x].time
      /\ \A y \in Bundle : y # x => b'[y] = b[y]
  BY Moving DEF SendBundle, At, PlaceInv
<1>2. PICK c : store' = Synced(x, c)
  BY DEF SendBundle
<1>3. ~At(x, "new") /\ store' = Synced(x, c)
  BY <1>1, <1>2 DEF At
<1>4. /\ \A e \in store' : e \in Item /\ ~At(e.bundle, "new") /\ e.id[1] = b[e.bundle].time
      /\ \A e \in store : e.id[1] # b[x].time => e \in store'
  BY <1>3, Syncing
<1>5. Placed'
  BY <1>1, <1>4 DEF Placed, At, Item
<1>. QED  BY <1>1, <1>4, <1>5, PlaceFrame

(* transmit leaves an item of the creation time *)
LEMMA Transmitting ==
    ASSUME PlaceInv, NEW x \in Bundle, transmit(x), Types'
    PROVE  PlaceInv'
<1>1. /\ b[x].pc = "sync" /\ b'[x].pc = "transmit" /\ b'[x].time = b[x].time
      /\ \A y \in Bundle : y # x => b'[y] = b[y]
  BY Moving DEF transmit, At, PlaceInv
<1>2. ~At(x, "new") /\ store' = Synced(x, TRUE)
  BY <1>1 DEF transmit, At
<1>3. /\ \A e \in store' : e \in Item /\ ~At(e.bundle, "new") /\ e.id[1] = b[e.bundle].time
      /\ \A e \in store : e.id[1] # b[x].time => e \in store'
      /\ \E e \in store' : e.id[1] = b[x].time
  BY <1>2, Syncing
<1>4. Placed' /\ \A t : Sharing(t)' = Sharing(t)
  BY <1>1, <1>3 DEF Placed, At, Sharing, Item
<1>5. OneIsStored'
  <2>. SUFFICES ASSUME NEW t \in Time, Sharing(t) # {}, \A y \in Sharing(t) : At(y, "transmit")'
                PROVE  \E e \in store' : e.bundle \in Sharing(t)
    BY <1>4 DEF OneIsStored
  <2>1. CASE t = b[x].time
    <3>1. PICK e \in store' : e.id[1] = t
      BY <1>3, <2>1
    <3>. QED  BY <1>3, <3>1 DEF Sharing, Item
  <2>2. CASE t # b[x].time
    <3>1. \A y \in Sharing(t) : At(y, "transmit")
      BY <1>1, <2>2 DEF Sharing, At
    <3>2. PICK e \in store : e.bundle \in Sharing(t)
      BY <3>1 DEF PlaceInv, OneIsStored
    <3>3. e.id[1] = t
      BY <3>2 DEF PlaceInv, Placed, Sharing
    <3>. QED  BY <1>3, <2>2, <3>2, <3>3
  <2>. QED  BY <2>1, <2>2
<1>. QED  BY <1>4, <1>5 DEF PlaceInv

(* Sync of a settled bundle frees the ID *)
LEMMA Settling ==
    ASSUME PlaceInv, NEW x \in Bundle, Settle(x), Types'
    PROVE  PlaceInv'
<1>1. /\ b[x].pc = "transmit" /\ b'[x].pc = "settled" /\ b'[x].time = b[x].time
      /\ \A y \in Bundle : y # x => b'[y] = b[y]
      /\ store' = {e \in store : e.id # <<b[x].time, 0>>}
  <2>1. store' = {e \in store : e.id # <<b[x].time, 0>>}
    BY DEF Settle, Items, Id
  <2>. QED  BY <2>1, Moving DEF Settle, At, PlaceInv
<1>2. Placed'
  BY <1>1 DEF PlaceInv, Placed, At, Item
<1>3. \A e \in store : e.id[1] # b[x].time => e \in store'
  BY <1>1
<1>. QED  BY <1>1, <1>2, <1>3, PlaceFrame

(* The types without the IDs' uniqueness, for any clock and any delay *)
LEMMA TypesStep ==
    ASSUME Types, [Next]_vars
    PROVE  Types'
<1>1. ASSUME NEW x \in Bundle, NEW t \in 0..now, Build(x, t)
      PROVE  Types'
  <2>1. t \in Time
    BY TimeAssumption DEF Types, Time
  <2>. QED  BY <1>1, <2>1 DEF Types, Build, Pc
<1>2. ASSUME NEW x \in Bundle, NewBundleDescriptor(x) \/ SendBundle(x) \/ clean(x) \/ transmit(x) \/ Settle(x)
      PROVE  Types'
  BY <1>2, Moving DEF Types
<1>3. ASSUME NEW x \in Bundle, update(x)
      PROVE  Types'
  <2>. DEFINE t == b[x].time
              s == IF t \in data THEN state[t] + 1 ELSE 0
  <2>1. t \in Time /\ s \in Nat
    BY DEF Types
  <2>2. /\ now' = now /\ data' = data \cup {t} /\ state' = [state EXCEPT ![t] = s]
        /\ b' = [b EXCEPT ![x] = [b[x] EXCEPT !.pc = "clean", !.seq = s]]
    BY <1>3, <2>1 DEF update, Types
  <2>. HIDE DEF s, t
  <2>3. [b[x] EXCEPT !.pc = "clean", !.seq = s] \in [pc: Pc, time: Time, seq: Nat]
    BY <2>1 DEF Types, Pc
  <2>. QED  BY <2>1, <2>2, <2>3 DEF Types
<1>4. ASSUME Tick \/ UNCHANGED vars
      PROVE  Types'
  <2>1. now' \in Time /\ data' = data /\ state' = state /\ b' = b
    BY <1>4, TimeAssumption DEF Types, Tick, vars, Time
  <2>. QED  BY <2>1 DEF Types
<1>. QED  BY <1>1, <1>2, <1>3, <1>4 DEF Next

(* However the submissions of bundles with one creation time interleave,   *)
(* which share the ID that NewBundleDescriptorFromBundle stores them under *)
(* before IdKeeper.update tells them apart, one of them is in the store    *)
(* once transmit has synchronized them all, for any number of bundles, any *)
(* clock and any delay.                                                    *)
THEOREM Keeping == Spec => []OneIsStored
<1>1. Init => PlaceInv
  <2>. SUFFICES ASSUME Init
                PROVE  PlaceInv
    OBVIOUS
  <2>1. Types /\ Placed
    BY TimeAssumption DEF Init, Types, Placed, Time, Pc
  <2>2. \A t : Sharing(t) = {}
    BY DEF Init, Sharing, At
  <2>. QED  BY <2>1, <2>2 DEF PlaceInv, OneIsStored
<1>2. PlaceInv /\ [Next]_vars => PlaceInv'
  <2>. SUFFICES ASSUME PlaceInv, [Next]_vars
                PROVE  PlaceInv'
    OBVIOUS
  <2>1. Types'
    BY TypesStep DEF PlaceInv
  <2>2. ASSUME Tick \/ UNCHANGED vars
        PROVE  PlaceInv'
    <3>1. b' = b /\ store' = store
      BY <2>2 DEF Tick, vars
    <3>. QED  BY <2>1, <3>1 DEF PlaceInv, Placed, OneIsStored, Sharing, At
  <2>. QED  BY <2>1, <2>2, Stepping, Pushing, Transmitting, Settling DEF Next
<1>3. PlaceInv => OneIsStored
  BY DEF PlaceInv
<1>. QED  BY <1>1, <1>2, <1>3, PTL DEF Spec
-----------------------------------------------------------------------------
(* The mailboxes of the REST agent *)

RTypes ==
    /\ DOMAIN clients \subseteq Uuids /\ DOMAIN mailbox \subseteq Uuids
    /\ \A u \in DOMAIN mailbox : mailbox[u] \in Seq(RBundles)
    /\ inbox \in [pc: {"idle"}] \cup [pc: {"load"}, uuid: Uuids, bundle: RBundles]
                 \cup [pc: {"store"}, uuid: Uuids, bundle: RBundles, bundles: Seq(RBundles)]
    /\ fetch \in [Requests -> [pc: {"idle"}] \cup [pc: {"delete"}, uuid: Uuids, bundles: Seq(RBundles)]]
    /\ fetched \in [Uuids -> Seq(RBundles)]
    /\ due \in [Uuids -> SUBSET RBundles] /\ put \in [Uuids -> SUBSET RBundles]
    /\ arrived \subseteq RBundles

(* A bundle that the handler works on is for a client that was registered, *)
(* and was not put anywhere before.                                        *)
Delivering ==
    /\ \A u \in Uuids : put[u] \subseteq arrived
    /\ inbox.pc # "idle" => /\ inbox.bundle \in arrived /\ inbox.bundle \in due[inbox.uuid]
                            /\ inbox.bundle \notin put[inbox.uuid]

(* A client that got nothing yet has no mailbox.                           *)
Untouched(u) ==
    put[u] = {} => u \notin DOMAIN mailbox /\ fetched[u] = <<>> /\ Fetching(u) = {}

(* What a client got is in its mailbox or was fetched, also while it is    *)
(* fetched; and what a goroutine has loaded is still in the mailbox, or    *)
(* another fetch that overlapped has answered with it.                     *)
Held(u) == LET all == fetched[u] \o Box(u)
           IN  /\ ToSet(all) = put[u]
               /\ u \notin twice => Len(all) = Cardinality(put[u])

Taken(r, u) ==
    \/ fetch[r].bundles = Box(u)
    \/ u \in twice /\ u \notin DOMAIN mailbox /\ ToSet(fetch[r].bundles) \subseteq ToSet(fetched[u])

Loaded(u) ==
    /\ \A r \in Fetching(u) : Taken(r, u) /\ ~(inbox.pc = "store" /\ inbox.uuid = u)
    /\ u \notin twice => \A r, q \in Fetching(u) : r = q
    /\ inbox.pc = "store" /\ inbox.uuid = u => inbox.bundles = Append(Box(u), inbox.bundle)

MailInv ==
    /\ RTypes /\ Delivering
    /\ leaving \cap DOMAIN clients = {}
    /\ \A u \in Uuids : IsFiniteSet(put[u]) /\ Untouched(u)
    /\ \A u \in DOMAIN clients \ overlap : Held(u) /\ Loaded(u)

(* A mailbox is a sequence of bundles *)
LEMMA BoxType ==
    ASSUME RTypes, NEW u \in Uuids
    PROVE  Box(u) \in Seq(RBundles)
  BY DEF RTypes, Box

(* Appending x to the second of two sequences adds x, and one element *)
LEMMA OneMore ==
    ASSUME NEW S, NEW s \in Seq(S), NEW t \in Seq(S), NEW x \in S
    PROVE  /\ Len(s \o Append(t, x)) = Len(s \o t) + 1
           /\ ToSet(s \o Append(t, x)) = ToSet(s \o t) \cup {x}
<1>1. PICK q \in Seq(S) : q = s \o t
  BY ConcatProperties
<1>2. s \o Append(t, x) = Append(q, x)
  <2>1. <<x>> \in Seq(S) /\ Append(t, x) = t \o <<x>> /\ Append(q, x) = q \o <<x>>
    BY AppendIsConcat
  <2>2. (s \o t) \o <<x>> = s \o (t \o <<x>>)
    BY <2>1, ConcatAssociative
  <2>. QED  BY <1>1, <2>1, <2>2
<1>3. Len(Append(q, x)) = Len(q) + 1 /\ DOMAIN q = 1..Len(q) /\ DOMAIN Append(q, x) = 1..(Len(q) + 1)
      /\ Len(q) \in Nat
  OBVIOUS
<1>4. (\A i \in 1..Len(q) : Append(q, x)[i] = q[i]) /\ Append(q, x)[Len(q) + 1] = x
  OBVIOUS
<1>5. ToSet(Append(q, x)) = ToSet(q) \cup {x}
  BY <1>3, <1>4 DEF ToSet
<1>. QED  BY <1>1, <1>2, <1>3, <1>5

(* The elements of a concatenation *)
LEMMA ToSetConcat ==
    ASSUME NEW S, NEW s \in Seq(S), NEW t \in Seq(S)
    PROVE  ToSet(s \o t) = ToSet(s) \cup ToSet(t)
<1>1. /\ s \o t \in Seq(S) /\ Len(s \o t) = Len(s) + Len(t) /\ Len(s) \in Nat /\ Len(t) \in Nat
      /\ DOMAIN (s \o t) = 1..(Len(s) + Len(t)) /\ DOMAIN s = 1..Len(s) /\ DOMAIN t = 1..Len(t)
  BY ConcatProperties
<1>2. \A i \in 1..(Len(s) + Len(t)) : (s \o t)[i] = IF i <= Len(s) THEN s[i] ELSE t[i - Len(s)]
  BY ConcatProperties
<1>3. ASSUME NEW x \in ToSet(s \o t)
      PROVE  x \in ToSet(s) \cup ToSet(t)
  <2>1. PICK i \in 1..(Len(s) + Len(t)) : x = (s \o t)[i]
    BY <1>1, <1>3 DEF ToSet
  <2>2. CASE i <= Len(s)
    BY <1>1, <1>2, <2>1, <2>2 DEF ToSet
  <2>3. CASE ~(i <= Len(s))
    <3>1. i - Len(s) \in 1..Len(t) /\ x = t[i - Len(s)]
      BY <1>1, <1>2, <2>1, <2>3
    <3>. QED  BY <1>1, <3>1 DEF ToSet
  <2>. QED  BY <2>2, <2>3
<1>4. ASSUME NEW x \in ToSet(s)
      PROVE  x \in ToSet(s \o t)
  <2>1. PICK i \in 1..Len(s) : x = s[i]
    BY <1>1 DEF ToSet
  <2>2. i \in 1..(Len(s) + Len(t)) /\ (s \o t)[i] = x
    BY <1>1, <1>2, <2>1
  <2>. QED  BY <1>1, <2>2 DEF ToSet
<1>5. ASSUME NEW x \in ToSet(t)
      PROVE  x \in ToSet(s \o t)
  <2>1. PICK i \in 1..Len(t) : x = t[i]
    BY <1>1 DEF ToSet
  <2>2. i + Len(s) \in 1..(Len(s) + Len(t)) /\ (i + Len(s)) - Len(s) = i /\ ~(i + Len(s) <= Len(s))
    BY <1>1, <2>1
  <2>3. (s \o t)[i + Len(s)] = x
    BY <1>2, <2>1, <2>2
  <2>. QED  BY <1>1, <2>2, <2>3 DEF ToSet
<1>. QED  BY <1>3, <1>4, <1>5

(* A step that leaves the mailbox and the requests of a client alone *)
LEMMA MailFrame ==
    ASSUME NEW u, fetched'[u] = fetched[u], put'[u] = put[u], Fetching(u)' = Fetching(u),
           u \in twice' <=> u \in twice,
           \A r \in Fetching(u) : fetch'[r] = fetch[r],
           u \in DOMAIN mailbox' <=> u \in DOMAIN mailbox,
           u \in DOMAIN mailbox => mailbox'[u] = mailbox[u]
    PROVE  /\ Box(u)' = Box(u)
           /\ Untouched(u) => Untouched(u)'
           /\ Held(u) => Held(u)'
           /\ \A r \in Fetching(u) : Taken(r, u) => Taken(r, u)'
<1>1. Box(u)' = Box(u)
  BY DEF Box
<1>2. Untouched(u) => Untouched(u)'
  BY <1>1 DEF Untouched
<1>3. Held(u) => Held(u)'
  BY <1>1 DEF Held
<1>4. ASSUME NEW r \in Fetching(u), Taken(r, u)
      PROVE  Taken(r, u)'
  BY <1>1, <1>4 DEF Taken
<1>. QED  BY <1>1, <1>2, <1>3, <1>4

(* The requests are the same *)
LEMMA SameFetching ==
    ASSUME fetch' = fetch
    PROVE  \A u : Fetching(u)' = Fetching(u)
  BY DEF Fetching

(* A registration keeps the mail invariant *)
LEMMA RegisterMail ==
    ASSUME MailInv, NEW u \in Uuids, NEW e, handleRegister(u, e)
    PROVE  MailInv'
<1>1. /\ RTypes /\ Delivering /\ DOMAIN clients' = DOMAIN clients \cup {u} /\ u \notin leaving
      /\ due[u] = {} /\ put[u] = {}
      /\ UNCHANGED <<mailbox, inbox, fetch, leaving, arrived, fetched, due, put, overlap, twice>>
  BY DEF MailInv, handleRegister, Stored
<1>2. RTypes' /\ Delivering'
  BY <1>1 DEF RTypes, Delivering
<1>3. ASSUME NEW v \in Uuids
      PROVE  /\ IsFiniteSet(put[v])' /\ Untouched(v)'
             /\ Held(v) => Held(v)'
             /\ Loaded(v) => Loaded(v)'
  <2>1. Fetching(v)' = Fetching(v)
    BY <1>1, SameFetching
  <2>2. Box(v)' = Box(v) /\ Untouched(v)' /\ (Held(v) => Held(v)') /\ \A r \in Fetching(v) : Taken(r, v) => Taken(r, v)'
    BY <1>1, <2>1, MailFrame DEF MailInv
  <2>3. Loaded(v) => Loaded(v)'
    BY <1>1, <2>1, <2>2 DEF Loaded
  <2>. QED  BY <1>1, <2>2, <2>3 DEF MailInv
<1>4. Held(u)' /\ Loaded(u)'
  <2>1. u \notin DOMAIN mailbox /\ fetched[u] = <<>> /\ Fetching(u) = {}
    BY <1>1 DEF MailInv, Untouched
  <2>2. Box(u) = <<>>
    BY <2>1 DEF Box
  <2>3. Cardinality(put[u]) = 0 /\ fetched[u] \o Box(u) = <<>> /\ ToSet(<< >>) = {}
    BY <1>1, <2>1, <2>2, FS_EmptySet DEF ToSet
  <2>4. Held(u)
    BY <1>1, <2>3 DEF Held
  <2>5. Loaded(u)
    BY <1>1, <2>1 DEF Loaded, Delivering, RTypes
  <2>. QED  BY <1>3, <2>4, <2>5
<1>. QED  BY <1>1, <1>2, <1>3, <1>4 DEF MailInv, RTypes

(* So does an unregistration *)
LEMMA UnregisterMail ==
    ASSUME MailInv, NEW u \in Uuids, handleUnregister(u) \/ UnregisterMailbox(u)
    PROVE  MailInv'
<1>1. /\ RTypes /\ Delivering /\ DOMAIN clients' \subseteq DOMAIN clients
      /\ leaving' \cap DOMAIN clients' = {} /\ u \notin DOMAIN clients'
      /\ UNCHANGED <<inbox, fetch, arrived, fetched, due, put, overlap, twice>>
  BY DEF MailInv, handleUnregister, UnregisterMailbox, Deleted
<1>2. /\ DOMAIN mailbox' \subseteq DOMAIN mailbox
      /\ \A v \in Uuids \ {u} : /\ v \in DOMAIN mailbox' <=> v \in DOMAIN mailbox
                                /\ v \in DOMAIN mailbox => mailbox'[v] = mailbox[v]
      /\ \A v \in DOMAIN mailbox' : mailbox'[v] = mailbox[v]
  BY DEF handleUnregister, UnregisterMailbox, Deleted
<1>3. RTypes' /\ Delivering'
  BY <1>1, <1>2 DEF RTypes, Delivering
<1>4. ASSUME NEW v \in Uuids
      PROVE  Untouched(v)' /\ IsFiniteSet(put[v])'
  BY <1>1, <1>2, SameFetching DEF MailInv, Untouched
<1>5. ASSUME NEW v \in DOMAIN clients' \ overlap'
      PROVE  Held(v)' /\ Loaded(v)'
  <2>1. v \in Uuids \ {u} /\ Held(v) /\ Loaded(v) /\ Fetching(v)' = Fetching(v)
    BY <1>1, SameFetching DEF MailInv, RTypes
  <2>2. Box(v)' = Box(v) /\ Held(v)' /\ \A r \in Fetching(v) : Taken(r, v) => Taken(r, v)'
    BY <1>1, <1>2, <2>1, MailFrame
  <2>. QED  BY <1>1, <2>1, <2>2 DEF Loaded
<1>. QED  BY <1>1, <1>3, <1>4, <1>5 DEF MailInv

(* What is loaded is the mailbox *)
LEMMA FetchMail ==
    ASSUME MailInv, NEW q \in Requests, NEW u \in Uuids, handleFetch(q, u)
    PROVE  MailInv'
<1>1. /\ RTypes /\ Delivering
      /\ UNCHANGED <<clients, inbox, leaving, arrived, due, put, fetched, mailbox>>
      /\ u \in DOMAIN mailbox /\ fetch[q].pc = "idle"
      /\ fetch' = [fetch EXCEPT ![q] = [pc |-> "delete", uuid |-> u, bundles |-> mailbox[u]]]
      /\ overlap \subseteq overlap' /\ overlap' \subseteq overlap \cup {u}
      /\ inbox.pc = "store" /\ inbox.uuid = u => u \in overlap'
      /\ twice' = IF Fetching(u) # {} THEN twice \union {u} ELSE twice
  BY DEF MailInv, handleFetch
<1>2. /\ RTypes'
      /\ \A r \in Requests \ {q} : fetch'[r] = fetch[r]
      /\ fetch'[q] = [pc |-> "delete", uuid |-> u, bundles |-> mailbox[u]]
  BY <1>1 DEF RTypes
<1>3. Delivering'
  BY <1>1 DEF Delivering
<1>4. Fetching(u)' = Fetching(u) \cup {q} /\ \A v : v # u => Fetching(v)' = Fetching(v)
  BY <1>1, <1>2 DEF Fetching
<1>5. /\ \A v : Box(v)' = Box(v)
      /\ \A v : v # u => (v \in twice' <=> v \in twice)
      /\ \A v : q \notin Fetching(v)
      /\ \A v : Fetching(v) \subseteq Requests
  BY <1>1 DEF Box, Fetching
<1>6. u \in twice => u \in twice'
  BY <1>1
<1>7. ASSUME NEW v \in Uuids
      PROVE  Untouched(v)' /\ IsFiniteSet(put[v])' /\ (Held(v) => Held(v)')
  <2>1. Untouched(v) /\ IsFiniteSet(put[v])
    BY DEF MailInv
  <2>2. Untouched(v)'
    BY <1>1, <1>4, <2>1 DEF Untouched
  <2>3. Held(v) => Held(v)'
    BY <1>1, <1>5, <1>6 DEF Held
  <2>. QED  BY <1>1, <2>1, <2>2, <2>3
<1>8. ASSUME NEW v \in Uuids, NEW r \in Fetching(v), Taken(r, v)
      PROVE  Taken(r, v)'
  <2>1. fetch'[r] = fetch[r]
    BY <1>2, <1>5
  <2>. QED  BY <1>1, <1>5, <1>6, <1>8, <2>1 DEF Taken
<1>9. ASSUME NEW v \in DOMAIN clients \ overlap'
      PROVE  Held(v)' /\ Loaded(v)'
  <2>1. v \in Uuids /\ Held(v) /\ Loaded(v)
    BY <1>1 DEF MailInv, RTypes
  <2>2. CASE v # u
    BY <1>1, <1>4, <1>5, <1>7, <1>8, <2>1, <2>2 DEF Loaded
  <2>3. CASE v = u
    <3>1. Taken(q, u)'
      <4>1. fetch'[q].bundles = Box(u)'
        BY <1>1, <1>2 DEF Box
      <4>. QED  BY <4>1 DEF Taken
    <3>2. ~(inbox.pc = "store" /\ inbox.uuid = u)
      BY <1>1, <1>9, <2>3
    <3>3. \A r \in Fetching(u)' : Taken(r, u)' /\ ~(inbox'.pc = "store" /\ inbox'.uuid = u)
      <4>1. \A r \in Fetching(u) : Taken(r, u)'
        BY <1>8, <2>1, <2>3 DEF Loaded
      <4>. QED  BY <1>1, <1>4, <3>1, <3>2, <4>1
    <3>4. u \notin twice' => \A r, p \in Fetching(u)' : r = p
      BY <1>1, <1>4
    <3>. QED  BY <1>1, <1>7, <2>1, <2>3, <3>2, <3>3, <3>4 DEF Loaded
  <2>. QED  BY <2>2, <2>3
<1>. QED  BY <1>1, <1>2, <1>3, <1>7, <1>9 DEF MailInv

(* It is deleted when nobody has written to it since, and the answer has   *)
(* what it had, or what another answer had.                                *)
LEMMA DeleteMail ==
    ASSUME MailInv, NEW q \in Requests, FetchDelete(q)
    PROVE  MailInv'
<1>1. PICK u \in Uuids : u = fetch[q].uuid /\ fetch[q].bundles \in Seq(RBundles) /\ fetch[q].pc = "delete"
  BY DEF MailInv, RTypes, FetchDelete
<1>2. PICK t \in Seq(RBundles) : t = fetch[q].bundles
  BY <1>1
<1>3. /\ RTypes /\ Delivering
      /\ UNCHANGED <<clients, inbox, leaving, arrived, due, put, overlap, twice>>
      /\ DOMAIN mailbox' = DOMAIN mailbox \ {u}
      /\ \A v \in DOMAIN mailbox' : mailbox'[v] = mailbox[v]
      /\ fetched' = [fetched EXCEPT ![u] = @ \o t]
      /\ fetch' = [fetch EXCEPT ![q] = NoFetch]
  BY <1>1, <1>2 DEF MailInv, FetchDelete, Deleted
<1>4. fetched[u] \in Seq(RBundles)
  BY <1>3 DEF RTypes
<1>5. PICK f \in Seq(RBundles), s \in Seq(RBundles) : f = fetched[u] /\ s = f \o t
  BY <1>4, ConcatProperties
<1>6. /\ fetched' \in [Uuids -> Seq(RBundles)] /\ fetched'[u] = s
      /\ \A v \in Uuids \ {u} : fetched'[v] = fetched[v]
  BY <1>3, <1>5 DEF RTypes
<1>7. RTypes' /\ Delivering' /\ fetch'[q].pc = "idle" /\ \A r \in Requests \ {q} : fetch'[r] = fetch[r]
  BY <1>3, <1>6 DEF RTypes, Delivering, NoFetch
<1>8. q \in Fetching(u) /\ Fetching(u)' = Fetching(u) \ {q} /\ \A v : v # u => Fetching(v)' = Fetching(v)
  BY <1>1, <1>7 DEF Fetching
<1>9. put[u] # {}
  BY <1>8 DEF MailInv, Untouched
<1>10. \A v : \A r \in Fetching(v) : v # u => fetch'[r] = fetch[r]
  BY <1>1, <1>7 DEF Fetching
<1>11. ASSUME NEW v \in Uuids
       PROVE  Untouched(v)' /\ IsFiniteSet(put[v])'
  BY <1>3, <1>6, <1>8, <1>9 DEF MailInv, Untouched
<1>12. ToSet(s) = ToSet(f) \cup ToSet(t)
  BY <1>5, ToSetConcat
<1>13. ASSUME NEW v \in DOMAIN clients \ overlap
       PROVE  Held(v)' /\ Loaded(v)'
  <2>1. v \in Uuids /\ Held(v) /\ Loaded(v)
    BY <1>3 DEF MailInv, RTypes
  <2>2. CASE v # u
    <3>1. Box(v)' = Box(v) /\ Held(v)' /\ \A r \in Fetching(v) : Taken(r, v) => Taken(r, v)'
      BY <1>3, <1>6, <1>8, <1>10, <2>1, <2>2, MailFrame
    <3>. QED  BY <1>3, <1>8, <2>1, <2>2, <3>1 DEF Loaded
  <2>3. CASE v = u
    <3>1. Box(u)' = <<>> /\ s \o <<>> = s
      BY <1>3 DEF Box
    <3>2. /\ t = Box(u) \/ (u \in twice /\ u \notin DOMAIN mailbox /\ ToSet(t) \subseteq ToSet(f))
          /\ ~(inbox.pc = "store" /\ inbox.uuid = u)
      BY <1>2, <1>5, <1>8, <2>1, <2>3 DEF Loaded, Taken
    <3>3. Held(u)'
      <4>1. CASE t = Box(u)
        BY <1>3, <1>5, <1>6, <2>1, <2>3, <3>1, <4>1 DEF Held
      <4>2. CASE u \in twice /\ u \notin DOMAIN mailbox /\ ToSet(t) \subseteq ToSet(f)
        <5>1. Box(u) = <<>> /\ f \o <<>> = f
          BY <4>2 DEF Box
        <5>2. ToSet(s) = ToSet(f) /\ ToSet(f) = put[u]
          BY <1>5, <1>12, <2>1, <2>3, <4>2, <5>1 DEF Held
        <5>. QED  BY <1>3, <1>6, <3>1, <4>2, <5>2 DEF Held
      <4>. QED  BY <3>2, <4>1, <4>2
    <3>4. ASSUME NEW r \in Fetching(u)'
          PROVE  Taken(r, u)'
      <4>1. r \in Fetching(u) /\ r # q /\ fetch'[r] = fetch[r]
        BY <1>7, <1>8 DEF Fetching
      <4>2. u \in twice /\ Taken(r, u)
        BY <1>8, <2>1, <2>3, <4>1 DEF Loaded
      <4>3. ToSet(fetch[r].bundles) \subseteq ToSet(s)
        <5>1. CASE ToSet(fetch[r].bundles) \subseteq ToSet(f)
          BY <1>12, <5>1
        <5>2. CASE fetch[r].bundles = Box(u)
          <6>1. CASE t = Box(u)
            BY <1>12, <5>2, <6>1
          <6>2. CASE u \notin DOMAIN mailbox
            BY <5>2, <6>2 DEF Box, ToSet
          <6>. QED  BY <3>2, <6>1, <6>2
        <5>. QED  BY <1>5, <4>2, <5>1, <5>2 DEF Taken
      <4>. QED  BY <1>3, <1>6, <4>1, <4>2, <4>3 DEF Taken
    <3>. QED  BY <1>3, <1>8, <2>1, <2>3, <3>2, <3>3, <3>4 DEF Loaded
  <2>. QED  BY <2>2, <2>3
<1>. QED  BY <1>3, <1>7, <1>11, <1>13 DEF MailInv

(* So does the delivery of a bundle *)
LEMMA ReceiveMail ==
    ASSUME MailInv, NEW x \in RBundles, receiveBundleMessage(x)
    PROVE  MailInv'
<1>1. /\ RTypes /\ Delivering /\ inbox.pc = "idle" /\ x \notin arrived /\ arrived' = arrived \cup {x}
      /\ due' = [u \in Uuids |-> IF u \in DOMAIN clients /\ clients[u] = To[x]
                                 THEN due[u] \union {x} ELSE due[u]]
      /\ UNCHANGED <<clients, mailbox, fetch, leaving, fetched, put, overlap, twice>>
  BY DEF MailInv, receiveBundleMessage
<1>2. \/ inbox' = inbox
      \/ \E u \in DOMAIN clients : clients[u] = To[x] /\ inbox' = [pc |-> "load", uuid |-> u, bundle |-> x]
  BY DEF receiveBundleMessage
<1>3. inbox'.pc # "store"
  BY <1>1, <1>2
<1>4. RTypes'
  <2>1. due' \in [Uuids -> SUBSET RBundles]
    BY <1>1 DEF RTypes
  <2>2. inbox' \in [pc: {"idle"}] \cup [pc: {"load"}, uuid: Uuids, bundle: RBundles]
    BY <1>1, <1>2 DEF RTypes
  <2>. QED  BY <1>1, <2>1, <2>2 DEF RTypes
<1>5. Delivering'
  BY <1>1, <1>2 DEF Delivering, RTypes
<1>6. ASSUME NEW u \in Uuids
      PROVE  /\ Untouched(u)' /\ IsFiniteSet(put[u])' /\ Box(u)' = Box(u) /\ Fetching(u)' = Fetching(u)
             /\ (Held(u) => Held(u)') /\ \A r \in Fetching(u) : Taken(r, u) => Taken(r, u)'
  <2>1. Fetching(u)' = Fetching(u)
    BY <1>1, SameFetching
  <2>. QED  BY <1>1, <2>1, MailFrame DEF MailInv
<1>7. ASSUME NEW u \in DOMAIN clients \ overlap
      PROVE  Held(u)' /\ Loaded(u)'
  <2>1. u \in Uuids /\ Held(u) /\ Loaded(u)
    BY <1>1 DEF MailInv, RTypes
  <2>. QED  BY <1>1, <1>3, <1>6, <2>1 DEF Loaded
<1>. QED  BY <1>1, <1>4, <1>5, <1>6, <1>7 DEF MailInv

(* So does the read half of a fetch *)
LEMMA LoadMail ==
    ASSUME MailInv, MailboxLoad
    PROVE  MailInv'
<1>1. PICK u \in Uuids, x \in RBundles :
          /\ u = inbox.uuid /\ x = inbox.bundle /\ inbox.pc = "load"
          /\ inbox' = [pc |-> "store", uuid |-> u, bundle |-> x, bundles |-> Append(Box(u), x)]
          /\ overlap' = IF Fetching(u) # {} THEN overlap \union {u} ELSE overlap
          /\ UNCHANGED <<clients, mailbox, fetch, leaving, arrived, fetched, due, put, twice>>
  BY DEF MailInv, RTypes, MailboxLoad
<1>2. RTypes /\ Delivering /\ Box(u) \in Seq(RBundles)
  BY BoxType DEF MailInv
<1>3. RTypes'
  <2>1. Append(Box(u), x) \in Seq(RBundles)
    BY <1>2, AppendProperties
  <2>2. inbox' \in [pc: {"store"}, uuid: Uuids, bundle: RBundles, bundles: Seq(RBundles)]
    BY <1>1, <2>1
  <2>. QED  BY <1>1, <1>2, <2>2 DEF RTypes
<1>4. Delivering'
  BY <1>1, <1>2 DEF Delivering
<1>5. ASSUME NEW v \in Uuids
      PROVE  /\ Untouched(v)' /\ IsFiniteSet(put[v])' /\ Box(v)' = Box(v) /\ Fetching(v)' = Fetching(v)
             /\ (Held(v) => Held(v)') /\ \A r \in Fetching(v) : Taken(r, v) => Taken(r, v)'
  <2>1. Fetching(v)' = Fetching(v)
    BY <1>1, SameFetching
  <2>. QED  BY <1>1, <2>1, MailFrame DEF MailInv
<1>6. ASSUME NEW v \in DOMAIN clients \ overlap'
      PROVE  Held(v)' /\ Loaded(v)'
  <2>1. v \in Uuids /\ Held(v) /\ Loaded(v)
    BY <1>1, <1>2 DEF MailInv, RTypes
  <2>2. v = u => Fetching(v) = {}
    BY <1>1, <1>6
  <2>. QED  BY <1>1, <1>5, <2>1, <2>2 DEF Loaded
<1>. QED  BY <1>1, <1>3, <1>4, <1>5, <1>6 DEF MailInv

(* So does its write half *)
LEMMA StoreMail ==
    ASSUME MailInv, MailboxStore
    PROVE  MailInv'
<1>1. PICK u \in Uuids, x \in RBundles, s \in Seq(RBundles) :
          /\ u = inbox.uuid /\ x = inbox.bundle /\ s = inbox.bundles /\ inbox.pc = "store"
          /\ mailbox' = Stored(mailbox, u, s)
          /\ put' = [put EXCEPT ![u] = @ \union {x}]
          /\ inbox' = [pc |-> "idle"]
          /\ UNCHANGED <<clients, fetch, leaving, arrived, fetched, due, overlap, twice>>
  BY DEF MailInv, RTypes, MailboxStore
<1>2. RTypes /\ Delivering /\ Box(u) \in Seq(RBundles) /\ fetched[u] \in Seq(RBundles)
  BY BoxType DEF MailInv, RTypes
<1>3. /\ DOMAIN mailbox' = DOMAIN mailbox \cup {u} /\ mailbox'[u] = s
      /\ \A v \in DOMAIN mailbox \ {u} : mailbox'[v] = mailbox[v]
  BY <1>1 DEF Stored
<1>4. put'[u] = put[u] \cup {x} /\ (\A v \in Uuids \ {u} : put'[v] = put[v]) /\ x \in arrived /\ x \notin put[u]
  BY <1>1, <1>2 DEF RTypes, Delivering
<1>5. RTypes'
  BY <1>1, <1>2, <1>3 DEF RTypes
<1>6. Delivering'
  BY <1>1, <1>2, <1>4 DEF Delivering
<1>7. /\ IsFiniteSet(put'[u]) /\ Cardinality(put[u]) \in Nat
      /\ Cardinality(put'[u]) = Cardinality(put[u]) + 1
  <2>1. PICK p : p = put[u]
    OBVIOUS
  <2>2. IsFiniteSet(p) /\ x \notin p
    BY <1>4, <2>1 DEF MailInv
  <2>3. IsFiniteSet(p \cup {x}) /\ Cardinality(p) \in Nat /\ Cardinality(p \cup {x}) = Cardinality(p) + 1
    BY <2>2, FS_AddElement, FS_CardinalityType
  <2>. QED  BY <1>4, <2>1, <2>3
<1>8. ASSUME NEW v \in Uuids
      PROVE  Untouched(v)' /\ IsFiniteSet(put[v])'
  <2>1. Untouched(v) /\ IsFiniteSet(put[v]) /\ Fetching(v)' = Fetching(v)
    BY <1>1, SameFetching DEF MailInv
  <2>2. CASE v # u
    <3>1. put'[v] = put[v] /\ fetched' = fetched /\ (v \in DOMAIN mailbox' <=> v \in DOMAIN mailbox)
      BY <1>1, <1>3, <1>4, <2>2
    <3>. QED  BY <2>1, <3>1 DEF Untouched
  <2>3. CASE v = u
    BY <1>4, <1>7, <2>3 DEF Untouched
  <2>. QED  BY <2>2, <2>3
<1>9. ASSUME NEW v \in DOMAIN clients \ overlap
      PROVE  Held(v)' /\ Loaded(v)'
  <2>1. v \in Uuids /\ Held(v) /\ Loaded(v) /\ Fetching(v)' = Fetching(v)
    BY <1>1, <1>2, SameFetching DEF MailInv, RTypes
  <2>2. CASE v # u
    <3>1. Box(v)' = Box(v) /\ Held(v)' /\ \A r \in Fetching(v) : Taken(r, v) => Taken(r, v)'
      BY <1>1, <1>3, <1>4, <2>1, <2>2, MailFrame
    <3>. QED  BY <1>1, <2>1, <3>1 DEF Loaded
  <2>3. CASE v = u
    <3>1. Box(u)' = s
      BY <1>3 DEF Box
    <3>2. s = Append(Box(u), x) /\ Fetching(u) = {}
      BY <1>1, <2>1, <2>3 DEF Loaded
    <3>3. /\ Len(fetched[u] \o s) = Len(fetched[u] \o Box(u)) + 1
          /\ ToSet(fetched[u] \o s) = ToSet(fetched[u] \o Box(u)) \cup {x}
      <4>1. PICK f \in Seq(RBundles), t \in Seq(RBundles) : f = fetched[u] /\ t = Box(u)
        BY <1>2
      <4>2. Len(f \o Append(t, x)) = Len(f \o t) + 1 /\ ToSet(f \o Append(t, x)) = ToSet(f \o t) \cup {x}
        BY OneMore
      <4>. QED  BY <3>2, <4>1, <4>2
    <3>4. Held(u)'
      <4>1. /\ ToSet(fetched[u] \o Box(u)) = put[u]
            /\ u \notin twice => Len(fetched[u] \o Box(u)) = Cardinality(put[u])
        BY <2>1, <2>3 DEF Held
      <4>2. fetched' = fetched /\ twice' = twice
        BY <1>1
      <4>3. ToSet(fetched[u] \o s) = put'[u] /\ (u \notin twice => Len(fetched[u] \o s) = Cardinality(put'[u]))
        BY <1>4, <1>7, <3>3, <4>1
      <4>4. ToSet(fetched'[u] \o Box(u)') = put'[u] /\ (u \notin twice' => Len(fetched'[u] \o Box(u)') = Cardinality(put'[u]))
        BY <3>1, <4>2, <4>3
      <4>. QED  BY <4>4 DEF Held
    <3>. QED  BY <1>1, <2>1, <2>3, <3>2, <3>4 DEF Loaded
  <2>. QED  BY <2>2, <2>3
<1>. QED  BY <1>1, <1>5, <1>6, <1>8, <1>9 DEF MailInv

(* The REST agent keeps what it put into the mailbox of a registered       *)
(* client until a fetch answers with it, for any number of clients, of     *)
(* requests at a time and of bundles: receiveBundleMessage and handleFetch *)
(* each load and write back, nothing is lost unless they overlap, and      *)
(* nothing is answered twice unless two fetches overlap.                   *)
THEOREM Mailing == RSpec => []MailboxKept
<1>1. RInit => MailInv
  <2>. SUFFICES ASSUME RInit
                PROVE  MailInv
    OBVIOUS
  <2>1. DOMAIN clients = {} /\ DOMAIN mailbox = {} /\ inbox.pc = "idle"
    BY DEF RInit, Empty
  <2>2. RTypes
    BY <2>1 DEF RInit, RTypes, NoFetch
  <2>3. Delivering /\ \A u \in Uuids : put[u] = {} /\ Untouched(u)
    BY <2>1 DEF RInit, Delivering, Untouched, Fetching, NoFetch
  <2>. QED  BY <2>1, <2>2, <2>3, FS_EmptySet DEF MailInv
<1>2. MailInv /\ [RNext]_rvars => MailInv'
  <2>. SUFFICES ASSUME MailInv, [RNext]_rvars
                PROVE  MailInv'
    OBVIOUS
  <2>1. ASSUME UNCHANGED <<clients, mailbox, inbox, fetch, leaving, arrived, fetched, due, put, overlap, twice>>
        PROVE  MailInv'
    <3>1. RTypes' /\ Delivering'
      BY <2>1 DEF MailInv, RTypes, Delivering
    <3>2. ASSUME NEW u
          PROVE  /\ Fetching(u)' = Fetching(u) /\ Box(u)' = Box(u) /\ (Untouched(u) => Untouched(u)')
                 /\ (Held(u) => Held(u)') /\ \A r \in Fetching(u) : Taken(r, u) => Taken(r, u)'
      <4>1. Fetching(u)' = Fetching(u)
        BY <2>1, SameFetching
      <4>. QED  BY <2>1, <4>1, MailFrame
    <3>3. \A u : Loaded(u) => Loaded(u)'
      BY <2>1, <3>2 DEF Loaded
    <3>. QED  BY <2>1, <3>1, <3>2, <3>3 DEF MailInv
  <2>2. CASE UNCHANGED rvars
    BY <2>1, <2>2 DEF rvars
  <2>3. ASSUME NEW u \in Uuids, NEW e \in Endpoints, handleBuild(u, e)
        PROVE  MailInv'
    BY <2>1, <2>3 DEF handleBuild
  <2>. QED  BY <2>2, <2>3, RegisterMail, UnregisterMail, FetchMail, DeleteMail, ReceiveMail, LoadMail, StoreMail DEF RNext
<1>3. MailInv => MailboxKept
  BY DEF MailInv, Held, MailboxKept
<1>. QED  BY <1>1, <1>2, <1>3, PTL DEF RSpec
-----------------------------------------------------------------------------
(* The stream of an MTCP connection: w is what is on the wire, r the       *)
(* server's handleSender, p what it passed on, o the bundles whose Sends   *)
(* took the mutex.                                                         *)

StreamPiece == [part: {"zero"}] \cup [part: {"first", "rest"}, bundle: MBundles]
MReader == [pc: {"none", "len", "gone"}] \cup [pc: {"body", "report"}, bundle: MBundles]

(* The server has read the beginnings of that many bundles, and they are   *)
(* the ones that were sent first.                                          *)
InBundle(r) == r.pc \in {"body", "report"}
Begun(p, r) == IF InBundle(r) THEN Len(p) + 1 ELSE Len(p)

Found(r, p, o) ==
    /\ Begun(p, r) <= Len(o)
    /\ \A k \in 1..Len(p) : p[k] = o[k]
    /\ InBundle(r) => r.bundle = o[Begun(p, r)]

(* A bundle's first piece is followed by its second one.                   *)
Paired(w, r) ==
    /\ \A i \in 1..(Len(w) - 1) : w[i].part = "first" =>
          w[i + 1].part = "rest" /\ w[i + 1].bundle = w[i].bundle
    /\ \A i \in 2..Len(w) : w[i].part = "rest" => w[i - 1].part = "first"
    /\ w # <<>> => IF r.pc = "body" THEN w[1].part = "rest" /\ w[1].bundle = r.bundle
                                    ELSE w[1].part # "rest"

(* The beginnings on the wire are those of the next bundles, in order.     *)
Begins(w, i, x) == w[i].part = "first" /\ w[i].bundle = x

Queued(w, o, n) ==
    /\ \A i \in 1..Len(w) : w[i].part = "first" => \E k \in (n + 1)..Len(o) : Begins(w, i, o[k])
    /\ \A i, j \in 1..Len(w) : \A k, l \in 1..Len(o) :
          i < j /\ Begins(w, i, o[k]) /\ Begins(w, j, o[l]) => k < l
    /\ \A k, l \in (n + 1)..Len(o) : \A j \in 1..Len(w) :
          k < l /\ Begins(w, j, o[l]) => \E i \in 1..Len(w) : Begins(w, i, o[k])

(* A Send that is yet to write is the last one.                            *)
Unwritten(w, r, p, o, x) ==
    /\ Begun(p, r) < Len(o) /\ x = o[Len(o)]
    /\ \A i \in 1..Len(w) : ~Begins(w, i, x)

StreamOK(w, r, p, o, f) ==
    /\ \A j, k \in 1..Len(o) : o[j] = o[k] => j = k
    /\ Found(r, p, o) /\ Paired(w, r) /\ Queued(w, o, Begun(p, r))
    /\ \A x \in f : Unwritten(w, r, p, o, x)

(* On a connection that is up, everything begun was written, and a bundle  *)
(* of which half was written is the one whose Send has the mutex.          *)
HalfWritten(w, r, x) ==
    IF w = <<>> THEN r.pc = "body" /\ r.bundle = x ELSE Begins(w, Len(w), x)

Current(w, r, p, o, f, h) ==
    /\ \A k \in (Begun(p, r) + 1)..Len(o) :
          (\E i \in 1..Len(w) : Begins(w, i, o[k])) \/ (k = Len(o) /\ o[k] \in f)
    /\ \A x \in MBundles : HalfWritten(w, r, x) <=> x \in h

Writing(c, pc) == {x \in MBundles : send[x].pc = pc /\ send[x].conn = c}

MTypes ==
    /\ conn \in 0..MaxStarts
    /\ handler \in {"stopped", "appear", "loop", "write", "report"}
    /\ link \in [MConns -> {"none", "up", "cut", "closed"}]
    /\ wire \in [MConns -> Seq(StreamPiece)]
    /\ send \in [MBundles -> [pc: {"idle", "lock", "first", "rest", "probe", "report", "ok", "err"},
                              conn: 0..MaxStarts]]
    /\ srv \in [MConns -> MReader]
    /\ passed \in [MConns -> Seq(MBundles)] /\ order \in [MConns -> Seq(MBundles)]

(* Writers take turns, on connections that were dialled.                   *)
Turns ==
    /\ handler = "write" => mutex = "handler"
    /\ handler # "stopped" => conn > 0
    /\ \A x \in MBundles :
          /\ send[x].pc \in {"first", "rest", "probe"} => mutex = x /\ send[x].conn > 0
          /\ send[x].pc # "idle" => conn > 0
          /\ send[x].conn <= conn
    /\ \A c \in MConns : c > conn => /\ wire[c] = <<>> /\ srv[c].pc = "none"
                                     /\ passed[c] = <<>> /\ order[c] = <<>>

ConnInv(c) ==
    /\ \A k \in 1..Len(order[c]) : send[order[c][k]].pc \notin {"idle", "lock"}
    /\ StreamOK(wire[c], srv[c], passed[c], order[c], Writing(c, "first"))
    /\ link[c] = "up" =>
          Current(wire[c], srv[c], passed[c], order[c], Writing(c, "first"), Writing(c, "rest"))
    /\ link[c] = "cut" => wire[c] = <<>>

StreamInv == MTypes /\ Turns /\ \A c \in MConns : ConnInv(c)

(* Appending a piece: the old ones stay, and the new one is the last.      *)
LEMMA Appended ==
    ASSUME NEW w \in Seq(StreamPiece), NEW z \in StreamPiece, NEW v, v = Append(w, z)
    PROVE  /\ v \in Seq(StreamPiece) /\ Len(w) \in Nat /\ Len(v) = Len(w) + 1 /\ v # <<>>
           /\ v[Len(w) + 1] = z
           /\ \A i \in 1..Len(w) : v[i] = w[i] /\ v[i] \in StreamPiece
  BY AppendProperties

(* A keepalive or a probe on a connection on which no bundle is half       *)
(* written.                                                                *)
LEMMA ZeroWritten ==
    ASSUME NEW w \in Seq(StreamPiece), NEW r \in MReader, NEW p \in Seq(MBundles),
           NEW o \in Seq(MBundles), NEW f, NEW z \in StreamPiece, z.part = "zero",
           StreamOK(w, r, p, o, f), Current(w, r, p, o, f, {}), NEW v, v = Append(w, z)
    PROVE  StreamOK(v, r, p, o, f) /\ Current(v, r, p, o, f, {})
<1>1. /\ v \in Seq(StreamPiece) /\ Len(w) \in Nat /\ Len(v) = Len(w) + 1 /\ v # <<>>
      /\ v[Len(w) + 1] = z /\ Len(o) \in Nat /\ Len(p) \in Nat
      /\ \A i \in 1..Len(w) : v[i] = w[i] /\ v[i] \in StreamPiece
  BY Appended
<1>2. Paired(v, r)
  <2>1. w # <<>> => w[Len(w)].part # "first"
    BY <1>1 DEF Current, HalfWritten, Begins, StreamPiece
  <2>2. w = <<>> => Len(w) = 0 /\ r.pc # "body"
    BY DEF Current, HalfWritten, MReader
  <2>3. w # <<>> => Len(w) >= 1
    BY <1>1
  <2>. QED  BY <1>1, <2>1, <2>2, <2>3 DEF StreamOK, Paired
<1>3. ASSUME NEW i \in 1..Len(v), NEW x, Begins(v, i, x)
      PROVE  i \in 1..Len(w) /\ Begins(w, i, x)
  BY <1>1, <1>3 DEF Begins
<1>4. ASSUME NEW i \in 1..Len(w), NEW x, Begins(w, i, x)
      PROVE  i \in 1..Len(v) /\ Begins(v, i, x)
  BY <1>1, <1>4 DEF Begins
<1>5. Queued(v, o, Begun(p, r))
  <2>1. ASSUME NEW i \in 1..Len(v), v[i].part = "first"
        PROVE  \E k \in (Begun(p, r) + 1)..Len(o) : Begins(v, i, o[k])
    <3>1. i \in 1..Len(w) /\ w[i].part = "first"
      BY <1>1, <2>1
    <3>. QED  BY <1>4, <3>1 DEF StreamOK, Queued
  <2>. QED  BY <1>3, <1>4, <2>1 DEF StreamOK, Queued
<1>6. StreamOK(v, r, p, o, f)
  BY <1>2, <1>3, <1>5 DEF StreamOK, Unwritten
<1>7. Current(v, r, p, o, f, {})
  <2>1. \A x \in MBundles : ~HalfWritten(v, r, x)
    BY <1>1 DEF HalfWritten, Begins
  <2>. QED  BY <1>4, <2>1 DEF Current
<1>. QED  BY <1>6, <1>7

(* The first write of a Send that has the mutex.                           *)
LEMMA FirstWritten ==
    ASSUME NEW w \in Seq(StreamPiece), NEW r \in MReader, NEW p \in Seq(MBundles),
           NEW o \in Seq(MBundles), NEW x \in MBundles, NEW z \in StreamPiece,
           z.part = "first", z.bundle = x,
           StreamOK(w, r, p, o, {x}), Current(w, r, p, o, {x}, {}), NEW v, v = Append(w, z)
    PROVE  StreamOK(v, r, p, o, {}) /\ Current(v, r, p, o, {}, {x})
<1>1. /\ v \in Seq(StreamPiece) /\ Len(w) \in Nat /\ Len(v) = Len(w) + 1 /\ v # <<>>
      /\ v[Len(w) + 1] = z /\ Len(o) \in Nat /\ Len(p) \in Nat
      /\ \A i \in 1..Len(w) : v[i] = w[i] /\ v[i] \in StreamPiece
  BY Appended
<1>2. Unwritten(w, r, p, o, x) /\ Begun(p, r) \in Nat
  BY <1>1 DEF StreamOK, Begun
<1>3. Paired(v, r)
  <2>1. w # <<>> => w[Len(w)].part # "first"
    BY <1>1 DEF Current, HalfWritten, Begins, StreamPiece
  <2>2. w = <<>> => Len(w) = 0 /\ r.pc # "body"
    BY DEF Current, HalfWritten, MReader
  <2>3. w # <<>> => Len(w) >= 1
    BY <1>1
  <2>. QED  BY <1>1, <2>1, <2>2, <2>3, SMTT(20) DEF StreamOK, Paired
<1>4. ASSUME NEW i \in 1..Len(v), NEW y, Begins(v, i, y)
      PROVE  (i \in 1..Len(w) /\ Begins(w, i, y)) \/ (i = Len(v) /\ y = x)
  BY <1>1, <1>4 DEF Begins
<1>5. ASSUME NEW i \in 1..Len(w), NEW y, Begins(w, i, y)
      PROVE  i \in 1..Len(v) /\ Begins(v, i, y)
  BY <1>1, <1>5 DEF Begins
<1>6. Len(v) \in 1..Len(v) /\ Begins(v, Len(v), o[Len(o)]) /\ Len(o) \in (Begun(p, r) + 1)..Len(o)
  BY <1>1, <1>2 DEF Begins, Unwritten
<1>7. ASSUME NEW k \in (Begun(p, r) + 1)..Len(o)
      PROVE  \E i \in 1..Len(v) : Begins(v, i, o[k])
  <2>1. CASE k = Len(o)
    BY <1>6, <2>1
  <2>2. CASE k # Len(o)
    BY <1>5, <1>7, <2>2 DEF Current
  <2>. QED  BY <2>1, <2>2
<1>8. Queued(v, o, Begun(p, r))
  <2>1. ASSUME NEW i \in 1..Len(v), v[i].part = "first"
        PROVE  \E k \in (Begun(p, r) + 1)..Len(o) : Begins(v, i, o[k])
    <3>1. CASE i \in 1..Len(w)
      <4>1. w[i].part = "first"
        BY <1>1, <2>1, <3>1
      <4>. QED  BY <1>5, <3>1, <4>1 DEF StreamOK, Queued
    <3>2. CASE i = Len(v)
      BY <1>6, <3>2
    <3>. QED  BY <1>1, <3>1, <3>2
  <2>2. ASSUME NEW i \in 1..Len(v), NEW j \in 1..Len(v), NEW k \in 1..Len(o), NEW l \in 1..Len(o),
               i < j, Begins(v, i, o[k]), Begins(v, j, o[l])
        PROVE  k < l
    <3>1. i \in 1..Len(w) /\ Begins(w, i, o[k])
      BY <1>1, <1>4, <2>2
    <3>2. CASE j \in 1..Len(w) /\ Begins(w, j, o[l])
      BY <2>2, <3>1, <3>2 DEF StreamOK, Queued
    <3>3. CASE o[l] = x
      <4>1. l = Len(o) /\ k # Len(o)
        BY <1>1, <1>2, <3>1, <3>3 DEF StreamOK, Unwritten
      <4>. QED  BY <1>1, <4>1
    <3>. QED  BY <1>4, <2>2, <3>2, <3>3
  <2>. QED  BY <1>7, <2>1, <2>2 DEF Queued
<1>9. StreamOK(v, r, p, o, {})
  BY <1>3, <1>8 DEF StreamOK
<1>10. Current(v, r, p, o, {}, {x})
  <2>1. \A y \in MBundles : HalfWritten(v, r, y) <=> y = x
    BY <1>1 DEF HalfWritten, Begins
  <2>. QED  BY <1>7, <2>1 DEF Current
<1>. QED  BY <1>9, <1>10

(* Its second write.                                                       *)
LEMMA RestWritten ==
    ASSUME NEW w \in Seq(StreamPiece), NEW r \in MReader, NEW p \in Seq(MBundles),
           NEW o \in Seq(MBundles), NEW x \in MBundles, NEW z \in StreamPiece,
           z.part = "rest", z.bundle = x, NEW f,
           StreamOK(w, r, p, o, f), Current(w, r, p, o, f, {x}), NEW v, v = Append(w, z)
    PROVE  StreamOK(v, r, p, o, f) /\ Current(v, r, p, o, f, {})
<1>1. /\ v \in Seq(StreamPiece) /\ Len(w) \in Nat /\ Len(v) = Len(w) + 1 /\ v # <<>>
      /\ v[Len(w) + 1] = z /\ Len(o) \in Nat /\ Len(p) \in Nat
      /\ \A i \in 1..Len(w) : v[i] = w[i] /\ v[i] \in StreamPiece
  BY Appended
<1>2. Paired(v, r)
  <2>0. HalfWritten(w, r, x)
    BY DEF Current
  <2>1. CASE w # <<>>
    <3>1. w[Len(w)].part = "first" /\ w[Len(w)].bundle = x /\ Len(w) >= 1
      BY <1>1, <2>0, <2>1 DEF HalfWritten, Begins
    <3>. QED  BY <1>1, <2>1, <3>1 DEF StreamOK, Paired
  <2>2. CASE w = <<>>
    <3>1. Len(w) = 0 /\ r.pc = "body" /\ r.bundle = x
      BY <2>0, <2>2 DEF HalfWritten
    <3>. QED  BY <1>1, <3>1 DEF Paired
  <2>. QED  BY <2>1, <2>2
<1>3. ASSUME NEW i \in 1..Len(v), NEW y, Begins(v, i, y)
      PROVE  i \in 1..Len(w) /\ Begins(w, i, y)
  BY <1>1, <1>3 DEF Begins
<1>4. ASSUME NEW i \in 1..Len(w), NEW y, Begins(w, i, y)
      PROVE  i \in 1..Len(v) /\ Begins(v, i, y)
  BY <1>1, <1>4 DEF Begins
<1>5. Queued(v, o, Begun(p, r))
  <2>1. ASSUME NEW i \in 1..Len(v), v[i].part = "first"
        PROVE  \E k \in (Begun(p, r) + 1)..Len(o) : Begins(v, i, o[k])
    <3>1. i \in 1..Len(w) /\ w[i].part = "first"
      BY <1>1, <2>1
    <3>. QED  BY <1>4, <3>1 DEF StreamOK, Queued
  <2>. QED  BY <1>3, <1>4, <2>1 DEF StreamOK, Queued
<1>6. StreamOK(v, r, p, o, f)
  BY <1>2, <1>3, <1>5 DEF StreamOK, Unwritten
<1>7. Current(v, r, p, o, f, {})
  <2>1. \A y \in MBundles : ~HalfWritten(v, r, y)
    BY <1>1 DEF HalfWritten, Begins
  <2>. QED  BY <1>4, <2>1 DEF Current
<1>. QED  BY <1>6, <1>7

(* A Send takes the mutex.                                                 *)
LEMMA Locked ==
    ASSUME NEW w \in Seq(StreamPiece), NEW r \in MReader, NEW p \in Seq(MBundles),
           NEW o \in Seq(MBundles), NEW x \in MBundles, \A k \in 1..Len(o) : o[k] # x,
           StreamOK(w, r, p, o, {}), NEW q, q = Append(o, x)
    PROVE  /\ StreamOK(w, r, p, q, {x})
           /\ Current(w, r, p, o, {}, {}) => Current(w, r, p, q, {x}, {})
<1>1. /\ q \in Seq(MBundles) /\ Len(o) \in Nat /\ Len(q) = Len(o) + 1 /\ q[Len(o) + 1] = x
      /\ (\A k \in 1..Len(o) : q[k] = o[k]) /\ Len(p) \in Nat /\ Len(w) \in Nat
  BY AppendProperties
<1>2. Begun(p, r) \in Nat /\ Begun(p, r) <= Len(o)
  BY <1>1 DEF StreamOK, Found, Begun
<1>3. Found(r, p, q)
  BY <1>1, <1>2 DEF StreamOK, Found, Begun
<1>4. ASSUME NEW i \in 1..Len(w), NEW k \in 1..Len(q), Begins(w, i, q[k])
      PROVE  k \in 1..Len(o) /\ Begins(w, i, o[k])
  <2>0. PICK l \in (Begun(p, r) + 1)..Len(o) : Begins(w, i, o[l])
    <3>1. w[i].part = "first"
      BY <1>4 DEF Begins
    <3>2. Queued(w, o, Begun(p, r))
      BY DEF StreamOK
    <3>. QED  BY <3>1, <3>2 DEF Queued
  <2>1. l \in 1..Len(o) /\ Begins(w, i, o[l])
    BY <1>1, <1>2, <2>0
  <2>2. q[k] = o[l] /\ q[k] # x
    BY <1>4, <2>1 DEF Begins
  <2>3. k # Len(q)
    BY <1>1, <2>2
  <2>4. k \in 1..Len(o) /\ q[k] = o[k]
    BY <1>1, <2>3
  <2>. QED  BY <1>4, <2>4
<1>5. Queued(w, q, Begun(p, r))
  <2>1. \A i \in 1..Len(w) : w[i].part = "first" => \E k \in (Begun(p, r) + 1)..Len(q) : Begins(w, i, q[k])
    BY <1>1, <1>2 DEF StreamOK, Queued
  <2>2. ASSUME NEW i \in 1..Len(w), NEW j \in 1..Len(w), NEW k \in 1..Len(q), NEW l \in 1..Len(q),
               i < j, Begins(w, i, q[k]), Begins(w, j, q[l])
        PROVE  k < l
    BY <1>4, <2>2 DEF StreamOK, Queued
  <2>3. ASSUME NEW k \in (Begun(p, r) + 1)..Len(q), NEW l \in (Begun(p, r) + 1)..Len(q), NEW j \in 1..Len(w),
               k < l, Begins(w, j, q[l])
        PROVE  \E i \in 1..Len(w) : Begins(w, i, q[k])
    <3>1. l \in 1..Len(o) /\ Begins(w, j, o[l])
      BY <1>1, <1>2, <1>4, <2>3
    <3>2. k \in (Begun(p, r) + 1)..Len(o) /\ l \in (Begun(p, r) + 1)..Len(o) /\ q[k] = o[k]
      BY <1>1, <1>2, <2>3, <3>1
    <3>. QED  BY <2>3, <3>1, <3>2 DEF StreamOK, Queued
  <2>. QED  BY <2>1, <2>2, <2>3 DEF Queued
<1>6. Unwritten(w, r, p, q, x)
  <2>1. ASSUME NEW i \in 1..Len(w)
        PROVE  ~Begins(w, i, x)
    BY <1>1, <1>4
  <2>. QED  BY <1>1, <1>2, <2>1 DEF Unwritten
<1>7. \A j, k \in 1..Len(q) : q[j] = q[k] => j = k
  BY <1>1 DEF StreamOK
<1>8. StreamOK(w, r, p, q, {x})
  BY <1>3, <1>5, <1>6, <1>7 DEF StreamOK
<1>9. ASSUME Current(w, r, p, o, {}, {})
      PROVE  Current(w, r, p, q, {x}, {})
  <2>1. ASSUME NEW k \in (Begun(p, r) + 1)..Len(q)
        PROVE  (\E i \in 1..Len(w) : Begins(w, i, q[k])) \/ (k = Len(q) /\ q[k] \in {x})
    BY <1>1, <1>2, <1>9 DEF Current
  <2>. QED  BY <1>9, <2>1 DEF Current
<1>. QED  BY <1>8, <1>9

(* What is on the wire is lost, and the server goes on or gives up.        *)
LEMMA WireLost ==
    ASSUME NEW w \in Seq(StreamPiece), NEW r \in MReader, NEW p \in Seq(MBundles),
           NEW o \in Seq(MBundles), NEW f, StreamOK(w, r, p, o, f),
           NEW g \in MReader, g = r \/ g.pc = "gone"
    PROVE  StreamOK(<<>>, g, p, o, f)
<1>1. Len(p) \in Nat /\ Len(o) \in Nat /\ Len(<< >>) = 0 /\ Begun(p, g) <= Begun(p, r)
      /\ Begun(p, r) \in Nat /\ Begun(p, g) \in Nat
  BY DEF Begun, InBundle
<1>2. Found(g, p, o)
  <2>1. Found(r, p, o)
    BY DEF StreamOK
  <2>2. CASE g = r
    BY <2>1, <2>2
  <2>3. CASE g.pc = "gone"
    BY <1>1, <2>1, <2>3 DEF Found, Begun, InBundle
  <2> QED BY <2>2, <2>3
<1>3. Paired(<<>>, g) /\ Queued(<<>>, o, Begun(p, g))
  BY <1>1 DEF Paired, Queued
<1>4. \A x \in f : Unwritten(<<>>, g, p, o, x)
  BY <1>1 DEF StreamOK, Unwritten
<1>. QED  BY <1>2, <1>3, <1>4 DEF StreamOK

(* The server passes a bundle on.                                          *)
LEMMA BundlePassed ==
    ASSUME NEW w \in Seq(StreamPiece), NEW r \in MReader, NEW p \in Seq(MBundles),
           NEW o \in Seq(MBundles), NEW f, NEW h, StreamOK(w, r, p, o, f), r.pc = "report",
           NEW q, q = Append(p, r.bundle), NEW g \in MReader, g.pc = "len"
    PROVE  /\ StreamOK(w, g, q, o, f)
           /\ Current(w, r, p, o, f, h) => Current(w, g, q, o, f, h)
<1>1. /\ r.bundle \in MBundles /\ q \in Seq(MBundles) /\ Len(q) = Len(p) + 1 /\ q[Len(p) + 1] = r.bundle
      /\ \A k \in 1..Len(p) : q[k] = p[k]
      /\ Len(p) \in Nat /\ Len(o) \in Nat
  BY AppendProperties DEF MReader
<1>2. Begun(q, g) = Begun(p, r) /\ Begun(p, r) = Len(p) + 1
  BY <1>1 DEF Begun, InBundle
<1>3. Found(g, q, o)
  BY <1>1, <1>2 DEF StreamOK, Found, InBundle
<1>4. Paired(w, g)
  BY DEF StreamOK, Paired
<1>. QED  BY <1>2, <1>3, <1>4 DEF StreamOK, Unwritten, Current, HalfWritten

(* The server's reader finds a length, zero or that of the next bundle,    *)
(* or the rest of the bundle it has begun, and nothing else.               *)
LEMMA PieceRead ==
    ASSUME NEW w \in Seq(StreamPiece), NEW r \in MReader, NEW p \in Seq(MBundles),
           NEW o \in Seq(MBundles), NEW f, StreamOK(w, r, p, o, f), w # <<>>, r.pc \in {"len", "body"}
    PROVE  \/ r.pc = "len" /\ w[1].part = "zero"
           \/ /\ r.pc = "len" /\ w[1].part = "first" /\ w[1].bundle \in MBundles
              /\ Len(p) + 1 <= Len(o) /\ w[1].bundle = o[Len(p) + 1]
              /\ \A x \in f : Len(p) + 1 < Len(o)
           \/ r.pc = "body" /\ w[1].part = "rest" /\ w[1].bundle = r.bundle
<1>1. Len(w) \in Nat /\ 1 \in 1..Len(w) /\ w[1] \in StreamPiece /\ Len(o) \in Nat /\ Len(p) \in Nat
  OBVIOUS
<1>2. CASE r.pc = "len" /\ w[1].part = "first"
  <2>1. Begun(p, r) = Len(p)
    BY <1>2 DEF Begun, InBundle
  <2>2. PICK k \in (Len(p) + 1)..Len(o) : Begins(w, 1, o[k])
    BY <1>1, <1>2, <2>1 DEF StreamOK, Queued
  <2>3. k = Len(p) + 1
    <3>1. SUFFICES ASSUME k # Len(p) + 1
                   PROVE  FALSE
      OBVIOUS
    <3>2. Len(p) + 1 \in (Len(p) + 1)..Len(o) /\ Len(p) + 1 < k
      BY <1>1, <3>1
    <3>3. PICK i \in 1..Len(w) : Begins(w, i, o[Len(p) + 1])
      BY <1>1, <2>1, <2>2, <3>2 DEF StreamOK, Queued
    <3>4. i = 1 \/ 1 < i
      BY <1>1
    <3>5. 1 < i => k < Len(p) + 1
      <4>1. k \in 1..Len(o) /\ Len(p) + 1 \in 1..Len(o)
        BY <1>1, <3>2
      <4>. QED  BY <1>1, <2>2, <3>3, <4>1 DEF StreamOK, Queued
    <3>6. i = 1 => k = Len(p) + 1
      BY <1>1, <2>2, <3>2, <3>3 DEF Begins, StreamOK
    <3>. QED  BY <1>1, <3>2, <3>4, <3>5, <3>6
  <2>4. w[1].bundle \in MBundles
    BY <1>1, <1>2 DEF StreamPiece
  <2>5. ASSUME NEW x \in f
        PROVE  Len(p) + 1 < Len(o)
    <3>1. x = o[Len(o)] /\ ~Begins(w, 1, x)
      BY <1>1 DEF StreamOK, Unwritten
    <3>2. Len(p) + 1 # Len(o)
      BY <2>2, <2>3, <3>1
    <3>. QED  BY <1>1, <2>2, <2>3, <3>2
  <2>. QED  BY <1>1, <1>2, <2>2, <2>3, <2>4, <2>5 DEF Begins
<1>3. CASE r.pc = "body"
  BY <1>1, <1>3 DEF StreamOK, Paired
<1>4. CASE r.pc = "len" /\ w[1].part # "first"
  BY <1>1, <1>4 DEF StreamOK, Paired, StreamPiece
<1>. QED  BY <1>2, <1>3, <1>4

(* The pieces after the first one.                                         *)
LEMMA Remaining ==
    ASSUME NEW w \in Seq(StreamPiece), w # <<>>, NEW v, v = Tail(w)
    PROVE  /\ v \in Seq(StreamPiece) /\ Len(w) \in Nat /\ Len(w) >= 1 /\ Len(v) = Len(w) - 1
           /\ \A i \in 1..Len(v) : v[i] = w[i + 1] /\ i + 1 \in 2..Len(w)
           /\ \A i \in 1..Len(v) : \A x : Begins(v, i, x) <=> Begins(w, i + 1, x)
           /\ \A i \in 2..Len(w) : i - 1 \in 1..Len(v) /\ v[i - 1] = w[i]
           /\ \A i \in 2..Len(w) : \A x : Begins(w, i, x) => Begins(v, i - 1, x)
<1>1. /\ v \in Seq(StreamPiece) /\ Len(w) \in Nat /\ Len(w) >= 1 /\ Len(v) = Len(w) - 1
      /\ \A i \in 1..Len(v) : v[i] = w[i + 1]
  BY HeadTailProperties
<1>2. /\ \A i \in 1..Len(v) : i + 1 \in 2..Len(w)
      /\ \A i \in 2..Len(w) : i - 1 \in 1..Len(v) /\ (i - 1) + 1 = i
  BY <1>1
<1>. QED  BY <1>1, <1>2 DEF Begins

(* The server reads the first piece on the wire *)
LEMMA AfterRead ==
    ASSUME NEW w \in Seq(StreamPiece), NEW r \in MReader, NEW p \in Seq(MBundles),
           NEW o \in Seq(MBundles), NEW f, NEW h, StreamOK(w, r, p, o, f), w # <<>>,
           NEW v, v = Tail(w), NEW g \in MReader,
           \/ r.pc = "len" /\ w[1].part = "zero" /\ g = r
           \/ /\ r.pc = "len" /\ w[1].part = "first" /\ g.pc = "body" /\ g.bundle = w[1].bundle
              /\ Len(p) + 1 <= Len(o) /\ w[1].bundle = o[Len(p) + 1]
              /\ \A x \in f : Len(p) + 1 < Len(o)
           \/ r.pc = "body" /\ w[1].part = "rest" /\ g.pc = "report" /\ g.bundle = r.bundle
    PROVE  /\ StreamOK(v, g, p, o, f)
           /\ Current(w, r, p, o, f, h) => Current(v, g, p, o, f, h)
<1>1. /\ v \in Seq(StreamPiece) /\ Len(w) \in Nat /\ Len(w) >= 1 /\ Len(v) = Len(w) - 1
      /\ \A i \in 1..Len(v) : v[i] = w[i + 1] /\ i + 1 \in 2..Len(w)
      /\ \A i \in 1..Len(v) : \A x : Begins(v, i, x) <=> Begins(w, i + 1, x)
      /\ \A i \in 2..Len(w) : i - 1 \in 1..Len(v) /\ v[i - 1] = w[i]
      /\ \A i \in 2..Len(w) : \A x : Begins(w, i, x) => Begins(v, i - 1, x)
  BY Remaining, ZenonT(30)
<1>2. Len(p) \in Nat /\ Len(o) \in Nat /\ (v # <<>> => Len(v) >= 1) /\ (v = <<>> => Len(v) = 0)
  <2>1. Len(p) \in Nat /\ Len(o) \in Nat
    OBVIOUS
  <2>2. v # <<>> => Len(v) # 0
    BY <1>1, EmptySeq
  <2>3. v = <<>> => Len(v) = 0
    BY EmptySeq
  <2>4. Len(v) \in Nat
    BY <1>1
  <2>. QED  BY <2>1, <2>2, <2>3, <2>4
<1>3. /\ Begun(p, g) \in Nat /\ Begun(p, r) \in Nat
      /\ Begun(p, g) = IF w[1].part = "first" THEN Begun(p, r) + 1 ELSE Begun(p, r)
      /\ w[1].part = "first" => Begun(p, r) = Len(p)
  BY <1>2 DEF Begun, InBundle
<1>4. Found(g, p, o)
  BY <1>2, <1>3 DEF StreamOK, Found, Begun, InBundle
<1>5. Paired(v, g)
  <2>1. ASSUME NEW i \in 1..(Len(v) - 1), v[i].part = "first"
        PROVE  v[i + 1].part = "rest" /\ v[i + 1].bundle = v[i].bundle
    <3>1. i \in 1..Len(v) /\ i + 1 \in 1..Len(v) /\ i + 1 \in 1..(Len(w) - 1)
      BY <1>1
    <3>2. v[i] = w[i + 1] /\ v[i + 1] = w[(i + 1) + 1]
      BY <1>1, <3>1
    <3>. QED  BY <2>1, <3>1, <3>2 DEF StreamOK, Paired
  <2>2. ASSUME NEW i \in 2..Len(v), v[i].part = "rest"
        PROVE  v[i - 1].part = "first"
    <3>1. i \in 1..Len(v) /\ i - 1 \in 1..Len(v) /\ i + 1 \in 2..Len(w) /\ (i - 1) + 1 = i /\ (i + 1) - 1 = i
      BY <1>1
    <3>2. v[i] = w[i + 1] /\ v[i - 1] = w[i]
      BY <1>1, <3>1
    <3>. QED  BY <2>2, <3>1, <3>2 DEF StreamOK, Paired
  <2>3. ASSUME v # <<>>
        PROVE  IF g.pc = "body" THEN v[1].part = "rest" /\ v[1].bundle = g.bundle ELSE v[1].part # "rest"
    <3>1. 1 \in 1..Len(v) /\ v[1] = w[2] /\ 2 \in 2..Len(w) /\ 1 \in 1..(Len(w) - 1)
      BY <1>1, <1>2, <2>3
    <3>2. w[2].part = "rest" => w[1].part = "first"
      BY <3>1 DEF StreamOK, Paired
    <3>3. w[1].part = "first" => w[2].part = "rest" /\ w[2].bundle = w[1].bundle
      BY <3>1 DEF StreamOK, Paired
    <3>. QED  BY <3>1, <3>2, <3>3
  <2>. QED  BY <2>1, <2>2, <2>3 DEF Paired
<1>6. Queued(v, o, Begun(p, g))
  <2>1. ASSUME NEW i \in 1..Len(v), v[i].part = "first"
        PROVE  \E k \in (Begun(p, g) + 1)..Len(o) : Begins(v, i, o[k])
    <3>1. i + 1 \in 2..Len(w) /\ i + 1 \in 1..Len(w) /\ w[i + 1].part = "first"
      BY <1>1, <2>1
    <3>2. PICK k \in (Begun(p, r) + 1)..Len(o) : Begins(w, i + 1, o[k])
      BY <3>1 DEF StreamOK, Queued
    <3>3. w[1].part = "first" => Begun(p, r) + 1 < k
      <4>. SUFFICES ASSUME w[1].part = "first"
                    PROVE  Begun(p, r) + 1 < k
        OBVIOUS
      <4>1. Begins(w, 1, o[Begun(p, r) + 1]) /\ Begun(p, r) + 1 \in 1..Len(o) /\ k \in 1..Len(o)
        BY <1>2, <1>3 DEF Begins
      <4>2. 1 \in 1..Len(w) /\ 1 < i + 1
        BY <1>1, <3>1
      <4>. QED  BY <3>1, <3>2, <4>1, <4>2 DEF StreamOK, Queued
    <3>4. k \in (Begun(p, g) + 1)..Len(o)
      BY <1>2, <1>3, <3>3
    <3>. QED  BY <1>1, <3>2, <3>4
  <2>2. ASSUME NEW i \in 1..Len(v), NEW j \in 1..Len(v), NEW k \in 1..Len(o), NEW l \in 1..Len(o),
               i < j, Begins(v, i, o[k]), Begins(v, j, o[l])
        PROVE  k < l
    <3>1. i + 1 \in 1..Len(w) /\ j + 1 \in 1..Len(w) /\ i + 1 < j + 1
      BY <1>1, <2>2
    <3>2. Begins(w, i + 1, o[k]) /\ Begins(w, j + 1, o[l])
      BY <1>1, <2>2
    <3>3. Queued(w, o, Begun(p, r))
      BY DEF StreamOK
    <3>. QED  BY <3>1, <3>2, <3>3 DEF Queued
  <2>3. ASSUME NEW k \in (Begun(p, g) + 1)..Len(o), NEW l \in (Begun(p, g) + 1)..Len(o), NEW j \in 1..Len(v),
               k < l, Begins(v, j, o[l])
        PROVE  \E i \in 1..Len(v) : Begins(v, i, o[k])
    <3>1. k \in (Begun(p, r) + 1)..Len(o) /\ l \in (Begun(p, r) + 1)..Len(o) /\ j + 1 \in 1..Len(w)
      BY <1>1, <1>2, <1>3
    <3>2. PICK i \in 1..Len(w) : Begins(w, i, o[k])
      BY <1>1, <2>3, <3>1 DEF StreamOK, Queued
    <3>3. i # 1
      BY <1>2, <1>3, <3>2, SMTT(20) DEF Begins, StreamOK
    <3>4. i \in 2..Len(w)
      BY <1>1, <3>3
    <3>. QED  BY <1>1, <3>2, <3>4
  <2>. QED  BY <2>1, <2>2, <2>3 DEF Queued
<1>7. \A x \in f : Unwritten(v, g, p, o, x)
  <2>. SUFFICES ASSUME NEW x \in f
                PROVE  Unwritten(v, g, p, o, x)
    OBVIOUS
  <2>1. Unwritten(w, r, p, o, x)
    BY DEF StreamOK
  <2>2. Begun(p, g) < Len(o)
    BY <1>2, <1>3, <2>1 DEF Unwritten
  <2>3. \A i \in 1..Len(v) : ~Begins(v, i, x)
    BY <1>1, <2>1 DEF Unwritten
  <2>. QED  BY <2>1, <2>2, <2>3 DEF Unwritten
<1>8. StreamOK(v, g, p, o, f)
  BY <1>4, <1>5, <1>6, <1>7 DEF StreamOK
<1>9. ASSUME Current(w, r, p, o, f, h)
      PROVE  Current(v, g, p, o, f, h)
  <2>1. ASSUME NEW k \in (Begun(p, g) + 1)..Len(o)
        PROVE  (\E i \in 1..Len(v) : Begins(v, i, o[k])) \/ (k = Len(o) /\ o[k] \in f)
    <3>1. k \in (Begun(p, r) + 1)..Len(o)
      BY <1>2, <1>3
    <3>2. ASSUME NEW i \in 1..Len(w), Begins(w, i, o[k])
          PROVE  \E j \in 1..Len(v) : Begins(v, j, o[k])
      <4>1. i # 1
        BY <1>2, <1>3, <3>2 DEF Begins, StreamOK
      <4>2. i \in 2..Len(w)
        BY <1>1, <4>1
      <4>. QED  BY <1>1, <3>2, <4>2
    <3>. QED  BY <1>9, <3>1, <3>2 DEF Current
  <2>2. ASSUME NEW x \in MBundles
        PROVE  HalfWritten(v, g, x) <=> HalfWritten(w, r, x)
    <3>1. CASE v # <<>>
      <4>1. Len(v) \in 1..Len(v) /\ Len(v) + 1 = Len(w)
        BY <1>1, <1>2, <3>1
      <4>2. Begins(v, Len(v), x) <=> Begins(w, Len(w), x)
        BY <1>1, <4>1
      <4>. QED  BY <3>1, <4>2 DEF HalfWritten
    <3>2. CASE v = <<>>
      <4>1. Len(w) = 1
        BY <1>1, <1>2, <3>2
      <4>. QED  BY <3>2, <4>1 DEF HalfWritten, Begins
    <3>. QED  BY <3>1, <3>2
  <2>. QED  BY <1>9, <2>1, <2>2 DEF Current
<1>. QED  BY <1>8, <1>9
-----------------------------------------------------------------------------
(* A step that does not touch the stream of c, or ends its last write.     *)
LEMMA StreamIdle ==
    ASSUME NEW c \in MConns, MTypes, ConnInv(c),
           wire'[c] = wire[c], srv'[c] = srv[c], passed'[c] = passed[c], order'[c] = order[c],
           \A x \in MBundles : send[x].pc \notin {"idle", "lock"} => send'[x].pc \notin {"idle", "lock"},
           \A x \in Writing(c, "first")' : x \in Writing(c, "first"),
           link'[c] = "up" => /\ link[c] = "up"
                              /\ Writing(c, "first")' = Writing(c, "first")
                              /\ Writing(c, "rest")' = Writing(c, "rest"),
           link'[c] = "cut" => link[c] = "cut"
    PROVE  ConnInv(c)'
<1>1. \A k \in 1..Len(order[c]) : order[c][k] \in MBundles
  BY DEF MTypes
<1>2. \A k \in 1..Len(order'[c]) : send'[order'[c][k]].pc \notin {"idle", "lock"}
  BY <1>1 DEF ConnInv
<1>3. StreamOK(wire'[c], srv'[c], passed'[c], order'[c], Writing(c, "first")')
  BY DEF ConnInv, StreamOK
<1>4. link'[c] = "up" =>
          Current(wire'[c], srv'[c], passed'[c], order'[c], Writing(c, "first")', Writing(c, "rest")')
  BY DEF ConnInv
<1>5. link'[c] = "cut" => wire'[c] = <<>>
  BY DEF ConnInv
<1>. QED  BY <1>2, <1>3, <1>4, <1>5 DEF ConnInv

(* A step that loses what was on the wire of c, and perhaps its reader.    *)
LEMMA StreamLost ==
    ASSUME NEW c \in MConns, MTypes, ConnInv(c), link'[c] # "up", send' = send,
           wire'[c] = <<>>, srv'[c] = srv[c] \/ srv'[c] = [pc |-> "gone"],
           passed'[c] = passed[c], order'[c] = order[c]
    PROVE  ConnInv(c)'
<1>1. PICK w \in Seq(StreamPiece), r \in MReader, p \in Seq(MBundles), o \in Seq(MBundles) :
         wire[c] = w /\ srv[c] = r /\ passed[c] = p /\ order[c] = o
  BY DEF MTypes
<1>2. PICK f : f = Writing(c, "first") /\ f = Writing(c, "first")'
  BY DEF Writing
<1>3. PICK g \in MReader : srv'[c] = g /\ (g = r \/ g.pc = "gone")
  BY <1>1 DEF MReader
<1>4. StreamOK(<<>>, g, p, o, f)
  BY <1>1, <1>2, <1>3, WireLost DEF ConnInv
<1>5. StreamOK(wire'[c], srv'[c], passed'[c], order'[c], Writing(c, "first")')
  BY <1>1, <1>2, <1>3, <1>4
<1>. QED  BY <1>5 DEF ConnInv

(* Whoever writes has the mutex, so that nobody else writes.               *)
LEMMA OneWriter ==
    ASSUME MTypes, Turns
    PROVE  /\ conn > 0 => conn \in MConns
           /\ \A x \in MBundles : send[x].pc \in {"first", "rest", "probe"} =>
                 /\ send[x].conn \in MConns /\ conn \in MConns /\ mutex = x
                 /\ \A y \in MBundles : y # x => send[y].pc \notin {"first", "rest", "probe"}
           /\ mutex \in {Nobody, "handler"} =>
                 \A y \in MBundles : send[y].pc \notin {"first", "rest", "probe"}
<1>1. conn > 0 => conn \in MConns
  BY HoldersAssumption DEF MTypes, MConns
<1>2. ASSUME NEW x \in MBundles, send[x].pc \in {"first", "rest", "probe"}
      PROVE  send[x].conn \in MConns /\ conn \in MConns /\ mutex = x
  <2>1. mutex = x /\ send[x].conn > 0 /\ conn > 0
    BY <1>2 DEF Turns
  <2>2. send[x].conn \in 0..MaxStarts
    BY DEF MTypes
  <2>. QED  BY <1>1, <2>1, <2>2, HoldersAssumption DEF MConns
<1>. QED  BY <1>1, <1>2, HoldersAssumption DEF Turns

(* The steps that leave all streams alone.                                 *)
LEMMA StreamQuiet ==
    ASSUME StreamInv,
           \/ HandlerAppear \/ Keepalive \/ HandlerReport \/ MClose \/ HandlerStop
           \/ CloseReturns \/ ServerClose
           \/ \E x \in MBundles : MSend(x) \/ SendReport(x)
    PROVE  StreamInv'
<1>. USE DEF StreamInv
<1>1. CASE \/ HandlerAppear \/ Keepalive \/ HandlerReport \/ MClose
           \/ CloseReturns \/ ServerClose
  <2>1. MTypes'
    BY <1>1 DEF MTypes, HandlerAppear, Keepalive, HandlerReport, MClose, CloseReturns, ServerClose
  <2>2. Turns'
    <3>1. mutex' = mutex \/ (mutex = Nobody /\ mutex' = "handler" /\ send' = send)
      BY <1>1 DEF HandlerAppear, Keepalive, HandlerReport, MClose, CloseReturns, ServerClose
    <3>2. mutex = Nobody => \A y \in MBundles : send[y].pc \notin {"first", "rest", "probe"}
      BY OneWriter
    <3>. QED  BY <1>1, <3>1, <3>2
              DEF Turns, HandlerAppear, Keepalive, HandlerReport, MClose, CloseReturns, ServerClose
  <2>3. ASSUME NEW c \in MConns
        PROVE  ConnInv(c)'
    <3>1. /\ wire' = wire /\ srv' = srv /\ passed' = passed /\ order' = order /\ send' = send
          /\ link' = link
      BY <1>1 DEF HandlerAppear, Keepalive, HandlerReport, MClose, CloseReturns, ServerClose
    <3>2. Writing(c, "first")' = Writing(c, "first") /\ Writing(c, "rest")' = Writing(c, "rest")
      BY <3>1 DEF Writing
    <3>. QED  BY <3>1, <3>2, StreamIdle
  <2>. QED  BY <2>1, <2>2, <2>3
<1>2. CASE HandlerStop
  <2>1. conn \in MConns
    BY <1>2, OneWriter DEF HandlerStop, Turns
  <2>2. MTypes' /\ Turns'
    BY <1>2, <2>1 DEF HandlerStop, MTypes, Turns
  <2>3. ASSUME NEW c \in MConns
        PROVE  ConnInv(c)'
    <3>1. /\ wire' = wire /\ srv' = srv /\ passed' = passed /\ order' = order /\ send' = send
          /\ link'[c] = link[c] \/ link'[c] = "closed"
      BY <1>2, <2>1 DEF HandlerStop, MTypes
    <3>2. Writing(c, "first")' = Writing(c, "first") /\ Writing(c, "rest")' = Writing(c, "rest")
      BY <3>1 DEF Writing
    <3>. QED  BY <3>1, <3>2, StreamIdle
  <2>. QED  BY <2>2, <2>3
<1>3. CASE \E x \in MBundles : MSend(x) \/ SendReport(x)
  <2>1. PICK x \in MBundles : MSend(x) \/ SendReport(x)
    BY <1>3
  <2>2. PICK pc \in {"lock", "err"} :
           /\ send' = [send EXCEPT ![x].pc = pc] /\ send[x].pc \in {"idle", "report"}
           /\ IF pc = "lock" THEN send[x].pc = "idle" /\ conn > 0 ELSE send[x].pc = "report"
    BY <2>1 DEF MSend, SendReport, Goto
  <2>3. UNCHANGED <<handler, conn, link, wire, mutex, srv, passed, order>>
    BY <2>1 DEF MSend, SendReport
  <2>4. \A y \in MBundles : /\ send'[y].conn = send[y].conn
                            /\ y # x => send'[y] = send[y]
                            /\ y = x => send'[y].pc = pc
    BY <2>2 DEF MTypes
  <2>5. MTypes'
    BY <2>2, <2>3 DEF MTypes
  <2>6. Turns'
    <3>1. ASSUME NEW y \in MBundles
          PROVE  /\ send'[y].pc \in {"first", "rest", "probe"} => mutex' = y /\ send'[y].conn > 0
                 /\ send'[y].pc # "idle" => conn' > 0
                 /\ send'[y].conn <= conn'
      <4>1. CASE y = x
        BY <2>2, <2>3, <2>4, <4>1 DEF Turns
      <4>2. CASE y # x
        BY <2>3, <2>4, <4>2 DEF Turns
      <4>. QED  BY <4>1, <4>2
    <3>. QED  BY <2>3, <3>1 DEF Turns
  <2>7. ASSUME NEW c \in MConns
        PROVE  ConnInv(c)'
    <3>1. Writing(c, "first")' = Writing(c, "first") /\ Writing(c, "rest")' = Writing(c, "rest")
      BY <2>2, <2>4 DEF Writing
    <3>2. \A y \in MBundles : send[y].pc \notin {"idle", "lock"} => send'[y].pc \notin {"idle", "lock"}
      BY <2>2, <2>4
    <3>. QED  BY <2>3, <3>1, <3>2, StreamIdle
  <2>. QED  BY <2>5, <2>6, <2>7
<1>. QED  BY <1>1, <1>2, <1>3

(* A cut connection, the end of a stream, and the panic of a reader.       *)
LEMMA StreamEnds ==
    ASSUME StreamInv, Cut \/ \E c \in MConns : ServerEof(c) \/ ServerPanic(c)
    PROVE  StreamInv'
<1>. USE DEF StreamInv
<1>1. PICK d \in MConns :
         /\ wire' = [wire EXCEPT ![d] = <<>>]
         /\ link'[d] # "up" /\ link' \in [MConns -> {"none", "up", "cut", "closed"}]
         /\ \A c \in MConns : c # d => link'[c] = link[c]
         /\ srv' = srv \/ srv' = [srv EXCEPT ![d] = [pc |-> "gone"]]
         /\ srv[d].pc # "none" \/ srv' = srv
    <2>1. CASE Cut
      BY <2>1, ZenonT(30) DEF Cut, MTypes
    <2>2. CASE \E c \in MConns : ServerEof(c)
      <3>1. PICK c \in MConns : ServerEof(c)
        BY <2>2
      <3>2. wire' = [wire EXCEPT ![c] = <<>>]
        BY <3>1 DEF ServerEof, MTypes
      <3>. QED  BY <3>1, <3>2 DEF ServerEof, MTypes
    <2>3. CASE \E c \in MConns : ServerPanic(c)
      <3>1. PICK c \in MConns : ServerPanic(c)
        BY <2>3
      <3>2. PICK s \in {"none", "cut", "closed"} : link' = [link EXCEPT ![c] = s]
        BY <3>1 DEF ServerPanic, MTypes
      <3>3. /\ link'[c] # "up" /\ link' \in [MConns -> {"none", "up", "cut", "closed"}]
            /\ \A e \in MConns : e # c => link'[e] = link[e]
        BY <3>2 DEF MTypes
      <3>4. /\ wire' = [wire EXCEPT ![c] = <<>>] /\ srv' = [srv EXCEPT ![c] = [pc |-> "gone"]]
            /\ srv[c].pc # "none"
        BY <3>1 DEF ServerPanic
      <3>. QED  BY <3>3, <3>4
    <2>. QED  BY <2>1, <2>2, <2>3
<1>2. UNCHANGED <<handler, conn, mutex, send, passed, order>>
  BY DEF Cut, ServerEof, ServerPanic
<1>3. MTypes'
  <2>1. wire' \in [MConns -> Seq(StreamPiece)]
    BY <1>1, EmptySeq DEF MTypes
  <2>2. srv' \in [MConns -> MReader]
    BY <1>1 DEF MTypes, MReader
  <2>. QED  BY <1>1, <1>2, <2>1, <2>2 DEF MTypes
<1>4. Turns'
  BY <1>1, <1>2 DEF Turns, MTypes
<1>5. ASSUME NEW c \in MConns
      PROVE  ConnInv(c)'
  <2>1. CASE c = d
    <3>1. wire'[c] = <<>> /\ (srv'[c] = srv[c] \/ srv'[c] = [pc |-> "gone"])
      BY <1>1, <2>1 DEF MTypes
    <3>. QED  BY <1>1, <1>2, <2>1, <3>1, StreamLost
  <2>2. CASE c # d
    <3>1. wire'[c] = wire[c] /\ srv'[c] = srv[c] /\ link'[c] = link[c]
      BY <1>1, <2>2 DEF MTypes
    <3>2. Writing(c, "first")' = Writing(c, "first") /\ Writing(c, "rest")' = Writing(c, "rest")
      BY <1>2 DEF Writing
    <3>. QED  BY <1>2, <3>1, <3>2, StreamIdle
  <2>. QED  BY <2>1, <2>2
<1>. QED  BY <1>3, <1>4, <1>5

(* A new connection.                                                       *)
LEMMA StreamDialled ==
    ASSUME StreamInv, MStart
    PROVE  StreamInv'
<1>. USE DEF StreamInv
<1>. DEFINE d == conn + 1
<1>1. d \in MConns /\ d > conn /\ conn' = d /\ d \in 0..MaxStarts
  BY HoldersAssumption DEF MStart, MTypes, MConns
<1>2. /\ wire[d] = <<>> /\ passed[d] = <<>> /\ order[d] = <<>>
      /\ \A x \in MBundles : send[x].conn # d
  BY <1>1 DEF Turns, MTypes
<1>3. /\ link' = [link EXCEPT ![d] = "up"] /\ srv' = [srv EXCEPT ![d] = [pc |-> "len"]]
      /\ handler' = "appear" /\ UNCHANGED <<wire, mutex, send, passed, order>>
  BY DEF MStart
<1>. HIDE DEF d
<1>4. MTypes'
  BY <1>1, <1>3 DEF MTypes, MReader
<1>5. Turns'
  BY <1>1, <1>3 DEF Turns, MTypes, MConns
<1>6. ASSUME NEW c \in MConns
      PROVE  ConnInv(c)'
  <2>1. CASE c = d
    <3>1. Writing(c, "first")' = {} /\ Writing(c, "rest")' = {}
      BY <1>2, <1>3, <2>1 DEF Writing
    <3>2. wire'[c] = <<>> /\ srv'[c] = [pc |-> "len"] /\ passed'[c] = <<>> /\ order'[c] = <<>> /\ link'[c] = "up"
      BY <1>2, <1>3, <2>1 DEF MTypes
    <3>0. PICK r : r = [pc |-> "len"]
      OBVIOUS
    <3>3. r = [pc |-> "len"] /\ ~InBundle(r)
      BY <3>0 DEF InBundle
    <3>4. StreamOK(<<>>, r, <<>>, <<>>, {}) /\ Current(<<>>, r, <<>>, <<>>, {}, {})
      <4>1. Len(<< >>) = 0 /\ Begun(<<>>, r) = 0 /\ r.pc # "body"
        BY <3>3, EmptySeq DEF Begun
      <4>2. Found(r, <<>>, <<>>) /\ Paired(<<>>, r) /\ Queued(<<>>, <<>>, 0)
        BY <3>3, <4>1 DEF Found, Paired, Queued
      <4>. QED  BY <4>1, <4>2 DEF StreamOK, Current, HalfWritten
    <3>5. \A k \in 1..Len(order'[c]) : send'[order'[c][k]].pc \notin {"idle", "lock"}
      BY <3>2, EmptySeq
    <3>. QED  BY <3>1, <3>2, <3>3, <3>4, <3>5 DEF ConnInv
  <2>2. CASE c # d
    <3>1. wire'[c] = wire[c] /\ srv'[c] = srv[c] /\ link'[c] = link[c]
      BY <1>3, <2>2 DEF MTypes
    <3>2. Writing(c, "first")' = Writing(c, "first") /\ Writing(c, "rest")' = Writing(c, "rest")
      BY <1>3 DEF Writing
    <3>. QED  BY <1>3, <3>1, <3>2, StreamIdle
  <2>. QED  BY <2>1, <2>2
<1>. QED  BY <1>4, <1>5, <1>6

(* A Send that waited takes the mutex: it is the next one in the order.    *)
LEMMA StreamLocked ==
    ASSUME StreamInv, NEW x \in MBundles, SendLock(x)
    PROVE  StreamInv'
<1>. USE DEF StreamInv
<1>1. /\ send[x].pc = "lock" /\ mutex = Nobody /\ mutex' = x
      /\ send' = [send EXCEPT ![x] = [pc |-> "first", conn |-> conn]]
      /\ order' = [order EXCEPT ![conn] = Append(@, x)]
      /\ UNCHANGED <<handler, conn, link, wire, srv, passed>>
  BY DEF SendLock
<1>2. conn \in MConns /\ conn > 0 /\ \A y \in MBundles : send[y].pc \notin {"first", "rest", "probe"}
  <2>1. conn > 0
    BY <1>1 DEF Turns
  <2>. QED  BY <1>1, <2>1, OneWriter
<1>3. /\ send'[x] = [pc |-> "first", conn |-> conn]
      /\ \A y \in MBundles : y # x => send'[y] = send[y]
  BY <1>1 DEF MTypes
<1>4. MTypes'
  <2>1. order' \in [MConns -> Seq(MBundles)]
    BY <1>1, <1>2, AppendProperties DEF MTypes
  <2>. QED  BY <1>1, <1>2, <2>1 DEF MTypes
<1>5. Turns'
  <2>1. \A c \in MConns : c > conn => order'[c] = order[c]
    BY <1>1, <1>2 DEF MTypes, MConns
  <2>2. handler # "write"
    BY <1>1, HoldersAssumption DEF Turns
  <2>3. conn <= conn
    BY DEF MTypes
  <2>4. ASSUME NEW y \in MBundles
        PROVE  /\ send'[y].pc \in {"first", "rest", "probe"} => mutex' = y /\ send'[y].conn > 0
               /\ send'[y].pc # "idle" => conn' > 0
               /\ send'[y].conn <= conn'
    <3>1. CASE y = x
      BY <1>1, <1>2, <1>3, <2>3, <3>1
    <3>2. CASE y # x
      BY <1>1, <1>2, <1>3, <3>2 DEF Turns
    <3>. QED  BY <3>1, <3>2
  <2>. QED  BY <1>1, <1>2, <2>1, <2>2, <2>4 DEF Turns
<1>6. ASSUME NEW c \in MConns
      PROVE  ConnInv(c)'
  <2>0. Writing(c, "first") = {} /\ Writing(c, "rest") = {} /\ Writing(c, "rest")' = {}
    BY <1>2, <1>3 DEF Writing
  <2>1. CASE c = conn
    <3>1. PICK w \in Seq(StreamPiece), r \in MReader, p \in Seq(MBundles), o \in Seq(MBundles) :
             wire[c] = w /\ srv[c] = r /\ passed[c] = p /\ order[c] = o
      BY DEF MTypes
    <3>2. PICK q : q = Append(o, x) /\ order'[c] = q
      BY <1>1, <2>1, <3>1 DEF MTypes
    <3>3. Writing(c, "first")' = {x}
      BY <1>2, <1>3, <2>1 DEF Writing
    <3>4. StreamOK(w, r, p, o, {}) /\ (link[c] = "up" => Current(w, r, p, o, {}, {}))
      BY <2>0, <3>1 DEF ConnInv
    <3>5. \A k \in 1..Len(o) : o[k] # x /\ o[k] \in MBundles /\ send[o[k]].pc \notin {"idle", "lock"}
      BY <1>1, <3>1 DEF ConnInv, MTypes
    <3>6. /\ StreamOK(w, r, p, q, {x})
          /\ Current(w, r, p, o, {}, {}) => Current(w, r, p, q, {x}, {})
      BY <3>2, <3>4, <3>5, Locked
    <3>7. \A k \in 1..Len(q) : send'[q[k]].pc \notin {"idle", "lock"}
      <4>1. \A k \in 1..Len(q) : (k \in 1..Len(o) /\ q[k] = o[k]) \/ q[k] = x
        BY <3>2, AppendProperties
      <4>2. ASSUME NEW k \in 1..Len(o)
            PROVE  send'[o[k]].pc \notin {"idle", "lock"}
        BY <1>3, <3>5
      <4>3. send'[x].pc = "first"
        BY <1>3
      <4>. QED  BY <4>1, <4>2, <4>3
    <3>. QED  BY <1>1, <2>0, <3>1, <3>2, <3>3, <3>4, <3>6, <3>7 DEF ConnInv
  <2>2. CASE c # conn
    <3>1. order'[c] = order[c]
      BY <1>1, <2>2 DEF MTypes
    <3>2. Writing(c, "first")' = {}
      BY <1>2, <1>3, <2>2 DEF Writing
    <3>3. \A y \in MBundles : send[y].pc \notin {"idle", "lock"} => send'[y].pc \notin {"idle", "lock"}
      BY <1>3
    <3>. QED  BY <1>1, <2>0, <3>1, <3>2, <3>3, StreamIdle
  <2>. QED  BY <2>1, <2>2
<1>. QED  BY <1>4, <1>5, <1>6

(* A keepalive or a probe goes to a connection while nobody is in the      *)
(* middle of a bundle.                                                     *)
LEMMA StreamZero ==
    ASSUME MTypes, NEW c \in MConns, ConnInv(c),
           \A k \in {"first", "rest"} : Writing(c, k) = {} /\ Writing(c, k)' = {},
           \A x \in MBundles : send[x].pc \notin {"idle", "lock"} => send'[x].pc \notin {"idle", "lock"},
           link' = link, srv' = srv, passed' = passed, order' = order,
           wire'[c] = wire[c] \/ (link[c] = "up" /\ wire'[c] = Append(wire[c], Zero))
    PROVE  ConnInv(c)'
<1>0. /\ Writing(c, "first") = {} /\ Writing(c, "first")' = {}
      /\ Writing(c, "rest") = {} /\ Writing(c, "rest")' = {}
  OBVIOUS
<1>1. CASE wire'[c] = wire[c]
  BY <1>0, <1>1, StreamIdle
<1>2. CASE link[c] = "up" /\ wire'[c] = Append(wire[c], Zero)
  <2>1. PICK w \in Seq(StreamPiece), r \in MReader, p \in Seq(MBundles), o \in Seq(MBundles) :
           wire[c] = w /\ srv[c] = r /\ passed[c] = p /\ order[c] = o
    BY DEF MTypes
  <2>2. PICK z \in StreamPiece : z = Zero /\ z.part = "zero"
    BY DEF Zero, StreamPiece
  <2>3. PICK v : v = Append(w, z) /\ wire'[c] = v
    BY <1>2, <2>1, <2>2
  <2>4. StreamOK(w, r, p, o, {}) /\ Current(w, r, p, o, {}, {})
    BY <1>0, <1>2, <2>1 DEF ConnInv
  <2>5. StreamOK(v, r, p, o, {}) /\ Current(v, r, p, o, {}, {})
    BY <2>2, <2>3, <2>4, ZeroWritten
  <2>6. \A k \in 1..Len(o) : o[k] \in MBundles /\ send[o[k]].pc \notin {"idle", "lock"}
    BY <2>1 DEF ConnInv, MTypes
  <2>. QED  BY <1>0, <1>2, <2>1, <2>3, <2>5, <2>6 DEF ConnInv
<1>. QED  BY <1>1, <1>2

(* A write adds a piece to one connection, if that is up.                  *)
LEMMA PieceWritten ==
    ASSUME MTypes, NEW d \in MConns, NEW z \in StreamPiece,
           \/ wire' = wire
           \/ link[d] = "up" /\ wire' = [wire EXCEPT ![d] = Append(@, z)]
    PROVE  /\ wire' \in [MConns -> Seq(StreamPiece)]
           /\ \A c \in MConns : \/ wire'[c] = wire[c]
                                \/ c = d /\ link[c] = "up" /\ wire'[c] = Append(wire[c], z)
<1>1. CASE wire' = wire
  BY <1>1 DEF MTypes
<1>2. CASE link[d] = "up" /\ wire' = [wire EXCEPT ![d] = Append(@, z)]
  <2>1. PICK v : v = Append(wire[d], z)
    OBVIOUS
  <2>2. v \in Seq(StreamPiece)
    BY <2>1, AppendProperties DEF MTypes
  <2>3. wire' = [wire EXCEPT ![d] = v]
    BY <1>2, <2>1
  <2>. QED  BY <1>2, <2>1, <2>2, <2>3 DEF MTypes
<1>. QED  BY <1>1, <1>2

(* A keepalive keeps the stream invariant *)
LEMMA StreamKeepalive ==
    ASSUME StreamInv, KeepaliveWrite
    PROVE  StreamInv'
<1>. USE DEF StreamInv
<1>1. /\ handler = "write" /\ mutex = "handler" /\ mutex' = Nobody /\ handler' \in {"loop", "report"}
      /\ UNCHANGED <<conn, link, send, srv, passed, order>> /\ conn > 0
  BY DEF KeepaliveWrite, Turns
<1>2. conn \in MConns /\ \A y \in MBundles : send[y].pc \notin {"first", "rest", "probe"}
  BY <1>1, OneWriter
<1>3. \/ wire' = wire
      \/ link[conn] = "up" /\ wire' = [wire EXCEPT ![conn] = Append(@, Zero)]
  BY DEF KeepaliveWrite, Written, WriteFails
<1>0. /\ wire' \in [MConns -> Seq(StreamPiece)]
      /\ \A c \in MConns : \/ wire'[c] = wire[c]
                           \/ c = conn /\ link[c] = "up" /\ wire'[c] = Append(wire[c], Zero)
  <2>1. Zero \in StreamPiece
    BY DEF Zero, StreamPiece
  <2>. QED  BY <1>2, <1>3, <2>1, PieceWritten
<1>4. MTypes'
  BY <1>0, <1>1 DEF MTypes
<1>5. Turns'
  <2>1. \A c \in MConns : c > conn => wire'[c] = wire[c]
    BY <1>0, <1>2 DEF MConns
  <2>. QED  BY <1>1, <1>2, <2>1 DEF Turns
<1>6. ASSUME NEW c \in MConns
      PROVE  ConnInv(c)'
  <2>1. \A k \in {"first", "rest"} : Writing(c, k) = {} /\ Writing(c, k)' = {}
    BY <1>1, <1>2 DEF Writing
  <2>2. wire'[c] = wire[c] \/ (link[c] = "up" /\ wire'[c] = Append(wire[c], Zero))
    BY <1>0
  <2>. QED  BY <1>1, <2>1, <2>2, StreamZero
<1>. QED  BY <1>4, <1>5, <1>6

(* The three writes of a Send, which has the mutex.                        *)
LEMMA StreamSent ==
    ASSUME StreamInv, NEW x \in MBundles, SendFirst(x) \/ SendRest(x) \/ SendProbe(x)
    PROVE  StreamInv'
<1>. USE DEF StreamInv
<1>1. /\ send[x].pc \in {"first", "rest", "probe"}
      /\ send[x].conn \in MConns /\ conn \in MConns /\ mutex = x
      /\ \A y \in MBundles : y # x => send[y].pc \notin {"first", "rest", "probe"}
  <2>1. send[x].pc \in {"first", "rest", "probe"}
    BY DEF SendFirst, SendRest, SendProbe
  <2>. QED  BY <2>1, OneWriter
<1>2. PICK d \in MConns, z \in StreamPiece, n \in {"rest", "probe", "ok"} :
         /\ SendWrite(x, d, z, n)
         /\ \/ send[x].pc = "first" /\ d = send[x].conn /\ z.part = "first" /\ z.bundle = x /\ n = "rest"
            \/ send[x].pc = "rest" /\ d = send[x].conn /\ z.part = "rest" /\ z.bundle = x /\ n = "probe"
            \/ send[x].pc = "probe" /\ d = conn /\ z = Zero /\ n = "ok"
  <2>1. First(x) \in StreamPiece /\ Rest(x) \in StreamPiece /\ Zero \in StreamPiece
    BY DEF First, Rest, Zero, StreamPiece
  <2>2. First(x).part = "first" /\ First(x).bundle = x /\ Rest(x).part = "rest" /\ Rest(x).bundle = x
    BY DEF First, Rest
  <2>. QED  BY <1>1, <2>1, <2>2 DEF SendFirst, SendRest, SendProbe
<1>3. PICK pc \in {n, "report"} :
         /\ send' = [send EXCEPT ![x].pc = pc]
         /\ mutex' \in {mutex, Nobody} /\ (pc \in {"rest", "probe"} => mutex' = mutex)
         /\ \/ wire' = wire /\ link[d] # "up"
            \/ link[d] = "up" /\ wire' = [wire EXCEPT ![d] = Append(@, z)] /\ pc = n
  BY <1>2 DEF SendWrite, Written, WriteFails, Goto
<1>4. UNCHANGED <<handler, conn, link, srv, passed, order>>
  BY <1>2 DEF SendWrite
<1>5. \A y \in MBundles : /\ send'[y].conn = send[y].conn
                          /\ y # x => send'[y] = send[y]
                          /\ y = x => send'[y].pc = pc
  BY <1>3 DEF MTypes
<1>6. /\ wire' \in [MConns -> Seq(StreamPiece)]
      /\ \A c \in MConns : \/ wire'[c] = wire[c]
                           \/ c = d /\ link[c] = "up" /\ wire'[c] = Append(wire[c], z)
  BY <1>3, PieceWritten
<1>7. MTypes'
  <2>1. send' \in [MBundles -> [pc: {"idle", "lock", "first", "rest", "probe", "report", "ok", "err"},
                                conn: 0..MaxStarts]]
    BY <1>2, <1>3, ZenonT(30) DEF MTypes
  <2>. QED  BY <1>4, <1>6, <2>1 DEF MTypes
<1>8. Turns'
  <2>1. d <= conn /\ conn > 0
    BY <1>1, <1>2 DEF Turns, MTypes, MConns
  <2>2. \A c \in MConns : c > conn => wire'[c] = wire[c]
    BY <1>6, <2>1 DEF MConns, MTypes
  <2>3. handler # "write"
    BY <1>1, HoldersAssumption DEF Turns
  <2>4. ASSUME NEW y \in MBundles
        PROVE  /\ send'[y].pc \in {"first", "rest", "probe"} => mutex' = y /\ send'[y].conn > 0
               /\ send'[y].pc # "idle" => conn' > 0
               /\ send'[y].conn <= conn'
    <3>1. CASE y = x
      <4>1. send'[y].pc \in {"first", "rest", "probe"} => pc \in {"rest", "probe"}
        BY <1>2, <1>3, <1>5, <3>1
      <4>2. send[y].conn > 0 /\ send[y].conn <= conn
        BY <1>1, <3>1 DEF Turns
      <4>. QED  BY <1>1, <1>3, <1>4, <1>5, <2>1, <3>1, <4>1, <4>2
    <3>2. CASE y # x
      BY <1>1, <1>4, <1>5, <2>1, <3>2 DEF Turns
    <3>. QED  BY <3>1, <3>2
  <2>. QED  BY <1>4, <2>2, <2>3, <2>4 DEF Turns
<1>9. \A y \in MBundles : send[y].pc \notin {"idle", "lock"} => send'[y].pc \notin {"idle", "lock"}
  BY <1>2, <1>3, <1>5
<1>10. ASSUME NEW c \in MConns
       PROVE  ConnInv(c)'
  <2>0. Writing(c, "first")' = {}
    BY <1>1, <1>2, <1>3, <1>5 DEF Writing
  <2>1. CASE wire'[c] = wire[c] /\ (link[c] # "up" \/ c # d)
    <3>1. ASSUME link[c] = "up"
          PROVE  Writing(c, "first") = {} /\ Writing(c, "rest")' = Writing(c, "rest")
      <4>1. c # d
        BY <2>1, <3>1
      <4>2. send[x].pc \in {"first", "rest"} => send[x].conn # c
        BY <1>2, <4>1
      <4>3. pc = "rest" => send[x].conn # c
        BY <1>2, <1>3, <4>2
      <4>4. Writing(c, "first") = {} /\ Writing(c, "rest") = {}
        BY <1>1, <4>2 DEF Writing
      <4>5. Writing(c, "rest")' = {}
        BY <1>1, <1>5, <4>3 DEF Writing
      <4>. QED  BY <4>4, <4>5
    <3>. QED  BY <1>4, <1>9, <2>0, <2>1, <3>1, StreamIdle
  <2>2. CASE c = d /\ link[c] = "up" /\ wire'[c] = Append(wire[c], z) /\ pc = n
    <3>1. PICK w \in Seq(StreamPiece), r \in MReader, p \in Seq(MBundles), o \in Seq(MBundles) :
             wire[c] = w /\ srv[c] = r /\ passed[c] = p /\ order[c] = o
      BY DEF MTypes
    <3>2. PICK v : v = Append(w, z) /\ wire'[c] = v
      BY <2>2, <3>1
    <3>3. \A k \in 1..Len(o) : o[k] \in MBundles /\ send'[o[k]].pc \notin {"idle", "lock"}
      BY <1>9, <3>1 DEF ConnInv, MTypes
    <3>4. /\ StreamOK(w, r, p, o, Writing(c, "first"))
          /\ Current(w, r, p, o, Writing(c, "first"), Writing(c, "rest"))
      BY <2>2, <3>1 DEF ConnInv
    <3>5. StreamOK(v, r, p, o, {}) /\ Current(v, r, p, o, {}, Writing(c, "rest")')
      <4>1. CASE send[x].pc = "first"
        <5>1. Writing(c, "first") = {x} /\ Writing(c, "rest") = {} /\ Writing(c, "rest")' = {x}
          BY <1>1, <1>2, <1>5, <2>2, <4>1 DEF Writing
        <5>2. z.part = "first" /\ z.bundle = x
          BY <1>2, <4>1
        <5>3. StreamOK(w, r, p, o, {x}) /\ Current(w, r, p, o, {x}, {})
          BY <3>4, <5>1
        <5>4. StreamOK(v, r, p, o, {}) /\ Current(v, r, p, o, {}, {x})
          BY <3>2, <5>2, <5>3, FirstWritten
        <5>. QED  BY <5>1, <5>4
      <4>2. CASE send[x].pc = "rest"
        <5>1. Writing(c, "first") = {} /\ Writing(c, "rest") = {x} /\ Writing(c, "rest")' = {}
          BY <1>1, <1>2, <1>5, <2>2, <4>2 DEF Writing
        <5>2. z.part = "rest" /\ z.bundle = x
          BY <1>2, <4>2
        <5>3. StreamOK(w, r, p, o, {}) /\ Current(w, r, p, o, {}, {x})
          BY <3>4, <5>1
        <5>4. StreamOK(v, r, p, o, {}) /\ Current(v, r, p, o, {}, {})
          BY <3>2, <5>2, <5>3, RestWritten
        <5>. QED  BY <5>1, <5>4
      <4>3. CASE send[x].pc = "probe"
        <5>1. Writing(c, "first") = {} /\ Writing(c, "rest") = {} /\ Writing(c, "rest")' = {}
          BY <1>1, <1>2, <1>5, <2>2, <4>3 DEF Writing
        <5>2. z.part = "zero"
          BY <1>2, <4>3 DEF Zero
        <5>3. StreamOK(w, r, p, o, {}) /\ Current(w, r, p, o, {}, {})
          BY <3>4, <5>1
        <5>4. StreamOK(v, r, p, o, {}) /\ Current(v, r, p, o, {}, {})
          BY <3>2, <5>2, <5>3, ZeroWritten
        <5>. QED  BY <5>1, <5>4
      <4>. QED  BY <1>1, <4>1, <4>2, <4>3
    <3>. QED  BY <1>4, <2>0, <2>2, <3>1, <3>2, <3>3, <3>5 DEF ConnInv
  <2>. QED
    <3>2. CASE wire' = wire /\ link[d] # "up"
      BY <2>1, <3>2
    <3>3. CASE link[d] = "up" /\ wire' = [wire EXCEPT ![d] = Append(@, z)] /\ pc = n
      <4>1. c = d => wire'[c] = Append(wire[c], z)
        BY <3>3 DEF MTypes
      <4>2. c # d => wire'[c] = wire[c]
        BY <3>3 DEF MTypes
      <4>. QED  BY <2>1, <2>2, <3>3, <4>1, <4>2
    <3>. QED  BY <1>3, <3>2, <3>3
<1>. QED  BY <1>7, <1>8, <1>10

(* The server reads a piece: it is the one it expects.                     *)
LEMMA StreamRead ==
    ASSUME StreamInv, NEW d \in MConns, ServerRead(d)
    PROVE  StreamInv'
<1>. USE DEF StreamInv
<1>1. PICK w \in Seq(StreamPiece), r \in MReader, p \in Seq(MBundles), o \in Seq(MBundles) :
         wire[d] = w /\ srv[d] = r /\ passed[d] = p /\ order[d] = o
  BY DEF MTypes
<1>2. r.pc \in {"len", "body"} /\ w # <<>>
  BY <1>1 DEF ServerRead
<1>3. PICK f, h : f = Writing(d, "first") /\ h = Writing(d, "rest")
  OBVIOUS
<1>4. StreamOK(w, r, p, o, f) /\ (link[d] = "up" => Current(w, r, p, o, f, h))
  BY <1>1, <1>3 DEF ConnInv
<1>5. \/ r.pc = "len" /\ w[1].part = "zero"
      \/ /\ r.pc = "len" /\ w[1].part = "first" /\ w[1].bundle \in MBundles
         /\ Len(p) + 1 <= Len(o) /\ w[1].bundle = o[Len(p) + 1]
         /\ \A x \in f : Len(p) + 1 < Len(o)
      \/ r.pc = "body" /\ w[1].part = "rest" /\ w[1].bundle = r.bundle
  BY <1>2, <1>4, PieceRead
<1>6. PICK v : v = Tail(w) /\ wire' = [wire EXCEPT ![d] = v]
  BY <1>1 DEF ServerRead
<1>7. v \in Seq(StreamPiece) /\ Head(w) = w[1] /\ w[1] \in StreamPiece
  BY <1>2, <1>6, HeadTailProperties
<1>8. PICK g \in MReader :
         /\ srv' = [srv EXCEPT ![d] = g]
         /\ \/ r.pc = "len" /\ w[1].part = "zero" /\ g = r
            \/ /\ r.pc = "len" /\ w[1].part = "first" /\ g.pc = "body" /\ g.bundle = w[1].bundle
               /\ Len(p) + 1 <= Len(o) /\ w[1].bundle = o[Len(p) + 1]
               /\ \A x \in f : Len(p) + 1 < Len(o)
            \/ r.pc = "body" /\ w[1].part = "rest" /\ g.pc = "report" /\ g.bundle = r.bundle
  <2>0. PICK y \in StreamPiece : y = w[1] /\ y = Head(wire[d])
    BY <1>1, <1>7
  <2>1. srv' = [srv EXCEPT ![d] =
           CASE r.pc = "len" /\ y = Zero -> r
             [] r.pc = "len" /\ y.part = "first" -> [pc |-> "body", bundle |-> y.bundle]
             [] r.pc = "body" /\ y = Rest(r.bundle) -> [pc |-> "report", bundle |-> y.bundle]
             [] OTHER -> [pc |-> "garbled"]]
    BY <1>1, <2>0 DEF ServerRead
  <2>2. CASE r.pc = "len" /\ y.part = "zero"
    <3>1. y = Zero
      BY <2>2 DEF StreamPiece, Zero
    <3>2. srv' = [srv EXCEPT ![d] = r]
      BY <2>1, <2>2, <3>1 DEF Zero
    <3>. QED  BY <2>0, <2>2, <3>2
  <2>3. CASE r.pc = "len" /\ y.part = "first"
    <3>1. y # Zero
      BY <2>3 DEF Zero
    <3>2. srv' = [srv EXCEPT ![d] = [pc |-> "body", bundle |-> y.bundle]]
      BY <2>1, <2>3, <3>1
    <3>3. y.bundle \in MBundles
      BY <2>3 DEF StreamPiece
    <3>0. PICK g : g = [pc |-> "body", bundle |-> y.bundle]
      OBVIOUS
    <3>4. g \in MReader /\ g.pc = "body" /\ g.bundle = y.bundle
      BY <3>3, <3>0 DEF MReader
    <3>5. srv' = [srv EXCEPT ![d] = g]
      BY <3>0, <3>2
    <3>6. Len(p) + 1 <= Len(o) /\ w[1].bundle = o[Len(p) + 1] /\ \A x \in f : Len(p) + 1 < Len(o)
      BY <1>5, <2>0, <2>3
    <3>. QED  BY <2>0, <2>3, <3>4, <3>5, <3>6
  <2>4. CASE r.pc = "body" /\ y.part = "rest" /\ y.bundle = r.bundle
    <3>1. y = Rest(r.bundle)
      BY <2>4 DEF StreamPiece, Rest
    <3>2. srv' = [srv EXCEPT ![d] = [pc |-> "report", bundle |-> y.bundle]]
      BY <2>1, <2>4, <3>1
    <3>3. r.bundle \in MBundles
      BY <2>4 DEF MReader
    <3>0. PICK g : g = [pc |-> "report", bundle |-> y.bundle]
      OBVIOUS
    <3>4. g \in MReader /\ g.pc = "report" /\ g.bundle = r.bundle
      BY <2>4, <3>3, <3>0 DEF MReader
    <3>5. srv' = [srv EXCEPT ![d] = g]
      BY <3>0, <3>2
    <3>. QED  BY <2>0, <2>4, <3>4, <3>5
  <2>. QED  BY <1>5, <2>0, <2>2, <2>3, <2>4
<1>9. UNCHANGED <<handler, conn, link, mutex, send, passed, order>>
  BY DEF ServerRead
<1>10. MTypes'
  BY <1>6, <1>7, <1>8, <1>9 DEF MTypes
<1>11. Turns'
  <2>1. ~(d > conn)
    BY <1>1, <1>2 DEF Turns
  <2>2. \A c \in MConns : c > conn => wire'[c] = wire[c] /\ srv'[c] = srv[c]
    BY <1>6, <1>8, <2>1 DEF MTypes
  <2>. QED  BY <1>9, <2>2 DEF Turns
<1>12. ASSUME NEW c \in MConns
       PROVE  ConnInv(c)'
  <2>0. Writing(c, "first")' = Writing(c, "first") /\ Writing(c, "rest")' = Writing(c, "rest")
    BY <1>9 DEF Writing
  <2>1. CASE c = d
    <3>1. StreamOK(v, g, p, o, f) /\ (Current(w, r, p, o, f, h) => Current(v, g, p, o, f, h))
      BY <1>2, <1>4, <1>6, <1>8, AfterRead
    <3>2. wire'[c] = v /\ srv'[c] = g /\ passed'[c] = p /\ order'[c] = o /\ link'[c] = link[c]
      BY <1>1, <1>6, <1>8, <1>9, <2>1 DEF MTypes
    <3>3. link[c] # "cut"
      BY <1>1, <1>2, <2>1 DEF ConnInv
    <3>4. \A k \in 1..Len(order'[c]) : send'[order'[c][k]].pc \notin {"idle", "lock"}
      BY <1>9 DEF ConnInv
    <3>. QED  BY <1>3, <1>4, <2>0, <2>1, <3>1, <3>2, <3>3, <3>4 DEF ConnInv
  <2>2. CASE c # d
    <3>1. wire'[c] = wire[c] /\ srv'[c] = srv[c]
      BY <1>6, <1>8, <2>2 DEF MTypes
    <3>. QED  BY <1>9, <2>0, <3>1, StreamIdle
  <2>. QED  BY <2>1, <2>2
<1>. QED  BY <1>10, <1>11, <1>12

(* The server passes on the bundle that it has read.                       *)
LEMMA StreamPassed ==
    ASSUME StreamInv, NEW d \in MConns, ServerReport(d)
    PROVE  StreamInv'
<1>. USE DEF StreamInv
<1>1. PICK w \in Seq(StreamPiece), r \in MReader, p \in Seq(MBundles), o \in Seq(MBundles) :
         wire[d] = w /\ srv[d] = r /\ passed[d] = p /\ order[d] = o
  BY DEF MTypes
<1>2. r.pc = "report" /\ UNCHANGED <<handler, conn, link, wire, mutex, send, order>>
  BY <1>1 DEF ServerReport
<1>3. PICK f, h : f = Writing(d, "first") /\ h = Writing(d, "rest")
  OBVIOUS
<1>4. StreamOK(w, r, p, o, f) /\ (link[d] = "up" => Current(w, r, p, o, f, h))
  BY <1>1, <1>3 DEF ConnInv
<1>5. PICK q : q = Append(p, r.bundle) /\ passed' = [passed EXCEPT ![d] = q]
  BY <1>1 DEF ServerReport
<1>6. PICK g \in MReader : g.pc = "len" /\ srv' = [srv EXCEPT ![d] = g]
  <2>1. PICK g : g = [pc |-> "len"]
    OBVIOUS
  <2>2. g \in MReader /\ g.pc = "len"
    BY <2>1 DEF MReader
  <2>3. srv' = [srv EXCEPT ![d] = g]
    BY <2>1 DEF ServerReport
  <2>. QED  BY <2>2, <2>3
<1>7. q \in Seq(MBundles)
  BY <1>2, <1>5, AppendProperties DEF MReader
<1>8. MTypes'
  BY <1>2, <1>5, <1>6, <1>7 DEF MTypes
<1>9. Turns'
  <2>1. ~(d > conn)
    BY <1>1, <1>2 DEF Turns
  <2>2. \A c \in MConns : c > conn => passed'[c] = passed[c] /\ srv'[c] = srv[c]
    BY <1>5, <1>6, <2>1 DEF MTypes
  <2>. QED  BY <1>2, <2>2 DEF Turns
<1>10. ASSUME NEW c \in MConns
       PROVE  ConnInv(c)'
  <2>0. Writing(c, "first")' = Writing(c, "first") /\ Writing(c, "rest")' = Writing(c, "rest")
    BY <1>2 DEF Writing
  <2>1. CASE c = d
    <3>1. StreamOK(w, g, q, o, f) /\ (Current(w, r, p, o, f, h) => Current(w, g, q, o, f, h))
      BY <1>2, <1>4, <1>5, <1>6, BundlePassed
    <3>2. wire'[c] = w /\ srv'[c] = g /\ passed'[c] = q /\ order'[c] = o /\ link'[c] = link[c]
      BY <1>1, <1>2, <1>5, <1>6, <2>1 DEF MTypes
    <3>3. link[c] = "cut" => w = <<>>
      BY <1>1, <2>1 DEF ConnInv
    <3>4. \A k \in 1..Len(order'[c]) : send'[order'[c][k]].pc \notin {"idle", "lock"}
      BY <1>2 DEF ConnInv
    <3>. QED  BY <1>3, <1>4, <2>0, <2>1, <3>1, <3>2, <3>3, <3>4 DEF ConnInv
  <2>2. CASE c # d
    <3>1. passed'[c] = passed[c] /\ srv'[c] = srv[c]
      BY <1>5, <1>6, <2>2 DEF MTypes
    <3>. QED  BY <1>2, <2>0, <3>1, StreamIdle
  <2>. QED  BY <2>1, <2>2
<1>. QED  BY <1>8, <1>9, <1>10

(* The stream starts in its invariant *)
LEMMA StreamStarts ==
    ASSUME MInit
    PROVE  StreamInv
<1>1. MTypes
  <2>1. wire \in [MConns -> Seq(StreamPiece)]
    BY EmptySeq DEF MInit
  <2>2. passed \in [MConns -> Seq(MBundles)] /\ order \in [MConns -> Seq(MBundles)]
    BY EmptySeq DEF MInit
  <2>3. srv \in [MConns -> MReader]
    BY DEF MInit, MReader
  <2>4. 0 \in 0..MaxStarts
    BY HoldersAssumption
  <2>5. send \in [MBundles -> [pc: {"idle", "lock", "first", "rest", "probe", "report", "ok", "err"},
                               conn: 0..MaxStarts]]
    BY <2>4 DEF MInit
  <2>6. conn \in 0..MaxStarts /\ link \in [MConns -> {"none", "up", "cut", "closed"}] /\ handler = "stopped"
    BY <2>4 DEF MInit
  <2>. QED  BY <2>1, <2>2, <2>3, <2>5, <2>6 DEF MTypes
<1>2. /\ handler = "stopped" /\ conn = 0
      /\ \A x \in MBundles : send[x].pc = "idle" /\ send[x].conn = 0
      /\ \A c \in MConns : /\ wire[c] = <<>> /\ srv[c] = [pc |-> "none"] /\ passed[c] = <<>>
                           /\ order[c] = <<>> /\ link[c] = "none"
  BY DEF MInit
<1>3. Turns
  BY <1>2 DEF Turns
<1>4. ASSUME NEW c \in MConns
      PROVE  ConnInv(c)
  <2>1. Writing(c, "first") = {}
    BY <1>2 DEF Writing
  <2>2. PICK r : r = [pc |-> "none"]
    OBVIOUS
  <2>3. r.pc = "none" /\ ~InBundle(r)
    BY <2>2 DEF InBundle
  <2>4. Len(<< >>) = 0 /\ Begun(<<>>, r) = 0
    BY <2>3, EmptySeq DEF Begun
  <2>5. StreamOK(<<>>, r, <<>>, <<>>, {})
    BY <2>3, <2>4 DEF StreamOK, Found, Paired, Queued
  <2>6. StreamOK(wire[c], srv[c], passed[c], order[c], Writing(c, "first"))
    BY <1>2, <2>1, <2>2, <2>5
  <2>7. \A k \in 1..Len(order[c]) : send[order[c][k]].pc \notin {"idle", "lock"}
    BY <1>2, <2>4
  <2>. QED  BY <1>2, <2>6, <2>7 DEF ConnInv
<1>. QED  BY <1>1, <1>3, <1>4 DEF StreamInv

(* IsPrefix, with the bundles that were passed on position by position.    *)
LEMMA FoundIsPrefix ==
    ASSUME NEW r, NEW p \in Seq(MBundles), NEW o \in Seq(MBundles), Found(r, p, o)
    PROVE  IsPrefix(p, o)
<1>1. Len(p) \in Nat /\ Len(o) \in Nat /\ Len(p) <= Len(o)
  BY DEF Found, Begun
<1>2. SubSeq(p, 1, Len(p)) = SubSeq(o, 1, Len(p))
  <2>1. /\ SubSeq(p, 1, Len(p)) = [i \in 1..Len(p) |-> p[i]]
        /\ SubSeq(o, 1, Len(p)) = [i \in 1..Len(p) |-> o[i]]
    BY <1>1
  <2>. QED  BY <2>1 DEF Found
<1>. QED  BY <1>1, <1>2 DEF IsPrefix

(***************************************************************************)
(* Whatever order the Sends, the keepalives, their failures and the server *)
(* take, and however often the client is restarted, MTCPServer never reads *)
(* garbage from a connection, and passes on a prefix of the bundles in the *)
(* order in which their Sends took client.mutex.                           *)
(***************************************************************************)
THEOREM Framing == MSpec => []Framed
<1>1. MInit => StreamInv
  BY StreamStarts
<1>2. StreamInv /\ [MNext]_mvars => StreamInv'
  <2>. SUFFICES ASSUME StreamInv, [MNext]_mvars
                PROVE  StreamInv'
    OBVIOUS
  <2>1. CASE UNCHANGED mvars
    <3>1. \A c \in MConns : /\ Writing(c, "first")' = Writing(c, "first")
                            /\ Writing(c, "rest")' = Writing(c, "rest")
      BY <2>1 DEF Writing, mvars
    <3>2. \A c \in MConns : ConnInv(c)'
      BY <2>1, <3>1 DEF StreamInv, ConnInv, mvars
    <3>. QED  BY <2>1, <3>2 DEF StreamInv, MTypes, Turns, mvars
  <2>2. CASE \/ HandlerAppear \/ Keepalive \/ HandlerReport \/ MClose \/ HandlerStop
             \/ CloseReturns \/ ServerClose
             \/ \E x \in MBundles : MSend(x) \/ SendReport(x)
    BY <2>2, StreamQuiet
  <2>3. CASE Cut \/ \E c \in MConns : ServerEof(c) \/ ServerPanic(c)
    BY <2>3, StreamEnds
  <2>4. CASE MStart
    BY <2>4, StreamDialled
  <2>5. CASE KeepaliveWrite
    BY <2>5, StreamKeepalive
  <2>6. CASE \E x \in MBundles : SendLock(x)
    BY <2>6, StreamLocked
  <2>7. CASE \E x \in MBundles : SendFirst(x) \/ SendRest(x) \/ SendProbe(x)
    BY <2>7, StreamSent
  <2>8. CASE \E c \in MConns : ServerRead(c)
    BY <2>8, StreamRead
  <2>9. CASE \E c \in MConns : ServerReport(c)
    BY <2>9, StreamPassed
  <2>. QED  BY <2>1, <2>2, <2>3, <2>4, <2>5, <2>6, <2>7, <2>8, <2>9
            DEF MNext, Client, Sending, Server
<1>3. StreamInv => Framed
  <2>. SUFFICES ASSUME StreamInv, NEW c \in MConns
                PROVE  srv[c].pc # "garbled" /\ IsPrefix(passed[c], order[c])
    BY DEF Framed
  <2>1. /\ srv[c] \in MReader /\ passed[c] \in Seq(MBundles) /\ order[c] \in Seq(MBundles)
        /\ Found(srv[c], passed[c], order[c])
    BY DEF StreamInv, MTypes, ConnInv, StreamOK
  <2>2. srv[c].pc # "garbled"
    BY <2>1 DEF MReader
  <2>. QED  BY <2>1, <2>2, FoundIsPrefix
<1>. QED  BY <1>1, <1>2, <1>3, PTL DEF MSpec
-----------------------------------------------------------------------------
LEMMA Multiples ==
    ASSUME NEW p \in Nat, NEW q \in Nat, NEW M \in Nat, p < q
    PROVE  M * p + M <= M * q
  <1>1. PICK d \in Nat : q = p + 1 + d
    <2> q - p - 1 \in Nat /\ q = p + 1 + (q - p - 1)
      OBVIOUS
    <2> QED OBVIOUS
  <1>2. M * q = M * p + M + M * d /\ M * d >= 0 /\ M * p \in Nat
    BY <1>1, SMT
  <1> QED BY <1>2

(* Division with remainder has one result *)
LEMMA Remainder ==
    ASSUME NEW q \in Nat, NEW M \in Nat \ {0}, NEW r \in 0..(M - 1)
    PROVE  (M * q + r) % M = r
  <1>0. PICK a \in Nat : a = M * q + r
    OBVIOUS
  <1>1. PICK p, s \in Nat : p = a \div M /\ s = a % M
    BY SMT
  <1>2. a = M * p + s /\ s \in 0..(M-1)
    BY <1>1, SMT
  <1>3. M * p \in Nat /\ M * q \in Nat
    OBVIOUS
  <1>4. ~(p < q)
    BY <1>0, <1>2, <1>3, Multiples
  <1>5. ~(q < p)
    BY <1>0, <1>2, <1>3, Multiples
  <1>6. p = q
    BY <1>4, <1>5
  <1> QED BY <1>0, <1>1, <1>2, <1>3, <1>6

(* Counting modulo M *)
LEMMA NextMod ==
    ASSUME NEW i \in Nat, NEW M \in Nat \ {0}
    PROVE  ((i % M) + 1) % M = (i + 1) % M
  <1>1. PICK q, r \in Nat : q = i \div M /\ r = i % M
    BY SMT
  <1>2. i = M * q + r /\ r \in 0..(M-1)
    BY <1>1, SMT
  <1>3. M * q \in Nat /\ M * (q + 1) = M * q + M /\ M \in Nat
    BY SMT
  <1>4. CASE r + 1 < M
    <2>1. (M * q + (r + 1)) % M = r + 1
      BY <1>4, Remainder
    <2>2. (M * 0 + (r + 1)) % M = r + 1 /\ M * 0 = 0
      BY <1>4, Remainder, SMT
    <2> QED BY <2>1, <2>2, <1>1, <1>2, <1>3
  <1>5. CASE r + 1 = M
    <2>1. (M * (q + 1) + 0) % M = 0
      BY Remainder
    <2>2. (M * 1 + 0) % M = 0 /\ M * 1 = M
      BY Remainder, SMT
    <2> QED BY <2>1, <2>2, <1>1, <1>2, <1>3, <1>5
  <1> QED BY <1>2, <1>4, <1>5

(* Part i of x, as the transmission with the id t sends it.                *)
Own(x, t, i) == Fragment(t, i % SeqNoMod, i = 1, i = Size[x], x, i)

PartOf(f, x) == f.fail = FALSE /\ f.part[1] = x

(* The parts of x in s are those from lo to hi, in this order.             *)
Chain(s, x, t, lo, hi) ==
    /\ \A k \in 1..Len(s) : PartOf(s[k], x) =>
          s[k].part[2] \in lo..hi /\ s[k] = Own(x, t, s[k].part[2])
    /\ \A j, k \in 1..Len(s) : j < k /\ PartOf(s[j], x) /\ PartOf(s[k], x)
          => s[j].part[2] < s[k].part[2]
    /\ \A i \in lo..hi : \E k \in 1..Len(s) : PartOf(s[k], x) /\ s[k].part[2] = i

InHand(f, x, t, h, m) ==
    IF f # None /\ PartOf(f, x) THEN m = h + 1 /\ f = Own(x, t, m) ELSE m = h

(* The entries tr know of the first h parts of x.                          *)
Assembled(tr, rep, x, t, h) ==
    /\ h = 0 => \A u \in DOMAIN tr : \A i \in DOMAIN tr[u].parts :
                   tr[u].parts[i][1] # x
    /\ h \in 1..(Size[x] - 1) =>
          /\ t \in DOMAIN tr
          /\ tr[t].parts = [i \in 1..h |-> <<x, i>>]
          /\ tr[t].seq = h % SeqNoMod
    /\ h = Size[x] => x \in rep

(* The parts of x that were sent: those a node knows of, the one its       *)
(* reader has in hand, those in its modem, and those not yet broadcast.    *)
Tracked(x, t, last, f, md, out, tr, rep) ==
    \E h, m, o \in Nat :
        /\ o <= last
        /\ InHand(f, x, t, h, m)
        /\ Chain(md, x, t, m + 1, o) /\ m <= o
        /\ Chain(out, x, t, o + 1, last)
        /\ Assembled(tr, rep, x, t, h)

(* A part is a fragment of its bundle, and of no other *)
LEMMA OwnType ==
    ASSUME NEW x \in BBundles, NEW t \in Nat, NEW i \in Nat
    PROVE  /\ Own(x, t, i) \in BFragments
           /\ PartOf(Own(x, t, i), x) /\ Own(x, t, i).part[2] = i
           /\ \A y \in BBundles \ {x} : ~PartOf(Own(x, t, i), y)
  <1>1. i % SeqNoMod \in Nat
    BY BAssumption
  <1> QED BY <1>1 DEF Own, Fragment, BFragments, PartOf

(* A part of another bundle does not disturb a chain *)
LEMMA ChainOther ==
    ASSUME NEW s \in Seq(BFragments), NEW f \in BFragments, NEW x, NEW t,
           NEW lo \in Nat, NEW hi \in Nat, ~PartOf(f, x), Chain(s, x, t, lo, hi)
    PROVE  Chain(Append(s, f), x, t, lo, hi)
  <1>1. PICK a : a = Append(s, f)
    OBVIOUS
  <1>2. Len(a) = Len(s) + 1 /\ a[Len(s) + 1] = f /\ Len(s) \in Nat
        /\ \A k \in 1..Len(s) : a[k] = s[k]
    BY <1>1
  <1>3. \A k \in 1..Len(a) : PartOf(a[k], x) => k \in 1..Len(s) /\ a[k] = s[k]
    BY <1>2
  <1>4. Chain(a, x, t, lo, hi)
    BY SMTT(30), <1>2, <1>3 DEF Chain
  <1> QED BY <1>1, <1>4

(* The next part of x extends its chain *)
LEMMA ChainNext ==
    ASSUME NEW s \in Seq(BFragments), NEW x \in BBundles, NEW t \in Nat,
           NEW lo \in Nat, NEW hi \in Nat, lo <= hi + 1, Chain(s, x, t, lo, hi)
    PROVE  Chain(Append(s, Own(x, t, hi + 1)), x, t, lo, hi + 1)
  <1>0. PICK f : f = Own(x, t, hi + 1)
    OBVIOUS
  <1>a. f \in BFragments /\ PartOf(f, x) /\ f.part[2] = hi + 1
    BY <1>0, OwnType
  <1>1. PICK a : a = Append(s, f)
    OBVIOUS
  <1>2. Len(a) = Len(s) + 1 /\ a[Len(s) + 1] = f /\ Len(s) \in Nat
        /\ \A k \in 1..Len(s) : a[k] = s[k]
    BY <1>1, <1>a
  <1>3. \A k \in 1..Len(a) : (k \in 1..Len(s) /\ a[k] = s[k]) \/ (k = Len(s) + 1 /\ a[k] = f)
    BY <1>2
  <1>4. \A k \in 1..Len(a) : PartOf(a[k], x) =>
          a[k].part[2] \in lo..(hi+1) /\ a[k] = Own(x, t, a[k].part[2])
    BY <1>0, <1>a, <1>3 DEF Chain
  <1>5. \A j, k \in 1..Len(a) : j < k /\ PartOf(a[j], x) /\ PartOf(a[k], x)
          => a[j].part[2] < a[k].part[2]
    <2> TAKE j, k \in 1..Len(a)
    <2> HAVE j < k /\ PartOf(a[j], x) /\ PartOf(a[k], x)
    <2>1. j \in 1..Len(s) /\ a[j] = s[j]
      BY <1>2
    <2>2. a[j].part[2] \in lo..hi
      BY <2>1 DEF Chain
    <2>3. CASE k = Len(s) + 1
      BY <1>a, <1>2, <2>2, <2>3
    <2>4. CASE k \in 1..Len(s)
      <3>1. a[k] = s[k]
        BY <1>2, <2>4
      <3>2. PartOf(s[j], x) /\ PartOf(s[k], x)
        BY <2>1, <3>1
      <3>3. s[j].part[2] < s[k].part[2]
        BY <2>1, <2>4, <3>2, Zenon DEF Chain
      <3> QED BY <2>1, <3>1, <3>3
    <2> QED BY <1>3, <2>3, <2>4
  <1>6. \A i \in lo..(hi+1) : \E k \in 1..Len(a) : PartOf(a[k], x) /\ a[k].part[2] = i
    <2> TAKE i \in lo..(hi+1)
    <2>1. CASE i = hi + 1
      BY <2>1, <1>2, <1>a
    <2>2. CASE i \in lo..hi
      <3>1. PICK k \in 1..Len(s) : PartOf(s[k], x) /\ s[k].part[2] = i
        BY <2>2 DEF Chain
      <3> QED BY <3>1, <1>2
    <2> QED BY <2>1, <2>2
  <1>7. Chain(a, x, t, lo, hi + 1)
    BY <1>4, <1>5, <1>6 DEF Chain
  <1> QED BY <1>0, <1>1, <1>7

(* The head of a sequence is another bundle's, or the first of the chain *)
LEMMA ChainTail ==
    ASSUME NEW s \in Seq(BFragments), NEW x, NEW t,
           NEW lo \in Nat, NEW hi \in Nat, s # <<>>, Chain(s, x, t, lo, hi)
    PROVE  /\ ~PartOf(Head(s), x) => Chain(Tail(s), x, t, lo, hi)
           /\ PartOf(Head(s), x) => /\ lo <= hi /\ Head(s) = Own(x, t, lo)
                                    /\ Chain(Tail(s), x, t, lo + 1, hi)
  <1>1. PICK a : a = Tail(s)
    OBVIOUS
  <1>2. /\ Len(s) \in Nat \ {0} /\ Len(a) = Len(s) - 1 /\ Head(s) = s[1]
        /\ \A k \in 1..Len(a) : a[k] = s[k + 1] /\ k + 1 \in 1..Len(s)
        /\ 1 \in 1..Len(s)
    BY <1>1
  <1>3. \A k \in 1..Len(s) : k # 1 => k - 1 \in 1..Len(a) /\ a[k - 1] = s[k]
    BY <1>2
  <1>a. \A j, k \in 1..Len(a) : j < k /\ PartOf(a[j], x) /\ PartOf(a[k], x)
          => a[j].part[2] < a[k].part[2]
    <2> TAKE j, k \in 1..Len(a)
    <2> HAVE j < k /\ PartOf(a[j], x) /\ PartOf(a[k], x)
    <2>1. /\ j + 1 \in 1..Len(s) /\ k + 1 \in 1..Len(s) /\ j + 1 < k + 1
          /\ a[j] = s[j + 1] /\ a[k] = s[k + 1]
      BY <1>2
    <2>2. PICK jj \in 1..Len(s), kk \in 1..Len(s) :
              jj < kk /\ a[j] = s[jj] /\ a[k] = s[kk]
      BY <2>1
    <2>3. PartOf(s[jj], x) /\ PartOf(s[kk], x)
      BY <2>2
    <2>4. s[jj].part[2] < s[kk].part[2]
      BY <2>2, <2>3, Zenon DEF Chain
    <2> QED BY <2>2, <2>4
  <1>4. CASE ~PartOf(Head(s), x)
    <2>1. \A k \in 1..Len(a) : PartOf(a[k], x) =>
            a[k].part[2] \in lo..hi /\ a[k] = Own(x, t, a[k].part[2])
      BY <1>2 DEF Chain
    <2>3. \A i \in lo..hi : \E k \in 1..Len(a) : PartOf(a[k], x) /\ a[k].part[2] = i
      <3> TAKE i \in lo..hi
      <3>1. PICK k \in 1..Len(s) : PartOf(s[k], x) /\ s[k].part[2] = i
        BY DEF Chain
      <3> QED BY <3>1, <1>2, <1>3, <1>4
    <2>4. Chain(a, x, t, lo, hi)
      BY <2>1, <1>a, <2>3 DEF Chain
    <2> QED BY <2>4, <1>1, <1>4
  <1>5. CASE PartOf(Head(s), x)
    <2>0. s[1].part[2] \in lo..hi /\ s[1] = Own(x, t, s[1].part[2])
      BY <1>2, <1>5 DEF Chain
    <2>1. lo <= hi /\ lo \in lo..hi
      BY <2>0
    <2>2. s[1].part[2] = lo
      <3>1. PICK k \in 1..Len(s) : PartOf(s[k], x) /\ s[k].part[2] = lo
        BY <2>1 DEF Chain
      <3>2. k # 1 => s[1].part[2] < s[k].part[2]
        BY <3>1, <1>2, <1>5 DEF Chain
      <3> QED BY <3>1, <3>2, <2>0
    <2>3. \A k \in 1..Len(a) : PartOf(a[k], x) =>
            a[k].part[2] \in (lo+1)..hi /\ a[k] = Own(x, t, a[k].part[2])
      <3> TAKE k \in 1..Len(a)
      <3> HAVE PartOf(a[k], x)
      <3>1. PartOf(s[k+1], x) /\ a[k] = s[k+1] /\ 1 < k + 1 /\ k + 1 \in 1..Len(s)
        BY <1>2
      <3>2. s[1].part[2] < s[k+1].part[2]
        BY <3>1, <1>2, <1>5 DEF Chain
      <3>3. s[k+1].part[2] \in lo..hi /\ s[k+1] = Own(x, t, s[k+1].part[2])
        BY <3>1 DEF Chain
      <3> QED BY <3>1, <3>2, <3>3, <2>2
    <2>5. \A i \in (lo+1)..hi : \E k \in 1..Len(a) : PartOf(a[k], x) /\ a[k].part[2] = i
      <3> TAKE i \in (lo+1)..hi
      <3>1. i \in lo..hi /\ i # lo
        OBVIOUS
      <3>2. PICK k \in 1..Len(s) : PartOf(s[k], x) /\ s[k].part[2] = i
        BY <3>1 DEF Chain
      <3>3. k # 1
        BY <3>1, <3>2, <2>2
      <3> QED BY <3>2, <3>3, <1>3
    <2>6. Chain(a, x, t, lo + 1, hi)
      BY <2>3, <1>a, <2>5 DEF Chain
    <2> QED BY <2>0, <2>1, <2>2, <2>6, <1>1, <1>2, <1>5
  <1> QED BY <1>4, <1>5

(* The empty sequence is the empty chain *)
LEMMA ChainEmpty ==
    ASSUME NEW x, NEW t, NEW lo \in Nat, NEW hi \in Nat
    PROVE  /\ hi < lo => Chain(<<>>, x, t, lo, hi)
           /\ Chain(<<>>, x, t, lo, hi) => hi < lo
  BY Len(<<>>) = 0 DEF Chain

(* A range without a number: s holds no part of x.                         *)
LEMMA ChainNone ==
    ASSUME NEW s, NEW x, NEW t, NEW u, NEW lo \in Nat, NEW hi \in Nat, hi < lo,
           Chain(s, x, t, lo, hi)
    PROVE  Chain(s, x, u, lo, hi)
  <1>1. \A k \in 1..Len(s) : ~PartOf(s[k], x)
    BY DEF Chain
  <1> QED BY <1>1 DEF Chain

(* SendPut: the next part waits to be broadcast.                           *)
LEMMA TrackPut ==
    ASSUME NEW x \in BBundles, NEW t \in Nat, NEW last \in Nat, NEW f, NEW md,
           NEW out \in Seq(BFragments), NEW tr, NEW rep,
           Tracked(x, t, last, f, md, out, tr, rep)
    PROVE  Tracked(x, t, last + 1, f, md, Append(out, Own(x, t, last + 1)), tr, rep)
  <1>1. PICK h, m, o \in Nat :
            /\ o <= last
            /\ InHand(f, x, t, h, m)
            /\ Chain(md, x, t, m + 1, o) /\ m <= o
            /\ Chain(out, x, t, o + 1, last)
            /\ Assembled(tr, rep, x, t, h)
    BY DEF Tracked
  <1>2. Chain(Append(out, Own(x, t, last + 1)), x, t, o + 1, last + 1)
    BY <1>1, ChainNext
  <1>3. o <= last + 1
    BY <1>1
  <1> QED BY <1>1, <1>2, <1>3 DEF Tracked

(* Another bundle's part is queued *)
LEMMA TrackQueued ==
    ASSUME NEW x, NEW t, NEW last \in Nat, NEW f, NEW md,
           NEW out \in Seq(BFragments), NEW tr, NEW rep,
           NEW g \in BFragments, ~PartOf(g, x),
           Tracked(x, t, last, f, md, out, tr, rep)
    PROVE  Tracked(x, t, last, f, md, Append(out, g), tr, rep)
  <1>1. PICK h, m, o \in Nat :
            /\ o <= last
            /\ InHand(f, x, t, h, m)
            /\ Chain(md, x, t, m + 1, o) /\ m <= o
            /\ Chain(out, x, t, o + 1, last)
            /\ Assembled(tr, rep, x, t, h)
    BY DEF Tracked
  <1>2. Chain(Append(out, g), x, t, o + 1, last)
    BY <1>1, ChainOther
  <1> QED BY <1>1, <1>2 DEF Tracked

(* Another bundle's part reaches the modem *)
LEMMA TrackOverheard ==
    ASSUME NEW x, NEW t, NEW last \in Nat, NEW f, NEW md \in Seq(BFragments),
           NEW out, NEW tr, NEW rep,
           NEW g \in BFragments, ~PartOf(g, x),
           Tracked(x, t, last, f, md, out, tr, rep)
    PROVE  Tracked(x, t, last, f, Append(md, g), out, tr, rep)
  <1>1. PICK h, m, o \in Nat :
            /\ o <= last
            /\ InHand(f, x, t, h, m)
            /\ Chain(md, x, t, m + 1, o) /\ m <= o
            /\ Chain(out, x, t, o + 1, last)
            /\ Assembled(tr, rep, x, t, h)
    BY DEF Tracked
  <1>2. Chain(Append(md, g), x, t, m + 1, o)
    BY <1>1, ChainOther
  <1> QED BY <1>1, <1>2 DEF Tracked

(* Another bundle's part leaves the queue *)
LEMMA TrackUnheard ==
    ASSUME NEW x, NEW t, NEW last \in Nat, NEW f, NEW md,
           NEW out \in Seq(BFragments), NEW tr, NEW rep,
           out # <<>>, ~PartOf(Head(out), x),
           Tracked(x, t, last, f, md, out, tr, rep)
    PROVE  Tracked(x, t, last, f, md, Tail(out), tr, rep)
  <1>1. PICK h, m, o \in Nat :
            /\ o <= last
            /\ InHand(f, x, t, h, m)
            /\ Chain(md, x, t, m + 1, o) /\ m <= o
            /\ Chain(out, x, t, o + 1, last)
            /\ Assembled(tr, rep, x, t, h)
    BY DEF Tracked
  <1>2. Chain(Tail(out), x, t, o + 1, last)
    BY <1>1, o + 1 \in Nat, ChainTail
  <1> QED BY <1>1, <1>2 DEF Tracked

(* handlerWrite, heard: from the sender's channel to the node's modem.     *)
LEMMA TrackHeard ==
    ASSUME NEW x \in BBundles, NEW t \in Nat, NEW last \in Nat, NEW f,
           NEW md \in Seq(BFragments), NEW out \in Seq(BFragments), NEW tr, NEW rep,
           out # <<>>, Tracked(x, t, last, f, md, out, tr, rep)
    PROVE  Tracked(x, t, last, f, Append(md, Head(out)), Tail(out), tr, rep)
  <1>0. Head(out) \in BFragments
    OBVIOUS
  <1>1. CASE ~PartOf(Head(out), x)
    <2>1. Tracked(x, t, last, f, md, Tail(out), tr, rep)
      BY <1>1, TrackUnheard
    <2> QED BY <2>1, <1>0, <1>1, TrackOverheard
  <1>2. CASE PartOf(Head(out), x)
    <2>1. PICK h, m, o \in Nat :
              /\ o <= last
              /\ InHand(f, x, t, h, m)
              /\ Chain(md, x, t, m + 1, o) /\ m <= o
              /\ Chain(out, x, t, o + 1, last)
              /\ Assembled(tr, rep, x, t, h)
      BY DEF Tracked
    <2>2. /\ o + 1 <= last /\ Head(out) = Own(x, t, o + 1)
          /\ Chain(Tail(out), x, t, (o + 1) + 1, last)
      BY <1>2, <2>1, o + 1 \in Nat, ChainTail
    <2>3. Chain(Append(md, Head(out)), x, t, m + 1, o + 1)
      BY <2>1, <2>2, ChainNext
    <2>4. m <= o + 1 /\ o + 1 \in Nat
      BY <2>1
    <2> QED BY <2>1, <2>2, <2>3, <2>4 DEF Tracked
  <1> QED BY <1>1, <1>2

(* Receive: from the modem into the reader's hand.                         *)
LEMMA TrackReceived ==
    ASSUME NEW x \in BBundles, NEW t \in Nat, NEW last \in Nat,
           NEW md \in Seq(BFragments), NEW out, NEW tr, NEW rep,
           md # <<>>, Tracked(x, t, last, None, md, out, tr, rep)
    PROVE  Tracked(x, t, last, Head(md), Tail(md), out, tr, rep)
  <1>1. PICK h, m, o \in Nat :
            /\ o <= last
            /\ InHand(None, x, t, h, m)
            /\ Chain(md, x, t, m + 1, o) /\ m <= o
            /\ Chain(out, x, t, o + 1, last)
            /\ Assembled(tr, rep, x, t, h)
    BY DEF Tracked
  <1>2. m = h
    BY <1>1 DEF InHand
  <1>3. Head(md) \in BFragments /\ Head(md) # None
    BY BAssumption
  <1>4. CASE ~PartOf(Head(md), x)
    <2>1. Chain(Tail(md), x, t, m + 1, o)
      BY <1>1, <1>4, m + 1 \in Nat, ChainTail
    <2>2. InHand(Head(md), x, t, h, m)
      BY <1>2, <1>4 DEF InHand
    <2> QED BY <1>1, <2>1, <2>2 DEF Tracked
  <1>5. CASE PartOf(Head(md), x)
    <2>1. /\ m + 1 <= o /\ Head(md) = Own(x, t, m + 1)
          /\ Chain(Tail(md), x, t, (m + 1) + 1, o)
      BY <1>1, <1>5, m + 1 \in Nat, ChainTail
    <2>2. InHand(Head(md), x, t, h, m + 1)
      BY <1>2, <1>3, <1>5, <2>1 DEF InHand
    <2>3. m + 1 \in Nat
      OBVIOUS
    <2> QED BY <1>1, <2>1, <2>2, <2>3 DEF Tracked
  <1> QED BY <1>4, <1>5

(* The reader is done with a fragment that is not a part of x.             *)
LEMMA TrackPassed ==
    ASSUME NEW x, NEW t, NEW last \in Nat, NEW f, NEW md, NEW out, NEW tr, NEW rep,
           ~PartOf(f, x), Tracked(x, t, last, f, md, out, tr, rep)
    PROVE  Tracked(x, t, last, None, md, out, tr, rep)
  <1>1. PICK h, m, o \in Nat :
            /\ o <= last
            /\ InHand(f, x, t, h, m)
            /\ Chain(md, x, t, m + 1, o) /\ m <= o
            /\ Chain(out, x, t, o + 1, last)
            /\ Assembled(tr, rep, x, t, h)
    BY DEF Tracked
  <1>2. InHand(None, x, t, h, m)
    BY <1>1 DEF InHand
  <1> QED BY <1>1, <1>2 DEF Tracked

(* Before the first part was sent, the id does not matter.                 *)
LEMMA TrackBegins ==
    ASSUME NEW x \in BBundles, NEW t, NEW u, NEW f, NEW md, NEW out, NEW tr, NEW rep,
           Tracked(x, t, 0, f, md, out, tr, rep)
    PROVE  Tracked(x, u, 0, f, md, out, tr, rep)
  <1>1. PICK h, m, o \in Nat :
            /\ o <= 0
            /\ InHand(f, x, t, h, m)
            /\ Chain(md, x, t, m + 1, o) /\ m <= o
            /\ Chain(out, x, t, o + 1, 0)
            /\ Assembled(tr, rep, x, t, h)
    BY DEF Tracked
  <1>2. h = 0 /\ m = 0 /\ o = 0 /\ ~(f # None /\ PartOf(f, x))
    BY <1>1 DEF InHand
  <1>3. Chain(md, x, u, m + 1, o) /\ Chain(out, x, u, o + 1, 0)
    BY <1>1, <1>2, ChainNone
  <1>4. InHand(f, x, u, h, m)
    BY <1>2 DEF InHand
  <1>5. Size[x] # 0 /\ Size[x] \in Nat
    BY BAssumption
  <1>6. Assembled(tr, rep, x, u, h)
    BY <1>1, <1>2, <1>5 DEF Assembled
  <1> QED BY <1>1, <1>3, <1>4, <1>6 DEF Tracked

(* What a node keeps of an incomplete transmission.                        *)
Entries(tr) ==
    \A u \in DOMAIN tr : /\ tr[u].finished = FALSE
                         /\ tr[u].parts \in Seq(BBundles \X Nat)
                         /\ tr[u].parts # <<>>

(* The first h parts, and the next one *)
LEMMA PartsOf ==
    ASSUME NEW x \in BBundles, NEW h \in Nat,
           NEW s, s = [i \in 1..h |-> <<x, i>>]
    PROVE  /\ s \in Seq(BBundles \X Nat)
           /\ Append(s, <<x, h + 1>>) = [i \in 1..(h + 1) |-> <<x, i>>]
  <1>1. s \in Seq(BBundles \X Nat) /\ Len(s) = h
    OBVIOUS
  <1>2. PICK a : a = Append(s, <<x, h + 1>>)
    OBVIOUS
  <1>3. /\ a \in Seq(BBundles \X Nat) /\ Len(a) = h + 1
        /\ \A i \in 1..h : a[i] = s[i]
        /\ a[h + 1] = <<x, h + 1>>
    BY <1>1, <1>2
  <1>4. a = [i \in 1..(h + 1) |-> a[i]]
    BY <1>3
  <1>5. \A i \in 1..(h + 1) : a[i] = <<x, i>>
    BY <1>3
  <1> QED BY <1>1, <1>2, <1>4, <1>5

(* A fragment that meets an entry of another bundle spoils both.           *)
LEMMA ClashSpoils ==
    ASSUME NEW n, NEW f, NEW t, t = transmissions[n], NEW y,
           f.tid \in DOMAIN t, Entries(t),
           NEW i \in DOMAIN t[f.tid].parts, y = t[f.tid].parts[i][1],
           y # f.part[1]
    PROVE  y \in Clash(n, f) /\ f.part[1] \in Clash(n, f)
  <1>1. PICK ps : ps = t[f.tid].parts
    OBVIOUS
  <1>2. ps \in Seq(BBundles \X Nat) /\ t[f.tid].finished = FALSE
    BY <1>1 DEF Entries
  <1>3. i \in 1..Len(ps)
    BY <1>1, <1>2
  <1>4. PICK others : others = {p[1] : p \in {ps[j] : j \in 1..Len(ps)}} \ {f.part[1]}
    OBVIOUS
  <1>5. y \in others
    BY <1>1, <1>3, <1>4
  <1>6. Clash(n, f) = others \union {f.part[1]}
    <2>1. others = {p[1] : p \in {transmissions[n][f.tid].parts[j] :
                       j \in 1..Len(transmissions[n][f.tid].parts)}} \ {f.part[1]}
      BY <1>1, <1>4, Zenon
    <2>2. Known(n, f) /\ ~transmissions[n][f.tid].finished /\ others # {}
      BY <1>2, <1>5, Zenon DEF Known
    <2> QED BY <2>1, <2>2, Zenon DEF Clash
  <1> QED BY <1>5, <1>6

(* The next part of an unspoilt bundle is accepted, and the last completes *)
(* it.                                                                     *)
LEMMA OwnAccepted ==
    ASSUME NEW n \in BNodes, NEW x \in BBundles, NEW t \in Nat, NEW h \in Nat,
           h < Size[x], NEW f, f = Own(x, t, h + 1),
           Entries(transmissions[n]), x \notin Clash(n, f),
           Assembled(transmissions[n], reported[n], x, t, h)
    PROVE  /\ ~Refused(n, f)
           /\ Added(n, f).parts = [i \in 1..(h + 1) |-> <<x, i>>]
           /\ Added(n, f).seq = (h + 1) % SeqNoMod
           /\ Added(n, f).finished = f.end
           /\ f.tid = t /\ f.part = <<x, h + 1>>
           /\ f.end = (h + 1 = Size[x])
  <1>0. /\ f.tid = t /\ f.part = <<x, h + 1>> /\ f.start = (h + 1 = 1)
        /\ f.end = (h + 1 = Size[x]) /\ f.seq = (h + 1) % SeqNoMod
        /\ f.part[1] = x
    BY DEF Own, Fragment
  <1>1. PICK tr : tr = transmissions[n]
    OBVIOUS
  <1>2. Size[x] \in Nat /\ SeqNoMod \in Nat \ {0}
    BY BAssumption
  <1>3. CASE h = 0
    <2>1. ~Known(n, f)
      <3> SUFFICES ASSUME f.tid \in DOMAIN tr PROVE FALSE
        BY <1>1 DEF Known
      <3>1. tr[f.tid].parts \in Seq(BBundles \X Nat) /\ tr[f.tid].parts # <<>>
        BY <1>1 DEF Entries
      <3>2. 1 \in DOMAIN tr[f.tid].parts
        BY <3>1
      <3>3. tr[f.tid].parts[1][1] # x
        BY <1>1, <1>3, <3>2 DEF Assembled
      <3> QED BY <1>0, <1>1, <3>2, <3>3, ClashSpoils
    <2>a. h + 1 = 1
      BY <1>3
    <2>b. f.start
      BY <1>0, <2>a, Zenon
    <2>2. ~Refused(n, f)
      BY <2>1, <2>b, Zenon DEF Refused
    <2>3. Added(n, f) = [parts |-> <<f.part>>, seq |-> f.seq, finished |-> f.end]
      BY <2>1 DEF Added
    <2>4. <<f.part>> = [i \in 1..(h + 1) |-> <<x, i>>]
      BY <1>0, <1>3
    <2> QED BY <1>0, <2>2, <2>3, <2>4
  <1>4. CASE h > 0
    <2>1. /\ t \in DOMAIN tr /\ tr[t].parts = [i \in 1..h |-> <<x, i>>]
          /\ tr[t].seq = h % SeqNoMod
      BY <1>1, <1>2, <1>4 DEF Assembled
    <2>2. Known(n, f) /\ tr[t].finished = FALSE
      BY <1>0, <1>1, <2>1 DEF Known, Entries
    <2>3. nextSequenceNumber(tr[t].seq) = (h + 1) % SeqNoMod
      BY <1>2, <2>1, NextMod DEF nextSequenceNumber
    <2>a. ~(h + 1 = 1)
      BY <1>4
    <2>4. ~f.start
      BY <1>0, <2>a, Zenon
    <2>5. ~Refused(n, f)
      BY <1>0, <1>1, <2>2, <2>3, <2>4 DEF Refused
    <2>6. Added(n, f) = [parts |-> Append(tr[t].parts, f.part), seq |-> f.seq,
                         finished |-> f.end]
      BY <1>0, <1>1, <2>2 DEF Added
    <2>7. Append(tr[t].parts, f.part) = [i \in 1..(h + 1) |-> <<x, i>>]
      <3>1. PICK s : s = tr[t].parts
        OBVIOUS
      <3>2. s = [i \in 1..h |-> <<x, i>>]
        BY <2>1, <3>1
      <3>3. Append(s, <<x, h + 1>>) = [i \in 1..(h + 1) |-> <<x, i>>]
        BY <3>2, PartsOf
      <3> QED BY <1>0, <3>1, <3>3, Zenon
    <2>8. /\ Added(n, f).parts = [i \in 1..(h + 1) |-> <<x, i>>]
          /\ Added(n, f).seq = f.seq /\ Added(n, f).finished = f.end
      <3>1. PICK w : w = Append(tr[t].parts, f.part)
        OBVIOUS
      <3>2. Added(n, f) = [parts |-> w, seq |-> f.seq, finished |-> f.end]
        BY <2>6, <3>1, Zenon
      <3>3. /\ Added(n, f).parts = w /\ Added(n, f).seq = f.seq
            /\ Added(n, f).finished = f.end
        BY <3>2
      <3> QED BY <2>7, <3>1, <3>3, Zenon
    <2> QED BY <1>0, <2>5, <2>8, Zenon
  <1> QED BY <1>3, <1>4

(* A node handles the next part of x *)
LEMMA OwnHandled ==
    ASSUME NEW n \in BNodes, NEW x \in BBundles, NEW t \in Nat, NEW last \in Nat,
           last <= Size[x], NEW f, f = reading[n], f # None, PartOf(f, x), NEW md, NEW out,
           transmissions = [m \in BNodes |-> transmissions[m]],
           reported = [m \in BNodes |-> reported[m]],
           Entries(transmissions[n]), x \notin Clash(n, f), HandleFragment(n),
           Tracked(x, t, last, f, md, out, transmissions[n], reported[n])
    PROVE  Tracked(x, t, last, None, md, out, transmissions'[n], reported'[n])
  <1>1. PICK h, m, o \in Nat :
            /\ o <= last
            /\ InHand(f, x, t, h, m)
            /\ Chain(md, x, t, m + 1, o) /\ m <= o
            /\ Chain(out, x, t, o + 1, last)
            /\ Assembled(transmissions[n], reported[n], x, t, h)
    BY DEF Tracked
  <1>2. m = h + 1 /\ f = Own(x, t, h + 1)
    BY <1>1 DEF InHand
  <1>3. Size[x] \in Nat /\ h < Size[x]
    BY <1>1, <1>2, BAssumption
  <1>4. /\ ~Refused(n, f)
        /\ Added(n, f).parts = [i \in 1..(h + 1) |-> <<x, i>>]
        /\ Added(n, f).seq = (h + 1) % SeqNoMod
        /\ f.tid = t /\ f.part = <<x, h + 1>>
        /\ f.end = (h + 1 = Size[x])
    BY <1>1, <1>2, <1>3, OwnAccepted
  <1>5. InHand(None, x, t, h + 1, m)
    BY <1>2 DEF InHand
  <1>6. CASE h + 1 = Size[x]
    <2>1. IsBundle(Added(n, f).parts)
      BY <1>4, <1>6 DEF IsBundle
    <2>2. reported' = [reported EXCEPT ![n] = @ \union {f.part[1]}]
      BY <1>4, <1>6, <2>1 DEF HandleFragment
    <2>3. x \in reported'[n]
      BY <2>2, <1>4
    <2>4. Assembled(transmissions'[n], reported'[n], x, t, h + 1)
      BY <1>3, <1>6, <2>3 DEF Assembled
    <2> QED BY <1>1, <1>5, <2>4, h + 1 \in Nat DEF Tracked
  <1>7. CASE h + 1 # Size[x]
    <2>1. transmissions'[n] = With(n, t, Added(n, f))
      BY <1>4, <1>7 DEF HandleFragment
    <2>2. t \in DOMAIN transmissions'[n] /\ transmissions'[n][t] = Added(n, f)
      BY <2>1 DEF With
    <2>3. Assembled(transmissions'[n], reported'[n], x, t, h + 1)
      BY <1>3, <1>4, <1>7, <2>2 DEF Assembled
    <2> QED BY <1>1, <1>5, <2>3, h + 1 \in Nat DEF Tracked
  <1> QED BY <1>6, <1>7

(* A known transmission grows by the part of the fragment.                 *)
LEMMA AddedParts ==
    ASSUME NEW n, NEW f, Known(n, f)
    PROVE  Added(n, f).parts = Append(transmissions[n][f.tid].parts, f.part)
  BY DEF Added

(* A node handles another bundle's part *)
LEMMA OtherHandled ==
    ASSUME NEW n \in BNodes, NEW x \in BBundles, NEW t \in Nat, NEW last \in Nat,
           NEW f \in BFragments, f = reading[n], ~PartOf(f, x), NEW md, NEW out,
           transmissions = [m \in BNodes |-> transmissions[m]],
           reported = [m \in BNodes |-> reported[m]],
           Entries(transmissions[n]), x \notin Clash(n, f), HandleFragment(n),
           Tracked(x, t, last, f, md, out, transmissions[n], reported[n])
    PROVE  Tracked(x, t, last, None, md, out, transmissions'[n], reported'[n])
  <1>1. PICK h, m, o \in Nat :
            /\ o <= last
            /\ InHand(None, x, t, h, m)
            /\ Chain(md, x, t, m + 1, o) /\ m <= o
            /\ Chain(out, x, t, o + 1, last)
            /\ Assembled(transmissions[n], reported[n], x, t, h)
    BY TrackPassed DEF Tracked
  <1>2. f.fail = FALSE /\ f.part[1] # x /\ f.part \in BBundles \X Nat
    BY DEF HandleFragment, PartOf, BFragments
  <1>3. PICK tr, nr : tr = transmissions[n] /\ nr = transmissions'[n]
    OBVIOUS
  <1>4. nr = Without(n, f.tid) \/ nr = With(n, f.tid, Added(n, f))
    BY <1>3 DEF HandleFragment
  <1>5. reported[n] \subseteq reported'[n]
    BY DEF HandleFragment
  <1>6. \A u \in DOMAIN nr : u # f.tid => u \in DOMAIN tr /\ nr[u] = tr[u]
    BY <1>3, <1>4 DEF With, Without
  <1>7. \A u \in DOMAIN tr : u # f.tid => u \in DOMAIN nr /\ nr[u] = tr[u]
    BY <1>3, <1>4 DEF With, Without
  <1>8. ASSUME h = 0, NEW u \in DOMAIN nr, NEW i \in DOMAIN nr[u].parts
        PROVE  nr[u].parts[i][1] # x
    <2>1. CASE u # f.tid
      BY <1>1, <1>3, <1>6, <1>8, <2>1 DEF Assembled
    <2>2. CASE u = f.tid
      <3>1. nr[u] = Added(n, f)
        BY <1>4, <2>2 DEF With, Without
      <3>2. CASE ~Known(n, f)
        <4>1. nr[u].parts = <<f.part>>
          BY <3>1, <3>2 DEF Added
        <4> QED BY <4>1, <1>2, <1>8
      <3>3. CASE Known(n, f)
        <4>1. PICK ps : ps = tr[u].parts
          OBVIOUS
        <4>2. u \in DOMAIN tr /\ ps \in Seq(BBundles \X Nat)
          BY <1>3, <2>2, <3>3, <4>1 DEF Known, Entries
        <4>3. nr[u].parts = Append(ps, f.part)
          <5>1. Added(n, f).parts = Append(transmissions[n][f.tid].parts, f.part)
            BY <3>3, AddedParts
          <5> QED BY <1>3, <2>2, <3>1, <4>1, <5>1
        <4>4. i \in 1..(Len(ps) + 1) /\ Len(ps) \in Nat
          BY <1>2, <1>8, <4>2, <4>3
        <4>5. CASE i = Len(ps) + 1
          BY <1>2, <4>2, <4>3, <4>5
        <4>6. CASE i \in 1..Len(ps)
          <5>1. nr[u].parts[i] = ps[i] /\ i \in DOMAIN ps
            BY <1>2, <4>2, <4>3, <4>6
          <5>2. ps[i][1] # x
            BY <1>1, <1>3, <1>8, <4>1, <4>2, <5>1 DEF Assembled
          <5> QED BY <5>1, <5>2
        <4> QED BY <4>4, <4>5, <4>6
      <3> QED BY <3>2, <3>3
    <2> QED BY <2>1, <2>2
  <1>9. ASSUME h \in 1..(Size[x] - 1)
        PROVE  /\ t \in DOMAIN nr
               /\ nr[t].parts = [i \in 1..h |-> <<x, i>>]
               /\ nr[t].seq = h % SeqNoMod
    <2>1. /\ t \in DOMAIN tr
          /\ tr[t].parts = [i \in 1..h |-> <<x, i>>]
          /\ tr[t].seq = h % SeqNoMod
      BY <1>1, <1>3, <1>9 DEF Assembled
    <2>2. 1 \in DOMAIN tr[t].parts /\ tr[t].parts[1][1] = x
      BY <2>1, <1>9, BAssumption
    <2>3. t # f.tid
      BY <1>2, <1>3, <2>1, <2>2, ClashSpoils
    <2> QED BY <1>7, <2>1, <2>3
  <1>10. Assembled(nr, reported'[n], x, t, h)
    BY <1>1, <1>5, <1>8, <1>9 DEF Assembled
  <1> QED BY <1>1, <1>3, <1>10 DEF Tracked

BSends == [pc: {"idle", "new", "loop", "put", "ok", "err"}, tid: Nat, seq: Nat,
            next: Nat]

BTypes ==
    /\ tid \in [BNodes -> Nat]
    /\ sending \in [BBundles -> BSends]
    /\ fragmentOut \in [BNodes -> Seq(BFragments)]
    /\ failTransmission \in [BNodes -> Seq(Nat)]
    /\ modem \in [BNodes -> Seq(BFragments)]
    /\ reading \in [BNodes -> BFragments \union {None}]
    /\ transmissions = [n \in BNodes |-> transmissions[n]]
    /\ reported \in [BNodes -> SUBSET BBundles]
    /\ spoilt = [n \in BNodes |-> spoilt[n]]

(* How far the Send of x is.                                               *)
Paced(x) ==
    /\ sending[x].pc \in {"idle", "new"} => sending[x].seq = 0 /\ sending[x].next = 1
    /\ sending[x].pc = "loop" => sending[x].seq = (sending[x].next - 1) % SeqNoMod
    /\ sending[x].pc = "put" => sending[x].seq = sending[x].next % SeqNoMod
    /\ sending[x].next \in 1..(Size[x] + 1)
    /\ sending[x].pc # "ok" => sending[x].next <= Size[x]
    /\ sending[x].pc = "ok" => sending[x].next = Size[x] + 1

(* What waits to be broadcast at n is a part of a bundle of n, or fails.   *)
Outgoing(n) ==
    \A k \in 1..Len(fragmentOut[n]) :
        fragmentOut[n][k].fail = FALSE => Source[fragmentOut[n][k].part[1]] = n

Followed(x, n) ==
    Tracked(x, sending[x].tid, sending[x].next - 1, reading[n], modem[n],
            fragmentOut[Source[x]], transmissions[n], reported[n])

Local == /\ BTypes
         /\ \A x \in BBundles : Paced(x)
         /\ \A n \in BNodes : Entries(transmissions[n]) /\ Outgoing(n)

HearInv ==
    Local /\ \A x \in BBundles : \A n \in BNodes \ {Source[x]} :
                x \in spoilt[n] \/ Followed(x, n)

(* The connector starts in the invariant *)
LEMMA HearInit == ASSUME BInit PROVE HearInv
  <1>1. BTypes
    BY BAssumption DEF BInit, BTypes, BSends
  <1>2. ASSUME NEW x \in BBundles PROVE Paced(x)
    BY BAssumption DEF BInit, Paced
  <1>3. ASSUME NEW n \in BNodes PROVE Entries(transmissions[n]) /\ Outgoing(n)
    BY Len(<<>>) = 0 DEF BInit, Entries, NoTransmissions, Outgoing
  <1>4. ASSUME NEW x \in BBundles, NEW n \in BNodes PROVE Followed(x, n)
    <2>1. /\ sending[x].tid = 0 /\ sending[x].next - 1 = 0 /\ reading[n] = None
          /\ modem[n] = <<>> /\ fragmentOut[Source[x]] = <<>>
          /\ transmissions[n] = NoTransmissions
      BY BAssumption DEF BInit
    <2>2. Chain(<<>>, x, 0, 0 + 1, 0)
      BY ChainEmpty
    <2>3. InHand(None, x, 0, 0, 0)
      BY DEF InHand
    <2>4. Assembled(NoTransmissions, reported[n], x, 0, 0)
      BY BAssumption DEF Assembled, NoTransmissions
    <2>5. Tracked(x, 0, 0, None, <<>>, <<>>, NoTransmissions, reported[n])
      BY <2>2, <2>3, <2>4, 0 \in Nat, 0 <= 0 DEF Tracked
    <2> QED BY <2>1, <2>5 DEF Followed
  <1> QED BY <1>1, <1>2, <1>3, <1>4 DEF HearInv, Local

(* The steps of Send.                                                      *)
LEMMA LastType ==
    ASSUME BTypes, NEW x \in BBundles, Paced(x)
    PROVE  /\ sending[x].next - 1 \in Nat /\ sending[x].next - 1 <= Size[x]
           /\ sending[x].tid \in Nat /\ sending[x].next \in Nat
           /\ Source[x] \in BNodes
  BY BAssumption DEF BTypes, BSends, Paced

(* Send changes no more than its own state, and takes ids and failures.    *)
LEMMA SendTypes ==
    ASSUME BTypes, sending' \in [BBundles -> BSends], tid' \in [BNodes -> Nat],
           failTransmission' \in [BNodes -> Seq(Nat)],
           fragmentOut' \in [BNodes -> Seq(BFragments)],
           UNCHANGED <<modem, reading, transmissions, reported, spoilt>>
    PROVE  BTypes'
  BY DEF BTypes

(* Send keeps it *)
LEMMA HearSend ==
    ASSUME HearInv, NEW y \in BBundles, BSend(y)
    PROVE  HearInv'
  <1> USE DEF HearInv, Local
  <1>1. BTypes'
    <2>1. sending' \in [BBundles -> BSends]
      <3>1. tid[Source[y]] \in Nat /\ sending[y] \in BSends
        BY BAssumption DEF BTypes
      <3>2. [sending[y] EXCEPT !.pc = "new", !.tid = tid[Source[y]]] \in BSends
        BY <3>1 DEF BSends
      <3> QED BY <3>2 DEF BSend, BTypes
    <2> QED BY <2>1, SendTypes DEF BSend, BTypes
  <1>2. ASSUME NEW x \in BBundles PROVE Paced(x)'
    BY SMTT(30), BAssumption DEF Paced, BSend, BTypes, BSends
  <1>3. ASSUME NEW n \in BNodes PROVE (Entries(transmissions[n]) /\ Outgoing(n))'
    BY DEF BSend, Outgoing
  <1>4. ASSUME NEW x \in BBundles, NEW n \in BNodes \ {Source[x]}
        PROVE (x \in spoilt[n] \/ Followed(x, n))'
    <2>1. CASE x # y
      BY <2>1 DEF BSend, BTypes, Followed
    <2>2. CASE x = y
      <3>1. sending[x].next - 1 = 0 /\ sending'[x].next - 1 = 0
        BY <2>2 DEF BSend, BTypes, BSends, Paced
      <3>2. Followed(x, n) => Followed(x, n)'
        BY <3>1, TrackBegins DEF Followed, BSend
      <3> QED BY <3>2 DEF BSend
    <2> QED BY <2>1, <2>2
  <1> QED BY <1>1, <1>2, <1>3, <1>4

(* A step of Send that neither takes an id nor puts a part.                *)
LEMMA HearPaces ==
    ASSUME HearInv, BTypes', \A x \in BBundles : Paced(x)',
           \A x \in BBundles : /\ sending'[x].tid = sending[x].tid
                               /\ sending'[x].next = sending[x].next,
           UNCHANGED <<fragmentOut, modem, reading, transmissions, reported, spoilt>>
    PROVE  HearInv'
  BY DEF HearInv, Local, Followed, Outgoing

(* So do the steps of Send that queue nothing *)
LEMMA HearQuiet ==
    ASSUME HearInv, NEW y \in BBundles,
           SendNextId(y) \/ SendFailed(y) \/ SendWriteFragment(y)
    PROVE  HearInv'
  <1> USE DEF HearInv, Local
  <1>s. sending[y] \in BSends
    BY DEF BTypes
  <1>0. Source[y] \in BNodes /\ TidMod \in Nat \ {0} /\ SeqNoMod \in Nat \ {0}
    BY BAssumption
  <1>1. CASE SendNextId(y)
    <2>1. BTypes'
      <3>1. tid' \in [BNodes -> Nat]
        BY <1>0, <1>1 DEF BTypes, SendNextId, nextTransmissionId
      <3>2. [sending[y] EXCEPT !.pc = "loop"] \in BSends
        BY <1>s DEF BSends
      <3>3. sending' \in [BBundles -> BSends]
        BY <1>1, <3>2 DEF SendNextId, BTypes
      <3> QED BY <1>1, <3>1, <3>3, SendTypes DEF SendNextId, BTypes
    <2>2. ASSUME NEW x \in BBundles PROVE Paced(x)'
      <3>1. 0 % SeqNoMod = 0
        BY <1>0
      <3> QED BY <1>1, <3>1 DEF Paced, SendNextId, BTypes, BSends
    <2>3. \A x \in BBundles : sending'[x].tid = sending[x].tid
                              /\ sending'[x].next = sending[x].next
      BY <1>1 DEF SendNextId, BTypes, BSends
    <2> QED BY <1>1, <2>1, <2>2, <2>3, HearPaces DEF SendNextId
  <1>2. CASE SendFailed(y)
    <2>1. BTypes'
      <3>1. failTransmission' \in [BNodes -> Seq(Nat)]
        BY <1>0, <1>2 DEF BTypes, SendFailed
      <3>2. \A c \in {"err", sending[y].pc} : [sending[y] EXCEPT !.pc = c] \in BSends
        BY <1>s DEF BSends
      <3>3. sending' \in [BBundles -> BSends]
        BY <1>2, <3>2 DEF SendFailed, BTypes
      <3> QED BY <1>2, <3>1, <3>3, SendTypes DEF SendFailed, BTypes
    <2>2. ASSUME NEW x \in BBundles PROVE Paced(x)'
      BY <1>2 DEF Paced, SendFailed, BTypes, BSends
    <2>3. \A x \in BBundles : sending'[x].tid = sending[x].tid
                              /\ sending'[x].next = sending[x].next
      BY <1>2 DEF SendFailed, BTypes, BSends
    <2> QED BY <1>2, <2>1, <2>2, <2>3, HearPaces DEF SendFailed
  <1>3. CASE SendWriteFragment(y)
    <2>1. BTypes'
      <3>1. nextSequenceNumber(sending[y].seq) \in Nat
        BY SMTT(30), <1>0 DEF BTypes, BSends, nextSequenceNumber
      <3>2. [sending[y] EXCEPT !.pc = "put", !.seq = nextSequenceNumber(sending[y].seq)]
              \in BSends
        BY <1>s, <3>1 DEF BSends
      <3>3. sending' \in [BBundles -> BSends]
        BY <1>3, <3>2 DEF SendWriteFragment, BTypes
      <3> QED BY <1>3, <3>3, SendTypes DEF SendWriteFragment, BTypes
    <2>2. ASSUME NEW x \in BBundles PROVE Paced(x)'
      <3>1. CASE x # y
        BY <1>3, <3>1 DEF Paced, SendWriteFragment, BTypes
      <3>2. CASE x = y
        <4>1. PICK i \in Nat : i = sending[x].next - 1
          BY LastType
        <4>2. sending[x].seq = i % SeqNoMod /\ sending[x].pc = "loop"
          BY <1>3, <3>2, <4>1 DEF Paced, SendWriteFragment
        <4>3. nextSequenceNumber(sending[x].seq) = (i + 1) % SeqNoMod
          BY <1>0, <4>2, NextMod DEF nextSequenceNumber
        <4>4. i + 1 = sending[x].next
          BY <4>1, LastType
        <4>5. sending'[x] = [sending[x] EXCEPT !.pc = "put",
                               !.seq = nextSequenceNumber(sending[x].seq)]
          BY <1>3, <3>2 DEF SendWriteFragment, BTypes
        <4>6. /\ sending'[x].pc = "put" /\ sending'[x].next = sending[x].next
              /\ sending'[x].seq = sending[x].next % SeqNoMod
          BY <4>3, <4>4, <4>5 DEF BTypes, BSends
        <4> QED BY <4>2, <4>6 DEF Paced
      <3> QED BY <3>1, <3>2
    <2>3. \A x \in BBundles : sending'[x].tid = sending[x].tid
                              /\ sending'[x].next = sending[x].next
      BY <1>3 DEF SendWriteFragment, BTypes, BSends
    <2> QED BY <1>3, <2>1, <2>2, <2>3, HearPaces DEF SendWriteFragment
  <1> QED BY <1>1, <1>2, <1>3

(* So does the step that queues a fragment *)
LEMMA HearPut ==
    ASSUME HearInv, NEW y \in BBundles, SendPut(y)
    PROVE  HearInv'
  <1> USE DEF HearInv, Local
  <1>s. PICK s \in BSends : s = sending[y]
    BY DEF BTypes
  <1>k. PICK k \in BNodes : k = Source[y]
    BY BAssumption
  <1>0. /\ s.pc = "put" /\ s.seq = s.next % SeqNoMod /\ s.next \in 1..Size[y]
        /\ Size[y] \in Nat /\ s.tid \in Nat /\ s.next \in Nat
    BY <1>s, BAssumption DEF SendPut, Paced, BSends
  <1>g. PICK g : g = Own(y, s.tid, s.next)
    OBVIOUS
  <1>a. g \in BFragments /\ PartOf(g, y) /\ \A x \in BBundles \ {y} : ~PartOf(g, x)
    BY <1>0, <1>g, OwnType
  <1>1. fragmentOut' = [fragmentOut EXCEPT ![k] = Append(fragmentOut[k], g)]
    BY <1>s, <1>k, <1>0, <1>g DEF SendPut, Own
  <1>b. /\ fragmentOut'[k] = Append(fragmentOut[k], g)
        /\ \A n \in BNodes : n # k => fragmentOut'[n] = fragmentOut[n]
    BY <1>1 DEF BTypes
  <1>2. PICK c \in {"ok", "loop"} :
            /\ sending' = [sending EXCEPT ![y] = [s EXCEPT !.pc = c, !.next = s.next + 1]]
            /\ c = "ok" <=> s.next = Size[y]
    BY <1>s DEF SendPut, BTypes
  <1>3. PICK r : r = [s EXCEPT !.pc = c, !.next = s.next + 1]
    OBVIOUS
  <1>4. r \in BSends /\ r.pc = c /\ r.next = s.next + 1 /\ r.seq = s.seq /\ r.tid = s.tid
    <2>1. r = [pc |-> c, tid |-> s.tid, seq |-> s.seq, next |-> s.next + 1]
      BY <1>3 DEF BSends
    <2>2. s.tid \in Nat /\ s.seq \in Nat /\ s.next + 1 \in Nat
      BY <1>0 DEF BSends
    <2> QED BY <2>1, <2>2 DEF BSends
  <1>5. sending'[y] = r /\ \A x \in BBundles : x # y => sending'[x] = sending[x]
    BY <1>2, <1>3 DEF BTypes
  <1>6. BTypes'
    <2>1. sending' \in [BBundles -> BSends]
      BY <1>2, <1>3, <1>4 DEF BTypes
    <2>2. Append(fragmentOut[k], g) \in Seq(BFragments)
      BY <1>a DEF BTypes
    <2>3. fragmentOut' \in [BNodes -> Seq(BFragments)]
      BY <1>1, <2>2 DEF BTypes
    <2> QED BY <2>1, <2>3, SendTypes DEF SendPut, BTypes
  <1>7. ASSUME NEW x \in BBundles PROVE Paced(x)'
    <2>1. CASE x # y
      BY <1>5, <2>1 DEF Paced
    <2>2. CASE x = y
      <3>1. (r.next - 1) % SeqNoMod = r.seq
        BY <1>0, <1>4
      <3> QED BY <1>0, <1>2, <1>4, <1>5, <2>2, <3>1 DEF Paced
    <2> QED BY <2>1, <2>2
  <1>8. ASSUME NEW n \in BNodes PROVE (Entries(transmissions[n]) /\ Outgoing(n))'
    <2>1. Entries(transmissions'[n])
      BY DEF SendPut
    <2>2. CASE n # k
      BY <1>b, <2>1, <2>2 DEF Outgoing
    <2>3. CASE n = k
      <3>1. fragmentOut[k] \in Seq(BFragments)
        BY DEF BTypes
      <3>2. \A j \in 1..Len(fragmentOut'[k]) :
                \/ j \in 1..Len(fragmentOut[k]) /\ fragmentOut'[k][j] = fragmentOut[k][j]
                \/ fragmentOut'[k][j] = g
        BY <1>a, <1>b, <3>1
      <3>3. g.part[1] = y
        BY <1>a DEF PartOf
      <3>4. Outgoing(n)'
        BY <1>k, <2>3, <3>2, <3>3 DEF Outgoing
      <3> QED BY <2>1, <3>4
    <2> QED BY <2>2, <2>3
  <1>9. ASSUME NEW x \in BBundles, NEW n \in BNodes \ {Source[x]}
        PROVE (x \in spoilt[n] \/ Followed(x, n))'
    <2>u. UNCHANGED <<modem, reading, transmissions, reported, spoilt>>
      BY DEF SendPut
    <2>t. /\ sending[x].next - 1 \in Nat /\ sending[x].tid \in Nat
          /\ Source[x] \in BNodes
      BY LastType
    <2>o. fragmentOut[k] \in Seq(BFragments)
      BY DEF BTypes
    <2> SUFFICES ASSUME Followed(x, n) PROVE Followed(x, n)'
      BY <2>u
    <2>1. CASE x = y
      <3>1. /\ sending[x].next - 1 = s.next - 1 /\ (s.next - 1) + 1 = s.next
            /\ s.next - 1 \in Nat /\ sending'[x].next - 1 = s.next
            /\ sending'[x].tid = s.tid /\ Source[x] = k /\ s.tid = sending[x].tid
        BY <1>s, <1>k, <1>0, <1>4, <1>5, <2>1
      <3>2. Tracked(x, s.tid, s.next - 1, reading[n], modem[n], fragmentOut[k],
                    transmissions[n], reported[n])
        BY <3>1, Zenon DEF Followed
      <3>3. Tracked(x, s.tid, (s.next - 1) + 1, reading[n], modem[n],
                    Append(fragmentOut[k], Own(x, s.tid, (s.next - 1) + 1)),
                    transmissions[n], reported[n])
        BY <1>0, <2>o, <3>1, <3>2, TrackPut
      <3>4. Tracked(x, s.tid, s.next, reading[n], modem[n],
                    fragmentOut'[k], transmissions[n], reported[n])
        BY <1>b, <1>g, <2>1, <3>1, <3>3
      <3> QED BY <3>1, <3>4, <2>u DEF Followed
    <2>2. CASE x # y /\ Source[x] = k
      <3>1. ~PartOf(g, x) /\ sending'[x] = sending[x]
        BY <1>a, <1>5, <2>2
      <3>2. Tracked(x, sending[x].tid, sending[x].next - 1, reading[n], modem[n],
                    Append(fragmentOut[k], g), transmissions[n], reported[n])
        BY <1>a, <2>o, <2>t, <2>2, <3>1, TrackQueued DEF Followed
      <3> QED BY <1>b, <2>2, <2>u, <3>1, <3>2 DEF Followed
    <2>3. CASE x # y /\ Source[x] # k
      BY <1>b, <1>5, <2>3, <2>t, <2>u DEF Followed
    <2> QED BY <2>1, <2>2, <2>3
  <1> QED BY <1>6, <1>7, <1>8, <1>9

(* So does the broadcast of a fragment *)
LEMMA HearWrite ==
    ASSUME HearInv, NEW k \in BNodes, NEW to \in SUBSET BNodes, handlerWrite(k, to)
    PROVE  HearInv'
  <1> USE DEF HearInv, Local
  <1>1. /\ fragmentOut[k] \in Seq(BFragments) /\ fragmentOut[k] # <<>>
        /\ k \notin to
    BY DEF handlerWrite, BTypes
  <1>2. PICK f \in BFragments : f = Head(fragmentOut[k])
    BY <1>1
  <1>3. /\ fragmentOut'[k] = Tail(fragmentOut[k])
        /\ fragmentOut' = [fragmentOut EXCEPT ![k] = Tail(fragmentOut[k])]
        /\ \A n \in BNodes : n # k => fragmentOut'[n] = fragmentOut[n]
    BY DEF handlerWrite, BTypes
  <1>4. /\ modem' = [m \in BNodes |-> IF m \in to THEN Append(modem[m], f) ELSE modem[m]]
        /\ spoilt' = [m \in BNodes |-> IF m \in BNodes \ ({k} \union to) /\ ~f.fail
                          THEN spoilt[m] \union {f.part[1]} ELSE spoilt[m]]
    BY <1>2 DEF handlerWrite
  <1>5. UNCHANGED <<tid, sending, failTransmission, reading, transmissions, reported>>
    BY DEF handlerWrite
  <1>6. BTypes'
    <2>1. fragmentOut' \in [BNodes -> Seq(BFragments)]
      BY <1>1, <1>3 DEF BTypes
    <2>2. modem' \in [BNodes -> Seq(BFragments)]
      BY <1>4 DEF BTypes
    <2>3. spoilt' = [n \in BNodes |-> spoilt'[n]]
      BY <1>4
    <2> QED BY <1>5, <2>1, <2>2, <2>3 DEF BTypes
  <1>7. ASSUME NEW x \in BBundles PROVE Paced(x)'
    BY <1>5 DEF Paced
  <1>8. ASSUME NEW n \in BNodes PROVE (Entries(transmissions[n]) /\ Outgoing(n))'
    <2>1. Entries(transmissions'[n])
      BY <1>5
    <2>2. CASE n # k
      BY <1>3, <2>1, <2>2 DEF Outgoing
    <2>3. CASE n = k
      <3>1. \A j \in 1..Len(fragmentOut'[k]) :
                j + 1 \in 1..Len(fragmentOut[k]) /\ fragmentOut'[k][j] = fragmentOut[k][j + 1]
        BY <1>1, <1>3
      <3>2. Outgoing(n)'
        BY <2>3, <3>1 DEF Outgoing
      <3> QED BY <2>1, <3>2
    <2> QED BY <2>2, <2>3
  <1>9. ASSUME NEW x \in BBundles, NEW n \in BNodes \ {Source[x]}
        PROVE (x \in spoilt[n] \/ Followed(x, n))'
    <2>t. /\ sending[x].next - 1 \in Nat /\ sending[x].tid \in Nat
          /\ Source[x] \in BNodes
      BY LastType
    <2>m. modem[n] \in Seq(BFragments)
      BY DEF BTypes
    <2>s. spoilt[n] \subseteq spoilt'[n]
      BY <1>4
    <2> SUFFICES ASSUME Followed(x, n), x \notin spoilt'[n] PROVE Followed(x, n)'
      BY <2>s
    <2>1. CASE Source[x] = k /\ n \in to
      <3>1. Tracked(x, sending[x].tid, sending[x].next - 1, reading[n],
                    Append(modem[n], f), Tail(fragmentOut[k]), transmissions[n],
                    reported[n])
        BY <1>1, <1>2, <2>t, <2>m, <2>1, TrackHeard DEF Followed
      <3>2. modem'[n] = Append(modem[n], f)
        BY <1>4, <2>1
      <3> QED BY <1>3, <1>5, <2>1, <3>1, <3>2 DEF Followed
    <2>2. CASE Source[x] = k /\ n \notin to
      <3>1. ~PartOf(f, x)
        <4> SUFFICES ASSUME f.fail = FALSE, f.part[1] = x PROVE FALSE
          BY DEF PartOf
        <4>1. n \in BNodes \ ({k} \union to)
          BY <2>2
        <4>2. x \in spoilt'[n]
          BY <1>4, <4>1
        <4> QED BY <4>2
      <3>2. Tracked(x, sending[x].tid, sending[x].next - 1, reading[n], modem[n],
                    Tail(fragmentOut[k]), transmissions[n], reported[n])
        BY <1>1, <1>2, <2>t, <2>2, <3>1, TrackUnheard DEF Followed
      <3>3. modem'[n] = modem[n]
        BY <1>4, <2>2
      <3> QED BY <1>3, <1>5, <2>2, <3>2, <3>3 DEF Followed
    <2>3. CASE Source[x] # k
      <3>1. ~PartOf(f, x)
        <4>1. 1 \in 1..Len(fragmentOut[k]) /\ f = fragmentOut[k][1]
          BY <1>1, <1>2
        <4>2. f.fail = FALSE => Source[f.part[1]] = k
          BY <4>1 DEF Outgoing
        <4> QED BY <2>3, <4>2 DEF PartOf
      <3>2. fragmentOut'[Source[x]] = fragmentOut[Source[x]]
        BY <1>3, <2>3, <2>t
      <3>3. CASE n \in to
        <4>1. Tracked(x, sending[x].tid, sending[x].next - 1, reading[n],
                      Append(modem[n], f), fragmentOut[Source[x]], transmissions[n],
                      reported[n])
          BY <2>t, <2>m, <3>1, TrackOverheard DEF Followed
        <4>2. modem'[n] = Append(modem[n], f)
          BY <1>4, <3>3
        <4> QED BY <1>5, <3>2, <4>1, <4>2 DEF Followed
      <3>4. CASE n \notin to
        <4>1. modem'[n] = modem[n]
          BY <1>4, <3>4
        <4> QED BY <1>5, <3>2, <4>1 DEF Followed
      <3> QED BY <3>3, <3>4
    <2> QED BY <2>1, <2>2, <2>3
  <1> QED BY <1>6, <1>7, <1>8, <1>9

(* The reader takes a fragment.                                            *)
LEMMA HearReceive ==
    ASSUME HearInv, NEW k \in BNodes, Receive(k)
    PROVE  HearInv'
  <1> USE DEF HearInv, Local
  <1>1. /\ modem[k] \in Seq(BFragments) /\ modem[k] # <<>> /\ reading[k] = None
    BY DEF Receive, BTypes
  <1>2. /\ reading'[k] = Head(modem[k]) /\ modem'[k] = Tail(modem[k])
        /\ \A n \in BNodes : n # k => reading'[n] = reading[n] /\ modem'[n] = modem[n]
    BY DEF Receive, BTypes
  <1>3. BTypes'
    <2>1. reading' \in [BNodes -> BFragments \union {None}]
      <3>1. Head(modem[k]) \in BFragments
        BY <1>1
      <3> QED BY <3>1 DEF Receive, BTypes
    <2>2. modem' \in [BNodes -> Seq(BFragments)]
      BY <1>1 DEF Receive, BTypes
    <2> QED BY <2>1, <2>2 DEF Receive, BTypes
  <1>4. \A x \in BBundles : Paced(x)'
    BY DEF Receive, Paced
  <1>5. \A n \in BNodes : (Entries(transmissions[n]) /\ Outgoing(n))'
    BY DEF Receive, Outgoing
  <1>6. ASSUME NEW x \in BBundles, NEW n \in BNodes \ {Source[x]}
        PROVE (x \in spoilt[n] \/ Followed(x, n))'
    <2>t. /\ sending[x].next - 1 \in Nat /\ sending[x].tid \in Nat
      BY LastType
    <2> SUFFICES ASSUME Followed(x, n) PROVE Followed(x, n)'
      BY DEF Receive
    <2>1. CASE n # k
      BY <1>2, <2>1 DEF Followed, Receive
    <2>2. CASE n = k
      <3>1. Tracked(x, sending[x].tid, sending[x].next - 1, None, modem[k],
                    fragmentOut[Source[x]], transmissions[k], reported[k])
        BY <1>1, <2>2 DEF Followed
      <3>2. Tracked(x, sending[x].tid, sending[x].next - 1, Head(modem[k]), Tail(modem[k]),
                    fragmentOut[Source[x]], transmissions[k], reported[k])
        BY <1>1, <2>t, <3>1, TrackReceived
      <3> QED BY <1>2, <2>2, <3>2 DEF Followed, Receive
    <2> QED BY <2>1, <2>2
  <1> QED BY <1>3, <1>4, <1>5, <1>6

(* So does a failure report *)
LEMMA HearFailure ==
    ASSUME HearInv, NEW k \in BNodes, HandleFailure(k)
    PROVE  HearInv'
  <1> USE DEF HearInv, Local
  <1>1. PICK f \in BFragments : f = reading[k] /\ f.fail
    BY DEF HandleFailure, BTypes
  <1>2. reading'[k] = None /\ \A n \in BNodes : n # k => reading'[n] = reading[n]
    BY DEF HandleFailure, BTypes
  <1>3. BTypes'
    <2>1. f.tid \in Nat
      BY DEF BFragments
    <2>2. failTransmission' \in [BNodes -> Seq(Nat)]
      BY <1>1, <2>1 DEF HandleFailure, BTypes
    <2>3. reading' \in [BNodes -> BFragments \union {None}]
      BY DEF HandleFailure, BTypes
    <2> QED BY <2>2, <2>3 DEF HandleFailure, BTypes
  <1>4. \A x \in BBundles : Paced(x)'
    BY DEF HandleFailure, Paced
  <1>5. \A n \in BNodes : (Entries(transmissions[n]) /\ Outgoing(n))'
    BY DEF HandleFailure, Outgoing
  <1>6. ASSUME NEW x \in BBundles, NEW n \in BNodes \ {Source[x]}
        PROVE (x \in spoilt[n] \/ Followed(x, n))'
    <2>t. sending[x].next - 1 \in Nat
      BY LastType
    <2> SUFFICES ASSUME Followed(x, n) PROVE Followed(x, n)'
      BY DEF HandleFailure
    <2>1. CASE n # k
      BY <1>2, <2>1 DEF Followed, HandleFailure
    <2>2. CASE n = k
      <3>1. ~PartOf(f, x)
        BY <1>1 DEF PartOf
      <3>2. Tracked(x, sending[x].tid, sending[x].next - 1, None, modem[k],
                    fragmentOut[Source[x]], transmissions[k], reported[k])
        BY <1>1, <2>t, <2>2, <3>1, TrackPassed DEF Followed
      <3> QED BY <1>2, <2>2, <3>2 DEF Followed, HandleFailure
    <2> QED BY <2>1, <2>2
  <1> QED BY <1>3, <1>4, <1>5, <1>6

(* So does a received fragment *)
LEMMA HearFragment ==
    ASSUME HearInv, NEW k \in BNodes, HandleFragment(k)
    PROVE  HearInv'
  <1> USE DEF HearInv, Local
  <1>1. PICK f \in BFragments : f = reading[k] /\ f # None /\ f.fail = FALSE
    BY DEF HandleFragment, BTypes, BFragments
  <1>2. /\ f.part \in BBundles \X Nat /\ f.part[1] \in BBundles
        /\ f.tid \in Nat /\ f.seq \in Nat
    BY <1>1 DEF BFragments
  <1>3. reading'[k] = None /\ \A n \in BNodes : n # k => reading'[n] = reading[n]
    BY DEF HandleFragment, BTypes
  <1>4. PICK g \in BFragments : g = ReportFailure(f) /\ g.fail
    <2>1. PICK g : g = [tid |-> f.tid, seq |-> f.seq, fail |-> TRUE]
      OBVIOUS
    <2>2. g \in [tid: Nat, seq: Nat, fail: {TRUE}] /\ g.fail
      BY <1>2, <2>1
    <2> QED BY <2>1, <2>2 DEF ReportFailure, BFragments
  <1>5. \/ fragmentOut' = fragmentOut
        \/ fragmentOut' = [fragmentOut EXCEPT ![k] = Append(fragmentOut[k], g)]
    BY <1>1, <1>4 DEF HandleFragment
  <1>6. /\ fragmentOut'[k] \in {fragmentOut[k], Append(fragmentOut[k], g)}
        /\ \A n \in BNodes : n # k => fragmentOut'[n] = fragmentOut[n]
    BY <1>5 DEF BTypes
  <1>7. PICK tr, nr : /\ tr = transmissions[k] /\ nr = transmissions'[k]
                      /\ transmissions' = [transmissions EXCEPT ![k] = nr]
                      /\ nr = Without(k, f.tid) \/ nr = With(k, f.tid, Added(k, f))
                      /\ nr = With(k, f.tid, Added(k, f)) =>
                            nr = Without(k, f.tid) \/ f.end = FALSE
    <2>1. PICK nr : /\ transmissions' = [transmissions EXCEPT ![k] = nr]
                    /\ nr = Without(k, f.tid) \/
                          (nr = With(k, f.tid, Added(k, f)) /\ ~f.end)
      BY <1>1 DEF HandleFragment
    <2>2. nr = transmissions'[k]
      BY <2>1 DEF BTypes
    <2>3. f.end \in BOOLEAN
      BY <1>1 DEF BFragments
    <2> QED BY <2>1, <2>2, <2>3
  <1>8. \A n \in BNodes : n # k => transmissions'[n] = transmissions[n]
    BY <1>7 DEF BTypes
  <1>9. /\ reported' \in [BNodes -> SUBSET BBundles]
        /\ \A n \in BNodes : n # k => reported'[n] = reported[n]
    BY <1>1, <1>2 DEF HandleFragment, BTypes
  <1>10. /\ spoilt' = [spoilt EXCEPT ![k] = spoilt[k] \union Clash(k, f)]
         /\ spoilt'[k] = spoilt[k] \union Clash(k, f)
         /\ \A n \in BNodes : n # k => spoilt'[n] = spoilt[n]
    BY <1>1 DEF HandleFragment, BTypes
  <1>11. UNCHANGED <<tid, sending, failTransmission, modem>>
    BY DEF HandleFragment
  <1>12. BTypes'
    <2>1. fragmentOut' \in [BNodes -> Seq(BFragments)]
      <3>1. Append(fragmentOut[k], g) \in Seq(BFragments)
        BY DEF BTypes
      <3> QED BY <1>5, <3>1 DEF BTypes
    <2>2. reading' \in [BNodes -> BFragments \union {None}]
      BY DEF HandleFragment, BTypes
    <2>3. transmissions' = [n \in BNodes |-> transmissions'[n]]
      BY <1>7 DEF BTypes
    <2>4. spoilt' = [n \in BNodes |-> spoilt'[n]]
      BY <1>10 DEF BTypes
    <2> QED BY <1>9, <1>11, <2>1, <2>2, <2>3, <2>4 DEF BTypes
  <1>13. \A x \in BBundles : Paced(x)'
    BY <1>11 DEF Paced
  <1>14. ASSUME NEW n \in BNodes PROVE Entries(transmissions'[n])
    <2>1. CASE n # k
      BY <1>8, <2>1
    <2>2. CASE n = k
      <3>0. Entries(tr)
        BY <1>7
      <3>1. CASE nr = Without(k, f.tid)
        BY <1>7, <2>2, <3>0, <3>1 DEF Without, Entries
      <3>2. CASE nr # Without(k, f.tid)
        <4>1. nr = With(k, f.tid, Added(k, f)) /\ f.end = FALSE
          BY <1>7, <3>2
        <4>2. PICK e : e = Added(k, f)
          OBVIOUS
        <4>3. e.finished = FALSE /\ e.parts \in Seq(BBundles \X Nat) /\ e.parts # <<>>
          <5>1. e.finished = FALSE
            BY <4>1, <4>2 DEF Added
          <5>2. CASE Known(k, f)
            <6>1. tr[f.tid].parts \in Seq(BBundles \X Nat)
              BY <1>7, <3>0, <5>2 DEF Known, Entries
            <6>2. e.parts = Append(tr[f.tid].parts, f.part)
              BY <1>7, <4>2, <5>2 DEF Added
            <6>3. /\ Append(tr[f.tid].parts, f.part) \in Seq(BBundles \X Nat)
                  /\ Append(tr[f.tid].parts, f.part) # <<>>
              BY <1>2, <6>1, AppendProperties
            <6> QED BY <5>1, <6>2, <6>3
          <5>3. CASE ~Known(k, f)
            <6>1. e.parts = <<f.part>>
              BY <4>2, <5>3 DEF Added
            <6>2. <<f.part>> \in Seq(BBundles \X Nat) /\ <<f.part>> # <<>>
              BY <1>2
            <6> QED BY <5>1, <6>1, <6>2
          <5> QED BY <5>2, <5>3
        <4>4. \A u \in DOMAIN nr : nr[u] = e \/ (u \in DOMAIN tr /\ nr[u] = tr[u])
          BY <1>7, <4>1, <4>2 DEF With
        <4> QED BY <1>7, <2>2, <3>0, <4>3, <4>4 DEF Entries
      <3> QED BY <3>1, <3>2
    <2> QED BY <2>1, <2>2
  <1>15. ASSUME NEW n \in BNodes PROVE Outgoing(n)'
    <2>1. CASE fragmentOut'[n] = fragmentOut[n]
      BY <2>1 DEF Outgoing
    <2>2. CASE fragmentOut'[n] # fragmentOut[n]
      <3>1. n = k /\ fragmentOut'[n] = Append(fragmentOut[n], g)
        BY <1>6, <2>2
      <3>2. fragmentOut[n] \in Seq(BFragments)
        BY DEF BTypes
      <3>3. \A j \in 1..Len(fragmentOut'[n]) :
                \/ j \in 1..Len(fragmentOut[n]) /\ fragmentOut'[n][j] = fragmentOut[n][j]
                \/ fragmentOut'[n][j] = g
        BY <3>1, <3>2
      <3> QED BY <1>4, <3>3 DEF Outgoing
    <2> QED BY <2>1, <2>2
  <1>16. ASSUME NEW x \in BBundles, NEW n \in BNodes \ {Source[x]}
        PROVE (x \in spoilt[n] \/ Followed(x, n))'
    <2>t. /\ sending[x].next - 1 \in Nat /\ sending[x].tid \in Nat
          /\ sending[x].next - 1 <= Size[x] /\ Source[x] \in BNodes
      BY LastType
    <2>s. spoilt[n] \subseteq spoilt'[n]
      BY <1>10
    <2> SUFFICES ASSUME Followed(x, n), x \notin spoilt'[n] PROVE Followed(x, n)'
      BY <2>s
    <2>1. CASE n = k
      <3>1. x \notin Clash(k, f) /\ fragmentOut'[Source[x]] = fragmentOut[Source[x]]
        BY <1>6, <1>10, <2>1, <2>t
      <3>2. Tracked(x, sending[x].tid, sending[x].next - 1, f, modem[k],
                    fragmentOut[Source[x]], transmissions[k], reported[k])
        BY <1>1, <2>1 DEF Followed
      <3>a. /\ transmissions = [m \in BNodes |-> transmissions[m]]
            /\ reported = [m \in BNodes |-> reported[m]]
            /\ Entries(transmissions[k])
        BY DEF BTypes
      <3>3. Tracked(x, sending[x].tid, sending[x].next - 1, None, modem[k],
                    fragmentOut[Source[x]], transmissions'[k], reported'[k])
        <4>1. CASE PartOf(f, x)
          BY <1>1, <2>t, <3>1, <3>2, <3>a, <4>1, OwnHandled
        <4>2. CASE ~PartOf(f, x)
          BY <1>1, <2>t, <3>1, <3>2, <3>a, <4>2, OtherHandled
        <4> QED BY <4>1, <4>2
      <3> QED BY <1>3, <1>11, <2>1, <3>1, <3>3 DEF Followed
    <2>2. CASE n # k
      <3>1. \/ fragmentOut'[Source[x]] = fragmentOut[Source[x]]
            \/ fragmentOut'[Source[x]] = Append(fragmentOut[Source[x]], g)
        BY <1>6, <2>t
      <3>2. ~PartOf(g, x) /\ fragmentOut[Source[x]] \in Seq(BFragments)
        BY <1>4, <2>t DEF PartOf, BTypes
      <3>3. Tracked(x, sending[x].tid, sending[x].next - 1, reading[n], modem[n],
                    fragmentOut'[Source[x]], transmissions[n], reported[n])
        <4>1. CASE fragmentOut'[Source[x]] = fragmentOut[Source[x]]
          BY <4>1 DEF Followed
        <4>2. CASE fragmentOut'[Source[x]] = Append(fragmentOut[Source[x]], g)
          <5>1. Tracked(x, sending[x].tid, sending[x].next - 1, reading[n], modem[n],
                        Append(fragmentOut[Source[x]], g), transmissions[n], reported[n])
            BY <2>t, <3>2, TrackQueued DEF Followed
          <5> QED BY <4>2, <5>1
        <4> QED BY <3>1, <4>1, <4>2
      <3> QED BY <1>3, <1>8, <1>9, <1>11, <2>2, <3>3 DEF Followed
    <2> QED BY <2>1, <2>2
  <1> QED BY <1>12, <1>13, <1>14, <1>15, <1>16

(***************************************************************************)
(* Heard, for any number of nodes, bundles of any size, however ids and    *)
(* sequence numbers wrap: a node that hears all fragments of a bundle      *)
(* passes it on.                                                           *)
(***************************************************************************)
THEOREM Hearing == BSpec => []Heard
  <1>1. ASSUME BInit PROVE HearInv
    BY <1>1, HearInit
  <1>2. ASSUME HearInv, [BNext]_bvars PROVE HearInv'
    <2>1. CASE UNCHANGED bvars
      BY <1>2, <2>1 DEF bvars, HearInv, Local, BTypes, Paced, Outgoing, Followed
    <2>2. ASSUME NEW y \in BBundles, BSend(y) \/ Sender(y) PROVE HearInv'
      BY <1>2, <2>2, HearSend, HearQuiet, HearPut DEF Sender
    <2>3. ASSUME NEW k \in BNodes, NEW to \in SUBSET BNodes, handlerWrite(k, to)
          PROVE HearInv'
      BY <1>2, <2>3, HearWrite
    <2>4. ASSUME NEW k \in BNodes, Reader(k) PROVE HearInv'
      BY <1>2, <2>4, HearReceive, HearFailure, HearFragment DEF Reader
    <2>5. ASSUME NEW k \in BNodes, BClose(k) PROVE HearInv'
      BY <1>2, <2>5 DEF BClose, HearInv, Local, BTypes, Paced, Outgoing, Followed
    <2> QED BY <1>2, <2>1, <2>2, <2>3, <2>4, <2>5 DEF BNext
  <1>3. ASSUME HearInv PROVE Heard
    <2> SUFFICES ASSUME NEW x \in BBundles, NEW n \in BNodes \ {Source[x]},
                        sending[x].pc = "ok", fragmentOut[Source[x]] = <<>>,
                        modem[n] = <<>>, reading[n] = None, x \notin spoilt[n]
                 PROVE  x \in reported[n]
      BY DEF Heard
    <2>1. Followed(x, n) /\ Paced(x)
      BY <1>3 DEF HearInv, Local
    <2>2. Size[x] \in Nat /\ sending[x].next - 1 = Size[x]
      <3>1. sending[x].next = Size[x] + 1 /\ Size[x] \in Nat
        BY <2>1, BAssumption DEF Paced
      <3> QED BY <3>1
    <2>3. PICK h, m, o \in Nat :
              /\ o <= Size[x]
              /\ InHand(None, x, sending[x].tid, h, m)
              /\ Chain(<<>>, x, sending[x].tid, m + 1, o) /\ m <= o
              /\ Chain(<<>>, x, sending[x].tid, o + 1, Size[x])
              /\ Assembled(transmissions[n], reported[n], x, sending[x].tid, h)
      BY <2>1, <2>2 DEF Followed, Tracked
    <2>4. m = h
      BY <2>3 DEF InHand
    <2>5. o < m + 1 /\ Size[x] < o + 1
      BY <2>2, <2>3, ChainEmpty, m + 1 \in Nat, o + 1 \in Nat
    <2>6. h = Size[x]
      BY <2>2, <2>3, <2>4, <2>5
    <2> QED BY <2>3, <2>6 DEF Assembled
  <1> QED BY <1>1, <1>2, <1>3, PTL DEF BSpec
=============================================================================
