------------------------- MODULE BundleStoreProofs -------------------------
(***************************************************************************)
(* Database and directory of the bundle store agree, and a fragment whose  *)
(* Push succeeded is not lost, for any number of bundles, callers, pieces  *)
(* and crashes.                                                            *)
(***************************************************************************)
EXTENDS BundleStore, TLAPS

(* Call t is about bundle x *)
Mine(t, x) == ~At(t, "idle") /\ th[t].b = x

(* Without an item there are no parts, and nothing pushed is remembered *)
Known(x) == ~index[x].known => index[x].parts = {} /\ pushed[x] = {}

(* What a call is about: a piece to write, or an item that was there *)
Shape(x) ==
    \A t \in Thread : Mine(t, x) =>
        /\ th[t].pc \in {"store", "insert"} => \E p \in Pieces : th[t].piece = {p}
        /\ At(t, "update") => th[t].item.known

(* If the calls come one after the other, there is one at a time, and what *)
(* it has read is still what the database says.                            *)
Solo(x) == \A t, u \in Thread : Mine(t, x) /\ Mine(u, x) => t = u

Fresh(x) == \A t \in Thread : Mine(t, x) => th[t].item = index[x]

(* The files in the directory, between calls and at each place of a call *)
Written(x) == {f \in File : disk[x][f] # {}}

Files(x) ==
    /\ ~Busy(x) => Written(x) = index[x].parts
    /\ \A t \in Thread : Mine(t, x) =>
        /\ th[t].pc \in {"store", "update", "remove"} => Written(x) = index[x].parts
        /\ At(t, "insert") => Written(x) = index[x].parts \cup {bundlePartPath(p) : p \in th[t].piece}
        /\ At(t, "delete") => Written(x) = {}

Pushed(x) ==
    \A p \in pushed[x] : p.frag => bundlePartPath(p) \in index[x].parts \/ ~index[x].frag

BundleInv(x) ==
    /\ Known(x) /\ Shape(x)
    /\ x \notin raced => Solo(x) /\ Fresh(x) /\ Pushed(x)
    /\ x \notin raced \cup torn => Files(x)

IndInv == TypeOK /\ \A x \in Bundle : BundleInv(x)

-----------------------------------------------------------------------------
LEMMA NoItemType == NoItem \in BundleItem
  BY DEF NoItem, BundleItem

LEMMA IdleType == Idle \in ThreadState /\ Idle.pc = "idle"
  BY BundleAssumption, NoItemType DEF Idle, ThreadState

LEMMA PathType == \A p \in Pieces : bundlePartPath(p) \in File
  BY PieceAssumption DEF bundlePartPath, File, Piece

LEMMA StartType ==
    ASSUME TypeOK, NEW t \in Thread, Start(t)
    PROVE  TypeOK'
<1>1. ASSUME NEW x \in Bundle, NEW p \in Pieces, Push(t, x, p)
      PROVE  TypeOK'
  <2>1. [pc |-> "store", b |-> x, item |-> index[x], piece |-> {p}] \in ThreadState
    BY DEF TypeOK, ThreadState
  <2>2. th' \in [Thread -> ThreadState]
    BY <1>1, <2>1 DEF Push, Become, TypeOK
  <2>3. pushed' \in [Bundle -> SUBSET Pieces] /\ raced' \subseteq Bundle
    BY <1>1 DEF Push, Begin, TypeOK
  <2>4. UNCHANGED <<index, disk, expired, torn, crashes>>
    BY <1>1 DEF Push, Begin
  <2>. QED  BY <2>2, <2>3, <2>4 DEF TypeOK
<1>2. ASSUME NEW x \in Bundle, Query(t, x) \/ Delete(t, x)
      PROVE  TypeOK'
  <2>1. \A pc \in {"update", "remove"} :
           [pc |-> pc, b |-> x, item |-> index[x], piece |-> {}] \in ThreadState
    BY DEF TypeOK, ThreadState
  <2>2. th' \in [Thread -> ThreadState]
    BY <1>2, <2>1 DEF Query, Delete, Become, TypeOK
  <2>3. raced' \subseteq Bundle /\ UNCHANGED <<index, disk, expired, pushed, torn, crashes>>
    BY <1>2 DEF Query, Delete, Begin, TypeOK
  <2>. QED  BY <2>2, <2>3 DEF TypeOK
<1>. QED  BY <1>1, <1>2 DEF Start, DeleteExpired

LEMMA StepType ==
    ASSUME TypeOK, NEW t \in Thread, Step(t)
    PROVE  TypeOK'
<1>. DEFINE r == th[t]
            x == th[t].b
<1>1. /\ r \in ThreadState /\ x \in Bundle /\ r.item \in BundleItem /\ r.piece \subseteq Pieces
      /\ \A pc \in {"insert", "delete"} : [r EXCEPT !.pc = pc] \in ThreadState
  BY DEF TypeOK, ThreadState
<1>2. CASE storeBundle(t)
  <2>1. PICK p \in Pieces : disk' = [disk EXCEPT ![x] = [@ EXCEPT ![bundlePartPath(p)] = {p}]]
    BY <1>1, <1>2 DEF storeBundle
  <2>2. disk' \in [Bundle -> [File -> SUBSET Pieces]]
    <3>1. [disk[x] EXCEPT ![bundlePartPath(p)] = {p}] \in [File -> SUBSET Pieces]
      BY <1>1, PathType DEF TypeOK
    <3>. QED  BY <1>1, <2>1, <3>1 DEF TypeOK
  <2>3. th' \in [Thread -> ThreadState] /\ UNCHANGED <<index, expired, pushed, history, crashes>>
    BY <1>1, <1>2 DEF storeBundle, Become, TypeOK
  <2>. QED  BY <2>2, <2>3 DEF TypeOK, history
<1>3. CASE Insert(t)
  <2>1. PICK p \in r.piece :
           \/ UNCHANGED <<index, pushed>>
           \/ /\ index' = [index EXCEPT ![x] =
                     IF ~r.item.known THEN newBundleItem(p)
                     ELSE [r.item EXCEPT !.parts = @ \cup {bundlePartPath(p)}]]
              /\ pushed' = [pushed EXCEPT ![x] = @ \cup {p}]
    BY <1>3 DEF Insert
  <2>2. p \in Pieces /\ bundlePartPath(p) \in File /\ p.frag \in BOOLEAN
    BY <1>1, PathType, PieceAssumption DEF Piece
  <2>3. /\ newBundleItem(p) \in BundleItem
        /\ [r.item EXCEPT !.parts = @ \cup {bundlePartPath(p)}] \in BundleItem
    BY <1>1, <2>2 DEF newBundleItem, BundleItem
  <2>4. index' \in [Bundle -> BundleItem] /\ pushed' \in [Bundle -> SUBSET Pieces]
    <3>1. PICK item \in BundleItem : index' = index \/ index' = [index EXCEPT ![x] = item]
      BY <2>1, <2>3
    <3>2. index' \in [Bundle -> BundleItem]
      BY <3>1 DEF TypeOK
    <3>3. pushed' = pushed \/ pushed' = [pushed EXCEPT ![x] = @ \cup {p}]
      BY <2>1
    <3>4. pushed' \in [Bundle -> SUBSET Pieces]
      BY <2>2, <3>3 DEF TypeOK
    <3>. QED  BY <3>2, <3>4
  <2>5. th' \in [Thread -> ThreadState] /\ UNCHANGED <<disk, expired, history, crashes>>
    BY <1>3, IdleType DEF Insert, Become, TypeOK
  <2>. QED  BY <2>4, <2>5 DEF TypeOK, history
<1>4. CASE Update(t)
  <2>1. index' \in [Bundle -> BundleItem]
    BY <1>1, <1>4 DEF Update, TypeOK
  <2>2. th' \in [Thread -> ThreadState] /\ UNCHANGED <<disk, expired, pushed, history, crashes>>
    BY <1>4, IdleType DEF Update, Become, TypeOK
  <2>. QED  BY <2>1, <2>2 DEF TypeOK, history
<1>5. CASE deleteBundle(t)
  <2>1. disk' \in [Bundle -> [File -> SUBSET Pieces]]
    BY <1>1, <1>5 DEF deleteBundle, TypeOK
  <2>2. th' \in [Thread -> ThreadState] /\ UNCHANGED <<index, expired, pushed, history, crashes>>
    BY <1>1, <1>5 DEF deleteBundle, Become, TypeOK
  <2>. QED  BY <2>1, <2>2 DEF TypeOK, history
<1>6. CASE DeleteItem(t)
  <2>1. index' \in [Bundle -> BundleItem] /\ pushed' \in [Bundle -> SUBSET Pieces]
    BY <1>1, <1>6, NoItemType DEF DeleteItem, TypeOK
  <2>2. th' \in [Thread -> ThreadState] /\ UNCHANGED <<disk, expired, history, crashes>>
    BY <1>6, IdleType DEF DeleteItem, Become, TypeOK
  <2>. QED  BY <2>1, <2>2 DEF TypeOK, history
<1>. QED  BY <1>2, <1>3, <1>4, <1>5, <1>6 DEF Step

LEMMA NextType == TypeOK /\ [Next]_vars => TypeOK'
<1>. SUFFICES ASSUME TypeOK, [Next]_vars
              PROVE  TypeOK'
  OBVIOUS
<1>1. ASSUME NEW x \in Bundle, Expire(x)
      PROVE  TypeOK'
  BY <1>1 DEF Expire, TypeOK, history
<1>2. ASSUME Crash
      PROVE  TypeOK'
  <2>1. th' \in [Thread -> ThreadState]
    BY <1>2, IdleType DEF Crash
  <2>2. torn' \subseteq Bundle /\ crashes' \in Nat
    BY <1>2 DEF Crash, TypeOK
  <2>. QED  BY <1>2, <2>1, <2>2 DEF Crash, TypeOK
<1>3. ASSUME UNCHANGED vars
      PROVE  TypeOK'
  BY <1>3 DEF vars, TypeOK
<1>. QED  BY <1>1, <1>2, <1>3, StartType, StepType DEF Next

-----------------------------------------------------------------------------
(* A bundle that neither changes nor gets or loses a call stays as it is, *)
(* also if it counts as raced or torn from now on.                        *)
LEMMA Frame ==
    ASSUME NEW x \in Bundle, BundleInv(x),
           index'[x] = index[x], disk'[x] = disk[x], pushed'[x] = pushed[x],
           raced \subseteq raced', torn \subseteq torn',
           \A u \in Thread : Mine(u, x)' <=> Mine(u, x),
           \A u \in Thread : Mine(u, x) => th'[u] = th[u]
    PROVE  BundleInv(x)'
<1>1. Known(x)' /\ Shape(x)'
  BY DEF BundleInv, Known, Shape, At
<1>2. ASSUME x \notin raced'
      PROVE  Solo(x)' /\ Fresh(x)' /\ Pushed(x)'
  BY <1>2 DEF BundleInv, Solo, Fresh, Pushed
<1>3. ASSUME x \notin raced' \cup torn'
      PROVE  Files(x)'
  <2>1. Busy(x)' <=> Busy(x)
    BY DEF Busy, Mine
  <2>2. Written(x)' = Written(x)
    BY DEF Written
  <2>3. Files(x)
    BY <1>3 DEF BundleInv
  <2>. QED  BY <2>1, <2>2, <2>3 DEF Files, At
<1>. QED  BY <1>1, <1>2, <1>3 DEF BundleInv

(* A step of a call about b leaves all other bundles alone *)
LEMMA Elsewhere ==
    ASSUME IndInv, NEW t \in Thread, NEW b \in Bundle, NEW r,
           th' = [th EXCEPT ![t] = r],
           At(t, "idle") \/ th[t].b = b, r.pc = "idle" \/ r.b = b,
           \A x \in Bundle : x # b =>
               index'[x] = index[x] /\ disk'[x] = disk[x] /\ pushed'[x] = pushed[x],
           raced \subseteq raced', torn \subseteq torn',
           NEW x \in Bundle, x # b
    PROVE  BundleInv(x)'
<1>1. \A u \in Thread : u # t => th'[u] = th[u]
  BY DEF IndInv, TypeOK
<1>2. th'[t] = r
  BY DEF IndInv, TypeOK
<1>3. ~Mine(t, x) /\ ~Mine(t, x)'
  BY <1>2 DEF Mine, At
<1>4. \A u \in Thread : (Mine(u, x)' <=> Mine(u, x)) /\ (Mine(u, x) => th'[u] = th[u])
  BY <1>1, <1>3 DEF Mine, At
<1>. QED  BY <1>4, Frame DEF IndInv

(* A call for b begins: unless it is the first one, b is raced *)
LEMMA Beginning ==
    ASSUME IndInv, NEW t \in Thread, NEW b \in Bundle, NEW r, At(t, "idle"), Begin(b),
           th' = [th EXCEPT ![t] = r], UNCHANGED <<index, disk, pushed>>,
           r.b = b, r.item = index[b], r.pc \in {"store", "update", "remove"},
           r.pc = "store" => \E p \in Pieces : r.piece = {p},
           r.pc = "update" => r.item.known
    PROVE  \A x \in Bundle : BundleInv(x)'
<1>1. th'[t] = r /\ \A u \in Thread : u # t => th'[u] = th[u]
  BY DEF IndInv, TypeOK
<1>2. raced \subseteq raced' /\ torn' = torn /\ (Busy(b) => b \in raced')
  BY DEF Begin
<1>3. BundleInv(b)'
  <2>1. Known(b)' /\ Shape(b)'
    BY <1>1 DEF IndInv, BundleInv, Known, Shape, Mine, At
  <2>2. ASSUME b \notin raced'
        PROVE  Solo(b)' /\ Fresh(b)' /\ Pushed(b)'
    <3>1. \A u \in Thread : Mine(u, b)' => u = t
      BY <1>1, <1>2, <2>2 DEF Busy, Mine, At
    <3>2. Solo(b)' /\ Fresh(b)'
      BY <1>1, <3>1 DEF Solo, Fresh
    <3>3. Pushed(b)'
      BY <1>2, <2>2 DEF IndInv, BundleInv, Pushed
    <3>. QED  BY <3>2, <3>3
  <2>3. ASSUME b \notin raced' \cup torn'
        PROVE  Files(b)'
    <3>1. \A u \in Thread : Mine(u, b)' => u = t
      BY <1>1, <1>2, <2>3 DEF Busy, Mine, At
    <3>2. Busy(b)'
      BY <1>1 DEF Busy, At
    <3>3. Written(b)' = index'[b].parts
      BY <1>2, <2>3 DEF IndInv, BundleInv, Files, Written
    <3>. QED  BY <1>1, <3>1, <3>2, <3>3 DEF Files, At
  <2>. QED  BY <2>1, <2>2, <2>3 DEF BundleInv
<1>. QED  BY <1>2, <1>3, Elsewhere

LEMMA StartInv ==
    ASSUME IndInv, NEW t \in Thread, Start(t)
    PROVE  \A x \in Bundle : BundleInv(x)'
<1>1. ASSUME NEW b \in Bundle, NEW p \in Pieces, Push(t, b, p)
      PROVE  \A x \in Bundle : BundleInv(x)'
  <2>. DEFINE r == [pc |-> "store", b |-> b, item |-> index[b], piece |-> {p}]
  <2>1. At(t, "idle") /\ Begin(b) /\ UNCHANGED <<index, disk>>
    BY <1>1 DEF Push
  <2>2. CASE th' = [th EXCEPT ![t] = r] /\ UNCHANGED pushed
    <3>1. r.b = b /\ r.item = index[b] /\ r.pc = "store" /\ r.piece = {p}
      OBVIOUS
    <3>. HIDE DEF r
    <3>. QED  BY <2>1, <2>2, <3>1, Beginning
  <2>3. CASE /\ index[b].known /\ (p.frag /\ index[b].frag => bundlePartPath(p) \in index[b].parts)
             /\ pushed' = [pushed EXCEPT ![b] = @ \cup {p}] /\ UNCHANGED th
    <3>1. raced \subseteq raced' /\ torn' = torn
      BY <2>1 DEF Begin
    <3>2. pushed'[b] = pushed[b] \cup {p} /\ \A x \in Bundle : x # b => pushed'[x] = pushed[x]
      BY <2>3 DEF IndInv, TypeOK
    <3>3. \A u \in Thread, x \in Bundle : Mine(u, x)' <=> Mine(u, x)
      BY <2>3 DEF Mine, At
    <3>4. \A x \in Bundle : x # b => BundleInv(x)'
      BY <2>1, <2>3, <3>1, <3>2, <3>3, Frame DEF IndInv
    <3>5. BundleInv(b)'
      <4>1. Known(b)' /\ Shape(b)'
        BY <2>1, <2>3, <3>3 DEF IndInv, BundleInv, Known, Shape, At
      <4>2. ASSUME b \notin raced'
            PROVE  Solo(b)' /\ Fresh(b)' /\ Pushed(b)'
        <5>1. Solo(b) /\ Fresh(b) /\ Pushed(b)
          BY <3>1, <4>2 DEF IndInv, BundleInv
        <5>2. Solo(b)' /\ Fresh(b)'
          BY <2>1, <2>3, <3>3, <5>1 DEF Solo, Fresh
        <5>3. Pushed(b)'
          BY <2>1, <2>3, <3>2, <5>1 DEF Pushed
        <5>. QED  BY <5>2, <5>3
      <4>3. ASSUME b \notin raced' \cup torn'
            PROVE  Files(b)'
        BY <2>1, <2>3, <3>1, <3>3, <4>3 DEF IndInv, BundleInv, Files, Written, Busy, At
      <4>. QED  BY <4>1, <4>2, <4>3 DEF BundleInv
    <3>. QED  BY <3>4, <3>5
  <2>. QED  BY <1>1, <2>2, <2>3 DEF Push, Become
<1>2. ASSUME NEW b \in Bundle, Query(t, b) \/ Delete(t, b)
      PROVE  \A x \in Bundle : BundleInv(x)'
  <2>. DEFINE r(pc) == [pc |-> pc, b |-> b, item |-> index[b], piece |-> {}]
  <2>1. PICK pc \in {"update", "remove"} : th' = [th EXCEPT ![t] = r(pc)]
    BY <1>2 DEF Query, Delete, Become
  <2>3. r(pc).b = b /\ r(pc).item = index[b] /\ r(pc).pc = pc
    OBVIOUS
  <2>2. At(t, "idle") /\ Begin(b) /\ index[b].known /\ UNCHANGED <<index, disk, pushed>>
    BY <1>2 DEF Query, Delete
  <2>. HIDE DEF r
  <2>. QED  BY <2>1, <2>2, <2>3, Beginning
<1>. QED  BY <1>1, <1>2 DEF Start, DeleteExpired

-----------------------------------------------------------------------------
(* What a step of a call needs of its own bundle *)
LEMMA Own ==
    ASSUME IndInv, NEW t \in Thread, NEW b, b = th[t].b, ~At(t, "idle")
    PROVE  /\ b \in Bundle /\ th[t] \in ThreadState /\ BundleInv(b) /\ Mine(t, b)
           /\ b \notin raced => /\ \A u \in Thread : Mine(u, b) => u = t
                               /\ th[t].item = index[b]
           /\ b \notin raced \cup torn => Files(b)
<1>1. b \in Bundle /\ th[t] \in ThreadState /\ Mine(t, b)
  BY DEF IndInv, TypeOK, ThreadState, Mine
<1>. QED  BY <1>1 DEF IndInv, BundleInv, Solo, Fresh

(* The last step of a call: what is left to show is about the bundle only *)
LEMMA Ending ==
    ASSUME IndInv, NEW t \in Thread, NEW b, b = th[t].b, ~At(t, "idle"),
           th' = [th EXCEPT ![t] = Idle], UNCHANGED <<disk, raced, torn>>,
           \A x \in Bundle : x # b => index'[x] = index[x] /\ pushed'[x] = pushed[x],
           Known(b)',
           b \notin raced => Pushed(b)',
           b \notin raced \cup torn => Written(b) = index'[b].parts
    PROVE  \A x \in Bundle : BundleInv(x)'
<1>1. th'[t].pc = "idle" /\ \A u \in Thread : u # t => th'[u] = th[u]
  BY IdleType DEF IndInv, TypeOK
<1>2. ~Mine(t, b)' /\ \A u \in Thread : Mine(u, b)' => u # t /\ Mine(u, b)
  BY <1>1 DEF Mine, At
<1>3. Shape(b)'
  BY <1>1, <1>2, Own DEF BundleInv, Shape, At
<1>4. ASSUME b \notin raced
      PROVE  ~Busy(b)' /\ Solo(b)' /\ Fresh(b)'
  <2>1. \A u \in Thread : ~Mine(u, b)'
    BY <1>2, <1>4, Own
  <2>. QED  BY <2>1 DEF Busy, Mine, Solo, Fresh
<1>5. ASSUME b \notin raced \cup torn
      PROVE  Files(b)'
  <2>1. Written(b)' = Written(b)
    BY DEF Written
  <2>2. \A u \in Thread : ~Mine(u, b)'
    BY <1>4, <1>5 DEF Busy, Mine
  <2>. QED  BY <1>5, <2>1, <2>2 DEF Files
<1>6. BundleInv(b)'
  BY <1>3, <1>4, <1>5 DEF BundleInv
<1>7. b \in Bundle /\ Idle.pc = "idle"
  BY Own, IdleType
<1>. QED  BY <1>6, <1>7, Elsewhere

(* storeBundle writes the file that Insert is going to name *)
LEMMA StoreInv ==
    ASSUME IndInv, NEW t \in Thread, storeBundle(t), NEW b, b = th[t].b
    PROVE  \A x \in Bundle : BundleInv(x)'
<1>. DEFINE r == [th[t] EXCEPT !.pc = "insert"]
<1>1. At(t, "store") /\ ~At(t, "idle")
  BY DEF storeBundle, At
<1>2. b \in Bundle /\ th[t] \in ThreadState /\ BundleInv(b) /\ Mine(t, b)
  BY <1>1, Own
<1>3. PICK p \in Pieces : th[t].piece = {p}
  BY <1>1, <1>2 DEF BundleInv, Shape, At
<1>4. /\ disk' = [disk EXCEPT ![b] = [@ EXCEPT ![bundlePartPath(p)] = {p}]]
      /\ th' = [th EXCEPT ![t] = r]
      /\ UNCHANGED <<index, expired, pushed, raced, torn, crashes>>
  BY <1>3 DEF storeBundle, Become, history
<1>5. r.pc = "insert" /\ r.b = b /\ r.item = th[t].item /\ r.piece = {p}
  BY <1>2, <1>3 DEF ThreadState
<1>6. th'[t] = r /\ \A u \in Thread : u # t => th'[u] = th[u]
  BY <1>4 DEF IndInv, TypeOK
<1>7. /\ \A x \in Bundle : x # b => disk'[x] = disk[x]
      /\ Written(b)' = Written(b) \cup {bundlePartPath(p)}
  <2>1. disk'[b] = [disk[b] EXCEPT ![bundlePartPath(p)] = {p}]
    BY <1>2, <1>4 DEF IndInv, TypeOK
  <2>2. disk[b] \in [File -> SUBSET Pieces] /\ bundlePartPath(p) \in File
    BY <1>2, PathType DEF IndInv, TypeOK
  <2>3. Written(b)' = Written(b) \cup {bundlePartPath(p)}
    <3>1. \A f \in File : disk'[b][f] # {} <=> disk[b][f] # {} \/ f = bundlePartPath(p)
      BY <2>1, <2>2
    <3>. QED  BY <2>2, <3>1 DEF Written
  <2>. QED  BY <1>2, <1>4, <2>3 DEF IndInv, TypeOK
<1>. HIDE DEF r
<1>8. \A u \in Thread : Mine(u, b)' <=> Mine(u, b)
  BY <1>2, <1>5, <1>6 DEF Mine, At
<1>9. BundleInv(b)'
  <2>1. Known(b)'
    BY <1>2, <1>4 DEF BundleInv, Known
  <2>2. Shape(b)'
    BY <1>2, <1>5, <1>6, <1>8 DEF BundleInv, Shape, At
  <2>3. ASSUME b \notin raced
        PROVE  Solo(b)' /\ Fresh(b)' /\ Pushed(b)'
    <3>1. \A u \in Thread : Mine(u, b) => u = t
      BY <1>1, <2>3, Own
    <3>2. th'[t].item = index'[b]
      BY <1>1, <1>4, <1>5, <1>6, <2>3, Own
    <3>. QED  BY <1>2, <1>4, <1>8, <2>3, <3>1, <3>2 DEF BundleInv, Solo, Fresh, Pushed
  <2>4. ASSUME b \notin raced \cup torn
        PROVE  Files(b)'
    <3>1. \A u \in Thread : Mine(u, b) => u = t
      BY <1>1, <2>4, Own
    <3>2. Written(b) = index[b].parts
      BY <1>1, <1>2, <2>4 DEF BundleInv, Files, At
    <3>3. Written(b)' = index'[b].parts \cup {bundlePartPath(q) : q \in th'[t].piece}
      BY <1>4, <1>5, <1>6, <1>7, <3>2
    <3>4. Busy(b)'
      BY <1>2, <1>8 DEF Busy, Mine
    <3>. QED  BY <1>5, <1>6, <1>8, <3>1, <3>3, <3>4 DEF Files, At
  <2>. QED  BY <1>4, <2>1, <2>2, <2>3, <2>4 DEF BundleInv
<1>. QED  BY <1>2, <1>4, <1>5, <1>7, <1>9, Elsewhere DEF Mine

(* badgerhold's Insert or Update adds the new part to what is there *)
LEMMA InsertInv ==
    ASSUME IndInv, NEW t \in Thread, Insert(t), NEW b, b = th[t].b
    PROVE  \A x \in Bundle : BundleInv(x)'
<1>. DEFINE item == th[t].item
<1>1. At(t, "insert") /\ ~At(t, "idle")
  BY DEF Insert, At
<1>2. b \in Bundle /\ th[t] \in ThreadState /\ BundleInv(b) /\ Mine(t, b)
  BY <1>1, Own
<1>3. PICK p \in Pieces : th[t].piece = {p}
  BY <1>1, <1>2 DEF BundleInv, Shape, At
<1>4. item \in BundleItem /\ index[b] \in BundleItem
  BY <1>2 DEF IndInv, TypeOK, ThreadState
<1>5. th' = [th EXCEPT ![t] = Idle] /\ UNCHANGED <<disk, raced, torn>>
  BY DEF Insert, Become, history
<1>6. ASSUME b \notin raced \cup torn
      PROVE  Written(b) = index[b].parts \cup {bundlePartPath(p)}
  BY <1>1, <1>2, <1>3, <1>6 DEF BundleInv, Files
<1>7. CASE (~item.known) = index[b].known /\ UNCHANGED <<index, pushed>>
  <2>1. b \in raced
    BY <1>1, <1>4, <1>7, Own DEF BundleItem
  <2>2. Known(b)'
    BY <1>2, <1>7 DEF BundleInv, Known
  <2>. QED  BY <1>1, <1>5, <1>7, <2>1, <2>2, Ending
<1>8. CASE /\ (~item.known) # index[b].known
           /\ index' = [index EXCEPT ![b] =
                  IF ~item.known THEN newBundleItem(p)
                  ELSE [item EXCEPT !.parts = @ \cup {bundlePartPath(p)}]]
           /\ pushed' = [pushed EXCEPT ![b] = @ \cup {p}]
  <2>1. pushed'[b] = pushed[b] \cup {p} /\ \A x \in Bundle : x # b => pushed'[x] = pushed[x]
    BY <1>2, <1>8 DEF IndInv, TypeOK
  <2>2. /\ \A x \in Bundle : x # b => index'[x] = index[x]
        /\ index'[b] = IF ~item.known THEN newBundleItem(p)
                       ELSE [item EXCEPT !.parts = @ \cup {bundlePartPath(p)}]
    BY <1>2, <1>8 DEF IndInv, TypeOK
  <2>3. CASE ~item.known
    <3>1. index'[b].known /\ index'[b].parts = {bundlePartPath(p)} /\ index[b].parts = {} /\ pushed[b] = {}
      BY <1>2, <1>4, <1>8, <2>2, <2>3 DEF newBundleItem, BundleItem, BundleInv, Known
    <3>2. Known(b)' /\ Pushed(b)'
      BY <2>1, <3>1 DEF Known, Pushed
    <3>. QED  BY <1>1, <1>5, <1>6, <2>1, <2>2, <3>1, <3>2, Ending
  <2>4. CASE item.known
    <3>1. /\ index'[b].known /\ index'[b].frag = item.frag
          /\ index'[b].parts = item.parts \cup {bundlePartPath(p)}
      BY <1>4, <2>2, <2>4 DEF BundleItem
    <3>2. b \notin raced => item = index[b]
      BY <1>1, Own
    <3>3. Known(b)'
      BY <3>1 DEF Known
    <3>4. b \notin raced => Pushed(b)'
      BY <1>2, <2>1, <3>1, <3>2 DEF BundleInv, Pushed
    <3>. QED  BY <1>1, <1>5, <1>6, <2>1, <2>2, <3>1, <3>2, <3>3, <3>4, Ending
  <2>. QED  BY <2>3, <2>4
<1>. QED  BY <1>3, <1>7, <1>8 DEF Insert

(* Store.Update writes back what it has read, if the item is still there *)
LEMMA UpdateInv ==
    ASSUME IndInv, NEW t \in Thread, Update(t), NEW b, b = th[t].b
    PROVE  \A x \in Bundle : BundleInv(x)'
<1>1. At(t, "update") /\ ~At(t, "idle")
  BY DEF Update, At
<1>2. b \in Bundle /\ th[t] \in ThreadState /\ BundleInv(b) /\ Mine(t, b)
  BY <1>1, Own
<1>3. th' = [th EXCEPT ![t] = Idle] /\ UNCHANGED <<disk, raced, torn, pushed>>
  BY DEF Update, Become, history
<1>4. /\ \A x \in Bundle : x # b => index'[x] = index[x]
      /\ index'[b] = IF index[b].known THEN th[t].item ELSE index[b]
  BY <1>2 DEF Update, IndInv, TypeOK
<1>5. th[t].item.known
  BY <1>1, <1>2 DEF BundleInv, Shape
<1>6. Known(b)'
  BY <1>2, <1>3, <1>4, <1>5 DEF BundleInv, Known
<1>7. ASSUME b \notin raced
      PROVE  index'[b] = index[b] /\ Pushed(b)'
  <2>1. index'[b] = index[b]
    BY <1>1, <1>4, <1>7, Own
  <2>. QED  BY <1>2, <1>3, <1>7, <2>1 DEF BundleInv, Pushed
<1>8. ASSUME b \notin raced \cup torn
      PROVE  Written(b) = index'[b].parts
  BY <1>1, <1>2, <1>7, <1>8 DEF BundleInv, Files, At
<1>. QED  BY <1>1, <1>3, <1>4, <1>6, <1>7, <1>8, Ending

(* Store.Delete removes the files the item names, which are all of them *)
LEMMA RemoveInv ==
    ASSUME IndInv, NEW t \in Thread, deleteBundle(t), NEW b, b = th[t].b
    PROVE  \A x \in Bundle : BundleInv(x)'
<1>. DEFINE r == [th[t] EXCEPT !.pc = "delete"]
<1>1. At(t, "remove") /\ ~At(t, "idle")
  BY DEF deleteBundle, At
<1>2. b \in Bundle /\ th[t] \in ThreadState /\ BundleInv(b) /\ Mine(t, b)
  BY <1>1, Own
<1>3. /\ disk' = [disk EXCEPT ![b] = [f \in File |-> IF f \in th[t].item.parts THEN {} ELSE @[f]]]
      /\ th' = [th EXCEPT ![t] = r]
      /\ UNCHANGED <<index, expired, pushed, raced, torn, crashes>>
  BY DEF deleteBundle, Become, history
<1>4. r.pc = "delete" /\ r.b = b /\ r.item = th[t].item
  BY <1>2 DEF ThreadState
<1>5. th'[t] = r /\ \A u \in Thread : u # t => th'[u] = th[u]
  BY <1>3 DEF IndInv, TypeOK
<1>6. /\ \A x \in Bundle : x # b => disk'[x] = disk[x]
      /\ \A f \in File : disk'[b][f] = IF f \in th[t].item.parts THEN {} ELSE disk[b][f]
  BY <1>2, <1>3 DEF IndInv, TypeOK
<1>. HIDE DEF r
<1>7. \A u \in Thread : Mine(u, b)' <=> Mine(u, b)
  BY <1>2, <1>4, <1>5 DEF Mine, At
<1>8. BundleInv(b)'
  <2>1. Known(b)'
    BY <1>2, <1>3 DEF BundleInv, Known
  <2>2. Shape(b)'
    BY <1>2, <1>4, <1>5, <1>7 DEF BundleInv, Shape, At
  <2>3. ASSUME b \notin raced
        PROVE  Solo(b)' /\ Fresh(b)' /\ Pushed(b)'
    <3>1. \A u \in Thread : Mine(u, b) => u = t
      BY <1>1, <2>3, Own
    <3>2. th'[t].item = index'[b]
      BY <1>1, <1>3, <1>4, <1>5, <2>3, Own
    <3>. QED  BY <1>2, <1>3, <1>7, <2>3, <3>1, <3>2 DEF BundleInv, Solo, Fresh, Pushed
  <2>4. ASSUME b \notin raced \cup torn
        PROVE  Files(b)'
    <3>1. \A u \in Thread : Mine(u, b) => u = t
      BY <1>1, <2>4, Own
    <3>2. Written(b) = th[t].item.parts
      BY <1>1, <1>2, <2>4, Own DEF Files, At
    <3>3. Written(b)' = {}
      BY <1>6, <3>2 DEF Written
    <3>4. Busy(b)'
      BY <1>2, <1>7 DEF Busy, Mine
    <3>. QED  BY <1>4, <1>5, <1>7, <3>1, <3>3, <3>4 DEF Files, At
  <2>. QED  BY <1>3, <2>1, <2>2, <2>3, <2>4 DEF BundleInv
<1>. QED  BY <1>2, <1>3, <1>4, <1>6, <1>8, Elsewhere DEF Mine

(* Then the item goes, and what was pushed is no longer promised *)
LEMMA DeleteInv ==
    ASSUME IndInv, NEW t \in Thread, DeleteItem(t), NEW b, b = th[t].b
    PROVE  \A x \in Bundle : BundleInv(x)'
<1>1. At(t, "delete") /\ ~At(t, "idle")
  BY DEF DeleteItem, At
<1>2. b \in Bundle /\ BundleInv(b) /\ Mine(t, b)
  BY <1>1, Own
<1>3. th' = [th EXCEPT ![t] = Idle] /\ UNCHANGED <<disk, raced, torn>>
  BY DEF DeleteItem, Become, history
<1>4. /\ \A x \in Bundle : x # b => index'[x] = index[x] /\ pushed'[x] = pushed[x]
      /\ index'[b] = NoItem /\ pushed'[b] = {}
  BY <1>2 DEF DeleteItem, IndInv, TypeOK
<1>5. Known(b)' /\ Pushed(b)'
  BY <1>4 DEF Known, Pushed, NoItem
<1>6. ASSUME b \notin raced \cup torn
      PROVE  Written(b) = index'[b].parts
  BY <1>1, <1>2, <1>4, <1>6 DEF BundleInv, Files, NoItem
<1>. QED  BY <1>1, <1>3, <1>4, <1>5, <1>6, Ending

-----------------------------------------------------------------------------
(* The process dies: a bundle no call was about is as consistent as before *)
LEMMA CrashInv ==
    ASSUME IndInv, Crash
    PROVE  \A x \in Bundle : BundleInv(x)'
<1>. SUFFICES ASSUME NEW x \in Bundle
              PROVE  BundleInv(x)'
  OBVIOUS
<1>1. \A u \in Thread : ~Mine(u, x)'
  BY IdleType DEF Crash, Mine, At
<1>2. UNCHANGED <<index, disk, pushed, raced>> /\ BundleInv(x)
  BY DEF Crash, IndInv
<1>3. Known(x)' /\ Shape(x)' /\ Solo(x)' /\ Fresh(x)'
  BY <1>1, <1>2 DEF BundleInv, Known, Shape, Solo, Fresh
<1>4. x \notin raced' => Pushed(x)'
  BY <1>2 DEF BundleInv, Pushed
<1>5. ASSUME x \notin raced' \cup torn'
      PROVE  Files(x)'
  <2>1. ~Busy(x) /\ x \notin raced \cup torn
    BY <1>2, <1>5 DEF Crash
  <2>2. Written(x)' = index'[x].parts
    BY <1>2, <2>1 DEF BundleInv, Files, Written
  <2>. QED  BY <1>1, <2>2 DEF Files
<1>. QED  BY <1>3, <1>4, <1>5 DEF BundleInv

LEMMA NextInv == IndInv /\ [Next]_vars => IndInv'
<1>. SUFFICES ASSUME IndInv, [Next]_vars
              PROVE  \A x \in Bundle : BundleInv(x)'
  BY NextType DEF IndInv
<1>1. ASSUME NEW t \in Thread, Step(t)
      PROVE  \A x \in Bundle : BundleInv(x)'
  BY <1>1, StoreInv, InsertInv, UpdateInv, RemoveInv, DeleteInv DEF Step
<1>2. ASSUME \/ \E b \in Bundle : Expire(b)
             \/ UNCHANGED vars
      PROVE  \A x \in Bundle : BundleInv(x)'
  <2>1. UNCHANGED <<index, disk, th, pushed, raced, torn>>
    BY <1>2 DEF Expire, history, vars
  <2>2. \A x \in Bundle, u \in Thread : Mine(u, x)' <=> Mine(u, x)
    BY <2>1 DEF Mine, At
  <2>. QED  BY <2>1, <2>2, Frame DEF IndInv
<1>. QED  BY <1>1, <1>2, StartInv, CrashInv DEF Next

LEMMA Invariance == Spec => []IndInv
<1>1. Init => IndInv
  <2>. SUFFICES ASSUME Init
                PROVE  IndInv
    OBVIOUS
  <2>1. TypeOK
    BY NoItemType, IdleType DEF Init, TypeOK
  <2>2. ASSUME NEW x \in Bundle
        PROVE  BundleInv(x)
    <3>1. \A t \in Thread : ~Mine(t, x)
      BY IdleType DEF Init, Mine, At
    <3>2. index[x] = NoItem /\ pushed[x] = {} /\ Written(x) = {}
      BY DEF Init, Written
    <3>. QED  BY <3>1, <3>2 DEF BundleInv, Known, Shape, Solo, Fresh, Pushed, Files, NoItem
  <2>. QED  BY <2>1, <2>2 DEF IndInv
<1>. QED  BY <1>1, NextInv, PTL DEF Spec

-----------------------------------------------------------------------------
(* For any number of callers and bundles: as long as no two calls for a    *)
(* bundle overlap and none is cut off by a crash, every part of its item   *)
(* can be read from the directory, and no file is left behind.             *)
THEOREM Consistency == Spec => []FilesMatchIndex
<1>1. IndInv => FilesMatchIndex
  <2>. SUFFICES ASSUME IndInv, NEW x \in Bundle, x \notin raced \cup torn
                PROVE  /\ \A f \in index[x].parts :
                             disk[x][f] # {} \/ \E t \in Thread : At(t, "delete") /\ th[t].b = x
                       /\ \A f \in File : disk[x][f] # {} /\ ~Busy(x) => f \in index[x].parts
    BY DEF FilesMatchIndex, PartsAreOnDisk, NoOrphans
  <2>1. Files(x) /\ index[x].parts \subseteq File
    BY DEF IndInv, BundleInv, TypeOK, BundleItem
  <2>2. CASE ~Busy(x)
    BY <2>1, <2>2 DEF Files, Written
  <2>3. CASE Busy(x)
    <3>1. PICK t \in Thread : Mine(t, x)
      BY <2>3 DEF Busy, Mine
    <3>2. th[t].pc \in {"store", "insert", "update", "remove", "delete"}
      BY <3>1 DEF IndInv, TypeOK, ThreadState, Mine, At
    <3>3. At(t, "delete") \/ index[x].parts \subseteq Written(x)
      BY <2>1, <3>1, <3>2 DEF Files, At
    <3>. QED  BY <2>1, <2>3, <3>1, <3>3 DEF Written, Mine
  <2>. QED  BY <2>2, <2>3
<1>. QED  BY <1>1, Invariance, PTL

(* For any number of callers and bundles: a fragment whose Push returned   *)
(* without an error stays a part of its item until the item is deleted,    *)
(* unless the whole bundle is there, whatever crashes happen, as long as   *)
(* no two calls for its bundle overlap.                                    *)
THEOREM Durability == Spec => []PushedIsStored
<1>1. IndInv => PushedIsStored
  BY DEF IndInv, BundleInv, Pushed, PushedIsStored
<1>. QED  BY <1>1, Invariance, PTL
=============================================================================
