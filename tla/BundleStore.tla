---------------------------- MODULE BundleStore ----------------------------
(***************************************************************************)
(* The bundle store: pkg/storage/store.go and bundle_item.go.  A BundleItem *)
(* in the badgerhold database refers to one file per part of the bundle.   *)
(* The database and the directory are changed one after the other, and an  *)
(* item is read, changed and written back in separate transactions.        *)
(*                                                                         *)
(* Callers:                                                                *)
(*   Pushers   core.handler, which pushes what is received;                *)
(*   Cleaners  cron's clean_store, DeleteExpired, and Sync's Delete;       *)
(*   Updaters  the routing algorithm and Sync, which query an item and     *)
(*             update it with their properties.                            *)
(* A received piece of a bundle is the whole bundle or a fragment; what    *)
(* tells pieces apart is their offset and length.                          *)
(***************************************************************************)
EXTENDS Naturals, FiniteSets

CONSTANTS Bundle,     \* scrubbed bundle IDs
          Total,      \* payload length, TotalDataLength of every fragment
          Pieces,     \* the pieces that may be received
          Pushers, Cleaners, Updaters,
          MaxCrash    \* bound: crashes of the process

(* A whole bundle is its only piece: offset 0, no fragment flag *)
Piece == [frag: BOOLEAN, off: 0..Total, len: 0..Total]

ASSUME PieceAssumption ==
    /\ Total \in Nat
    /\ Pieces \subseteq {p \in Piece : /\ p.off + p.len <= Total
                                       /\ ~p.frag => p.off = 0 /\ p.len = Total}
ASSUME BundleAssumption == Bundle # {}
ASSUME CallerAssumption == Pushers \cap Cleaners = {} /\ (Pushers \cup Cleaners) \cap Updaters = {}
ASSUME CrashAssumption == MaxCrash \in Nat

Thread == Pushers \cup Cleaners \cup Updaters

(* bundlePartPath: the hash of the part's bundle ID, so of the fragment's  *)
(* offset, not of its length.                                              *)
File == [frag: BOOLEAN, off: 0..Total]

VARIABLES index,    \* bundle -> its BundleItem
          disk,     \* bundle -> file -> the piece in it, {} if there is none
          expired,  \* bundles whose lifetime is over
          th,       \* caller -> what it is doing
          pushed,   \* history: bundle -> pieces whose Push returned nil
          raced,    \* history: bundles two calls were about at the same time
          torn,     \* history: bundles a call was about when the process died
          crashes

history == <<raced, torn>>
vars == <<index, disk, expired, th, pushed, raced, torn, crashes>>

-----------------------------------------------------------------------------
(* Items and parts.  Of a part the item has the offset and the file name. *)

bundlePartPath(p) == [frag |-> p.frag, off |-> p.off]

BundleItem == [known: BOOLEAN, frag: BOOLEAN, parts: SUBSET File]

NoItem == [known |-> FALSE, frag |-> FALSE, parts |-> {}]

newBundleItem(p) == [known |-> TRUE, frag |-> p.frag, parts |-> {bundlePartPath(p)}]

-----------------------------------------------------------------------------
Idle == [pc |-> "idle", b |-> CHOOSE b \in Bundle : TRUE, item |-> NoItem, piece |-> {}]

At(t, pc) == th[t].pc = pc

Become(t, r) == th' = [th EXCEPT ![t] = r]

Busy(b) == \E t \in Thread : ~At(t, "idle") /\ th[t].b = b

(* A call for b begins; raced is about what the callers do, not the store *)
Begin(b) == raced' = (IF Busy(b) THEN raced \cup {b} ELSE raced) /\ UNCHANGED torn

(* Store.Push, up to its QueryId *)
Push(t, b, p) ==
    LET bi == index[b]
        known == bundlePartPath(p) \in bi.parts
    IN  /\ At(t, "idle") /\ Begin(b)
        /\ \/ /\ ~bi.known
              /\ Become(t, [pc |-> "store", b |-> b, item |-> bi, piece |-> {p}])
              /\ UNCHANGED pushed
           \/ /\ bi.known /\ p.frag /\ bi.frag /\ ~known
              /\ Become(t, [pc |-> "store", b |-> b, item |-> bi, piece |-> {p}])
              /\ UNCHANGED pushed
           \/ /\ bi.known /\ (p.frag /\ bi.frag => known)
              /\ pushed' = [pushed EXCEPT ![b] = @ \cup {p}]
              /\ UNCHANGED th
        /\ UNCHANGED <<index, disk, expired, crashes>>

(* Mutant: the file is not written *)
storeNothing(t) ==
    /\ At(t, "store")
    /\ Become(t, [th[t] EXCEPT !.pc = "insert"])
    /\ UNCHANGED <<index, disk, expired, pushed, history, crashes>>

storeBundle(t) ==
    LET b == th[t].b
    IN  \E p \in th[t].piece :
            /\ At(t, "store")
            /\ disk' = [disk EXCEPT ![b] = [@ EXCEPT ![bundlePartPath(p)] = {p}]]
            /\ Become(t, [th[t] EXCEPT !.pc = "insert"])
            /\ UNCHANGED <<index, expired, pushed, history, crashes>>

(* Mutant: the new part replaces the others *)
InsertOnly(t) ==
    LET b == th[t].b
    IN  \E p \in th[t].piece :
            /\ At(t, "insert")
            /\ index' = [index EXCEPT ![b] = newBundleItem(p)]
            /\ pushed' = [pushed EXCEPT ![b] = @ \cup {p}]
            /\ Become(t, Idle)
            /\ UNCHANGED <<disk, expired, history, crashes>>

(* badgerhold's Insert fails if the key exists, its Update if it does not *)
Insert(t) ==
    LET b == th[t].b
        new == ~th[t].item.known
    IN  \E p \in th[t].piece :
            /\ At(t, "insert")
            /\ \/ /\ new = index[b].known
                  /\ UNCHANGED <<index, pushed>>
               \/ /\ new # index[b].known
                  /\ index' = [index EXCEPT ![b] =
                        IF new THEN newBundleItem(p)
                        ELSE [th[t].item EXCEPT !.parts = @ \cup {bundlePartPath(p)}]]
                  /\ pushed' = [pushed EXCEPT ![b] = @ \cup {p}]
            /\ Become(t, Idle)
            /\ UNCHANGED <<disk, expired, history, crashes>>

(* Store.Update with an item that was queried before *)
Query(t, b) ==
    /\ At(t, "idle") /\ Begin(b) /\ index[b].known
    /\ Become(t, [pc |-> "update", b |-> b, item |-> index[b], piece |-> {}])
    /\ UNCHANGED <<index, disk, expired, pushed, crashes>>

Update(t) ==
    /\ At(t, "update")
    /\ index' = IF index[th[t].b].known THEN [index EXCEPT ![th[t].b] = th[t].item] ELSE index
    /\ Become(t, Idle)
    /\ UNCHANGED <<disk, expired, pushed, history, crashes>>

(* Store.Delete, for one bundle DeleteExpired found or Sync settled *)
Delete(t, b) ==
    /\ At(t, "idle") /\ Begin(b) /\ index[b].known
    /\ Become(t, [pc |-> "remove", b |-> b, item |-> index[b], piece |-> {}])
    /\ UNCHANGED <<index, disk, expired, pushed, crashes>>

DeleteExpired(t, b) == b \in expired /\ Delete(t, b)

(* Mutant: a file that cannot be removed is an error *)
deleteStrict(t) ==
    LET r == th[t]
    IN  /\ At(t, "remove")
        /\ disk' = [disk EXCEPT ![r.b] = [f \in File |-> IF f \in r.item.parts THEN {} ELSE @[f]]]
        /\ Become(t, IF \E f \in r.item.parts : disk[r.b][f] = {} THEN Idle
                     ELSE [r EXCEPT !.pc = "delete"])
        /\ UNCHANGED <<index, expired, pushed, history, crashes>>

(* deleteBundle of every part; a missing file is only logged *)
deleteBundle(t) ==
    LET r == th[t]
    IN  /\ At(t, "remove")
        /\ disk' = [disk EXCEPT ![r.b] = [f \in File |-> IF f \in r.item.parts THEN {} ELSE @[f]]]
        /\ Become(t, [r EXCEPT !.pc = "delete"])
        /\ UNCHANGED <<index, expired, pushed, history, crashes>>

DeleteItem(t) ==
    /\ At(t, "delete")
    /\ index' = [index EXCEPT ![th[t].b] = NoItem]
    /\ pushed' = [pushed EXCEPT ![th[t].b] = {}]
    /\ Become(t, Idle)
    /\ UNCHANGED <<disk, expired, history, crashes>>

Expire(b) ==
    /\ b \notin expired
    /\ expired' = expired \cup {b}
    /\ UNCHANGED <<index, disk, th, pushed, history, crashes>>

(* The process dies: the callers are gone, database and files stay *)
Crash ==
    /\ crashes < MaxCrash
    /\ crashes' = crashes + 1
    /\ th' = [t \in Thread |-> Idle]
    /\ torn' = torn \cup {b \in Bundle : Busy(b)}
    /\ UNCHANGED <<index, disk, expired, pushed, raced>>

-----------------------------------------------------------------------------
Init ==
    /\ index = [b \in Bundle |-> NoItem]
    /\ disk = [b \in Bundle |-> [f \in File |-> {}]]
    /\ expired = {}
    /\ th = [t \in Thread |-> Idle]
    /\ pushed = [b \in Bundle |-> {}]
    /\ raced = {} /\ torn = {} /\ crashes = 0

Start(t) ==
    \E b \in Bundle : \/ t \in Pushers /\ \E p \in Pieces : Push(t, b, p)
                      \/ t \in Updaters /\ Query(t, b)
                      \/ t \in Cleaners /\ (Delete(t, b) \/ DeleteExpired(t, b))

Step(t) == storeBundle(t) \/ Insert(t) \/ Update(t) \/ deleteBundle(t) \/ DeleteItem(t)

Next == \/ \E t \in Thread : Start(t) \/ Step(t)
        \/ \E b \in Bundle : Expire(b)
        \/ Crash

Spec == Init /\ [][Next]_vars

(* A call returns, and cron starts clean_store again and again *)
FairSpec == /\ Spec
            /\ \A t \in Thread : WF_vars(Step(t))
            /\ \A t \in Cleaners, b \in Bundle : SF_vars(DeleteExpired(t, b))

-----------------------------------------------------------------------------
(* Properties *)

ThreadState == [pc: {"idle", "store", "insert", "update", "remove", "delete"},
                b: Bundle, item: BundleItem, piece: SUBSET Pieces]

TypeOK ==
    /\ index \in [Bundle -> BundleItem]
    /\ disk \in [Bundle -> [File -> SUBSET Pieces]]
    /\ expired \subseteq Bundle
    /\ th \in [Thread -> ThreadState]
    /\ pushed \in [Bundle -> SUBSET Pieces]
    /\ raced \subseteq Bundle /\ torn \subseteq Bundle /\ crashes \in Nat

(* What the database says is there can be read from the directory, except  *)
(* while the item is being deleted; if the calls for a bundle come one     *)
(* after the other and return.                                             *)
PartsAreOnDisk ==
    \A b \in Bundle \ (raced \cup torn) : \A f \in index[b].parts :
        \/ disk[b][f] # {}
        \/ \E t \in Thread : At(t, "delete") /\ th[t].b = b

(* No file is left behind that belongs to no item: once a call is over,    *)
(* every file is a part of its item; if the calls come one after the other *)
(* and return.                                                             *)
NoOrphans ==
    \A b \in Bundle \ (raced \cup torn), f \in File :
        disk[b][f] # {} /\ ~Busy(b) => f \in index[b].parts

(* Database and directory agree, in both directions.                       *)
FilesMatchIndex == PartsAreOnDisk /\ NoOrphans

(* A fragment whose Push returned without an error is among the parts      *)
(* until the item is deleted, unless the whole bundle is; the process may  *)
(* die in between, if the calls for a bundle come one after the other.     *)
PushedIsStored ==
    \A b \in Bundle \ raced : \A p \in pushed[b] :
        p.frag => bundlePartPath(p) \in index[b].parts \/ ~index[b].frag

(* An expired bundle does not stay in the store, also not one whose files  *)
(* are gone because the process died while it was deleted.                 *)
ExpiredGoes == \A b \in Bundle : b \in expired ~> ~index[b].known
=============================================================================
