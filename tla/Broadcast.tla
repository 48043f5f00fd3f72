----------------------------- MODULE Broadcast -----------------------------
(***************************************************************************)
(* The bundle broadcasting connector (pkg/cla/bbc): every node has a       *)
(* Connector with a goroutine that reads from its modem, one that writes   *)
(* to it, and any number of Sends.  What a modem sends reaches any subset  *)
(* of the other nodes.  Nothing is acknowledged: a receiver that misses a  *)
(* fragment says so with a failure fragment, which Send looks out for.     *)
(*                                                                         *)
(* A bundle is a number of fragments.  Transmission ids and sequence       *)
(* numbers wrap around, so old and foreign fragments may look like the     *)
(* next one; xz and the bundle's CRC tell the difference in the end.       *)
(***************************************************************************)
EXTENDS Naturals, Sequences, FiniteSets

CONSTANTS BNodes,       \* nodes with a Connector
          BBundles,     \* bundles to be sent, one Send for each
          Source,       \* bundle -> the node that sends it
          Size,         \* bundle -> number of its fragments
          TidMod,       \* transmission ids wrap (256)
          FirstTids,    \* node -> randomTransmissionId, the choices
          SeqNoMod,     \* sequence numbers wrap (16)
          OutCap, FailCap,  \* capacity of fragmentOut, failTransmission (64)
          Closing,      \* bound: nodes whose Connector may be closed
          MaxLost,      \* bound: fragments a node does not hear
          None          \* the goroutine has no fragment

VARIABLES tid,          \* node -> Connector.tid
          sending,      \* bundle -> its Send with its OutgoingTransmission
          fragmentOut, failTransmission,    \* node -> channel
          modem,        \* node -> fragments its modem has received
          reading,      \* node -> the fragment handlerRead works on
          transmissions,    \* node -> id -> IncomingTransmission
          reported,     \* node -> bundles passed on to reportChan
          lost,         \* fragments not heard so far
          open,         \* nodes whose Connector was not closed
          spoilt        \* history: node -> bundles it could not receive

bvars == <<tid, sending, fragmentOut, failTransmission, modem, reading,
           transmissions, reported, lost, open, spoilt>>

nextTransmissionId(t) == (t + 1) % TidMod
nextSequenceNumber(s) == (s + 1) % SeqNoMod

Fragment(t, s, start, end, b, i) ==
    [tid |-> t, seq |-> s, start |-> start, end |-> end, fail |-> FALSE,
     part |-> <<b, i>>]

ReportFailure(f) == [tid |-> f.tid, seq |-> f.seq, fail |-> TRUE]

(* What a modem carries.                                                   *)
BFragments ==
    [tid: Nat, seq: Nat, start: BOOLEAN, end: BOOLEAN, fail: {FALSE},
     part: BBundles \X Nat]
    \union [tid: Nat, seq: Nat, fail: {TRUE}]

ASSUME BAssumption ==
    /\ Source \in [BBundles -> BNodes]
    /\ Size \in [BBundles -> Nat \ {0}]
    /\ TidMod \in Nat \ {0} /\ SeqNoMod \in Nat \ {0}
    /\ \A t \in FirstTids : t \in [BNodes -> Nat]
    /\ None \notin BFragments

NoTransmissions == [t \in {} |-> None]

BInit == /\ tid \in FirstTids
         /\ sending = [b \in BBundles |->
                          [pc |-> "idle", tid |-> 0, seq |-> 0, next |-> 1]]
         /\ fragmentOut = [n \in BNodes |-> <<>>]
         /\ failTransmission = [n \in BNodes |-> <<>>]
         /\ modem = [n \in BNodes |-> <<>>]
         /\ reading = [n \in BNodes |-> None]
         /\ transmissions = [n \in BNodes |-> NoTransmissions]
         /\ reported = [n \in BNodes |-> {}]
         /\ lost = 0
         /\ open = BNodes
         /\ spoilt = [n \in BNodes |-> {}]
-----------------------------------------------------------------------------
(* Send takes the id for a new OutgoingTransmission, and then increments   *)
(* it, without a lock.                                                     *)
BSend(b) ==
    /\ sending[b].pc = "idle"
    /\ sending' = [sending EXCEPT ![b].pc = "new", ![b].tid = tid[Source[b]]]
    /\ UNCHANGED <<tid, fragmentOut, failTransmission, modem, reading,
                   transmissions, reported, lost, open, spoilt>>

SendNextId(b) ==
    /\ sending[b].pc = "new"
    /\ tid' = [tid EXCEPT ![Source[b]] = nextTransmissionId(@)]
    /\ sending' = [sending EXCEPT ![b].pc = "loop"]
    /\ UNCHANGED <<fragmentOut, failTransmission, modem, reading, transmissions,
                   reported, lost, open, spoilt>>

(* The loop: a failure that was heard, whoever's it is.                    *)
SendFailed(b) ==
    LET n == Source[b] IN
    /\ sending[b].pc = "loop" /\ failTransmission[n] # <<>>
    /\ failTransmission' = [failTransmission EXCEPT ![n] = Tail(@)]
    /\ sending' = [sending EXCEPT ![b].pc =
                      IF Head(failTransmission[n]) = sending[b].tid THEN "err"
                                                                    ELSE @]
    /\ UNCHANGED <<tid, fragmentOut, modem, reading, transmissions, reported,
                   lost, open, spoilt>>

(* Otherwise WriteFragment, which then waits for room in fragmentOut.      *)
SendWriteFragment(b) ==
    /\ sending[b].pc = "loop" /\ failTransmission[Source[b]] = <<>>
    /\ sending' = [sending EXCEPT ![b].pc = "put",
                                  ![b].seq = nextSequenceNumber(@)]
    /\ UNCHANGED <<tid, fragmentOut, failTransmission, modem, reading,
                   transmissions, reported, lost, open, spoilt>>

SendPut(b) ==
    LET n == Source[b]
        s == sending[b]
        end == s.next = Size[b]
    IN  /\ s.pc = "put" /\ Len(fragmentOut[n]) < OutCap
        /\ fragmentOut' = [fragmentOut EXCEPT ![n] =
               Append(@, Fragment(s.tid, s.seq, s.next = 1, end, b, s.next))]
        /\ sending' = [sending EXCEPT ![b].pc = IF end THEN "ok" ELSE "loop",
                                      ![b].next = @ + 1]
        /\ UNCHANGED <<tid, failTransmission, modem, reading, transmissions,
                       reported, lost, open, spoilt>>

(* handlerWrite: modem.Send, which the nodes in to hear.                   *)
handlerWrite(n, to) ==
    LET deaf == BNodes \ ({n} \union to) IN
    /\ n \in open /\ fragmentOut[n] # <<>>
    /\ to \subseteq BNodes \ {n}
    /\ lost + Cardinality(deaf) <= MaxLost
    /\ lost' = lost + Cardinality(deaf)
    /\ LET f == Head(fragmentOut[n]) IN
       /\ fragmentOut' = [fragmentOut EXCEPT ![n] = Tail(@)]
       /\ modem' = [m \in BNodes |-> IF m \in to THEN Append(modem[m], f)
                                                 ELSE modem[m]]
       /\ spoilt' = [m \in BNodes |->
                        IF m \in deaf /\ ~f.fail THEN spoilt[m] \union {f.part[1]}
                                                 ELSE spoilt[m]]
    /\ UNCHANGED <<tid, sending, failTransmission, reading, transmissions,
                   reported, open>>
-----------------------------------------------------------------------------
(* handlerRead gets the next fragment.                                     *)
Receive(n) ==
    /\ n \in open /\ reading[n] = None /\ modem[n] # <<>>
    /\ reading' = [reading EXCEPT ![n] = Head(modem[n])]
    /\ modem' = [modem EXCEPT ![n] = Tail(@)]
    /\ UNCHANGED <<tid, sending, fragmentOut, failTransmission, transmissions,
                   reported, lost, open, spoilt>>

(* handleIncomingFragment of a failure.                                    *)
HandleFailure(n) ==
    /\ reading[n] # None /\ reading[n].fail
    /\ Len(failTransmission[n]) < FailCap
    /\ failTransmission' = [failTransmission EXCEPT ![n] =
                               Append(@, reading[n].tid)]
    /\ reading' = [reading EXCEPT ![n] = None]
    /\ UNCHANGED <<tid, sending, fragmentOut, modem, transmissions, reported,
                   lost, open, spoilt>>

Known(n, f) == f.tid \in DOMAIN transmissions[n]

(* NewIncomingTransmission and ReadFragment refuse a fragment.             *)
Refused(n, f) ==
    IF Known(n, f)
    THEN LET t == transmissions[n][f.tid]
         IN  t.finished \/ f.seq # nextSequenceNumber(t.seq) \/ f.start
    ELSE ~f.start

(* The transmission after a fragment that was not refused.                 *)
Added(n, f) ==
    [parts |-> IF Known(n, f) THEN Append(transmissions[n][f.tid].parts, f.part)
                              ELSE <<f.part>>,
     seq |-> f.seq, finished |-> f.end]

(* Bundle: the parts are one bundle.                                       *)
IsBundle(parts) ==
    \E b \in BBundles : parts = [i \in 1..Size[b] |-> <<b, i>>]

With(n, t, x) == [u \in DOMAIN transmissions[n] \union {t} |->
                     IF u = t THEN x ELSE transmissions[n][u]]

Without(n, t) == [u \in DOMAIN transmissions[n] \ {t} |-> transmissions[n][u]]

(* History: two transmissions with one id that are both under way at a     *)
(* node spoil each other.                                                  *)
Clash(n, f) ==
    LET others == {p[1] : p \in {transmissions[n][f.tid].parts[i] :
                         i \in 1..Len(transmissions[n][f.tid].parts)}} \ {f.part[1]}
    IN  IF Known(n, f) /\ ~transmissions[n][f.tid].finished /\ others # {}
        THEN others \union {f.part[1]} ELSE {}

(* Mutant: a finished transmission stays *)
HandleFragmentKept(n) ==
    LET f == reading[n]
        t == Added(n, f)
        failed == Refused(n, f) \/ (f.end /\ ~IsBundle(t.parts))
    IN  /\ f # None /\ ~f.fail
        /\ transmissions' = [transmissions EXCEPT ![n] =
               IF Refused(n, f) THEN Without(n, f.tid) ELSE With(n, f.tid, t)]
        /\ reported' = IF failed \/ ~f.end THEN reported
                       ELSE [reported EXCEPT ![n] = @ \union {f.part[1]}]
        /\ IF failed
           THEN /\ Len(fragmentOut[n]) < OutCap
                /\ fragmentOut' = [fragmentOut EXCEPT ![n] =
                                      Append(@, ReportFailure(f))]
           ELSE UNCHANGED fragmentOut
        /\ reading' = [reading EXCEPT ![n] = None]
        /\ spoilt' = [spoilt EXCEPT ![n] = @ \union Clash(n, f)]
        /\ UNCHANGED <<tid, sending, failTransmission, modem, lost, open>>

(* handleIncomingFragment of a part; an error is broadcast as a failure.   *)
HandleFragment(n) ==
    LET f == reading[n]
        t == Added(n, f)
        failed == Refused(n, f) \/ (f.end /\ ~IsBundle(t.parts))
    IN  /\ f # None /\ ~f.fail
        /\ transmissions' = [transmissions EXCEPT ![n] =
               IF failed \/ f.end THEN Without(n, f.tid) ELSE With(n, f.tid, t)]
        /\ reported' = IF failed \/ ~f.end THEN reported
                       ELSE [reported EXCEPT ![n] = @ \union {f.part[1]}]
        /\ IF failed
           THEN /\ Len(fragmentOut[n]) < OutCap
                /\ fragmentOut' = [fragmentOut EXCEPT ![n] =
                                      Append(@, ReportFailure(f))]
           ELSE UNCHANGED fragmentOut
        /\ reading' = [reading EXCEPT ![n] = None]
        /\ spoilt' = [spoilt EXCEPT ![n] = @ \union Clash(n, f)]
        /\ UNCHANGED <<tid, sending, failTransmission, modem, lost, open>>

(* Close: both goroutines stop, the reader when it has no fragment.        *)
BClose(n) ==
    /\ n \in open \intersect Closing /\ reading[n] = None
    /\ open' = open \ {n}
    /\ UNCHANGED <<tid, sending, fragmentOut, failTransmission, modem, reading,
                   transmissions, reported, lost, spoilt>>

Sender(b) == SendNextId(b) \/ SendFailed(b) \/ SendWriteFragment(b) \/ SendPut(b)

Reader(n) == Receive(n) \/ HandleFailure(n) \/ HandleFragment(n)

BNext == \/ \E b \in BBundles : BSend(b) \/ Sender(b)
         \/ \E n \in BNodes : \/ \E to \in SUBSET BNodes : handlerWrite(n, to)
                              \/ Reader(n) \/ BClose(n)

BSpec == BInit /\ [][BNext]_bvars
-----------------------------------------------------------------------------
(***************************************************************************)
(* A node that hears every fragment of a transmission passes its bundle    *)
(* on, however the sequence numbers and ids wrap, and whatever it heard    *)
(* before: only a lost fragment, or another transmission with the same id  *)
(* that was left incomplete or is under way, keeps it from doing so.       *)
(***************************************************************************)
Heard ==
    \A b \in BBundles : \A n \in BNodes \ {Source[b]} :
        /\ sending[b].pc = "ok"
        /\ fragmentOut[Source[b]] = <<>> /\ modem[n] = <<>> /\ reading[n] = None
        => b \in reported[n] \union spoilt[n]
=============================================================================
