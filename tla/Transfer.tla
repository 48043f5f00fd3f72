------------------------------ MODULE Transfer ------------------------------
(***************************************************************************)
(* Bundle transfers over an established TCPCLv4 session: TransferManager,  *)
(* OutgoingTransfer and IncomingTransfer (tcpclv4/internal/utils) at both  *)
(* ends, and SessEstablishedStage (internal/stages), the one goroutine of  *)
(* an end through which all messages go in either direction.  All channels *)
(* are bounded:                                                            *)
(*                                                                         *)
(*   Send -> exOut -> stage -> wire (MsgOut, TCP, MsgIn) -> stage -> exIn  *)
(*        -> TransferManager.handle -> exOut (XFER_ACK) and the bundle     *)
(*                                                                         *)
(* A bundle is known by its length; the data of a segment by its bundle,   *)
(* where in it they begin, and their length.                               *)
(***************************************************************************)
EXTENDS Naturals, Sequences, FiniteSets

CONSTANTS Bundle,
          Loads,        \* what the ends may send, see Load
          Mtu,          \* the SegmentMru both ends announce
          ExchangeCap,  \* capacity of ExchangeMsgIn and ExchangeMsgOut
          WireCap       \* what MsgOut, the TCP connection and MsgIn hold

End == {"a", "b"}
Peer(e) == IF e = "a" THEN "b" ELSE "a"

(* Which bundles are sent, by which end, the length of the serialization,  *)
(* and whether (a bound) the connection may break.                         *)
Load == [sent: SUBSET Bundle, source: [Bundle -> End], size: [Bundle -> Nat \ {0}],
         drop: BOOLEAN]

ASSUME BundleAssumption == IsFiniteSet(Bundle)
ASSUME LoadAssumption == Loads \subseteq Load /\ Loads # {} /\ Mtu \in Nat \ {0}
ASSUME CapAssumption == ExchangeCap \in Nat \ {0} /\ WireCap \in Nat \ {0}

VARIABLES load,        \* what is sent in this session
          snd,         \* bundle -> TransferManager.Send and its goroutine
          outNextId,   \* end -> TransferManager.outNextId
          exOut, exIn, \* end -> its exchange channels
          wire,        \* end -> messages on their way to it
          stage,       \* end -> what SessEstablishedStage is passing on
          tm,          \* end -> TransferManager.handle
          inTransfers, \* end -> transfer id -> IncomingTransfer
          delivered,   \* end -> buffers that were passed on as bundles
          lost,        \* end -> transfer id -> what it had when the session ended (history)
          up           \* the session is established

vars == <<load, snd, outNextId, exOut, exIn, wire, stage, tm, inTransfers, delivered, lost,
          up>>

Source(x) == load.source[x]
Size(x) == load.size[x]

(* Transfer ids: one per Send *)
Id == 0..(Cardinality(Bundle) - 1)

(* XFER_SEGMENT and XFER_ACK; of, pos and len stand for the data *)
Segment == [type: {"seg"}, id: Id, of: Bundle, pos: Nat, len: 1..Mtu, end: BOOLEAN]
Ack == [type: {"ack"}, id: Id, len: Nat]
Message == Segment \cup Ack

NoMsg == [type |-> "none"]

(* st: the state of Send; g: its sending goroutine; pos: what it has sent; *)
(* outLen, inLen and acks: the variables of Send's loop and its ackChan.   *)
SendState == [st: {"new", "run", "ok", "err"}, g: {"idle", "next", "put", "eof", "failed", "done"},
              id: Id, pos: Nat, outLen: Nat, inLen: Nat, acks: Seq(Ack)]

(* The buffer: whose data it has, how many, whether they are in order *)
IncomingTransfer == [of: SUBSET Bundle, len: Nat, ordered: BOOLEAN, end: BOOLEAN]
NewIncomingTransfer == [of |-> {}, len |-> 0, ordered |-> TRUE, end |-> FALSE]

(* outFeedback: the Send that waits for answers with this transfer id *)
Waiting(e, id) == {x \in Bundle : Source(x) = e /\ snd[x].st = "run" /\ snd[x].id = id}

-----------------------------------------------------------------------------
(* TransferManager.Send *)

(* Mutant: the transfer id is not advanced *)
SendSameId(x) ==
    LET e == Source(x)
    IN  /\ x \in load.sent /\ snd[x].st = "new" /\ up
        /\ snd' = [snd EXCEPT ![x].st = "run", ![x].g = "next", ![x].id = outNextId[e]]
        /\ UNCHANGED <<load, outNextId, exOut, exIn, wire, stage, tm, inTransfers, delivered, lost, up>>

Send(x) ==
    LET e == Source(x)
    IN  /\ x \in load.sent /\ snd[x].st = "new" /\ up
        /\ snd' = [snd EXCEPT ![x].st = "run", ![x].g = "next", ![x].id = outNextId[e]]
        /\ outNextId' = [outNextId EXCEPT ![e] = @ + 1]
        /\ UNCHANGED <<load, exOut, exIn, wire, stage, tm, inTransfers, delivered, lost, up>>

Remaining(x) == Size(x) - snd[x].pos

(* OutgoingTransfer.NextSegment: io.ReadFull returns a full buffer without *)
(* an error, the rest with ErrUnexpectedEOF, or EOF if there is none.      *)
NextSegment(x) ==
    [type |-> "seg", id |-> snd[x].id, of |-> x, pos |-> snd[x].pos,
     len |-> IF Remaining(x) < Mtu THEN Remaining(x) ELSE Mtu,
     end |-> Remaining(x) < Mtu]

(* The sending goroutine: is it told to stop, is there another segment? *)
SendNext(x) ==
    /\ snd[x].g = "next"
    /\ snd' = [snd EXCEPT ![x].g = CASE snd[x].st # "run" -> "done"
                                     [] snd[x].st = "run" /\ ~up -> "failed"
                                     [] OTHER -> IF Remaining(x) = 0 THEN "eof" ELSE "put"]
    /\ UNCHANGED <<load, outNextId, exOut, exIn, wire, stage, tm, inTransfers, delivered, lost, up>>

SendPut(x) ==
    LET e == Source(x)
    IN  /\ snd[x].g = "put" /\ Len(exOut[e]) < ExchangeCap
        /\ exOut' = [exOut EXCEPT ![e] = Append(@, NextSegment(x))]
        /\ snd' = [snd EXCEPT ![x].g = "next", ![x].pos = @ + NextSegment(x).len]
        /\ UNCHANGED <<load, outNextId, exIn, wire, stage, tm, inTransfers, delivered, lost, up>>

(* Send's select: lenChan, errChan, ackChan or the timeout *)
SendLen(x) ==
    /\ snd[x].st = "run" /\ snd[x].g = "eof"
    /\ snd' = [snd EXCEPT ![x].g = "done", ![x].outLen = snd[x].pos,
                          ![x].st = IF snd[x].pos = snd[x].inLen THEN "ok" ELSE "run"]
    /\ UNCHANGED <<load, outNextId, exOut, exIn, wire, stage, tm, inTransfers, delivered, lost, up>>

SendErr(x) ==
    /\ snd[x].st = "run" /\ snd[x].g = "failed"
    /\ snd' = [snd EXCEPT ![x].g = "done", ![x].st = "err"]
    /\ UNCHANGED <<load, outNextId, exOut, exIn, wire, stage, tm, inTransfers, delivered, lost, up>>

(* Mutant: any acknowledgement will do *)
SendAckAny(x) ==
    /\ snd[x].st = "run" /\ snd[x].acks # <<>>
    /\ snd' = [snd EXCEPT ![x].acks = Tail(@), ![x].st = "ok"]
    /\ UNCHANGED <<load, outNextId, exOut, exIn, wire, stage, tm, inTransfers, delivered, lost, up>>

SendAck(x) ==
    LET n == Head(snd[x].acks).len
    IN  /\ snd[x].st = "run" /\ snd[x].acks # <<>>
        /\ snd' = [snd EXCEPT ![x].acks = Tail(@), ![x].inLen = n,
                              ![x].st = IF snd[x].outLen = n THEN "ok" ELSE "run"]
        /\ UNCHANGED <<load, outNextId, exOut, exIn, wire, stage, tm, inTransfers, delivered, lost, up>>

(* Mutant: Send waits for ever *)
TimeoutNever(x) == FALSE /\ UNCHANGED vars

Timeout(x) ==
    /\ snd[x].st = "run" /\ snd[x].acks = <<>>
    /\ snd' = [snd EXCEPT ![x].st = "err"]
    /\ UNCHANGED <<load, outNextId, exOut, exIn, wire, stage, tm, inTransfers, delivered, lost, up>>

-----------------------------------------------------------------------------
(* SessEstablishedStage: takes a message from either side, and then blocks *)
(* until the other side has room.                                          *)

StageTakeOut(e) ==
    /\ up /\ stage[e].dir = "none" /\ exOut[e] # <<>>
    /\ stage' = [stage EXCEPT ![e] = [dir |-> "out", msg |-> Head(exOut[e])]]
    /\ exOut' = [exOut EXCEPT ![e] = Tail(@)]
    /\ UNCHANGED <<load, snd, outNextId, exIn, wire, tm, inTransfers, delivered, lost, up>>

StageTakeIn(e) ==
    /\ up /\ stage[e].dir = "none" /\ wire[e] # <<>>
    /\ stage' = [stage EXCEPT ![e] = [dir |-> "in", msg |-> Head(wire[e])]]
    /\ wire' = [wire EXCEPT ![e] = Tail(@)]
    /\ UNCHANGED <<load, snd, outNextId, exOut, exIn, tm, inTransfers, delivered, lost, up>>

messageOut(e) ==
    /\ up /\ stage[e].dir = "out" /\ Len(wire[Peer(e)]) < WireCap
    /\ wire' = [wire EXCEPT ![Peer(e)] = Append(@, stage[e].msg)]
    /\ stage' = [stage EXCEPT ![e] = [dir |-> "none", msg |-> NoMsg]]
    /\ UNCHANGED <<load, snd, outNextId, exOut, exIn, tm, inTransfers, delivered, lost, up>>

handleMsgIn(e) ==
    /\ up /\ stage[e].dir = "in" /\ Len(exIn[e]) < ExchangeCap
    /\ exIn' = [exIn EXCEPT ![e] = Append(@, stage[e].msg)]
    /\ stage' = [stage EXCEPT ![e] = [dir |-> "none", msg |-> NoMsg]]
    /\ UNCHANGED <<load, snd, outNextId, exOut, wire, tm, inTransfers, delivered, lost, up>>

(* The session is over: what was on its way is lost, and client.handle     *)
(* drops the TransferManager with all it has not passed on, the complete   *)
(* and acknowledged transfer included which waits for client.handle to     *)
(* read the bundle.                                                        *)
Ended ==
    /\ up' = FALSE
    /\ lost' = inTransfers
    /\ inTransfers' = [e \in End |-> [id \in Id |-> NewIncomingTransfer]]
    /\ exIn' = [e \in End |-> <<>>] /\ wire' = [e \in End |-> <<>>]
    /\ stage' = [e \in End |-> [dir |-> "none", msg |-> NoMsg]]
    /\ tm' = [e \in End |-> NoMsg]

(* The stage of e waits for TransferManager.handle to read ExchangeMsgIn,  *)
(* which waits for the stage to read ExchangeMsgOut.                       *)
Stuck(e) == /\ stage[e].dir = "in" /\ Len(exIn[e]) = ExchangeCap
            /\ tm[e].type = "ack" /\ Len(exOut[e]) = ExchangeCap

(* handleKeepalive: no message for the negotiated time, because the peer   *)
(* is stuck and sends no KEEPALIVE either.  The session ends.  (Silence of *)
(* the network is Drop.)                                                   *)
handleKeepalive(e) ==
    /\ up /\ stage[e].dir = "none" /\ wire[e] = <<>> /\ Stuck(Peer(e))
    /\ Ended
    /\ UNCHANGED <<load, snd, outNextId, exOut, delivered>>

(* The connection breaks, or an end closes it *)
Drop ==
    /\ load.drop /\ up
    /\ Ended
    /\ UNCHANGED <<load, snd, outNextId, exOut, delivered>>

-----------------------------------------------------------------------------
(* TransferManager.handle *)

(* XFER_ACK; one for a transfer nobody waits for any more is an error,     *)
(* which ends the session.                                                 *)
HandleAck(e) ==
    LET msg == Head(exIn[e])
        waiting == Waiting(e, msg.id)
    IN  /\ up /\ tm[e] = NoMsg /\ exIn[e] # <<>> /\ msg.type = "ack"
        /\ \/ /\ waiting = {}
              /\ Ended
              /\ UNCHANGED snd
           \/ /\ waiting # {}
              /\ exIn' = [exIn EXCEPT ![e] = Tail(@)]
              /\ snd' = [x \in Bundle |-> IF x \in waiting
                                          THEN [snd[x] EXCEPT !.acks = Append(@, msg)] ELSE snd[x]]
              /\ UNCHANGED <<wire, stage, tm, inTransfers, lost, up>>
        /\ UNCHANGED <<load, outNextId, exOut, delivered>>

(* IncomingTransfer.NextSegment, which makes the answer; a segment after   *)
(* the last one is an error.                                               *)
HandleSegment(e) ==
    LET msg == Head(exIn[e])
        t == inTransfers[e][msg.id]
        n == t.len + msg.len
    IN  /\ up /\ tm[e] = NoMsg /\ exIn[e] # <<>> /\ msg.type = "seg" /\ ~t.end
        /\ exIn' = [exIn EXCEPT ![e] = Tail(@)]
        /\ inTransfers' = [inTransfers EXCEPT ![e][msg.id] =
                               [of |-> t.of \cup {msg.of}, len |-> n,
                                ordered |-> t.ordered /\ msg.pos = t.len, end |-> msg.end]]
        /\ tm' = [tm EXCEPT ![e] = [type |-> "ack", id |-> msg.id, len |-> n]]
        /\ UNCHANGED <<load, snd, outNextId, exOut, wire, stage, delivered, lost, up>>

(* Mutant: a complete transfer is not passed on *)
HandleReplyOnly(e) ==
    /\ up /\ tm[e].type = "ack" /\ Len(exOut[e]) < ExchangeCap
    /\ exOut' = [exOut EXCEPT ![e] = Append(@, tm[e])]
    /\ tm' = [tm EXCEPT ![e] = NoMsg]
    /\ UNCHANGED <<load, snd, outNextId, exIn, wire, stage, inTransfers, delivered, lost, up>>

HandleReply(e) ==
    /\ up /\ tm[e].type = "ack" /\ Len(exOut[e]) < ExchangeCap
    /\ exOut' = [exOut EXCEPT ![e] = Append(@, tm[e])]
    /\ tm' = [tm EXCEPT ![e] = IF inTransfers[e][tm[e].id].end
                               THEN [type |-> "bundle", id |-> tm[e].id] ELSE NoMsg]
    /\ UNCHANGED <<load, snd, outNextId, exIn, wire, stage, inTransfers, delivered, lost, up>>

(* client.handle takes the bundle, and the transfer is forgotten *)
Deliver(e) ==
    LET id == tm[e].id
    IN  /\ up /\ tm[e].type = "bundle"
        /\ delivered' = [delivered EXCEPT ![e] = @ \cup {inTransfers[e][id]}]
        /\ inTransfers' = [inTransfers EXCEPT ![e][id] = NewIncomingTransfer]
        /\ tm' = [tm EXCEPT ![e] = NoMsg]
        /\ UNCHANGED <<load, snd, outNextId, exOut, exIn, wire, stage, lost, up>>

-----------------------------------------------------------------------------
Init ==
    /\ load \in Loads
    /\ snd = [x \in Bundle |-> [st |-> "new", g |-> "idle", id |-> 0, pos |-> 0,
                                outLen |-> 0, inLen |-> 0, acks |-> <<>>]]
    /\ outNextId = [e \in End |-> 0]
    /\ exOut = [e \in End |-> <<>>] /\ exIn = [e \in End |-> <<>>]
    /\ wire = [e \in End |-> <<>>]
    /\ stage = [e \in End |-> [dir |-> "none", msg |-> NoMsg]]
    /\ tm = [e \in End |-> NoMsg]
    /\ inTransfers = [e \in End |-> [id \in Id |-> NewIncomingTransfer]]
    /\ delivered = [e \in End |-> {}] /\ lost = inTransfers
    /\ up = TRUE

Sending(x) == SendNext(x) \/ SendPut(x) \/ SendLen(x) \/ SendErr(x) \/ SendAck(x)
Stage(e) == StageTakeOut(e) \/ StageTakeIn(e) \/ messageOut(e) \/ handleMsgIn(e)
handle(e) == HandleAck(e) \/ HandleSegment(e) \/ HandleReply(e) \/ Deliver(e)

Next == \/ \E x \in Bundle : Send(x) \/ Sending(x) \/ Timeout(x)
        \/ \E e \in End : Stage(e) \/ handle(e) \/ handleKeepalive(e)
        \/ Drop

Spec == Init /\ [][Next]_vars

(* The goroutines run; a ticker of the stage and the timer of Send's       *)
(* select expire in the end.                                               *)
Fairness == /\ \A x \in Bundle : WF_vars(Sending(x)) /\ WF_vars(Timeout(x))
            /\ \A e \in End : WF_vars(Stage(e)) /\ WF_vars(handle(e)) /\ WF_vars(handleKeepalive(e))

FairSpec == Spec /\ Fairness

-----------------------------------------------------------------------------
(* Properties *)

TypeOK ==
    /\ load \in Loads
    /\ snd \in [Bundle -> SendState]
    /\ outNextId \in [End -> 0..Cardinality(Bundle)]
    /\ exOut \in [End -> Seq(Message)] /\ exIn \in [End -> Seq(Message)]
    /\ wire \in [End -> Seq(Message)]
    /\ \A e \in End : Len(exOut[e]) <= ExchangeCap /\ Len(exIn[e]) <= ExchangeCap /\ Len(wire[e]) <= WireCap
    /\ stage \in [End -> [dir: {"none", "in", "out"}, msg: Message \cup {NoMsg}]]
    /\ tm \in [End -> Ack \cup [type: {"bundle"}, id: Id] \cup {NoMsg}]
    /\ inTransfers \in [End -> [Id -> IncomingTransfer]] /\ lost \in [End -> [Id -> IncomingTransfer]]
    /\ delivered \in [End -> SUBSET IncomingTransfer]
    /\ up \in BOOLEAN

Whole(x) == [of |-> {x}, len |-> Size(x), ordered |-> TRUE, end |-> TRUE]

(* Send "blocks until the Bundle was sent successfully or an error         *)
(* arises": when it returns without an error, the peer has passed on the   *)
(* whole bundle, or has it complete and is about to; or it had it complete *)
(* when the session ended, and lost it then, after the acknowledgement.    *)
SentIsReceived ==
    \A x \in Bundle : snd[x].st = "ok" =>
        LET e == Peer(Source(x))
        IN  \/ Whole(x) \in delivered[e]
            \/ inTransfers[e][snd[x].id] = Whole(x)
            \/ ~up /\ lost[e][snd[x].id] = Whole(x)

(* Whatever is passed on as a bundle is one whole bundle of the peer:      *)
(* segments of concurrent transfers are not mixed up, and none is missing  *)
(* or out of order.                                                        *)
Intact ==
    \A e \in End : \A t \in delivered[e] : \E x \in Bundle : Source(x) # e /\ t = Whole(x)

(* Every Send returns, whatever the peer and the session do *)
SendReturns == \A x \in Bundle : snd[x].st = "run" ~> snd[x].st # "run"

(* What is sent is passed on by the peer, unless Send reports an error or  *)
(* the session ends: no segment or acknowledgement gets stuck.             *)
Arrives ==
    \A x \in Bundle :
        snd[x].st = "run" ~> Whole(x) \in delivered[Peer(Source(x))] \/ snd[x].st = "err" \/ ~up
=============================================================================
