-------------------------------- MODULE Mtcp --------------------------------
(***************************************************************************)
(* The minimal TCP convergence layer (pkg/cla/mtcp): one MTCPClient, the   *)
(* Sends that share it, its handler with the keepalive, the element of the *)
(* CLA manager that reads its reportChan and restarts it, and the          *)
(* MTCPServer at the other end.                                            *)
(*                                                                         *)
(* A bundle is put on the wire in two writes (bufio writes when its buffer *)
(* is full, and on Flush), a keepalive or probe in one.  The server has to *)
(* find the bundles in what arrives.  A cut connection loses what was on   *)
(* its way; a write to it may still succeed.  reportChan is unbuffered:    *)
(* who reports waits until the element reads, or until it is closed.       *)
(***************************************************************************)
EXTENDS Naturals, Sequences, FiniteSets, SequencesExt

CONSTANTS MBundles,     \* the bundles to be sent, one Send for each
          MaxStarts,    \* bound: connections one after the other
          MaxTicks,     \* bound: keepalives
          Nobody        \* the mutex is free

(* The mutex is held by a Send, by the keepalive ("handler") or by nobody.  *)
ASSUME HoldersAssumption == /\ "handler" \notin MBundles
                            /\ Nobody \notin MBundles \union {"handler"}
                            /\ MaxStarts \in Nat

VARIABLES handler,      \* MTCPClient.handler: where it is
          elem,         \* the element: "off", "reading" or "closing"
          told,         \* whether the element was told PeerDisappeared
          conn,         \* client.conn: the number of the connection
          link, wire,   \* connection -> its state, and what is on its way
          mutex,        \* client.mutex
          send,         \* bundle -> its Send
          srv,          \* connection -> MTCPServer.handleSender
          listening,    \* the server was not closed
          passed,       \* connection -> bundles passed on, in order
          order,        \* history: connection -> bundles in order of Send
          ticks         \* keepalives so far

mvars == <<handler, elem, told, conn, link, wire, mutex, send, srv, listening,
           passed, order, ticks>>

MConns == 1..MaxStarts

Zero == [part |-> "zero"]
First(b) == [part |-> "first", bundle |-> b]
Rest(b) == [part |-> "rest", bundle |-> b]

MInit == /\ handler = "stopped" /\ elem = "off" /\ told = FALSE
         /\ conn = 0
         /\ link = [c \in MConns |-> "none"]
         /\ wire = [c \in MConns |-> <<>>]
         /\ mutex = Nobody
         /\ send = [b \in MBundles |-> [pc |-> "idle", conn |-> 0]]
         /\ srv = [c \in MConns |-> [pc |-> "none"]]
         /\ listening = TRUE
         /\ passed = [c \in MConns |-> <<>>]
         /\ order = [c \in MConns |-> <<>>]
         /\ ticks = 0
-----------------------------------------------------------------------------
(* Bound: one fault, a connection that is cut or the end of the server.    *)
NoFault == listening /\ \A c \in MConns : link[c] # "cut"

(* The network.                                                            *)
Cut == \E c \in MConns :
          /\ link[c] = "up" /\ NoFault
          /\ link' = [link EXCEPT ![c] = "cut"]
          /\ wire' = [wire EXCEPT ![c] = <<>>]
          /\ UNCHANGED <<handler, elem, told, conn, mutex, send, srv, listening,
                         passed, order, ticks>>

(* A write of x to connection c; one that is cut may swallow it.           *)
Written(c, x) ==
    /\ link[c] \in {"up", "cut"}
    /\ wire' = IF link[c] = "up" THEN [wire EXCEPT ![c] = Append(@, x)] ELSE wire

WriteFails(c) == link[c] # "up" /\ UNCHANGED wire
-----------------------------------------------------------------------------
(* Start: dial, and the element starts to read.  Bound: at the restart at  *)
(* most one Send has not returned.                                         *)
MStart ==
    /\ elem = "off" /\ listening /\ conn < MaxStarts
    /\ \/ conn = 0
       \/ Cardinality({b \in MBundles : send[b].pc \notin {"ok", "err"}}) <= 1
    /\ conn' = conn + 1
    /\ link' = [link EXCEPT ![conn + 1] = "up"]
    /\ srv' = [srv EXCEPT ![conn + 1] = [pc |-> "len"]]
    /\ handler' = "appear" /\ elem' = "reading" /\ told' = FALSE
    /\ UNCHANGED <<wire, mutex, send, listening, passed, order, ticks>>

(* handler: it introduces itself, once.                                    *)
HandlerAppear ==
    /\ handler = "appear" /\ elem = "reading"
    /\ handler' = "loop"
    /\ UNCHANGED <<elem, told, conn, link, wire, mutex, send, srv, listening,
                   passed, order, ticks>>

(* Mutant: the keepalive does not wait for the mutex *)
KeepaliveNoLock ==
    /\ handler = "loop" /\ ticks < MaxTicks
    /\ ticks' = ticks + 1
    /\ handler' = "write"
    /\ UNCHANGED <<elem, told, conn, link, wire, mutex, send, srv, listening,
                   passed, order>>

(* The ticker: the keepalive waits for the mutex.                          *)
Keepalive ==
    /\ handler = "loop" /\ ticks < MaxTicks
    /\ mutex = Nobody
    /\ ticks' = ticks + 1
    /\ handler' = "write" /\ mutex' = "handler"
    /\ UNCHANGED <<elem, told, conn, link, wire, send, srv, listening, passed,
                   order>>

KeepaliveWrite ==
    /\ handler = "write"
    /\ mutex' = IF mutex = "handler" THEN Nobody ELSE mutex
    /\ \/ Written(conn, Zero) /\ handler' = "loop"
       \/ WriteFails(conn) /\ handler' = "report"
    /\ UNCHANGED <<elem, told, conn, link, send, srv, listening, passed, order,
                   ticks>>

HandlerReport ==
    /\ handler = "report" /\ elem = "reading"
    /\ handler' = "loop" /\ told' = TRUE
    /\ UNCHANGED <<elem, conn, link, wire, mutex, send, srv, listening, passed,
                   order, ticks>>

(* The manager stops the element, which calls Close; the handler notices,  *)
(* closes the connection and reportChan, and Close returns.                *)
MClose ==
    /\ elem = "reading"
    /\ elem' = "closing"
    /\ UNCHANGED <<handler, told, conn, link, wire, mutex, send, srv, listening,
                   passed, order, ticks>>

HandlerStop ==
    /\ handler = "loop" /\ elem = "closing"
    /\ handler' = "stopped"
    /\ link' = IF link[conn] = "up" THEN [link EXCEPT ![conn] = "closed"]
                                      ELSE link
    /\ UNCHANGED <<elem, told, conn, wire, mutex, send, srv, listening, passed,
                   order, ticks>>

CloseReturns ==
    /\ elem = "closing" /\ handler = "stopped"
    /\ elem' = "off"
    /\ UNCHANGED <<handler, told, conn, link, wire, mutex, send, srv, listening,
                   passed, order, ticks>>
-----------------------------------------------------------------------------
Goto(b, pc) == send' = [send EXCEPT ![b].pc = pc]

(* Send is called for a client that was started; it waits for the mutex.   *)
MSend(b) ==
    /\ send[b].pc = "idle" /\ conn > 0
    /\ Goto(b, "lock")
    /\ UNCHANGED <<handler, elem, told, conn, link, wire, mutex, srv, listening,
                   passed, order, ticks>>

SendLock(b) ==
    /\ send[b].pc = "lock" /\ mutex = Nobody
    /\ mutex' = b
    /\ send' = [send EXCEPT ![b] = [pc |-> "first", conn |-> conn]]
    /\ order' = [order EXCEPT ![conn] = Append(@, b)]
    /\ UNCHANGED <<handler, elem, told, conn, link, wire, srv, listening,
                   passed, ticks>>

(* One write of Send; a failure unlocks, and is reported then.             *)
SendWrite(b, c, x, next) ==
    /\ \/ Written(c, x) /\ Goto(b, next)
          /\ mutex' = IF next = "ok" THEN Nobody ELSE mutex
       \/ WriteFails(c) /\ Goto(b, "report") /\ mutex' = Nobody
    /\ UNCHANGED <<handler, elem, told, conn, link, srv, listening, passed,
                   order, ticks>>

(* The writer belongs to the connection at the start, the probe goes to    *)
(* the one that client.conn is by then.                                    *)
SendFirst(b) == send[b].pc = "first" /\ SendWrite(b, send[b].conn, First(b), "rest")
SendRest(b) == send[b].pc = "rest" /\ SendWrite(b, send[b].conn, Rest(b), "probe")
SendProbe(b) == send[b].pc = "probe" /\ SendWrite(b, conn, Zero, "ok")

(* Mutant: nothing recovers from the closed reportChan *)
SendReportOnly(b) ==
    /\ send[b].pc = "report"
    /\ elem = "reading" /\ told' = TRUE
    /\ Goto(b, "err")
    /\ UNCHANGED <<handler, elem, conn, link, wire, mutex, srv, listening,
                   passed, order, ticks>>

(* PeerDisappeared goes to reportChan; when that is closed, the panic is   *)
(* recovered.                                                              *)
SendReport(b) ==
    /\ send[b].pc = "report"
    /\ \/ elem = "reading" /\ told' = TRUE
       \/ handler = "stopped" /\ UNCHANGED told
    /\ Goto(b, "err")
    /\ UNCHANGED <<handler, elem, conn, link, wire, mutex, srv, listening,
                   passed, order, ticks>>
-----------------------------------------------------------------------------
(* handleSender reads the next piece of the stream.                        *)
ServerRead(c) ==
    /\ srv[c].pc \in {"len", "body"} /\ wire[c] # <<>>
    /\ wire' = [wire EXCEPT ![c] = Tail(@)]
    /\ LET x == Head(wire[c]) IN
       srv' = [srv EXCEPT ![c] =
           CASE srv[c].pc = "len" /\ x = Zero -> srv[c]
             [] srv[c].pc = "len" /\ x.part = "first" ->
                    [pc |-> "body", bundle |-> x.bundle]
             [] srv[c].pc = "body" /\ x = Rest(srv[c].bundle) ->
                    [pc |-> "report", bundle |-> x.bundle]
             [] OTHER -> [pc |-> "garbled"]]
    /\ UNCHANGED <<handler, elem, told, conn, link, mutex, send, listening,
                   passed, order, ticks>>

(* The end of the stream.                                                  *)
ServerEof(c) ==
    /\ srv[c].pc \in {"len", "body"} /\ wire[c] = <<>> /\ link[c] # "up"
    /\ srv' = [srv EXCEPT ![c] = [pc |-> "gone"]]
    /\ UNCHANGED <<handler, elem, told, conn, link, wire, mutex, send,
                   listening, passed, order, ticks>>

(* The bundle goes to the server's reportChan, which its element reads.    *)
ServerReport(c) ==
    /\ srv[c].pc = "report" /\ listening
    /\ passed' = [passed EXCEPT ![c] = Append(@, srv[c].bundle)]
    /\ srv' = [srv EXCEPT ![c] = [pc |-> "len"]]
    /\ UNCHANGED <<handler, elem, told, conn, link, wire, mutex, send,
                   listening, order, ticks>>

(* The server is closed, and with it reportChan: a handleSender with a     *)
(* bundle panics, recovers and closes its connection.                      *)
ServerClose ==
    /\ NoFault
    /\ listening' = FALSE
    /\ UNCHANGED <<handler, elem, told, conn, link, wire, mutex, send, srv,
                   passed, order, ticks>>

ServerPanic(c) ==
    /\ srv[c].pc = "report" /\ ~listening
    /\ srv' = [srv EXCEPT ![c] = [pc |-> "gone"]]
    /\ link' = [link EXCEPT ![c] = IF @ = "up" THEN "cut" ELSE @]
    /\ wire' = [wire EXCEPT ![c] = <<>>]
    /\ UNCHANGED <<handler, elem, told, conn, mutex, send, listening, passed,
                   order, ticks>>

Client == \/ HandlerAppear \/ KeepaliveWrite \/ HandlerReport
          \/ HandlerStop \/ CloseReturns

Sending(b) == \/ SendLock(b) \/ SendFirst(b) \/ SendRest(b) \/ SendProbe(b)
              \/ SendReport(b)

Server(c) == \/ ServerRead(c) \/ ServerEof(c) \/ ServerReport(c) \/ ServerPanic(c)

MNext == \/ Cut \/ MStart \/ Keepalive \/ MClose \/ ServerClose \/ Client
         \/ \E b \in MBundles : MSend(b) \/ Sending(b)
         \/ \E c \in MConns : Server(c)

(* The steps that come by themselves: goroutines go on, and the manager    *)
(* closes a client that has reported PeerDisappeared.  One weak fairness   *)
(* for all of them is enough, as every step is bounded.                    *)
MProgress == \/ Client
             \/ told /\ MClose
             \/ \E b \in MBundles : Sending(b)
             \/ \E c \in MConns : Server(c)

MSpec == MInit /\ [][MNext]_mvars /\ WF_mvars(MProgress)
-----------------------------------------------------------------------------
(***************************************************************************)
(* Keepalives, probes and bundles of several Sends share a connection, and *)
(* the server still finds the bundles: it never reads garbage, and passes  *)
(* on the bundles in the order in which their Sends took the mutex, none   *)
(* left out and none twice.                                                *)
(***************************************************************************)
Framed ==
    \A c \in MConns : srv[c].pc # "garbled" /\ IsPrefix(passed[c], order[c])

(* The handler reports while the element that would read waits for it.     *)
Wedged == elem = "closing" /\ handler \in {"appear", "report"}

(***************************************************************************)
(* Every Send returns, also one that wants to report a failure when the    *)
(* client is closed or restarted; and a bundle whose Send succeeded is     *)
(* passed on by the server, unless a connection was cut or the server      *)
(* closed.  The exception is the handler that is stuck in reportChan when  *)
(* Close is called, from which neither Close nor a blocked Send returns.   *)
(***************************************************************************)
Faulty == ~listening \/ \E c \in MConns : link[c] = "cut"

MtcpEnds ==
    []<>(\A b \in MBundles :
            CASE send[b].pc \in {"idle", "err"} -> TRUE
              [] send[b].pc = "ok" ->
                    Faulty \/ \E c \in MConns : b \in ToSet(passed[c])
              [] OTHER -> Wedged)
=============================================================================
