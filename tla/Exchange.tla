------------------------------ MODULE Exchange ------------------------------
(***************************************************************************)
(* dtn-tool exchange (cmd/dtn-tool/exchange.go): bundles that somebody     *)
(* puts into a directory are sent to a node, and bundles from the node are *)
(* saved there, through a WebSocketAgentConnector                          *)
(* (pkg/agent/ws_agent_connector.go).                                      *)
(*                                                                         *)
(* Four goroutines: exchange.handler and handleBundleRead of the tool,     *)
(* handler and handleReader of the connector.  Their channels are          *)
(* unbuffered: a send is a step of both sides.  What the tool saves and    *)
(* what a user creates makes the same events.  Events other than the       *)
(* creation of a file have no effect.                                      *)
(***************************************************************************)
EXTENDS Naturals, Sequences, FiniteSets

CONSTANTS UserFiles,    \* files of the user, each with a bundle of its own
          Incoming,     \* bundles from the node, named like their files
          Attempts,     \* how often readNewFile tries to read a file
          Nothing

VARIABLES files,        \* file -> its contents: absent, partly or complete
          events,       \* watcher.Events
          knownFiles,
          tool,         \* exchange.handler: its place, file and attempts
          bundleRead,   \* handleBundleRead: its place and bundle
          writer,       \* connector.handler: its place and message
          reader,       \* connector.handleReader: its place and bundle
          net,          \* the connection: up, or cut
          toClient,     \* messages of the node under way
          offered,      \* history: bundles the node has sent
          taken,        \* history: bundles the node has got, in order
          givenUp       \* history: files that could not be read or written

xvars == <<files, events, knownFiles, tool, bundleRead, writer, reader, net,
           toClient, offered, taken, givenUp>>

At(pc, what) == [pc |-> pc, what |-> what]

Select == [pc |-> "select", what |-> Nothing, i |-> 0]
Stopped == [Select EXCEPT !.pc = "ended"]

(* A connection that registerEndpoint has set up.                          *)
Connector == /\ writer = At("select", Nothing)
             /\ reader = At("read", Nothing)
             /\ net = "up"
             /\ toClient = <<>>

XInit == /\ files = [f \in UserFiles \union Incoming |-> "absent"]
         /\ events = <<>>
         /\ knownFiles = {}
         /\ tool = Select
         /\ bundleRead = At("read", Nothing)
         /\ Connector
         /\ offered = {}
         /\ taken = <<>>
         /\ givenUp = {}
-----------------------------------------------------------------------------
(* A user writes a file, at once or little by little.                      *)
UserWrites(f) ==
    /\ files[f] # "complete"
    /\ \E c \in {"partly", "complete"} \ {files[f]} :
          files' = [files EXCEPT ![f] = c]
    /\ events' = IF files[f] = "absent" THEN Append(events, f) ELSE events
    /\ UNCHANGED <<knownFiles, tool, bundleRead, writer, reader, net, toClient,
                   offered, taken, givenUp>>

(* exchange.handler takes an event, and leaves a known file alone.         *)
HandleEvent ==
    /\ tool.pc = "select" /\ events # <<>>
    /\ events' = Tail(events)
    /\ tool' = IF Head(events) \in knownFiles THEN tool
               ELSE [pc |-> "open", what |-> Head(events), i |-> 0]
    /\ UNCHANGED <<files, knownFiles, bundleRead, writer, reader, net, toClient,
                   offered, taken, givenUp>>

(* readNewFile: what is not a whole bundle is tried again after a while.   *)
ReadNewFile ==
    /\ tool.pc = "open"
    /\ tool' = CASE files[tool.what] = "complete" -> [tool EXCEPT !.pc = "out"]
                 [] files[tool.what] # "complete" /\ tool.i + 1 < Attempts ->
                        [tool EXCEPT !.i = @ + 1]
                 [] OTHER -> Select
    /\ givenUp' = IF tool'.pc = "select" THEN givenUp \union {tool.what}
                  ELSE givenUp
    /\ UNCHANGED <<files, events, knownFiles, bundleRead, writer, reader, net,
                   toClient, offered, taken>>

(* WriteBundle: msgOutChan, and later msgOutErr; an error is logged.       *)
WriteBundle ==
    /\ tool.pc = "out" /\ writer.pc = "select"
    /\ writer' = At("write", tool.what)
    /\ tool' = [tool EXCEPT !.pc = "err"]
    /\ UNCHANGED <<files, events, knownFiles, bundleRead, reader, net, toClient,
                   offered, taken, givenUp>>

WriteBundleReturns ==
    /\ tool.pc = "err" /\ writer.pc = "reply"
    /\ writer' = At("select", Nothing)
    /\ tool' = Select
    /\ UNCHANGED <<files, events, knownFiles, bundleRead, reader, net, toClient,
                   offered, taken, givenUp>>

(* connector.handler: writeMessage.  What is written may still get lost    *)
(* with the connection.                                                    *)
WriteMessage ==
    /\ writer.pc = "write"
    /\ writer' = At("reply", writer.what)
    /\ \/ net = "up" /\ taken' = Append(taken, writer.what)
       \/ net = "cut" /\ UNCHANGED taken
    /\ UNCHANGED <<files, events, knownFiles, tool, bundleRead, reader, net,
                   toClient, offered, givenUp>>
-----------------------------------------------------------------------------
(* The node sends a bundle; the connection breaks, with what is under way. *)
Offer(b) ==
    /\ b \notin offered /\ net = "up"
    /\ offered' = offered \union {b}
    /\ toClient' = Append(toClient, b)
    /\ UNCHANGED <<files, events, knownFiles, tool, bundleRead, writer, reader,
                   net, taken, givenUp>>

CutNet ==
    /\ net = "up"
    /\ net' = "cut"
    /\ toClient' = <<>>
    /\ UNCHANGED <<files, events, knownFiles, tool, bundleRead, writer, reader,
                   offered, taken, givenUp>>

(* handleReader: the next message, or an error, after which both channels  *)
(* are closed.                                                             *)
HandleReader ==
    /\ reader.pc = "read"
    /\ \/ /\ toClient # <<>>
          /\ reader' = At("pass", Head(toClient))
          /\ toClient' = Tail(toClient)
       \/ /\ net = "cut"
          /\ reader' = At("closed", Nothing)
          /\ UNCHANGED toClient
    /\ UNCHANGED <<files, events, knownFiles, tool, bundleRead, writer, net,
                   offered, taken, givenUp>>

(* ReadBundle of handleBundleRead: msgInBundleChan, or that it is closed.  *)
ReadBundle ==
    /\ bundleRead.pc = "read"
    /\ \/ /\ reader.pc = "pass"
          /\ bundleRead' = At("pass", reader.what)
          /\ reader' = At("read", Nothing)
       \/ /\ reader.pc = "closed"
          /\ bundleRead' = At("closed", Nothing)
          /\ UNCHANGED reader
    /\ UNCHANGED <<files, events, knownFiles, tool, writer, net, toClient,
                   offered, taken, givenUp>>

(* Mutant: the saved file is not remembered *)
SaveUnknown ==
    /\ tool.pc = "select" /\ bundleRead.pc = "pass"
    /\ files' = [files EXCEPT ![bundleRead.what] = "complete"]
    /\ events' = Append(events, bundleRead.what)
    /\ bundleRead' = At("read", Nothing)
    /\ UNCHANGED <<knownFiles, tool, writer, reader, net, toClient, offered,
                   taken, givenUp>>

(* exchange.handler takes a bundle, saves it and remembers the file, also  *)
(* one that it failed to write; no event is taken in between.              *)
Save ==
    /\ tool.pc = "select" /\ bundleRead.pc = "pass"
    /\ \E ok \in BOOLEAN :
          /\ files' = [files EXCEPT ![bundleRead.what] =
                           IF ok THEN "complete" ELSE "partly"]
          /\ givenUp' = IF ok THEN givenUp ELSE givenUp \union {bundleRead.what}
    /\ events' = Append(events, bundleRead.what)
    /\ knownFiles' = knownFiles \union {bundleRead.what}
    /\ bundleRead' = At("read", Nothing)
    /\ UNCHANGED <<tool, writer, reader, net, toClient, offered, taken>>

(* exchange.handler returns: a signal, an error of the watcher, a file     *)
(* that cannot be created, or the channel of bundles is closed.            *)
Interrupt ==
    /\ tool.pc = "select"
    /\ tool' = [Select EXCEPT !.pc = "close"]
    /\ UNCHANGED <<files, events, knownFiles, bundleRead, writer, reader, net,
                   toClient, offered, taken, givenUp>>

ReaderClosed == bundleRead.pc = "closed" /\ Interrupt

(* Close of the connector, which its handler answers, and the process ends.*)
CloseConnector ==
    /\ tool.pc = "close" /\ writer.pc = "select"
    /\ writer' = At("closed", Nothing)
    /\ tool' = Stopped
    /\ net' = "cut" /\ toClient' = <<>>
    /\ UNCHANGED <<files, events, knownFiles, bundleRead, reader, offered,
                   taken, givenUp>>

XProgress == \/ HandleEvent \/ ReadNewFile \/ WriteBundle \/ WriteMessage
             \/ WriteBundleReturns \/ HandleReader \/ ReadBundle \/ Save
             \/ ReaderClosed \/ CloseConnector

XNext == XProgress \/ Interrupt \/ CutNet
         \/ (\E f \in UserFiles : UserWrites(f)) \/ (\E b \in Incoming : Offer(b))

(* The goroutines go on; each of their steps is one of finitely many.      *)
XSpec == XInit /\ [][XNext]_xvars /\ WF_xvars(XProgress)
-----------------------------------------------------------------------------
(* The user's bundles that the tool can send.                              *)
Readable == {f \in UserFiles : files[f] = "complete"} \ givenUp

(***************************************************************************)
(* Until the tool ends, which it does when the connection is lost, the     *)
(* node gets exactly the bundles of the user, each of them once and none   *)
(* of its own, and the directory gets all bundles of the node, but for the *)
(* files that cannot be read or written.  It takes four goroutines to get  *)
(* there, and the same events for both directions.                         *)
(***************************************************************************)
Exchanged ==
    []<>(\/ tool.pc = "ended"
         \/ /\ net = "up"
            /\ {taken[k] : k \in 1..Len(taken)} = Readable
            /\ Len(taken) = Cardinality(Readable)
            /\ \A b \in offered \ givenUp : files[b] = "complete")
=============================================================================
