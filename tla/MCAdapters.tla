----------------------------- MODULE MCAdapters -----------------------------
(***************************************************************************)
(* The adapters of a node, for TLC: its convergence layers (MTCP, the      *)
(* sessions of TCPCLv4, broadcast), its application agents, the submission *)
(* of what they send, and a program that uses one of them.  They share no  *)
(* state; a behaviour is one of the part that is chosen.                   *)
(***************************************************************************)
EXTENDS Submission, RestAgent, Mtcp, Broadcast, TLC

CONSTANTS Parts,        \* the parts to be checked
          MaxDials, MaxTries,
          Pings, Webs, MaxDeliver, MaxSubmit,
          UserFiles, Incoming, Attempts, Nothing,
          n1, n2, b1, b2, b3, e1

VARIABLES part,
          tcp, toActive, toPassive, client, tries, stages, accepted, stage,
          timedOut,
          children, lock, mux, waiting, delivers, agent, inner, webConn, relay,
          manager, submits, shutdown,
          files, events, knownFiles, tool, bundleRead, writer, reader, net,
          toClient, offered, taken, givenUp

svars == <<tcp, toActive, toPassive, client, tries, stages, accepted, stage,
           timedOut>>
avars == <<children, lock, mux, waiting, delivers, agent, inner, webConn, relay,
           manager, submits, shutdown>>
xvars == <<files, events, knownFiles, tool, bundleRead, writer, reader, net,
           toClient, offered, taken, givenUp>>

(* Sequence numbers wrap within b1; b3 may meet the ids of n1.             *)
MCSource == (b1 :> n1) @@ (b2 :> n1) @@ (b3 :> n2)
MCSize == (b1 :> 3) @@ (b2 :> 1) @@ (b3 :> 1)
MCFirstTids == {(n1 :> t) @@ (n2 :> 0) : t \in 0..1}

(* A ping agent must have an answer with its relay, one under way and one  *)
(* bundle more for the two directions to wait for each other.              *)
MCMaxDeliver == [k \in Pings \union Webs |-> IF k \in Pings THEN 3 ELSE 1]

MCTo == (b1 :> e1) @@ (b2 :> e1)

S == INSTANCE Session
A == INSTANCE Agents
X == INSTANCE Exchange

MCInit == /\ part \in Parts
          /\ MInit /\ S!SInit /\ BInit /\ A!AInit /\ RInit
          /\ X!XInit /\ Init
          /\ part # "broadcast" => tid[n1] = 0

MCNext ==
    /\ UNCHANGED part
    /\ \/ part = "mtcp" /\ MNext
          /\ UNCHANGED <<svars, bvars, avars, rvars, xvars, vars>>
       \/ part = "session" /\ S!SNext
          /\ UNCHANGED <<mvars, bvars, avars, rvars, xvars, vars>>
       \/ part = "broadcast" /\ BNext
          /\ UNCHANGED <<mvars, svars, avars, rvars, xvars, vars>>
       \/ part = "agents" /\ A!ANext
          /\ UNCHANGED <<mvars, svars, bvars, rvars, xvars, vars>>
       \/ part = "rest" /\ RNext
          /\ UNCHANGED <<mvars, svars, bvars, avars, xvars, vars>>
       \/ part = "exchange" /\ X!XNext
          /\ UNCHANGED <<mvars, svars, bvars, avars, rvars, vars>>
       \/ part = "submission" /\ Next
          /\ UNCHANGED <<mvars, svars, bvars, avars, rvars, xvars>>

MCSpec == /\ MCInit
          /\ [][MCNext]_<<part, mvars, svars, bvars, avars, rvars, xvars, vars>>
          /\ WF_mvars(part = "mtcp" /\ MProgress)
          /\ WF_svars(part = "session" /\ S!SProgress)
          /\ WF_avars(part = "agents" /\ A!AProgress)
          /\ WF_xvars(part = "exchange" /\ X!XProgress)

(* The ends of a TCPCLv4 connection meet.                                  *)
SessionsMeet == S!SessionsMeet

(* No TCPCLv4 session lasts that only one end knows of.                    *)
NoGhost == S!NoGhost

(* The mux of agents comes back to the next message.                       *)
MuxServes == A!MuxServes

(* dtn-tool exchange carries the bundles of both sides over, once.         *)
Exchanged == X!Exchanged
=============================================================================
