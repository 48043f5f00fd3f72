------------------------------ MODULE Session ------------------------------
(***************************************************************************)
(* How a TCPCLv4 session comes and goes (pkg/cla/tcpclv4): the client that *)
(* dials and the one that the listener makes for each connection run the   *)
(* stages of the handshake against each other, and their CLA managers      *)
(* start, retry and close them.                                            *)
(*                                                                         *)
(* Start gives up after a while, but nobody stops its StageHandler, and    *)
(* the message switch stays: the next Start of the dialing client uses the *)
(* old connection again, and two StageHandlers take messages from it.  It  *)
(* also forgets how to close it.                                           *)
(***************************************************************************)
EXTENDS Naturals, Sequences, FiniteSets

CONSTANTS MaxDials,     \* bound: connections
          MaxTries      \* bound: Starts of the dialing client

VARIABLES tcp,          \* connection -> its state
          toActive, toPassive,  \* connection -> messages on their way
          client,       \* the dialing Client
          tries,        \* its Starts so far
          stages,       \* Start -> its StageHandler
          accepted,     \* connection -> the Client of the listener
          stage,        \* connection -> its StageHandler
          timedOut      \* history: a Start has given up

svars == <<tcp, toActive, toPassive, client, tries, stages, accepted, stage,
           timedOut>>

SConns == 1..MaxDials
Tries == 1..MaxTries

(***************************************************************************)
(* ContactStage and SessInitStage: who sends first.  The places of a       *)
(* StageHandler are the steps of its script, and then the hook in which it *)
(* wakes up Start, SessEstablishedStage, and its end.                      *)
(***************************************************************************)
Out(m) == [do |-> "out", msg |-> m]
In(m) == [do |-> "in", msg |-> m]

(* Mutant: the active end waits for SESS_INIT, too *)
ActiveWaits ==
    <<Out("CONTACT"), In("CONTACT"), In("SESS_INIT"), Out("SESS_INIT")>>

Active == <<Out("CONTACT"), In("CONTACT"), Out("SESS_INIT"), In("SESS_INIT")>>
Passive == <<In("CONTACT"), Out("CONTACT"), In("SESS_INIT"), Out("SESS_INIT")>>

Hook == 5
Established == 6
Ended == 7

NoClient == [pc |-> "idle", conn |-> 0, closer |-> FALSE]

SInit == /\ tcp = [c \in SConns |-> "none"]
         /\ toActive = [c \in SConns |-> <<>>]
         /\ toPassive = [c \in SConns |-> <<>>]
         /\ client = NoClient
         /\ tries = 0
         /\ stages = [k \in Tries |-> [at |-> Ended, conn |-> 0]]
         /\ accepted = [c \in SConns |-> "none"]
         /\ stage = [c \in SConns |-> Ended]
         /\ timedOut = FALSE

(* A message that is put on the wire while there is one.                   *)
Put(queue, c, m) ==
    IF tcp[c] = "up" THEN [queue EXCEPT ![c] = Append(@, m)] ELSE queue

Taken(queue, c) == [queue EXCEPT ![c] = Tail(@)]

After(at, s, m) == IF m = s.msg THEN at + 1 ELSE Ended
-----------------------------------------------------------------------------
(* Start of the dialing client: customStartFunc dials if there is no       *)
(* message switch, and a new StageHandler begins.  The listener accepts,   *)
(* and its manager starts the new Client.  connCloser is set by dialing.   *)
StartOn(c, dialed) ==
    /\ tries' = tries + 1
    /\ client' = [pc |-> "wait", conn |-> c, closer |-> dialed]
    /\ stages' = [stages EXCEPT ![tries + 1] = [at |-> 1, conn |-> c]]

Dial ==
    LET c == 1 + Cardinality({d \in SConns : tcp[d] # "none"}) IN
    /\ client = NoClient
    /\ c \in SConns /\ tries < MaxTries
    /\ StartOn(c, TRUE)
    /\ tcp' = [tcp EXCEPT ![c] = "up"]
    /\ accepted' = [accepted EXCEPT ![c] = "wait"]
    /\ stage' = [stage EXCEPT ![c] = 1]
    /\ UNCHANGED <<toActive, toPassive, timedOut>>

StartAgain ==
    /\ client.pc = "idle" /\ client.conn # 0
    /\ tries < MaxTries
    /\ StartOn(client.conn, FALSE)
    /\ UNCHANGED <<tcp, toActive, toPassive, accepted, stage, timedOut>>

(* Start has waited for 15 seconds: an error, and another try later; the   *)
(* Client of a listener refuses to be started again.                       *)
StartTimeout ==
    /\ client.pc = "wait"
    /\ client' = [client EXCEPT !.pc = "idle"]
    /\ timedOut' = TRUE
    /\ UNCHANGED <<tcp, toActive, toPassive, tries, stages, accepted, stage>>

AcceptedTimeout(c) ==
    /\ accepted[c] = "wait"
    /\ accepted' = [accepted EXCEPT ![c] = "failed"]
    /\ timedOut' = TRUE
    /\ UNCHANGED <<tcp, toActive, toPassive, client, tries, stages, stage>>
-----------------------------------------------------------------------------
(* StageHandler.handler: one step of ContactStage or SessInitStage.        *)
ActiveStage(k) ==
    LET at == stages[k].at
        c  == stages[k].conn
    IN  /\ at < Hook
        /\ \/ /\ Active[at].do = "out"
              /\ toPassive' = Put(toPassive, c, Active[at].msg)
              /\ stages' = [stages EXCEPT ![k].at = at + 1]
              /\ UNCHANGED toActive
           \/ /\ Active[at].do = "in" /\ toActive[c] # <<>>
              /\ toActive' = Taken(toActive, c)
              /\ stages' = [stages EXCEPT ![k].at =
                               After(at, Active[at], Head(toActive[c]))]
              /\ UNCHANGED toPassive
        /\ UNCHANGED <<tcp, client, tries, accepted, stage, timedOut>>

PassiveStage(c) ==
    LET at == stage[c]
    IN  /\ at < Hook
        /\ \/ /\ Passive[at].do = "out"
              /\ toActive' = Put(toActive, c, Passive[at].msg)
              /\ stage' = [stage EXCEPT ![c] = at + 1]
              /\ UNCHANGED toPassive
           \/ /\ Passive[at].do = "in" /\ toPassive[c] # <<>>
              /\ toPassive' = Taken(toPassive, c)
              /\ stage' = [stage EXCEPT ![c] =
                              After(at, Passive[at], Head(toPassive[c]))]
              /\ UNCHANGED toActive
        /\ UNCHANGED <<tcp, client, tries, stages, accepted, timedOut>>

(* The PreHook of SessEstablishedStage and the Start that waits for it,    *)
(* which reports PeerAppeared.                                             *)
ActiveUp ==
    /\ client.pc = "wait" /\ stages[tries].at = Hook
    /\ client' = [client EXCEPT !.pc = "up"]
    /\ stages' = [stages EXCEPT ![tries].at = Established]
    /\ UNCHANGED <<tcp, toActive, toPassive, tries, accepted, stage, timedOut>>

PassiveUp(c) ==
    /\ accepted[c] = "wait" /\ stage[c] = Hook
    /\ accepted' = [accepted EXCEPT ![c] = "up"]
    /\ stage' = [stage EXCEPT ![c] = Established]
    /\ UNCHANGED <<tcp, toActive, toPassive, client, tries, stages, timedOut>>

(* handleMsgIn: SESS_TERM is answered, and anything of a handshake is an   *)
(* error, of the stage or of the TransferManager.                          *)
ActiveMessage(k) ==
    LET c == stages[k].conn IN
    /\ stages[k].at = Established /\ toActive[c] # <<>>
    /\ toActive' = Taken(toActive, c)
    /\ toPassive' = IF Head(toActive[c]) = "SESS_TERM"
                    THEN Put(toPassive, c, "SESS_TERM") ELSE toPassive
    /\ stages' = [stages EXCEPT ![k].at = Ended]
    /\ UNCHANGED <<tcp, client, tries, accepted, stage, timedOut>>

PassiveMessage(c) ==
    /\ stage[c] = Established /\ toPassive[c] # <<>>
    /\ toPassive' = Taken(toPassive, c)
    /\ toActive' = IF Head(toPassive[c]) = "SESS_TERM"
                   THEN Put(toActive, c, "SESS_TERM") ELSE toActive
    /\ stage' = [stage EXCEPT ![c] = Ended]
    /\ UNCHANGED <<tcp, client, tries, stages, accepted, timedOut>>
-----------------------------------------------------------------------------
(* Mutant: a session without keepalives goes on *)
StalledNever(c) == FALSE

(* handleKeepalive: nothing comes from an end without an established stage.*)
StalledPassive(c) ==
    ~ \E k \in Tries : stages[k] = [at |-> Established, conn |-> c]

StalledActive(c) == stage[c] # Established

(***************************************************************************)
(* The end of Client.handle: PeerDisappeared is reported, all parts and,   *)
(* with a connCloser, the connection are closed; without one it stays open *)
(* and is read and written no more.  The closed stage still says           *)
(* SESS_TERM, if the message switch, closed as well, is not faster.        *)
(***************************************************************************)
ActiveEnd ==
    LET c == client.conn IN
    /\ client.pc = "up"
    /\ client' = NoClient
    /\ stages' = [stages EXCEPT ![tries].at = Ended]
    /\ tcp' = [tcp EXCEPT ![c] =
                  IF @ = "up" /\ ~client.closer THEN "mute" ELSE "closed"]
    /\ toPassive' \in {toPassive, Put(toPassive, c, "SESS_TERM")}
    /\ UNCHANGED <<toActive, tries, accepted, stage, timedOut>>

PassiveEnd(c) ==
    /\ accepted[c] = "up"
    /\ accepted' = [accepted EXCEPT ![c] = "gone"]
    /\ stage' = [stage EXCEPT ![c] = Ended]
    /\ tcp' = [tcp EXCEPT ![c] = "closed"]
    /\ toActive' \in {toActive, Put(toActive, c, "SESS_TERM")}
    /\ UNCHANGED <<toPassive, client, tries, stages, timedOut>>

(* When handle must end: an error of the stage, of the message switch      *)
(* (EOF), or of the keepalive; Close may end it at any time.               *)
ActiveOver == \/ stages[tries].at = Ended
              \/ tcp[client.conn] = "closed" /\ toActive[client.conn] = <<>>
              \/ StalledActive(client.conn)

PassiveOver(c) == \/ stage[c] = Ended
                  \/ tcp[c] = "closed" /\ toPassive[c] = <<>>
                  \/ StalledPassive(c)

(* The network cuts a connection.                                          *)
CutTcp(c) ==
    /\ tcp[c] \in {"up", "mute"}
    /\ tcp' = [tcp EXCEPT ![c] = "closed"]
    /\ toActive' = [toActive EXCEPT ![c] = <<>>]
    /\ toPassive' = [toPassive EXCEPT ![c] = <<>>]
    /\ UNCHANGED <<client, tries, stages, accepted, stage, timedOut>>

SNext == \/ Dial \/ StartAgain \/ StartTimeout \/ ActiveUp \/ ActiveEnd
         \/ \E k \in Tries : ActiveStage(k) \/ ActiveMessage(k)
         \/ \E c \in SConns : \/ AcceptedTimeout(c) \/ PassiveStage(c)
                              \/ PassiveUp(c) \/ PassiveMessage(c)
                              \/ PassiveEnd(c) \/ CutTcp(c)

(* The steps that come by themselves: goroutines go on, and handle ends    *)
(* when it has to.  No result relies on a Start that gives up.  One weak   *)
(* fairness for all of them is enough, as every step is bounded.           *)
SProgress ==
    \/ ActiveUp
    \/ client.pc = "up" /\ ActiveOver /\ ActiveEnd
    \/ \E k \in Tries : ActiveStage(k) \/ ActiveMessage(k)
    \/ \E c \in SConns : \/ PassiveStage(c) \/ PassiveMessage(c) \/ PassiveUp(c)
                         \/ PassiveOver(c) /\ PassiveEnd(c)

SSpec == SInit /\ [][SNext]_svars /\ WF_svars(SProgress)
-----------------------------------------------------------------------------
IsUp(c) == client.pc = "up" /\ client.conn = c

(***************************************************************************)
(* The two ends of a connection meet: unless a Start gives up or the       *)
(* connection ends, both finish the handshake and report PeerAppeared.     *)
(***************************************************************************)
SessionsMeet ==
    []<>(\A c \in SConns : tcp[c] = "up" => \/ IsUp(c) /\ accepted[c] = "up"
                                            \/ timedOut)

(***************************************************************************)
(* No session lasts that only one end knows of: an end that has reported   *)
(* PeerAppeared meets the other one, or reports PeerDisappeared in the     *)
(* end, also when it was the leftover StageHandler of a Start that had     *)
(* given up with which it shook hands.                                     *)
(***************************************************************************)
NoGhost == []<>(\A c \in SConns : accepted[c] = "up" <=> IsUp(c))
=============================================================================
