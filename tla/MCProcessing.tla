--------------------------- MODULE MCProcessing ---------------------------
(***************************************************************************)
(* Processing for TLC: one bundle of each kind, of which one appears at a  *)
(* time, or two that have to do with each other.                           *)
(***************************************************************************)
EXTENDS Processing, TLC

CONSTANTS relay, past, local, own, far, direct, report, mine, drop, alien, broken, p1, p2

Plain == [dest |-> "away", own |-> FALSE, prev |-> FALSE, hops |-> FALSE, drop |-> FALSE,
          foreign |-> FALSE, admin |-> "no", refers |-> {}, wants |-> {}]

(* relay, past: for some other node.  local: for an agent of this node,    *)
(* wants a delivery report.  own: of one of this node's agents.  far: at   *)
(* its hop limit.  direct: for the neighbour p1.  report: a status report  *)
(* for some other node that says past was delivered; mine: one for this    *)
(* node.                                                                   *)
(* drop: has an unknown block that demands deletion.  alien: submitted     *)
(* with a foreign source.  broken: a broken administrative record.         *)
Headers ==
    (relay :> Plain) @@ (past :> Plain)
    @@ (local :> [Plain EXCEPT !.dest = "agent", !.wants = {"delivered"}])
    @@ (own :> [Plain EXCEPT !.own = TRUE, !.prev = TRUE])
    @@ (far :> [Plain EXCEPT !.hops = TRUE, !.prev = TRUE])
    @@ (direct :> [Plain EXCEPT !.dest = p1])
    @@ (report :> [Plain EXCEPT !.admin = "report", !.refers = {past}])
    @@ (mine :> [Plain EXCEPT !.dest = "here", !.admin = "report", !.refers = {past}])
    @@ (drop :> [Plain EXCEPT !.drop = TRUE, !.wants = Status])
    @@ (alien :> [Plain EXCEPT !.own = TRUE, !.foreign = TRUE])
    @@ (broken :> [Plain EXCEPT !.dest = "here", !.admin = "bad"])

MCHeader == [b \in Bundle |-> Headers[b]]

Mixed == {{b} : b \in Bundle} \cup (IF past \in Bundle THEN {{past, report}, {past, mine}} ELSE {})

Bounds(b) == [rx |-> CASE b \in {relay, local} -> 2 [] b \in {own, alien} -> 0 [] OTHER -> 1,
              crash |-> IF b \in {own, far, drop, alien, broken} THEN 1 ELSE 0,
              agents |-> b \in {local, mine},
              cron |-> b \notin {own, past, report, mine},
              links |-> b # local,
              expires |-> b \notin {relay, local}]

MCBound == [b \in Bundle |-> Bounds(b)]
RepeatedBound == [b \in Bundle |-> [Bounds(b) EXCEPT !.rx = 3]]
SerialBound == [b \in Bundle |-> [Bounds(b) EXCEPT !.rx = 1, !.crash = 0, !.cron = TRUE,
                                                   !.links = TRUE, !.expires = b # direct]]
=============================================================================
