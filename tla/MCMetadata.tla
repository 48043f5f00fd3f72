----------------------------- MODULE MCMetadata -----------------------------
(***************************************************************************)
(* The two routing algorithms whose nodes exchange metadata bundles, for   *)
(* TLC: RoutingConf.Algorithm chooses one of them when the node starts.    *)
(***************************************************************************)
EXTENDS LinkState

CONSTANTS a, b, c,      \* nodes, of which a and b are neighbours
          Peers, Destination, Runs, Scale, PInit, Beta, Gamma, Summaries,
          NoBundle

VARIABLES algorithm, connected, predictabilities, peerPredictabilities,
          item, expired, fwd, got, overwrote

pvars == <<connected, predictabilities, peerPredictabilities, item, expired, fwd,
           got, overwrote>>

P == INSTANCE Prophet

(* An item is a sent list, which the absence of one is not.                *)
ASSUME NoBundleAssumption == \A S \in SUBSET Peers : S # NoBundle

MCIncoming == {PeerData(a, 1, b :> 0),
               PeerData(a, 2, (b :> 1) @@ (c :> 0)),
               PeerData(Self, 1, b :> 0)}

(* RoutingConf.RoutingAlgorithm.                                           *)
MCInit == algorithm \in {"dtlsr", "prophet"} /\ Init /\ P!Init

(* Bound: PRoPHET is not followed after a lost update of the sent list, of *)
(* which its property says nothing.                                        *)
MCNext == \/ algorithm = "dtlsr" /\ Next /\ UNCHANGED <<algorithm, pvars>>
          \/ /\ algorithm = "prophet" /\ ~overwrote
             /\ P!Next /\ UNCHANGED <<algorithm, vars>>

MCSpec == /\ MCInit /\ [][MCNext]_<<algorithm, vars, pvars>>
          /\ Fairness

(* PRoPHET's sent list names no peer that is left out.                     *)
ProphetSentIsTrue == P!SentIsTrue
=============================================================================
