------------------------ MODULE MCCaptureSupervisor ------------------------
(***************************************************************************)
(* Instances for TLC of the supervisor of the sources (CaptureSupervisor)  *)
(* and of the alerts raised by what the sources hear and by the fixes of   *)
(* the location pump (ZoneAlerts).  They share no variable; a part stands  *)
(* still while the other moves, and the state graph is the disjoint union  *)
(* of theirs.                                                              *)
(***************************************************************************)
EXTENDS CaptureSupervisor, TLC

CONSTANTS Parts,                                                      \* the components that may move
          Ingests, AlertMethods, Watched, Nowhere, MaxCalls, MaxUpsets \* Crossings

VARIABLES
    part,
    enabled, inside, alert_op, written, sent, stored, seen, calls, edits, alert_faults

\* With its theorems, for CaptureSupervisorProofs to cite.
Crossings == INSTANCE ZoneAlertsProofs WITH
    Methods <- AlertMethods, op <- alert_op, faults <- alert_faults

ASSUME AlertsAreSound == Crossings!AlertsAssumption

alertVars ==
    <<enabled, inside, alert_op, written, sent, stored, seen, calls, edits, alert_faults>>

PartsInit == part \in Parts /\ Init /\ Crossings!Init

PartsNext ==
    /\ UNCHANGED part
    /\ \/ part = "capture" /\ Next /\ UNCHANGED alertVars
       \/ part = "alerts" /\ Crossings!Next /\ UNCHANGED vars

PartsSpec == PartsInit /\ [][PartsNext]_<<part, vars, alertVars>>

\* For liveness: with the capture alone, the fairness is the supervisor's own.
FairPartsSpec == PartsSpec /\ Fairness

\* The location sources, the clients and the ingests are interchangeable; slots are
\* numbers and are not.
Symmetry == Permutations(Gps) \cup Permutations(Clients) \cup Permutations(Ingests)

\* ZoneAlerts': the host's visits alternate; nobody is told of a crossing that was not one;
\* every crossing reaches every channel that is on, and none that is off.
CrossingsAreTold == Crossings!CrossingsAreTold
=============================================================================
