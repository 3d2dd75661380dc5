------------------------------ MODULE MCReturns -------------------------------
(*****************************************************************************)
(* Instances for TLC of what must end: an enrollment under an old key, and   *)
(* the calls that start and stop a radio. They share no variable; the state  *)
(* graph is the disjoint union of theirs, and each has the fairness of its   *)
(* own module.                                                               *)
(*****************************************************************************)
EXTENDS Naturals, TLC

CONSTANTS
    Parts, NoKey, NoId, Nobody, n1, k1, k2, o1, s1, s2, frontgate, c1, c2

VARIABLES
    part,
    rows, window, node_key, enrolls, approvals, claimed, opened, rekeys,
    mode, up, plugged, call, lock, handle, running, capture, hopper, queue, rx, stopped, faults,
    deaths,
    active, caller, reason, bluetooth_running, thread, ready, scanning, scanned, failedAt,
    busTime, waited, starts

Enrollment == INSTANCE SensorEnrollment WITH
    Ids <- {frontgate}, Nodes <- {n1}, Claims <- [n \in {n1} |-> frontgate], Keys <- {k1, k2},
    Slots <- {s1, s2}, Operators <- {o1}, MaxRekeys <- 1

Radio == INSTANCE MonitorRadio WITH
    Capturers <- {c1, c2}, Channel <- 2, MaxFaults <- 1, MaxDeaths <- 1

Bluetooth == INSTANCE BluetoothStart WITH
    MaxStarts <- 3, StartupTimeout <- 5, ActivateTimeout <- 2, BusAnswers <- TRUE,
    running <- bluetooth_running

enrollmentVars ==
    <<rows, window, node_key, enrolls, approvals, claimed, opened, rekeys>>

radioVars ==
    <<mode, up, plugged, call, lock, handle, running, capture, hopper, queue, rx, stopped,
      faults, deaths>>

bluetoothVars ==
    <<active, caller, reason, bluetooth_running, thread, ready, scanning, scanned, failedAt,
      busTime, waited, starts>>

vars == <<part, enrollmentVars, radioVars, bluetoothVars>>

\* One component moves; the others stay where one of their initial states has them.
Init ==
    /\ part \in Parts
    /\ Enrollment!Init /\ node_key[n1] = k1
    /\ Radio!Init
    /\ Bluetooth!Init /\ (part # "bluetooth" => active)

Next ==
    /\ UNCHANGED part
    /\ \/ part = "enrollment" /\ Enrollment!Next /\ UNCHANGED <<radioVars, bluetoothVars>>
       \/ part = "radio" /\ Radio!Next /\ UNCHANGED <<enrollmentVars, bluetoothVars>>
       \/ part = "bluetooth" /\ Bluetooth!Next /\ UNCHANGED <<enrollmentVars, radioVars>>

EnrollmentFairness ==
    /\ WF_enrollmentVars(part = "enrollment" /\ \E s \in {s1, s2} : Enrollment!Send(n1, s))
    /\ SF_enrollmentVars(part = "enrollment" /\ \E s \in {s1, s2} : Enrollment!ReadRow(n1, s))
    /\ SF_enrollmentVars(part = "enrollment" /\ \E s \in {s1, s2} : Enrollment!Gate(n1, s))
    /\ SF_enrollmentVars(part = "enrollment" /\ \E s \in {s1, s2} : Enrollment!UpdatePendingFingerprint(n1, s))

RadioFairness ==
    \A i \in {c1, c2} :
        /\ WF_radioVars(part = "radio" /\ Radio!Calls(i))
        /\ WF_radioVars(part = "radio" /\ Radio!Hop(i))
        /\ WF_radioVars(part = "radio" /\ (Radio!ReadPacket(i) \/ Radio!TimeoutExpired(i)))
        /\ WF_radioVars(part = "radio" /\ Radio!BlockingSend(i))
        /\ WF_radioVars(part = "radio" /\ Radio!Drain(i))

BluetoothFairness ==
    /\ WF_bluetoothVars(part = "bluetooth" /\ Bluetooth!Tick)
    /\ WF_bluetoothVars(part = "bluetooth" /\ (Bluetooth!StartSucceeds \/ Bluetooth!StartFails))
    /\ WF_bluetoothVars(part = "bluetooth" /\ Bluetooth!Reap)
    /\ WF_bluetoothVars(part = "bluetooth" /\ Bluetooth!Join)
    /\ WF_bluetoothVars(part = "bluetooth" /\ Bluetooth!Local)
    /\ WF_bluetoothVars(part = "bluetooth" /\ Bluetooth!BusCall)

Fairness == EnrollmentFairness /\ RadioFairness /\ BluetoothFairness

Spec == Init /\ [][Next]_vars /\ Fairness

-----------------------------------------------------------------------------
(* Properties. *)

\* SensorEnrollment's: a node that keeps its key and meets an open window again and
\* again is not left pending under another key for ever.
PendingFollowsNode == part = "enrollment" => Enrollment!PendingFollowsNode

\* A stop of the monitor radio ends, however full the channel its thread writes to; a
\* start and a stop of the Bluetooth scan end on a bus that answers.
CallsReturn ==
    /\ part = "radio" => Radio!StopReturns
    /\ part = "bluetooth" => Bluetooth!CallsReturn
=============================================================================
