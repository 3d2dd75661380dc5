---------------------------- MODULE MonitorRadio ----------------------------
(* A Wi-Fi interface and the monitor-mode capturers that the supervisor     *)
(* starts on it (capture/wifi/monitor.rs, and how api/capture.rs calls it). *)
(* A start sets monitor mode by three commands, opens the device and leaves *)
(* two threads behind, one that reads packets and one that hops channels; a *)
(* stop joins both and restores managed mode.  A start runs on the blocking *)
(* pool: a request that is dropped lets go of the lock, and the start goes  *)
(* on without it.                                                           *)
EXTENDS Naturals, FiniteSets

CONSTANTS
    Capturers,   \* incarnations, one for each start
    Nobody,      \* no incarnation
    Channel,     \* capacity of the channel to the reader
    MaxFaults,   \* bound: commands that fail, requests that are dropped
    MaxDeaths    \* bound: times the device goes

RadioAssumption == Nobody \notin Capturers /\ {Channel, MaxFaults, MaxDeaths} \subseteq Nat

VARIABLES
    mode, up,    \* the interface
    plugged,     \* the device is there
    call,        \* where the start or stop of each incarnation is
    lock,        \* the incarnation whose start or stop holds the lock
    handle,      \* the incarnation in the running set
    running,     \* the shared flag of each incarnation
    capture,     \* its capture thread
    hopper,      \* its hopper thread
    queue,       \* observations in its channel
    rx,          \* its reader is there
    stopped,     \* history: incarnations whose stop has joined their threads
    faults, deaths

iface == <<mode, up, plugged>>
threads == <<running, capture, hopper, queue, rx>>
counts == <<faults, deaths>>
vars == <<mode, up, plugged, call, lock, handle, running, capture, hopper,
          queue, rx, stopped, faults, deaths>>

Setting == {"down", "type", "up"}
Restoring == {"restore down", "restore type", "restore up"}

Init ==
    /\ mode = "managed" /\ up = TRUE /\ plugged = TRUE
    /\ call = [i \in Capturers |-> "unused"]
    /\ lock = Nobody /\ handle = Nobody
    /\ running = [i \in Capturers |-> FALSE]
    /\ capture = [i \in Capturers |-> "none"]
    /\ hopper = [i \in Capturers |-> "none"]
    /\ queue = [i \in Capturers |-> 0]
    /\ rx = [i \in Capturers |-> FALSE]
    /\ stopped = {}
    /\ faults = 0 /\ deaths = 0

Fault == faults < MaxFaults /\ faults' = faults + 1

Go(i, stage) == call' = [call EXCEPT ![i] = stage]

\* The supervisor is done with the call, unless its request was dropped.
Return(i, h) ==
    IF lock = i THEN lock' = Nobody /\ handle' = h ELSE UNCHANGED <<lock, handle>>

-----------------------------------------------------------------------------
(* The commands.  The type of an interface cannot be changed while it is up. *)

Ran(stage, target) ==
    CASE stage \in {"down", "restore down"} ->
            plugged /\ up' = FALSE /\ UNCHANGED mode
      [] stage \in {"type", "restore type"} ->
            plugged /\ ~up /\ mode' = target /\ UNCHANGED up
      [] stage \in {"up", "restore up"} ->
            plugged /\ up' = TRUE /\ UNCHANGED mode

\* It fails for its own reasons, for want of a device, or because it is busy.
Failed(stage) ==
    /\ UNCHANGED <<mode, up>>
    /\ \/ Fault
       \/ (~plugged \/ (stage \in {"type", "restore type"} /\ up)) /\ UNCHANGED faults

-----------------------------------------------------------------------------
(* start. *)

Start(i) ==
    /\ lock = Nobody /\ handle = Nobody /\ call[i] = "unused"
    /\ lock' = i
    /\ rx' = [rx EXCEPT ![i] = TRUE]
    /\ Go(i, "down")
    /\ UNCHANGED <<iface, handle, running, capture, hopper, queue, stopped, counts>>

\* The request is dropped: the lock and the receiver with it, the call goes on.
Abandon(i) ==
    /\ lock = i /\ call[i] \in Setting \union {"open"} \union Restoring
    /\ i \notin stopped
    /\ Fault
    /\ lock' = Nobody
    /\ rx' = [rx EXCEPT ![i] = FALSE]
    /\ UNCHANGED <<iface, call, handle, running, capture, hopper, queue, stopped, deaths>>

\* set_monitor_mode: the first command that fails ends the start.
SetMonitorMode(i) ==
    /\ call[i] \in Setting
    /\ \/ /\ Ran(call[i], "monitor")
          /\ Go(i, CASE call[i] = "down" -> "type"
                     [] call[i] = "type" -> "up"
                     [] call[i] = "up" -> "open")
          /\ UNCHANGED <<lock, handle, faults>>
       \/ /\ Failed(call[i])
          /\ Go(i, "over") /\ Return(i, Nobody)
    /\ UNCHANGED <<plugged, threads, stopped, deaths>>

\* Monitor mode is rolled back before the error is returned.
OpenFails(i) ==
    /\ Go(i, "restore down")
    /\ UNCHANGED <<lock, handle, running, capture, hopper>>

\* The threads are spawned when the device is open.
OpenCapture(i) ==
    /\ call[i] = "open"
    /\ \/ OpenFails(i)
       \/ /\ plugged
          /\ running' = [running EXCEPT ![i] = TRUE]
          /\ capture' = [capture EXCEPT ![i] = "check"]
          /\ hopper' = [hopper EXCEPT ![i] = "check"]
          /\ Go(i, "over") /\ Return(i, i)
    /\ UNCHANGED <<iface, queue, rx, stopped, counts>>

\* Restoring, for a stop or a failed start: it ends at the first command that fails.
RestoreManagedMode(i) ==
    /\ call[i] \in Restoring
    /\ \/ /\ Ran(call[i], "managed") /\ UNCHANGED faults
          /\ CASE call[i] = "restore down" -> Go(i, "restore type")
               [] call[i] = "restore type" -> Go(i, "restore up")
               [] call[i] = "restore up" -> Go(i, "over")
          /\ IF call[i] = "restore up" THEN Return(i, Nobody)
             ELSE UNCHANGED <<lock, handle>>
       \/ /\ Failed(call[i])
          /\ Go(i, "over") /\ Return(i, Nobody)
    /\ UNCHANGED <<plugged, threads, stopped, deaths>>

-----------------------------------------------------------------------------
(* The threads. *)

\* Checks the flag, then retunes the radio and dwells.
Hop(i) ==
    /\ hopper[i] \in {"check", "tune"}
    /\ hopper' = [hopper EXCEPT ![i] =
                    IF @ = "tune" THEN "check" ELSE IF running[i] THEN "tune" ELSE "gone"]
    /\ UNCHANGED <<iface, call, lock, handle, running, capture, queue, rx, stopped, counts>>

\* Reads until the flag is cleared, the device errs, or the receiver is gone; a
\* read that times out comes back to the flag.
ReadPacket(i) ==
    /\ capture[i] \in {"check", "read"}
    /\ capture' = [capture EXCEPT ![i] =
                     IF @ = "check" THEN (IF running[i] THEN "read" ELSE "gone")
                     ELSE IF plugged THEN "send" ELSE "gone"]
    /\ UNCHANGED <<iface, call, lock, handle, running, hopper, queue, rx, stopped, counts>>

TimeoutExpired(i) ==
    /\ capture[i] = "read" /\ plugged
    /\ capture' = [capture EXCEPT ![i] = "check"]
    /\ UNCHANGED <<iface, call, lock, handle, running, hopper, queue, rx, stopped, counts>>

\* blocking_send: waits for room as long as there is a receiver.
BlockingSend(i) ==
    /\ capture[i] = "send"
    /\ \/ /\ rx[i] /\ queue[i] < Channel
          /\ queue' = [queue EXCEPT ![i] = @ + 1]
          /\ capture' = [capture EXCEPT ![i] = "check"]
       \/ /\ ~rx[i]
          /\ capture' = [capture EXCEPT ![i] = "gone"]
          /\ UNCHANGED queue
    /\ UNCHANGED <<iface, call, lock, handle, running, hopper, rx, stopped, counts>>

\* The reader takes observations until the channel is closed and empty.
Drain(i) ==
    /\ rx[i] /\ queue[i] > 0
    /\ queue' = [queue EXCEPT ![i] = @ - 1]
    /\ UNCHANGED <<iface, call, lock, handle, running, capture, hopper, rx, stopped, counts>>

\* The channel closed and nobody asked for it: the failure drops the handle,
\* and the capturer with it.
HandleSourceFailed(i) ==
    /\ lock = Nobody /\ handle = i
    /\ capture[i] = "gone" /\ queue[i] = 0
    /\ handle' = Nobody
    /\ rx' = [rx EXCEPT ![i] = FALSE]
    /\ UNCHANGED <<iface, call, lock, running, capture, hopper, queue, stopped, counts>>

-----------------------------------------------------------------------------
(* stop. *)

Stop(i) ==
    /\ lock = Nobody /\ handle = i
    /\ lock' = i /\ handle' = Nobody
    /\ running' = [running EXCEPT ![i] = FALSE]
    /\ Go(i, "join capture")
    /\ UNCHANGED <<iface, capture, hopper, queue, rx, stopped, counts>>

JoinCapture(i) ==
    /\ call[i] = "join capture" /\ capture[i] = "gone"
    /\ Go(i, "join hopper")
    /\ UNCHANGED <<iface, lock, handle, threads, stopped, counts>>

\* Mutant: the mode is restored while the hopper finishes its round.
JoinHopperDetached(i) ==
    /\ call[i] = "join hopper"
    /\ Go(i, "restore down")
    /\ stopped' = stopped \union {i}
    /\ UNCHANGED <<iface, lock, handle, threads, counts>>

JoinHopper(i) ==
    /\ call[i] = "join hopper" /\ hopper[i] = "gone"
    /\ Go(i, "restore down")
    /\ stopped' = stopped \union {i}
    /\ UNCHANGED <<iface, lock, handle, threads, counts>>

-----------------------------------------------------------------------------
(* The device. *)

Unplug ==
    /\ plugged /\ deaths < MaxDeaths
    /\ plugged' = FALSE /\ deaths' = deaths + 1
    /\ UNCHANGED <<mode, up, call, lock, handle, threads, stopped, faults>>

\* A device that comes back is a managed interface.
Plug ==
    /\ ~plugged
    /\ plugged' = TRUE /\ mode' = "managed" /\ up' = TRUE
    /\ UNCHANGED <<call, lock, handle, threads, stopped, counts>>

Calls(i) == SetMonitorMode(i) \/ OpenCapture(i) \/ RestoreManagedMode(i)
            \/ JoinCapture(i) \/ JoinHopper(i)

Threads(i) == Hop(i) \/ ReadPacket(i) \/ TimeoutExpired(i) \/ BlockingSend(i) \/ Drain(i)

\* Every start has been made and has failed or been stopped.
Done ==
    /\ \A i \in Capturers : call[i] = "over" /\ hopper[i] \in {"none", "gone"}
    /\ lock = Nobody /\ handle = Nobody /\ plugged
    /\ UNCHANGED vars

Next ==
    \/ \E i \in Capturers : \/ Start(i) \/ Abandon(i) \/ Calls(i) \/ Threads(i)
                            \/ HandleSourceFailed(i) \/ Stop(i)
    \/ Unplug \/ Plug \/ Done

\* Threads and tasks that can go on do; the reader goes on ingesting.
Fairness ==
    \A i \in Capturers : /\ WF_vars(Calls(i)) /\ WF_vars(Hop(i))
                         /\ WF_vars(ReadPacket(i) \/ TimeoutExpired(i))
                         /\ WF_vars(BlockingSend(i)) /\ WF_vars(Drain(i))

Spec == Init /\ [][Next]_vars /\ Fairness

-----------------------------------------------------------------------------
(* Properties. *)

\* A capturer that was stopped has no thread left when the mode is restored, and
\* none afterwards (monitor.rs:239-250).
StoppedIsQuiet ==
    \A i \in stopped : capture[i] = "gone" /\ hopper[i] = "gone"

\* Whatever the device refuses to open, and however often, an interface whose
\* commands all work is back in managed mode and up once nothing is started on
\* it (start's rollback, stop's restore).
TidyWithoutFaults ==
    /\ faults = 0 /\ deaths = 0
    /\ lock = Nobody /\ handle = Nobody
    => mode = "managed" /\ up

\* A stop comes to its end, however full the channel to the reader is when it
\* is asked for.
StopReturns ==
    \A i \in Capturers : call[i] = "join capture" ~> call[i] = "over"

=============================================================================
