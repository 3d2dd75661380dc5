--------------------------- MODULE BluetoothStart ---------------------------
(* Starting and stopping a Bluetooth scan (capture/bluetooth/scan.rs).  The *)
(* caller spawns a thread that talks to BlueZ over D-Bus, and waits for its *)
(* report; the thread begins a scan, active or passive, and then follows    *)
(* the bus until the flag it shares with the caller is cleared.             *)
EXTENDS Naturals

CONSTANTS
    MaxStarts,        \* bound: starts
    StartupTimeout,   \* STARTUP_TIMEOUT, in ticks
    ActivateTimeout,  \* ACTIVATE_TIMEOUT
    BusAnswers        \* the bus answers every call in the end, if only by an error

TimeoutsAssumption ==
    /\ StartupTimeout \in Nat /\ ActivateTimeout \in Nat
    /\ ActivateTimeout < StartupTimeout

VARIABLES
    active,      \* the configured kind of scan
    caller,      \* start and stop of the capturer
    reason,      \* what a failed start says
    running,     \* the shared flag
    thread,      \* where the D-Bus loop is
    ready,       \* the channel of its report
    scanning,    \* BlueZ scans for this thread
    scanned,     \* history: it did since the start
    failedAt,    \* history: the call on which startup failed
    busTime,     \* ticks of the start spent in bus calls
    waited,      \* ticks of it spent waiting for the activation
    starts

vars == <<active, caller, reason, running, thread, ready, scanning, scanned,
          failedAt, busTime, waited, starts>>

NoReason == "nothing"
Passive == {"query", "serve", "register", "activate"}
InCall == {"connect", "discover", "query", "register", "unregister"}

Init ==
    /\ active \in BOOLEAN
    /\ caller = "idle" /\ reason = NoReason
    /\ running = FALSE
    /\ thread = "gone" /\ ready = "empty"
    /\ scanning = FALSE /\ scanned = FALSE
    /\ failedAt = NoReason
    /\ busTime = 0 /\ waited = 0
    /\ starts = 0

-----------------------------------------------------------------------------
(* The thread.  An error that is returned ends it without a report: its end  *)
(* of the channel closes.                                                    *)

Gone == thread' = "gone" /\ scanning' = FALSE

Return == Gone /\ ready' = IF ready = "empty" THEN "closed" ELSE ready

Report(r) == ready' = IF ready = "empty" THEN r ELSE ready

Fails(stage) == failedAt' = IF failedAt = NoReason THEN stage ELSE failedAt

\* Connecting, and powering the adapter on as far as it goes.
Connect ==
    /\ thread = "connect"
    /\ \/ thread' = (IF active THEN "discover" ELSE "query")
          /\ UNCHANGED <<ready, scanning, scanned, failedAt>>
       \/ Return /\ Fails("connect") /\ UNCHANGED scanned

StartDiscovery ==
    /\ thread = "discover"
    /\ \/ /\ thread' = "subscribe" /\ scanning' = TRUE /\ scanned' = TRUE
          /\ Report("ok") /\ UNCHANGED failedAt
       \/ Return /\ Fails("discover") /\ UNCHANGED scanned

Query ==
    /\ thread = "query"
    /\ \/ thread' = "serve" /\ UNCHANGED <<ready, scanning, scanned, failedAt>>
       \/ Gone /\ Report("err") /\ Fails("query") /\ UNCHANGED scanned

Serve ==
    /\ thread = "serve"
    /\ \/ thread' = "register" /\ UNCHANGED <<ready, scanning, scanned, failedAt>>
       \/ Gone /\ Report("err") /\ Fails("serve") /\ UNCHANGED scanned

Register ==
    /\ thread = "register"
    /\ \/ thread' = "activate" /\ UNCHANGED <<ready, scanning, scanned, failedAt>>
       \/ Gone /\ Report("err") /\ Fails("register") /\ UNCHANGED scanned

\* BlueZ activates the monitor, or the wait for that times out.
Activated ==
    /\ thread = "activate"
    /\ thread' = "subscribe" /\ scanning' = TRUE /\ scanned' = TRUE
    /\ Report("ok") /\ UNCHANGED failedAt

ActivationTimesOut ==
    /\ thread = "activate"
    /\ waited = ActivateTimeout \/ caller /= "waiting"
    /\ thread' = "unregister" /\ Fails("activate")
    /\ UNCHANGED <<ready, scanning, scanned>>

Unregister ==
    /\ thread = "unregister"
    /\ Gone /\ Report("err") /\ UNCHANGED <<scanned, failedAt>>

\* The devices known already, and the two streams.
Subscribe ==
    /\ thread = "subscribe"
    /\ \/ thread' = "loop" /\ UNCHANGED <<ready, scanning>>
       \/ Return
    /\ UNCHANGED <<scanned, failedAt>>

\* Mutant: the tick goes back to the streams without a look at the flag.
LoopUnchecked ==
    /\ thread \in {"loop", "tick"}
    /\ thread' = IF thread = "loop" THEN "tick" ELSE "loop"
    /\ UNCHANGED <<ready, scanning, scanned, failedAt>>

\* Every tick of half a second the flag is looked at, signals or not.
Loop ==
    /\ thread = "loop" /\ ~running
    /\ thread' = "finish"
    /\ UNCHANGED <<ready, scanning, scanned, failedAt>>

\* StopDiscovery or UnregisterMonitor, as far as it goes.
Finish ==
    /\ thread = "finish"
    /\ Return
    /\ UNCHANGED <<scanned, failedAt>>

Caller == <<active, caller, reason, running, busTime, waited, starts>>

BusCall ==
    /\ \/ Connect \/ StartDiscovery \/ Query \/ Register \/ Unregister
       \/ Subscribe \/ Finish
    /\ UNCHANGED Caller

Local == (Serve \/ Activated \/ ActivationTimesOut \/ Loop) /\ UNCHANGED Caller

-----------------------------------------------------------------------------
(* The caller. *)

Start ==
    /\ caller \in {"idle", "failed", "stopped"} /\ starts < MaxStarts
    /\ starts' = starts + 1
    /\ caller' = "waiting" /\ reason' = NoReason
    /\ running' = TRUE
    /\ thread' = "connect" /\ ready' = "empty"
    /\ scanned' = FALSE /\ failedAt' = NoReason
    /\ busTime' = 0 /\ waited' = 0
    /\ UNCHANGED <<active, scanning>>

Thread == <<active, thread, ready, scanning, scanned, failedAt, busTime, waited, starts>>

\* Time passes for a caller that waits, in a bus call or for the activation,
\* until a timeout is due.
Tick ==
    /\ caller = "waiting" /\ ready = "empty" /\ busTime + waited < StartupTimeout
    /\ \/ thread \in InCall /\ busTime' = busTime + 1 /\ UNCHANGED waited
       \/ /\ thread = "activate" /\ waited < ActivateTimeout
          /\ waited' = waited + 1 /\ UNCHANGED busTime
    /\ UNCHANGED <<active, caller, reason, running, thread, ready, scanning, scanned,
                   failedAt, starts>>

StartSucceeds ==
    /\ caller = "waiting" /\ ready = "ok"
    /\ caller' = "started"
    /\ UNCHANGED <<reason, running, Thread>>

\* An error reported, a channel closed, or no report in time: the flag is
\* cleared and the thread joined.  interpret_startup has one text for the last two.
StartFails ==
    /\ caller = "waiting"
    /\ \/ ready \in {"err", "closed"}
       \/ ready = "empty" /\ busTime + waited = StartupTimeout
    /\ caller' = "reaping"
    /\ reason' = IF ready = "err" THEN "named" ELSE "timed out"
    /\ running' = FALSE
    /\ UNCHANGED Thread

\* Mutant: the error is returned without waiting for the thread.
ReapDetached ==
    /\ caller = "reaping"
    /\ caller' = "failed"
    /\ UNCHANGED <<reason, running, Thread>>

Reap ==
    /\ caller = "reaping" /\ thread = "gone"
    /\ caller' = "failed"
    /\ UNCHANGED <<reason, running, Thread>>

Stop ==
    /\ caller = "started"
    /\ caller' = "stopping" /\ running' = FALSE
    /\ UNCHANGED <<reason, Thread>>

Join ==
    /\ caller = "stopping" /\ thread = "gone"
    /\ caller' = "stopped"
    /\ UNCHANGED <<reason, running, Thread>>

Done == starts = MaxStarts /\ caller \in {"failed", "stopped", "started"} /\ UNCHANGED vars

Next ==
    \/ BusCall \/ Local
    \/ Tick \/ Start \/ StartSucceeds \/ StartFails \/ Reap \/ Stop \/ Join
    \/ Done

\* The caller's waits have a timeout, and so has the activation; a bus call has none.
Fairness ==
    /\ WF_vars(Tick) /\ WF_vars(StartSucceeds \/ StartFails) /\ WF_vars(Reap) /\ WF_vars(Join)
    /\ WF_vars(Local)
    /\ BusAnswers => WF_vars(BusCall)

Spec == Init /\ [][Next]_vars /\ Fairness

-----------------------------------------------------------------------------
(* Properties. *)

\* A start that succeeds was of a scan that had begun: for a passive one BlueZ
\* had activated the monitor, not only taken it (setup_passive_monitor).
StartedMeansScanned == caller = "started" => scanned

\* A start that failed and a stop leave no scan behind: the thread is gone and
\* BlueZ scans for it no more, though the report and the flag may have crossed
\* (scan.rs, start: "so a failed start leaves no orphaned scan running").
NoOrphanedScan == caller \in {"failed", "stopped"} => thread = "gone" /\ ~scanning

\* A passive scan that cannot be says why, the activation that timed out
\* included, as long as the bus leaves that timeout its time (STARTUP_TIMEOUT:
\* "so a passive-activation timeout surfaces as its specific reason").
PassiveFailsByName ==
    caller = "reaping" /\ failedAt \in Passive /\ busTime + ActivateTimeout < StartupTimeout
        => reason = "named"

\* start ends, and a stop does, on a bus that answers.
CallsReturn ==
    /\ caller \in {"waiting", "reaping"} ~> caller \in {"started", "failed"}
    /\ caller = "stopping" ~> caller = "stopped"

=============================================================================
