-------------------------- MODULE CaptureSupervisor --------------------------
(***************************************************************************)
(* Turning data sources on and off (fluxfang-api/src/capture.rs and the    *)
(* routes of data_sources.rs): HTTP requests, the resume at startup, the   *)
(* reconciler and the drain of device failures all start and stop sources  *)
(* under one lock, which a call keeps across its awaits; an HTTP request   *)
(* may be cancelled at any of them.                                        *)
(*                                                                         *)
(* A start makes an incarnation: a capturer and its reader, or a location  *)
(* pump.  Handles can be lost while what they stood for goes on, so an     *)
(* incarnation has a slot of its own, apart from the table of handles.     *)
(***************************************************************************)
EXTENDS Naturals, Sequences, FiniteSets

CONSTANTS Sources,    \* ids of data sources, other than sensor listeners
          Gps,        \* those of kind gps: location sources; the others have a reader
          Slots,      \* bound: incarnations of one source that exist at once
          Clients,    \* HTTP requests under way at once
          NoSource, NoSlot, NoProc,
          MaxRequests,\* bound: requests made
          MaxFaults,  \* bound: failed statements, cancelled requests, restarts
          MaxDeaths   \* bound: devices that die while they capture

ASSUME SupervisorAssumption ==
    /\ Gps \subseteq Sources /\ NoSource \notin Sources
    /\ Slots \subseteq Nat /\ NoSlot \notin Slots
    /\ NoProc \notin Clients \cup {"resume", "reconcile", "drain"}
    /\ Clients \cap {"resume", "reconcile", "drain"} = {}
    /\ MaxRequests \in Nat /\ MaxFaults \in Nat /\ MaxDeaths \in Nat

Sweepers == {"resume", "reconcile"}
Procs == Clients \cup Sweepers \cup {"drain"}

VARIABLES
    rows,      \* the data_source table
    handle,    \* the running set: the incarnation each source has a handle on
    life,      \* what each incarnation is doing
    attached,  \* incarnations whose session manager is the current one
    session,   \* a session manager is open
    db_open,   \* a survey_session row is active
    failures,  \* the failure channel
    lock,      \* who holds the lock on the running set
    op,        \* the call each process is in
    want,      \* sources a sweep has still to start
    resumed,   \* the resume at startup has taken its list
    plugged,   \* the source's device is there
    requests, deaths, faults

table == <<rows, handle>>
world == <<requests, plugged, deaths>>
sweep == <<want, resumed>>
vars == <<rows, handle, life, attached, session, db_open, failures, lock, op, want,
          resumed, plugged, requests, deaths, faults>>

Row == [exists : BOOLEAN, desired : {"running", "stopped"},
        status : {"running", "stopped", "error"}]
Exists(s) == rows[s].exists

\* Calls and where they are.  Between the lock and its release a start is in
\* reject .. status, a stop in teardown or stopped, a failure in failed.
Op == [call : {"none", "start", "stop", "delete", "failure", "sweep"},
       stage : {"idle", "lock", "reject", "build", "session", "spawn", "status", "error",
                "teardown", "stopped", "failed", "close", "remove"},
       src : Sources \cup {NoSource}, slot : Slots \cup {NoSlot}]
Idle == [call |-> "none", stage |-> "idle", src |-> NoSource, slot |-> NoSlot]
Call(p, call, stage, s) == op' = [op EXCEPT ![p] = [call |-> call, stage |-> stage,
                                                    src |-> s, slot |-> NoSlot]]
At(p, stage) == op[p].stage = stage
Go(p, stage) == op' = [op EXCEPT ![p].stage = stage]
Done(p) == op' = [op EXCEPT ![p] = Idle]

\* "live": delivering.  "closed": its channel closed, or its fixes ended, and nobody
\* asked it to stop.  "stopping": asked to stop, the capturer still going.
\* "draining": asked to stop, the reader finishing what is left.  "ended": the reader
\* is through, and the handle still there.
Lives == {"free", "live", "closed", "stopping", "draining", "ended"}

NothingRuns == \A s \in Sources : handle[s] = NoSlot
GpsRuns == \E s \in Gps : handle[s] # NoSlot

Init ==
    /\ rows = [s \in Sources |-> [exists |-> TRUE, desired |-> "stopped",
                                  status |-> "stopped"]]
    /\ handle = [s \in Sources |-> NoSlot]
    /\ life = [s \in Sources |-> [i \in Slots |-> "free"]]
    /\ attached = {}
    /\ session = FALSE /\ db_open = FALSE
    /\ failures = <<>>
    /\ lock = NoProc
    /\ op = [p \in Procs |-> Idle]
    /\ want = [p \in Sweepers |-> {}]
    /\ resumed = FALSE
    /\ plugged = [s \in Sources |-> TRUE]
    /\ requests = 0 /\ deaths = 0 /\ faults = 0

Fault == faults < MaxFaults /\ faults' = faults + 1

\* set_status: an UPDATE ... RETURNING that fails when the row is gone.
SetStatus(s, status) ==
    Exists(s) /\ rows' = [rows EXCEPT ![s].status = status] /\ UNCHANGED faults
SetStatusFails(s) ==
    /\ UNCHANGED rows
    /\ (~Exists(s) /\ UNCHANGED faults) \/ Fault

-----------------------------------------------------------------------------
(* Requests, for rows as create_data_source makes them: stopped and not       *)
(* wanted.  The intent is recorded before the supervisor is asked.            *)

Request(c, s) ==
    /\ op[c] = Idle /\ Exists(s)
    /\ requests < MaxRequests /\ requests' = requests + 1

RequestStart(c, s) ==
    /\ Request(c, s)
    /\ rows' = [rows EXCEPT ![s].desired = "running"]
    /\ Call(c, "start", "lock", s)
    /\ UNCHANGED <<handle, life, attached, session, db_open, failures, lock, sweep, plugged,
                   deaths, faults>>

RequestStop(c, s) ==
    /\ Request(c, s)
    /\ rows' = [rows EXCEPT ![s].desired = "stopped"]
    /\ Call(c, "stop", "lock", s)
    /\ UNCHANGED <<handle, life, attached, session, db_open, failures, lock, sweep, plugged,
                   deaths, faults>>

\* A source whose status is running is stopped first.
RequestDelete(c, s) ==
    /\ Request(c, s)
    /\ Call(c, "delete", IF rows[s].status = "running" THEN "lock" ELSE "remove", s)
    /\ UNCHANGED <<table, life, attached, session, db_open, failures, lock, sweep, plugged,
                   deaths, faults>>

Remove(c) ==
    /\ At(c, "remove")
    /\ rows' = [rows EXCEPT ![op[c].src].exists = FALSE]
    /\ Done(c)
    /\ UNCHANGED <<handle, life, attached, session, db_open, failures, lock, sweep, world,
                   faults>>

\* The client disconnects and its handler is dropped where it waits.  The work of a
\* stop is in a task of its own and goes on; a start ends here, the lock with it, and
\* may leave a session row that no manager knows of.
Cancel(c) ==
    /\ Fault
    /\ \/ /\ op[c].call = "start"
          /\ lock' = IF lock = c THEN NoProc ELSE lock
          /\ \/ UNCHANGED db_open
             \/ At(c, "session") /\ ~session /\ db_open' \in BOOLEAN
          /\ Done(c)
       \/ /\ op[c].call = "delete"
          /\ op' = [op EXCEPT ![c] = IF At(c, "remove") THEN Idle ELSE [@ EXCEPT !.call = "stop"]]
          /\ UNCHANGED <<lock, db_open>>
    /\ UNCHANGED <<table, life, attached, session, failures, sweep, world>>

-----------------------------------------------------------------------------
(* start.                                                                    *)

Hold(p) == lock = NoProc /\ lock' = p
Release == lock' = NoProc

\* Already running, or the row is gone: nothing to do.
StartNothing(p) ==
    /\ op[p].call = "start" /\ At(p, "lock") /\ lock = NoProc
    /\ handle[op[p].src] # NoSlot \/ ~Exists(op[p].src)
    /\ Done(p)
    /\ UNCHANGED <<table, life, attached, session, db_open, failures, lock, sweep, world,
                   faults>>

\* Mutant: the other location source is not looked for.
BeginStartAnyway(p) ==
    /\ op[p].call = "start" /\ At(p, "lock")
    /\ handle[op[p].src] = NoSlot /\ Exists(op[p].src)
    /\ Hold(p)
    /\ Go(p, "build")
    /\ UNCHANGED <<table, life, attached, session, db_open, failures, sweep, world, faults>>

BeginStart(p) ==
    /\ op[p].call = "start" /\ At(p, "lock")
    /\ handle[op[p].src] = NoSlot /\ Exists(op[p].src)
    /\ Hold(p)
    /\ Go(p, IF op[p].src \in Gps /\ GpsRuns THEN "reject" ELSE "build")
    /\ UNCHANGED <<table, life, attached, session, db_open, failures, sweep, world, faults>>

\* The factory opens a location source's device; the others are only constructed.
Build(p) ==
    /\ At(p, "build")
    /\ Go(p, IF op[p].src \in Gps /\ ~plugged[op[p].src] THEN "reject" ELSE "session")
    /\ UNCHANGED <<table, life, attached, session, db_open, failures, lock, sweep, world,
                   faults>>

\* An error before anything was opened.
Reject(p) ==
    /\ At(p, "reject")
    /\ SetStatus(op[p].src, "error") \/ SetStatusFails(op[p].src)
    /\ Release /\ Done(p)
    /\ UNCHANGED <<handle, life, attached, session, db_open, failures, sweep, world>>

\* ensure_session: the open one, or a fresh one after closing whatever is active.
EnsureSession(p) ==
    /\ At(p, "session")
    /\ \/ session /\ Go(p, "spawn") /\ UNCHANGED <<session, db_open, faults>>
       \/ /\ ~session
          /\ session' = TRUE /\ db_open' = TRUE
          /\ Go(p, "spawn") /\ UNCHANGED faults
       \/ /\ ~session /\ Fault
          /\ db_open' \in {db_open, FALSE}
          /\ Go(p, "error") /\ UNCHANGED session
    /\ UNCHANGED <<table, life, attached, failures, lock, sweep, world>>

\* start_wifi, start_location, start_push: the capturer starts, or its device is not
\* there; then the reader is spawned and the handle recorded without another await.
Spawn(p) ==
    /\ At(p, "spawn")
    /\ LET s == op[p].src
       IN  IF s \notin Gps /\ ~plugged[s]
           THEN Go(p, "error") /\ UNCHANGED <<handle, life, attached>>
           ELSE \E i \in Slots :
                   /\ life[s][i] = "free" /\ \A j \in Slots : life[s][j] = "free" => i <= j
                   /\ life' = [life EXCEPT ![s][i] = "live"]
                   /\ handle' = [handle EXCEPT ![s] = i]
                   /\ attached' = attached \cup {<<s, i>>}
                   /\ Go(p, "status")
    /\ UNCHANGED <<rows, session, db_open, failures, lock, sweep, world, faults>>

\* The source runs, whether or not its row could be told.
WriteRunning(p) ==
    /\ At(p, "status")
    /\ SetStatus(op[p].src, "running") \/ SetStatusFails(op[p].src)
    /\ Release /\ Done(p)
    /\ UNCHANGED <<handle, life, attached, session, db_open, failures, sweep, world>>

\* An error after the session was ensured: it is closed again if nothing runs, unless
\* the status could not be written, which ends the call before that.
WriteError(p) ==
    /\ At(p, "error")
    /\ \/ SetStatus(op[p].src, "error") /\ Go(p, "close") /\ UNCHANGED lock
       \/ SetStatusFails(op[p].src) /\ Release /\ Done(p)
    /\ UNCHANGED <<handle, life, attached, session, db_open, failures, sweep, world>>

\* Mutant: the session is closed whatever runs.
CloseAnyway(p) ==
    /\ At(p, "close")
    /\ session' = FALSE /\ attached' = {}
    /\ db_open' = FALSE /\ UNCHANGED faults
    /\ Release
    /\ IF op[p].call = "delete" THEN Go(p, "remove") ELSE Done(p)
    /\ UNCHANGED <<table, life, failures, sweep, world>>

\* close_session_if_idle_locked, the end of a failed start, a stop and a failure.
CloseIfIdle(p) ==
    /\ At(p, "close")
    /\ IF NothingRuns /\ session
       THEN /\ session' = FALSE /\ attached' = {}
            /\ \/ db_open' = FALSE /\ UNCHANGED faults
               \/ Fault /\ UNCHANGED db_open
       ELSE UNCHANGED <<session, attached, db_open, faults>>
    /\ Release
    /\ IF op[p].call = "delete" THEN Go(p, "remove") ELSE Done(p)
    /\ UNCHANGED <<table, life, failures, sweep, world>>

-----------------------------------------------------------------------------
(* stop_inner.                                                               *)

AfterStop(p) == IF op[p].call = "delete" THEN Go(p, "remove") ELSE Done(p)

\* No handle: only a row that still says running is put right.
StopNothing(p) ==
    /\ op[p].call \in {"stop", "delete"} /\ At(p, "lock") /\ lock = NoProc
    /\ handle[op[p].src] = NoSlot
    /\ IF Exists(op[p].src) /\ rows[op[p].src].status = "running"
       THEN SetStatus(op[p].src, "stopped") \/ SetStatusFails(op[p].src)
       ELSE UNCHANGED <<rows, faults>>
    /\ AfterStop(p)
    /\ UNCHANGED <<handle, life, attached, session, db_open, failures, lock, sweep, world>>

\* What asking an incarnation to stop makes of it: its reader is told first.
Teardown(l) == IF l = "live" THEN "stopping" ELSE "draining"

\* The handle is taken out.  A pump is aborted on the spot; a capturer is asked to
\* stop, after its reader was told that this is deliberate.
BeginStop(p) ==
    /\ op[p].call \in {"stop", "delete"} /\ At(p, "lock")
    /\ handle[op[p].src] # NoSlot
    /\ Hold(p)
    /\ LET s == op[p].src
           i == handle[s]
       IN  /\ handle' = [handle EXCEPT ![s] = NoSlot]
           /\ IF s \in Gps
              THEN life' = [life EXCEPT ![s][i] = "free"] /\ Go(p, "stopped")
              ELSE /\ life' = [life EXCEPT ![s][i] = Teardown(@)]
                   /\ op' = [op EXCEPT ![p].stage = "teardown", ![p].slot = i]
    /\ attached' = IF op[p].src \in Gps THEN attached \ {<<op[p].src, handle[op[p].src]>>}
                                        ELSE attached
    /\ UNCHANGED <<rows, session, db_open, failures, sweep, world, faults>>

\* Capturer::stop returns, or the sender of a push source is removed: the channel closes.
CapturerStops(s, i) ==
    /\ life[s][i] = "stopping"
    /\ life' = [life EXCEPT ![s][i] = "draining"]
    /\ UNCHANGED <<table, attached, session, db_open, failures, lock, op, sweep, world,
                   faults>>

\* The reader, or the pump, has drained what was left.  It reports a failure unless it
\* was asked to stop.
ReaderEnds(s, i) ==
    /\ life[s][i] \in {"closed", "draining"}
    /\ failures' = IF life[s][i] = "closed" THEN Append(failures, s) ELSE failures
    /\ IF handle[s] = i
       THEN life' = [life EXCEPT ![s][i] = "ended"] /\ UNCHANGED attached
       ELSE life' = [life EXCEPT ![s][i] = "free"] /\ attached' = attached \ {<<s, i>>}
    /\ UNCHANGED <<table, session, db_open, lock, op, sweep, world, faults>>

\* The reader is awaited before the row is told.
ReaderDone(p) ==
    /\ At(p, "teardown") /\ life[op[p].src][op[p].slot] = "free"
    /\ op' = [op EXCEPT ![p].stage = "stopped", ![p].slot = NoSlot]
    /\ UNCHANGED <<table, life, attached, session, db_open, failures, lock, sweep, world,
                   faults>>

WriteStopped(p) ==
    /\ At(p, "stopped")
    /\ \/ SetStatus(op[p].src, "stopped") /\ Go(p, "close") /\ UNCHANGED lock
       \/ SetStatusFails(op[p].src) /\ Release /\ AfterStop(p)
    /\ UNCHANGED <<handle, life, attached, session, db_open, failures, sweep, world>>

-----------------------------------------------------------------------------
(* Device failures: the drain of the failure channel.                        *)

TakeFailure ==
    /\ op["drain"] = Idle /\ failures # <<>>
    /\ Call("drain", "failure", "lock", Head(failures))
    /\ failures' = Tail(failures)
    /\ UNCHANGED <<table, life, attached, session, db_open, lock, sweep, world, faults>>

\* Mutant: the handle of a source that failed stays in the table.
KeepHandle ==
    /\ op["drain"].call = "failure" /\ At("drain", "lock") /\ lock = NoProc
    /\ IF handle[op["drain"].src] = NoSlot
       THEN Done("drain") /\ UNCHANGED lock
       ELSE Hold("drain") /\ Go("drain", "failed")
    /\ UNCHANGED <<table, life, attached, session, db_open, failures, sweep, world, faults>>

\* handle_source_failed: the handle is dropped, of whichever incarnation it is.  A pump
\* is detached by that, and so is a capturer that does not stop itself on drop.
DropHandle ==
    /\ op["drain"].call = "failure" /\ At("drain", "lock") /\ lock = NoProc
    /\ LET s == op["drain"].src
           i == handle[s]
       IN  IF i = NoSlot
           THEN Done("drain") /\ UNCHANGED <<handle, life, attached, lock>>
           ELSE /\ Hold("drain")
                /\ handle' = [handle EXCEPT ![s] = NoSlot]
                /\ \/ /\ life[s][i] = "ended"
                      /\ life' = [life EXCEPT ![s][i] = "free"]
                      /\ attached' = attached \ {<<s, i>>}
                   \/ /\ life[s][i] # "ended"
                      /\ UNCHANGED <<life, attached>>
                   \/ /\ s \notin Gps /\ life[s][i] = "live"
                      /\ life' = [life EXCEPT ![s][i] = "closed"]
                      /\ UNCHANGED attached
                /\ Go("drain", "failed")
    /\ UNCHANGED <<rows, session, db_open, failures, sweep, world, faults>>

WriteFailed ==
    /\ At("drain", "failed")
    /\ SetStatus(op["drain"].src, "error") \/ SetStatusFails(op["drain"].src)
    /\ Go("drain", "close")
    /\ UNCHANGED <<handle, life, attached, session, db_open, failures, lock, sweep, world>>

-----------------------------------------------------------------------------
(* Sweeps: resume_running once, reconcile_once again and again.              *)

Desired == {s \in Sources : Exists(s) /\ rows[s].desired = "running"}

ListToResume ==
    /\ ~resumed
    /\ resumed' = TRUE
    /\ want' = [want EXCEPT !["resume"] = Desired]
    /\ UNCHANGED <<table, life, attached, session, db_open, failures, lock, op, world,
                   faults>>

ListToReconcile ==
    /\ op["reconcile"] = Idle /\ want["reconcile"] = {}
    /\ want' = [want EXCEPT !["reconcile"] = Desired]
    /\ Call("reconcile", "sweep", "lock", NoSource)
    /\ UNCHANGED <<table, life, attached, session, db_open, failures, lock, resumed, world,
                   faults>>

\* Under the lock, which is let go again before the first start.
KeepNotRunning ==
    /\ op["reconcile"].call = "sweep" /\ lock = NoProc
    /\ want' = [want EXCEPT !["reconcile"] = {s \in @ : handle[s] = NoSlot}]
    /\ Done("reconcile")
    /\ UNCHANGED <<table, life, attached, session, db_open, failures, lock, resumed, world,
                   faults>>

StartNextOf(p) ==
    /\ op[p] = Idle
    /\ \E s \in want[p] :
          /\ want' = [want EXCEPT ![p] = @ \ {s}]
          /\ Call(p, "start", "lock", s)
    /\ UNCHANGED <<table, life, attached, session, db_open, failures, lock, resumed, world,
                   faults>>

-----------------------------------------------------------------------------
(* The world.                                                                *)

\* A device is unplugged, or its driver gives up, under a running capture.
DeviceDies(s, i) ==
    /\ life[s][i] = "live" /\ deaths < MaxDeaths
    /\ life' = [life EXCEPT ![s][i] = "closed"]
    /\ deaths' = deaths + 1
    /\ \E there \in BOOLEAN : plugged' = [plugged EXCEPT ![s] = there]
    /\ UNCHANGED <<table, attached, session, db_open, failures, lock, op, sweep, requests,
                   faults>>

Replug(s) ==
    /\ ~plugged[s]
    /\ plugged' = [plugged EXCEPT ![s] = TRUE]
    /\ UNCHANGED <<table, life, attached, session, db_open, failures, lock, op, sweep,
                   requests, deaths, faults>>

\* Everything but the database is in memory.
Restart ==
    /\ Fault
    /\ handle' = [s \in Sources |-> NoSlot]
    /\ life' = [s \in Sources |-> [i \in Slots |-> "free"]]
    /\ attached' = {}
    /\ session' = FALSE
    /\ failures' = <<>>
    /\ lock' = NoProc
    /\ op' = [p \in Procs |-> Idle]
    /\ want' = [p \in Sweepers |-> {}]
    /\ resumed' = FALSE
    /\ UNCHANGED <<rows, db_open, world>>

-----------------------------------------------------------------------------
Acquire(p) ==
    \/ StartNothing(p) \/ BeginStart(p) \/ StopNothing(p) \/ BeginStop(p)
    \/ p = "drain" /\ DropHandle
    \/ p = "reconcile" /\ KeepNotRunning

Proceed(p) ==
    \/ Build(p) \/ Reject(p) \/ EnsureSession(p) \/ Spawn(p) \/ WriteRunning(p)
    \/ WriteError(p) \/ CloseIfIdle(p) \/ ReaderDone(p) \/ WriteStopped(p)
    \/ p = "drain" /\ (TakeFailure \/ WriteFailed)
    \/ p \in Sweepers /\ StartNextOf(p)
    \/ p = "resume" /\ ListToResume
    \/ p = "reconcile" /\ ListToReconcile
    \/ p \in Clients /\ Remove(p)

Next ==
    \/ \E p \in Procs : Acquire(p) \/ Proceed(p)
    \/ \E c \in Clients : Cancel(c) \/ \E s \in Sources : \/ RequestStart(c, s)
                                                          \/ RequestStop(c, s)
                                                          \/ RequestDelete(c, s)
    \/ \E s \in Sources : Replug(s) \/ \E i \in Slots : \/ CapturerStops(s, i)
                                                        \/ ReaderEnds(s, i)
                                                        \/ DeviceDies(s, i)
    \/ Restart

Spec == Init /\ [][Next]_vars

\* The runtime drives every task that can go on; the lock is handed out in the order
\* it was asked for, so nobody waits for it for ever; capturers that are told to stop
\* do, and readers get to the end of a closed channel.
Fairness ==
    /\ \A p \in Procs : WF_vars(Proceed(p)) /\ SF_vars(Acquire(p))
    /\ \A s \in Sources, i \in Slots : WF_vars(CapturerStops(s, i)) /\ WF_vars(ReaderEnds(s, i))

FairSpec == Spec /\ Fairness

-----------------------------------------------------------------------------
InLock(p) == op[p].stage \notin {"idle", "lock", "remove"}

\* Every variable has its type, and the lock is held by the call that is past it.
TypeOK ==
    /\ rows \in [Sources -> Row]
    /\ handle \in [Sources -> Slots \cup {NoSlot}]
    /\ life \in [Sources -> [Slots -> Lives]]
    /\ attached \subseteq Sources \X Slots
    /\ session \in BOOLEAN /\ db_open \in BOOLEAN
    /\ failures \in Seq(Sources)
    /\ lock \in Procs \cup {NoProc}
    /\ op \in [Procs -> Op]
    /\ \A p \in Procs : InLock(p) <=> lock = p
    /\ want \in [Sweepers -> SUBSET Sources]
    /\ resumed \in BOOLEAN
    /\ plugged \in [Sources -> BOOLEAN]
    /\ requests \in 0..MaxRequests /\ deaths \in 0..MaxDeaths /\ faults \in 0..MaxFaults

\* Whatever has a handle captures into the session that is open, in memory and in the
\* database: no request, failure or sweep closes it under a source that runs, and no
\* source is left with the manager of a session that was closed (capture.rs, session
\* lifecycle).
SessionCoversRunning ==
    \A s \in Sources : handle[s] # NoSlot =>
        session /\ db_open /\ <<s, handle[s]>> \in attached

\* At most one location source has a handle: the check and the start are awaits apart.
OneLocationSource == Cardinality({s \in Gps : handle[s] # NoSlot}) <= 1

\* As long as no device has died, none is reported to have: a deliberate stop, a
\* cancelled start or a deletion is never taken for a failure.
NoFalseFailure == deaths = 0 => failures = <<>> /\ op["drain"] = Idle

\* Without faults the row tells the truth: between calls, a source of ours has the
\* status running exactly if it has a handle, whatever requests, sweeps and device
\* failures came together.
StatusTellsTruth ==
    faults = 0 /\ lock = NoProc =>
        \A s \in Sources : Exists(s) => (rows[s].status = "running" <=> handle[s] # NoSlot)

\* What the supervisor says of a source is true: as long as no device has died none is
\* reported to have, and without faults, between calls, the rows that say running are
\* those of the sources that have a handle.
ReportsAreTrue == NoFalseFailure /\ StatusTellsTruth

Live(s) == handle[s] # NoSlot /\ life[s][handle[s]] = "live"

\* Left alone, with its device there and no other location source in the way, a
\* source that is to run does run in the end, whatever became of it before: a failed
\* device, a cancelled start, a status that was not written or a restart.  That is what
\* the reconciler is for.  Left alone means that failures stop being reported, too: one
\* of an earlier incarnation takes the handle of the next, whose capturer may answer
\* with a failure of its own.
Recovers ==
    \A s \in Sources :
        <>[](/\ s \in Desired /\ plugged[s]
             /\ failures = <<>> /\ op["drain"] = Idle
             /\ \A c \in Clients : op[c].src # s
             /\ s \in Gps => \A g \in Gps \ {s} : handle[g] = NoSlot /\ g \notin Desired)
          => <>[]Live(s)
=============================================================================
