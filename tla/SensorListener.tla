--------------------------- MODULE SensorListener ---------------------------
(* Turning sensor sources on and off (sensor_listener.rs, and the routes of  *)
(* data_sources.rs that call it): each has a listener on the address of its  *)
(* configuration, served by a task of its own, and a window during which     *)
(* sensors may enroll.  A start holds the lock on the table of listeners     *)
(* across its awaits, a stop only while it takes its entry out.              *)
EXTENDS Naturals, FiniteSets

CONSTANTS
    Sources, Addresses,
    Clients,       \* HTTP requests under way at once
    Slots,         \* bound: listener tasks of one source at once
    Nothing,       \* no slot, source, address or process
    MaxRequests,   \* bound: requests made
    MaxFaults,     \* bound: failed statements, cancelled requests
    MaxTaken,      \* bound: times another program takes an address
    MaxRestarts    \* bound: restarts

ListenerAssumption ==
    /\ Slots \subseteq Nat /\ Nothing \notin Slots /\ Nothing \notin Sources /\ Nothing \notin Addresses
    /\ "resume" \notin Clients /\ Nothing \notin Clients /\ Nothing # "resume"
    /\ MaxRequests \in Nat /\ MaxFaults \in Nat /\ MaxTaken \in Nat /\ MaxRestarts \in Nat

Procs == Clients \union {"resume"}

VARIABLES
    rows,      \* the data_source table
    table,     \* the task of each source that is running, if any
    task,      \* what each task is doing, and its address
    windows,   \* sources with an open enrollment window
    lock,      \* who holds the lock on the table
    op,        \* the call each process is in
    want,      \* sources the resume has still to start
    taken,     \* addresses another program holds
    disturbed, \* history: sources a start of which met a stop or a deletion, or a call on
               \* which failed, was cancelled or was cut off by a restart
    requests, faults, takes, restarts

budget == <<requests, takes, restarts>>
vars == <<rows, table, task, windows, lock, op, want, taken, disturbed,
          requests, faults, takes, restarts>>

Op == [call : {"none", "start", "stop", "delete", "edit", "allow"},
       stage : {"idle", "lock", "bind", "running", "error", "await", "stopped", "remove",
                "write", "open"},
       src : Sources \union {Nothing}, slot : Slots \union {Nothing},
       addr : Addresses \union {Nothing}]
Idle == [call |-> "none", stage |-> "idle", src |-> Nothing, slot |-> Nothing,
         addr |-> Nothing]
Free == [state |-> "free", addr |-> Nothing]

Init ==
    /\ rows \in [Sources -> [exists : {TRUE}, desired : {"stopped"}, status : {"stopped"},
                             addr : Addresses]]
    /\ table = [s \in Sources |-> Nothing]
    /\ task = [s \in Sources |-> [i \in Slots |-> Free]]
    /\ windows = {} /\ lock = Nothing
    /\ op = [p \in Procs |-> Idle]
    /\ want = {} /\ taken = {}
    /\ disturbed = {}
    /\ requests = 0 /\ faults = 0 /\ takes = 0 /\ restarts = 0

Fault == faults < MaxFaults /\ faults' = faults + 1

At(p, call, stage) == op[p].call = call /\ op[p].stage = stage
Go(p, stage) == op' = [op EXCEPT ![p].stage = stage]
Done(p) == op' = [op EXCEPT ![p] = Idle]

\* A task holds its address until it has taken note of the shutdown.
Bound(a) ==
    a \in taken \/ \E s \in Sources, i \in Slots :
        task[s][i].addr = a /\ task[s][i].state \in {"serving", "closing"}

\* set_status, whose error is ignored.
SetStatus(s, status) ==
    \/ /\ rows' = IF rows[s].exists THEN [rows EXCEPT ![s].status = status] ELSE rows
       /\ UNCHANGED <<faults, disturbed>>
    \/ Fault /\ disturbed' = disturbed \union {s} /\ UNCHANGED rows

Stops(p) == op[p].call \in {"stop", "delete"}

StartUnderWay(s) == s \in want \/ \E p \in Procs : op[p].call = "start" /\ op[p].src = s
StopUnderWay(s) == \E p \in Procs : Stops(p) /\ op[p].src = s

-----------------------------------------------------------------------------
(* Requests.  The intent is recorded first.                                  *)

Begin(p, call, stage, s) ==
    /\ op[p] = Idle
    /\ op' = [op EXCEPT ![p] = [Idle EXCEPT !.call = call, !.stage = stage, !.src = s]]

Request(s, meets) ==
    /\ requests < MaxRequests /\ rows[s].exists
    /\ requests' = requests + 1
    /\ disturbed' = IF meets THEN disturbed \union {s} ELSE disturbed
    /\ UNCHANGED <<table, task, windows, lock, want, taken, faults, takes, restarts>>

RequestStart(c, s) ==
    /\ Begin(c, "start", "lock", s)
    /\ rows' = [rows EXCEPT ![s].desired = "running"]
    /\ Request(s, StopUnderWay(s))

RequestStop(c, s) ==
    /\ Begin(c, "stop", "lock", s)
    /\ rows' = [rows EXCEPT ![s].desired = "stopped"]
    /\ Request(s, StartUnderWay(s))

\* A source that is running, by its row, is stopped first.
RequestDelete(c, s) ==
    /\ Begin(c, "delete", IF rows[s].status = "running" THEN "lock" ELSE "remove", s)
    /\ UNCHANGED rows /\ Request(s, StartUnderWay(s))

\* update_data_source looks at the row for a source that is running, too.
RequestEdit(c, s) ==
    /\ rows[s].status # "running"
    /\ Begin(c, "edit", "write", s)
    /\ UNCHANGED rows /\ Request(s, FALSE)

RequestAllow(c, s) ==
    /\ Begin(c, "allow", "lock", s)
    /\ UNCHANGED rows /\ Request(s, FALSE)

WriteEdit(c) ==
    /\ At(c, "edit", "write")
    /\ \E a \in Addresses :
          rows' = IF rows[op[c].src].exists THEN [rows EXCEPT ![op[c].src].addr = a] ELSE rows
    /\ Done(c)
    /\ UNCHANGED <<table, task, windows, lock, want, taken, faults, disturbed, budget>>

Remove(c) ==
    /\ At(c, "delete", "remove")
    /\ rows' = [rows EXCEPT ![op[c].src].exists = FALSE]
    /\ Done(c)
    /\ UNCHANGED <<table, task, windows, lock, want, taken, faults, disturbed, budget>>

\* open_enrollment_window: the listener is looked for, then the window opened.
CheckListening(c) ==
    /\ At(c, "allow", "lock") /\ lock = Nothing
    /\ IF table[op[c].src] = Nothing THEN Done(c) ELSE Go(c, "open")
    /\ UNCHANGED <<rows, table, task, windows, lock, want, taken, faults, disturbed, budget>>

OpenWindow(c) ==
    /\ At(c, "allow", "open")
    /\ windows' = windows \union {op[c].src}
    /\ Done(c)
    /\ UNCHANGED <<rows, table, task, lock, want, taken, faults, disturbed, budget>>

WindowExpires(s) ==
    /\ s \in windows /\ windows' = windows \ {s}
    /\ UNCHANGED <<rows, table, task, lock, op, want, taken, faults, disturbed, budget>>

\* The client goes away and its handler is dropped where it waits, and the lock with
\* it.  What a task does goes on.
Cancel(c) ==
    /\ op[c] # Idle /\ Fault
    /\ lock' = IF lock = c THEN Nothing ELSE lock
    /\ Done(c)
    /\ disturbed' = disturbed \union {op[c].src}
    /\ UNCHANGED <<rows, table, task, windows, want, taken, budget>>

-----------------------------------------------------------------------------
(* start.                                                                    *)

StartNothing(p) ==
    /\ At(p, "start", "lock") /\ lock = Nothing
    /\ table[op[p].src] # Nothing \/ ~rows[op[p].src].exists
    /\ Done(p)
    /\ UNCHANGED <<rows, table, task, windows, lock, want, taken, faults, disturbed, budget>>

ReadAddress(p) ==
    /\ At(p, "start", "lock") /\ lock = Nothing
    /\ table[op[p].src] = Nothing /\ rows[op[p].src].exists
    /\ lock' = p
    /\ op' = [op EXCEPT ![p].stage = "bind", ![p].addr = rows[op[p].src].addr]
    /\ UNCHANGED <<rows, table, task, windows, want, taken, faults, disturbed, budget>>

\* Binds, spawns the task and records it without another await.
BindAndServe(p) ==
    /\ At(p, "start", "bind") /\ ~Bound(op[p].addr)
    /\ \E i \in Slots :
          /\ task[op[p].src][i] = Free
          /\ \A j \in Slots : task[op[p].src][j] = Free => i <= j
          /\ task' = [task EXCEPT ![op[p].src][i] = [state |-> "serving", addr |-> op[p].addr]]
          /\ table' = [table EXCEPT ![op[p].src] = i]
    /\ Go(p, "running")
    /\ UNCHANGED <<rows, windows, lock, want, taken, faults, disturbed, budget>>

BindFails(p) ==
    /\ At(p, "start", "bind") /\ Bound(op[p].addr)
    /\ Go(p, "error")
    /\ UNCHANGED <<rows, table, task, windows, lock, want, taken, faults, disturbed, budget>>

WriteStarted(p) ==
    /\ op[p].call = "start" /\ op[p].stage \in {"running", "error"}
    /\ SetStatus(op[p].src, op[p].stage)
    /\ lock' = Nothing /\ Done(p)
    /\ UNCHANGED <<table, task, windows, want, taken, budget>>

-----------------------------------------------------------------------------
(* stop.                                                                     *)

\* Mutant: the handle is dropped before the listener is told.
TakeOutUntold(p) ==
    /\ Stops(p) /\ op[p].stage = "lock" /\ lock = Nothing
    /\ table' = [table EXCEPT ![op[p].src] = Nothing]
    /\ Go(p, "stopped") /\ UNCHANGED task
    /\ UNCHANGED <<rows, windows, lock, want, taken, faults, disturbed, budget>>

\* The entry is taken out and the shutdown sent; without an entry only the row is
\* written.
TakeOut(p) ==
    /\ Stops(p) /\ op[p].stage = "lock" /\ lock = Nothing
    /\ LET s == op[p].src
           i == table[s]
       IN  IF i = Nothing
           THEN Go(p, "stopped") /\ UNCHANGED <<table, task>>
           ELSE /\ table' = [table EXCEPT ![s] = Nothing]
                /\ task' = [task EXCEPT ![s][i].state = "closing"]
                /\ op' = [op EXCEPT ![p].stage = "await", ![p].slot = i]
    /\ UNCHANGED <<rows, windows, lock, want, taken, faults, disturbed, budget>>

\* The task closes its socket, and ends with its last connection.
ShutDown(s, i) ==
    /\ \/ /\ task[s][i].state = "closing"
          /\ task' = [task EXCEPT ![s][i].state = "draining"]
       \/ /\ task[s][i].state = "draining"
          /\ task' = [task EXCEPT ![s][i] = Free]
    /\ UNCHANGED <<rows, table, windows, lock, op, want, taken, faults, disturbed, budget>>

TaskEnded(p) ==
    /\ Stops(p) /\ op[p].stage = "await"
    /\ task[op[p].src][op[p].slot] = Free
    /\ Go(p, "stopped")
    /\ UNCHANGED <<rows, table, task, windows, lock, want, taken, faults, disturbed, budget>>

WriteStopped(p) ==
    /\ Stops(p) /\ op[p].stage = "stopped"
    /\ SetStatus(op[p].src, "stopped")
    /\ IF op[p].call = "delete" THEN Go(p, "remove") ELSE Done(p)
    /\ UNCHANGED <<table, task, windows, lock, want, taken, budget>>

-----------------------------------------------------------------------------
(* The process and its host.                                                 *)

\* Another program binds an address that is free, and lets go of it.
Take(a) ==
    /\ ~Bound(a) /\ takes < MaxTaken
    /\ taken' = taken \union {a} /\ takes' = takes + 1
    /\ UNCHANGED <<rows, table, task, windows, lock, op, want, disturbed, requests, faults,
                   restarts>>

LetGo(a) ==
    /\ a \in taken /\ taken' = taken \ {a}
    /\ UNCHANGED <<rows, table, task, windows, lock, op, want, faults, disturbed, budget>>

\* Everything but the table of sources is in memory; resume_running lists those the
\* user left running.
Restart ==
    /\ restarts < MaxRestarts /\ restarts' = restarts + 1
    /\ table' = [s \in Sources |-> Nothing]
    /\ task' = [s \in Sources |-> [i \in Slots |-> Free]]
    /\ windows' = {} /\ lock' = Nothing
    /\ op' = [p \in Procs |-> Idle]
    /\ want' = {s \in Sources : rows[s].exists /\ rows[s].desired = "running"}
    /\ disturbed' = disturbed \union {op[p].src : p \in {q \in Procs : op[q].call = "stop"}}
    /\ UNCHANGED <<rows, taken, requests, faults, takes>>

ResumeNext ==
    /\ \E s \in want : want' = want \ {s} /\ Begin("resume", "start", "lock", s)
    /\ UNCHANGED <<rows, table, task, windows, lock, taken, faults, disturbed, budget>>

Acquire(p) == StartNothing(p) \/ ReadAddress(p) \/ TakeOut(p) \/ CheckListening(p)

Proceed(p) ==
    \/ BindAndServe(p) \/ BindFails(p) \/ WriteStarted(p) \/ TaskEnded(p) \/ WriteStopped(p)
    \/ WriteEdit(p) \/ Remove(p) \/ OpenWindow(p)
    \/ p = "resume" /\ ResumeNext

Next ==
    \/ \E p \in Procs : Acquire(p) \/ Proceed(p)
    \/ \E c \in Clients : \/ Cancel(c)
                          \/ \E s \in Sources : \/ RequestStart(c, s) \/ RequestStop(c, s)
                                                \/ RequestDelete(c, s) \/ RequestEdit(c, s)
                                                \/ RequestAllow(c, s)
    \/ \E s \in Sources : WindowExpires(s) \/ \E i \in Slots : ShutDown(s, i)
    \/ \E a \in Addresses : Take(a) \/ LetGo(a)
    \/ Restart

Spec == Init /\ [][Next]_vars
-----------------------------------------------------------------------------
(* Properties.                                                               *)

\* Every variable keeps its type.
TypeOK ==
    /\ rows \in [Sources -> [exists : BOOLEAN, desired : {"running", "stopped"},
                             status : {"running", "stopped", "error"}, addr : Addresses]]
    /\ table \in [Sources -> Slots \union {Nothing}]
    /\ task \in [Sources -> [Slots -> [state : {"free", "serving", "closing", "draining"},
                                       addr : Addresses \union {Nothing}]]]
    /\ windows \subseteq Sources /\ lock \in Procs \union {Nothing}
    /\ op \in [Procs -> Op]
    /\ want \subseteq Sources /\ taken \subseteq Addresses /\ disturbed \subseteq Sources
    /\ requests \in 0 .. MaxRequests /\ faults \in 0 .. MaxFaults
    /\ takes \in 0 .. MaxTaken /\ restarts \in 0 .. MaxRestarts

Serving(s) == \E i \in Slots : task[s][i].state = "serving"

\* A task that accepts connections is the one in the table, and so no source has two,
\* whatever is cancelled, fails or overlaps.  Stop and delete find it there as long as its
\* row exists: one whose row a delete took away while it was being started serves on, with
\* no row to stop it by, until the process ends.
NoOrphanListener ==
    \A s \in Sources, i \in Slots : task[s][i].state = "serving" => table[s] = i

Quiet(s) == ~StartUnderWay(s) /\ ~StopUnderWay(s)

Truth(s) ==
    IF rows[s].exists THEN rows[s].status = "running" <=> Serving(s) ELSE ~Serving(s)

\* Starts may overlap starts, stops and deletes each other, edits and windows all of them,
\* and a restart may come after any of these: once they are through with a source its status
\* is running exactly if its listener accepts connections, and a source that was deleted has
\* none.  Not so of a start that meets a stop or a delete (the one overwrites what the other
\* wrote, or serves on without a row), nor of a call that fails or is cancelled half way.
TruthWhenUndisturbed == \A s \in Sources : Quiet(s) /\ s \notin disturbed => Truth(s)

\* The listener that serves a source is the one in the table, and calls other than a start
\* that meets a stop or a delete leave the row of the source true.
ListenersAreKnown == TypeOK /\ NoOrphanListener /\ TruthWhenUndisturbed
=============================================================================
