----------------------- MODULE CaptureSupervisorProofs -----------------------
(***************************************************************************)
(* Theorems about CaptureSupervisor, for every set of sources and clients,  *)
(* however many requests, faults and failing devices, and about the alerts  *)
(* that are beside it in MCCaptureSupervisor.                               *)
(*                                                                         *)
(* The former rest on the lock: between taking it and giving it back a call   *)
(* waits many times, and what it found out before a wait must still hold    *)
(* after it.                                                               *)
(***************************************************************************)
EXTENDS MCCaptureSupervisor, FiniteSetTheorems, TLAPS

\* A call in progress has a source, and a sweep only waits for the lock.
Sound(o) ==
    /\ o \in Op
    /\ o.stage = "idle" => o = Idle
    /\ o.call = "none" => o.stage = "idle"
    /\ o.call = "sweep" => o.stage = "lock"
    /\ o.stage # "idle" /\ o.call # "sweep" => o.src \in Sources

\* Strengthening: one call at a time is past the lock.
CallsInv ==
    /\ lock \in Procs \cup {NoProc}
    /\ op \in [Procs -> Op]
    /\ \A p \in Procs : Sound(op[p]) /\ (InLock(p) <=> lock = p)

\* Strengthening: a source is spawned into an open session, and a session in memory is one
\* of the database.
SessionInv ==
    /\ session => db_open
    /\ \A s \in Sources : handle[s] # NoSlot => session /\ <<s, handle[s]>> \in attached
    /\ \A p \in Procs : At(p, "spawn") => session

\* Strengthening: what was checked for a location source at the beginning of its start
\* still holds when it is spawned.
LocationInv ==
    /\ \A s, t \in Gps : handle[s] # NoSlot /\ handle[t] # NoSlot => s = t
    /\ \A p \in Procs : op[p].stage \in {"build", "session", "spawn"} /\ op[p].src \in Gps => ~GpsRuns

\* Strengthening: a channel closes by itself only when a device has died.
Calm ==
    /\ failures = <<>> /\ op["drain"] = Idle
    /\ \A s \in Sources, i \in Slots : life[s][i] # "closed"
FailureInv == deaths = 0 => Calm

\* The row of s tells the truth.
Told(s) == rows[s].status = "running" <=> handle[s] # NoSlot

\* Where in a call its source has a handle or none, and where the row is still to be written.
Without == {"reject", "build", "session", "spawn", "error", "teardown", "stopped", "failed"}
Untold == {"status", "teardown", "stopped", "failed"}

\* Strengthening: without faults, a row that does not tell the truth is about to be written.
Truth ==
    /\ \A p \in Procs : /\ op[p].stage = "status" => handle[op[p].src] # NoSlot
                        /\ op[p].stage \in Without => handle[op[p].src] = NoSlot
    /\ \A s \in Sources :
          rows[s].exists => Told(s) \/ \E p \in Procs : op[p].stage \in Untold /\ op[p].src = s
TruthInv == faults = 0 => Truth

-----------------------------------------------------------------------------
(* Calls and the lock. *)

ProcNames == /\ "drain" \in Procs /\ "resume" \in Procs /\ "reconcile" \in Procs
             /\ Sweepers \subseteq Procs /\ Clients \subseteq Procs /\ NoProc \notin Procs

LEMMA Names == ProcNames
    BY SupervisorAssumption DEF ProcNames, Procs, Sweepers

LEMMA IdleSound == Sound(Idle) /\ Idle.stage = "idle" /\ Idle.call = "none"
    BY DEF Sound, Idle, Op

LEMMA InitCalls == Init => CallsInv
    BY IdleSound, Names DEF Init, CallsInv, InLock, ProcNames, Sound

\* The lock is taken by p, given back by it or stays; "in" says whether p has it then.
LockMoves(p, in) ==
    /\ lock' \in {lock, p, NoProc} /\ (lock' # lock => lock \in {p, NoProc})
    /\ in <=> lock' = p

LEMMA CallMoves ==
    ASSUME CallsInv, NEW p \in Procs, NEW o, Sound(o), op' = [op EXCEPT ![p] = o],
           LockMoves(p, o.stage \notin {"idle", "lock", "remove"})
    PROVE  CallsInv'
    <1>1. /\ op' \in [Procs -> Op] /\ op'[p] = o
          /\ \A q \in Procs \ {p} : op'[q] = op[q]
        BY DEF CallsInv, Sound
    <1>2. lock' \in Procs \cup {NoProc}
        BY DEF CallsInv, LockMoves
    <1>3. ASSUME NEW q \in Procs \ {p}
          PROVE  lock' = q <=> lock = q
        BY Names DEF LockMoves, ProcNames
    <1>4. QED
        BY <1>1, <1>2, <1>3 DEF CallsInv, LockMoves, InLock

LEMMA CallStays ==
    ASSUME CallsInv, UNCHANGED <<op, lock>>
    PROVE  CallsInv'
    BY DEF CallsInv, InLock

\* A call that goes on.
LEMMA GoMoves ==
    ASSUME CallsInv, NEW p \in Procs, op[p].stage # "idle", op[p].call # "sweep",
           NEW s \in {"reject", "build", "session", "spawn", "status", "error", "stopped", "failed", "close",
                      "remove"},
           Go(p, s), LockMoves(p, s # "remove")
    PROVE  CallsInv' /\ op'[p].src = op[p].src /\ op'[p].stage = s /\ op'[p].call = op[p].call
    <1> DEFINE o == [op[p] EXCEPT !.stage = s]
    <1>1. op[p] \in Op /\ Sound(op[p]) /\ op \in [Procs -> Op]
        BY DEF CallsInv
    <1>2. /\ o \in Op /\ o.stage = s /\ o.call = op[p].call /\ o.src = op[p].src
          /\ op' = [op EXCEPT ![p] = o]
        BY <1>1 DEF Op, Go
    <1>3. Sound(o)
        BY <1>1, <1>2 DEF Sound
    <1>4. LockMoves(p, o.stage \notin {"idle", "lock", "remove"})
        BY <1>2 DEF LockMoves
    <1> HIDE DEF o
    <1>5. op'[p] = o
        BY <1>1, <1>2
    <1>6. QED
        BY <1>2, <1>3, <1>4, <1>5, CallMoves

\* A call that ends.
LEMMA DoneMoves ==
    ASSUME CallsInv, NEW p \in Procs, Done(p), LockMoves(p, FALSE)
    PROVE  CallsInv' /\ op'[p] = Idle
    <1>1. op' = [op EXCEPT ![p] = Idle] /\ op \in [Procs -> Op]
        BY DEF Done, CallsInv
    <1>2. LockMoves(p, Idle.stage \notin {"idle", "lock", "remove"})
        BY IdleSound DEF LockMoves
    <1>3. QED
        BY <1>1, <1>2, IdleSound, CallMoves

\* A call that begins.
LEMMA BeginMoves ==
    ASSUME CallsInv, NEW p \in Procs, op[p] = Idle, UNCHANGED lock,
           NEW call \in {"start", "stop", "delete", "failure", "sweep"}, NEW s \in Sources \cup {NoSource},
           NEW stage \in {"lock", "remove"}, Call(p, call, stage, s),
           call # "sweep" => s \in Sources, call = "sweep" => stage = "lock"
    PROVE  /\ CallsInv'
           /\ op'[p] = [call |-> call, stage |-> stage, src |-> s, slot |-> NoSlot]
    <1> DEFINE o == [call |-> call, stage |-> stage, src |-> s, slot |-> NoSlot]
    <1>1. op' = [op EXCEPT ![p] = o] /\ op \in [Procs -> Op]
        BY DEF Call, CallsInv
    <1>2. Sound(o) /\ o.stage = stage
        BY DEF Sound, Op
    <1>3. lock # p
        BY IdleSound DEF CallsInv, InLock
    <1>4. LockMoves(p, o.stage \notin {"idle", "lock", "remove"})
        BY <1>2, <1>3 DEF LockMoves
    <1> HIDE DEF o
    <1>5. op'[p] = o
        BY <1>1
    <1>6. QED
        BY <1>1, <1>2, <1>4, <1>5, CallMoves DEF o

\* Past the lock, a call is one that has a source, and nobody else is.
LEMMA Past ==
    ASSUME CallsInv, NEW p \in Procs, InLock(p)
    PROVE  /\ lock = p /\ op[p].src \in Sources /\ op[p].stage # "idle"
           /\ op[p].call \notin {"none", "sweep"} /\ p # NoProc
           /\ \A q \in Procs \ {p} : ~InLock(q)
    BY Names DEF CallsInv, InLock, Sound, ProcNames

LEMMA ProceedCalls ==
    ASSUME CallsInv, NEW p \in Procs, Proceed(p), failures \in Seq(Sources),
           \A q \in Sweepers : want[q] \subseteq Sources
    PROVE  CallsInv'
    <1>1. CASE InLock(p)
        <2>1. /\ lock = p /\ op[p].src \in Sources /\ op[p].stage # "idle"
              /\ op[p].call \notin {"none", "sweep"} /\ p # NoProc
            BY <1>1, Past
        <2>2. /\ lock' = p => LockMoves(p, TRUE)
              /\ lock' = NoProc => LockMoves(p, FALSE)
            BY <2>1 DEF LockMoves
        <2>3. CASE Build(p) \/ EnsureSession(p) \/ (WriteFailed /\ p = "drain")
            BY <2>1, <2>2, <2>3, GoMoves DEF Build, EnsureSession, WriteFailed
        <2>4. CASE Reject(p) \/ WriteRunning(p)
            BY <2>1, <2>2, <2>4, DoneMoves DEF Reject, WriteRunning, Release
        <2>5. CASE Spawn(p)
            <3>1. lock' = lock /\ (Go(p, "error") \/ Go(p, "status"))
                BY <2>5 DEF Spawn
            <3>2. QED
                BY <2>1, <2>2, <3>1, GoMoves
        <2>6. CASE WriteError(p)
            BY <2>1, <2>2, <2>6, GoMoves, DoneMoves DEF WriteError, Release
        <2>7. CASE CloseIfIdle(p)
            <3>1. lock' = NoProc /\ (Go(p, "remove") \/ Done(p))
                BY <2>7 DEF CloseIfIdle, Release
            <3>2. QED
                BY <2>1, <2>2, <3>1, GoMoves, DoneMoves
        <2>8. CASE WriteStopped(p)
            <3>1. \/ lock' = lock /\ Go(p, "close")
                  \/ lock' = NoProc /\ (Go(p, "remove") \/ Done(p))
                BY <2>8 DEF WriteStopped, Release, AfterStop
            <3>2. QED
                BY <2>1, <2>2, <3>1, GoMoves, DoneMoves
        <2>9. CASE ReaderDone(p)
            <3> DEFINE o == [op[p] EXCEPT !.stage = "stopped", !.slot = NoSlot]
            <3>1. op[p] \in Op /\ Sound(op[p]) /\ op \in [Procs -> Op]
                BY DEF CallsInv
            <3>2. /\ o \in Op /\ o.stage = "stopped" /\ o.call = op[p].call /\ o.src = op[p].src
                  /\ op' = [op EXCEPT ![p] = o] /\ lock' = p
                BY <2>1, <2>9, <3>1 DEF Op, ReaderDone
            <3>3. Sound(o)
                BY <2>1, <3>1, <3>2 DEF Sound
            <3> HIDE DEF o
            <3>4. QED
                BY <2>2, <3>2, <3>3, CallMoves
        <2>10. CASE Remove(p) \/ StartNextOf(p) \/ (TakeFailure /\ p = "drain")
            BY <1>1, <2>10, IdleSound DEF Remove, StartNextOf, TakeFailure, InLock, At
        <2>11. CASE ListToResume \/ (ListToReconcile /\ p = "reconcile")
            BY <1>1, <2>11, CallStays, IdleSound DEF ListToResume, ListToReconcile, InLock
        <2>12. QED
            BY <2>3, <2>4, <2>5, <2>6, <2>7, <2>8, <2>9, <2>10, <2>11 DEF Proceed
    <1>2. CASE ~InLock(p)
        <2>1. lock # p
            BY <1>2 DEF CallsInv
        <2>2. CASE Remove(p)
            BY <2>1, <2>2, DoneMoves DEF Remove, LockMoves
        <2>3. CASE StartNextOf(p) /\ p \in Sweepers
            <3>1. PICK s \in want[p] : Call(p, "start", "lock", s)
                BY <2>3 DEF StartNextOf
            <3>2. s \in Sources /\ op[p] = Idle /\ lock' = lock
                BY <2>3 DEF StartNextOf
            <3>3. QED
                BY <3>1, <3>2, BeginMoves
        <2>4. CASE TakeFailure /\ p = "drain"
            <3>1. Head(failures) \in Sources
                BY <2>4 DEF TakeFailure
            <3>2. QED
                BY <2>4, <3>1, BeginMoves DEF TakeFailure
        <2>5. CASE ListToResume
            BY <2>5, CallStays DEF ListToResume
        <2>6. CASE ListToReconcile /\ p = "reconcile"
            BY <2>6, BeginMoves DEF ListToReconcile
        <2>7. QED
            BY <1>2, <2>2, <2>3, <2>4, <2>5, <2>6 DEF Proceed, Build, Reject, EnsureSession, Spawn, WriteRunning,
               WriteError, CloseIfIdle, ReaderDone, WriteStopped, WriteFailed, InLock, At
    <1>3. QED
        BY <1>1, <1>2

LEMMA AcquireCalls ==
    ASSUME CallsInv, handle \in [Sources -> Slots \cup {NoSlot}], NEW p \in Procs, Acquire(p)
    PROVE  CallsInv'
    <1>1. /\ lock = NoProc /\ lock # p /\ ~InLock(p)
        BY Names DEF Acquire, StartNothing, BeginStart, StopNothing, BeginStop, DropHandle, KeepNotRunning, Hold,
               CallsInv, ProcNames
    <1>2. /\ lock' = p => LockMoves(p, TRUE)
          /\ lock' = NoProc => LockMoves(p, FALSE)
        BY <1>1 DEF LockMoves
    <1>3. CASE StartNothing(p)
        BY <1>1, <1>2, <1>3, DoneMoves DEF StartNothing
    <1>4. CASE BeginStart(p)
        <2>1. lock' = p /\ (Go(p, "reject") \/ Go(p, "build")) /\ op[p].stage = "lock" /\ op[p].call = "start"
            BY <1>4 DEF BeginStart, Hold, At
        <2>2. QED
            BY <1>2, <2>1, GoMoves
    <1>5. CASE StopNothing(p)
        <2>1. lock' = NoProc /\ (Go(p, "remove") \/ Done(p)) /\ op[p].stage = "lock" /\ op[p].call # "sweep"
            BY <1>1, <1>5 DEF StopNothing, AfterStop, At
        <2>2. QED
            BY <1>2, <2>1, GoMoves, DoneMoves
    <1>6. CASE BeginStop(p)
        <2>1. lock' = p /\ op[p].stage = "lock" /\ op[p].call \in {"stop", "delete"}
            BY <1>6 DEF BeginStop, Hold, At
        <2>2. CASE op[p].src \in Gps
            <3>1. Go(p, "stopped")
                BY <1>6, <2>2 DEF BeginStop
            <3>2. QED
                BY <1>2, <2>1, <3>1, GoMoves
        <2>3. CASE op[p].src \notin Gps
            <3> DEFINE o == [op[p] EXCEPT !.stage = "teardown", !.slot = handle[op[p].src]]
            <3>1. op[p] \in Op /\ Sound(op[p]) /\ op \in [Procs -> Op]
                BY DEF CallsInv
            <3>2. op[p].src \in Sources /\ handle[op[p].src] \in Slots \cup {NoSlot}
                BY <2>1, <3>1 DEF Sound
            <3>3. /\ o \in Op /\ o.stage = "teardown" /\ o.call = op[p].call /\ o.src = op[p].src
                  /\ op' = [op EXCEPT ![p] = o]
                BY <1>6, <2>3, <3>1, <3>2 DEF Op, BeginStop
            <3>4. Sound(o)
                BY <2>1, <3>1, <3>3 DEF Sound
            <3> HIDE DEF o
            <3>5. QED
                BY <1>2, <2>1, <3>3, <3>4, CallMoves
        <2>4. QED
            BY <2>2, <2>3
    <1>7. CASE DropHandle /\ p = "drain"
        <2>1. /\ op[p].stage = "lock" /\ op[p].call = "failure"
              /\ \/ lock' = lock /\ Done(p)
                 \/ lock' = p /\ Go(p, "failed")
            BY <1>7 DEF DropHandle, Hold, At
        <2>2. QED
            BY <1>1, <1>2, <2>1, GoMoves, DoneMoves
    <1>8. CASE KeepNotRunning /\ p = "reconcile"
        BY <1>1, <1>2, <1>8, DoneMoves DEF KeepNotRunning
    <1>9. QED
        BY <1>3, <1>4, <1>5, <1>6, <1>7, <1>8 DEF Acquire

LEMMA RequestCalls ==
    ASSUME CallsInv, NEW c \in Clients,
           Cancel(c) \/ \E s \in Sources : RequestStart(c, s) \/ RequestStop(c, s) \/ RequestDelete(c, s)
    PROVE  CallsInv'
    <1>1. c \in Procs
        BY Names DEF ProcNames
    <1>2. ASSUME NEW s \in Sources, RequestStart(c, s) \/ RequestStop(c, s)
          PROVE  CallsInv'
        BY <1>1, <1>2, BeginMoves DEF RequestStart, RequestStop, Request
    <1>3. ASSUME NEW s \in Sources, RequestDelete(c, s)
          PROVE  CallsInv'
        <2>1. (Call(c, "delete", "lock", s) \/ Call(c, "delete", "remove", s)) /\ lock' = lock /\ op[c] = Idle
            BY <1>3 DEF RequestDelete, Request
        <2>2. QED
            BY <1>1, <2>1, BeginMoves
    <1>4. CASE Cancel(c) /\ op[c].call = "start"
        <2>1. Done(c) /\ lock' = IF lock = c THEN NoProc ELSE lock
            BY <1>4 DEF Cancel
        <2>2. LockMoves(c, FALSE)
            BY <1>1, <2>1, Names DEF LockMoves, ProcNames
        <2>3. QED
            BY <1>1, <2>1, <2>2, DoneMoves
    <1>5. CASE Cancel(c) /\ op[c].call = "delete"
        <2>1. /\ op' = [op EXCEPT ![c] = IF At(c, "remove") THEN Idle ELSE [@ EXCEPT !.call = "stop"]]
              /\ lock' = lock
            BY <1>5 DEF Cancel
        <2>2. op \in [Procs -> Op] /\ op[c] \in Op /\ Sound(op[c]) /\ (InLock(c) <=> lock = c)
            BY <1>1 DEF CallsInv
        <2>3. CASE At(c, "remove")
            <3>1. Done(c) /\ LockMoves(c, FALSE)
                BY <2>1, <2>2, <2>3 DEF Done, LockMoves, At, InLock
            <3>2. QED
                BY <1>1, <3>1, DoneMoves
        <2>4. CASE ~At(c, "remove")
            <3> DEFINE o == [op[c] EXCEPT !.call = "stop"]
            <3>1. /\ o \in Op /\ o.stage = op[c].stage /\ o.call = "stop" /\ o.src = op[c].src
                  /\ op' = [op EXCEPT ![c] = o]
                BY <2>1, <2>2, <2>4 DEF Op
            <3>2. op[c].stage # "idle"
                BY <1>5, <2>2, IdleSound DEF Sound
            <3>3. Sound(o) /\ LockMoves(c, o.stage \notin {"idle", "lock", "remove"})
                BY <1>5, <2>1, <2>2, <3>1, <3>2 DEF Sound, LockMoves, InLock
            <3> HIDE DEF o
            <3>4. QED
                BY <1>1, <3>1, <3>3, CallMoves
        <2>5. QED
            BY <2>3, <2>4
    <1>6. QED
        BY <1>2, <1>3, <1>4, <1>5 DEF Cancel

-----------------------------------------------------------------------------
(* Types. *)

WorldType ==
    /\ rows \in [Sources -> Row]
    /\ handle \in [Sources -> Slots \cup {NoSlot}]
    /\ life \in [Sources -> [Slots -> Lives]]
    /\ attached \subseteq Sources \X Slots
    /\ session \in BOOLEAN /\ db_open \in BOOLEAN
    /\ failures \in Seq(Sources)
    /\ want \in [Sweepers -> SUBSET Sources]
    /\ resumed \in BOOLEAN
    /\ plugged \in [Sources -> BOOLEAN]
    /\ requests \in 0..MaxRequests /\ deaths \in 0..MaxDeaths /\ faults \in 0..MaxFaults

SupInv == CallsInv /\ WorldType

LEMMA TypeParts == SupInv => TypeOK
    BY DEF SupInv, CallsInv, WorldType, TypeOK, Sound

\* Nothing runs: at the start, and after a restart.
LEMMA NothingLives ==
    /\ [s \in Sources |-> NoSlot] \in [Sources -> Slots \cup {NoSlot}]
    /\ [s \in Sources |-> [i \in Slots |-> "free"]] \in [Sources -> [Slots -> Lives]]
    /\ [p \in Sweepers |-> {}] \in [Sweepers -> SUBSET Sources]
    /\ <<>> \in Seq(Sources)
    <1>1. [i \in Slots |-> "free"] \in [Slots -> Lives]
        BY DEF Lives
    <1>2. QED
        BY <1>1

LEMMA InitWorld == Init => WorldType
    <1> SUFFICES ASSUME Init PROVE WorldType
        OBVIOUS
    <1>1. rows \in [Sources -> Row]
        BY DEF Init, Row
    <1>2. requests \in 0..MaxRequests /\ deaths \in 0..MaxDeaths /\ faults \in 0..MaxFaults
        BY SupervisorAssumption DEF Init
    <1>3. /\ handle \in [Sources -> Slots \cup {NoSlot}] /\ life \in [Sources -> [Slots -> Lives]]
          /\ want \in [Sweepers -> SUBSET Sources] /\ failures \in Seq(Sources)
        BY NothingLives DEF Init
    <1>4. /\ attached \subseteq Sources \X Slots /\ session \in BOOLEAN /\ db_open \in BOOLEAN
          /\ resumed \in BOOLEAN /\ plugged \in [Sources -> BOOLEAN]
        BY DEF Init
    <1>5. QED
        BY <1>1, <1>2, <1>3, <1>4 DEF WorldType

\* What a step may do to the rows and to the number of faults.
RowsType == rows' \in [Sources -> Row] /\ faults' \in 0..MaxFaults

LEMMA FaultType ==
    ASSUME WorldType, Fault
    PROVE  faults' \in 0..MaxFaults
    BY SupervisorAssumption DEF WorldType, Fault

LEMMA SetStatusType ==
    ASSUME WorldType, NEW s, NEW t \in {"running", "stopped", "error"}, SetStatus(s, t) \/ SetStatusFails(s)
    PROVE  RowsType
    <1>1. CASE SetStatus(s, t)
        <2>1. rows' = [rows EXCEPT ![s].status = t] /\ faults' = faults
            BY <1>1 DEF SetStatus
        <2>2. \A r \in Row : [r EXCEPT !.status = t] \in Row
            BY DEF Row
        <2>3. QED
            BY <2>1, <2>2 DEF WorldType, RowsType
    <1>2. CASE SetStatusFails(s)
        BY <1>2, FaultType DEF SetStatusFails, WorldType, RowsType
    <1>3. QED
        BY <1>1, <1>2

LifeType == life' \in [Sources -> [Slots -> Lives]]

LEMMA LifeUpdate ==
    ASSUME WorldType, NEW s, NEW i, NEW l \in Lives, life' = [life EXCEPT ![s][i] = l]
    PROVE  LifeType
    BY DEF WorldType, LifeType

LEMMA TypeStays ==
    ASSUME WorldType, RowsType, LifeType,
           handle' \in [Sources -> Slots \cup {NoSlot}], attached' \subseteq Sources \X Slots,
           session' \in BOOLEAN, db_open' \in BOOLEAN, UNCHANGED <<failures, want, resumed, world>>
    PROVE  WorldType'
    BY DEF WorldType, RowsType, LifeType, world

LEMMA ProceedWorld ==
    ASSUME CallsInv, WorldType, NEW p \in Procs, Proceed(p)
    PROVE  WorldType'
    <1>1. CASE Build(p) \/ ReaderDone(p)
        BY <1>1 DEF Build, ReaderDone, table, sweep, world, WorldType
    <1>2. CASE Reject(p) \/ WriteRunning(p) \/ WriteError(p) \/ WriteStopped(p) \/ WriteFailed
        <2>1. RowsType
            BY <1>2, SetStatusType DEF Reject, WriteRunning, WriteError, WriteStopped, WriteFailed
        <2>2. UNCHANGED <<handle, life, attached, session, db_open, failures, want, resumed, world>>
            BY <1>2 DEF Reject, WriteRunning, WriteError, WriteStopped, WriteFailed, sweep
        <2>3. QED
            BY <2>1, <2>2, TypeStays DEF WorldType, LifeType
    <1>3. CASE EnsureSession(p)
        BY <1>3, FaultType DEF EnsureSession, table, sweep, world, WorldType
    <1>4. CASE Spawn(p)
        <2>1. InLock(p) /\ op[p].src \in Sources
            BY <1>4, Past DEF Spawn, InLock, At
        <2>2. CASE op[p].src \notin Gps /\ ~plugged[op[p].src]
            BY <1>4, <2>2 DEF Spawn, sweep, world, WorldType
        <2>3. CASE ~(op[p].src \notin Gps /\ ~plugged[op[p].src])
            <3>1. PICK i \in Slots :
                      /\ life' = [life EXCEPT ![op[p].src][i] = "live"]
                      /\ handle' = [handle EXCEPT ![op[p].src] = i]
                      /\ attached' = attached \cup {<<op[p].src, i>>}
                BY <1>4, <2>3 DEF Spawn
            <3>2. LifeType
                BY <3>1, LifeUpdate DEF Lives
            <3>3. UNCHANGED <<rows, session, db_open, failures, want, resumed, world, faults>>
                BY <1>4 DEF Spawn, sweep
            <3>4. QED
                BY <2>1, <3>1, <3>2, <3>3, TypeStays DEF WorldType, RowsType
        <2>4. QED
            BY <2>2, <2>3
    <1>5. CASE CloseIfIdle(p)
        <2>1. /\ attached' \in {attached, {}} /\ session' \in {session, FALSE} /\ db_open' \in {db_open, FALSE}
              /\ faults' = faults \/ Fault
            BY <1>5 DEF CloseIfIdle
        <2>2. UNCHANGED <<rows, handle, life, failures, want, resumed, requests, plugged, deaths>>
            BY <1>5 DEF CloseIfIdle, table, sweep, world
        <2>3. QED
            BY <2>1, <2>2, FaultType DEF WorldType
    <1>6. CASE TakeFailure
        BY <1>6 DEF TakeFailure, table, sweep, world, WorldType
    <1>7. CASE StartNextOf(p) /\ p \in Sweepers
        BY <1>7 DEF StartNextOf, table, world, WorldType
    <1>8. CASE ListToResume
        BY <1>8 DEF ListToResume, table, world, WorldType, Sweepers, Desired
    <1>9. CASE ListToReconcile
        BY <1>9 DEF ListToReconcile, table, world, WorldType, Sweepers, Desired
    <1>10. CASE Remove(p)
        <2>1. \A r \in Row : [r EXCEPT !.exists = FALSE] \in Row
            BY DEF Row
        <2>2. RowsType
            BY <1>10, <2>1 DEF Remove, WorldType, RowsType
        <2>3. UNCHANGED <<handle, life, attached, session, db_open, failures, want, resumed, world>>
            BY <1>10 DEF Remove, sweep
        <2>4. QED
            BY <2>2, <2>3, TypeStays DEF WorldType, LifeType
    <1>11. QED
        BY <1>1, <1>2, <1>3, <1>4, <1>5, <1>6, <1>7, <1>8, <1>9, <1>10 DEF Proceed

LEMMA AcquireWorld ==
    ASSUME CallsInv, WorldType, NEW p \in Procs, Acquire(p)
    PROVE  WorldType'
    <1>1. CASE StartNothing(p) \/ BeginStart(p)
        BY <1>1 DEF StartNothing, BeginStart, table, sweep, world, WorldType
    <1>2. CASE StopNothing(p)
        <2>1. RowsType
            BY <1>2, SetStatusType DEF StopNothing, RowsType, WorldType
        <2>2. UNCHANGED <<handle, life, attached, session, db_open, failures, want, resumed, world>>
            BY <1>2 DEF StopNothing, sweep
        <2>3. QED
            BY <2>1, <2>2, TypeStays DEF WorldType, LifeType
    <1>3. CASE BeginStop(p)
        <2> DEFINE s == op[p].src
                   i == handle[s]
        <2>1. /\ handle' = [handle EXCEPT ![s] = NoSlot]
              /\ attached' \subseteq attached
              /\ \/ life' = [life EXCEPT ![s][i] = "free"]
                 \/ life' = [life EXCEPT ![s][i] = Teardown(@)]
            BY <1>3 DEF BeginStop
        <2>2. LifeType
            BY <2>1, LifeUpdate DEF Teardown, Lives, WorldType, LifeType
        <2>3. UNCHANGED <<rows, session, db_open, failures, want, resumed, world, faults>>
            BY <1>3 DEF BeginStop, sweep
        <2>4. QED
            BY <2>1, <2>2, <2>3, TypeStays DEF WorldType, RowsType
    <1>4. CASE DropHandle
        <2> DEFINE s == op["drain"].src
                   i == handle[s]
        <2>1. /\ handle' = [handle EXCEPT ![s] = NoSlot] \/ handle' = handle
              /\ attached' \subseteq attached
              /\ \/ life' = [life EXCEPT ![s][i] = "free"]
                 \/ life' = [life EXCEPT ![s][i] = "closed"]
                 \/ life' = life
            BY <1>4 DEF DropHandle
        <2>2. LifeType
            BY <2>1, LifeUpdate DEF Lives, WorldType, LifeType
        <2>3. UNCHANGED <<rows, session, db_open, failures, want, resumed, world, faults>>
            BY <1>4 DEF DropHandle, sweep
        <2>4. QED
            BY <2>1, <2>2, <2>3, TypeStays DEF WorldType, RowsType
    <1>5. CASE KeepNotRunning
        BY <1>5 DEF KeepNotRunning, table, world, WorldType, Sweepers
    <1>6. QED
        BY <1>1, <1>2, <1>3, <1>4, <1>5 DEF Acquire

LEMMA OtherWorld ==
    ASSUME CallsInv, WorldType,
           \/ \E c \in Clients : Cancel(c) \/ \E s \in Sources : RequestStart(c, s) \/ RequestStop(c, s)
                                                                \/ RequestDelete(c, s)
           \/ \E s \in Sources : Replug(s) \/ \E i \in Slots : CapturerStops(s, i) \/ ReaderEnds(s, i)
                                                               \/ DeviceDies(s, i)
           \/ Restart
    PROVE  WorldType'
    <1>1. ASSUME NEW c \in Clients, Cancel(c)
          PROVE  WorldType'
        <2>1. db_open' \in BOOLEAN /\ faults' \in 0..MaxFaults
            BY <1>1, FaultType DEF Cancel, WorldType
        <2>2. UNCHANGED <<rows, handle, life, attached, session, failures, want, resumed, world>>
            BY <1>1 DEF Cancel, table, sweep
        <2>3. QED
            BY <2>1, <2>2 DEF WorldType, world
    <1>2. ASSUME NEW c \in Clients, NEW s \in Sources, RequestStart(c, s) \/ RequestStop(c, s)
          PROVE  WorldType'
        <2> DEFINE Wish(t) == [rows EXCEPT ![s].desired = t]
        <2>1. ASSUME NEW t \in {"running", "stopped"}
              PROVE  Wish(t) \in [Sources -> Row]
            <3>1. \A r \in Row : [r EXCEPT !.desired = t] \in Row
                BY DEF Row
            <3>2. QED
                BY <3>1 DEF WorldType
        <2>2. rows' = Wish("running") \/ rows' = Wish("stopped")
            BY <1>2 DEF RequestStart, RequestStop
        <2> HIDE DEF Wish
        <2>3. rows' \in [Sources -> Row]
            BY <2>1, <2>2
        <2>4. requests' \in 0..MaxRequests
            BY <1>2, SupervisorAssumption DEF RequestStart, RequestStop, Request, WorldType
        <2>5. QED
            BY <1>2, <2>3, <2>4 DEF RequestStart, RequestStop, WorldType, sweep
    <1>3. ASSUME NEW c \in Clients, NEW s \in Sources, RequestDelete(c, s)
          PROVE  WorldType'
        <2>1. requests' \in 0..MaxRequests
            BY <1>3, SupervisorAssumption DEF RequestDelete, Request, WorldType
        <2>2. QED
            BY <1>3, <2>1 DEF RequestDelete, WorldType, table, sweep
    <1>4. ASSUME NEW s \in Sources, Replug(s)
          PROVE  WorldType'
        BY <1>4 DEF Replug, WorldType, table, sweep
    <1>5. ASSUME NEW s \in Sources, NEW i \in Slots, CapturerStops(s, i)
          PROVE  WorldType'
        <2>1. LifeType
            BY <1>5, LifeUpdate DEF CapturerStops, Lives
        <2>2. QED
            BY <1>5, <2>1, TypeStays DEF CapturerStops, WorldType, RowsType, table, sweep, world
    <1>6. ASSUME NEW s \in Sources, NEW i \in Slots, ReaderEnds(s, i)
          PROVE  WorldType'
        <2>1. LifeType
            BY <1>6, LifeUpdate DEF ReaderEnds, Lives
        <2>2. failures' \in Seq(Sources)
            BY <1>6 DEF ReaderEnds, WorldType
        <2>3. attached' \subseteq attached
            BY <1>6 DEF ReaderEnds
        <2>4. QED
            BY <1>6, <2>1, <2>2, <2>3 DEF ReaderEnds, WorldType, LifeType, table, sweep, world
    <1>7. ASSUME NEW s \in Sources, NEW i \in Slots, DeviceDies(s, i)
          PROVE  WorldType'
        <2>1. LifeType
            BY <1>7, LifeUpdate DEF DeviceDies, Lives
        <2>2. deaths' \in 0..MaxDeaths
            BY <1>7, SupervisorAssumption DEF DeviceDies, WorldType
        <2>3. plugged' \in [Sources -> BOOLEAN]
            BY <1>7 DEF DeviceDies, WorldType
        <2>4. QED
            BY <1>7, <2>1, <2>2, <2>3 DEF DeviceDies, WorldType, LifeType, table, sweep
    <1>8. CASE Restart
        <2>1. /\ handle' \in [Sources -> Slots \cup {NoSlot}] /\ life' \in [Sources -> [Slots -> Lives]]
              /\ want' \in [Sweepers -> SUBSET Sources] /\ failures' \in Seq(Sources)
            BY <1>8, NothingLives DEF Restart
        <2>2. faults' \in 0..MaxFaults
            BY <1>8, FaultType DEF Restart
        <2>3. /\ UNCHANGED <<rows, db_open, requests, plugged, deaths>>
              /\ attached' = {} /\ session' = FALSE /\ resumed' = FALSE
            BY <1>8 DEF Restart, world
        <2>4. QED
            BY <2>1, <2>2, <2>3 DEF WorldType
    <1>9. QED
        BY <1>1, <1>2, <1>3, <1>4, <1>5, <1>6, <1>7, <1>8

LEMMA RestartCalls ==
    ASSUME Restart
    PROVE  CallsInv'
    <1>1. op' = [p \in Procs |-> Idle] /\ lock' = NoProc
        BY DEF Restart
    <1>2. Idle \in Op
        BY IdleSound DEF Sound
    <1>3. QED
        BY <1>1, <1>2, IdleSound, Names DEF CallsInv, InLock, ProcNames

LEMMA OtherCalls ==
    ASSUME CallsInv,
           \E s \in Sources : Replug(s) \/ \E i \in Slots : CapturerStops(s, i) \/ ReaderEnds(s, i)
                                                            \/ DeviceDies(s, i)
    PROVE  CallsInv'
    <1>1. UNCHANGED <<op, lock>>
        BY DEF Replug, CapturerStops, ReaderEnds, DeviceDies
    <1>2. QED
        BY <1>1, CallStays

LEMMA NextSup == SupInv /\ [Next]_vars => SupInv'
    <1> SUFFICES ASSUME SupInv, [Next]_vars PROVE SupInv'
        OBVIOUS
    <1> USE DEF SupInv
    <1>1. ASSUME NEW p \in Procs, Acquire(p)
          PROVE  SupInv'
        BY <1>1, AcquireCalls, AcquireWorld DEF WorldType
    <1>2. ASSUME NEW p \in Procs, Proceed(p)
          PROVE  SupInv'
        BY <1>2, ProceedCalls, ProceedWorld DEF WorldType
    <1>3. ASSUME NEW c \in Clients, Cancel(c) \/ \E s \in Sources : RequestStart(c, s) \/ RequestStop(c, s)
                                                                    \/ RequestDelete(c, s)
          PROVE  SupInv'
        BY <1>3, RequestCalls, OtherWorld
    <1>4. ASSUME NEW s \in Sources, Replug(s) \/ \E i \in Slots : CapturerStops(s, i) \/ ReaderEnds(s, i)
                                                                  \/ DeviceDies(s, i)
          PROVE  SupInv'
        BY <1>4, OtherCalls, OtherWorld
    <1>5. CASE Restart
        BY <1>5, RestartCalls, OtherWorld
    <1>6. CASE UNCHANGED vars
        <2>1. WorldType'
            BY <1>6 DEF vars, table, sweep, world, WorldType
        <2>2. UNCHANGED <<op, lock>>
            BY <1>6 DEF vars
        <2>3. QED
            BY <2>1, <2>2, CallStays
    <1>7. QED
        BY <1>1, <1>2, <1>3, <1>4, <1>5, <1>6 DEF Next

\* Every variable has its type, whatever is requested, fails or is cancelled, and the lock is
\* held by exactly the call that is past it (capture.rs: one guard over the running set).
THEOREM SupervisorTypeOK == Spec => []TypeOK
    <1>1. Init => SupInv
        BY InitCalls, InitWorld DEF SupInv
    <1>2. SupInv /\ [Next]_vars => SupInv'
        BY NextSup
    <1>3. SupInv => TypeOK
        BY TypeParts
    <1>4. QED
        BY <1>1, <1>2, <1>3, PTL DEF Spec

-----------------------------------------------------------------------------
(* Steps, by what they do to the calls. *)

LEMMA CallFacts ==
    ASSUME CallsInv, NEW p \in Procs
    PROVE  /\ Done(p) => op'[p] = Idle
           /\ \A st : Go(p, st) => op'[p].stage = st /\ op'[p].src = op[p].src
           /\ \A call, st, s : Call(p, call, st, s) => op'[p].stage = st
    <1>1. op \in [Procs -> Op] /\ op[p] \in Op
        BY DEF CallsInv
    <1>2. QED
        BY <1>1 DEF Done, Go, Call, Op

\* A step of one call leaves the others where they are.
LEMMA OthersStay ==
    ASSUME CallsInv, NEW p \in Procs, Acquire(p) \/ Proceed(p), NEW q \in Procs \ {p}
    PROVE  op'[q] = op[q]
    <1> USE DEF Done, Go, Call
    <1>1. op \in [Procs -> Op]
        BY DEF CallsInv
    <1>2. CASE Acquire(p)
        <2>1. CASE StartNothing(p) \/ BeginStart(p) \/ StopNothing(p)
            BY <1>1, <2>1 DEF StartNothing, BeginStart, StopNothing, AfterStop
        <2>2. CASE BeginStop(p)
            <3>1. Go(p, "stopped") \/ op' = [op EXCEPT ![p].stage = "teardown", ![p].slot = handle[op[p].src]]
                BY <2>2 DEF BeginStop
            <3>2. QED
                BY <1>1, <3>1
        <2>3. CASE DropHandle /\ p = "drain"
            BY <1>1, <2>3 DEF DropHandle
        <2>4. CASE KeepNotRunning /\ p = "reconcile"
            BY <1>1, <2>4 DEF KeepNotRunning
        <2>5. QED
            BY <1>2, <2>1, <2>2, <2>3, <2>4 DEF Acquire
    <1>3. CASE Proceed(p)
        <2>1. CASE Build(p) \/ Reject(p) \/ EnsureSession(p) \/ WriteRunning(p) \/ WriteError(p) \/ CloseIfIdle(p)
            BY <1>1, <2>1 DEF Build, Reject, EnsureSession, WriteRunning, WriteError, CloseIfIdle
        <2>2. CASE Spawn(p)
            <3>1. Go(p, "error") \/ Go(p, "status")
                BY <2>2 DEF Spawn
            <3>2. QED
                BY <1>1, <3>1
        <2>3. CASE ReaderDone(p) \/ WriteStopped(p) \/ Remove(p)
            BY <1>1, <2>3 DEF ReaderDone, WriteStopped, AfterStop, Remove
        <2>4. CASE p = "drain" /\ (TakeFailure \/ WriteFailed)
            BY <1>1, <2>4 DEF TakeFailure, WriteFailed
        <2>5. CASE StartNextOf(p)
            BY <1>1, <2>5 DEF StartNextOf
        <2>6. CASE ListToResume \/ (ListToReconcile /\ p = "reconcile")
            BY <1>1, <2>6 DEF ListToResume, ListToReconcile
        <2>7. QED
            BY <1>3, <2>1, <2>2, <2>3, <2>4, <2>5, <2>6 DEF Proceed
    <1>4. QED
        BY <1>2, <1>3

Out == {"idle", "lock", "remove"}

\* Nobody enters or leaves the part of a call that is done under the lock.
Outside == \A q \in Procs : op'[q] = op[q] \/ (op[q].stage \in Out /\ op'[q].stage \in Out)

\* Steps of p outside the lock.
Aside(p) ==
    \/ StartNothing(p) \/ StopNothing(p) \/ Remove(p) \/ StartNextOf(p) \/ ListToResume
    \/ p = "reconcile" /\ (KeepNotRunning \/ ListToReconcile)
    \/ p = "drain" /\ TakeFailure

LEMMA AsideSteps ==
    ASSUME CallsInv, NEW p \in Procs, Acquire(p) \/ Proceed(p), Aside(p)
    PROVE  Outside /\ UNCHANGED <<handle, life, attached, session, db_open>>
    <1>1. \A q \in Procs \ {p} : op'[q] = op[q]
        BY OthersStay
    <1>2. op'[p] = op[p] \/ (op[p].stage \in Out /\ op'[p].stage \in Out)
        <2> USE CallFacts, IdleSound DEF Out
        <2>1. CASE StartNothing(p) \/ Remove(p)
            BY <2>1 DEF StartNothing, Remove, At
        <2>2. CASE StopNothing(p)
            <3>1. At(p, "lock") /\ (Go(p, "remove") \/ Done(p))
                BY <2>2 DEF StopNothing, AfterStop
            <3>2. QED
                BY <3>1 DEF At
        <2>3. CASE StartNextOf(p)
            BY <2>3 DEF StartNextOf
        <2>4. CASE ListToResume
            BY <2>4 DEF ListToResume
        <2>5. CASE ListToReconcile /\ p = "reconcile"
            BY <2>5 DEF ListToReconcile
        <2>6. CASE KeepNotRunning /\ p = "reconcile"
            BY <2>6 DEF KeepNotRunning, CallsInv, Sound
        <2>7. CASE TakeFailure /\ p = "drain"
            BY <2>7 DEF TakeFailure
        <2>8. QED
            BY <2>1, <2>2, <2>3, <2>4, <2>5, <2>6, <2>7 DEF Aside
    <1>3. UNCHANGED <<handle, life, attached, session, db_open>>
        BY DEF Aside, StartNothing, StopNothing, Remove, StartNextOf, ListToResume, KeepNotRunning, ListToReconcile,
               TakeFailure, table
    <1>4. QED
        BY <1>1, <1>2, <1>3 DEF Outside

Asking(c, s) == RequestStart(c, s) \/ RequestStop(c, s) \/ RequestDelete(c, s)

LEMMA AskingSteps ==
    ASSUME CallsInv, NEW c \in Clients, NEW s \in Sources, Asking(c, s)
    PROVE  /\ Outside
           /\ UNCHANGED <<handle, life, attached, session, db_open, failures, deaths, faults>>
           /\ op["drain"] = Idle => op'["drain"] = Idle
    <1>1. c \in Procs /\ c # "drain" /\ "drain" \in Procs /\ op \in [Procs -> Op]
        BY SupervisorAssumption, Names DEF ProcNames, CallsInv
    <1>2. /\ op[c] = Idle
          /\ \/ Call(c, "start", "lock", s)
             \/ Call(c, "stop", "lock", s)
             \/ Call(c, "delete", "lock", s)
             \/ Call(c, "delete", "remove", s)
        BY DEF Asking, RequestStart, RequestStop, RequestDelete, Request
    <1>3. op'[c].stage \in Out /\ op[c].stage \in Out
        BY <1>1, <1>2, CallFacts, IdleSound DEF Out
    <1>4. \A q \in Procs \ {c} : op'[q] = op[q]
        BY <1>1, <1>2 DEF Call
    <1>5. UNCHANGED <<handle, life, attached, session, db_open, failures, deaths, faults>>
        BY DEF Asking, RequestStart, RequestStop, RequestDelete, table
    <1>6. QED
        BY <1>1, <1>3, <1>4, <1>5 DEF Outside

LEMMA CancelSteps ==
    ASSUME CallsInv, NEW c \in Clients, Cancel(c)
    PROVE  /\ \A q \in Procs : \/ op'[q].stage = op[q].stage /\ op'[q].src = op[q].src
                               \/ op'[q].stage = "idle"
           /\ op'["drain"] = op["drain"]
           /\ session => db_open' = db_open
           /\ UNCHANGED <<rows, handle, life, attached, session, failures, deaths>>
    <1>1. c \in Procs /\ c # "drain" /\ "drain" \in Procs /\ op \in [Procs -> Op] /\ op[c] \in Op
        BY SupervisorAssumption, Names DEF ProcNames, CallsInv
    <1>2. Done(c) \/ op' = [op EXCEPT ![c].call = "stop"]
        BY <1>1 DEF Cancel, Done
    <1>3. /\ \A q \in Procs \ {c} : op'[q] = op[q]
          /\ op'[c] = Idle \/ op'[c] = [op[c] EXCEPT !.call = "stop"]
        BY <1>1, <1>2 DEF Done
    <1>4. (op'[c].stage = op[c].stage /\ op'[c].src = op[c].src) \/ op'[c].stage = "idle"
        BY <1>1, <1>3, IdleSound DEF Op
    <1>5. /\ session => db_open' = db_open
          /\ UNCHANGED <<rows, handle, life, attached, session, failures, deaths>>
        BY DEF Cancel, table, world
    <1>6. QED
        BY <1>1, <1>3, <1>4, <1>5

-----------------------------------------------------------------------------
(* The session. *)

LEMMA SessionStays ==
    ASSUME SessionInv, session' = session, session => db_open' = db_open,
           \A s \in Sources : handle'[s] # NoSlot =>
               /\ handle'[s] = handle[s]
               /\ <<s, handle[s]>> \in attached => <<s, handle[s]>> \in attached',
           \A q \in Procs : op'[q].stage = "spawn" => op[q].stage = "spawn"
    PROVE  SessionInv'
    BY DEF SessionInv, At

LEMMA SessionProceeds ==
    ASSUME SupInv, SessionInv, NEW p \in Procs, Acquire(p) \/ Proceed(p)
    PROVE  SessionInv'
    <1> USE DEF SupInv
    <1>1. \A q \in Procs \ {p} : op'[q] = op[q]
        BY OthersStay
    <1>2. CASE Aside(p)
        BY <1>2, AsideSteps, SessionStays DEF Outside, Out
    <1>3. CASE EnsureSession(p)
        <2>1. session' => db_open'
            <3>1. \/ session /\ session' = session /\ db_open' = db_open
                  \/ session' = TRUE /\ db_open' = TRUE
                  \/ ~session /\ session' = session
                BY <1>3 DEF EnsureSession
            <3>2. QED
                BY <3>1, Zenon DEF SessionInv
        <2>2. handle' = handle /\ attached' = attached /\ (session => session')
            <3>1. handle' = handle /\ attached' = attached
                BY <1>3 DEF EnsureSession, table
            <3>2. session' = TRUE \/ session' = session
                BY <1>3 DEF EnsureSession
            <3>3. session => session'
                BY <3>2, Zenon
            <3>4. QED
                BY <3>1, <3>3
        <2>3. \/ session'
              \/ op'[p].stage = "error" /\ ~session
            BY <1>3, CallFacts DEF EnsureSession
        <2>4. QED
            BY <1>1, <2>1, <2>2, <2>3 DEF SessionInv, At
    <1>4. CASE Spawn(p)
        <2>1. op'[p].stage # "spawn"
            <3>1. Go(p, "error") \/ Go(p, "status")
                BY <1>4 DEF Spawn
            <3>2. QED
                BY <3>1, CallFacts
        <2>2. session /\ UNCHANGED <<session, db_open>>
            BY <1>4 DEF Spawn, SessionInv
        <2>3. op[p].src \in Sources
            BY <1>4, Past DEF Spawn, InLock, At
        <2>4. CASE UNCHANGED <<handle, attached>>
            BY <1>1, <2>1, <2>2, <2>4, SessionStays
        <2>5. CASE ~UNCHANGED <<handle, attached>>
            <3>1. PICK i \in Slots : /\ handle' = [handle EXCEPT ![op[p].src] = i]
                                     /\ attached' = attached \cup {<<op[p].src, i>>}
                BY <1>4, <2>5 DEF Spawn
            <3>2. \A s \in Sources : handle'[s] # NoSlot => <<s, handle'[s]>> \in attached'
                BY <2>3, <3>1 DEF SessionInv, WorldType
            <3>3. QED
                BY <1>1, <2>1, <2>2, <3>2 DEF SessionInv, At
        <2>6. QED
            BY <2>4, <2>5
    <1>5. CASE CloseIfIdle(p)
        <2>1. op'[p].stage \in {"remove", "idle"}
            BY <1>5, CallFacts, IdleSound DEF CloseIfIdle
        <2>2. \A q \in Procs : op'[q].stage # "spawn"
            BY <1>1, <1>5, <2>1, Past DEF CloseIfIdle, InLock, At
        <2>3. handle' = handle
            BY <1>5 DEF CloseIfIdle, table
        <2>4. CASE NothingRuns /\ session
            <3>1. session' = FALSE
                BY <1>5, <2>4 DEF CloseIfIdle
            <3>2. QED
                BY <2>2, <2>3, <2>4, <3>1 DEF SessionInv, At, NothingRuns
        <2>5. CASE ~(NothingRuns /\ session)
            <3>1. UNCHANGED <<session, db_open, attached>>
                BY <1>5, <2>5 DEF CloseIfIdle
            <3>2. QED
                BY <2>2, <2>3, <3>1, SessionStays
        <2>6. QED
            BY <2>4, <2>5
    <1>6. CASE Build(p) \/ Reject(p) \/ WriteRunning(p) \/ WriteError(p) \/ ReaderDone(p) \/ WriteStopped(p)
               \/ (WriteFailed /\ p = "drain") \/ BeginStart(p)
        <2>1. UNCHANGED <<handle, attached, session, db_open>>
            BY <1>6 DEF Build, Reject, WriteRunning, WriteError, ReaderDone, WriteStopped, WriteFailed, BeginStart, table
        <2>2. op'[p].stage # "spawn"
            <3>1. CASE ReaderDone(p)
                BY <3>1 DEF ReaderDone, CallsInv, Op
            <3>2. CASE ~ReaderDone(p)
                BY <1>6, <3>2, CallFacts, IdleSound DEF Build, Reject, WriteRunning, WriteError, WriteStopped,
                   WriteFailed, BeginStart, AfterStop
            <3>3. QED
                BY <3>1, <3>2
        <2>3. QED
            BY <1>1, <2>1, <2>2, SessionStays
    <1>7. CASE BeginStop(p)
        <2>1. op[p].src \in Sources /\ op[p].stage = "lock"
            BY <1>7 DEF BeginStop, At, CallsInv, Sound
        <2>2. /\ handle' = [handle EXCEPT ![op[p].src] = NoSlot] /\ session' = session /\ db_open' = db_open
              /\ attached' = attached \/ attached' = attached \ {<<op[p].src, handle[op[p].src]>>}
            BY <1>7 DEF BeginStop
        <2>3. op'[p].stage # "spawn"
            <3>1. Go(p, "stopped") \/ op' = [op EXCEPT ![p].stage = "teardown", ![p].slot = handle[op[p].src]]
                BY <1>7 DEF BeginStop
            <3>2. QED
                BY <3>1, CallFacts DEF CallsInv, Op
        <2>4. \A s \in Sources : handle'[s] # NoSlot =>
                  /\ handle'[s] = handle[s]
                  /\ <<s, handle[s]>> \in attached => <<s, handle[s]>> \in attached'
            BY <2>1, <2>2 DEF WorldType
        <2>5. QED
            BY <1>1, <2>2, <2>3, <2>4, SessionStays
    <1>8. CASE DropHandle /\ p = "drain"
        <2> DEFINE s == op["drain"].src
                   i == handle[s]
        <2>1. /\ session' = session /\ db_open' = db_open
              /\ \/ handle' = [handle EXCEPT ![s] = NoSlot]
                 \/ handle' = handle /\ i = NoSlot
              /\ attached' = attached \/ attached' = attached \ {<<s, i>>}
            BY <1>8 DEF DropHandle
        <2>2. s \in Sources
            BY <1>8 DEF DropHandle, At, CallsInv, Sound
        <2>3. op'[p].stage # "spawn"
            BY <1>8, CallFacts, IdleSound DEF DropHandle
        <2> HIDE DEF s
        <2>4. \A t \in Sources : handle'[t] # NoSlot =>
                  /\ handle'[t] = handle[t]
                  /\ <<t, handle[t]>> \in attached => <<t, handle[t]>> \in attached'
            BY <2>1, <2>2 DEF WorldType
        <2>5. QED
            BY <1>1, <2>1, <2>3, <2>4, SessionStays
    <1>9. QED
        BY <1>2, <1>3, <1>4, <1>5, <1>6, <1>7, <1>8 DEF Acquire, Proceed, Aside

LEMMA SessionNext == SupInv /\ SessionInv /\ [Next]_vars => SessionInv'
    <1> SUFFICES ASSUME SupInv, SessionInv, [Next]_vars PROVE SessionInv'
        OBVIOUS
    <1> USE DEF SupInv
    <1>1. ASSUME NEW p \in Procs, Acquire(p) \/ Proceed(p)
          PROVE  SessionInv'
        BY <1>1, SessionProceeds
    <1>2. ASSUME NEW c \in Clients, Cancel(c)
          PROVE  SessionInv'
        BY <1>2, CancelSteps, SessionStays
    <1>3. ASSUME NEW c \in Clients, NEW s \in Sources, Asking(c, s)
          PROVE  SessionInv'
        BY <1>3, AskingSteps, SessionStays DEF Outside, Out
    <1>4. ASSUME NEW s \in Sources, Replug(s) \/ \E i \in Slots : CapturerStops(s, i) \/ DeviceDies(s, i)
          PROVE  SessionInv'
        <2>1. UNCHANGED <<handle, attached, session, db_open, op>>
            BY <1>4 DEF Replug, CapturerStops, DeviceDies, table
        <2>2. QED
            BY <2>1, SessionStays
    <1>5. ASSUME NEW s \in Sources, NEW i \in Slots, ReaderEnds(s, i)
          PROVE  SessionInv'
        <2>1. UNCHANGED <<handle, session, db_open, op>>
            BY <1>5 DEF ReaderEnds, table
        <2>2. attached' = attached \/ (handle[s] # i /\ attached' = attached \ {<<s, i>>})
            BY <1>5 DEF ReaderEnds
        <2>3. QED
            BY <2>1, <2>2, SessionStays
    <1>6. CASE Restart
        <2>1. op' = [p \in Procs |-> Idle] /\ handle' = [s \in Sources |-> NoSlot] /\ session' = FALSE
            BY <1>6 DEF Restart
        <2>2. QED
            BY <2>1, IdleSound DEF SessionInv, At
    <1>7. CASE UNCHANGED vars
        <2>1. UNCHANGED <<handle, attached, session, db_open, op>>
            BY <1>7 DEF vars, table
        <2>2. QED
            BY <2>1, SessionStays
    <1>8. QED
        BY <1>1, <1>2, <1>3, <1>4, <1>5, <1>6, <1>7 DEF Next, Asking

\* Whatever has a handle captures into the session that is open, in memory and in the
\* database: a session is closed only while nothing runs, under the lock of every start.
THEOREM SessionIsOpen == Spec => []SessionCoversRunning
    <1>1. Init => SupInv /\ SessionInv
        <2>1. Init => SessionInv
            BY IdleSound DEF Init, SessionInv, At
        <2>2. QED
            BY <2>1, InitCalls, InitWorld DEF SupInv
    <1>2. SupInv /\ SessionInv /\ [Next]_vars => (SupInv /\ SessionInv)'
        BY NextSup, SessionNext
    <1>3. SessionInv => SessionCoversRunning
        BY DEF SessionInv, SessionCoversRunning
    <1>4. QED
        BY <1>1, <1>2, <1>3, PTL DEF Spec

-----------------------------------------------------------------------------
(* Location sources. *)

Starting == {"build", "session", "spawn"}

LEMMA LocationStays ==
    ASSUME LocationInv,
           \A s \in Sources : handle'[s] # NoSlot => handle[s] # NoSlot,
           \A q \in Procs : op'[q].stage \in Starting =>
               /\ op'[q].src = op[q].src
               /\ op[q].stage \in Starting \/ (op[q].src \in Gps => ~GpsRuns)
    PROVE  LocationInv'
    <1>1. \A s \in Gps : handle'[s] # NoSlot => handle[s] # NoSlot
        BY SupervisorAssumption
    <1>2. GpsRuns' => GpsRuns
        BY <1>1 DEF GpsRuns
    <1>3. QED
        BY <1>1, <1>2 DEF LocationInv, Starting

LEMMA LocationProceeds ==
    ASSUME SupInv, LocationInv, NEW p \in Procs, Acquire(p) \/ Proceed(p)
    PROVE  LocationInv'
    <1> USE DEF SupInv
    <1>1. \A q \in Procs \ {p} : op'[q] = op[q]
        BY OthersStay
    <1>2. CASE Aside(p)
        BY <1>2, AsideSteps, LocationStays DEF Outside, Out, Starting
    <1>3. CASE Spawn(p)
        <2>1. op'[p].stage \notin Starting
            <3>1. Go(p, "error") \/ Go(p, "status")
                BY <1>3 DEF Spawn
            <3>2. QED
                BY <3>1, CallFacts DEF Starting
        <2>2. \A q \in Procs : op'[q].stage \notin Starting
            BY <1>1, <1>3, <2>1, Past DEF Spawn, InLock, At, Starting
        <2>3. CASE handle' = handle
            BY <2>2, <2>3, LocationStays
        <2>4. CASE handle' # handle
            <3>1. PICK i \in Slots : handle' = [handle EXCEPT ![op[p].src] = i]
                BY <1>3, <2>4 DEF Spawn
            <3>2. op[p].src \in Gps => ~GpsRuns
                BY <1>3 DEF Spawn, At, LocationInv
            <3>3. \A s, t \in Gps : handle'[s] # NoSlot /\ handle'[t] # NoSlot => s = t
                BY <3>1, <3>2, SupervisorAssumption DEF LocationInv, WorldType, GpsRuns
            <3>4. QED
                BY <2>2, <3>3 DEF LocationInv, Starting
        <2>5. QED
            BY <2>3, <2>4
    <1>4. CASE BeginStart(p)
        <2>1. handle' = handle
            BY <1>4 DEF BeginStart, table
        <2>2. op'[p].src = op[p].src /\ (op'[p].stage \in Starting => (op[p].src \in Gps => ~GpsRuns))
            BY <1>4, CallFacts DEF BeginStart, Starting
        <2>3. QED
            BY <1>1, <2>1, <2>2, LocationStays
    <1>5. CASE Build(p) \/ EnsureSession(p)
        <2>1. handle' = handle
            BY <1>5 DEF Build, EnsureSession, table
        <2>2. op'[p].src = op[p].src /\ op[p].stage \in Starting
            BY <1>5, CallFacts DEF Build, EnsureSession, At, Starting
        <2>3. QED
            BY <1>1, <2>1, <2>2, LocationStays
    <1>6. CASE Reject(p) \/ WriteRunning(p) \/ WriteError(p) \/ ReaderDone(p) \/ WriteStopped(p) \/ CloseIfIdle(p)
               \/ (WriteFailed /\ p = "drain")
        <2>1. handle' = handle
            BY <1>6 DEF Reject, WriteRunning, WriteError, ReaderDone, WriteStopped, WriteFailed, CloseIfIdle, table
        <2>2. op'[p].stage \notin Starting
            <3>1. CASE ReaderDone(p)
                BY <3>1 DEF ReaderDone, CallsInv, Op, Starting
            <3>2. CASE ~ReaderDone(p)
                BY <1>6, <3>2, CallFacts, IdleSound DEF Reject, WriteRunning, WriteError, WriteStopped, WriteFailed,
                   CloseIfIdle, AfterStop, Starting
            <3>3. QED
                BY <3>1, <3>2
        <2>3. QED
            BY <1>1, <2>1, <2>2, LocationStays
    <1>7. CASE BeginStop(p)
        <2>1. handle' = [handle EXCEPT ![op[p].src] = NoSlot]
            BY <1>7 DEF BeginStop
        <2>2. op'[p].stage \notin Starting
            <3>1. Go(p, "stopped") \/ op' = [op EXCEPT ![p].stage = "teardown", ![p].slot = handle[op[p].src]]
                BY <1>7 DEF BeginStop
            <3>2. QED
                BY <3>1, CallFacts DEF CallsInv, Op, Starting
        <2>3. QED
            BY <1>1, <2>1, <2>2, LocationStays DEF WorldType
    <1>8. CASE DropHandle /\ p = "drain"
        <2>1. handle' = handle \/ handle' = [handle EXCEPT ![op["drain"].src] = NoSlot]
            BY <1>8 DEF DropHandle
        <2>2. op'[p].stage \notin Starting
            BY <1>8, CallFacts, IdleSound DEF DropHandle, Starting
        <2>3. QED
            BY <1>1, <2>1, <2>2, LocationStays DEF WorldType
    <1>9. QED
        BY <1>2, <1>3, <1>4, <1>5, <1>6, <1>7, <1>8 DEF Acquire, Proceed, Aside

LEMMA LocationNext == SupInv /\ LocationInv /\ [Next]_vars => LocationInv'
    <1> SUFFICES ASSUME SupInv, LocationInv, [Next]_vars PROVE LocationInv'
        OBVIOUS
    <1> USE DEF SupInv
    <1>1. ASSUME NEW p \in Procs, Acquire(p) \/ Proceed(p)
          PROVE  LocationInv'
        BY <1>1, LocationProceeds
    <1>2. ASSUME NEW c \in Clients, Cancel(c)
          PROVE  LocationInv'
        BY <1>2, CancelSteps, LocationStays DEF Starting
    <1>3. ASSUME NEW c \in Clients, NEW s \in Sources, Asking(c, s)
          PROVE  LocationInv'
        BY <1>3, AskingSteps, LocationStays DEF Outside, Out, Starting
    <1>4. ASSUME NEW s \in Sources,
                 Replug(s) \/ \E i \in Slots : CapturerStops(s, i) \/ ReaderEnds(s, i) \/ DeviceDies(s, i)
          PROVE  LocationInv'
        <2>1. handle' = handle /\ op' = op
            BY <1>4 DEF Replug, CapturerStops, ReaderEnds, DeviceDies, table
        <2>2. QED
            BY <2>1, LocationStays
    <1>5. CASE Restart
        <2>1. op' = [p \in Procs |-> Idle] /\ handle' = [s \in Sources |-> NoSlot]
            BY <1>5 DEF Restart
        <2>2. QED
            BY <2>1, IdleSound, SupervisorAssumption, LocationStays DEF Starting
    <1>6. CASE UNCHANGED vars
        <2>1. handle' = handle /\ op' = op
            BY <1>6 DEF vars, table
        <2>2. QED
            BY <2>1, LocationStays
    <1>7. QED
        BY <1>1, <1>2, <1>3, <1>4, <1>5, <1>6 DEF Next, Asking

\* At most one location source runs: the check for another one and the start of this one are
\* awaits apart, and what was checked still holds because the lock is kept in between.
THEOREM OneLocation == Spec => []OneLocationSource
    <1>1. Init => SupInv /\ LocationInv
        <2>1. Init => LocationInv
            BY IdleSound, SupervisorAssumption DEF Init, LocationInv, GpsRuns
        <2>2. QED
            BY <2>1, InitCalls, InitWorld DEF SupInv
    <1>2. SupInv /\ LocationInv /\ [Next]_vars => (SupInv /\ LocationInv)'
        BY NextSup, LocationNext
    <1>3. LocationInv => OneLocationSource
        <2> SUFFICES ASSUME LocationInv PROVE OneLocationSource
            OBVIOUS
        <2> DEFINE R == {s \in Gps : handle[s] # NoSlot}
        <2>1. CASE R = {}
            BY <2>1, FS_EmptySet DEF OneLocationSource
        <2>2. CASE R # {}
            <3>1. PICK s \in R : TRUE
                BY <2>2
            <3>2. R = {s}
                BY <3>1 DEF LocationInv
            <3>3. Cardinality(R) = 1
                BY <3>2, FS_Singleton
            <3>4. QED
                BY <3>3 DEF OneLocationSource
        <2>3. QED
            BY <2>1, <2>2
    <1>4. QED
        BY <1>1, <1>2, <1>3, PTL DEF Spec

-----------------------------------------------------------------------------
(* Failures. *)

LEMMA DeathsCount ==
    ASSUME SupInv, [Next]_vars, deaths' = 0
    PROVE  deaths = 0 /\ \A s \in Sources, i \in Slots : ~DeviceDies(s, i)
    <1>1. deaths \in Nat
        BY DEF SupInv, WorldType
    <1>2. \A s \in Sources, i \in Slots : ~DeviceDies(s, i)
        BY <1>1 DEF DeviceDies
    <1>3. ASSUME NEW p \in Procs, Acquire(p)
          PROVE  deaths' = deaths
        BY <1>3 DEF Acquire, StartNothing, BeginStart, StopNothing, BeginStop, DropHandle, KeepNotRunning, world
    <1>4. ASSUME NEW p \in Procs, Proceed(p)
          PROVE  deaths' = deaths
        BY <1>4 DEF Proceed, Build, Reject, EnsureSession, Spawn, WriteRunning, WriteError, CloseIfIdle, ReaderDone,
               WriteStopped, TakeFailure, WriteFailed, StartNextOf, ListToResume, ListToReconcile, Remove, world
    <1>5. ASSUME NEW c \in Clients, Cancel(c) \/ \E s \in Sources : Asking(c, s)
          PROVE  deaths' = deaths
        BY <1>5 DEF Cancel, Asking, RequestStart, RequestStop, RequestDelete, world
    <1>6. ASSUME NEW s \in Sources, Replug(s) \/ \E i \in Slots : CapturerStops(s, i) \/ ReaderEnds(s, i)
          PROVE  deaths' = deaths
        BY <1>6 DEF Replug, CapturerStops, ReaderEnds, world
    <1>7. Restart \/ UNCHANGED vars => deaths' = deaths
        BY DEF Restart, vars, world
    <1>8. QED
        BY <1>2, <1>3, <1>4, <1>5, <1>6, <1>7 DEF Next, Asking

LEMMA LifeAt ==
    ASSUME WorldType, NEW s, NEW i, NEW l, life' = [life EXCEPT ![s][i] = l]
    PROVE  \A t \in Sources, j \in Slots : life'[t][j] \in {l, life[t][j]}
    BY DEF WorldType

LEMMA CalmProceeds ==
    ASSUME SupInv, Calm, NEW p \in Procs, Acquire(p) \/ Proceed(p)
    PROVE  Calm'
    <1> USE DEF SupInv
    <1>1. p # "drain"
        BY IdleSound DEF Calm, Acquire, Proceed, StartNothing, BeginStart, StopNothing, BeginStop, DropHandle, Build, Reject,
               EnsureSession, Spawn, WriteRunning, WriteError, CloseIfIdle, ReaderDone, WriteStopped, TakeFailure,
               WriteFailed, Sweepers, Remove, At
    <1>2. op'["drain"] = Idle
        BY <1>1, OthersStay, Names DEF ProcNames, Calm
    <1>3. failures' = <<>>
        <2>1. Acquire(p) => failures' = failures
            BY <1>1 DEF Acquire, StartNothing, BeginStart, StopNothing, BeginStop, KeepNotRunning
        <2>2. Proceed(p) => failures' = failures
            BY <1>1 DEF Proceed, Build, Reject, EnsureSession, Spawn, WriteRunning, WriteError, CloseIfIdle, ReaderDone,
                   WriteStopped, StartNextOf, ListToResume, ListToReconcile, Remove
        <2>3. QED
            BY <2>1, <2>2 DEF Calm
    <1>4. ASSUME NEW s \in Sources, NEW i \in Slots
          PROVE  life'[s][i] # "closed"
        <2>1. CASE Spawn(p)
            <3>1. life' = life \/ \E j \in Slots : life' = [life EXCEPT ![op[p].src][j] = "live"]
                BY <2>1 DEF Spawn
            <3>2. ASSUME NEW j \in Slots, life' = [life EXCEPT ![op[p].src][j] = "live"]
                  PROVE  life'[s][i] \in {"live", life[s][i]}
                BY <3>2, LifeAt
            <3>3. QED
                BY <3>1, <3>2 DEF Calm
        <2>2. CASE BeginStop(p)
            <3> DEFINE t == op[p].src
                       j == handle[t]
            <3>1. \/ life' = [life EXCEPT ![t][j] = "free"]
                  \/ life' = [life EXCEPT ![t][j] = Teardown(life[t][j])]
                BY <2>2 DEF BeginStop
            <3>2. ASSUME NEW l, life' = [life EXCEPT ![t][j] = l]
                  PROVE  life'[s][i] \in {l, life[s][i]}
                <4> HIDE DEF t, j
                <4>1. QED
                    BY <3>2, LifeAt
            <3>3. life'[s][i] \in {"free", Teardown(life[t][j]), life[s][i]}
                BY <3>1, <3>2
            <3>4. QED
                BY <3>3 DEF Calm, Teardown
        <2>3. CASE ~Spawn(p) /\ ~BeginStop(p)
            <3>1. Acquire(p) => life' = life
                BY <1>1, <2>3 DEF Acquire, StartNothing, BeginStart, StopNothing, KeepNotRunning
            <3>2. Proceed(p) => life' = life
                BY <1>1, <2>3 DEF Proceed, Build, Reject, EnsureSession, WriteRunning, WriteError, CloseIfIdle,
                       ReaderDone, WriteStopped, StartNextOf, ListToResume, ListToReconcile, Remove
            <3>3. QED
                BY <3>1, <3>2 DEF Calm
        <2>4. QED
            BY <2>1, <2>2, <2>3
    <1>5. QED
        BY <1>2, <1>3, <1>4 DEF Calm

LEMMA FailureNext == SupInv /\ FailureInv /\ [Next]_vars => FailureInv'
    <1> SUFFICES ASSUME SupInv, FailureInv, [Next]_vars, deaths' = 0 PROVE Calm'
        BY DEF FailureInv
    <1> USE DEF SupInv
    <1>0. Calm /\ \A s \in Sources, i \in Slots : ~DeviceDies(s, i)
        BY DeathsCount DEF FailureInv
    <1>1. ASSUME NEW p \in Procs, Acquire(p) \/ Proceed(p)
          PROVE  Calm'
        BY <1>0, <1>1, CalmProceeds
    <1>2. ASSUME NEW c \in Clients, Cancel(c)
          PROVE  Calm'
        BY <1>0, <1>2, CancelSteps DEF Calm
    <1>3. ASSUME NEW c \in Clients, NEW s \in Sources, Asking(c, s)
          PROVE  Calm'
        BY <1>0, <1>3, AskingSteps DEF Calm
    <1>4. ASSUME NEW s \in Sources, Replug(s)
          PROVE  Calm'
        BY <1>0, <1>4 DEF Replug, Calm
    <1>5. ASSUME NEW s \in Sources, NEW i \in Slots, CapturerStops(s, i) \/ ReaderEnds(s, i)
          PROVE  Calm'
        <2>1. failures' = failures /\ op' = op
            BY <1>0, <1>5 DEF CapturerStops, ReaderEnds, Calm
        <2>2. \E l \in {"draining", "ended", "free"} : life' = [life EXCEPT ![s][i] = l]
            BY <1>5 DEF CapturerStops, ReaderEnds
        <2>3. QED
            BY <1>0, <2>1, <2>2 DEF Calm, WorldType
    <1>6. CASE Restart
        <2>1. /\ op' = [p \in Procs |-> Idle] /\ failures' = <<>>
              /\ life' = [s \in Sources |-> [i \in Slots |-> "free"]]
            BY <1>6 DEF Restart
        <2>2. QED
            BY <2>1, Names DEF Calm, ProcNames
    <1>7. CASE UNCHANGED vars
        BY <1>0, <1>7 DEF vars, Calm
    <1>8. QED
        BY <1>0, <1>1, <1>2, <1>3, <1>4, <1>5, <1>6, <1>7 DEF Next, Asking

-----------------------------------------------------------------------------
(* The rows. *)

LEMMA NoFault ==
    ASSUME SupInv, faults' = 0
    PROVE  ~Fault
    BY SupervisorAssumption DEF SupInv, WorldType, Fault

LEMMA FaultsCount ==
    ASSUME SupInv, [Next]_vars, faults' = 0
    PROVE  faults = 0 /\ ~Restart /\ \A c \in Clients : ~Cancel(c)
    <1>0. ~Fault
        BY NoFault
    <1>1. ~Restart /\ \A c \in Clients : ~Cancel(c)
        BY <1>0 DEF Restart, Cancel
    <1>2. ASSUME NEW p \in Procs, Acquire(p)
          PROVE  faults' = faults
        BY <1>0, <1>2 DEF Acquire, StartNothing, BeginStart, StopNothing, BeginStop, DropHandle, KeepNotRunning, SetStatus,
               SetStatusFails
    <1>3. ASSUME NEW p \in Procs, Proceed(p)
          PROVE  faults' = faults
        BY <1>0, <1>3 DEF Proceed, Build, Reject, EnsureSession, Spawn, WriteRunning, WriteError, CloseIfIdle, ReaderDone,
               WriteStopped, TakeFailure, WriteFailed, StartNextOf, ListToResume, ListToReconcile, Remove,
               SetStatus, SetStatusFails
    <1>4. ASSUME NEW c \in Clients, NEW s \in Sources, Asking(c, s)
          PROVE  faults' = faults
        BY <1>4, AskingSteps DEF SupInv
    <1>5. ASSUME NEW s \in Sources,
                 Replug(s) \/ \E i \in Slots : CapturerStops(s, i) \/ ReaderEnds(s, i) \/ DeviceDies(s, i)
          PROVE  faults' = faults
        BY <1>5 DEF Replug, CapturerStops, ReaderEnds, DeviceDies
    <1>6. UNCHANGED vars => faults' = faults
        BY DEF vars
    <1>7. QED
        BY <1>1, <1>2, <1>3, <1>4, <1>5, <1>6 DEF Next, Asking

\* Without a fault, a status is written unless the row is gone.
LEMMA StatusWritten ==
    ASSUME WorldType, ~Fault, NEW s \in Sources, NEW t, SetStatus(s, t) \/ SetStatusFails(s)
    PROVE  /\ \A u \in Sources \ {s} : rows'[u] = rows[u]
           /\ rows'[s].exists => rows'[s].status = t
    <1>1. CASE SetStatus(s, t)
        <2>1. rows' = [rows EXCEPT ![s].status = t] /\ rows[s] \in Row
            BY <1>1 DEF SetStatus, WorldType
        <2>2. QED
            BY <2>1 DEF WorldType, Row
    <1>2. CASE SetStatusFails(s)
        BY <1>2 DEF SetStatusFails, Exists
    <1>3. QED
        BY <1>1, <1>2

LEMMA TruthStays ==
    ASSUME Truth, handle' = handle,
           \A s \in Sources : rows'[s].exists =>
               rows[s].exists /\ (rows'[s].status = rows[s].status \/ Told(s)'),
           Outside
    PROVE  Truth'
    <1>1. \A q \in Procs : op[q].stage \in Untold => op'[q] = op[q]
        BY DEF Outside, Out, Untold
    <1>2. \A q \in Procs : op'[q] = op[q] \/ op'[q].stage \notin Without \cup {"status"}
        BY DEF Outside, Out, Without
    <1>3. ASSUME NEW s \in Sources, rows'[s].exists
          PROVE  Told(s)' \/ \E p \in Procs : op'[p].stage \in Untold /\ op'[p].src = s
        <2>1. Told(s) => Told(s)'
            BY <1>3 DEF Told
        <2>2. QED
            BY <1>1, <1>3, <2>1 DEF Truth
    <1>4. \A p \in Procs : /\ op'[p].stage = "status" => handle'[op'[p].src] # NoSlot
                           /\ op'[p].stage \in Without => handle'[op'[p].src] = NoSlot
        BY <1>2 DEF Truth
    <1>5. QED
        BY <1>3, <1>4 DEF Truth

LEMMA TruthMoves ==
    ASSUME SupInv, Truth, NEW p \in Procs, InLock(p) \/ lock = NoProc,
           \A q \in Procs \ {p} : op'[q] = op[q],
           NEW s \in Sources, s = op[p].src, op'[p].stage \notin Out => op'[p].src = s,
           \A t \in Sources \ {s} : handle'[t] = handle[t] /\ rows'[t] = rows[t],
           op'[p].stage = "status" => handle'[s] # NoSlot,
           op'[p].stage \in Without => handle'[s] = NoSlot,
           rows'[s].exists => (rows'[s].status = "running" <=> handle'[s] # NoSlot) \/ op'[p].stage \in Untold
    PROVE  Truth'
    <1>1. \A q \in Procs \ {p} : ~InLock(q)
        BY Past, Names DEF SupInv, CallsInv, ProcNames
    <1>2. \A q \in Procs \ {p} : op[q].stage \notin Without \cup Untold
        BY <1>1 DEF InLock, Without, Untold
    <1>3. \A q \in Procs : /\ op'[q].stage = "status" => handle'[op'[q].src] # NoSlot
                           /\ op'[q].stage \in Without => handle'[op'[q].src] = NoSlot
        BY <1>2 DEF Out, Without, Untold
    <1>4. ASSUME NEW t \in Sources, rows'[t].exists
          PROVE  Told(t)' \/ \E q \in Procs : op'[q].stage \in Untold /\ op'[q].src = t
        <2>1. CASE t = s
            BY <1>4, <2>1 DEF Told, Untold, Out
        <2>2. CASE t # s
            BY <1>2, <1>4, <2>2 DEF Truth, Told
        <2>3. QED
            BY <2>1, <2>2
    <1>5. QED
        BY <1>3, <1>4 DEF Truth

\* Where nothing is still to be written, every row tells the truth.
LEMMA ToldNow ==
    ASSUME SupInv, Truth, NEW p \in Procs, InLock(p) \/ lock = NoProc, op[p].stage \notin Untold,
           NEW s \in Sources, rows[s].exists
    PROVE  rows[s].status = "running" <=> handle[s] # NoSlot
    <1>1. \A q \in Procs \ {p} : ~InLock(q)
        BY Past, Names DEF SupInv, CallsInv, ProcNames
    <1>2. \A q \in Procs : op[q].stage \notin Untold
        BY <1>1 DEF InLock, Untold
    <1>3. QED
        BY <1>2 DEF Truth, Told

LEMMA TruthProceeds ==
    ASSUME SupInv, Truth, ~Fault, NEW p \in Procs, Acquire(p) \/ Proceed(p)
    PROVE  Truth'
    <1> USE DEF SupInv
    <1>1. \A q \in Procs \ {p} : op'[q] = op[q]
        BY OthersStay
    <1>2. CASE StopNothing(p)
        <2>1. Outside /\ handle' = handle
            BY <1>2, AsideSteps DEF Aside
        <2>2. handle[op[p].src] = NoSlot /\ op[p].src \in Sources
            BY <1>2 DEF StopNothing, At, CallsInv, Sound
        <2>3. \/ rows' = rows
              \/ SetStatus(op[p].src, "stopped") \/ SetStatusFails(op[p].src)
            BY <1>2 DEF StopNothing
        <2>4. ASSUME NEW s \in Sources, rows'[s].exists
              PROVE  rows[s].exists /\ (rows'[s].status = rows[s].status \/ Told(s)')
            <3>1. CASE rows' = rows
                BY <2>4, <3>1
            <3>2. CASE SetStatus(op[p].src, "stopped")
                <4>1. rows' = [rows EXCEPT ![op[p].src].status = "stopped"] /\ rows[op[p].src].exists
                    BY <3>2 DEF SetStatus, Exists
                <4>2. CASE s = op[p].src
                    BY <2>1, <2>2, <4>1, <4>2 DEF WorldType, Row, Told
                <4>3. CASE s # op[p].src
                    BY <2>4, <4>1, <4>3 DEF WorldType
                <4>4. QED
                    BY <4>2, <4>3
            <3>3. CASE SetStatusFails(op[p].src)
                BY <2>4, <3>3 DEF SetStatusFails
            <3>4. QED
                BY <2>3, <3>1, <3>2, <3>3
        <2>5. QED
            BY <2>1, <2>4, TruthStays
    <1>3. CASE Remove(p)
        <2>1. Outside /\ handle' = handle
            BY <1>3, AsideSteps DEF Aside
        <2>2. rows' = [rows EXCEPT ![op[p].src].exists = FALSE]
            BY <1>3 DEF Remove
        <2>3. \A s \in Sources : rows'[s].exists => rows'[s] = rows[s]
            BY <2>2 DEF WorldType, Row
        <2>4. QED
            BY <2>1, <2>3, TruthStays
    <1>4. CASE Aside(p) /\ ~StopNothing(p) /\ ~Remove(p)
        <2>1. Outside /\ handle' = handle
            BY <1>4, AsideSteps
        <2>2. rows' = rows
            BY <1>4 DEF Aside, StartNothing, StartNextOf, ListToResume, KeepNotRunning, ListToReconcile, TakeFailure, table
        <2>3. QED
            BY <2>1, <2>2, TruthStays
    <1>5. CASE ~Aside(p)
        <2>1. PICK s \in Sources : s = op[p].src
            BY <1>5 DEF Acquire, Proceed, Aside, BeginStart, BeginStop, DropHandle, Build, Reject, EnsureSession, Spawn,
                   WriteRunning, WriteError, CloseIfIdle, ReaderDone, WriteStopped, WriteFailed, At, CallsInv, Sound
        <2>2. CASE Build(p) \/ EnsureSession(p) \/ CloseIfIdle(p) \/ BeginStart(p)
            <3>1. handle' = handle /\ rows' = rows
                BY <2>2 DEF Build, EnsureSession, CloseIfIdle, BeginStart, table
            <3>2. /\ InLock(p) \/ lock = NoProc
                  /\ op[p].stage \notin Untold
                BY <2>2 DEF Build, EnsureSession, CloseIfIdle, BeginStart, Hold, InLock, At, Untold
            <3>3. \/ handle[s] = NoSlot /\ op'[p].stage \in Without \ {"status"} /\ op'[p].src = s
                  \/ op'[p].stage \in Out
                <4>1. CASE CloseIfIdle(p)
                    BY <4>1, CallFacts, IdleSound DEF CloseIfIdle, Out
                <4>2. CASE BeginStart(p)
                    BY <2>1, <4>2, CallFacts DEF BeginStart, Without
                <4>3. CASE Build(p) \/ EnsureSession(p)
                    <5>1. handle[s] = NoSlot
                        BY <2>1, <4>3 DEF Build, EnsureSession, At, Truth, Without
                    <5>2. Go(p, "reject") \/ Go(p, "session") \/ Go(p, "spawn") \/ Go(p, "error")
                        BY <4>3 DEF Build, EnsureSession
                    <5>3. QED
                        BY <2>1, <5>1, <5>2, CallFacts DEF Without
                <4>4. QED
                    BY <2>2, <4>1, <4>2, <4>3
            <3>4. rows[s].exists => (rows[s].status = "running" <=> handle[s] # NoSlot)
                BY <3>2, ToldNow
            <3>5. QED
                BY <1>1, <2>1, <3>1, <3>2, <3>3, <3>4, TruthMoves DEF Out, Without
        <2>3. CASE Reject(p) \/ WriteError(p) \/ WriteStopped(p) \/ (WriteFailed /\ p = "drain")
            <3>1. handle' = handle /\ handle[s] = NoSlot /\ InLock(p)
                BY <2>1, <2>3 DEF Reject, WriteError, WriteStopped, WriteFailed, At, InLock, Truth, Without
            <3>2. \E t \in {"error", "stopped"} : SetStatus(s, t) \/ SetStatusFails(s)
                BY <2>1, <2>3 DEF Reject, WriteError, WriteStopped, WriteFailed
            <3>3. /\ \A t \in Sources \ {s} : rows'[t] = rows[t]
                  /\ rows'[s].exists => rows'[s].status # "running"
                BY <3>2, StatusWritten
            <3>4. op'[p].stage \in Out \cup {"close"} /\ (op'[p].stage \notin Out => op'[p].src = s)
                BY <2>1, <2>3, CallFacts, IdleSound DEF Reject, WriteError, WriteStopped, WriteFailed, AfterStop, Out
            <3>5. QED
                BY <1>1, <2>1, <3>1, <3>3, <3>4, TruthMoves DEF Out, Without
        <2>4. CASE WriteRunning(p)
            <3>1. handle' = handle /\ handle[s] # NoSlot /\ InLock(p)
                BY <2>1, <2>4 DEF WriteRunning, At, InLock, Truth
            <3>2. SetStatus(s, "running") \/ SetStatusFails(s)
                BY <2>1, <2>4 DEF WriteRunning
            <3>3. /\ \A t \in Sources \ {s} : rows'[t] = rows[t]
                  /\ rows'[s].exists => rows'[s].status = "running"
                BY <3>2, StatusWritten
            <3>4. op'[p].stage \in Out
                BY <2>4, CallFacts, IdleSound DEF WriteRunning, Out
            <3>5. QED
                BY <1>1, <2>1, <3>1, <3>3, <3>4, TruthMoves DEF Out, Without
        <2>5. CASE Spawn(p)
            <3>1. handle[s] = NoSlot /\ InLock(p) /\ op[p].stage \notin Untold /\ rows' = rows
                BY <2>1, <2>5 DEF Spawn, At, InLock, Truth, Without, Untold
            <3>2. CASE Go(p, "error") /\ handle' = handle
                <4>1. op'[p].stage = "error" /\ op'[p].src = s
                    BY <2>1, <3>2, CallFacts
                <4>2. rows[s].exists => (rows[s].status = "running" <=> handle[s] # NoSlot)
                    BY <3>1, ToldNow
                <4>3. QED
                    BY <1>1, <2>1, <3>1, <3>2, <4>1, <4>2, TruthMoves DEF Out, Without
            <3>3. CASE Go(p, "status") /\ \E i \in Slots : handle' = [handle EXCEPT ![s] = i]
                <4>1. op'[p].stage = "status" /\ op'[p].src = s
                    BY <2>1, <3>3, CallFacts
                <4>2. handle'[s] # NoSlot /\ \A t \in Sources \ {s} : handle'[t] = handle[t]
                    BY <3>3, SupervisorAssumption DEF WorldType
                <4>3. QED
                    BY <1>1, <2>1, <3>1, <4>1, <4>2, TruthMoves DEF Out, Without, Untold
            <3>4. (Go(p, "error") /\ handle' = handle)
                  \/ (Go(p, "status") /\ \E i \in Slots : handle' = [handle EXCEPT ![s] = i])
                BY <2>1, <2>5 DEF Spawn
            <3>5. QED
                BY <3>2, <3>3, <3>4
        <2>6. CASE ReaderDone(p)
            <3>1. handle' = handle /\ rows' = rows /\ InLock(p) /\ handle[s] = NoSlot
                BY <2>1, <2>6 DEF ReaderDone, table, InLock, At, Truth, Without
            <3>2. op'[p].stage = "stopped" /\ op'[p].src = s
                BY <2>1, <2>6 DEF ReaderDone, CallsInv, Op
            <3>3. QED
                BY <1>1, <2>1, <3>1, <3>2, TruthMoves DEF Out, Without, Untold
        <2>7. CASE BeginStop(p)
            <3>1. lock = NoProc /\ rows' = rows /\ handle' = [handle EXCEPT ![s] = NoSlot]
                BY <2>1, <2>7 DEF BeginStop, Hold
            <3>2. op'[p].stage \in {"stopped", "teardown"} /\ op'[p].src = s
                <4>1. Go(p, "stopped") \/ op' = [op EXCEPT ![p].stage = "teardown", ![p].slot = handle[op[p].src]]
                    BY <2>7 DEF BeginStop
                <4>2. QED
                    BY <2>1, <4>1, CallFacts DEF CallsInv, Op
            <3>3. handle'[s] = NoSlot /\ \A t \in Sources \ {s} : handle'[t] = handle[t]
                BY <3>1 DEF WorldType
            <3>4. QED
                BY <1>1, <2>1, <3>1, <3>2, <3>3, TruthMoves DEF Out, Without, Untold
        <2>8. CASE DropHandle /\ p = "drain"
            <3>1. lock = NoProc /\ rows' = rows /\ op[p].stage = "lock"
                BY <2>8 DEF DropHandle, At
            <3>2. CASE handle[s] = NoSlot
                <4>1. handle' = handle /\ op'[p].stage = "idle"
                    BY <2>1, <2>8, <3>2, CallFacts, IdleSound DEF DropHandle
                <4>2. rows[s].exists => (rows[s].status = "running" <=> handle[s] # NoSlot)
                    BY <3>1, ToldNow DEF Untold
                <4>3. QED
                    BY <1>1, <2>1, <3>1, <4>1, <4>2, TruthMoves DEF Out, Without
            <3>3. CASE handle[s] # NoSlot
                <4>1. handle' = [handle EXCEPT ![s] = NoSlot] /\ Go(p, "failed")
                    BY <2>1, <2>8, <3>3 DEF DropHandle
                <4>2. handle'[s] = NoSlot /\ \A t \in Sources \ {s} : handle'[t] = handle[t]
                    BY <4>1 DEF WorldType
                <4>3. op'[p].stage = "failed" /\ op'[p].src = s
                    BY <2>1, <4>1, CallFacts
                <4>4. QED
                    BY <1>1, <2>1, <3>1, <4>2, <4>3, TruthMoves DEF Out, Without, Untold
            <3>4. QED
                BY <3>2, <3>3
        <2>9. QED
            BY <1>5, <2>2, <2>3, <2>4, <2>5, <2>6, <2>7, <2>8 DEF Acquire, Proceed, Aside
    <1>6. QED
        BY <1>2, <1>3, <1>4, <1>5

LEMMA TruthNext == SupInv /\ TruthInv /\ [Next]_vars => TruthInv'
    <1> SUFFICES ASSUME SupInv, TruthInv, [Next]_vars, faults' = 0 PROVE Truth'
        BY DEF TruthInv
    <1> USE DEF SupInv
    <1>0. Truth /\ ~Fault /\ ~Restart /\ \A c \in Clients : ~Cancel(c)
        BY FaultsCount, NoFault DEF TruthInv
    <1>1. ASSUME NEW p \in Procs, Acquire(p) \/ Proceed(p)
          PROVE  Truth'
        BY <1>0, <1>1, TruthProceeds
    <1>2. ASSUME NEW c \in Clients, NEW s \in Sources, Asking(c, s)
          PROVE  Truth'
        <2>1. Outside /\ handle' = handle
            BY <1>2, AskingSteps
        <2>2. \/ rows' = rows
              \/ rows' = [rows EXCEPT ![s].desired = "running"]
              \/ rows' = [rows EXCEPT ![s].desired = "stopped"]
            BY <1>2 DEF Asking, RequestStart, RequestStop, RequestDelete, table
        <2>3. ASSUME NEW t \in Sources
              PROVE  rows'[t].exists = rows[t].exists /\ rows'[t].status = rows[t].status
            <3>1. rows[t] \in Row
                BY DEF WorldType
            <3>2. \/ rows'[t] = rows[t]
                  \/ rows'[t] = [rows[t] EXCEPT !.desired = "running"]
                  \/ rows'[t] = [rows[t] EXCEPT !.desired = "stopped"]
                BY <2>2 DEF WorldType
            <3>3. QED
                BY <3>1, <3>2 DEF Row
        <2>4. QED
            BY <1>0, <2>1, <2>3, TruthStays
    <1>3. ASSUME NEW s \in Sources,
                 Replug(s) \/ \E i \in Slots : CapturerStops(s, i) \/ ReaderEnds(s, i) \/ DeviceDies(s, i)
          PROVE  Truth'
        <2>1. handle' = handle /\ rows' = rows /\ op' = op
            BY <1>3 DEF Replug, CapturerStops, ReaderEnds, DeviceDies, table
        <2>2. QED
            BY <1>0, <2>1, TruthStays DEF Outside
    <1>4. CASE UNCHANGED vars
        <2>1. handle' = handle /\ rows' = rows /\ op' = op
            BY <1>4 DEF vars, table
        <2>2. QED
            BY <1>0, <2>1, TruthStays DEF Outside
    <1>5. QED
        BY <1>0, <1>1, <1>2, <1>3, <1>4 DEF Next, Asking

\* What the supervisor says of its sources is true: until a device has died no failure is
\* reported, and without faults a row says running exactly if its source has a handle whenever
\* the lock is free, whatever starts, stops, deletions and failures came together.
THEOREM ReportsHold == Spec => []ReportsAreTrue
    <1>1. Init => SupInv /\ FailureInv /\ TruthInv
        <2>1. Init => Calm
            BY Names DEF Init, Calm, ProcNames
        <2>2. Init => Truth
            BY IdleSound DEF Init, Truth, Told, Without
        <2>3. QED
            BY <2>1, <2>2, InitCalls, InitWorld DEF SupInv, FailureInv, TruthInv
    <1>2. SupInv /\ FailureInv /\ TruthInv /\ [Next]_vars => (SupInv /\ FailureInv /\ TruthInv)'
        BY NextSup, FailureNext, TruthNext
    <1>3. SupInv /\ FailureInv /\ TruthInv => ReportsAreTrue
        <2> SUFFICES ASSUME SupInv, FailureInv, TruthInv PROVE ReportsAreTrue
            OBVIOUS
        <2>1. NoFalseFailure
            BY DEF FailureInv, Calm, NoFalseFailure
        <2>2. ASSUME faults = 0, lock = NoProc, NEW s \in Sources, Exists(s)
              PROVE  rows[s].status = "running" <=> handle[s] # NoSlot
            <3>1. \A p \in Procs : op[p].stage \notin Untold
                BY <2>2, Names DEF SupInv, CallsInv, InLock, Untold, ProcNames
            <3>2. QED
                BY <2>2, <3>1 DEF TruthInv, Truth, Told, Exists
        <2>3. QED
            BY <2>1, <2>2 DEF ReportsAreTrue, StatusTellsTruth
    <1>4. QED
        BY <1>1, <1>2, <1>3, PTL DEF Spec

-----------------------------------------------------------------------------
(* The suite: where the alerts move, each step is one of theirs.            *)

LEMMA AlertsAreThere == PartsSpec => Crossings!Spec
    <1>1. PartsInit => Crossings!Init
        BY DEF PartsInit
    <1>2. [PartsNext]_<<part, vars, alertVars>> => [Crossings!Next]_Crossings!vars
        BY DEF PartsNext, alertVars, Crossings!vars
    <1>3. QED
        BY <1>1, <1>2, PTL DEF PartsSpec, Crossings!Spec

\* In the capture run, and in any other instance of it, crossings are told as they were
\* written (ingest/alerts.rs, zones.rs): CrossingsHold of ZoneAlertsProofs, whose
\* assumption the suite makes of its constants.
THEOREM CrossingsAreToldHere == PartsSpec => []CrossingsAreTold
    <1>1. Crossings!AlertsAssumption /\ Crossings!Spec => []Crossings!CrossingsAreTold
        BY Crossings!CrossingsHold DEF Crossings!CrossingsHold
    <1>2. QED
        BY <1>1, AlertsAreThere, AlertsAreSound, PTL DEF CrossingsAreTold
=============================================================================
