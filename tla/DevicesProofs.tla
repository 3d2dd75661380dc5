---------------------------- MODULE DevicesProofs ----------------------------
(***************************************************************************)
(* The invariants of the devices run, each for every value of the constants *)
(* of its component: the listeners' tasks and rows, the configuration of a  *)
(* source, a monitor radio, what is said of access points and clients, a    *)
(* Bluetooth start and the scan that follows it, and what device a frame is *)
(* taken for.  No two share a variable: each part starts with an invariant  *)
(* of its own, proved of every step of the suite.                           *)
(***************************************************************************)
EXTENDS DevicesSuite, Sequences, WellFoundedInduction, TLAPS

\* Strengthening: a call is at a stage of its own, with a source; whoever starts holds the
\* lock until the row is written, and has seen that the source has no task.
CallOK(p) ==
    /\ op[p] = Idle \/ (op[p].call # "none" /\ op[p].src \in Sources)
    /\ op[p].call = "start" => op[p].stage \in {"lock", "bind", "running", "error"}
    /\ op[p].call \in {"stop", "delete"} => op[p].stage \in {"lock", "await", "stopped", "remove"}
    /\ op[p].call = "start" /\ op[p].stage # "lock" => lock = p
    /\ op[p].call = "start" /\ op[p].stage \in {"bind", "error"} => table[op[p].src] = Nothing
    /\ op[p].call = "start" /\ op[p].stage = "running" => table[op[p].src] # Nothing

\* Strengthening: the table says exactly which task serves.
TableOK == \A s \in Sources, i \in Slots : task[s][i].state = "serving" <=> table[s] = i

Base == ListenerAssumption /\ TypeOK /\ TableOK /\ \A p \in Procs : CallOK(p)

\* A stop or a delete that has been at the table, and has not written the row yet.
TakenOut(s) == \E p \in Procs : Stops(p) /\ op[p].src = s /\ op[p].stage \in {"await", "stopped"}

\* A start that has served, and has not written the row yet.
Served(s) == \E p \in Procs : op[p].call = "start" /\ op[p].src = s /\ op[p].stage = "running"

\* Strengthening: no start of the source meets a stop; its row is wrong only as long as somebody
\* is about to write it; it is wanted if it runs; and there is nothing left to serve when its
\* row goes.
RowOK(s) ==
    /\ StartUnderWay(s) => ~StopUnderWay(s)
    /\ rows[s].exists =>
          /\ rows[s].status = "running" => table[s] # Nothing \/ StartUnderWay(s) \/ TakenOut(s)
          /\ table[s] # Nothing => rows[s].status = "running" \/ Served(s)
          /\ rows[s].status = "running" \/ StartUnderWay(s) =>
                rows[s].desired = "running" \/ \E p \in Procs : op[p].call = "stop" /\ op[p].src = s
    /\ ~rows[s].exists => table[s] = Nothing /\ ~StartUnderWay(s)
    /\ \A p \in Procs : Stops(p) /\ op[p].src = s /\ op[p].stage # "lock" => table[s] = Nothing

RowsInv == \A s \in Sources : s \notin disturbed => RowOK(s)

-----------------------------------------------------------------------------
(* Calls. *)

LEMMA IdleFacts ==
    /\ Idle \in Op /\ Idle.call = "none" /\ Idle.stage = "idle" /\ Idle.src = Nothing
    /\ Idle.slot = Nothing /\ Idle.addr = Nothing
    BY DEF Idle, Op

\* The others stay where they are.
Alone(p) == op' \in [Procs -> Op] /\ \A q \in Procs \ {p} : op'[q] = op[q]

LEMMA OpMoves ==
    ASSUME TypeOK, NEW p \in Procs, NEW o \in Op, op' = [op EXCEPT ![p] = o]
    PROVE  Alone(p) /\ op'[p] = o
    BY DEF TypeOK, Alone

\* A step of a call, to another stage or to its end.
LEMMA GoMoves ==
    ASSUME TypeOK, NEW p \in Procs,
           NEW stage \in {"idle", "lock", "bind", "running", "error", "await", "stopped", "remove",
                          "write", "open"},
           Go(p, stage)
    PROVE  /\ Alone(p) /\ op'[p].stage = stage /\ op'[p].call = op[p].call /\ op'[p].src = op[p].src
           /\ op'[p].slot = op[p].slot /\ op'[p].addr = op[p].addr
    <1>1. op[p] \in Op
        BY DEF TypeOK
    <1> DEFINE o == [op[p] EXCEPT !.stage = stage]
    <1>2. /\ o \in Op /\ o.stage = stage /\ o.call = op[p].call /\ o.src = op[p].src
          /\ o.slot = op[p].slot /\ o.addr = op[p].addr
        BY <1>1 DEF Op
    <1>3. op' = [op EXCEPT ![p] = o]
        BY DEF Go
    <1> HIDE DEF o
    <1>4. QED
        BY <1>2, <1>3, OpMoves

LEMMA DoneMoves ==
    ASSUME TypeOK, NEW p \in Procs, Done(p)
    PROVE  Alone(p) /\ op'[p] = Idle
    BY IdleFacts, OpMoves DEF Done

LEMMA BeginMoves ==
    ASSUME TypeOK, NEW p \in Procs, NEW s \in Sources,
           NEW call \in {"start", "stop", "delete", "edit", "allow"},
           NEW stage \in {"lock", "remove", "write"},
           Begin(p, call, stage, s)
    PROVE  /\ Alone(p) /\ op[p] = Idle
           /\ op'[p].call = call /\ op'[p].stage = stage /\ op'[p].src = s
    <1> DEFINE o == [Idle EXCEPT !.call = call, !.stage = stage, !.src = s]
    <1>1. o \in Op /\ o.call = call /\ o.stage = stage /\ o.src = s
        BY IdleFacts DEF Op
    <1>2. op' = [op EXCEPT ![p] = o] /\ op[p] = Idle
        BY DEF Begin
    <1> HIDE DEF o
    <1>3. QED
        BY <1>1, <1>2, OpMoves

\* While the tables and the lock stay as they are, a step of p concerns p.
LEMMA CallsStand ==
    ASSUME \A q \in Procs : CallOK(q), NEW p \in Procs, Alone(p), UNCHANGED <<table, lock>>, CallOK(p)'
    PROVE  \A q \in Procs : CallOK(q)'
    BY DEF CallOK, Alone

-----------------------------------------------------------------------------
(* Every call. *)

Row == [exists : BOOLEAN, desired : {"running", "stopped"},
        status : {"running", "stopped", "error"}, addr : Addresses]

\* A row is changed in one column.
LEMMA RowTypes ==
    ASSUME TypeOK, NEW s \in Sources,
           \/ rows' = rows
           \/ \E x \in {"running", "stopped"} : rows' = [rows EXCEPT ![s].desired = x]
           \/ \E x \in {"running", "stopped", "error"} : rows' = [rows EXCEPT ![s].status = x]
           \/ \E x \in Addresses : rows' = [rows EXCEPT ![s].addr = x]
           \/ rows' = [rows EXCEPT ![s].exists = FALSE]
    PROVE  rows' \in [Sources -> Row]
    <1>1. rows \in [Sources -> Row] /\ rows[s] \in Row
        BY DEF TypeOK, Row
    <1>2. /\ \A x \in {"running", "stopped"} : [rows[s] EXCEPT !.desired = x] \in Row
          /\ \A x \in {"running", "stopped", "error"} : [rows[s] EXCEPT !.status = x] \in Row
          /\ \A x \in Addresses : [rows[s] EXCEPT !.addr = x] \in Row
          /\ [rows[s] EXCEPT !.exists = FALSE] \in Row
        BY <1>1 DEF Row
    <1>3. rows' = rows \/ \E r \in Row : rows' = [rows EXCEPT ![s] = r]
        BY <1>2
    <1>4. QED
        BY <1>1, <1>3

\* The rest of the types, when a step leaves the tasks alone.
Rest ==
    /\ rows \in [Sources -> Row]
    /\ windows \subseteq Sources
    /\ want \subseteq Sources /\ taken \subseteq Addresses /\ disturbed \subseteq Sources
    /\ requests \in 0 .. MaxRequests /\ faults \in 0 .. MaxFaults
    /\ takes \in 0 .. MaxTaken /\ restarts \in 0 .. MaxRestarts

LEMMA FaultType ==
    ASSUME Base, Fault
    PROVE  faults' \in 0 .. MaxFaults /\ faults' # 0
    BY DEF Base, TypeOK, Fault, ListenerAssumption

LEMMA StatusType ==
    ASSUME Base, NEW s \in Sources, NEW status \in {"running", "stopped", "error"}, SetStatus(s, status)
    PROVE  rows' \in [Sources -> Row] /\ faults' \in 0 .. MaxFaults /\ disturbed' \subseteq Sources
    <1>1. faults' \in 0 .. MaxFaults /\ disturbed' \subseteq Sources
        BY FaultType DEF Base, TypeOK, SetStatus
    <1>2. rows' = rows \/ \E x \in {"running", "stopped", "error"} : rows' = [rows EXCEPT ![s].status = x]
        BY DEF SetStatus
    <1>3. QED
        BY <1>1, <1>2, RowTypes DEF Base

\* A step of p that leaves the tables and the lock alone.
LEMMA CallGoesOn ==
    ASSUME Base, NEW p \in Procs, Alone(p), UNCHANGED <<table, task, lock>>, CallOK(p)', Rest'
    PROVE  Base'
    <1>1. \A q \in Procs : CallOK(q)'
        BY CallsStand DEF Base
    <1>2. TypeOK'
        BY DEF Base, TypeOK, Rest, Alone, Row
    <1>3. TableOK' /\ ListenerAssumption'
        BY DEF Base, TableOK, ListenerAssumption
    <1>4. QED
        BY <1>1, <1>2, <1>3 DEF Base, Procs

LEMMA RequestSteps ==
    ASSUME Base, NEW c \in Clients, NEW s \in Sources,
           RequestStart(c, s) \/ RequestStop(c, s) \/ RequestDelete(c, s) \/ RequestEdit(c, s)
               \/ RequestAllow(c, s)
    PROVE  /\ Base' /\ Alone(c) /\ c \in Procs /\ op[c] = Idle /\ op'[c].src = s
           /\ op'[c].call # "none" /\ (op'[c].call = "start" => op'[c].stage = "lock")
    <1> USE DEF Base
    <1>1. c \in Procs
        BY DEF Procs
    <1>2. /\ UNCHANGED <<table, task, windows, lock, want, taken, faults, takes, restarts>>
          /\ requests < MaxRequests /\ requests' = requests + 1
          /\ disturbed' \in {disturbed, disturbed \union {s}}
        BY DEF RequestStart, RequestStop, RequestDelete, RequestEdit, RequestAllow, Request
    <1>3. PICK call \in {"start", "stop", "delete", "edit", "allow"}, stage \in {"lock", "remove", "write"} :
              /\ Begin(c, call, stage, s)
              /\ call \in {"start", "stop"} => stage = "lock"
              /\ call = "delete" => stage \in {"lock", "remove"}
        BY DEF RequestStart, RequestStop, RequestDelete, RequestEdit, RequestAllow
    <1>4. Alone(c) /\ op[c] = Idle /\ op'[c].call = call /\ op'[c].stage = stage /\ op'[c].src = s
        BY <1>1, <1>3, BeginMoves
    <1>5. CallOK(c)'
        BY <1>3, <1>4 DEF CallOK
    <1>6. Rest'
        <2>1. rows' = rows \/ \E x \in {"running", "stopped"} : rows' = [rows EXCEPT ![s].desired = x]
            BY DEF RequestStart, RequestStop, RequestDelete, RequestEdit, RequestAllow
        <2> HIDE DEF Base
        <2>2. rows' \in [Sources -> Row]
            BY <2>1, RowTypes DEF Base
        <2> USE DEF Base
        <2>3. disturbed' \subseteq Sources /\ requests' \in 0 .. MaxRequests
            BY <1>2 DEF TypeOK, ListenerAssumption
        <2>4. QED
            BY <1>2, <2>2, <2>3 DEF Rest, TypeOK, Row
    <1>7. Base'
        BY <1>1, <1>2, <1>4, <1>5, <1>6, CallGoesOn
    <1>8. QED
        BY <1>1, <1>3, <1>4, <1>7

LEMMA RowSteps ==
    ASSUME Base, NEW p \in Procs, WriteEdit(p) \/ Remove(p)
    PROVE  Base' /\ Alone(p) /\ op'[p] = Idle /\ op[p].src \in Sources
    <1> USE DEF Base
    <1>1. Done(p) /\ UNCHANGED <<table, task, windows, lock, want, taken, faults, disturbed, budget>>
        BY DEF WriteEdit, Remove
    <1>2. Alone(p) /\ op'[p] = Idle
        BY <1>1, DoneMoves
    <1>3. op[p].src \in Sources
        BY IdleFacts DEF WriteEdit, Remove, At, CallOK
    <1>4. rows' \in [Sources -> Row]
        <2>1. \/ rows' = rows \/ rows' = [rows EXCEPT ![op[p].src].exists = FALSE]
              \/ \E a \in Addresses : rows' = [rows EXCEPT ![op[p].src].addr = a]
            BY DEF WriteEdit, Remove
        <2>2. QED
            BY <1>3, <2>1, RowTypes
    <1>5. Rest' /\ CallOK(p)'
        BY <1>1, <1>2, <1>4, IdleFacts DEF Rest, TypeOK, Row, budget, CallOK
    <1>6. QED
        BY <1>1, <1>2, <1>3, <1>5, CallGoesOn

\* Steps that change nothing but the call.
LEMMA QuietSteps ==
    ASSUME Base, NEW p \in Procs,
           CheckListening(p) \/ StartNothing(p) \/ BindFails(p) \/ TaskEnded(p)
    PROVE  /\ Base' /\ Alone(p) /\ op[p] # Idle
           /\ \/ op'[p] = Idle
              \/ op'[p].call = op[p].call /\ op'[p].src = op[p].src /\ op'[p] # Idle
    <1> USE DEF Base
    <1>1. UNCHANGED <<rows, table, task, windows, lock, want, taken, faults, disturbed, budget>>
        BY DEF CheckListening, StartNothing, BindFails, TaskEnded
    <1>2. /\ op[p] # Idle
          /\ Done(p) \/ (op[p].call = "allow" /\ Go(p, "open")) \/ (At(p, "start", "bind") /\ Go(p, "error"))
                     \/ (op[p].call \in {"stop", "delete"} /\ Go(p, "stopped"))
        BY IdleFacts DEF CheckListening, StartNothing, BindFails, TaskEnded, At, Stops
    <1>3. CASE Done(p)
        <2>1. Alone(p) /\ op'[p] = Idle
            BY <1>3, DoneMoves
        <2>2. CallOK(p)'
            BY <2>1, IdleFacts DEF CallOK
        <2>3. QED
            BY <1>1, <1>2, <2>1, <2>2, CallGoesOn DEF Rest, TypeOK, Row, budget
    <1>4. ASSUME NEW stage \in {"open", "error", "stopped"}, Go(p, stage),
                 \/ stage = "open" /\ op[p].call = "allow"
                 \/ stage = "error" /\ At(p, "start", "bind")
                 \/ stage = "stopped" /\ op[p].call \in {"stop", "delete"}
          PROVE  Base' /\ Alone(p) /\ op'[p].call = op[p].call /\ op'[p].src = op[p].src /\ op'[p] # Idle
        <2>1. Alone(p) /\ op'[p].stage = stage /\ op'[p].call = op[p].call /\ op'[p].src = op[p].src
            BY <1>4, GoMoves
        <2>2. CallOK(p)' /\ op'[p] # Idle
            BY <1>1, <1>2, <1>4, <2>1, IdleFacts DEF CallOK, At
        <2>3. QED
            BY <1>1, <1>2, <2>1, <2>2, CallGoesOn DEF Rest, TypeOK, Row, budget
    <1>5. QED
        BY <1>2, <1>3, <1>4

LEMMA OpenSteps ==
    ASSUME Base, NEW p \in Procs, OpenWindow(p)
    PROVE  Base' /\ Alone(p) /\ op[p] # Idle /\ op'[p] = Idle
    <1> USE DEF Base
    <1>1. Alone(p) /\ op'[p] = Idle /\ op[p] # Idle /\ op[p].src \in Sources
        BY DoneMoves, IdleFacts DEF OpenWindow, At, CallOK
    <1>2. CallOK(p)'
        BY <1>1, IdleFacts DEF CallOK
    <1>3. Rest'
        BY <1>1 DEF OpenWindow, Rest, TypeOK, Row, budget
    <1>4. QED
        BY <1>1, <1>2, <1>3, CallGoesOn DEF OpenWindow

LEMMA ResumeSteps ==
    ASSUME Base, NEW p \in Procs, NEW s \in want, want' = want \ {s}, Begin(p, "start", "lock", s),
           UNCHANGED <<rows, table, task, windows, lock, taken, faults, disturbed, budget>>
    PROVE  /\ Base' /\ Alone(p) /\ op[p] = Idle /\ s \in Sources
           /\ op'[p].call = "start" /\ op'[p].stage = "lock" /\ op'[p].src = s
    <1> USE DEF Base
    <1>1. s \in Sources
        BY DEF TypeOK
    <1>2. /\ Alone(p) /\ op[p] = Idle
          /\ op'[p].call = "start" /\ op'[p].stage = "lock" /\ op'[p].src = s
        BY <1>1, BeginMoves
    <1>3. CallOK(p)' /\ Rest'
        BY <1>1, <1>2 DEF CallOK, Rest, TypeOK, Row, budget
    <1>4. QED
        BY <1>1, <1>2, <1>3, CallGoesOn

LEMMA WriteStoppedSteps ==
    ASSUME Base, NEW p \in Procs, WriteStopped(p)
    PROVE  /\ Base' /\ Alone(p) /\ op[p] # Idle /\ op[p].src \in Sources
           /\ \/ op'[p] = Idle
              \/ op'[p].call = op[p].call /\ op'[p].src = op[p].src /\ op'[p] # Idle /\ op'[p].stage = "remove"
    <1> USE DEF Base
    <1>1. op[p] # Idle /\ op[p].src \in Sources /\ op[p].call \in {"stop", "delete"}
        BY IdleFacts DEF WriteStopped, Stops, CallOK
    <1>2. /\ SetStatus(op[p].src, "stopped")
          /\ UNCHANGED <<table, task, windows, lock, want, taken, budget>>
          /\ (op[p].call = "delete" /\ Go(p, "remove")) \/ Done(p)
        BY DEF WriteStopped
    <1>3. rows' \in [Sources -> Row] /\ faults' \in 0 .. MaxFaults /\ disturbed' \subseteq Sources
        BY <1>1, <1>2, StatusType
    <1>4. Rest'
        BY <1>2, <1>3 DEF Rest, TypeOK, budget
    <1>5. CASE Done(p)
        <2>1. Alone(p) /\ op'[p] = Idle
            BY <1>5, DoneMoves
        <2>2. CallOK(p)'
            BY <2>1, IdleFacts DEF CallOK
        <2>3. QED
            BY <1>1, <1>2, <1>4, <2>1, <2>2, CallGoesOn
    <1>6. CASE op[p].call = "delete" /\ Go(p, "remove")
        <2>1. Alone(p) /\ op'[p].stage = "remove" /\ op'[p].call = op[p].call /\ op'[p].src = op[p].src
            BY <1>6, GoMoves
        <2>2. CallOK(p)' /\ op'[p] # Idle
            BY <1>1, <1>6, <2>1, IdleFacts DEF CallOK
        <2>3. QED
            BY <1>1, <1>2, <1>4, <2>1, <2>2, CallGoesOn
    <1>7. QED
        BY <1>2, <1>5, <1>6

-----------------------------------------------------------------------------
(* The lock and the tables. *)

LEMMA ReadAddressSteps ==
    ASSUME Base, NEW p \in Procs, ReadAddress(p)
    PROVE  /\ Base' /\ Alone(p) /\ op[p] # Idle /\ op[p].call = "start"
           /\ op'[p].call = "start" /\ op'[p].stage = "bind" /\ op'[p].src = op[p].src
    <1> USE DEF Base
    <1> DEFINE o == [op[p] EXCEPT !.stage = "bind", !.addr = rows[op[p].src].addr]
    <1>1. op[p] # Idle /\ op[p].src \in Sources /\ op[p].call = "start" /\ op[p] \in Op
        BY IdleFacts DEF ReadAddress, At, CallOK, TypeOK
    <1>2. rows[op[p].src].addr \in Addresses
        BY <1>1 DEF TypeOK
    <1>3. o \in Op /\ o.call = "start" /\ o.stage = "bind" /\ o.src = op[p].src
        BY <1>1, <1>2 DEF Op
    <1>4. op' = [op EXCEPT ![p] = o]
        BY DEF ReadAddress
    <1> HIDE DEF o
    <1>5. Alone(p) /\ op'[p] = o
        BY <1>3, <1>4, OpMoves
    <1>6. /\ lock = Nothing /\ lock' = p /\ table[op[p].src] = Nothing
          /\ UNCHANGED <<rows, table, task, windows, want, taken, faults, disturbed, budget>>
        BY DEF ReadAddress
    <1>7. \A q \in Procs : ~(op[q].call = "start" /\ op[q].stage # "lock")
        BY <1>6 DEF CallOK, ListenerAssumption, Procs
    <1>8. \A q \in Procs \ {p} : CallOK(q)'
        BY <1>5, <1>6, <1>7 DEF CallOK, Alone
    <1>9. CallOK(p)'
        BY <1>1, <1>3, <1>5, <1>6 DEF CallOK
    <1>10. TypeOK' /\ TableOK'
        BY <1>5, <1>6 DEF TypeOK, TableOK, Alone, budget
    <1>11. QED
        BY <1>1, <1>3, <1>5, <1>8, <1>9, <1>10 DEF ListenerAssumption, Procs

\* The lock is let go by whoever held it, or held nothing.
LEMMA LetGoMoves ==
    ASSUME Base, NEW p \in Procs, Done(p), lock' = Nothing \/ (lock # p /\ lock' = lock),
           lock' = Nothing => lock \in {p, Nothing}, UNCHANGED <<table, task>>, Rest'
    PROVE  Base' /\ Alone(p) /\ op'[p] = Idle
    <1> USE DEF Base
    <1>1. Alone(p) /\ op'[p] = Idle
        BY DoneMoves
    <1>2. CallOK(p)'
        BY <1>1, IdleFacts DEF CallOK
    <1>3. \A q \in Procs \ {p} : CallOK(q)'
        BY <1>1 DEF CallOK, Alone, ListenerAssumption, Procs
    <1>4. TypeOK' /\ TableOK'
        BY <1>1 DEF TypeOK, TableOK, Alone, Rest, Row
    <1>5. QED
        BY <1>1, <1>2, <1>3, <1>4 DEF ListenerAssumption, Procs

LEMMA WriteStartedSteps ==
    ASSUME Base, NEW p \in Procs, WriteStarted(p)
    PROVE  /\ Base' /\ Alone(p) /\ op[p] # Idle /\ op'[p] = Idle /\ op[p].src \in Sources
    <1> USE DEF Base
    <1>1. op[p] # Idle /\ op[p].src \in Sources /\ lock = p /\ op[p].stage \in {"running", "error"}
        BY IdleFacts DEF WriteStarted, CallOK
    <1>2. /\ SetStatus(op[p].src, op[p].stage) /\ lock' = Nothing /\ Done(p)
          /\ UNCHANGED <<table, task, windows, want, taken, budget>>
        BY DEF WriteStarted
    <1>3. rows' \in [Sources -> Row] /\ faults' \in 0 .. MaxFaults /\ disturbed' \subseteq Sources
        BY <1>1, <1>2, StatusType
    <1>4. Rest'
        BY <1>2, <1>3 DEF Rest, TypeOK, budget
    <1>5. QED
        BY <1>1, <1>2, <1>4, LetGoMoves

LEMMA CancelSteps ==
    ASSUME Base, NEW c \in Clients, Cancel(c)
    PROVE  Base' /\ Fault
    <1> USE DEF Base
    <1>1. c \in Procs /\ Fault /\ faults' \in 0 .. MaxFaults /\ op[c].src \in Sources
        BY FaultType DEF Cancel, Procs, CallOK
    <1>2. Rest'
        BY <1>1 DEF Cancel, Rest, TypeOK, Row, budget
    <1>3. QED
        BY <1>1, <1>2, LetGoMoves DEF Cancel

Task == [state : {"free", "serving", "closing", "draining"}, addr : Addresses \union {Nothing}]

\* A task of s goes to another state.
LEMMA TaskMoves ==
    ASSUME TypeOK, NEW s \in Sources, NEW i \in Slots, NEW t \in Task,
           task' = [task EXCEPT ![s][i] = t]
    PROVE  /\ task' \in [Sources -> [Slots -> Task]] /\ task'[s][i] = t
           /\ \A r \in Sources, j \in Slots : r # s \/ j # i => task'[r][j] = task[r][j]
    BY DEF TypeOK, Task

LEMMA BindSteps ==
    ASSUME Base, NEW p \in Procs, BindAndServe(p)
    PROVE  /\ Base' /\ Alone(p) /\ op[p] # Idle /\ op[p].src \in Sources /\ op'[p].src = op[p].src
           /\ op[p].call = "start" /\ op'[p].call = "start" /\ op'[p].stage = "running"
           /\ op[p].stage = "bind" /\ table'[op[p].src] # Nothing
           /\ \A s \in Sources \ {op[p].src} : table'[s] = table[s]
    <1> USE DEF Base
    <1> DEFINE s == op[p].src
    <1>1. /\ op[p] # Idle /\ s \in Sources /\ op[p].call = "start" /\ op[p].stage = "bind"
          /\ lock = p /\ table[s] = Nothing
        BY IdleFacts DEF BindAndServe, At, CallOK
    <1>2. /\ Alone(p) /\ op'[p].stage = "running" /\ op'[p].call = "start" /\ op'[p].src = s
        BY <1>1, GoMoves DEF BindAndServe
    <1> DEFINE t == [state |-> "serving", addr |-> op[p].addr]
    <1>3. PICK i \in Slots : task' = [task EXCEPT ![s][i] = t] /\ table' = [table EXCEPT ![s] = i]
        BY DEF BindAndServe
    <1>4. t \in Task /\ t.state = "serving"
        BY DEF Task, TypeOK, Op
    <1>5. UNCHANGED <<rows, windows, lock, want, taken, faults, disturbed, budget>>
        BY DEF BindAndServe
    <1> HIDE DEF t, s
    <1>6. /\ task' \in [Sources -> [Slots -> Task]] /\ task'[s][i] = t
          /\ \A r \in Sources, j \in Slots : r # s \/ j # i => task'[r][j] = task[r][j]
        <2>1. PICK r \in Sources, u \in Task : r = s /\ u = t
            BY <1>1, <1>4
        <2>2. task' = [task EXCEPT ![r][i] = u]
            BY <1>3, <2>1
        <2>3. /\ task' \in [Sources -> [Slots -> Task]] /\ task'[r][i] = u
              /\ \A q \in Sources, j \in Slots : q # r \/ j # i => task'[q][j] = task[q][j]
            BY <2>2, TaskMoves
        <2>4. QED
            BY <2>1, <2>3
    <1>7. /\ table' \in [Sources -> Slots \union {Nothing}] /\ table'[s] = i
          /\ \A r \in Sources \ {s} : table'[r] = table[r]
        BY <1>1, <1>3 DEF TypeOK
    <1>8. i # Nothing
        BY DEF ListenerAssumption
    <1>9. TypeOK'
        BY <1>2, <1>5, <1>6, <1>7 DEF TypeOK, Task, Alone, budget
    <1>10. TableOK'
        <2>1. ASSUME NEW r \in Sources, NEW j \in Slots
              PROVE  task'[r][j].state = "serving" <=> table'[r] = j
            <3>1. CASE r = s /\ j = i
                BY <1>4, <1>6, <1>7, <3>1
            <3>2. CASE r = s /\ j # i
                <4>1. task'[r][j] = task[r][j] /\ table[r] # j
                    BY <1>1, <1>6, <3>2 DEF ListenerAssumption
                <4>2. QED
                    BY <1>7, <3>2, <4>1 DEF TableOK
            <3>3. CASE r # s
                BY <1>6, <1>7, <3>3 DEF TableOK
            <3>4. QED
                BY <3>1, <3>2, <3>3
        <2>2. QED
            BY <2>1 DEF TableOK
    <1>11. \A q \in Procs \ {p} : CallOK(q)'
        <2>1. SUFFICES ASSUME NEW q \in Procs \ {p} PROVE CallOK(q)'
            OBVIOUS
        <2>2. ~(op[q].call = "start" /\ op[q].stage # "lock")
            BY <1>1 DEF CallOK
        <2>3. op'[q] = op[q] /\ lock' = lock
            BY <1>2, <1>5 DEF Alone
        <2>4. QED
            BY <2>2, <2>3 DEF CallOK
    <1>12. CallOK(p)'
        BY <1>1, <1>2, <1>5, <1>7, <1>8 DEF CallOK
    <1>13. QED
        BY <1>1, <1>2, <1>7, <1>8, <1>9, <1>10, <1>11, <1>12 DEF ListenerAssumption, Procs, s

LEMMA TakeOutSteps ==
    ASSUME Base, NEW p \in Procs, TakeOut(p)
    PROVE  /\ Base' /\ Alone(p) /\ op[p] # Idle /\ op[p].src \in Sources /\ op'[p].src = op[p].src
           /\ op'[p].call = op[p].call /\ op[p].call \in {"stop", "delete"}
           /\ op'[p].stage \in {"await", "stopped"} /\ table'[op[p].src] = Nothing
           /\ \A s \in Sources \ {op[p].src} : table'[s] = table[s]
    <1> USE DEF Base
    <1> DEFINE s == op[p].src
               i == table[s]
    <1>1. /\ op[p] # Idle /\ s \in Sources /\ op[p].call \in {"stop", "delete"} /\ op[p] \in Op
          /\ lock = Nothing
        BY IdleFacts DEF TakeOut, Stops, CallOK, TypeOK
    <1>2. UNCHANGED <<rows, windows, lock, want, taken, faults, disturbed, budget>>
        BY DEF TakeOut
    <1>3. i \in Slots \union {Nothing}
        BY <1>1 DEF TypeOK
    <1>4. CASE i = Nothing
        <2>1. Go(p, "stopped") /\ UNCHANGED <<table, task>>
            BY <1>4 DEF TakeOut
        <2>2. Alone(p) /\ op'[p].stage = "stopped" /\ op'[p].call = op[p].call /\ op'[p].src = s
            BY <2>1, GoMoves
        <2>3. CallOK(p)'
            BY <1>1, <2>2 DEF CallOK
        <2>4. Rest'
            BY <1>2 DEF Rest, TypeOK, Row, budget
        <2>5. Base'
            BY <1>2, <2>1, <2>2, <2>3, <2>4, CallGoesOn
        <2>6. QED
            BY <1>1, <1>4, <2>1, <2>2, <2>5
    <1>5. CASE i # Nothing
        <2> DEFINE o == [op[p] EXCEPT !.stage = "await", !.slot = i]
                   t == [task[s][i] EXCEPT !.state = "closing"]
        <2>1. i \in Slots /\ task[s][i] \in Task
            BY <1>1, <1>3, <1>5 DEF TypeOK, Task
        <2>2. o \in Op /\ o.stage = "await" /\ o.call = op[p].call /\ o.src = s
            BY <1>1, <2>1 DEF Op
        <2>3. t \in Task /\ t.state = "closing"
            BY <2>1 DEF Task
        <2>4. op' = [op EXCEPT ![p] = o] /\ task' = [task EXCEPT ![s][i] = t] /\ table' = [table EXCEPT ![s] = Nothing]
            BY <1>5 DEF TakeOut
        <2> HIDE DEF o, t, s, i
        <2>5. Alone(p) /\ op'[p] = o
            BY <2>2, <2>4, OpMoves
        <2>6. /\ task' \in [Sources -> [Slots -> Task]] /\ task'[s][i] = t
              /\ \A r \in Sources, j \in Slots : r # s \/ j # i => task'[r][j] = task[r][j]
            <3>1. PICK r \in Sources, k \in Slots, u \in Task : r = s /\ k = i /\ u = t
                BY <1>1, <2>1, <2>3
            <3>2. task' = [task EXCEPT ![r][k] = u]
                BY <2>4, <3>1
            <3>3. /\ task' \in [Sources -> [Slots -> Task]] /\ task'[r][k] = u
                  /\ \A q \in Sources, j \in Slots : q # r \/ j # k => task'[q][j] = task[q][j]
                BY <3>2, TaskMoves
            <3>4. QED
                BY <3>1, <3>3
        <2>7. /\ table' \in [Sources -> Slots \union {Nothing}] /\ table'[s] = Nothing
              /\ \A r \in Sources \ {s} : table'[r] = table[r]
            BY <1>1, <2>4 DEF TypeOK
        <2>8. TypeOK'
            BY <1>2, <2>5, <2>6, <2>7 DEF TypeOK, Task, Alone, budget
        <2>9. TableOK'
            <3>1. ASSUME NEW r \in Sources, NEW j \in Slots
                  PROVE  task'[r][j].state = "serving" <=> table'[r] = j
                <4>1. CASE r = s /\ j = i
                    BY <2>1, <2>3, <2>6, <2>7, <4>1 DEF ListenerAssumption
                <4>2. CASE r = s /\ j # i
                    BY <1>1, <2>6, <2>7, <4>2 DEF TableOK, ListenerAssumption, i
                <4>3. CASE r # s
                    BY <2>6, <2>7, <4>3 DEF TableOK
                <4>4. QED
                    BY <4>1, <4>2, <4>3
            <3>2. QED
                BY <3>1 DEF TableOK
        <2>10. \A q \in Procs \ {p} : CallOK(q)'
            <3>1. SUFFICES ASSUME NEW q \in Procs \ {p} PROVE CallOK(q)'
                OBVIOUS
            <3>2. ~(op[q].call = "start" /\ op[q].stage # "lock")
                BY <1>1 DEF CallOK, ListenerAssumption, Procs
            <3>3. op'[q] = op[q] /\ lock' = lock
                BY <1>2, <2>5 DEF Alone
            <3>4. QED
                BY <3>2, <3>3 DEF CallOK
        <2>11. CallOK(p)'
            BY <1>1, <2>2, <2>5 DEF CallOK
        <2>12. QED
            BY <1>1, <2>2, <2>5, <2>7, <2>8, <2>9, <2>10, <2>11 DEF ListenerAssumption, Procs, s
    <1>6. QED
        BY <1>4, <1>5

\* Steps that are no call's.
LEMMA OtherSteps ==
    ASSUME Base,
           \/ \E s \in Sources : WindowExpires(s) \/ \E i \in Slots : ShutDown(s, i)
           \/ \E a \in Addresses : Take(a) \/ LetGo(a)
           \/ UNCHANGED vars
    PROVE  Base' /\ UNCHANGED <<rows, table, op, want, faults, disturbed>>
    <1> USE DEF Base
    <1>1. UNCHANGED <<rows, table, op, want, faults, disturbed, lock>>
        BY DEF WindowExpires, ShutDown, Take, LetGo, vars, budget
    <1>2. \A q \in Procs : CallOK(q)'
        BY <1>1 DEF CallOK
    <1>3. ASSUME NEW s \in Sources, NEW i \in Slots, ShutDown(s, i)
          PROVE  TypeOK' /\ TableOK'
        <2>1. task[s][i] \in Task /\ Free \in Task /\ Free.state = "free"
            BY DEF TypeOK, Task, Free
        <2>2. /\ [task[s][i] EXCEPT !.state = "draining"] \in Task
              /\ [task[s][i] EXCEPT !.state = "draining"].state = "draining"
            BY <2>1 DEF Task
        <2>3. PICK t \in Task : task' = [task EXCEPT ![s][i] = t] /\ t.state # "serving"
            BY <1>3, <2>1, <2>2 DEF ShutDown, Free
        <2>4. task[s][i].state # "serving"
            BY <1>3 DEF ShutDown
        <2>5. /\ task' \in [Sources -> [Slots -> Task]] /\ task'[s][i] = t
              /\ \A r \in Sources, j \in Slots : r # s \/ j # i => task'[r][j] = task[r][j]
            BY <2>3, TaskMoves
        <2>6. TypeOK'
            BY <1>1, <1>3, <2>5 DEF TypeOK, Task, ShutDown, budget
        <2>7. TableOK'
            BY <1>1, <2>3, <2>4, <2>5 DEF TableOK
        <2>8. QED
            BY <2>6, <2>7
    <1>4. ASSUME UNCHANGED task
          PROVE  TypeOK' /\ TableOK'
        <2>1. takes' \in 0 .. MaxTaken /\ taken' \subseteq Addresses /\ windows' \subseteq Sources
            BY DEF WindowExpires, ShutDown, Take, LetGo, vars, budget, TypeOK, ListenerAssumption
        <2>2. requests' = requests /\ restarts' = restarts
            BY DEF WindowExpires, ShutDown, Take, LetGo, vars, budget
        <2>3. QED
            BY <1>1, <1>4, <2>1, <2>2 DEF TypeOK, TableOK
    <1>5. TypeOK' /\ TableOK'
        BY <1>3, <1>4 DEF WindowExpires, Take, LetGo, vars
    <1>6. QED
        BY <1>1, <1>2, <1>5 DEF ListenerAssumption, Procs

LEMMA RestartSteps ==
    ASSUME Base, Restart
    PROVE  /\ Base' /\ (\A p \in Procs : op'[p] = Idle) /\ (\A s \in Sources : table'[s] = Nothing)
    <1> USE DEF Base
    <1>1. /\ table' = [s \in Sources |-> Nothing]
          /\ task' = [s \in Sources |-> [i \in Slots |-> Free]]
          /\ op' = [p \in Procs |-> Idle]
          /\ want' \subseteq Sources /\ windows' = {} /\ lock' = Nothing
          /\ UNCHANGED <<rows, taken, requests, faults, takes>>
        BY DEF Restart
    <1>2. restarts' \in 0 .. MaxRestarts /\ disturbed' \subseteq Sources
        BY IdleFacts DEF Restart, TypeOK, ListenerAssumption, CallOK
    <1>3. TypeOK'
        BY <1>1, <1>2, IdleFacts DEF TypeOK, Free
    <1>4. TableOK'
        BY <1>1 DEF TableOK, Free, ListenerAssumption
    <1>5. \A q \in Procs : CallOK(q)'
        BY <1>1, IdleFacts DEF CallOK
    <1>6. QED
        BY <1>1, <1>3, <1>4, <1>5 DEF ListenerAssumption, Procs

-----------------------------------------------------------------------------
(* The rows. *)

\* What a step leaves alone of a source.
Same(s) == rows'[s] = rows[s] /\ table'[s] = table[s] /\ (s \in want' <=> s \in want)

\* A step of p concerns the source p is at.
LEMMA Elsewhere ==
    ASSUME Base, NEW p \in Procs, Alone(p), NEW s \in Sources, op[p].src # s, op'[p].src # s,
           Same(s), RowOK(s)
    PROVE  RowOK(s)'
    <1>1. \A q \in Procs : op[q].src = s \/ op'[q].src = s => op'[q] = op[q]
        BY DEF Alone
    <1>2. /\ StartUnderWay(s)' <=> StartUnderWay(s)
          /\ StopUnderWay(s)' <=> StopUnderWay(s)
          /\ TakenOut(s)' <=> TakenOut(s)
          /\ Served(s)' <=> Served(s)
        BY <1>1 DEF StartUnderWay, StopUnderWay, TakenOut, Served, Stops, Same
    <1>3. QED
        BY <1>1, <1>2 DEF RowOK, Stops, Same

LEMMA RequestRows ==
    ASSUME Base, RowsInv, NEW c \in Clients, NEW s \in Sources,
           RequestStart(c, s) \/ RequestStop(c, s) \/ RequestDelete(c, s) \/ RequestEdit(c, s)
               \/ RequestAllow(c, s)
    PROVE  RowsInv'
    <1> SUFFICES ASSUME NEW r \in Sources, r \notin disturbed' PROVE RowOK(r)'
        BY DEF RowsInv
    <1>1. /\ Alone(c) /\ c \in Procs /\ op[c] = Idle /\ op'[c].src = s
        BY RequestSteps
    <1>2. /\ UNCHANGED <<table, want>> /\ disturbed \subseteq disturbed' /\ rows[s].exists
          /\ \A q \in Sources \ {s} : rows'[q] = rows[q]
        <2>1. UNCHANGED <<table, want>> /\ disturbed \subseteq disturbed' /\ rows[s].exists
            BY DEF RequestStart, RequestStop, RequestDelete, RequestEdit, RequestAllow, Request
        <2>2. rows' = rows \/ \E x \in {"running", "stopped"} : rows' = [rows EXCEPT ![s].desired = x]
            BY DEF RequestStart, RequestStop, RequestDelete, RequestEdit, RequestAllow
        <2>3. QED
            BY <2>1, <2>2 DEF Base, TypeOK
    <1>3. RowOK(r)
        BY <1>2 DEF RowsInv
    <1>4. op[c].src # r
        BY <1>1, IdleFacts DEF Base, ListenerAssumption
    <1>5. CASE r # s
        BY <1>1, <1>2, <1>3, <1>4, <1>5, Elsewhere DEF Same
    <1>6. CASE r = s
        <2>1. rows[s] \in Row /\ Idle.call = "none"
            BY IdleFacts DEF Base, TypeOK, Row
        <2>2. CASE RequestStart(c, s)
            <3>1. ~StopUnderWay(s)
                BY <1>6, <2>2 DEF RequestStart, Request
            <3>2. op'[c].call = "start" /\ op'[c].stage = "lock"
                BY <1>1, <2>2, BeginMoves DEF RequestStart, Base
            <3>3. /\ rows'[s].desired = "running" /\ rows'[s].exists
                  /\ rows'[s].status = rows[s].status
                BY <1>2, <2>1, <2>2 DEF RequestStart, Row, Base, TypeOK
            <3>4. \A q \in Procs : ~(Stops(q)' /\ op'[q].src = s)
                BY <1>1, <3>1, <3>2 DEF Alone, StopUnderWay, Stops
            <3>5. StartUnderWay(s)' /\ (Served(s) => Served(s)')
                BY <1>1, <2>1, <3>2 DEF StartUnderWay, Served, Alone
            <3>6. QED
                BY <1>2, <1>3, <1>6, <3>3, <3>4, <3>5 DEF RowOK, StopUnderWay
        <2>3. CASE RequestStop(c, s)
            <3>1. ~StartUnderWay(s)
                BY <1>6, <2>3 DEF RequestStop, Request
            <3>2. op'[c].call = "stop" /\ op'[c].stage = "lock"
                BY <1>1, <2>3, BeginMoves DEF RequestStop, Base
            <3>3. rows'[s].exists /\ rows'[s].status = rows[s].status
                BY <1>2, <2>1, <2>3 DEF RequestStop, Row, Base, TypeOK
            <3>4. ~StartUnderWay(s)' /\ ~Served(s)
                BY <1>1, <1>2, <3>1, <3>2 DEF StartUnderWay, Alone, Served
            <3>5. TakenOut(s) => TakenOut(s)'
                BY <1>1, <2>1 DEF TakenOut, Stops, Alone
            <3>6. \A q \in Procs : Stops(q)' /\ op'[q].src = s /\ op'[q].stage # "lock" => table'[s] = Nothing
                BY <1>1, <1>2, <1>3, <1>6, <3>2 DEF RowOK, Stops, Alone
            <3>7. QED
                BY <1>1, <1>2, <1>3, <1>6, <3>1, <3>2, <3>3, <3>4, <3>5, <3>6 DEF RowOK
        <2>4. CASE RequestDelete(c, s)
            <3>1. ~StartUnderWay(s) /\ rows' = rows
                BY <1>6, <2>4 DEF RequestDelete, Request
            <3>2. /\ op'[c].call = "delete"
                  /\ op'[c].stage = IF rows[s].status = "running" THEN "lock" ELSE "remove"
                BY <1>1, <2>4, BeginMoves DEF RequestDelete, Base
            <3>3. ~StartUnderWay(s)' /\ ~Served(s)
                BY <1>1, <1>2, <3>1, <3>2 DEF StartUnderWay, Alone, Served
            <3>4. TakenOut(s) => TakenOut(s)'
                BY <1>1, <2>1 DEF TakenOut, Stops, Alone
            <3>5. \A q \in Procs : op[q].call = "stop" => op'[q] = op[q]
                BY <1>1, <2>1 DEF Alone
            <3>6. \A q \in Procs : Stops(q)' /\ op'[q].src = s /\ op'[q].stage # "lock" => table'[s] = Nothing
                BY <1>1, <1>2, <1>3, <1>6, <3>2, <3>3 DEF RowOK, Stops, Alone
            <3>7. QED
                BY <1>1, <1>2, <1>3, <1>6, <3>1, <3>3, <3>4, <3>5, <3>6 DEF RowOK
        <2>5. CASE RequestEdit(c, s) \/ RequestAllow(c, s)
            <3>1. op'[c].call \in {"edit", "allow"} /\ rows' = rows
                BY <1>1, <2>5, BeginMoves DEF RequestEdit, RequestAllow, Base
            <3>2. QED
                BY <1>1, <1>2, <1>3, <1>6, <2>1, <3>1
                   DEF RowOK, StartUnderWay, StopUnderWay, Served, TakenOut, Stops, Alone
        <2>6. QED
            BY <2>2, <2>3, <2>4, <2>5
    <1>7. QED
        BY <1>5, <1>6

LEMMA ResumeRows ==
    ASSUME Base, RowsInv, NEW p \in Procs, ResumeNext, p = "resume"
    PROVE  RowsInv'
    <1> SUFFICES ASSUME NEW r \in Sources, r \notin disturbed' PROVE RowOK(r)'
        BY DEF RowsInv
    <1>1. PICK s \in want : /\ want' = want \ {s} /\ Begin(p, "start", "lock", s)
                            /\ UNCHANGED <<rows, table, task, windows, lock, taken, faults, disturbed, budget>>
        BY DEF ResumeNext
    <1>2. /\ Alone(p) /\ op[p] = Idle /\ s \in Sources
          /\ op'[p].call = "start" /\ op'[p].stage = "lock" /\ op'[p].src = s
        BY <1>1, ResumeSteps
    <1>3. RowOK(r) /\ op[p].src # r /\ op[p].call = "none"
        BY <1>1, <1>2, IdleFacts DEF RowsInv, Base, ListenerAssumption
    <1>4. CASE r # s
        BY <1>1, <1>2, <1>3, <1>4, Elsewhere DEF Same
    <1>5. CASE r = s
        <2>1. StartUnderWay(s) /\ StartUnderWay(s)'
            BY <1>1, <1>2 DEF StartUnderWay
        <2>2. /\ StopUnderWay(s)' <=> StopUnderWay(s)
              /\ TakenOut(s)' <=> TakenOut(s)
              /\ Served(s)' <=> Served(s)
            BY <1>2, <1>3 DEF StopUnderWay, TakenOut, Served, Stops, Alone
        <2>3. QED
            BY <1>1, <1>2, <1>3, <1>5, <2>1, <2>2 DEF RowOK, Stops, Alone, StopUnderWay
    <1>6. QED
        BY <1>4, <1>5

\* A step of a call that leaves the tables alone, and its own source's call, if it is a start
\* or a stop, as far as the rows are concerned.
LEMMA QuietRows ==
    ASSUME Base, RowsInv, NEW p \in Procs,
           CheckListening(p) \/ StartNothing(p) \/ BindFails(p) \/ TaskEnded(p) \/ OpenWindow(p)
               \/ ReadAddress(p)
    PROVE  RowsInv'
    <1> SUFFICES ASSUME NEW r \in Sources, r \notin disturbed' PROVE RowOK(r)'
        BY DEF RowsInv
    <1>1. UNCHANGED <<rows, table, want, disturbed>>
        BY DEF CheckListening, StartNothing, BindFails, TaskEnded, OpenWindow, ReadAddress, budget
    <1>2. op[p] # Idle /\ Alone(p) /\ op[p].src \in Sources
        BY QuietSteps, OpenSteps, ReadAddressSteps, IdleFacts DEF Base, CallOK
    <1>3. op'[p] = Idle \/ (op'[p].src = op[p].src /\ op'[p].call = op[p].call)
        BY QuietSteps, OpenSteps, ReadAddressSteps
    <1>4. RowOK(r)
        BY <1>1 DEF RowsInv
    <1>5. CASE op[p].src # r
        <2>1. op'[p].src # r
            BY <1>3, <1>5, IdleFacts DEF Base, ListenerAssumption
        <2>2. QED
            BY <1>1, <1>2, <1>4, <1>5, <2>1, Elsewhere DEF Same
    <1>6. CASE op[p].src = r
        <2>1. CASE CheckListening(p) \/ OpenWindow(p)
            <3>1. op[p].call = "allow" /\ op'[p].call \in {"allow", "none"}
                BY <1>3, <2>1, IdleFacts DEF CheckListening, OpenWindow, At
            <3>2. QED
                BY <1>1, <1>2, <1>4, <3>1 DEF RowOK, StartUnderWay, StopUnderWay, Served, TakenOut, Stops, Alone
        <2>2. CASE StartNothing(p)
            <3>1. /\ op[p].call = "start" /\ op[p].stage = "lock" /\ op'[p] = Idle
                  /\ table[r] # Nothing \/ ~rows[r].exists
                BY <1>6, <2>2, DoneMoves DEF StartNothing, At, Base
            <3>2. StartUnderWay(r) /\ ~StopUnderWay(r) /\ rows[r].exists /\ table[r] # Nothing
                BY <1>2, <1>4, <1>6, <3>1 DEF RowOK, StartUnderWay
            <3>3. rows[r].desired = "running"
                BY <1>4, <3>2 DEF RowOK, StopUnderWay, Stops
            <3>4. Served(r)' <=> Served(r)
                BY <1>2, <3>1, IdleFacts DEF Served, Alone
            <3>5. ~StopUnderWay(r)'
                BY <1>2, <3>1, <3>2, IdleFacts DEF StopUnderWay, Stops, Alone
            <3>6. QED
                BY <1>1, <1>4, <3>2, <3>3, <3>4, <3>5 DEF RowOK, StopUnderWay
        <2>3. CASE BindFails(p) \/ ReadAddress(p)
            <3>1. /\ op[p].call = "start" /\ op'[p].call = "start" /\ op'[p].src = r
                  /\ op[p].stage # "running" /\ op'[p].stage # "running"
                BY <1>6, <2>3, GoMoves, ReadAddressSteps DEF BindFails, ReadAddress, At, Base
            <3>2. QED
                BY <1>1, <1>2, <1>4, <1>6, <3>1 DEF RowOK, StartUnderWay, StopUnderWay, Served, TakenOut, Stops, Alone
        <2>4. CASE TaskEnded(p)
            <3>1. /\ op[p].call \in {"stop", "delete"} /\ op[p].stage = "await"
                  /\ op'[p].call = op[p].call /\ op'[p].src = r /\ op'[p].stage = "stopped"
                BY <1>6, <2>4, GoMoves DEF TaskEnded, Stops, Base
            <3>2. QED
                BY <1>1, <1>2, <1>4, <1>6, <3>1 DEF RowOK, StartUnderWay, StopUnderWay, Served, TakenOut, Stops, Alone
        <2>5. QED
            BY <2>1, <2>2, <2>3, <2>4
    <1>7. QED
        BY <1>5, <1>6

\* The steps of a call that change a row.
LEMMA WriteRows ==
    ASSUME Base, RowsInv, NEW p \in Procs,
           WriteEdit(p) \/ Remove(p) \/ WriteStarted(p) \/ WriteStopped(p)
    PROVE  RowsInv'
    <1> SUFFICES ASSUME NEW r \in Sources, r \notin disturbed' PROVE RowOK(r)'
        BY DEF RowsInv
    <1>1. UNCHANGED <<table, want>> /\ op[p] # Idle /\ disturbed \subseteq disturbed'
        BY IdleFacts DEF WriteEdit, Remove, WriteStarted, WriteStopped, At, Stops, SetStatus
    <1>2. Alone(p) /\ op[p].src \in Sources
        BY RowSteps, WriteStartedSteps, WriteStoppedSteps
    <1>3. op'[p] = Idle \/ (op'[p].src = op[p].src /\ op'[p].call = op[p].call)
        BY RowSteps, WriteStartedSteps, WriteStoppedSteps
    <1>4. RowOK(r)
        BY <1>1 DEF RowsInv
    <1>5. rows \in [Sources -> Row] /\ rows[r] \in Row
        BY DEF Base, TypeOK, Row
    <1>6. CASE op[p].src # r
        <2>1. op'[p].src # r
            BY <1>3, <1>6, IdleFacts DEF Base, ListenerAssumption
        <2>2. rows'[r] = rows[r]
            BY <1>2, <1>5, <1>6 DEF WriteEdit, Remove, WriteStarted, WriteStopped, SetStatus
        <2>3. QED
            BY <1>1, <1>2, <1>4, <1>6, <2>1, <2>2, Elsewhere DEF Same
    <1>7. CASE op[p].src = r
        <2>1. CASE WriteEdit(p)
            <3>1. /\ op[p].call = "edit" /\ op'[p] = Idle /\ rows'[r].status = rows[r].status
                  /\ rows'[r].desired = rows[r].desired /\ rows'[r].exists = rows[r].exists
                <4>1. op[p].call = "edit" /\ op'[p] = Idle
                    BY <2>1, RowSteps DEF WriteEdit, At
                <4>2. PICK a \in Addresses : rows' = rows \/ rows' = [rows EXCEPT ![r].addr = a]
                    BY <1>7, <2>1 DEF WriteEdit
                <4>3. rows'[r] = rows[r] \/ rows'[r] = [rows[r] EXCEPT !.addr = a]
                    BY <1>5, <4>2
                <4>4. QED
                    BY <1>5, <4>1, <4>3 DEF Row
            <3>2. QED
                BY <1>1, <1>2, <1>4, <3>1, IdleFacts
                   DEF RowOK, StartUnderWay, StopUnderWay, Served, TakenOut, Stops, Alone
        <2>2. CASE Remove(p)
            <3>1. op[p].call = "delete" /\ op[p].stage = "remove" /\ op'[p] = Idle /\ ~rows'[r].exists
                BY <1>5, <1>7, <2>2, RowSteps DEF Remove, At, Row
            <3>2. StopUnderWay(r) /\ table[r] = Nothing
                BY <1>4, <1>7, <3>1 DEF StopUnderWay, RowOK, Stops
            <3>3. ~StartUnderWay(r)
                BY <1>4, <3>2 DEF RowOK
            <3>4. ~StartUnderWay(r)'
                BY <1>1, <1>2, <3>1, <3>3, IdleFacts DEF StartUnderWay, Alone
            <3>5. QED
                BY <1>1, <3>1, <3>2, <3>4 DEF RowOK
        <2>3. CASE WriteStarted(p)
            <3>1. /\ op[p].call = "start" /\ op[p].stage \in {"running", "error"} /\ op'[p] = Idle
                  /\ table[r] # Nothing <=> op[p].stage = "running"
                BY <1>7, <2>3, WriteStartedSteps DEF WriteStarted, Base, CallOK
            <3>2. StartUnderWay(r) /\ rows[r].exists /\ ~StopUnderWay(r)
                BY <1>4, <1>7, <3>1 DEF StartUnderWay, RowOK
            <3>3. rows[r].desired = "running"
                BY <1>4, <3>2 DEF RowOK, StopUnderWay, Stops
            <3>4. rows'[r].exists /\ rows'[r].status = op[p].stage /\ rows'[r].desired = rows[r].desired
                BY <1>5, <1>7, <2>3, <3>2 DEF WriteStarted, SetStatus, Row
            <3>5. ~StopUnderWay(r)'
                BY <1>2, <3>1, <3>2, IdleFacts DEF StopUnderWay, Stops, Alone
            <3>6. QED
                BY <1>1, <3>1, <3>3, <3>4, <3>5 DEF RowOK, StopUnderWay
        <2>4. CASE WriteStopped(p)
            <3>1. op[p].call \in {"stop", "delete"} /\ op[p].stage = "stopped"
                BY <2>4 DEF WriteStopped, Stops
            <3>2. StopUnderWay(r) /\ table[r] = Nothing
                BY <1>4, <1>7, <3>1 DEF StopUnderWay, RowOK, Stops
            <3>3. ~StartUnderWay(r)
                BY <1>4, <3>2 DEF RowOK
            <3>4. /\ rows'[r].exists = rows[r].exists
                  /\ rows[r].exists => rows'[r].status = "stopped"
                BY <1>5, <1>7, <2>4 DEF WriteStopped, SetStatus, Row
            <3>5. ~StartUnderWay(r)'
                BY <1>1, <1>2, <1>3, <3>1, <3>3, IdleFacts DEF StartUnderWay, Alone
            <3>6. QED
                BY <1>1, <3>2, <3>4, <3>5 DEF RowOK
        <2>5. QED
            BY <2>1, <2>2, <2>3, <2>4
    <1>8. QED
        BY <1>6, <1>7

\* The steps of a call that change an entry.
LEMMA TableRows ==
    ASSUME Base, RowsInv, NEW p \in Procs, BindAndServe(p) \/ TakeOut(p)
    PROVE  RowsInv'
    <1> SUFFICES ASSUME NEW r \in Sources, r \notin disturbed' PROVE RowOK(r)'
        BY DEF RowsInv
    <1>1. UNCHANGED <<rows, want, disturbed>>
        BY DEF BindAndServe, TakeOut
    <1>2. /\ Alone(p) /\ op[p] # Idle /\ op[p].src \in Sources /\ op'[p].src = op[p].src
          /\ \A s \in Sources \ {op[p].src} : table'[s] = table[s]
        BY BindSteps, TakeOutSteps
    <1>3. RowOK(r)
        BY <1>1 DEF RowsInv
    <1>4. CASE op[p].src # r
        BY <1>1, <1>2, <1>3, <1>4, Elsewhere DEF Same
    <1>5. CASE op[p].src = r /\ BindAndServe(p)
        <2>1. /\ op[p].call = "start" /\ op'[p].call = "start" /\ op'[p].src = r
              /\ op'[p].stage = "running" /\ table'[r] # Nothing
            BY <1>2, <1>5, BindSteps
        <2>2. StartUnderWay(r) /\ StartUnderWay(r)' /\ Served(r)'
            BY <1>5, <2>1 DEF StartUnderWay, Served
        <2>3. ~StopUnderWay(r) /\ rows[r].exists
            BY <1>3, <2>2 DEF RowOK
        <2>4. ~StopUnderWay(r)'
            BY <1>2, <2>1, <2>3 DEF StopUnderWay, Stops, Alone
        <2>5. rows[r].desired = "running"
            BY <1>3, <2>2, <2>3 DEF RowOK, StopUnderWay, Stops
        <2>6. QED
            BY <1>1, <2>1, <2>2, <2>3, <2>4, <2>5 DEF RowOK, StopUnderWay
    <1>6. CASE op[p].src = r /\ TakeOut(p)
        <2>1. /\ op[p].call \in {"stop", "delete"} /\ op'[p].call = op[p].call /\ op'[p].src = r
              /\ op'[p].stage \in {"await", "stopped"} /\ table'[r] = Nothing
            BY <1>2, <1>6, TakeOutSteps
        <2>2. StopUnderWay(r) /\ StopUnderWay(r)' /\ TakenOut(r)'
            BY <1>6, <2>1 DEF StopUnderWay, TakenOut, Stops
        <2>3. ~StartUnderWay(r) /\ ~StartUnderWay(r)'
            BY <1>1, <1>2, <1>3, <2>1, <2>2 DEF RowOK, StartUnderWay, Alone
        <2>4. (\E q \in Procs : op[q].call = "stop" /\ op[q].src = r)
                 => (\E q \in Procs : op'[q].call = "stop" /\ op'[q].src = r)
            BY <1>2, <2>1 DEF Alone
        <2>5. QED
            BY <1>1, <1>3, <2>1, <2>2, <2>3, <2>4 DEF RowOK
    <1>7. QED
        BY <1>4, <1>5, <1>6

LEMMA CancelRows ==
    ASSUME Base, RowsInv, NEW c \in Clients, Cancel(c)
    PROVE  RowsInv'
    <1>1. /\ op[c] # Idle /\ Done(c) /\ disturbed' = disturbed \union {op[c].src}
          /\ UNCHANGED <<rows, table, want>> /\ c \in Procs
        BY DEF Cancel, Procs
    <1>2. Alone(c) /\ op'[c] = Idle
        BY <1>1, DoneMoves DEF Base
    <1>3. ASSUME NEW r \in Sources, r \notin disturbed' PROVE RowOK(r)'
        <2>1. op[c].src # r /\ op'[c].src # r
            BY <1>1, <1>2, <1>3, IdleFacts DEF Base, ListenerAssumption
        <2>2. RowOK(r)
            BY <1>1, <1>3 DEF RowsInv
        <2>3. QED
            BY <1>1, <1>2, <1>3, <2>1, <2>2, Elsewhere DEF Same
    <1>4. QED
        BY <1>3 DEF RowsInv

LEMMA RestartRows ==
    ASSUME Base, RowsInv, Restart
    PROVE  RowsInv'
    <1> SUFFICES ASSUME NEW r \in Sources, r \notin disturbed' PROVE RowOK(r)'
        BY DEF RowsInv
    <1>1. /\ \A p \in Procs : op'[p] = Idle
          /\ \A s \in Sources : table'[s] = Nothing
          /\ want' = {s \in Sources : rows[s].exists /\ rows[s].desired = "running"}
          /\ rows' = rows
          /\ disturbed' = disturbed \union {op[p].src : p \in {q \in Procs : op[q].call = "stop"}}
        BY RestartSteps DEF Restart
    <1>2. RowOK(r) /\ \A p \in Procs : ~(op[p].call = "stop" /\ op[p].src = r)
        BY <1>1 DEF RowsInv
    <1>3. Procs' = Procs /\ \A p \in Procs : ~Stops(p)' /\ op'[p].call # "start"
        BY <1>1, IdleFacts DEF Stops, Procs
    <1>4. ~StopUnderWay(r)' /\ ~TakenOut(r)' /\ ~Served(r)'
          /\ (StartUnderWay(r)' <=> rows[r].exists /\ rows[r].desired = "running")
        BY <1>1, <1>3 DEF StopUnderWay, TakenOut, Served, StartUnderWay
    <1>5. rows[r].exists /\ rows[r].status = "running" => rows[r].desired = "running"
        BY <1>2 DEF RowOK
    <1>6. QED
        BY <1>1, <1>3, <1>4, <1>5 DEF RowOK

LEMMA OtherRows ==
    ASSUME RowsInv, UNCHANGED <<rows, table, op, want, disturbed>>
    PROVE  RowsInv'
    BY DEF RowsInv, RowOK, StartUnderWay, StopUnderWay, TakenOut, Served, Stops

-----------------------------------------------------------------------------
(* The invariant. *)

LEMMA ListenerInit ==
    ASSUME ListenerAssumption, Init
    PROVE  Base /\ RowsInv
    <1>1. \A p \in Procs : op[p] = Idle
        BY DEF Init
    <1>2. rows \in [Sources -> Row] /\ \A s \in Sources : rows[s].status = "stopped" /\ table[s] = Nothing
        BY DEF Init, Row
    <1>3. TypeOK
        <2>1. op \in [Procs -> Op] /\ table \in [Sources -> Slots \union {Nothing}]
            BY IdleFacts DEF Init
        <2>2. task \in [Sources -> [Slots -> Task]]
            BY DEF Init, Task, Free
        <2>3. Rest /\ lock = Nothing
            <3>1. 0 \in 0 .. MaxRequests /\ 0 \in 0 .. MaxFaults /\ 0 \in 0 .. MaxTaken /\ 0 \in 0 .. MaxRestarts
                BY DEF ListenerAssumption
            <3>2. /\ windows = {} /\ want = {} /\ taken = {} /\ disturbed = {} /\ lock = Nothing
                  /\ requests = 0 /\ faults = 0 /\ takes = 0 /\ restarts = 0
                BY DEF Init
            <3>3. QED
                BY <1>2, <3>1, <3>2 DEF Rest
        <2>4. QED
            BY <2>1, <2>2, <2>3 DEF TypeOK, Rest, Row, Task
    <1>4. TableOK
        BY DEF Init, TableOK, Free, ListenerAssumption
    <1>5. \A p \in Procs : CallOK(p)
        BY <1>1, IdleFacts DEF CallOK
    <1>6. ASSUME NEW s \in Sources PROVE RowOK(s)
        <2>1. ~StartUnderWay(s) /\ rows[s].exists /\ rows[s].status = "stopped" /\ table[s] = Nothing
            BY <1>1, <1>2, IdleFacts DEF Init, StartUnderWay, Procs
        <2>2. QED
            BY <2>1 DEF RowOK
    <1>7. QED
        BY <1>3, <1>4, <1>5, <1>6 DEF Base, RowsInv

LEMMA ListenerStep ==
    ASSUME Base, RowsInv, [Next]_vars
    PROVE  Base' /\ RowsInv'
    <1>1. ASSUME NEW c \in Clients, NEW s \in Sources,
                 RequestStart(c, s) \/ RequestStop(c, s) \/ RequestDelete(c, s) \/ RequestEdit(c, s)
                     \/ RequestAllow(c, s)
          PROVE  Base' /\ RowsInv'
        BY <1>1, RequestSteps, RequestRows
    <1>2. ASSUME NEW c \in Clients, Cancel(c)
          PROVE  Base' /\ RowsInv'
        BY <1>2, CancelSteps, CancelRows
    <1>3. ASSUME NEW p \in Procs, Acquire(p)
          PROVE  Base' /\ RowsInv'
        BY <1>3, QuietSteps, ReadAddressSteps, TakeOutSteps, QuietRows, TableRows DEF Acquire
    <1>4. ASSUME NEW p \in Procs, Proceed(p), ~(p = "resume" /\ ResumeNext)
          PROVE  Base' /\ RowsInv'
        <2>1. CASE BindAndServe(p)
            BY <2>1, BindSteps, TableRows
        <2>2. CASE BindFails(p) \/ TaskEnded(p) \/ OpenWindow(p)
            BY <2>2, QuietSteps, OpenSteps, QuietRows
        <2>3. CASE WriteStarted(p) \/ WriteStopped(p) \/ WriteEdit(p) \/ Remove(p)
            BY <2>3, WriteStartedSteps, WriteStoppedSteps, RowSteps, WriteRows
        <2>4. QED
            BY <1>4, <2>1, <2>2, <2>3 DEF Proceed
    <1>5. ASSUME NEW p \in Procs, p = "resume", ResumeNext
          PROVE  Base' /\ RowsInv'
        BY <1>5, ResumeSteps, ResumeRows DEF ResumeNext
    <1>6. CASE \/ \E s \in Sources : WindowExpires(s) \/ \E i \in Slots : ShutDown(s, i)
               \/ \E a \in Addresses : Take(a) \/ LetGo(a)
               \/ UNCHANGED vars
        BY <1>6, OtherSteps, OtherRows
    <1>7. CASE Restart
        BY <1>7, RestartSteps, RestartRows
    <1>8. QED
        BY <1>1, <1>2, <1>3, <1>4, <1>5, <1>6, <1>7 DEF Next

\* What the table says of a source is what its tasks say, and the rows say it too.
LEMMA ListenerTruth ==
    ASSUME Base, RowsInv
    PROVE  ListenersAreKnown
    <1>1. NoOrphanListener
        BY DEF Base, TableOK, NoOrphanListener
    <1>2. \A s \in Sources : Serving(s) <=> table[s] # Nothing
        <2>1. SUFFICES ASSUME NEW s \in Sources PROVE Serving(s) <=> table[s] # Nothing
            OBVIOUS
        <2>2. table[s] \in Slots \union {Nothing} /\ \A i \in Slots : task[s][i].state = "serving" <=> table[s] = i
            BY DEF Base, TypeOK, TableOK
        <2>3. Nothing \notin Slots
            BY DEF Base, ListenerAssumption
        <2>4. QED
            BY <2>2, <2>3 DEF Serving
    <1>3. TruthWhenUndisturbed
        <2>1. SUFFICES ASSUME NEW s \in Sources, Quiet(s), RowOK(s)
                       PROVE  Truth(s)
            BY DEF TruthWhenUndisturbed, RowsInv
        <2>2. ~TakenOut(s) /\ ~Served(s)
            BY <2>1 DEF Quiet, TakenOut, Served, StartUnderWay, StopUnderWay
        <2>3. QED
            BY <1>2, <2>1, <2>2 DEF RowOK, Truth, Quiet
    <1>4. QED
        BY <1>1, <1>3 DEF ListenersAreKnown, Base

\* The task that accepts a source's connections is the one in the table, whatever is cancelled,
\* fails or overlaps; and starts among themselves, stops and deletes among themselves, edits,
\* windows and restarts leave the row of the source true, a deleted source without a listener:
\* for any number of sources, clients, tasks, addresses and restarts.
THEOREM ListenersHold == ListenerAssumption /\ Spec => []ListenersAreKnown
    <1>1. ListenerAssumption /\ Init => Base /\ RowsInv
        BY ListenerInit
    <1>2. (Base /\ RowsInv) /\ [Next]_vars => (Base /\ RowsInv)'
        BY ListenerStep
    <1>3. Base /\ RowsInv => ListenersAreKnown
        BY ListenerTruth
    <1>4. QED
        BY <1>1, <1>2, <1>3, PTL DEF Spec
-----------------------------------------------------------------------------
(* The start of a Bluetooth scan. *)

\* Strengthening: a thread that is gone scans no more; what is reported is so; and a channel
\* that closes before any report was closed by a failure of the bus.
StartInv ==
    /\ busTime \in Nat /\ waited \in Nat /\ waited <= ActivateTicks
    /\ thread = "gone" => ~scanning
    /\ caller \in {"idle", "failed", "stopped"} => thread = "gone"
    /\ ready = "ok" => scanned
    /\ caller = "started" => scanned
    /\ thread \in {"connect", "discover"} => failedAt = Bluetooth!NoReason
    /\ thread \in {"subscribe", "loop", "finish"} => ready # "empty"
    /\ ready = "closed" => failedAt \in {"connect", "discover"}
    /\ caller = "reaping" /\ reason # "named" =>
           StartupTicks <= busTime + ActivateTicks \/ failedAt \in {"connect", "discover"}

LEMMA StartInitially == DevicesInit => StartInv
BY TimeoutsAreSound
DEF DevicesInit, Bluetooth!Init, StartInv, Bluetooth!TimeoutsAssumption, Bluetooth!NoReason

LEMMA ThreadSteps ==
    StartInv /\ (Bluetooth!BusCall \/ Bluetooth!Local) => StartInv'
<1> SUFFICES ASSUME StartInv, Bluetooth!BusCall \/ Bluetooth!Local PROVE StartInv'
    OBVIOUS
<1> USE DEF StartInv, Bluetooth!Gone, Bluetooth!Return, Bluetooth!Report, Bluetooth!Fails, Bluetooth!NoReason
<1>1. UNCHANGED <<caller, reason, bluetooth_running, busTime, waited>>
    BY DEF Bluetooth!BusCall, Bluetooth!Local, Bluetooth!Caller
<1>2. CASE Bluetooth!Connect
    BY <1>1, <1>2 DEF Bluetooth!Connect
<1>3. CASE Bluetooth!StartDiscovery
    BY <1>1, <1>3 DEF Bluetooth!StartDiscovery
<1>4. CASE Bluetooth!Query
    BY <1>1, <1>4 DEF Bluetooth!Query
<1>5. CASE Bluetooth!Register
    BY <1>1, <1>5 DEF Bluetooth!Register
<1>6. CASE Bluetooth!Unregister
    BY <1>1, <1>6 DEF Bluetooth!Unregister
<1>7. CASE Bluetooth!Subscribe
    BY <1>1, <1>7 DEF Bluetooth!Subscribe
<1>8. CASE Bluetooth!Finish
    BY <1>1, <1>8 DEF Bluetooth!Finish
<1>9. CASE Bluetooth!Serve
    BY <1>1, <1>9 DEF Bluetooth!Serve
<1>10. CASE Bluetooth!Activated
    BY <1>1, <1>10 DEF Bluetooth!Activated
<1>11. CASE Bluetooth!ActivationTimesOut
    BY <1>1, <1>11 DEF Bluetooth!ActivationTimesOut
<1>12. CASE Bluetooth!Loop
    BY <1>1, <1>12 DEF Bluetooth!Loop
<1>13. QED
    BY <1>2, <1>3, <1>4, <1>5, <1>6, <1>7, <1>8, <1>9, <1>10, <1>11, <1>12
    DEF Bluetooth!BusCall, Bluetooth!Local

LEMMA CallerSteps ==
    ASSUME StartInv,
           \/ Bluetooth!Tick \/ Bluetooth!Start \/ Bluetooth!StartSucceeds \/ Bluetooth!StartFails
           \/ Bluetooth!Reap \/ Bluetooth!Stop \/ Bluetooth!Join
    PROVE  StartInv'
<1> USE TimeoutsAreSound DEF StartInv, Bluetooth!NoReason, Bluetooth!TimeoutsAssumption
<1>1. CASE Bluetooth!Tick
    BY <1>1 DEF Bluetooth!Tick
<1>2. CASE Bluetooth!Start
    BY <1>2 DEF Bluetooth!Start
<1>3. CASE Bluetooth!StartSucceeds
    BY <1>3 DEF Bluetooth!StartSucceeds, Bluetooth!Thread
<1>4. CASE Bluetooth!StartFails
    <2>1. /\ caller' = "reaping" /\ reason' = (IF ready = "err" THEN "named" ELSE "timed out")
          /\ UNCHANGED <<thread, ready, scanning, scanned, failedAt, busTime, waited>>
        BY <1>4 DEF Bluetooth!StartFails, Bluetooth!Thread
    <2>2. ready # "err" => StartupTicks <= busTime + ActivateTicks \/ failedAt \in {"connect", "discover"}
        <3>1. ready \in {"err", "closed"} \/ busTime + waited = StartupTicks
            BY <1>4 DEF Bluetooth!StartFails
        <3>2. /\ busTime \in Nat /\ waited \in Nat /\ ActivateTicks \in Nat /\ waited <= ActivateTicks
              /\ ready = "closed" => failedAt \in {"connect", "discover"}
            OBVIOUS
        <3>3. QED
            BY <3>1, <3>2
    <2>3. QED
        BY <2>1, <2>2
<1>5. CASE Bluetooth!Reap
    BY <1>5 DEF Bluetooth!Reap, Bluetooth!Thread
<1>6. CASE Bluetooth!Stop
    BY <1>6 DEF Bluetooth!Stop, Bluetooth!Thread
<1>7. CASE Bluetooth!Join
    BY <1>7 DEF Bluetooth!Join, Bluetooth!Thread
<1>8. QED
    BY <1>1, <1>2, <1>3, <1>4, <1>5, <1>6, <1>7

LEMMA StartSteps == StartInv /\ [DevicesNext]_<<deviceVars, vars>> => StartInv'
<1> SUFFICES ASSUME StartInv, [DevicesNext]_<<deviceVars, vars>> PROVE StartInv'
    OBVIOUS
<1>1. CASE Bluetooth!BusCall \/ Bluetooth!Local
    BY <1>1, ThreadSteps
<1>2. CASE \/ Bluetooth!Tick \/ Bluetooth!Start \/ Bluetooth!StartSucceeds \/ Bluetooth!StartFails
           \/ Bluetooth!Reap \/ Bluetooth!Stop \/ Bluetooth!Join
    BY <1>2, CallerSteps
<1>3. CASE UNCHANGED bluetoothVars
    BY <1>3 DEF StartInv, bluetoothVars
<1>4. QED
    <2>1. Bluetooth!Done => UNCHANGED bluetoothVars
        BY DEF Bluetooth!Done, Bluetooth!vars, bluetoothVars
    <2>2. QED
        BY <1>1, <1>2, <1>3, <2>1 DEF DevicesNext, deviceVars, Bluetooth!Next

LEMMA StartsAreHonest ==
    StartInv => Bluetooth!StartedMeansScanned /\ Bluetooth!NoOrphanedScan /\ Bluetooth!PassiveFailsByName
BY TimeoutsAreSound
DEF StartInv, Bluetooth!StartedMeansScanned, Bluetooth!NoOrphanedScan, Bluetooth!PassiveFailsByName,
    Bluetooth!Passive, Bluetooth!TimeoutsAssumption

-----------------------------------------------------------------------------
(* The configuration of a source. *)

\* Strengthening: the keys that hold numbers hold numbers, a row is in a mode of its kind,
\* and a capturer was built from a row that was valid.
NumbersOf(values) ==
    \A k \in DOMAIN values \cap SourceConfigs!NumberKeys : values[k] \in SentNumbers

IsSourceRow(r) ==
    /\ DOMAIN r = {"kind", "mode", "iface", "config", "status", "edited"}
    /\ SourceConfigs!Checked(r.kind, r.mode) /\ NumbersOf(r.config)

ValidRow(r) == SourceConfigs!Valid(r.kind, r.mode, r.iface, r.config)

ConfigInv ==
    /\ SourceConfigs!CheckNeverFires /\ SourceConfigs!HandEditsAreCaught
    /\ row # Nothing \/ patch = TRUE \/ starting # Nothing \/ capturer # Nothing => IsSourceRow(row)
    /\ starting # Nothing => IsSourceRow(starting) /\ starting.kind # "sensor"
    /\ capturer # Nothing => /\ IsSourceRow(capturer.from) /\ ValidRow(capturer.from)
                             /\ capturer.config = SourceConfigs!Build(capturer.from)

\* Whatever keys are chosen for a mode, each has a value of its own kind.
LEMMA ConfigsHoldNumbers ==
    ASSUME NEW m, NEW values \in SourceConfigs!ConfigsFor(m)
    PROVE  NumbersOf(values)
<1>1. PICK keys \in SUBSET SourceConfigs!KeysFor(m) : values \in SourceConfigs!ConfigsOf(keys)
    BY DEF SourceConfigs!ConfigsFor
<1>2. PICK n \in [keys \cap SourceConfigs!NumberKeys -> SentNumbers],
           t \in [keys \ SourceConfigs!NumberKeys -> SourceConfigs!Texts] :
          values = SourceConfigs!Mixed(keys, n, t)
    BY <1>1 DEF SourceConfigs!ConfigsOf
<1>3. QED
    BY <1>2 DEF NumbersOf, SourceConfigs!Mixed

\* What was validated can be built, and its port is one.
LEMMA ValidBuilds ==
    ASSUME NEW r, IsSourceRow(r), ValidRow(r)
    PROVE  /\ r.kind # "sensor" => SourceConfigs!Builds(r)
           /\ r.mode = "gpsd" => /\ "port" \in DOMAIN r.config
                                 /\ r.config["port"] \in Nat /\ r.config["port"] < PortLimit
<1>1. SourceConfigs!ModeValid(r.kind, r.mode, r.iface, r.config)
    BY DEF ValidRow, SourceConfigs!Valid
<1>2. /\ SourceConfigs!Number(r.config, "port") \in Int
      /\ SourceConfigs!Number(r.config, "port") # SourceConfigs!NotANumber =>
             "port" \in DOMAIN r.config /\ SourceConfigs!Number(r.config, "port") = r.config["port"]
    <2>1. "port" \in DOMAIN r.config => r.config["port"] \in SentNumbers
        BY DEF IsSourceRow, NumbersOf, SourceConfigs!NumberKeys
    <2>2. SentNumbers \subseteq Int
        BY WidthsAreSound DEF SourceConfigs!WidthsAssumption
    <2>3. SourceConfigs!NotANumber \in Int
        BY DEF SourceConfigs!NotANumber
    <2>4. CASE "port" \in DOMAIN r.config
        BY <2>1, <2>2, <2>4 DEF SourceConfigs!Number
    <2>5. CASE "port" \notin DOMAIN r.config
        BY <2>3, <2>5 DEF SourceConfigs!Number
    <2>6. QED
        BY <2>4, <2>5
<1>3. CASE r.kind = "gps" /\ r.mode = "gpsd"
    <2>1. /\ SourceConfigs!Text(r.config, "host") = "good"
          /\ SourceConfigs!Within(SourceConfigs!Number(r.config, "port"), 1, PortLimit - 1)
        BY <1>1, <1>3 DEF SourceConfigs!ModeValid
    <2>2. /\ "port" \in DOMAIN r.config /\ SourceConfigs!Number(r.config, "port") = r.config["port"]
          /\ SourceConfigs!Number(r.config, "port") \in Nat
          /\ SourceConfigs!Number(r.config, "port") < PortLimit
        BY <1>2, <2>1, WidthsAreSound DEF SourceConfigs!Within, SourceConfigs!WidthsAssumption
    <2>3. QED
        BY <1>3, <2>1, <2>2 DEF SourceConfigs!Builds
<1>4. CASE ~(r.kind = "gps" /\ r.mode = "gpsd")
    <2>1. r.kind # "sensor" => SourceConfigs!Builds(r)
        BY <1>1, <1>4 DEF SourceConfigs!ModeValid, SourceConfigs!Builds, SourceConfigs!Within,
                          SourceConfigs!Missing
    <2>2. r.mode = "gpsd" => r.kind = "gps"
        BY DEF IsSourceRow, SourceConfigs!Checked, SourceConfigs!StoredModes
    <2>3. QED
        BY <1>4, <2>1, <2>2
<1>5. QED
    BY <1>3, <1>4
LEMMA ConfigInitially == DevicesInit => ConfigInv
BY DEF DevicesInit, SourceConfigs!Init, ConfigInv, SourceConfigs!CheckNeverFires, SourceConfigs!HandEditsAreCaught

\* What the routes write is a row, and the constraints take it.
LEMMA RouteSteps == ConfigInv /\ (SourceConfigs!Create \/ SourceConfigs!PatchWrite) => ConfigInv'
<1> USE DEF SourceConfigs!CheckNeverFires, SourceConfigs!HandEditsAreCaught
<1>1. ASSUME NEW k, NEW m, NEW i, NEW values, SourceConfigs!Valid(k, m, i, values)
      PROVE  SourceConfigs!Checked(k, m)
    BY <1>1 DEF SourceConfigs!Valid, SourceConfigs!ModeValid, SourceConfigs!Checked,
                SourceConfigs!StoredKinds, SourceConfigs!StoredModes
<1>2. ASSUME ConfigInv, SourceConfigs!Create PROVE ConfigInv'
    <2>1. PICK kind \in SourceKinds, m \in SourceConfigs!Modes :
          \E iface \in SourceConfigs!InterfacesFor(kind), values \in SourceConfigs!ConfigsFor(m) :
             IF ~SourceConfigs!Valid(kind, m, iface, values)
             THEN outcome' = "400" /\ UNCHANGED row
             ELSE IF ~SourceConfigs!Checked(kind, m)
             THEN outcome' = "500" /\ UNCHANGED row
             ELSE /\ row' = [kind |-> kind, mode |-> m, iface |-> iface, config |-> values,
                             status |-> "stopped", edited |-> FALSE]
                  /\ outcome' = "ok"
        BY <1>2 DEF SourceConfigs!Create
    <2>2. PICK iface \in SourceConfigs!InterfacesFor(kind), values \in SourceConfigs!ConfigsFor(m) :
             \/ outcome' = "400" /\ UNCHANGED row
             \/ /\ SourceConfigs!Checked(kind, m) /\ outcome' = "ok"
                /\ row' = [kind |-> kind, mode |-> m, iface |-> iface, config |-> values,
                           status |-> "stopped", edited |-> FALSE]
        BY <1>1, <2>1
    <2>3. row = Nothing /\ UNCHANGED <<capturer, patch, starting>>
        BY <1>2 DEF SourceConfigs!Create
    <2>4. NumbersOf(values)
        BY ConfigsHoldNumbers
    <2>5. CASE outcome' = "400" /\ UNCHANGED row
        BY <1>2, <2>3, <2>5 DEF ConfigInv
    <2>6. CASE outcome' # "400"
        <3>1. IsSourceRow(row')
            BY <2>2, <2>4, <2>6 DEF IsSourceRow
        <3>2. QED
            BY <1>2, <2>2, <2>3, <2>6, <3>1 DEF ConfigInv, IsSourceRow, NumbersOf
    <2>7. QED
        BY <2>2, <2>5, <2>6
<1>3. ASSUME ConfigInv, SourceConfigs!PatchWrite PROVE ConfigInv'
    <2>1. PICK m \in SourceConfigs!Modes, iface \in SourceConfigs!InterfacesFor(row.kind) :
          \E values \in SourceConfigs!ConfigsFor(m) :
             IF ~SourceConfigs!Valid(row.kind, m, iface, values)
             THEN outcome' = "400" /\ UNCHANGED row
             ELSE IF ~SourceConfigs!Checked(row.kind, m)
             THEN outcome' = "500" /\ UNCHANGED row
             ELSE /\ row' = [row EXCEPT !.mode = m, !.iface = iface, !.config = values, !.edited = FALSE]
                  /\ outcome' = "ok"
        BY <1>3 DEF SourceConfigs!PatchWrite
    <2>2. PICK values \in SourceConfigs!ConfigsFor(m) :
             \/ outcome' = "400" /\ UNCHANGED row
             \/ /\ SourceConfigs!Checked(row.kind, m) /\ outcome' = "ok"
                /\ row' = [row EXCEPT !.mode = m, !.iface = iface, !.config = values, !.edited = FALSE]
        BY <1>1, <2>1
    <2>3. patch /\ patch' = FALSE /\ UNCHANGED <<capturer, starting>>
        BY <1>3 DEF SourceConfigs!PatchWrite
    <2>4. NumbersOf(values)
        BY ConfigsHoldNumbers
    <2>5. IsSourceRow(row)
        BY <1>3, <2>3 DEF ConfigInv
    <2>6. IsSourceRow(row')
        BY <2>2, <2>4, <2>5 DEF IsSourceRow
    <2>7. QED
        BY <1>3, <2>2, <2>3, <2>6 DEF ConfigInv, IsSourceRow, NumbersOf
<1>4. QED
    BY <1>2, <1>3

LEMMA StartedFromValid == ConfigInv /\ SourceConfigs!StartDone => ConfigInv'
<1> SUFFICES ASSUME ConfigInv, SourceConfigs!StartDone PROVE ConfigInv'
    OBVIOUS
<1>1. IsSourceRow(starting) /\ IsSourceRow(row)
    BY DEF ConfigInv, SourceConfigs!StartDone
<1>2. ValidRow(starting) => SourceConfigs!Builds(starting)
    BY <1>1, ValidBuilds DEF ConfigInv, SourceConfigs!StartDone
<1>3. PICK s \in {"error", "running"} : row' = [row EXCEPT !.status = s]
    BY DEF SourceConfigs!StartDone
<1>4. /\ starting' = Nothing /\ UNCHANGED patch /\ outcome' \notin {"500", "no build"}
      /\ \/ UNCHANGED capturer
         \/ ValidRow(starting) /\ capturer' = [from |-> starting, config |-> SourceConfigs!Build(starting)]
    BY <1>2 DEF SourceConfigs!StartDone, ValidRow
<1>5. IsSourceRow(row')
    BY <1>1, <1>3 DEF IsSourceRow
<1>6. capturer' # Nothing => /\ IsSourceRow(capturer'.from) /\ ValidRow(capturer'.from)
                             /\ capturer'.config = SourceConfigs!Build(capturer'.from)
    <2>1. CASE UNCHANGED capturer
        BY <2>1 DEF ConfigInv
    <2>2. CASE ValidRow(starting) /\ capturer' = [from |-> starting, config |-> SourceConfigs!Build(starting)]
        BY <1>1, <2>2
    <2>3. QED
        BY <1>4, <2>1, <2>2
<1>7. QED
    BY <1>4, <1>5, <1>6
    DEF ConfigInv, SourceConfigs!CheckNeverFires, SourceConfigs!HandEditsAreCaught, IsSourceRow, NumbersOf, ValidRow

LEMMA ConfigSteps == ConfigInv /\ [DevicesNext]_<<deviceVars, vars>> => ConfigInv'
<1> SUFFICES ASSUME ConfigInv, [DevicesNext]_<<deviceVars, vars>> PROVE ConfigInv'
    OBVIOUS
<1> USE DEF SourceConfigs!CheckNeverFires, SourceConfigs!HandEditsAreCaught
<1>1. CASE SourceConfigs!PatchRead
    BY <1>1 DEF SourceConfigs!PatchRead, ConfigInv, IsSourceRow, NumbersOf, ValidRow
<1>2. CASE SourceConfigs!HandEdit
    <2>1. PICK m \in {x \in SourceConfigs!Modes : SourceConfigs!Checked(row.kind, x)},
               iface \in SourceConfigs!InterfacesFor(row.kind) :
              \E values \in SourceConfigs!ConfigsFor(m) :
                  row' = [row EXCEPT !.mode = m, !.iface = iface, !.config = values, !.edited = TRUE]
        BY <1>2 DEF SourceConfigs!HandEdit
    <2> PICK values \in SourceConfigs!ConfigsFor(m) :
              row' = [row EXCEPT !.mode = m, !.iface = iface, !.config = values, !.edited = TRUE]
        BY <2>1
    <2>2. IsSourceRow(row) /\ NumbersOf(values)
        BY <1>2, ConfigsHoldNumbers DEF ConfigInv, SourceConfigs!HandEdit
    <2>3. IsSourceRow(row')
        BY <2>1, <2>2 DEF IsSourceRow
    <2>4. QED
        BY <1>2, <2>3 DEF ConfigInv, SourceConfigs!HandEdit, IsSourceRow, NumbersOf
<1>3. CASE SourceConfigs!Remove
    BY <1>3 DEF SourceConfigs!Remove, ConfigInv
<1>4. CASE SourceConfigs!StartRead
    BY <1>4 DEF SourceConfigs!StartRead, ConfigInv, IsSourceRow, NumbersOf
<1>5. CASE SourceConfigs!Stop
    <2>1. IsSourceRow(row) /\ row' = [row EXCEPT !.status = "stopped"]
        BY <1>5 DEF SourceConfigs!Stop, ConfigInv
    <2>2. IsSourceRow(row')
        BY <2>1 DEF IsSourceRow
    <2>3. QED
        BY <1>5, <2>2 DEF SourceConfigs!Stop, ConfigInv, IsSourceRow, NumbersOf
<1>6. CASE UNCHANGED configVars
    BY <1>6 DEF configVars, ConfigInv, IsSourceRow, NumbersOf, ValidRow
<1>7. QED
    BY <1>1, <1>2, <1>3, <1>4, <1>5, <1>6, RouteSteps, StartedFromValid
    DEF DevicesNext, deviceVars, SourceConfigs!Next

LEMMA JudgesAgree == ConfigInv => ConfigJudgesAgree
<1> SUFFICES ASSUME ConfigInv, capturer # Nothing, NEW k \in DOMAIN capturer.config \ {"baud"}
             PROVE  capturer.config[k] = capturer.from.config[k]
    BY DEF ConfigInv, ConfigJudgesAgree, SourceConfigs!PortIsTheRows
<1> DEFINE r == capturer.from
<1>1. IsSourceRow(r) /\ ValidRow(r) /\ capturer.config = SourceConfigs!Build(r)
    BY DEF ConfigInv
<1>2. CASE k = "port" /\ r.mode = "gpsd"
    <2>1. r.config[k] \in Nat /\ r.config[k] < PortLimit
        BY <1>1, <1>2, ValidBuilds
    <2>2. r.config[k] % PortLimit = r.config[k]
        BY <2>1, WidthsAreSound DEF SourceConfigs!WidthsAssumption
    <2>3. QED
        BY <1>1, <1>2, <2>2 DEF SourceConfigs!Build
<1>3. CASE ~(k = "port" /\ r.mode = "gpsd")
    BY <1>1, <1>3 DEF SourceConfigs!Build
<1>4. QED
    BY <1>2, <1>3

\* Whatever a client sends or a hand writes: what validation accepts, the constraints of the
\* table accept and build can build, with the numbers of the row (capture.rs,
\* data_sources.rs, migration 0024).
THEOREM JudgesOfConfigAgree == DevicesSpec => []ConfigJudgesAgree
<1>1. DevicesInit => ConfigInv
    BY ConfigInitially
<1>2. ConfigInv /\ [DevicesNext]_<<deviceVars, vars>> => ConfigInv'
    BY ConfigSteps
<1>3. ConfigInv => ConfigJudgesAgree
    BY JudgesAgree
<1>4. QED
    BY <1>1, <1>2, <1>3, PTL DEF DevicesSpec

-----------------------------------------------------------------------------
(* The radio of the monitor capturers. *)

\* Strengthening: an incarnation starts once, has the handle only while its start is over and
\* its stop not begun, and no thread of it is left behind a join.
ThreadsInv ==
    /\ DOMAIN radio_call = Capturers /\ DOMAIN capture = Capturers /\ DOMAIN hopper = Capturers
    /\ \A i \in Capturers :
          /\ handle = i => i \notin stopped /\ radio_call[i] = "over"
          /\ radio_call[i] \in {"join hopper"} => capture[i] = "gone"
          /\ i \in stopped => /\ radio_call[i] \in Radio!Restoring \cup {"over"}
                              /\ capture[i] = "gone" /\ hopper[i] = "gone"
    /\ stopped \subseteq Capturers

LEMMA ThreadsInitially == DevicesInit => ThreadsInv
BY RadioIsSound DEF DevicesInit, Radio!Init, ThreadsInv, Radio!RadioAssumption

LEMMA ThreadsStep ==
    ASSUME ThreadsInv, NEW i \in Capturers,
           \/ Radio!Start(i) \/ Radio!Abandon(i) \/ Radio!Calls(i) \/ Radio!Threads(i)
           \/ Radio!HandleSourceFailed(i) \/ Radio!Stop(i)
    PROVE  ThreadsInv'
<1> USE RadioIsSound DEF ThreadsInv, Radio!RadioAssumption, Radio!Go, Radio!Return, Radio!Restoring, Radio!Setting
<1>1. CASE Radio!Start(i)
    BY <1>1 DEF Radio!Start
<1>2. CASE Radio!Abandon(i)
    BY <1>2 DEF Radio!Abandon
<1>3. CASE Radio!SetMonitorMode(i)
    <2>1. PICK stage \in {"type", "up", "open", "over"} : radio_call' = [radio_call EXCEPT ![i] = stage]
        BY <1>3 DEF Radio!SetMonitorMode
    <2>2. UNCHANGED <<capture, hopper, stopped>> /\ radio_call[i] \in Radio!Setting
        BY <1>3 DEF Radio!SetMonitorMode, Radio!threads
    <2>3. handle' \in {handle, NoCapturer}
        BY <1>3 DEF Radio!SetMonitorMode
    <2>4. QED
        BY <2>1, <2>2, <2>3
<1>4. CASE Radio!OpenCapture(i)
    <2>1. radio_call[i] = "open" /\ UNCHANGED stopped
        BY <1>4 DEF Radio!OpenCapture
    <2>2. CASE Radio!OpenFails(i)
        BY <1>4, <2>1, <2>2 DEF Radio!OpenFails
    <2>3. CASE ~Radio!OpenFails(i)
        BY <1>4, <2>1, <2>3 DEF Radio!OpenCapture
    <2>4. QED
        BY <2>2, <2>3
<1>5. CASE Radio!RestoreManagedMode(i)
    <2>1. PICK stage \in {"restore type", "restore up", "over"} : radio_call' = [radio_call EXCEPT ![i] = stage]
        BY <1>5 DEF Radio!RestoreManagedMode
    <2>2. UNCHANGED <<capture, hopper, stopped>> /\ radio_call[i] \in Radio!Restoring
        BY <1>5 DEF Radio!RestoreManagedMode, Radio!threads
    <2>3. handle' \in {handle, NoCapturer}
        BY <1>5 DEF Radio!RestoreManagedMode
    <2>4. QED
        BY <2>1, <2>2, <2>3
<1>6. CASE Radio!JoinCapture(i)
    BY <1>6 DEF Radio!JoinCapture, Radio!threads
<1>7. CASE Radio!JoinHopper(i)
    BY <1>7 DEF Radio!JoinHopper, Radio!threads
<1>8. CASE Radio!Threads(i)
    <2>1. UNCHANGED <<radio_call, handle, stopped>>
        BY <1>8 DEF Radio!Threads, Radio!Hop, Radio!ReadPacket, Radio!TimeoutExpired, Radio!BlockingSend, Radio!Drain
    <2>2. /\ DOMAIN capture' = Capturers /\ DOMAIN hopper' = Capturers
          /\ \A j \in Capturers : /\ capture[j] = "gone" => capture'[j] = "gone"
                                  /\ hopper[j] = "gone" => hopper'[j] = "gone"
        BY <1>8 DEF Radio!Threads, Radio!Hop, Radio!ReadPacket, Radio!TimeoutExpired, Radio!BlockingSend, Radio!Drain
    <2>3. QED
        BY <2>1, <2>2
<1>9. CASE Radio!HandleSourceFailed(i)
    BY <1>9 DEF Radio!HandleSourceFailed
<1>10. CASE Radio!Stop(i)
    BY <1>10 DEF Radio!Stop
<1>11. QED
    BY <1>1, <1>2, <1>3, <1>4, <1>5, <1>6, <1>7, <1>8, <1>9, <1>10 DEF Radio!Calls

\* Where the interface is at each stage of a call that has met no fault.
IfaceAt(stage) ==
    CASE stage = "down" -> mode = "managed" /\ up
      [] stage = "type" -> mode = "managed" /\ ~up
      [] stage = "up" -> mode = "monitor" /\ ~up
      [] stage \in {"open", "join capture", "join hopper", "restore down"} -> mode = "monitor" /\ up
      [] stage = "restore type" -> mode = "monitor" /\ ~up
      [] stage = "restore up" -> mode = "managed" /\ ~up

Stages == Radio!Setting \cup Radio!Restoring \cup {"open", "join capture", "join hopper"}

\* Strengthening: as long as nothing has failed, whoever has the lock has the interface, and a
\* capturer that runs does not end by itself.
NoFaultInv ==
    /\ plugged
    /\ radio_lock = NoCapturer /\ handle = NoCapturer => mode = "managed" /\ up
    /\ \A i \in Capturers :
          /\ radio_lock # i => radio_call[i] \in {"unused", "over"}
          /\ radio_lock = i => radio_call[i] \in Stages /\ IfaceAt(radio_call[i]) /\ handle = NoCapturer
          /\ radio_lock = i /\ radio_call[i] \in Radio!Setting \cup {"open"} => rx[i]
          /\ handle = i => /\ mode = "monitor" /\ up
                           /\ running[i] /\ rx[i] /\ capture[i] \in {"check", "read", "send"}

RadioDomains ==
    /\ radio_faults \in Nat /\ deaths \in Nat
    /\ radio_lock \in Capturers \cup {NoCapturer} /\ handle \in Capturers \cup {NoCapturer}
    /\ DOMAIN radio_call = Capturers /\ DOMAIN capture = Capturers
    /\ DOMAIN rx = Capturers /\ DOMAIN running = Capturers

TidyInv == RadioDomains /\ (radio_faults = 0 /\ deaths = 0 => NoFaultInv)

LEMMA TidyInitially == DevicesInit => TidyInv
BY RadioIsSound
DEF DevicesInit, Radio!Init, TidyInv, RadioDomains, NoFaultInv, Radio!RadioAssumption

\* What a step may do to the counts and the domains.
DomainsKept(i) ==
    /\ UNCHANGED <<plugged, deaths>> /\ radio_faults' \in {radio_faults, radio_faults + 1}
    /\ radio_lock' \in {radio_lock, NoCapturer, i} /\ handle' \in {handle, NoCapturer, i}
    /\ DOMAIN radio_call' = DOMAIN radio_call /\ DOMAIN capture' = DOMAIN capture
    /\ DOMAIN rx' = DOMAIN rx /\ DOMAIN running' = DOMAIN running

LEMMA DomainsStep ==
    ASSUME RadioDomains, NEW i \in Capturers,
           \/ Radio!Start(i) \/ Radio!Abandon(i) \/ Radio!Calls(i) \/ Radio!Threads(i)
           \/ Radio!HandleSourceFailed(i) \/ Radio!Stop(i)
    PROVE  RadioDomains' /\ radio_faults <= radio_faults' /\ UNCHANGED <<plugged, deaths>>
<1> SUFFICES DomainsKept(i)
    BY DEF DomainsKept, RadioDomains
<1> USE DEF Radio!Go, Radio!Return, Radio!Fault, Radio!iface, Radio!threads, Radio!counts
<1>1. CASE \/ Radio!Start(i) \/ Radio!Abandon(i) \/ Radio!HandleSourceFailed(i) \/ Radio!Stop(i)
           \/ Radio!JoinCapture(i) \/ Radio!JoinHopper(i)
    <2>1. /\ UNCHANGED <<plugged, deaths>> /\ radio_faults' \in {radio_faults, radio_faults + 1}
          /\ radio_lock' \in {radio_lock, NoCapturer, i} /\ handle' \in {handle, NoCapturer, i}
        BY <1>1
        DEF Radio!Start, Radio!Abandon, Radio!HandleSourceFailed, Radio!Stop, Radio!JoinCapture, Radio!JoinHopper
    <2>2. /\ DOMAIN radio_call' = DOMAIN radio_call /\ DOMAIN capture' = DOMAIN capture
          /\ DOMAIN rx' = DOMAIN rx /\ DOMAIN running' = DOMAIN running
        BY <1>1
        DEF Radio!Start, Radio!Abandon, Radio!HandleSourceFailed, Radio!Stop, Radio!JoinCapture, Radio!JoinHopper
    <2>3. QED
        BY <2>1, <2>2 DEF DomainsKept
<1>2. CASE Radio!SetMonitorMode(i) \/ Radio!RestoreManagedMode(i)
    <2>1. UNCHANGED <<plugged, deaths, capture, rx, running>>
        BY <1>2 DEF Radio!SetMonitorMode, Radio!RestoreManagedMode
    <2>2. radio_faults' \in {radio_faults, radio_faults + 1}
        BY <1>2 DEF Radio!SetMonitorMode, Radio!RestoreManagedMode, Radio!Failed
    <2>3. radio_lock' \in {radio_lock, NoCapturer} /\ handle' \in {handle, NoCapturer}
        BY <1>2 DEF Radio!SetMonitorMode, Radio!RestoreManagedMode
    <2>4. DOMAIN radio_call' = DOMAIN radio_call
        <3>1. CASE Radio!SetMonitorMode(i)
            BY <3>1 DEF Radio!SetMonitorMode
        <3>2. CASE Radio!RestoreManagedMode(i)
            BY <3>2 DEF Radio!RestoreManagedMode, Radio!Restoring
        <3>3. QED
            BY <1>2, <3>1, <3>2
    <2>5. QED
        BY <2>1, <2>2, <2>3, <2>4 DEF DomainsKept
<1>3. CASE Radio!OpenCapture(i)
    <2>1. /\ UNCHANGED <<plugged, deaths, radio_faults, rx>>
          /\ radio_lock' \in {radio_lock, NoCapturer} /\ handle' \in {handle, i}
        BY <1>3 DEF Radio!OpenCapture, Radio!OpenFails
    <2>2. /\ DOMAIN radio_call' = DOMAIN radio_call /\ DOMAIN capture' = DOMAIN capture
          /\ DOMAIN running' = DOMAIN running
        BY <1>3 DEF Radio!OpenCapture, Radio!OpenFails
    <2>3. QED
        BY <2>1, <2>2 DEF DomainsKept
<1>4. CASE Radio!Threads(i)
    BY <1>4
    DEF Radio!Threads, Radio!Hop, Radio!ReadPacket, Radio!TimeoutExpired, Radio!BlockingSend, Radio!Drain, DomainsKept
<1>5. QED
    BY <1>1, <1>2, <1>3, <1>4 DEF Radio!Calls

\* The commands: without a fault each does what it is for.
LEMMA CommandsStep ==
    ASSUME RadioDomains, NoFaultInv, radio_faults' = radio_faults, NEW i \in Capturers,
           Radio!SetMonitorMode(i) \/ Radio!RestoreManagedMode(i)
    PROVE  NoFaultInv'
<1> USE RadioIsSound DEF Radio!RadioAssumption, Radio!Go, Radio!Return, Radio!Setting, Radio!Restoring
<1>1. radio_lock = i
    BY DEF NoFaultInv, Radio!SetMonitorMode, Radio!RestoreManagedMode
<1>2. IfaceAt(radio_call[i]) /\ plugged /\ handle = NoCapturer
    BY <1>1 DEF NoFaultInv
<1>3. ~Radio!Failed(radio_call[i])
    <2>1. radio_faults' # radio_faults + 1
        BY DEF RadioDomains
    <2>2. radio_call[i] \in {"type", "restore type"} => ~up
        BY <1>2 DEF IfaceAt
    <2>3. QED
        BY <1>2, <2>1, <2>2 DEF Radio!Failed, Radio!Fault
<1>4. UNCHANGED <<plugged, running, capture, rx>>
    BY DEF Radio!SetMonitorMode, Radio!RestoreManagedMode, Radio!threads
<1>5. CASE Radio!SetMonitorMode(i)
    <2>1. /\ radio_call[i] \in {"down", "type", "up"}
          /\ Radio!Ran(radio_call[i], "monitor") /\ UNCHANGED <<radio_lock, handle>>
        BY <1>3, <1>5 DEF Radio!SetMonitorMode
    <2>2. PICK next \in {"type", "up", "open"} :
              /\ radio_call' = [radio_call EXCEPT ![i] = next]
              /\ \/ radio_call[i] = "down" /\ next = "type" /\ mode' = "managed" /\ ~up'
                 \/ radio_call[i] = "type" /\ next = "up" /\ mode' = "monitor" /\ ~up'
                 \/ radio_call[i] = "up" /\ next = "open" /\ mode' = "monitor" /\ up'
        <3>1. CASE radio_call[i] = "down"
            BY <1>2, <1>3, <1>5, <2>1, <3>1 DEF Radio!SetMonitorMode, Radio!Ran, IfaceAt
        <3>2. CASE radio_call[i] = "type"
            BY <1>2, <1>3, <1>5, <2>1, <3>2 DEF Radio!SetMonitorMode, Radio!Ran, IfaceAt
        <3>3. CASE radio_call[i] = "up"
            BY <1>2, <1>3, <1>5, <2>1, <3>3 DEF Radio!SetMonitorMode, Radio!Ran, IfaceAt
        <3>4. QED
            BY <2>1, <3>1, <3>2, <3>3
    <2>3. IfaceAt(next)' /\ radio_call'[i] = next /\ \A j \in Capturers \ {i} : radio_call'[j] = radio_call[j]
        BY <2>2 DEF IfaceAt, RadioDomains
    <2>4. QED
        BY <1>1, <1>2, <1>4, <2>1, <2>2, <2>3 DEF NoFaultInv, Stages
<1>6. CASE Radio!RestoreManagedMode(i)
    <2>1. /\ radio_call[i] \in {"restore down", "restore type", "restore up"}
          /\ Radio!Ran(radio_call[i], "managed")
        BY <1>3, <1>6 DEF Radio!RestoreManagedMode
    <2>2. CASE radio_call[i] = "restore up"
        <3>1. radio_call' = [radio_call EXCEPT ![i] = "over"] /\ radio_lock' = NoCapturer /\ handle' = NoCapturer
            BY <1>1, <1>3, <1>6, <2>2 DEF Radio!RestoreManagedMode
        <3>2. mode' = "managed" /\ up'
            BY <1>2, <2>1, <2>2 DEF Radio!Ran, IfaceAt
        <3>3. QED
            BY <1>1, <1>2, <1>4, <3>1, <3>2 DEF NoFaultInv, RadioDomains
    <2>3. CASE radio_call[i] # "restore up"
        <3>1. PICK next \in {"restore type", "restore up"} :
                  /\ radio_call' = [radio_call EXCEPT ![i] = next]
                  /\ \/ radio_call[i] = "restore down" /\ next = "restore type" /\ mode' = "monitor" /\ ~up'
                     \/ radio_call[i] = "restore type" /\ next = "restore up" /\ mode' = "managed" /\ ~up'
            <4>1. CASE radio_call[i] = "restore down"
                BY <1>2, <1>3, <1>6, <2>1, <4>1 DEF Radio!RestoreManagedMode, Radio!Ran, IfaceAt
            <4>2. CASE radio_call[i] = "restore type"
                BY <1>2, <1>3, <1>6, <2>1, <4>2 DEF Radio!RestoreManagedMode, Radio!Ran, IfaceAt
            <4>3. QED
                BY <2>1, <2>3, <4>1, <4>2
        <3>2. UNCHANGED <<radio_lock, handle>>
            BY <1>3, <1>6, <2>3 DEF Radio!RestoreManagedMode
        <3>3. IfaceAt(next)' /\ radio_call'[i] = next /\ \A j \in Capturers \ {i} : radio_call'[j] = radio_call[j]
            BY <3>1 DEF IfaceAt, RadioDomains
        <3>4. QED
            BY <1>1, <1>2, <1>4, <3>1, <3>2, <3>3 DEF NoFaultInv, Stages
    <2>4. QED
        BY <2>2, <2>3
<1>7. QED
    BY <1>5, <1>6

\* Everything else that an incarnation does, or that is done to it.
LEMMA CallStep ==
    ASSUME RadioDomains, NoFaultInv, radio_faults' = radio_faults, NEW i \in Capturers,
           \/ Radio!Start(i) \/ Radio!Abandon(i) \/ Radio!OpenCapture(i) \/ Radio!JoinCapture(i)
           \/ Radio!JoinHopper(i) \/ Radio!Stop(i)
    PROVE  NoFaultInv'
<1> USE RadioIsSound DEF Radio!RadioAssumption, Radio!Go, Radio!iface, Radio!counts
<1>1. ~Radio!Abandon(i)
    BY DEF Radio!Abandon, Radio!Fault, RadioDomains
<1>2. UNCHANGED <<plugged, mode, up>>
    BY <1>1 DEF Radio!Start, Radio!OpenCapture, Radio!JoinCapture, Radio!JoinHopper, Radio!Stop
<1>3. \A x : IfaceAt(x)' <=> IfaceAt(x)
    BY <1>2 DEF IfaceAt
<1>4. CASE Radio!Start(i)
    <2>1. IfaceAt("down") /\ \A j \in Capturers : radio_call[j] \in {"unused", "over"}
        BY <1>4 DEF Radio!Start, NoFaultInv, IfaceAt
    <2>2. /\ radio_call' = [radio_call EXCEPT ![i] = "down"] /\ rx' = [rx EXCEPT ![i] = TRUE]
          /\ radio_lock' = i /\ handle = NoCapturer /\ handle' = NoCapturer
        BY <1>4 DEF Radio!Start
    <2>3. QED
        BY <1>2, <1>3, <2>1, <2>2 DEF NoFaultInv, RadioDomains, Stages, Radio!Setting
<1>5. CASE Radio!OpenCapture(i)
    <2>1. radio_lock = i /\ handle = NoCapturer /\ mode = "monitor" /\ up /\ rx[i]
        BY <1>5 DEF Radio!OpenCapture, NoFaultInv, IfaceAt
    <2>2. UNCHANGED rx
        BY <1>5 DEF Radio!OpenCapture
    <2>3. CASE Radio!OpenFails(i)
        <3>1. /\ radio_call' = [radio_call EXCEPT ![i] = "restore down"]
              /\ UNCHANGED <<radio_lock, handle, running, capture>>
            BY <2>3 DEF Radio!OpenFails
        <3>2. IfaceAt("restore down")
            BY <2>1 DEF IfaceAt
        <3>3. QED
            BY <1>2, <1>3, <2>1, <2>2, <3>1, <3>2
            DEF NoFaultInv, RadioDomains, Stages, Radio!Setting, Radio!Restoring
    <2>4. CASE ~Radio!OpenFails(i)
        <3>1. /\ running' = [running EXCEPT ![i] = TRUE] /\ capture' = [capture EXCEPT ![i] = "check"]
              /\ radio_call' = [radio_call EXCEPT ![i] = "over"] /\ radio_lock' = NoCapturer /\ handle' = i
            BY <1>5, <2>1, <2>4 DEF Radio!OpenCapture, Radio!Return
        <3>2. QED
            BY <1>2, <2>1, <2>2, <3>1 DEF NoFaultInv, RadioDomains
    <2>5. QED
        BY <2>3, <2>4
<1>6. CASE Radio!JoinCapture(i) \/ Radio!JoinHopper(i)
    <2>1. radio_call[i] \in {"join capture", "join hopper"}
        BY <1>6 DEF Radio!JoinCapture, Radio!JoinHopper
    <2>2. PICK next \in {"join hopper", "restore down"} : radio_call' = [radio_call EXCEPT ![i] = next]
        BY <1>6 DEF Radio!JoinCapture, Radio!JoinHopper
    <2>3. UNCHANGED <<radio_lock, handle, running, capture, rx>>
        BY <1>6 DEF Radio!JoinCapture, Radio!JoinHopper, Radio!threads
    <2>4. radio_lock = i /\ handle = NoCapturer /\ IfaceAt(next)
        BY <2>1 DEF NoFaultInv, IfaceAt
    <2>5. QED
        BY <1>2, <1>3, <2>2, <2>3, <2>4 DEF NoFaultInv, RadioDomains, Stages, Radio!Setting, Radio!Restoring
<1>7. CASE Radio!Stop(i)
    <2>1. /\ radio_lock = NoCapturer /\ handle = i /\ radio_lock' = i /\ handle' = NoCapturer
          /\ radio_call' = [radio_call EXCEPT ![i] = "join capture"]
        BY <1>7 DEF Radio!Stop
    <2>2. IfaceAt("join capture")
        BY <2>1 DEF NoFaultInv, IfaceAt
    <2>3. QED
        BY <1>2, <1>3, <2>1, <2>2 DEF NoFaultInv, RadioDomains, Stages, Radio!Setting
<1>8. QED
    BY <1>1, <1>4, <1>5, <1>6, <1>7

LEMMA ThreadStep ==
    ASSUME RadioDomains, NoFaultInv, NEW i \in Capturers, Radio!Threads(i) \/ Radio!HandleSourceFailed(i)
    PROVE  NoFaultInv'
<1>1. ~Radio!HandleSourceFailed(i)
    BY RadioIsSound DEF Radio!HandleSourceFailed, NoFaultInv, Radio!RadioAssumption
<1>2. UNCHANGED <<plugged, mode, up, radio_call, radio_lock, handle, running, rx>>
    BY <1>1
    DEF Radio!Threads, Radio!Hop, Radio!ReadPacket, Radio!TimeoutExpired, Radio!BlockingSend, Radio!Drain,
        Radio!iface
<1>3. \A j \in Capturers : handle = j => capture'[j] \in {"check", "read", "send"}
    <2> SUFFICES ASSUME handle \in Capturers PROVE capture'[handle] \in {"check", "read", "send"}
        OBVIOUS
    <2>1. running[handle] /\ rx[handle] /\ plugged /\ capture[handle] \in {"check", "read", "send"}
        BY DEF NoFaultInv
    <2>2. QED
        BY <1>1, <2>1
        DEF Radio!Threads, Radio!Hop, Radio!ReadPacket, Radio!TimeoutExpired, Radio!BlockingSend, Radio!Drain,
            RadioDomains
<1>4. \A x : IfaceAt(x)' <=> IfaceAt(x)
    BY <1>2 DEF IfaceAt
<1>5. QED
    BY <1>2, <1>3, <1>4 DEF NoFaultInv

LEMMA RadioSteps == ThreadsInv /\ TidyInv /\ [DevicesNext]_<<deviceVars, vars>> => (ThreadsInv /\ TidyInv)'
<1> SUFFICES ASSUME ThreadsInv, TidyInv, [DevicesNext]_<<deviceVars, vars>> PROVE (ThreadsInv /\ TidyInv)'
    OBVIOUS
<1>1. ASSUME NEW i \in Capturers,
             \/ Radio!Start(i) \/ Radio!Abandon(i) \/ Radio!Calls(i) \/ Radio!Threads(i)
             \/ Radio!HandleSourceFailed(i) \/ Radio!Stop(i)
      PROVE  (ThreadsInv /\ TidyInv)'
    <2>1. RadioDomains' /\ radio_faults <= radio_faults' /\ UNCHANGED deaths
        BY <1>1, DomainsStep DEF TidyInv
    <2>2. ASSUME radio_faults' = 0, deaths' = 0 PROVE NoFaultInv'
        <3>1. radio_faults = 0 /\ deaths = 0
            BY <2>1, <2>2 DEF TidyInv, RadioDomains
        <3>2. RadioDomains /\ NoFaultInv /\ radio_faults' = radio_faults
            BY <2>2, <3>1 DEF TidyInv
        <3>3. QED
            BY <1>1, <3>2, CommandsStep, CallStep, ThreadStep DEF Radio!Calls
    <2>3. QED
        BY <1>1, <2>1, <2>2, ThreadsStep DEF TidyInv
<1>2. CASE Radio!Unplug
    <2>1. deaths' = deaths + 1 /\ UNCHANGED <<radio_call, capture, hopper, stopped, handle, radio_lock,
                                              rx, running, radio_faults>>
        BY <1>2 DEF Radio!Unplug, Radio!threads
    <2>2. ThreadsInv'
        BY <2>1 DEF ThreadsInv
    <2>3. RadioDomains'
        BY <2>1 DEF TidyInv, RadioDomains
    <2>4. deaths' # 0
        BY <2>1 DEF TidyInv, RadioDomains
    <2>5. QED
        BY <2>2, <2>3, <2>4 DEF TidyInv
<1>3. CASE Radio!Plug
    <2>1. ~plugged /\ UNCHANGED <<radio_call, capture, hopper, stopped, handle, radio_lock,
                                  rx, running, radio_faults, deaths>>
        BY <1>3 DEF Radio!Plug, Radio!threads, Radio!counts
    <2>2. QED
        BY <2>1 DEF ThreadsInv, TidyInv, RadioDomains, NoFaultInv
<1>4. CASE UNCHANGED radioVars
    <2>1. \A x : IfaceAt(x)' <=> IfaceAt(x)
        BY <1>4 DEF IfaceAt, radioVars
    <2>2. QED
        BY <1>4, <2>1 DEF radioVars, ThreadsInv, TidyInv, RadioDomains, NoFaultInv
<1>5. QED
    <2>1. Radio!Done => UNCHANGED radioVars
        BY DEF Radio!Done, Radio!vars, radioVars
    <2>2. QED
        BY <1>1, <1>2, <1>3, <1>4, <2>1 DEF DevicesNext, deviceVars, Radio!Next

\* Whatever fails, is dropped or unplugged, a stop that has joined its threads leaves none of
\* them running; and an interface on which no command failed is back in managed mode and up
\* as soon as nothing is started on it (capture/wifi/monitor.rs).
THEOREM RadioStaysTidy == DevicesSpec => []RadioIsLeftTidy
<1>1. DevicesInit => ThreadsInv /\ TidyInv
    BY ThreadsInitially, TidyInitially
<1>2. ThreadsInv /\ TidyInv /\ [DevicesNext]_<<deviceVars, vars>> => (ThreadsInv /\ TidyInv)'
    BY RadioSteps
<1>3. ThreadsInv /\ TidyInv => RadioIsLeftTidy
    BY DEF ThreadsInv, TidyInv, NoFaultInv, RadioIsLeftTidy, Radio!StoppedIsQuiet, Radio!TidyWithoutFaults
<1>4. QED
    BY <1>1, <1>2, <1>3, PTL DEF DevicesSpec


-----------------------------------------------------------------------------
(* What is told of access points and clients. *)

Securities == {Wifi!ParseBeaconSecurity(c) : c \in Broadcasts} \cup {Wifi!ScanSecurity(c) : c \in Broadcasts}

Associations ==
    {Wifi!Association(b, Ssids[b]) : b \in DOMAIN Ssids} \cup {Wifi!Association(b, Wifi!None) : b \in DOMAIN Ssids}

Heard ==
    {Wifi!Beacon(s) : s \in Securities} \cup {Wifi!Probe(Ssids[b]) : b \in DOMAIN Ssids}
        \cup {Wifi!NoProbe} \cup Associations

AirInv ==
    /\ config \in Broadcasts
    /\ air \in [Wifi!Paths -> Seq(Heard)]
    /\ home \in Securities \cup {Wifi!NoSecurity}
    /\ last.obs \in Heard /\ (last.obs.frame_type = "association_request" => last.to = "client")
    /\ client.connected_ssid # Wifi!None =>
          client.connected_ssid = Ssids[client.connected_bssid]

LEMMA AirInitially == DevicesInit => AirInv
<1> SUFFICES ASSUME DevicesInit PROVE AirInv
    OBVIOUS
<1>1. Wifi!Init
    BY DEF DevicesInit
<1>2. last.obs = Wifi!NoProbe /\ Wifi!NoProbe.frame_type = "probe_request"
    BY <1>1 DEF Wifi!Init, Wifi!NoProbe, Wifi!Probe
<1>3. client.connected_ssid = Wifi!None
    BY <1>1 DEF Wifi!Init
<1>4. air \in [Wifi!Paths -> Seq(Heard)]
    BY <1>1 DEF Wifi!Init
<1>5. QED
    BY <1>1, <1>2, <1>3, <1>4 DEF AirInv, Wifi!Init, Heard

\* Every fact about what is on the air that ingest relies on.
LEMMA KindsOfFrames ==
    ASSUME NEW obs \in Heard
    PROVE  /\ obs.frame_type = "beacon" => obs.security \in Securities /\ obs.target_bssid = Wifi!None
           /\ obs.frame_type = "association_request" => Wifi!MatchedBy(obs) = "client"
           /\ obs.target_bssid # Wifi!None /\ obs.target_ssid # Wifi!None =>
                 obs.target_ssid = Ssids[obs.target_bssid]
<1>1. CASE \E s \in Securities : obs = Wifi!Beacon(s)
    BY <1>1 DEF Wifi!Beacon
<1>2. CASE \E x : obs = Wifi!Probe(x)
    BY <1>2 DEF Wifi!Probe
<1>3. CASE obs \in Associations
    <2>1. PICK b \in DOMAIN Ssids : \E x \in {Ssids[b], Wifi!None} : obs = Wifi!Association(b, x)
        BY <1>3 DEF Associations
    <2>2. QED
        BY <2>1, AirIsSound DEF Wifi!Association, Wifi!MatchedBy, Wifi!WifiAssumption
<1>4. QED
    BY <1>1, <1>2, <1>3 DEF Heard, Wifi!NoProbe

LEMMA AirSteps == AirInv /\ [DevicesNext]_<<deviceVars, vars>> => AirInv'
<1> SUFFICES ASSUME AirInv, [DevicesNext]_<<deviceVars, vars>> PROVE AirInv'
    OBVIOUS
<1>1. CASE UNCHANGED wifiVars
    BY <1>1 DEF AirInv, wifiVars
<1>2. CASE Wifi!Reconfigure
    BY <1>2 DEF AirInv, Wifi!Reconfigure
<1>3. ASSUME NEW p \in Wifi!Paths, NEW obs \in Heard, Wifi!Send(p, obs) PROVE AirInv'
    <2>1. air' = [air EXCEPT ![p] = Append(@, obs)] /\ UNCHANGED <<config, home, client, last>>
        BY <1>3 DEF Wifi!Send
    <2>2. air[p] \in Seq(Heard)
        BY DEF AirInv
    <2>3. Append(air[p], obs) \in Seq(Heard)
        BY <2>2
    <2>4. air' \in [Wifi!Paths -> Seq(Heard)]
        BY <2>1, <2>3 DEF AirInv
    <2>5. QED
        BY <2>1, <2>4 DEF AirInv
<1>4. CASE Wifi!Monitor \/ Wifi!Scan
    <2>1. PICK p \in Wifi!Paths, obs \in Heard : Wifi!Send(p, obs)
        BY <1>4 DEF Wifi!Monitor, Wifi!Scan, Heard, Securities, Associations, AirInv, Wifi!Paths
    <2>2. QED
        BY <1>3, <2>1
<1>5. ASSUME NEW p \in Wifi!Paths, Wifi!Ingest(p) PROVE AirInv'
    <2> DEFINE obs == Head(air[p])
    <2>1. air[p] \in Seq(Heard) /\ air[p] # <<>>
        BY <1>5 DEF AirInv, Wifi!Ingest
    <2>2. obs \in Heard /\ Tail(air[p]) \in Seq(Heard)
        BY <2>1
    <2>3. /\ client' = IF Wifi!MatchedBy(obs) = "client" /\ obs.target_bssid # Wifi!None
                       THEN Wifi!ConnectedAp(obs) ELSE client
          /\ home' = IF Wifi!MatchedBy(obs) = "home" /\ obs.frame_type = "beacon"
                     THEN Wifi!MergeAp(obs.security) ELSE home
          /\ last' = [obs |-> obs, to |-> Wifi!MatchedBy(obs)]
          /\ air' = [air EXCEPT ![p] = Tail(@)] /\ UNCHANGED config
        BY <1>5 DEF Wifi!Ingest
    <2> HIDE DEF obs
    <2>4. air' \in [Wifi!Paths -> Seq(Heard)]
        BY <2>2, <2>3 DEF AirInv
    <2>5. home' \in Securities \cup {Wifi!NoSecurity}
        BY <2>2, <2>3, KindsOfFrames DEF AirInv, Wifi!MergeAp
    <2>6. last'.obs \in Heard /\ (last'.obs.frame_type = "association_request" => last'.to = "client")
        BY <2>2, <2>3, KindsOfFrames
    <2>7. client'.connected_ssid # Wifi!None => client'.connected_ssid = Ssids[client'.connected_bssid]
        BY <2>2, <2>3, KindsOfFrames DEF AirInv, Wifi!ConnectedAp
    <2>8. QED
        BY <2>3, <2>4, <2>5, <2>6, <2>7 DEF AirInv
<1>6. QED
    BY <1>1, <1>2, <1>4, <1>5 DEF DevicesNext, deviceVars, Wifi!Next

-----------------------------------------------------------------------------
(* The two readings of an element. *)

\* The name that `iw` prints for a suite stands for the suite the monitor reads, and it has
\* none for a suite the monitor does not know.
Translates(name, from, suite) ==
    /\ DOMAIN name = DOMAIN suite /\ "number" \notin DOMAIN from
    /\ \A t \in DOMAIN suite : name[t] \in DOMAIN from /\ from[name[t]] = suite[t]

LEMMA SuitesTranslate ==
    /\ Translates(Wifi!IwAkm, Wifi!AkmFromIw, Wifi!AkmSuite)
    /\ Translates(Wifi!WpaAkmSuite, Wifi!AkmFromIw, Wifi!WpaAkmSuite)
    /\ Translates(Wifi!CipherSuite, Wifi!CipherFromIw, Wifi!CipherSuite)
<1>1. Translates(Wifi!IwAkm, Wifi!AkmFromIw, Wifi!AkmSuite)
    <2>1. /\ Wifi!IwAkm[1] = "802.1X" /\ Wifi!IwAkm[2] = "PSK" /\ Wifi!IwAkm[3] = "FT/802.1X"
          /\ Wifi!IwAkm[4] = "FT/PSK" /\ Wifi!IwAkm[5] = "802.1X/SHA-256" /\ Wifi!IwAkm[6] = "PSK/SHA-256"
          /\ Wifi!IwAkm[8] = "SAE" /\ Wifi!IwAkm[9] = "FT/SAE" /\ Wifi!IwAkm[18] = "OWE"
        BY DEF Wifi!IwAkm
    <2>2. /\ Wifi!AkmSuite[1] = "802.1X" /\ Wifi!AkmSuite[2] = "PSK" /\ Wifi!AkmSuite[3] = "FT-802.1X"
          /\ Wifi!AkmSuite[4] = "FT-PSK" /\ Wifi!AkmSuite[5] = "802.1X-SHA256" /\ Wifi!AkmSuite[6] = "PSK-SHA256"
          /\ Wifi!AkmSuite[8] = "SAE" /\ Wifi!AkmSuite[9] = "FT-SAE" /\ Wifi!AkmSuite[18] = "OWE"
        BY DEF Wifi!AkmSuite
    <2>3. /\ Wifi!AkmFromIw["802.1X"] = "802.1X" /\ Wifi!AkmFromIw["PSK"] = "PSK"
          /\ Wifi!AkmFromIw["FT/802.1X"] = "FT-802.1X" /\ Wifi!AkmFromIw["FT/PSK"] = "FT-PSK"
          /\ Wifi!AkmFromIw["802.1X/SHA-256"] = "802.1X-SHA256" /\ Wifi!AkmFromIw["PSK/SHA-256"] = "PSK-SHA256"
          /\ Wifi!AkmFromIw["SAE"] = "SAE" /\ Wifi!AkmFromIw["FT/SAE"] = "FT-SAE"
          /\ Wifi!AkmFromIw["OWE"] = "OWE"
        BY DEF Wifi!AkmFromIw
    <2>4. /\ DOMAIN Wifi!IwAkm = {1, 2, 3, 4, 5, 6, 8, 9, 18} /\ DOMAIN Wifi!AkmSuite = DOMAIN Wifi!IwAkm
          /\ "number" \notin DOMAIN Wifi!AkmFromIw
          /\ {"802.1X", "PSK", "FT/802.1X", "FT/PSK"} \subseteq DOMAIN Wifi!AkmFromIw
          /\ {"802.1X/SHA-256", "PSK/SHA-256", "SAE", "FT/SAE", "OWE"} \subseteq DOMAIN Wifi!AkmFromIw
        BY DEF Wifi!IwAkm, Wifi!AkmSuite, Wifi!AkmFromIw
    <2>5. QED
        BY <2>1, <2>2, <2>3, <2>4 DEF Translates
<1>2. Translates(Wifi!WpaAkmSuite, Wifi!AkmFromIw, Wifi!WpaAkmSuite)
    BY DEF Translates, Wifi!AkmFromIw, Wifi!WpaAkmSuite
<1>3. Translates(Wifi!CipherSuite, Wifi!CipherFromIw, Wifi!CipherSuite)
    BY DEF Translates, Wifi!CipherSuite, Wifi!CipherFromIw
<1>4. QED
    BY <1>1, <1>2, <1>3

LEMMA ReadsAlike ==
    ASSUME NEW sels, NEW oui, NEW name, NEW from, NEW suite, Translates(name, from, suite)
    PROVE  Wifi!ParseSelectors(sels, oui, suite) = Wifi!FromIw(Wifi!IwPrints(sels, oui, name), from)
<1> DEFINE printed == Wifi!IwPrints(sels, oui, name)
<1>1. DOMAIN printed = DOMAIN sels
    BY DEF Wifi!IwPrints
<1>2. ASSUME NEW i \in DOMAIN sels
      PROVE  (IF printed[i] \in DOMAIN from THEN from[printed[i]] ELSE Wifi!Unknown)
                = (IF sels[i].oui = oui /\ sels[i].type \in DOMAIN suite
                   THEN suite[sels[i].type] ELSE Wifi!Unknown)
    <2>1. printed[i] = IF sels[i].oui = oui /\ sels[i].type \in DOMAIN name
                       THEN name[sels[i].type] ELSE "number"
        BY DEF Wifi!IwPrints
    <2>2. QED
        BY <2>1 DEF Translates
<1>3. QED
    BY <1>1, <1>2 DEF Wifi!ParseSelectors, Wifi!FromIw

LEMMA ElementsAlike ==
    ASSUME NEW c \in Broadcasts,
           \A e \in {c.rsn, c.wpa} : e.there => e.pairwise \o e.akm # <<>>
    PROVE  /\ Wifi!ParseRsn(c.rsn) = Wifi!ScanElement(c.rsn, "rsn", Wifi!IwAkm)
           /\ Wifi!ParseWpa(c.wpa) = Wifi!ScanElement(c.wpa, "wpa", Wifi!WpaAkmSuite)
<1>1. \A e \in {c.rsn, c.wpa} : e.there \in BOOLEAN /\ (e.there <=> e.pairwise \o e.akm # <<>>)
    BY AirIsSound DEF Wifi!WifiAssumption
<1>2. \A e \in {c.rsn, c.wpa} : e.there = (e.pairwise \o e.akm # <<>>)
    BY <1>1, Zenon
<1>3. QED
    BY <1>2, SuitesTranslate, ReadsAlike DEF Wifi!ParseRsn, Wifi!ParseWpa, Wifi!ScanElement

\* The security shown of an access point is one it broadcast, the same on either capture path,
\* and a client's association is told of the client, with the name and the address of one
\* network (capture/wifi/security.rs, capture/wifi/parse.rs).
THEOREM ApsStayDescribed == DevicesSpec => []ApsAreDescribed
<1>1. AirInv => ApsAreDescribed
    <2> SUFFICES ASSUME AirInv PROVE ApsAreDescribed
        OBVIOUS
    <2>1. Wifi!NormalizesAlike
        BY ElementsAlike DEF AirInv, Wifi!NormalizesAlike, Wifi!ParseBeaconSecurity, Wifi!ScanSecurity
    <2>2. Wifi!ClientsAreTold
        BY DEF AirInv, Wifi!ClientsAreTold
    <2>3. Wifi!OneBeaconsAttributes
        BY DEF AirInv, Wifi!OneBeaconsAttributes, Securities
    <2>4. QED
        BY <2>1, <2>2, <2>3 DEF ApsAreDescribed
<1>2. QED
    BY <1>1, AirInitially, AirSteps, PTL DEF DevicesSpec

-----------------------------------------------------------------------------
(* The throttle of a scan. *)

Values == Labels \cup {Unset}
Strengths == SignalLevels \cup {Unset}

Snapshot(dp) ==
    \E n \in Values, r \in Strengths : \E b \in BOOLEAN : dp = [addressed |-> b, name |-> n, rssi |-> r]

Whole(dp) == \E n \in Values, r \in Strengths : dp = Scan!Full(n, r)

Part(m) == \E n \in Values, r \in Strengths : m = [addressed |-> FALSE, name |-> n, rssi |-> r]

Wholes == {Scan!Full(n, r) : n \in Values, r \in Strengths}
Announcements == [path : Objects, props : Wholes]
Changes == [path : Objects, props : [addressed : {FALSE}, name : Values, rssi : Strengths]]

\* What the bus has announced is whole; what it reports of a change has no address.
SignalsOK ==
    /\ known \subseteq Objects /\ device \in [Objects -> Wholes]
    /\ added \in Seq(Announcements) /\ changed \in Seq(Changes)
    /\ \A s \in answer : s.path \in Objects /\ Whole(s.props)

EmissionsOK ==
    /\ DOMAIN cache = Objects /\ \A p \in Objects : Snapshot(cache[p])
    /\ DOMAIN lastEmit = Scan!KnownAddresses
    /\ \A a \in Scan!KnownAddresses :
          \/ lastEmit[a] = Scan!Never
          \/ \E k \in 0..ThrottleTicks, n \in Values, r \in Strengths :
                lastEmit[a] = [ever |-> TRUE, age |-> k, props |-> Scan!Full(n, r)]

\* The emission of a device is the snapshot, but for RSSI, of one of its objects.
Told ==
    \A p \in Objects : cache[p].addressed =>
        /\ lastEmit[DeviceOf(p)].ever
        /\ \E q \in Objects : /\ DeviceOf(q) = DeviceOf(p) /\ cache[q].addressed
                              /\ lastEmit[DeviceOf(p)].props.name = cache[q].name

\* Strengthening: what was never heard in full was never emitted.
Heeded ==
    \A a \in Scan!KnownAddresses : lastEmit[a].ever => \E p \in Objects : DeviceOf(p) = a /\ cache[p].addressed

ScanInv == SignalsOK /\ EmissionsOK /\ Told /\ Heeded

LEMMA ScanInitially == DevicesInit => ScanInv
<1> SUFFICES ASSUME DevicesInit PROVE ScanInv
    OBVIOUS
<1>1. Scan!Init
    BY DEF DevicesInit
<1>2. SignalsOK
    <2>1. device \in [Objects -> Wholes]
        BY <1>1 DEF Scan!Init, Wholes, Values, Strengths
    <2>2. QED
        BY <1>1, <2>1 DEF SignalsOK, Scan!Init
<1>3. \A p \in Objects : cache[p] = Scan!Default /\ Snapshot(cache[p]) /\ ~cache[p].addressed
    BY <1>1 DEF Scan!Init, Scan!Default, Snapshot, Values, Strengths
<1>4. \A a \in Scan!KnownAddresses : lastEmit[a] = Scan!Never /\ ~lastEmit[a].ever
    BY <1>1 DEF Scan!Init, Scan!Never
<1>5. EmissionsOK
    BY <1>1, <1>3, <1>4 DEF EmissionsOK, Scan!Init
<1>6. QED
    BY <1>2, <1>3, <1>4, <1>5 DEF ScanInv, Told, Heeded

\* A signal merged into the snapshot: an address or a name, once known, stays.
LEMMA Merged ==
    ASSUME NEW dp, Snapshot(dp), NEW m, Whole(m) \/ Part(m)
    PROVE  LET new == Scan!MergeProp(dp, m)
           IN /\ Snapshot(new)
              /\ dp.addressed => new.addressed
              /\ new.addressed => Whole(new)
              /\ m.name = Unset => new.name = dp.name
<1> DEFINE new == Scan!MergeProp(dp, m)
<1>1. PICK n1 \in Values, r1 \in Strengths : \E b \in BOOLEAN : dp = [addressed |-> b, name |-> n1, rssi |-> r1]
    BY DEF Snapshot
<1>2. PICK n2 \in Values, r2 \in Strengths : \E b \in BOOLEAN : m = [addressed |-> b, name |-> n2, rssi |-> r2]
    BY DEF Whole, Part, Scan!Full
<1>3. PICK b1 \in BOOLEAN : dp = [addressed |-> b1, name |-> n1, rssi |-> r1]
    BY <1>1
<1>4. PICK b2 \in BOOLEAN : m = [addressed |-> b2, name |-> n2, rssi |-> r2]
    BY <1>2
<1>5. PICK n \in Values : n = IF n2 = Unset THEN n1 ELSE n2
    OBVIOUS
<1>6. PICK r \in Strengths : r = IF r2 = Unset THEN r1 ELSE r2
    OBVIOUS
<1>7. dp.addressed = b1 /\ dp.name = n1 /\ dp.rssi = r1 /\ m.addressed = b2 /\ m.name = n2 /\ m.rssi = r2
    BY <1>3, <1>4
<1>8. new = [addressed |-> b1 \/ b2, name |-> n, rssi |-> r]
    BY <1>5, <1>6, <1>7 DEF Scan!MergeProp
<1>9. (b1 \/ b2) \in BOOLEAN
    OBVIOUS
<1>10. Snapshot(new)
    BY <1>8, <1>9 DEF Snapshot
<1>11. dp.addressed => new.addressed
    <2>1. new.addressed = (b1 \/ b2)
        BY <1>8
    <2>2. QED
        BY <1>7, <2>1, Zenon
<1>12. new.addressed => Whole(new)
    <2> SUFFICES ASSUME new.addressed PROVE Whole(new)
        OBVIOUS
    <2>1. (b1 \/ b2) = TRUE
        BY <1>8
    <2>2. new = Scan!Full(n, r)
        BY <1>8, <2>1 DEF Scan!Full
    <2>3. QED
        BY <2>2 DEF Whole
<1>13. m.name = Unset => new.name = dp.name
    BY <1>5, <1>7, <1>8
<1>14. QED
    BY <1>10, <1>11, <1>12, <1>13

LEMMA WithoutRssi ==
    ASSUME NEW b, NEW n, NEW r
    PROVE  [[addressed |-> b, name |-> n, rssi |-> r] EXCEPT !.rssi = Unset]
              = [addressed |-> b, name |-> n, rssi |-> Unset]
    OBVIOUS

\* What differs between two whole snapshots, RSSI apart, is the name.
LEMMA OnlyNames ==
    ASSUME NEW old, Whole(old), NEW new, Whole(new)
    PROVE  Scan!NonRssiChanged(old, new) <=> old.name # new.name
<1>1. PICK n1 \in Values, r1 \in Strengths : old = [addressed |-> TRUE, name |-> n1, rssi |-> r1]
    BY DEF Whole, Scan!Full
<1>2. PICK n2 \in Values, r2 \in Strengths : new = [addressed |-> TRUE, name |-> n2, rssi |-> r2]
    BY DEF Whole, Scan!Full
<1>3. [old EXCEPT !.rssi = Unset] = [addressed |-> TRUE, name |-> n1, rssi |-> Unset]
    BY <1>1, WithoutRssi, Zenon
<1>4. [new EXCEPT !.rssi = Unset] = [addressed |-> TRUE, name |-> n2, rssi |-> Unset]
    BY <1>2, WithoutRssi, Zenon
<1>5. QED
    BY <1>1, <1>2, <1>3, <1>4 DEF Scan!NonRssiChanged

\* What a signal does to the snapshots and to what was emitted of them.
LEMMA ReceiveSteps ==
    ASSUME EmissionsOK, Told, Heeded,
           NEW s, s.path \in Objects, Whole(s.props) \/ Part(s.props), NEW next, Scan!Receive(s, next)
    PROVE  EmissionsOK' /\ Told' /\ Heeded'
<1> DEFINE o == s.path
           a == DeviceOf(o)
           dp == Scan!MergeProp(cache[o], s.props)
<1>1. o \in Objects /\ a \in Scan!KnownAddresses
    BY DEF Scan!KnownAddresses
<1>2. cache' = [cache EXCEPT ![o] = dp] /\ Scan!EmitIfDue(a, cache'[o], next)
    BY DEF Scan!Receive
<1>3. DOMAIN cache = Objects /\ Snapshot(cache[o])
    BY <1>1 DEF EmissionsOK
<1>4. cache'[o] = dp /\ (\A p \in Objects : p # o => cache'[p] = cache[p]) /\ DOMAIN cache' = Objects
    BY <1>1, <1>2, <1>3
<1>5. Snapshot(dp) /\ (cache[o].addressed => dp.addressed) /\ (dp.addressed => Whole(dp))
    BY <1>3, Merged
<1>6. \A p \in Objects : Snapshot(cache'[p])
    BY <1>4, <1>5 DEF EmissionsOK
<1> HIDE DEF dp, a
<1>7. CASE dp.addressed /\ ~Scan!Throttled(lastEmit[a], dp)
    <2>1. lastEmit' = [lastEmit EXCEPT ![a] = [ever |-> TRUE, age |-> 0, props |-> dp]]
        BY <1>2, <1>4, <1>7 DEF Scan!EmitIfDue
    <2>2. lastEmit'[a] = [ever |-> TRUE, age |-> 0, props |-> dp] /\ DOMAIN lastEmit' = Scan!KnownAddresses
          /\ \A b \in Scan!KnownAddresses : b # a => lastEmit'[b] = lastEmit[b]
        BY <1>1, <2>1 DEF EmissionsOK
    <2>3. PICK n \in Values, r \in Strengths : dp = Scan!Full(n, r)
        BY <1>5, <1>7 DEF Whole
    <2>4. 0 \in 0..ThrottleTicks
        BY ThrottleIsSound DEF Scan!ThrottleAssumption
    <2>5. EmissionsOK'
        <3>1. \E k \in 0..ThrottleTicks, n2 \in Values, r2 \in Strengths :
                 lastEmit'[a] = [ever |-> TRUE, age |-> k, props |-> Scan!Full(n2, r2)]
            BY <2>2, <2>3, <2>4
        <3>2. QED
            BY <1>4, <1>6, <2>2, <3>1 DEF EmissionsOK
    <2>6. Told'
        <3> SUFFICES ASSUME NEW p \in Objects, cache'[p].addressed
                     PROVE  /\ lastEmit'[DeviceOf(p)].ever
                            /\ \E q \in Objects : /\ DeviceOf(q) = DeviceOf(p) /\ cache'[q].addressed
                                                  /\ lastEmit'[DeviceOf(p)].props.name = cache'[q].name
            BY DEF Told
        <3>1. CASE DeviceOf(p) = a
            BY <1>1, <1>4, <1>7, <2>2, <3>1 DEF a
        <3>2. CASE DeviceOf(p) # a
            <4>1. p # o /\ DeviceOf(p) \in Scan!KnownAddresses
                BY <3>2 DEF a, Scan!KnownAddresses
            <4>2. lastEmit'[DeviceOf(p)] = lastEmit[DeviceOf(p)] /\ cache'[p] = cache[p]
                BY <1>4, <2>2, <3>2, <4>1
            <4>3. PICK q \in Objects : /\ DeviceOf(q) = DeviceOf(p) /\ cache[q].addressed
                                       /\ lastEmit[DeviceOf(p)].props.name = cache[q].name
                BY <4>2 DEF Told
            <4>4. q # o
                BY <3>2, <4>3 DEF a
            <4>5. QED
                BY <1>4, <4>2, <4>3, <4>4 DEF Told
        <3>3. QED
            BY <3>1, <3>2
    <2>7. Heeded'
        <3> SUFFICES ASSUME NEW b \in Scan!KnownAddresses, lastEmit'[b].ever
                     PROVE  \E p \in Objects : DeviceOf(p) = b /\ cache'[p].addressed
            BY DEF Heeded
        <3>1. CASE b = a
            BY <1>1, <1>4, <1>7, <3>1 DEF a
        <3>2. CASE b # a
            <4>1. PICK p \in Objects : DeviceOf(p) = b /\ cache[p].addressed
                BY <2>2, <3>2 DEF Heeded
            <4>2. p # o
                BY <3>2, <4>1 DEF a
            <4>3. QED
                BY <1>4, <4>1, <4>2
        <3>3. QED
            BY <3>1, <3>2
    <2>8. QED
        BY <2>5, <2>6, <2>7
<1>8. CASE ~(dp.addressed /\ ~Scan!Throttled(lastEmit[a], dp))
    <2>1. UNCHANGED lastEmit
        BY <1>2, <1>4, <1>8 DEF Scan!EmitIfDue
    <2>2. EmissionsOK'
        BY <1>4, <1>6, <2>1 DEF EmissionsOK
    <2>3. dp.addressed => lastEmit[a].ever /\ lastEmit[a].props.name = dp.name
        <3> SUFFICES ASSUME dp.addressed PROVE lastEmit[a].ever /\ lastEmit[a].props.name = dp.name
            OBVIOUS
        <3>1. lastEmit[a].age < ThrottleTicks /\ ~Scan!NonRssiChanged(lastEmit[a].props, dp)
            BY <1>8 DEF Scan!Throttled
        <3>2. lastEmit[a] # Scan!Never
            BY <3>1, ThrottleIsSound DEF Scan!Never, Scan!ThrottleAssumption
        <3>3. PICK k \in 0..ThrottleTicks, n \in Values, r \in Strengths :
                 lastEmit[a] = [ever |-> TRUE, age |-> k, props |-> Scan!Full(n, r)]
            BY <1>1, <3>2 DEF EmissionsOK
        <3>4. Whole(lastEmit[a].props) /\ Whole(dp)
            BY <1>5, <3>3 DEF Whole
        <3>5. QED
            BY <3>1, <3>3, <3>4, OnlyNames
    <2>4. Told'
        <3> SUFFICES ASSUME NEW p \in Objects, cache'[p].addressed
                     PROVE  /\ lastEmit[DeviceOf(p)].ever
                            /\ \E q \in Objects : /\ DeviceOf(q) = DeviceOf(p) /\ cache'[q].addressed
                                                  /\ lastEmit[DeviceOf(p)].props.name = cache'[q].name
            BY <2>1 DEF Told
        <3>1. CASE DeviceOf(p) = a /\ dp.addressed
            BY <1>1, <1>4, <2>3, <3>1 DEF a
        <3>2. CASE ~(DeviceOf(p) = a /\ dp.addressed)
            <4>1. p # o
                BY <1>4, <3>2 DEF a
            <4>2. cache[p].addressed
                BY <1>4, <4>1
            <4>3. PICK q \in Objects : /\ DeviceOf(q) = DeviceOf(p) /\ cache[q].addressed
                                       /\ lastEmit[DeviceOf(p)].props.name = cache[q].name
                BY <4>2 DEF Told
            <4>4. q # o
                BY <1>5, <3>2, <4>3 DEF a
            <4>5. QED
                BY <1>4, <4>2, <4>3, <4>4 DEF Told
        <3>3. QED
            BY <3>1, <3>2
    <2>5. Heeded'
        BY <1>4, <1>5, <2>1 DEF Heeded
    <2>6. QED
        BY <2>2, <2>4, <2>5
<1>9. QED
    BY <1>7, <1>8

\* What is taken from a stream is a signal of that stream.
LEMMA Taken ==
    ASSUME SignalsOK
    PROVE  /\ \A s \in answer : s.path \in Objects /\ Whole(s.props)
           /\ added # <<>> => /\ Head(added).path \in Objects /\ Whole(Head(added).props)
                              /\ Tail(added) \in Seq(Announcements)
           /\ changed # <<>> => /\ Head(changed).path \in Objects /\ Part(Head(changed).props)
                                /\ Tail(changed) \in Seq(Changes)
<1>1. \A s \in Announcements : s.path \in Objects /\ Whole(s.props)
    BY DEF Announcements, Wholes, Whole
<1>2. ASSUME NEW s \in Changes PROVE s.path \in Objects /\ Part(s.props)
    <2>1. s.path \in Objects /\ s.props \in [addressed : {FALSE}, name : Values, rssi : Strengths]
        BY DEF Changes
    <2>2. s.props = [addressed |-> FALSE, name |-> s.props.name, rssi |-> s.props.rssi]
        BY <2>1
    <2>3. QED
        BY <2>1, <2>2 DEF Part
<1>3. added # <<>> => Head(added) \in Announcements /\ Tail(added) \in Seq(Announcements)
    BY DEF SignalsOK
<1>4. changed # <<>> => Head(changed) \in Changes /\ Tail(changed) \in Seq(Changes)
    BY DEF SignalsOK
<1>5. QED
    BY <1>1, <1>2, <1>3, <1>4 DEF SignalsOK

LEMMA BusSteps ==
    ASSUME SignalsOK, NEW p \in Objects,
           Scan!InterfacesAdded(p) \/ Scan!InterfacesRemoved(p) \/ Scan!PropertiesChanged(p)
    PROVE  SignalsOK' /\ UNCHANGED <<cache, lastEmit>>
<1>1. UNCHANGED <<cache, lastEmit, answer>>
    BY DEF Scan!InterfacesAdded, Scan!InterfacesRemoved, Scan!PropertiesChanged
<1>2. CASE Scan!InterfacesAdded(p)
    <2>1. PICK n \in Values, r \in Strengths :
             /\ device' = [device EXCEPT ![p] = Scan!Full(n, r)]
             /\ added' = IF Scan!Listening("added")
                         THEN Append(added, [path |-> p, props |-> Scan!Full(n, r)]) ELSE added
        BY <1>2 DEF Scan!InterfacesAdded, Values, Strengths
    <2>2. Scan!Full(n, r) \in Wholes
        BY DEF Wholes
    <2>3. device' \in [Objects -> Wholes]
        BY <2>1, <2>2 DEF SignalsOK
    <2>4. [path |-> p, props |-> Scan!Full(n, r)] \in Announcements
        BY <2>2 DEF Announcements
    <2>5. added' \in Seq(Announcements)
        BY <2>1, <2>4 DEF SignalsOK
    <2>6. UNCHANGED changed /\ known' = known \cup {p}
        BY <1>2 DEF Scan!InterfacesAdded
    <2>7. QED
        BY <1>1, <2>3, <2>5, <2>6 DEF SignalsOK
<1>3. CASE Scan!InterfacesRemoved(p)
    BY <1>1, <1>3 DEF SignalsOK, Scan!InterfacesRemoved
<1>4. CASE Scan!PropertiesChanged(p)
    <2>1. PICK m \in [addressed : {FALSE}, name : Values, rssi : Strengths] :
             /\ device' = [device EXCEPT ![p] = Scan!Updated(@, m)]
             /\ changed' = IF Scan!Listening("changed")
                           THEN Append(changed, [path |-> p, props |-> m]) ELSE changed
        BY <1>4 DEF Scan!PropertiesChanged, Values, Strengths
    <2>2. device[p] \in Wholes
        BY DEF SignalsOK
    <2>3. PICK n1 \in Values, r1 \in Strengths : device[p] = Scan!Full(n1, r1)
        BY <2>2 DEF Wholes
    <2>4. device[p].name \in Values /\ device[p].rssi \in Strengths
        BY <2>3 DEF Scan!Full
    <2>5. Scan!Updated(device[p], m) \in Wholes
        BY <2>4 DEF Wholes, Scan!Updated
    <2>6. device' \in [Objects -> Wholes]
        BY <2>1, <2>5 DEF SignalsOK
    <2>7. [path |-> p, props |-> m] \in Changes
        BY DEF Changes
    <2>8. changed' \in Seq(Changes)
        BY <2>1, <2>7 DEF SignalsOK
    <2>9. UNCHANGED <<added, known>>
        BY <1>4 DEF Scan!PropertiesChanged
    <2>10. QED
        BY <1>1, <2>6, <2>8, <2>9 DEF SignalsOK
<1>5. QED
    BY <1>1, <1>2, <1>3, <1>4

LEMMA Older ==
    ASSUME NEW e, NEW k, NEW d, NEW j
    PROVE  [[ever |-> e, age |-> k, props |-> d] EXCEPT !.age = j] = [ever |-> e, age |-> j, props |-> d]
    OBVIOUS

LEMMA TickSteps == ASSUME ScanInv, Scan!Tick PROVE ScanInv'
<1>1. UNCHANGED <<known, device, added, changed, answer, cache>>
    BY DEF Scan!Tick, Scan!bus
<1>2. DOMAIN lastEmit' = Scan!KnownAddresses
    BY DEF Scan!Tick
<1>3. ASSUME NEW a \in Scan!KnownAddresses
      PROVE  /\ lastEmit'[a].ever <=> lastEmit[a].ever
             /\ lastEmit'[a].props = lastEmit[a].props
             /\ \/ lastEmit'[a] = Scan!Never
                \/ \E k \in 0..ThrottleTicks, n \in Values, r \in Strengths :
                      lastEmit'[a] = [ever |-> TRUE, age |-> k, props |-> Scan!Full(n, r)]
    <2>1. PICK j : j = IF lastEmit[a].age < ThrottleTicks THEN lastEmit[a].age + 1 ELSE lastEmit[a].age
        OBVIOUS
    <2>2. lastEmit'[a] = [lastEmit[a] EXCEPT !.age = j]
        BY <1>3, <2>1 DEF Scan!Tick
    <2>3. CASE lastEmit[a] = Scan!Never
        <3>1. j = ThrottleTicks
            BY <2>1, <2>3, ThrottleIsSound DEF Scan!Never, Scan!ThrottleAssumption
        <3>2. Scan!Never = [ever |-> FALSE, age |-> ThrottleTicks, props |-> Scan!Default]
            BY Zenon DEF Scan!Never
        <3>3. [Scan!Never EXCEPT !.age = ThrottleTicks] = Scan!Never
            BY <3>2, Older
        <3>4. lastEmit'[a] = Scan!Never
            BY <2>2, <2>3, <3>1, <3>3
        <3>5. QED
            BY <2>3, <3>4
    <2>4. CASE \E k \in 0..ThrottleTicks, n \in Values, r \in Strengths :
                  lastEmit[a] = [ever |-> TRUE, age |-> k, props |-> Scan!Full(n, r)]
        <3>1. PICK k \in 0..ThrottleTicks, n \in Values, r \in Strengths :
                  lastEmit[a] = [ever |-> TRUE, age |-> k, props |-> Scan!Full(n, r)]
            BY <2>4
        <3>2. j \in 0..ThrottleTicks
            BY <2>1, <3>1, ThrottleIsSound DEF Scan!ThrottleAssumption
        <3>3. [[ever |-> TRUE, age |-> k, props |-> Scan!Full(n, r)] EXCEPT !.age = j]
                 = [ever |-> TRUE, age |-> j, props |-> Scan!Full(n, r)]
            <4>1. PICK e : e = TRUE
                OBVIOUS
            <4>2. PICK d : d = Scan!Full(n, r)
                OBVIOUS
            <4>3. [[ever |-> e, age |-> k, props |-> d] EXCEPT !.age = j] = [ever |-> e, age |-> j, props |-> d]
                BY Older
            <4>4. QED
                BY <4>1, <4>2, <4>3
        <3>4. lastEmit'[a] = [ever |-> TRUE, age |-> j, props |-> Scan!Full(n, r)]
            BY <2>2, <3>1, <3>3
        <3>5. /\ lastEmit'[a].ever /\ lastEmit[a].ever
              /\ lastEmit'[a].props = lastEmit[a].props
            BY <3>1, <3>4
        <3>6. QED
            BY <3>2, <3>4, <3>5
    <2>5. QED
        BY <1>3, <2>3, <2>4 DEF ScanInv, EmissionsOK
<1>4. SignalsOK'
    BY <1>1 DEF ScanInv, SignalsOK
<1>5. EmissionsOK'
    BY <1>1, <1>2, <1>3 DEF ScanInv, EmissionsOK
<1>6. \A p \in Objects : DeviceOf(p) \in Scan!KnownAddresses
    BY DEF Scan!KnownAddresses
<1>7. Told'
    BY <1>1, <1>3, <1>6 DEF ScanInv, Told
<1>8. Heeded'
    BY <1>1, <1>3 DEF ScanInv, Heeded
<1>9. QED
    BY <1>4, <1>5, <1>7, <1>8 DEF ScanInv

LEMMA ScanSteps == ScanInv /\ [DevicesNext]_<<deviceVars, vars>> => ScanInv'
<1> SUFFICES ASSUME ScanInv, [DevicesNext]_<<deviceVars, vars>> PROVE ScanInv'
    OBVIOUS
<1>1. ASSUME UNCHANGED <<cache, lastEmit>>, SignalsOK' PROVE ScanInv'
    BY <1>1 DEF ScanInv, EmissionsOK, Told, Heeded
<1>2. CASE UNCHANGED scanVars
    BY <1>1, <1>2 DEF scanVars, ScanInv, SignalsOK
<1>3. ASSUME NEW p \in Objects, Scan!InterfacesAdded(p) \/ Scan!InterfacesRemoved(p) \/ Scan!PropertiesChanged(p)
      PROVE  ScanInv'
    BY <1>1, <1>3, BusSteps DEF ScanInv
<1>4. CASE Scan!GetManagedObjects
    <2>1. UNCHANGED <<known, device, added, changed, cache, lastEmit>>
        BY <1>4 DEF Scan!GetManagedObjects, Scan!bus
    <2>2. answer' \in {answer, {[path |-> p, props |-> device[p]] : p \in known}}
        BY <1>4 DEF Scan!GetManagedObjects
    <2>3. \A p \in known : p \in Objects /\ Whole(device[p])
        <3>1. \A p \in known : p \in Objects /\ device[p] \in Wholes
            BY DEF ScanInv, SignalsOK
        <3>2. QED
            BY <3>1 DEF Wholes, Whole
    <2>4. \A s \in answer' : s.path \in Objects /\ Whole(s.props)
        BY <2>2, <2>3 DEF ScanInv, SignalsOK
    <2>5. QED
        BY <1>1, <2>1, <2>4 DEF ScanInv, SignalsOK
<1>5. CASE Scan!Seed
    <2>1. PICK s \in answer : answer' = answer \ {s} /\ \E next : Scan!Receive(s, next)
        BY <1>5 DEF Scan!Seed
    <2>2. UNCHANGED <<known, device, added, changed>>
        BY <1>5 DEF Scan!Seed, Scan!bus
    <2>3. SignalsOK'
        BY <2>1, <2>2 DEF ScanInv, SignalsOK
    <2>4. QED
        BY <2>1, <2>3, Taken, ReceiveSteps DEF ScanInv
<1>6. CASE Scan!TakeAdded
    <2>1. added # <<>> /\ Scan!Receive(Head(added), "loop") /\ added' = Tail(added)
          /\ UNCHANGED <<known, device, changed, answer>>
        BY <1>6 DEF Scan!TakeAdded, Scan!bus
    <2>2. SignalsOK'
        BY <2>1, Taken DEF ScanInv, SignalsOK
    <2>3. QED
        BY <2>1, <2>2, Taken, ReceiveSteps DEF ScanInv
<1>7. CASE Scan!TakeChanged
    <2>1. changed # <<>> /\ Scan!Receive(Head(changed), "loop") /\ changed' = Tail(changed)
          /\ UNCHANGED <<known, device, added, answer>>
        BY <1>7 DEF Scan!TakeChanged, Scan!bus
    <2>2. SignalsOK'
        BY <2>1, Taken DEF ScanInv, SignalsOK
    <2>3. QED
        BY <2>1, <2>2, Taken, ReceiveSteps DEF ScanInv
<1>8. CASE Scan!Subscribe \/ Scan!ReceiverGone
    <2>1. UNCHANGED <<known, device, added, changed, answer, cache, lastEmit>>
        BY <1>8 DEF Scan!Subscribe, Scan!ReceiverGone, Scan!bus
    <2>2. QED
        BY <1>1, <2>1 DEF ScanInv, SignalsOK
<1>9. QED
    BY <1>2, <1>3, <1>4, <1>5, <1>6, <1>7, <1>8, TickSteps DEF DevicesNext, deviceVars, Scan!Next

\* A signal that tells more of an object than its RSSI.
News(s, p) == s.path = p /\ (s.props.addressed \/ s.props.name # Unset)

\* A stream holds n signals with news of p: g[i] of them from the i-th on.
Holds(stream, p, n) ==
    \E g \in [1..Len(stream) + 1 -> Nat] :
        /\ g[1] = n /\ g[Len(stream) + 1] = 0
        /\ \A i \in 1..Len(stream) : g[i] = g[i + 1] + (IF News(stream[i], p) THEN 1 ELSE 0)

LEMMA HoldsNone == ASSUME NEW p PROVE Holds(<<>>, p, 0)
<1> DEFINE g == [i \in 1..1 |-> 0]
<1>1. Len(<<>>) = 0 /\ Len(<<>>) + 1 = 1
    OBVIOUS
<1>2. g \in [1..1 -> Nat] /\ g[1] = 0
    OBVIOUS
<1>3. \A i \in 1..Len(<<>>) : FALSE
    BY <1>1
<1> HIDE DEF g
<1>4. QED
    BY <1>1, <1>2, <1>3 DEF Holds

LEMMA HoldsOneMore ==
    ASSUME NEW S, NEW stream \in Seq(S), NEW s \in S, NEW p, NEW n \in Nat, Holds(stream, p, n)
    PROVE  Holds(Append(stream, s), p, n + (IF News(s, p) THEN 1 ELSE 0))
<1>1. PICK g \in [1..Len(stream) + 1 -> Nat] :
         /\ g[1] = n /\ g[Len(stream) + 1] = 0
         /\ \A i \in 1..Len(stream) : g[i] = g[i + 1] + (IF News(stream[i], p) THEN 1 ELSE 0)
    BY DEF Holds
<1>2. PICK w \in {0, 1} : w = IF News(s, p) THEN 1 ELSE 0
    OBVIOUS
<1>3. PICK l \in Nat : l = Len(stream)
    OBVIOUS
<1> DEFINE h == [i \in 1..l + 2 |-> IF i = l + 2 THEN 0 ELSE g[i] + w]
<1>4. Len(Append(stream, s)) = l + 1 /\ Append(stream, s)[l + 1] = s
      /\ \A i \in 1..l : Append(stream, s)[i] = stream[i]
    BY <1>3
<1>5. h \in [1..(l + 1) + 1 -> Nat] /\ h[1] = n + w /\ h[(l + 1) + 1] = 0
    BY <1>1, <1>3
<1>6. ASSUME NEW i \in 1..l + 1
      PROVE  h[i] = h[i + 1] + (IF News(Append(stream, s)[i], p) THEN 1 ELSE 0)
    <2>1. CASE i = l + 1
        BY <1>1, <1>2, <1>3, <1>4, <2>1
    <2>2. CASE i # l + 1
        <3>1. i \in 1..l /\ i + 1 \in 1..l + 1
            BY <1>6, <2>2
        <3>2. h[i] = g[i] + w /\ h[i + 1] = g[i + 1] + w
            BY <3>1
        <3>3. g[i] = g[i + 1] + (IF News(stream[i], p) THEN 1 ELSE 0) /\ g[i] \in Nat /\ g[i + 1] \in Nat
            BY <1>1, <1>3, <3>1
        <3>4. QED
            BY <1>4, <3>1, <3>2, <3>3
    <2>3. QED
        BY <2>1, <2>2
<1> HIDE DEF h
<1>7. QED
    BY <1>2, <1>4, <1>5, <1>6 DEF Holds

LEMMA HoldsOneLess ==
    ASSUME NEW S, NEW stream \in Seq(S), stream # <<>>, NEW p, NEW n \in Nat, Holds(stream, p, n)
    PROVE  \E m \in Nat : /\ Holds(Tail(stream), p, m)
                          /\ n = m + (IF News(Head(stream), p) THEN 1 ELSE 0)
<1>1. PICK g \in [1..Len(stream) + 1 -> Nat] :
         /\ g[1] = n /\ g[Len(stream) + 1] = 0
         /\ \A i \in 1..Len(stream) : g[i] = g[i + 1] + (IF News(stream[i], p) THEN 1 ELSE 0)
    BY DEF Holds
<1>2. PICK l \in Nat : l + 1 = Len(stream)
    <2>1. Len(stream) \in Nat /\ Len(stream) # 0
        OBVIOUS
    <2>2. Len(stream) - 1 \in Nat /\ (Len(stream) - 1) + 1 = Len(stream)
        BY <2>1
    <2>3. QED
        BY <2>2
<1> DEFINE h == [i \in 1..l + 1 |-> g[i + 1]]
<1>3. Len(Tail(stream)) = l /\ Head(stream) = stream[1] /\ \A i \in 1..l : Tail(stream)[i] = stream[i + 1]
    BY <1>2
<1>4. h \in [1..l + 1 -> Nat] /\ h[1] = g[2] /\ h[l + 1] = 0
    <2>1. Len(stream) + 1 = l + 2
        BY <1>2
    <2>2. g \in [1..l + 2 -> Nat] /\ g[l + 2] = 0
        BY <1>1, <2>1
    <2>3. \A i \in 1..l + 1 : i + 1 \in 1..l + 2
        BY <1>2
    <2>4. h \in [1..l + 1 -> Nat]
        BY <2>2, <2>3
    <2>5. (l + 1) + 1 = l + 2 /\ 1 + 1 = 2 /\ 1 \in 1..l + 1 /\ l + 1 \in 1..l + 1
        BY <1>2
    <2>6. QED
        BY <2>2, <2>4, <2>5
<1>5. ASSUME NEW i \in 1..l PROVE h[i] = h[i + 1] + (IF News(Tail(stream)[i], p) THEN 1 ELSE 0)
    <2>1. i + 1 \in 1..Len(stream) /\ h[i] = g[i + 1] /\ h[i + 1] = g[(i + 1) + 1]
        BY <1>2
    <2>2. QED
        BY <1>1, <1>3, <2>1
<1>6. g[2] \in Nat /\ n = g[2] + (IF News(Head(stream), p) THEN 1 ELSE 0)
    BY <1>1, <1>2, <1>3
<1> HIDE DEF h
<1>7. Holds(Tail(stream), p, g[2])
    BY <1>3, <1>4, <1>5 DEF Holds
<1>8. QED
    BY <1>6, <1>7

\* Strengthening: the credit of a device covers the news of it that is still in the streams.
CreditInv ==
    /\ credit \in [Scan!KnownAddresses -> Int]
    /\ \A p \in Objects : Scan!OfOneAdapter(DeviceOf(p)) =>
          \E n \in Nat, m \in Nat : /\ Holds(added, p, n) /\ Holds(changed, p, m)
                                    /\ credit[DeviceOf(p)] >= n + m

LEMMA CreditInitially == DevicesInit => CreditInv
<1> SUFFICES ASSUME DevicesInit PROVE CreditInv
    OBVIOUS
<1>1. Scan!Init
    BY DEF DevicesInit
<1>2. credit = [a \in Scan!KnownAddresses |-> 0] /\ added = <<>> /\ changed = <<>>
    BY <1>1 DEF Scan!Init
<1>3. \A p \in Objects : DeviceOf(p) \in Scan!KnownAddresses
    BY DEF Scan!KnownAddresses
<1>4. QED
    BY <1>2, <1>3, HoldsNone DEF CreditInv

\* Only news is emitted early.
LEMMA ReceivePays ==
    ASSUME ScanInv, CreditInv, NEW s, s.path \in Objects, Whole(s.props) \/ Part(s.props), NEW next,
           Scan!Receive(s, next)
    PROVE  \/ UNCHANGED credit
           \/ /\ credit' = [credit EXCEPT ![DeviceOf(s.path)] = @ - 1]
              /\ Scan!OfOneAdapter(DeviceOf(s.path)) => News(s, s.path)
<1> DEFINE o == s.path
           a == DeviceOf(o)
           dp == Scan!MergeProp(cache[o], s.props)
<1>1. o \in Objects /\ a \in Scan!KnownAddresses
    BY DEF Scan!KnownAddresses
<1>2. cache' = [cache EXCEPT ![o] = dp] /\ Scan!EmitIfDue(a, cache'[o], next)
    BY DEF Scan!Receive
<1>3. cache'[o] = dp /\ Snapshot(cache[o])
    BY <1>1, <1>2 DEF ScanInv, EmissionsOK
<1>4. (dp.addressed => Whole(dp)) /\ (s.props.name = Unset => dp.name = cache[o].name)
    BY <1>3, Merged
<1> HIDE DEF dp
<1>5. \/ UNCHANGED credit
      \/ /\ credit' = [credit EXCEPT ![a] = @ - 1] /\ lastEmit[a].age < ThrottleTicks
         /\ dp.addressed /\ ~Scan!Throttled(lastEmit[a], dp)
    BY <1>2, <1>3 DEF Scan!EmitIfDue
<1>6. ASSUME lastEmit[a].age < ThrottleTicks, dp.addressed, ~Scan!Throttled(lastEmit[a], dp),
             Scan!OfOneAdapter(a), s.props.name = Unset
      PROVE  FALSE
    <2>1. lastEmit[a] # Scan!Never
        BY <1>6, ThrottleIsSound DEF Scan!Never, Scan!ThrottleAssumption
    <2>2. PICK k \in 0..ThrottleTicks, n \in Values, r \in Strengths :
             lastEmit[a] = [ever |-> TRUE, age |-> k, props |-> Scan!Full(n, r)]
        BY <1>1, <2>1 DEF ScanInv, EmissionsOK
    <2>3. Whole(lastEmit[a].props) /\ lastEmit[a].ever
        BY <2>2 DEF Whole
    <2>4. lastEmit[a].props.name # dp.name
        BY <1>4, <1>6, <2>3, OnlyNames DEF Scan!Throttled
    <2>5. \A p \in Objects : DeviceOf(p) = a => p = o
        BY <1>1, <1>6 DEF Scan!OfOneAdapter
    <2>6. cache[o].addressed
        BY <1>1, <2>3, <2>5 DEF ScanInv, Heeded
    <2>7. lastEmit[a].props.name = cache[o].name
        BY <1>1, <2>5, <2>6 DEF ScanInv, Told
    <2>8. QED
        BY <1>4, <1>6, <2>4, <2>7
<1>7. QED
    BY <1>5, <1>6 DEF News

LEMMA Announced ==
    ASSUME ScanInv, CreditInv, NEW q \in Objects, Scan!InterfacesAdded(q) \/ Scan!PropertiesChanged(q)
    PROVE  CreditInv'
<1>1. DeviceOf(q) \in Scan!KnownAddresses
    BY DEF Scan!KnownAddresses
<1>2. credit' = [credit EXCEPT ![DeviceOf(q)] = @ + 1] \/ UNCHANGED credit
    BY DEF Scan!InterfacesAdded, Scan!PropertiesChanged, Scan!Counted
<1>3. credit' \in [Scan!KnownAddresses -> Int]
    BY <1>2 DEF CreditInv
<1> SUFFICES ASSUME NEW p \in Objects, Scan!OfOneAdapter(DeviceOf(p))
             PROVE  \E n \in Nat, m \in Nat : /\ Holds(added', p, n) /\ Holds(changed', p, m)
                                              /\ credit'[DeviceOf(p)] >= n + m
    BY <1>3 DEF CreditInv
<1>4. PICK n \in Nat, m \in Nat : Holds(added, p, n) /\ Holds(changed, p, m) /\ credit[DeviceOf(p)] >= n + m
    BY DEF CreditInv
<1>5. DeviceOf(p) \in Scan!KnownAddresses /\ credit[DeviceOf(p)] \in Int
    BY DEF CreditInv, Scan!KnownAddresses
<1>6. DeviceOf(q) = DeviceOf(p) => q = p
    BY DEF Scan!OfOneAdapter
<1>7. CASE Scan!InterfacesAdded(q)
    <2>1. PICK v \in Values, r \in Strengths :
             added' = IF Scan!Listening("added")
                      THEN Append(added, [path |-> q, props |-> Scan!Full(v, r)]) ELSE added
        BY <1>7 DEF Scan!InterfacesAdded, Values, Strengths
    <2>2. UNCHANGED changed /\ credit' = [credit EXCEPT ![DeviceOf(q)] = @ + 1]
        BY <1>7 DEF Scan!InterfacesAdded, Scan!Counted
    <2> DEFINE s == [path |-> q, props |-> Scan!Full(v, r)]
    <2>3. s \in Announcements /\ added' \in {added, Append(added, s)} /\ added \in Seq(Announcements)
        BY <2>1 DEF ScanInv, SignalsOK, Announcements, Wholes
    <2>4. News(s, p) => q = p
        BY DEF News
    <2> HIDE DEF s
    <2>5. PICK k \in Nat : Holds(added', p, k) /\ k =< n + (IF News(s, p) THEN 1 ELSE 0)
        <3>1. CASE added' = added
            BY <1>4, <3>1
        <3>2. CASE added' = Append(added, s)
            BY <1>4, <2>3, <3>2, HoldsOneMore
        <3>3. QED
            BY <2>3, <3>1, <3>2
    <2>6. credit'[DeviceOf(p)] >= k + m
        BY <1>1, <1>3, <1>4, <1>5, <1>6, <2>2, <2>4, <2>5 DEF CreditInv
    <2>7. QED
        BY <1>4, <2>2, <2>5, <2>6
<1>8. CASE Scan!PropertiesChanged(q)
    <2>1. PICK d \in [addressed : {FALSE}, name : Values, rssi : Strengths] :
             /\ changed' = IF Scan!Listening("changed")
                           THEN Append(changed, [path |-> q, props |-> d]) ELSE changed
             /\ IF d.name = Unset THEN UNCHANGED credit ELSE Scan!Counted(q)
        BY <1>8 DEF Scan!PropertiesChanged, Values, Strengths
    <2>2. UNCHANGED added
        BY <1>8 DEF Scan!PropertiesChanged
    <2> DEFINE s == [path |-> q, props |-> d]
    <2>3. s \in Changes /\ changed' \in {changed, Append(changed, s)} /\ changed \in Seq(Changes)
        BY <2>1 DEF ScanInv, SignalsOK, Changes
    <2>4. News(s, p) => q = p /\ d.name # Unset
        BY <2>1 DEF News
    <2> HIDE DEF s
    <2>5. PICK k \in Nat : Holds(changed', p, k) /\ k =< m + (IF News(s, p) THEN 1 ELSE 0)
        <3>1. CASE changed' = changed
            BY <1>4, <3>1
        <3>2. CASE changed' = Append(changed, s)
            BY <1>4, <2>3, <3>2, HoldsOneMore
        <3>3. QED
            BY <2>3, <3>1, <3>2
    <2>6. IF d.name = Unset THEN UNCHANGED credit ELSE credit' = [credit EXCEPT ![DeviceOf(q)] = @ + 1]
        BY <2>1 DEF Scan!Counted
    <2>7. credit'[DeviceOf(p)] >= n + k
        BY <1>1, <1>3, <1>4, <1>5, <1>6, <2>4, <2>5, <2>6 DEF CreditInv
    <2>8. QED
        BY <1>4, <2>2, <2>5, <2>7
<1>9. QED
    BY <1>7, <1>8

\* A signal that is taken out of one stream pays for its emission.
LEMMA TakenPays ==
    ASSUME ScanInv, CreditInv, NEW S, NEW stream \in Seq(S), stream # <<>>, NEW rest,
           Head(stream).path \in Objects, Whole(Head(stream).props) \/ Part(Head(stream).props),
           Scan!Receive(Head(stream), "loop"),
           NEW p \in Objects, Scan!OfOneAdapter(DeviceOf(p)), NEW n \in Nat, NEW m \in Nat,
           Holds(stream, p, n), Holds(rest, p, m), credit[DeviceOf(p)] >= n + m
    PROVE  \E k \in Nat : Holds(Tail(stream), p, k) /\ credit'[DeviceOf(p)] >= k + m
<1> DEFINE s == Head(stream)
<1>1. PICK k \in Nat : Holds(Tail(stream), p, k) /\ n = k + (IF News(s, p) THEN 1 ELSE 0)
    BY HoldsOneLess
<1>2. \/ UNCHANGED credit
      \/ /\ credit' = [credit EXCEPT ![DeviceOf(s.path)] = @ - 1]
         /\ Scan!OfOneAdapter(DeviceOf(s.path)) => News(s, s.path)
    BY ReceivePays
<1>3. DeviceOf(p) \in Scan!KnownAddresses /\ credit[DeviceOf(p)] \in Int /\ DOMAIN credit = Scan!KnownAddresses
    BY DEF CreditInv, Scan!KnownAddresses
<1>4. DeviceOf(s.path) = DeviceOf(p) => s.path = p
    BY DEF Scan!OfOneAdapter
<1> HIDE DEF s
<1>5. credit'[DeviceOf(p)] >= k + m
    <2>1. CASE UNCHANGED credit
        BY <1>1, <1>3, <2>1
    <2>2. CASE DeviceOf(s.path) # DeviceOf(p) /\ credit' = [credit EXCEPT ![DeviceOf(s.path)] = @ - 1]
        <3>1. credit'[DeviceOf(p)] = credit[DeviceOf(p)]
            BY <1>3, <2>2
        <3>2. QED
            BY <1>1, <1>3, <3>1
    <2>3. CASE DeviceOf(s.path) = DeviceOf(p) /\ News(s, s.path) /\ credit' = [credit EXCEPT ![DeviceOf(s.path)] = @ - 1]
        <3>1. credit'[DeviceOf(p)] = credit[DeviceOf(p)] - 1 /\ News(s, p)
            BY <1>3, <1>4, <2>3
        <3>2. QED
            BY <1>1, <1>3, <3>1
    <2>4. QED
        BY <1>2, <1>4, <2>1, <2>2, <2>3
<1>6. QED
    BY <1>1, <1>5

LEMMA CreditTyped ==
    ASSUME CreditInv, NEW a, UNCHANGED credit \/ credit' = [credit EXCEPT ![a] = @ - 1]
    PROVE  credit' \in [Scan!KnownAddresses -> Int]
<1>1. CASE a \in Scan!KnownAddresses
    BY <1>1 DEF CreditInv
<1>2. CASE a \notin Scan!KnownAddresses
    BY <1>2 DEF CreditInv
<1>3. QED
    BY <1>1, <1>2

LEMMA CreditSteps == ScanInv /\ CreditInv /\ [DevicesNext]_<<deviceVars, vars>> => CreditInv'
<1> SUFFICES ASSUME ScanInv, CreditInv, [DevicesNext]_<<deviceVars, vars>> PROVE CreditInv'
    OBVIOUS
<1>1. CASE UNCHANGED <<added, changed, credit>>
    BY <1>1 DEF CreditInv
<1>2. CASE Scan!Seed
    <2>1. scan_stage # "loop" /\ UNCHANGED <<added, changed>> /\ \E s, next : Scan!Receive(s, next)
        BY <1>2 DEF Scan!Seed
    <2>2. UNCHANGED credit
        BY <2>1 DEF Scan!Receive, Scan!EmitIfDue
    <2>3. QED
        BY <1>1, <2>1, <2>2
<1>3. CASE Scan!TakeAdded
    <2>1. added # <<>> /\ Scan!Receive(Head(added), "loop") /\ added' = Tail(added) /\ UNCHANGED changed
        BY <1>3 DEF Scan!TakeAdded
    <2>2. added \in Seq(Announcements) /\ Head(added).path \in Objects /\ Whole(Head(added).props)
        BY <2>1, Taken DEF ScanInv, SignalsOK
    <2>3. credit' \in [Scan!KnownAddresses -> Int]
        BY <2>1, <2>2, ReceivePays, CreditTyped
    <2>4. ASSUME NEW p \in Objects, Scan!OfOneAdapter(DeviceOf(p))
          PROVE  \E n \in Nat, m \in Nat : /\ Holds(added', p, n) /\ Holds(changed', p, m)
                                           /\ credit'[DeviceOf(p)] >= n + m
        <3>1. PICK n \in Nat, m \in Nat : Holds(added, p, n) /\ Holds(changed, p, m) /\ credit[DeviceOf(p)] >= n + m
            BY <2>4 DEF CreditInv
        <3>2. PICK k \in Nat : Holds(Tail(added), p, k) /\ credit'[DeviceOf(p)] >= k + m
            BY <2>1, <2>2, <2>4, <3>1, TakenPays
        <3>3. QED
            BY <2>1, <3>1, <3>2
    <2>5. QED
        BY <2>3, <2>4 DEF CreditInv
<1>4. CASE Scan!TakeChanged
    <2>1. changed # <<>> /\ Scan!Receive(Head(changed), "loop") /\ changed' = Tail(changed) /\ UNCHANGED added
        BY <1>4 DEF Scan!TakeChanged
    <2>2. changed \in Seq(Changes) /\ Head(changed).path \in Objects /\ Part(Head(changed).props)
        BY <2>1, Taken DEF ScanInv, SignalsOK
    <2>3. credit' \in [Scan!KnownAddresses -> Int]
        BY <2>1, <2>2, ReceivePays, CreditTyped
    <2>4. ASSUME NEW p \in Objects, Scan!OfOneAdapter(DeviceOf(p))
          PROVE  \E n \in Nat, m \in Nat : /\ Holds(added', p, n) /\ Holds(changed', p, m)
                                           /\ credit'[DeviceOf(p)] >= n + m
        <3>1. PICK n \in Nat, m \in Nat : Holds(added, p, n) /\ Holds(changed, p, m) /\ credit[DeviceOf(p)] >= n + m
            BY <2>4 DEF CreditInv
        <3>2. credit[DeviceOf(p)] >= m + n
            BY <3>1
        <3>3. PICK k \in Nat : Holds(Tail(changed), p, k) /\ credit'[DeviceOf(p)] >= k + n
            BY <2>1, <2>2, <2>4, <3>1, <3>2, TakenPays
        <3>4. credit'[DeviceOf(p)] >= n + k
            BY <3>3
        <3>5. QED
            BY <2>1, <3>1, <3>3, <3>4
    <2>5. QED
        BY <2>3, <2>4 DEF CreditInv
<1>5. QED
    BY <1>1, <1>2, <1>3, <1>4, Announced
    DEF DevicesNext, deviceVars, scanVars, Scan!Next, Scan!InterfacesRemoved, Scan!GetManagedObjects,
        Scan!Subscribe, Scan!ReceiverGone, Scan!Tick, Scan!bus

\* A start is told "scanning" only of a scan that began, a failed one leaves none behind, and
\* the throttle withholds RSSI and nothing else, and lets nothing else through early, of a
\* device that one adapter knows (capture/bluetooth/scan.rs).
THEOREM BluetoothStaysHonest == DevicesSpec => []BluetoothIsHonest
<1>1. DevicesInit => StartInv /\ ScanInv /\ CreditInv
    BY StartInitially, ScanInitially, CreditInitially
<1>2. StartInv /\ ScanInv /\ CreditInv /\ [DevicesNext]_<<deviceVars, vars>> => (StartInv /\ ScanInv /\ CreditInv)'
    BY StartSteps, ScanSteps, CreditSteps
<1>3. StartInv /\ ScanInv /\ CreditInv => BluetoothIsHonest
    <2> SUFFICES ASSUME StartInv, ScanInv, CreditInv PROVE BluetoothIsHonest
        OBVIOUS
    <2>1. Scan!FieldsAreTold
        BY DEF ScanInv, Told, Scan!FieldsAreTold
    <2>2. Scan!EarlyAnswersAChange
        <3> SUFFICES ASSUME NEW p \in Objects, Scan!OfOneAdapter(DeviceOf(p)) PROVE credit[DeviceOf(p)] >= 0
            BY DEF Scan!EarlyAnswersAChange, Scan!KnownAddresses
        <3>1. PICK n \in Nat, m \in Nat : credit[DeviceOf(p)] >= n + m
            BY DEF CreditInv
        <3>2. credit[DeviceOf(p)] \in Int
            BY DEF CreditInv, Scan!KnownAddresses
        <3>3. QED
            BY <3>1, <3>2
    <2>3. QED
        BY <2>1, <2>2, StartsAreHonest DEF BluetoothIsHonest
<1>4. QED
    BY <1>1, <1>2, <1>3, PTL DEF DevicesSpec

-----------------------------------------------------------------------------
(* What device a frame is taken for. *)

ClassOrNone == Identity!Classes \cup {Identity!None}

\* What a frame is taken for matches its own rule, on the field of its identity.
TakenBy(c, f, field) ==
    /\ field \in Identity!Identifying \cap DOMAIN f.payload
    /\ c.identity = f.payload[field]
    /\ <<field, f.payload[field]>> \in c.rule
    /\ \A x \in c.rule : x[1] \in Identity!Identifying
    /\ c.type = "wifi_access_point" => field = "bssid"
    /\ c.type = "wifi_client" => field = "src_mac"
    /\ c.type = "bluetooth_device" => field \in {"address", "name"}
    /\ c.type \in {"tpms_sensor", "subghz_device"} => field = "id"
    /\ c.type \in {"wifi_access_point", "wifi_client", "bluetooth_device", "tpms_sensor", "subghz_device"}

LEMMA TakenByItself ==
    ASSUME NEW f, NEW type, NEW class, NEW field \in Identity!Identifying \cap DOMAIN f.payload,
           \/ type = "wifi_access_point" /\ field = "bssid"
           \/ type = "wifi_client" /\ field = "src_mac"
           \/ type = "bluetooth_device" /\ field \in {"address", "name"}
           \/ type \in {"tpms_sensor", "subghz_device"} /\ field = "id"
    PROVE  TakenBy(Identity!Taken(type, field, f.payload, class), f, field)
    BY DEF TakenBy, Identity!Taken

LEMMA TakenByName ==
    ASSUME NEW f, NEW class, {"name", "address"} \subseteq DOMAIN f.payload
    PROVE  TakenBy([Identity!Taken("bluetooth_device", "name", f.payload, class)
                       EXCEPT !.rule = @ \cup {<<"address", f.payload.address>>}], f, "name")
<1> DEFINE t == Identity!Taken("bluetooth_device", "name", f.payload, class)
           c == [t EXCEPT !.rule = @ \cup {<<"address", f.payload.address>>}]
<1>1. c.type = t.type /\ c.identity = t.identity /\ c.rule = t.rule \cup {<<"address", f.payload.address>>}
    BY DEF Identity!Taken
<1>2. TakenBy(t, f, "name")
    BY TakenByItself DEF Identity!Identifying
<1> HIDE DEF t, c
<1>3. "address" \in Identity!Identifying
    BY DEF Identity!Identifying
<1>4. \A x \in c.rule : x[1] \in Identity!Identifying
    BY <1>1, <1>2, <1>3 DEF TakenBy
<1>5. <<"name", f.payload["name"]>> \in c.rule
    BY <1>1, <1>2 DEF TakenBy
<1>6. TakenBy(c, f, "name")
    BY <1>1, <1>2, <1>4, <1>5 DEF TakenBy
<1>7. QED
    BY <1>6 DEF c, t

LEMMA Identified ==
    ASSUME NEW f \in DeviceFrames, Identity!Classify(f) # Identity!Unknown
    PROVE  \E field : TakenBy(Identity!Classify(f), f, field)
<1>1. f.kind \in {"wifi", "bluetooth", "tpms", "subghz"}
    BY FramesAreSound DEF Identity!IdentityAssumption, Identity!Kinds
<1>2. CASE f.kind = "wifi"
    <2>1. Identity!Classify(f) = Identity!ClassifyWifi(f.payload)
        BY <1>2 DEF Identity!Classify
    <2>2. CASE f.payload.frame_type = "beacon"
        <3>1. /\ "bssid" \in DOMAIN f.payload
              /\ Identity!Classify(f) = Identity!Taken("wifi_access_point", "bssid", f.payload,
                                                       Identity!WifiPersistence("beacon", f.payload.bssid))
            BY <2>1, <2>2 DEF Identity!ClassifyWifi, Identity!ClassifyBeacon
        <3>2. QED
            BY <3>1, TakenByItself DEF Identity!Identifying
    <2>3. CASE f.payload.frame_type = "probe_request"
        <3>1. /\ "src_mac" \in DOMAIN f.payload
              /\ Identity!Classify(f) = Identity!Taken("wifi_client", "src_mac", f.payload,
                                                       Identity!WifiPersistence("probe_request", f.payload.src_mac))
            BY <2>1, <2>3 DEF Identity!ClassifyWifi, Identity!ClassifyProbeRequest
        <3>2. QED
            BY <3>1, TakenByItself DEF Identity!Identifying
    <2>4. CASE f.payload.frame_type \in {"association_request", "reassociation_request"}
        <3>1. /\ "src_mac" \in DOMAIN f.payload
              /\ Identity!Classify(f) = Identity!Taken("wifi_client", "src_mac", f.payload,
                                                  Identity!WifiPersistence("association_request", f.payload.src_mac))
            BY <2>1, <2>4 DEF Identity!ClassifyWifi, Identity!ClassifyAssociation
        <3>2. QED
            BY <3>1, TakenByItself DEF Identity!Identifying
    <2>5. CASE f.payload.frame_type \notin {"beacon", "probe_request", "association_request", "reassociation_request"}
        BY <2>1, <2>5 DEF Identity!ClassifyWifi
    <2>6. QED
        BY <2>2, <2>3, <2>4, <2>5
<1>3. CASE f.kind = "bluetooth"
    <2> DEFINE class == Identity!BluetoothPersistence(f.payload)
    <2>1. Identity!Classify(f) = Identity!ClassifyBluetooth(f.payload)
        BY <1>3 DEF Identity!Classify
    <2>2. "address" \in DOMAIN f.payload
        BY <2>1 DEF Identity!ClassifyBluetooth
    <2>3. \/ /\ "name" \in DOMAIN f.payload
             /\ Identity!Classify(f) = [Identity!Taken("bluetooth_device", "name", f.payload, class)
                                           EXCEPT !.rule = @ \cup {<<"address", f.payload.address>>}]
          \/ Identity!Classify(f) = Identity!Taken("bluetooth_device", "address", f.payload, class)
        BY <2>1, <2>2 DEF Identity!ClassifyBluetooth
    <2>4. QED
        BY <2>2, <2>3, TakenByItself, TakenByName DEF Identity!Identifying
<1>4. CASE f.kind = "tpms"
    <2>1. /\ "id" \in DOMAIN f.payload
          /\ Identity!Classify(f) = Identity!Taken("tpms_sensor", "id", f.payload, Identity!None)
        BY <1>4 DEF Identity!Classify, Identity!ClassifyTpms
    <2>2. QED
        BY <2>1, TakenByItself DEF Identity!Identifying
<1>5. CASE f.kind = "subghz"
    <2>1. /\ "id" \in DOMAIN f.payload
          /\ Identity!Classify(f) = Identity!Taken("subghz_device", "id", f.payload, Identity!None)
        BY <1>5 DEF Identity!Classify, Identity!ClassifySubghz
    <2>2. QED
        BY <2>1, TakenByItself DEF Identity!Identifying
<1>6. QED
    BY <1>1, <1>2, <1>3, <1>4, <1>5

LEMMA MatchesItself ==
    ASSUME NEW f \in DeviceFrames, Identity!Classify(f) # Identity!Unknown
    PROVE  Identity!Matches(Identity!Classify(f).rule, f.payload)
<1>1. PICK field : TakenBy(Identity!Classify(f), f, field)
    BY Identified
<1>2. QED
    BY <1>1 DEF TakenBy, Identity!Matches

\* Whoever shares a frame's identity has a rule that matches it.
LEMMA SameKeyMatches ==
    ASSUME NEW f \in DeviceFrames, NEW g \in DeviceFrames,
           Identity!Classify(f) # Identity!Unknown, Identity!Classify(g) # Identity!Unknown,
           Identity!Classify(f).type = Identity!Classify(g).type,
           Identity!Classify(f).identity = Identity!Classify(g).identity
    PROVE  Identity!Matches(Identity!Classify(g).rule, f.payload)
<1>1. PICK a : TakenBy(Identity!Classify(f), f, a)
    BY Identified
<1>2. PICK b : TakenBy(Identity!Classify(g), g, b)
    BY Identified
<1>3. a = b
    <2>1. a = b \/ {a, b} = {"address", "name"}
        BY <1>1, <1>2 DEF TakenBy
    <2>2. /\ a \in DOMAIN f.payload /\ b \in DOMAIN g.payload
          /\ f.payload[a] = g.payload[b]
        BY <1>1, <1>2 DEF TakenBy
    <2>3. \A x, y \in DeviceFrames : "name" \in DOMAIN x.payload /\ "address" \in DOMAIN y.payload =>
             x.payload["name"] # y.payload["address"]
        BY FramesAreSound DEF Identity!IdentityAssumption
    <2>4. ~(a = "name" /\ b = "address") /\ ~(a = "address" /\ b = "name")
        BY <2>2, <2>3
    <2>5. QED
        BY <2>1, <2>4
<1>4. QED
    BY <1>1, <1>2, <1>3 DEF TakenBy, Identity!Matches

LEMMA FirstIsFirst ==
    ASSUME NEW S \in SUBSET Nat, S # {}
    PROVE  Identity!FirstOf(S) \in S /\ \A j \in S : Identity!FirstOf(S) =< j
<1> DEFINE R == OpToRel(<, Nat)
<1>1. IsWellFoundedOn(R, Nat)
    BY NatLessThanWellFounded
<1>2. ASSUME NEW x \in S, NEW y \in S, y < x
      PROVE  <<y, x>> \in R
    BY <1>2 DEF OpToRel
<1> HIDE DEF R
<1>3. PICK x \in S : \A y \in S : ~(<<y, x>> \in R)
    BY <1>1, WFMin
<1>4. \A y \in S : ~(y < x) /\ x \in Nat /\ y \in Nat
    BY <1>2, <1>3
<1>5. \A y \in S : x =< y
    BY <1>4
<1>6. QED
    BY <1>5 DEF Identity!FirstOf

EmitterRows == {Identity!Unknown} \cup {Identity!Classify(f) : f \in DeviceFrames}

EmissionRows == {Identity!Gone} \cup [frame : DeviceFrames, emitter : Nat]

\* Strengthening: an emission stands with the first emitter, of those there are, whose rule
\* matches it.
FirstMatch(all, f, i) ==
    /\ i \in DOMAIN all /\ all[i] # Identity!Unknown /\ Identity!Matches(all[i].rule, f.payload)
    /\ \A j \in DOMAIN all :
          j < i /\ all[j] # Identity!Unknown => ~Identity!Matches(all[j].rule, f.payload)

IdentityInv ==
    /\ emitters \in Seq(EmitterRows) /\ emissions \in Seq(EmissionRows)
    /\ \A n \in Identity!Standing : FirstMatch(emitters, emissions[n].frame, emissions[n].emitter)

RetentionInv ==
    /\ level \in [Identity!Kinds -> ClassOrNone]
    /\ \A k \in kept : /\ k[2] \in DeviceFrames /\ k[3] \in ClassOrNone
                       /\ k[1] = "dropped" => ~Identity!ShouldStore(k[3], Identity!Class(k[2]))
                       /\ k[1] = "stored" => Identity!ShouldStore(k[3], Identity!Class(k[2]))

LEMMA IdentityInitially == DevicesInit => IdentityInv /\ RetentionInv
<1> SUFFICES ASSUME DevicesInit PROVE IdentityInv /\ RetentionInv
    OBVIOUS
<1>1. Identity!Init
    BY DEF DevicesInit
<1>2. emitters = <<>> /\ emissions = <<>> /\ kept = {} /\ level = [k \in Identity!Kinds |-> Identity!None]
    BY <1>1 DEF Identity!Init
<1>3. DOMAIN emissions = {}
    BY <1>2
<1>4. Identity!Standing = {}
    BY <1>3 DEF Identity!Standing
<1>5. IdentityInv
    BY <1>2, <1>4 DEF IdentityInv
<1>6. RetentionInv
    BY <1>2 DEF RetentionInv, ClassOrNone
<1>7. QED
    BY <1>5, <1>6

LEMMA RetentionSteps == RetentionInv /\ [DevicesNext]_<<deviceVars, vars>> => RetentionInv'
<1> SUFFICES ASSUME RetentionInv, [DevicesNext]_<<deviceVars, vars>> PROVE RetentionInv'
    OBVIOUS
<1>1. CASE UNCHANGED <<level, kept>>
    BY <1>1 DEF RetentionInv
<1>2. ASSUME NEW f \in DeviceFrames, Identity!Capture(f) PROVE RetentionInv'
    <2>1. f.kind \in Identity!Kinds
        BY FramesAreSound DEF Identity!IdentityAssumption
    <2>2. UNCHANGED level /\ level[f.kind] \in ClassOrNone
        BY <1>2, <2>1 DEF Identity!Capture, RetentionInv
    <2>3. \/ /\ ~Identity!ShouldStore(level[f.kind], Identity!Class(f))
             /\ kept' = kept \cup {<<"dropped", f, level[f.kind]>>}
          \/ /\ Identity!ShouldStore(level[f.kind], Identity!Class(f))
             /\ kept' = kept \cup {<<"stored", f, level[f.kind]>>}
        BY <1>2 DEF Identity!Capture
    <2>4. QED
        BY <2>2, <2>3 DEF RetentionInv
<1>3. ASSUME NEW kind \in Identity!Kinds, NEW l \in ClassOrNone, NEW age, Identity!Configure(kind, l, age)
      PROVE  RetentionInv'
    BY <1>3 DEF Identity!Configure, RetentionInv
<1>4. ASSUME NEW i, Identity!AgeOut(i) PROVE RetentionInv'
    BY <1>1, <1>4 DEF Identity!AgeOut
<1>5. QED
    BY <1>1, <1>2, <1>3, <1>4 DEF DevicesNext, deviceVars, identityVars, Identity!Next, ClassOrNone

LEMMA CaptureSteps == ASSUME IdentityInv, NEW f \in DeviceFrames, Identity!Capture(f) PROVE IdentityInv'
<1> DEFINE c == Identity!Classify(f)
           Stays(i) == emissions' = Append(emissions, [frame |-> f, emitter |-> i])
<1>1. emitters \in Seq(EmitterRows) /\ emissions \in Seq(EmissionRows)
    BY DEF IdentityInv
<1>2. CASE UNCHANGED <<emitters, emissions>>
    BY <1>2 DEF IdentityInv, Identity!Standing, FirstMatch
\* Whatever becomes of the emitters, the emissions that stood stand as they stood.
<1>3. ASSUME NEW i \in Nat, Stays(i), emitters' \in Seq(EmitterRows),
             i # 0 => FirstMatch(emitters', f, i),
             \A g \in DeviceFrames, j \in Nat : FirstMatch(emitters, g, j) => FirstMatch(emitters', g, j)
      PROVE  IdentityInv'
    <2> DEFINE e == [frame |-> f, emitter |-> i]
    <2>1. e \in EmissionRows
        BY DEF EmissionRows
    <2>2. /\ emissions' \in Seq(EmissionRows) /\ DOMAIN emissions' = 1..Len(emissions) + 1
          /\ emissions'[Len(emissions) + 1] = e /\ \A n \in DOMAIN emissions : emissions'[n] = emissions[n]
          /\ DOMAIN emissions = 1..Len(emissions) /\ Len(emissions) \in Nat
        BY <1>1, <1>3, <2>1
    <2>3. ASSUME NEW n \in Identity!Standing' PROVE FirstMatch(emitters', emissions'[n].frame, emissions'[n].emitter)
        <3>1. n \in DOMAIN emissions' /\ emissions'[n] # Identity!Gone /\ emissions'[n].emitter # 0
            BY <2>3 DEF Identity!Standing
        <3>2. CASE n = Len(emissions) + 1
            <4>1. emissions'[n].frame = f /\ emissions'[n].emitter = i
                BY <2>2, <3>2
            <4>2. QED
                BY <1>3, <3>1, <4>1
        <3>3. CASE n # Len(emissions) + 1
            <4>1. n \in DOMAIN emissions /\ emissions'[n] = emissions[n]
                BY <2>2, <3>1, <3>3
            <4>2. n \in Identity!Standing
                BY <3>1, <4>1 DEF Identity!Standing
            <4>3. FirstMatch(emitters, emissions[n].frame, emissions[n].emitter)
                BY <4>2 DEF IdentityInv
            <4>4. emissions[n] \in EmissionRows /\ emissions[n] # Identity!Gone
                BY <1>1, <3>1, <4>1
            <4>5. emissions[n].frame \in DeviceFrames /\ emissions[n].emitter \in Nat
                BY <4>4 DEF EmissionRows
            <4>6. QED
                BY <1>3, <4>1, <4>3, <4>5
        <3>4. QED
            BY <3>2, <3>3
    <2>4. QED
        BY <1>3, <2>2, <2>3 DEF IdentityInv
<1>4. CASE Identity!Matching(f) # {} /\ Stays(Identity!FirstOf(Identity!Matching(f))) /\ UNCHANGED emitters
    <2> DEFINE i == Identity!FirstOf(Identity!Matching(f))
    <2>1. Identity!Matching(f) \subseteq DOMAIN emitters /\ DOMAIN emitters \subseteq Nat \ {0}
        BY <1>1 DEF Identity!Matching
    <2>2. i \in Identity!Matching(f) /\ \A j \in Identity!Matching(f) : i =< j
        BY <1>4, <2>1, FirstIsFirst
    <2> HIDE DEF i
    <2>3. FirstMatch(emitters, f, i)
        BY <2>1, <2>2 DEF FirstMatch, Identity!Matching
    <2>4. \A g, j : FirstMatch(emitters, g, j) => FirstMatch(emitters', g, j)
        BY <1>4 DEF FirstMatch
    <2>5. Stays(i) /\ i \in Nat /\ UNCHANGED emitters
        BY <1>4, <2>1, <2>2 DEF i
    <2>6. QED
        BY <1>1, <1>3, <2>3, <2>4, <2>5
<1>5. CASE Stays(0) /\ UNCHANGED emitters
    <2>1. \A g, j : FirstMatch(emitters, g, j) => FirstMatch(emitters', g, j)
        BY <1>5 DEF FirstMatch
    <2>2. QED
        BY <1>1, <1>3, <1>5, <2>1
<1>6. Identity!Matching(f) = {} /\ c # Identity!Unknown => Identity!SameKey(c) = {}
    <2> SUFFICES ASSUME Identity!Matching(f) = {}, c # Identity!Unknown, NEW i \in Identity!SameKey(c) PROVE FALSE
        OBVIOUS
    <2>1. i \in DOMAIN emitters /\ emitters[i] # Identity!Unknown /\ emitters[i].type = c.type
          /\ emitters[i].identity = c.identity
        BY DEF Identity!SameKey
    <2>2. emitters[i] \in EmitterRows
        BY <1>1, <2>1
    <2>3. PICK g \in DeviceFrames : emitters[i] = Identity!Classify(g)
        BY <2>1, <2>2 DEF EmitterRows
    <2>4. Identity!Matches(emitters[i].rule, f.payload)
        BY <2>1, <2>3, SameKeyMatches
    <2>5. QED
        BY <2>1, <2>4 DEF Identity!Matching
<1>7. CASE /\ Identity!Matching(f) = {} /\ c # Identity!Unknown
           /\ emitters' = Append(emitters, c) /\ Stays(Len(emitters) + 1)
    <2>1. c \in EmitterRows
        BY DEF EmitterRows
    <2> HIDE DEF c
    <2>2. /\ emitters' \in Seq(EmitterRows) /\ DOMAIN emitters' = 1..Len(emitters) + 1
          /\ emitters'[Len(emitters) + 1] = c /\ \A i \in DOMAIN emitters : emitters'[i] = emitters[i]
          /\ DOMAIN emitters = 1..Len(emitters) /\ Len(emitters) \in Nat
        BY <1>1, <1>7, <2>1
    <2>3. Identity!Matches(c.rule, f.payload)
        BY <1>7, MatchesItself DEF c
    <2>4. \A j \in DOMAIN emitters : emitters[j] # Identity!Unknown => ~Identity!Matches(emitters[j].rule, f.payload)
        BY <1>7 DEF Identity!Matching
    <2>5. FirstMatch(emitters', f, Len(emitters) + 1)
        BY <1>7, <2>2, <2>3, <2>4 DEF FirstMatch
    <2>6. ASSUME NEW g, NEW j \in Nat, FirstMatch(emitters, g, j) PROVE FirstMatch(emitters', g, j)
        BY <2>2, <2>6 DEF FirstMatch
    <2>7. QED
        BY <1>3, <1>7, <2>2, <2>5, <2>6
<1>8. QED
    BY <1>2, <1>4, <1>5, <1>6, <1>7 DEF Identity!Capture

LEMMA AgeOutSteps == ASSUME IdentityInv, NEW i \in DOMAIN emitters, Identity!AgeOut(i) PROVE IdentityInv'
<1>1. emitters \in Seq(EmitterRows) /\ emissions \in Seq(EmissionRows)
    BY DEF IdentityInv
<1>2. /\ emitters' = [emitters EXCEPT ![i] = Identity!Unknown]
      /\ emissions' = [n \in DOMAIN emissions |-> IF n \in Identity!Of(i) THEN Identity!Gone ELSE emissions[n]]
    BY DEF Identity!AgeOut
<1>3. emitters' \in Seq(EmitterRows) /\ DOMAIN emitters' = DOMAIN emitters
      /\ emitters'[i] = Identity!Unknown /\ \A j \in DOMAIN emitters : j # i => emitters'[j] = emitters[j]
    BY <1>1, <1>2 DEF EmitterRows
<1>4. emissions' \in Seq(EmissionRows)
    <2>1. Len(emissions) \in Nat /\ DOMAIN emissions = 1..Len(emissions)
          /\ \A n \in 1..Len(emissions) : emissions[n] \in EmissionRows
        BY <1>1
    <2>2. emissions' \in [1..Len(emissions) -> EmissionRows]
        BY <1>2, <2>1 DEF EmissionRows
    <2>3. QED
        BY <2>1, <2>2
<1>5. ASSUME NEW n \in Identity!Standing' PROVE FirstMatch(emitters', emissions'[n].frame, emissions'[n].emitter)
    <2>1. n \in DOMAIN emissions /\ n \notin Identity!Of(i) /\ emissions'[n] = emissions[n]
          /\ emissions[n] # Identity!Gone /\ emissions[n].emitter # 0
        BY <1>2, <1>5 DEF Identity!Standing
    <2>2. emissions[n].emitter # i
        BY <2>1 DEF Identity!Of
    <2>3. FirstMatch(emitters, emissions[n].frame, emissions[n].emitter)
        BY <2>1 DEF IdentityInv, Identity!Standing
    <2>4. QED
        BY <1>3, <2>1, <2>2, <2>3 DEF FirstMatch
<1>6. QED
    BY <1>3, <1>4, <1>5 DEF IdentityInv

LEMMA IdentitySteps == IdentityInv /\ [DevicesNext]_<<deviceVars, vars>> => IdentityInv'
<1> SUFFICES ASSUME IdentityInv, [DevicesNext]_<<deviceVars, vars>> PROVE IdentityInv'
    OBVIOUS
<1>1. CASE UNCHANGED <<emitters, emissions>>
    BY <1>1 DEF IdentityInv, Identity!Standing, FirstMatch
<1>2. ASSUME NEW kind, NEW l, NEW age, Identity!Configure(kind, l, age) PROVE IdentityInv'
    BY <1>1, <1>2 DEF Identity!Configure
<1>3. QED
    BY <1>1, <1>2, CaptureSteps, AgeOutSteps DEF DevicesNext, deviceVars, identityVars, Identity!Next

LEMMA ClassesAreKnown == ASSUME NEW f \in DeviceFrames PROVE Identity!Class(f) \in ClassOrNone
<1> USE DEF ClassOrNone, Identity!Classes, Identity!None
<1>1. /\ f.kind \in {"wifi", "bluetooth", "tpms", "subghz"}
      /\ \A field \in {"bssid", "src_mac", "address"} :
            field \in DOMAIN f.payload => FirstOctet[f.payload[field]] \in 0..255
    BY FramesAreSound DEF Identity!IdentityAssumption, Identity!Kinds
<1>2. ASSUME NEW a, FirstOctet[a] \in 0..255 PROVE Identity!BleRandomSubtype(a) \in ClassOrNone
    <2>1. FirstOctet[a] \div 64 \in {0, 1, 2, 3}
        BY <1>2
    <2>2. QED
        BY <2>1 DEF Identity!BleRandomSubtype
<1>3. ASSUME NEW type, NEW a PROVE Identity!WifiPersistence(type, a) \in ClassOrNone
    BY DEF Identity!WifiPersistence
<1> SUFFICES ASSUME Identity!Classify(f) # Identity!Unknown PROVE Identity!Classify(f).class \in ClassOrNone
    BY DEF Identity!Class
<1>4. CASE f.kind = "wifi"
    <2>1. \E type, field : \E x, a : Identity!Classify(f) = Identity!Taken(type, field, f.payload, Identity!WifiPersistence(x, a))
        BY <1>4 DEF Identity!Classify, Identity!ClassifyWifi, Identity!ClassifyBeacon,
                    Identity!ClassifyProbeRequest, Identity!ClassifyAssociation
    <2>2. QED
        BY <1>3, <2>1 DEF Identity!Taken
<1>5. CASE f.kind = "bluetooth"
    <2> DEFINE class == Identity!BluetoothPersistence(f.payload)
    <2>1. Identity!Classify(f) = Identity!ClassifyBluetooth(f.payload)
        BY <1>5 DEF Identity!Classify
    <2>2. "address" \in DOMAIN f.payload
        BY <2>1 DEF Identity!ClassifyBluetooth
    <2>3. class \in ClassOrNone
        BY <1>1, <1>2, <2>2 DEF Identity!BluetoothPersistence
    <2> HIDE DEF class
    <2>4. Identity!Classify(f).class = class
        BY <2>1, <2>2 DEF Identity!ClassifyBluetooth, Identity!Taken, class
    <2>5. QED
        BY <2>3, <2>4
<1>6. CASE f.kind \in {"tpms", "subghz"}
    BY <1>6 DEF Identity!Classify, Identity!ClassifyTpms, Identity!ClassifySubghz, Identity!Taken
<1>7. QED
    BY <1>1, <1>4, <1>5, <1>6

LEMMA RulesIdentify ==
    ASSUME NEW c \in EmitterRows, c # Identity!Unknown
    PROVE  \A x \in c.rule : x[1] \in Identity!Identifying
<1>1. PICK f \in DeviceFrames : c = Identity!Classify(f)
    BY DEF EmitterRows
<1>2. PICK field : TakenBy(c, f, field)
    BY <1>1, Identified
<1>3. QED
    BY <1>2 DEF TakenBy

\* A client's frames have its address and nothing else a rule asks for.
LEMMA ClientsMatchAlike ==
    ASSUME NEW f \in DeviceFrames, NEW g \in DeviceFrames, NEW rule, \A x \in rule : x[1] \in Identity!Identifying,
           "src_mac" \in DOMAIN f.payload, "src_mac" \in DOMAIN g.payload,
           f.payload.src_mac = g.payload.src_mac, Identity!Matches(rule, f.payload)
    PROVE  Identity!Matches(rule, g.payload)
<1>1. PICK x \in rule : x[1] \in DOMAIN f.payload /\ f.payload[x[1]] = x[2]
    BY DEF Identity!Matches
<1>2. /\ f.kind \in {"wifi", "bluetooth", "tpms", "subghz"}
      /\ DOMAIN f.payload \cap Identity!Identifying \subseteq Identity!FieldsOf(f)
    BY FramesAreSound DEF Identity!IdentityAssumption, Identity!Kinds
<1>3. "src_mac" \in Identity!Identifying
    BY DEF Identity!Identifying
<1>4. "src_mac" \in Identity!FieldsOf(f) => Identity!FieldsOf(f) = {"src_mac"}
    BY <1>2 DEF Identity!FieldsOf
<1>5. x[1] = "src_mac"
    BY <1>1, <1>2, <1>3, <1>4
<1>6. QED
    BY <1>1, <1>5 DEF Identity!Matches

LEMMA FirstIsOne ==
    ASSUME IdentityInv, NEW f, NEW g, NEW i \in Nat, NEW j \in Nat,
           FirstMatch(emitters, f, i), FirstMatch(emitters, g, j),
           Identity!Matches(emitters[i].rule, g.payload), Identity!Matches(emitters[j].rule, f.payload)
    PROVE  i = j
<1>1. ~(i < j) /\ ~(j < i)
    BY DEF FirstMatch
<1>2. QED
    BY <1>1

\* Retention never drops a class of address that lasts longer than one it keeps, frames of the
\* same payload go to one emitter, and so do those of a wifi client, whatever it asks for
\* (fluxfang-core/src/classify.rs, retention.rs).
THEOREM DevicesStayTellable == DevicesSpec => []DevicesAreTellable
<1>1. RetentionInv => Identity!RetentionKeepsTheLasting
    <2> SUFFICES ASSUME RetentionInv, NEW a \in kept, NEW b \in kept,
                        a[1] = "dropped", b[1] = "stored", a[3] = b[3], Identity!Class(b[2]) # Identity!None
                 PROVE  /\ Identity!Class(a[2]) # Identity!None
                        /\ Identity!Rank(Identity!Class(a[2])) < Identity!Rank(Identity!Class(b[2]))
        BY DEF Identity!RetentionKeepsTheLasting
    <2>1. /\ ~Identity!ShouldStore(a[3], Identity!Class(a[2])) /\ Identity!ShouldStore(a[3], Identity!Class(b[2]))
          /\ a[3] \in ClassOrNone /\ a[2] \in DeviceFrames /\ b[2] \in DeviceFrames
        BY DEF RetentionInv
    <2>2. \A x \in Identity!Classes : Identity!Rank(x) \in Nat
        BY DEF Identity!Classes, Identity!Rank
    <2>3. /\ a[3] # Identity!None /\ Identity!Class(a[2]) # Identity!None
          /\ ~(Identity!Rank(Identity!Class(a[2])) >= Identity!Rank(a[3]))
          /\ Identity!Rank(Identity!Class(b[2])) >= Identity!Rank(a[3])
        BY <2>1 DEF Identity!ShouldStore
    <2>4. {a[3], Identity!Class(a[2]), Identity!Class(b[2])} \subseteq Identity!Classes
        BY <2>1, <2>3, ClassesAreKnown DEF ClassOrNone
    <2>5. QED
        BY <2>2, <2>3, <2>4
<1>2. ASSUME IdentityInv, NEW n \in Identity!Standing
      PROVE  /\ emissions[n].frame \in DeviceFrames /\ emissions[n].emitter \in Nat
             /\ FirstMatch(emitters, emissions[n].frame, emissions[n].emitter)
    <2>1. n \in DOMAIN emissions /\ emissions[n] # Identity!Gone
        BY DEF Identity!Standing
    <2>2. emissions[n] \in EmissionRows
        BY <1>2, <2>1 DEF IdentityInv
    <2>3. QED
        BY <1>2, <2>1, <2>2 DEF EmissionRows, IdentityInv
<1>3. IdentityInv => Identity!SameDeviceSameEmitter
    <2> SUFFICES ASSUME IdentityInv, NEW m \in Identity!Standing, NEW n \in Identity!Standing,
                        emissions[m].frame = emissions[n].frame
                 PROVE  emissions[m].emitter = emissions[n].emitter
        BY DEF Identity!SameDeviceSameEmitter
    <2>1. QED
        BY <1>2, FirstIsOne DEF FirstMatch
<1>4. IdentityInv => Identity!ClientsCollapse
    <2> SUFFICES ASSUME IdentityInv, NEW m \in Identity!Standing, NEW n \in Identity!Standing,
                        "src_mac" \in DOMAIN emissions[m].frame.payload,
                        "src_mac" \in DOMAIN emissions[n].frame.payload,
                        emissions[m].frame.payload.src_mac = emissions[n].frame.payload.src_mac
                 PROVE  emissions[m].emitter = emissions[n].emitter
        BY DEF Identity!ClientsCollapse
    <2> DEFINE f == emissions[m].frame
               g == emissions[n].frame
               i == emissions[m].emitter
               j == emissions[n].emitter
    <2>1. /\ f \in DeviceFrames /\ g \in DeviceFrames /\ i \in Nat /\ j \in Nat
          /\ FirstMatch(emitters, f, i) /\ FirstMatch(emitters, g, j)
        BY <1>2
    <2>2. \A k \in {i, j} : \A x \in emitters[k].rule : x[1] \in Identity!Identifying
        <3>1. \A k \in {i, j} : emitters[k] \in EmitterRows /\ emitters[k] # Identity!Unknown
            BY <2>1 DEF FirstMatch, IdentityInv
        <3>2. QED
            BY <3>1, RulesIdentify
    <2>3. Identity!Matches(emitters[i].rule, g.payload)
        BY <2>1, <2>2, ClientsMatchAlike DEF FirstMatch
    <2>4. Identity!Matches(emitters[j].rule, f.payload)
        BY <2>1, <2>2, ClientsMatchAlike DEF FirstMatch
    <2>5. QED
        BY <2>1, <2>3, <2>4, FirstIsOne
<1>5. IdentityInv /\ RetentionInv => DevicesAreTellable
    BY <1>1, <1>3, <1>4 DEF DevicesAreTellable
<1>6. QED
    BY <1>5, IdentityInitially, IdentitySteps, RetentionSteps, PTL DEF DevicesSpec
=============================================================================
