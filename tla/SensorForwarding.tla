-------------------------- MODULE SensorForwarding --------------------------
(***************************************************************************)
(* A Sensor node ships the rows of its local cache to its Standalone.      *)
(*                                                                         *)
(* Sensor side: capture into cached_emission, the forwarding loop of       *)
(* fluxfang-api/src/forwarder.rs (enroll, forward, heartbeat) and the TTL  *)
(* pruner.  Standalone side: the /sensor/enroll and /sensor/ingest         *)
(* handlers of fluxfang-api/src/sensor_listener.rs, one database statement *)
(* per step, with the insert and the finalize pipeline of ingest/mod.rs.   *)
(* In between: HTTP exchanges that may be lost, answered late, or dropped  *)
(* half-way through the handler.                                           *)
(*                                                                         *)
(* Rows are numbered by created_at, so "oldest first" is "least first".    *)
(* Everything the environment may inflict (a lost exchange, a crash, a     *)
(* failing statement) is counted in faults and capped by MaxFaults.        *)
(***************************************************************************)
EXTENDS Naturals, FiniteSets

CONSTANTS MaxRow,       \* bound: rows the Sensor captures
          BatchLimit,   \* FORWARD_BATCH_LIMIT
          MaxFaults,    \* bound: environment faults in one behaviour
          Poison,       \* rows the emission table's constraints refuse
          Conns,        \* HTTP exchanges that can be open at the same time
          NoConn,       \* "no exchange"
          Operators     \* approve requests open at the same time

Rows == 1..MaxRow

ASSUME ForwardingAssumption ==
    /\ MaxRow \in Nat
    /\ BatchLimit \in Nat \ {0}
    /\ MaxFaults \in Nat
    /\ Poison \subseteq Rows
    /\ NoConn \notin Conns

VARIABLES
    captured,   \* number of rows captured so far: 1..captured
    cached,     \* rows of cached_emission
    delivered,  \* those with delivered = true
    pc,         \* where the forwarding loop stands
    approved,   \* the loop's own approval flag
    conn,       \* the exchange the loop is waiting for
    due,        \* HEARTBEAT_INTERVAL has passed since last_contact
    last_error, \* ForwarderHealth.last_error is set
    call,       \* the HTTP exchanges, as the Standalone sees them
    status,     \* the sensor's row in the Standalone's keyring
    approving,  \* approvals that have found it pending and have still to set its status
    seen,       \* last_seen_at is within ONLINE_THRESHOLD_SECS
    stored,     \* remote rows now in the emission table
    kept,       \* history: rows that were inserted at some time
    refused,    \* history: rows acknowledged after a database error
    announced,  \* history: how often finalize_emission completed for a row
    erased,     \* history: rows the operator deleted from the emission table
    cut,        \* history: inserted rows whose finalize failed or was cut off
    faults      \* environment faults so far

sensorVars == <<captured, cached, delivered>>
loopVars == <<pc, approved, conn, due>>
healthVars == <<last_error>>
keyringVars == <<status, approving>>
tableVars == <<stored, kept, refused, announced, erased, cut>>
vars == <<sensorVars, loopVars, healthVars, call, keyringVars, seen, tableVars, faults>>

-----------------------------------------------------------------------------
(* Exchanges.  todo holds the rows of the batch the handler has not         *)
(* processed yet, acked its accepted vector, late that the sensor has been  *)
(* revoked ever since the request was sent.                                 *)

Stages == {"free", "sent", "authed", "serving", "finalizing", "reply"}
Kinds == {"enroll", "ingest"}
Codes == {"none", "approved", "pending", "forbidden", "error", "ok"}
Call == [stage : Stages, kind : Kinds, todo : SUBSET Rows, acked : SUBSET Rows,
         code : Codes, late : BOOLEAN]

FreeCall == [stage |-> "free", kind |-> "enroll", todo |-> {}, acked |-> {},
             code |-> "none", late |-> FALSE]

Statuses == {"unknown", "pending", "approved", "revoked"}
Waiting == {"enrolling", "forwarding", "heartbeat"}

Request(kind, rows) ==
    [FreeCall EXCEPT !.stage = "sent", !.kind = kind, !.todo = rows,
                     !.late = (status = "revoked")]

Answer(c, code) == [call[c] EXCEPT !.stage = "reply", !.code = code, !.todo = {}]

IsOldest(r, S) == r \in S /\ \A s \in S : r <= s

\* CachedEmissionRepo::list_undelivered: the oldest BatchLimit rows not delivered.
Undelivered == cached \ delivered
OldestBatch == {r \in Undelivered : Cardinality({s \in Undelivered : s < r}) < BatchLimit}

\* One more fault of the environment, while the budget lasts.
Fault == faults < MaxFaults /\ faults' = faults + 1

Settled == kept \cup refused

\* The rows that are inserted and now being finalized, by one handler and by any.
FinalizingIn(x) == {r \in x.todo : x.stage = "finalizing" /\ IsOldest(r, x.todo)}
Finalizing == UNION {FinalizingIn(call[c]) : c \in Conns}

-----------------------------------------------------------------------------
Init ==
    /\ captured = 0 /\ cached = {} /\ delivered = {}
    /\ pc = "cycle" /\ approved = FALSE /\ conn = NoConn /\ due = FALSE
    /\ last_error = FALSE
    /\ call = [c \in Conns |-> FreeCall]
    /\ status = "unknown" /\ approving = {} /\ seen = FALSE
    /\ stored = {} /\ kept = {} /\ refused = {} /\ erased = {} /\ cut = {}
    /\ announced = [r \in Rows |-> 0]
    /\ faults = 0

(* ------------------------------ Sensor: cache ---------------------------- *)

\* cache_observation: a capture that passed the retention gate is inserted.
Capture ==
    /\ captured < MaxRow
    /\ captured' = captured + 1
    /\ cached' = cached \cup {captured + 1}
    /\ UNCHANGED <<delivered, loopVars, healthVars, call, keyringVars, seen, tableVars, faults>>

\* The pruner deletes every row older than the TTL, delivered or not.
Prune ==
    /\ \E cutoff \in cached :
          /\ cached' = {r \in cached : r > cutoff}
          /\ delivered' = {r \in delivered : r > cutoff}
    /\ UNCHANGED <<captured, loopVars, healthVars, call, keyringVars, seen, tableVars, faults>>

(* --------------------------- Sensor: forward loop ------------------------ *)

\* Open an exchange on a free connection.
Send(kind, rows, waiting) ==
    /\ \E c \in Conns :
          /\ call[c].stage = "free"
          /\ conn' = c
          /\ call' = [call EXCEPT ![c] = Request(kind, rows)]
    /\ pc' = waiting
    /\ UNCHANGED <<sensorVars, approved, due, healthVars, keyringVars, seen, tableVars, faults>>

CycleEnroll ==
    /\ pc = "cycle" /\ ~approved
    /\ Send("enroll", {}, "enrolling")

CycleForward ==
    /\ pc = "cycle" /\ approved
    /\ Undelivered # {}
    /\ Send("ingest", OldestBatch, "forwarding")

\* Nothing to forward.
CycleIdle ==
    /\ pc = "cycle" /\ approved
    /\ Undelivered = {}
    /\ pc' = "beat"
    /\ UNCHANGED <<sensorVars, approved, conn, due, healthVars, call, keyringVars, seen,
                   tableVars, faults>>

\* load_target finds no usable config (or cannot read it), or finds another
\* target than the last cycle: the approval flag is dropped.
CycleRetarget ==
    /\ pc = "cycle" /\ approved
    /\ Fault
    /\ approved' = FALSE
    /\ UNCHANGED <<sensorVars, pc, conn, due, healthVars, call, keyringVars, seen, tableVars>>

\* End of a cycle: an approved sensor whose last contact is too long ago
\* re-enrolls as a heartbeat, any other goes to sleep.
Heartbeat ==
    /\ pc = "beat" /\ approved /\ due
    /\ Send("enroll", {}, "heartbeat")

\* Mutant: the loop may sleep over a heartbeat that is due.
SleepAnyway ==
    /\ pc = "beat"
    /\ pc' = "cycle"
    /\ UNCHANGED <<sensorVars, approved, conn, due, healthVars, call, keyringVars, seen,
                   tableVars, faults>>

Sleep ==
    /\ pc = "beat" /\ ~(approved /\ due)
    /\ pc' = "cycle"
    /\ UNCHANGED <<sensorVars, approved, conn, due, healthVars, call, keyringVars, seen,
                   tableVars, faults>>

\* Every way an exchange ends puts the loop past it.
Conclude ==
    /\ pc' = (IF pc = "heartbeat" THEN "cycle" ELSE "beat")
    /\ conn' = NoConn

Release(c) == call' = [call EXCEPT ![c] = FreeCall]

\* The enrollment answer: "approved", or anything else (which is Pending).
ReceiveEnroll ==
    /\ pc \in {"enrolling", "heartbeat"}
    /\ call[conn].stage = "reply"
    /\ LET ok == call[conn].code = "approved"
       IN  /\ approved' = (approved \/ ok)
           /\ due' = (due /\ ~ok)
           \* Approved clears last_error through record_contact in the loop's
           \* enroll arm only; Pending records an error in enroll itself.
           /\ last_error' = (~ok \/ (last_error /\ pc = "heartbeat"))
    /\ Release(conn) /\ Conclude
    /\ UNCHANGED <<sensorVars, keyringVars, seen, tableVars, faults>>

\* Mutants: an ACK marks rows pruned in the meantime; it marks everything that
\* is waiting, whatever it lists.
MarkPrunedToo(ids) == delivered' = delivered \cup ids
MarkOldestBatch(ids) == delivered' = delivered \cup OldestBatch

\* CachedEmissionRepo::mark_delivered: an UPDATE of the rows still in the table.
MarkDelivered(ids) == delivered' = delivered \cup (ids \cap cached)

\* The ACK of a batch: the accepted rows still cached are marked delivered.
ReceiveAck ==
    /\ pc = "forwarding"
    /\ call[conn].stage = "reply" /\ call[conn].code = "ok"
    /\ MarkDelivered(call[conn].acked)
    /\ due' = FALSE
    /\ last_error' = FALSE
    /\ Release(conn) /\ Conclude
    /\ UNCHANGED <<captured, cached, approved, keyringVars, seen, tableVars, faults>>

\* The batch was refused.  Only a 403 takes the approval away.
ReceiveRefusal ==
    /\ pc = "forwarding"
    /\ call[conn].stage = "reply" /\ call[conn].code # "ok"
    /\ approved' = (approved /\ call[conn].code # "forbidden")
    /\ last_error' = TRUE
    /\ Release(conn) /\ Conclude
    /\ UNCHANGED <<sensorVars, due, keyringVars, seen, tableVars, faults>>

\* mark_delivered itself fails: the ACK is forgotten.
MarkFails ==
    /\ pc = "forwarding"
    /\ call[conn].stage = "reply" /\ call[conn].code = "ok"
    /\ Fault
    /\ last_error' = TRUE
    /\ Release(conn) /\ Conclude
    /\ UNCHANGED <<sensorVars, approved, due, keyringVars, seen, tableVars>>

\* The connection broke under the waiting client.
Broken ==
    /\ pc \in Waiting
    /\ call[conn].stage = "free"
    /\ last_error' = TRUE
    /\ Conclude
    /\ UNCHANGED <<sensorVars, approved, due, call, keyringVars, seen, tableVars, faults>>

\* HTTP_TIMEOUT: the client gives up while the exchange is still under way.
Timeout ==
    /\ pc \in Waiting
    /\ call[conn].stage # "free"
    /\ Fault
    /\ last_error' = TRUE
    /\ Conclude
    /\ UNCHANGED <<sensorVars, approved, due, call, keyringVars, seen, tableVars>>

\* HEARTBEAT_INTERVAL has elapsed since the last contact.
HeartbeatDue ==
    /\ ~due
    /\ due' = TRUE
    /\ UNCHANGED <<sensorVars, pc, approved, conn, healthVars, call, keyringVars, seen,
                   tableVars, faults>>

\* The Sensor restarts: the loop's memory and its health report are lost, the
\* cache table is not.
SensorCrash ==
    /\ Fault
    /\ pc' = "cycle" /\ approved' = FALSE /\ conn' = NoConn /\ due' = FALSE
    /\ last_error' = FALSE
    /\ UNCHANGED <<sensorVars, call, keyringVars, seen, tableVars>>

(* ------------------------------- the wire -------------------------------- *)

\* An exchange breaks: the request is lost, the response is lost, or the
\* handler is cancelled at one of its awaits.  That is what becomes of every
\* exchange its client gave up; for the current one it is a fault.
Drop(c) ==
    /\ call[c].stage # "free"
    /\ IF c = conn THEN Fault ELSE UNCHANGED faults
    /\ Release(c)
    /\ cut' = cut \cup FinalizingIn(call[c])
    /\ UNCHANGED <<sensorVars, loopVars, healthVars, keyringVars, seen, stored, kept, refused,
                   announced, erased>>

(* ---------------------------- Standalone: enroll ------------------------- *)

\* Mutant: the UPDATE has no status guard.
TouchAnyway == seen' = TRUE

\* touch_seen_from: guarded by status = 'approved' in the UPDATE itself.
TouchSeen == seen' = (seen \/ status = "approved")

\* /sensor/enroll, in one step (SensorEnrollment has its statements).  An approved
\* sensor is answered whatever the window says; a new or pending one needs an open
\* window; a revoked one is refused.  The 409 of a sensor approved under another key,
\* or no longer pending when its row is written, is among the answers of Reject.
ServeEnroll(c) ==
    /\ call[c].stage = "sent" /\ call[c].kind = "enroll"
    /\ \/ /\ status = "approved"
          /\ TouchSeen
          /\ call' = [call EXCEPT ![c] = Answer(c, "approved")]
          /\ UNCHANGED keyringVars
       \/ /\ status \in {"unknown", "pending"}
          /\ status' = "pending"
          /\ seen' = TRUE
          /\ call' = [call EXCEPT ![c] = Answer(c, "pending")]
          /\ UNCHANGED approving
       \/ /\ status # "approved"
          /\ call' = [call EXCEPT ![c] = Answer(c, "forbidden")]
          /\ UNCHANGED <<keyringVars, seen>>
    /\ UNCHANGED <<sensorVars, loopVars, healthVars, tableVars, faults>>

(* ---------------------------- Standalone: ingest ------------------------- *)

\* Mutant: any known sensor's batch is opened.
LookupAnyKnown(c) ==
    /\ call[c].stage = "sent" /\ call[c].kind = "ingest"
    /\ call' = [call EXCEPT ![c] = IF status # "unknown"
                                   THEN [@ EXCEPT !.stage = "authed"]
                                   ELSE Answer(c, "forbidden")]
    /\ UNCHANGED <<sensorVars, loopVars, healthVars, keyringVars, seen, tableVars, faults>>

\* Steps 1-3: only an approved sensor's batch is opened.
Lookup(c) ==
    /\ call[c].stage = "sent" /\ call[c].kind = "ingest"
    /\ call' = [call EXCEPT ![c] = IF status = "approved"
                                   THEN [@ EXCEPT !.stage = "authed"]
                                   ELSE Answer(c, "forbidden")]
    /\ UNCHANGED <<sensorVars, loopVars, healthVars, keyringVars, seen, tableVars, faults>>

\* The same steps refusing for another reason: the batch is stale (clock skew
\* or a request delayed beyond the replay window), it does not open, or the
\* keyring cannot be read.  An enrollment fails likewise, or meets a conflict (409):
\* the keys of the two sides have come apart, or the row left pending meanwhile.
Reject(c) ==
    /\ call[c].stage = "sent"
    /\ Fault
    /\ call' = [call EXCEPT ![c] = Answer(c, "error")]
    /\ UNCHANGED <<sensorVars, loopVars, healthVars, keyringVars, seen, tableVars>>

\* Step 4: liveness is stamped before any of the work.
Touch(c) ==
    /\ call[c].stage = "authed"
    /\ TouchSeen
    /\ call' = [call EXCEPT ![c].stage = "serving"]
    /\ UNCHANGED <<sensorVars, loopVars, healthVars, keyringVars, tableVars, faults>>

\* Step 5, one row: it leaves todo, and joins the ACK or does not.
Done(c, r, ack) ==
    call' = [call EXCEPT ![c].stage = "serving",
                         ![c].todo = @ \ {r},
                         ![c].acked = IF ack THEN @ \cup {r} ELSE @]

\* insert_remote inserts the row; finalize_emission runs next, outside the
\* insert's transaction.
InsertRow(c) ==
    /\ call[c].stage = "serving"
    /\ \E r \in call[c].todo \ (stored \cup Poison) :
          /\ IsOldest(r, call[c].todo)
          /\ stored' = stored \cup {r}
          /\ kept' = kept \cup {r}
    /\ call' = [call EXCEPT ![c].stage = "finalizing"]
    /\ UNCHANGED <<sensorVars, loopVars, healthVars, keyringVars, seen, refused, announced,
                   erased, cut, faults>>

\* Mutant: the upsert returns the existing row, which is finalized again.
FinalizeDuplicate(c) ==
    /\ call[c].stage = "serving"
    /\ \E r \in call[c].todo \cap stored : IsOldest(r, call[c].todo)
    /\ call' = [call EXCEPT ![c].stage = "finalizing"]
    /\ UNCHANGED <<sensorVars, loopVars, healthVars, keyringVars, seen, tableVars, faults>>

\* insert_remote finds the id taken: the row counts as ingested.
SkipDuplicate(c) ==
    /\ call[c].stage = "serving"
    /\ \E r \in call[c].todo \cap stored : IsOldest(r, call[c].todo) /\ Done(c, r, TRUE)
    /\ UNCHANGED <<sensorVars, loopVars, healthVars, keyringVars, seen, tableVars, faults>>

\* insert_remote fails with sqlx::Error::Database: taken for permanent, and
\* acknowledged.  A constraint violation always ends here; so does any other error
\* the server reports for a sound row (disk full, deadlock victim, shutdown).
RefuseRow(c) ==
    /\ call[c].stage = "serving"
    /\ \E r \in call[c].todo \ stored :
          /\ IsOldest(r, call[c].todo)
          /\ IF r \in Poison THEN UNCHANGED faults ELSE Fault
          /\ refused' = refused \cup {r}
          /\ Done(c, r, TRUE)
    /\ UNCHANGED <<sensorVars, loopVars, healthVars, keyringVars, seen, stored, kept, announced,
                   erased, cut>>

\* Mutant: a transient failure is acknowledged.
AckFailedRow(c) ==
    /\ call[c].stage = "serving"
    /\ Fault
    /\ \E r \in call[c].todo : IsOldest(r, call[c].todo) /\ Done(c, r, TRUE)
    /\ UNCHANGED <<sensorVars, loopVars, healthVars, keyringVars, seen, tableVars>>

\* insert_remote fails in any other way: left out of the ACK, so it is retried.
RetryRow(c) ==
    /\ call[c].stage = "serving"
    /\ Fault
    /\ \E r \in call[c].todo : IsOldest(r, call[c].todo) /\ Done(c, r, FALSE)
    /\ UNCHANGED <<sensorVars, loopVars, healthVars, keyringVars, seen, tableVars>>

\* finalize_emission completes: the emission was matched, alerted and broadcast.
FinalizeRow(c) ==
    /\ call[c].stage = "finalizing"
    /\ \E r \in call[c].todo :
          /\ IsOldest(r, call[c].todo)
          /\ announced' = [announced EXCEPT ![r] = @ + 1]
          /\ Done(c, r, TRUE)
    /\ UNCHANGED <<sensorVars, loopVars, healthVars, keyringVars, seen, stored, kept, refused,
                   erased, cut, faults>>

\* finalize_emission fails (rule reload, set_emitter or touch_seen): acknowledged
\* when the database reported the error, retried otherwise; stored either way.
FinalizeFails(c) ==
    /\ call[c].stage = "finalizing"
    /\ Fault
    /\ \E r \in call[c].todo, ack \in BOOLEAN : IsOldest(r, call[c].todo) /\ Done(c, r, ack)
    /\ cut' = cut \cup FinalizingIn(call[c])
    /\ UNCHANGED <<sensorVars, loopVars, healthVars, keyringVars, seen, stored, kept, refused,
                   announced, erased>>

\* Mutant: the budget cuts a batch before its first row.
BudgetSpentAnyway(c) == call[c].stage = "serving"

\* INGEST_BUDGET is spent: the ACK is partial, but never empty.
BudgetSpent(c) == call[c].acked # {}

\* Mutant: the budget cuts short the row that is being finalized.
FinishInRow(c) ==
    /\ call[c].stage \in {"serving", "finalizing"}
    /\ call[c].todo = {} \/ BudgetSpent(c)
    /\ call' = [call EXCEPT ![c] = Answer(c, "ok")]
    /\ UNCHANGED <<sensorVars, loopVars, healthVars, keyringVars, seen, tableVars, faults>>

\* The handler answers with what it accepted.
Finish(c) ==
    /\ call[c].stage = "serving"
    /\ call[c].todo = {} \/ BudgetSpent(c)
    /\ call' = [call EXCEPT ![c] = Answer(c, "ok")]
    /\ UNCHANGED <<sensorVars, loopVars, healthVars, keyringVars, seen, tableVars, faults>>

(* ------------------------ Standalone: operator, time --------------------- *)

\* The operator approves a sensor: the check, on one read of its row.  (The key is
\* SensorEnrollment's; that the typed one fits is taken for granted here.)
StartApproval(o) ==
    /\ o \notin approving
    /\ status = "pending"
    /\ approving' = approving \cup {o}
    /\ UNCHANGED <<sensorVars, loopVars, healthVars, call, status, seen, tableVars, faults>>

\* set_status, whatever has become of the row.  No request that is under way has then
\* met a sensor that stayed revoked.
SetApproved(o) ==
    /\ o \in approving
    /\ status' = "approved"
    /\ approving' = approving \ {o}
    /\ call' = [c \in Conns |-> [call[c] EXCEPT !.late = FALSE]]
    /\ UNCHANGED <<sensorVars, loopVars, healthVars, seen, tableVars, faults>>

\* A statement of the approval fails, or its request is dropped.
AbandonApproval(o) ==
    /\ o \in approving
    /\ approving' = approving \ {o}
    /\ UNCHANGED <<sensorVars, loopVars, healthVars, call, status, seen, tableVars, faults>>

\* The operator revokes or rejects it, whatever its status.
Revoke ==
    /\ status \in {"pending", "approved"}
    /\ status' = "revoked"
    /\ UNCHANGED <<sensorVars, loopVars, healthVars, call, approving, seen, tableVars, faults>>

\* The operator (or a console AI) deletes a stored emission.  Each row is
\* deleted at most once: the bound of this action.
Erase ==
    /\ \E r \in stored \ erased : stored' = stored \ {r} /\ erased' = erased \cup {r}
    /\ UNCHANGED <<sensorVars, loopVars, healthVars, call, keyringVars, seen, kept, refused,
                   announced, cut, faults>>

\* ONLINE_THRESHOLD_SECS pass without a contact.
SeenExpires ==
    /\ seen
    /\ seen' = FALSE
    /\ UNCHANGED <<sensorVars, loopVars, healthVars, call, keyringVars, tableVars, faults>>

\* The Standalone restarts: every exchange breaks, and so does an approval; the
\* tables survive.
StandaloneCrash ==
    /\ Fault
    /\ call' = [c \in Conns |-> FreeCall]
    /\ approving' = {}
    /\ cut' = cut \cup Finalizing
    /\ UNCHANGED <<sensorVars, loopVars, healthVars, status, seen, stored, kept, refused,
                   announced, erased>>

-----------------------------------------------------------------------------
ForwarderStep ==
    \/ CycleEnroll \/ CycleForward \/ CycleIdle \/ Heartbeat \/ Sleep
    \/ ReceiveEnroll \/ ReceiveAck \/ ReceiveRefusal \/ Broken

HandlerStep(c) ==
    \/ ServeEnroll(c) \/ Lookup(c) \/ Touch(c)
    \/ InsertRow(c) \/ SkipDuplicate(c) \/ RefuseRow(c) \/ FinalizeRow(c) \/ Finish(c)

FaultStep ==
    \/ CycleRetarget \/ MarkFails \/ Timeout \/ SensorCrash \/ StandaloneCrash
    \/ \E c \in Conns : Reject(c) \/ RetryRow(c) \/ FinalizeFails(c)

OperatorStep ==
    \/ \E o \in Operators : StartApproval(o) \/ SetApproved(o) \/ AbandonApproval(o)
    \/ Revoke \/ Erase

TimeStep == HeartbeatDue \/ SeenExpires \/ Prune

Next ==
    \/ Capture
    \/ ForwarderStep
    \/ \E c \in Conns : HandlerStep(c) \/ Drop(c)
    \/ FaultStep
    \/ OperatorStep
    \/ TimeStep

Spec == Init /\ [][Next]_vars

\* The loop never dies, a handler whose statements succeed runs to its answer,
\* an exchange its client gave up is noticed in the end, and time passes.
Fairness ==
    /\ WF_vars(ForwarderStep)
    /\ \A c \in Conns : WF_vars(HandlerStep(c)) /\ WF_vars(c # conn /\ Drop(c))
    /\ WF_vars(HeartbeatDue)

FairSpec == Spec /\ Fairness

-----------------------------------------------------------------------------
CacheOK ==
    /\ captured \in 0..MaxRow
    /\ cached \subseteq 1..captured
    /\ delivered \subseteq cached

LoopOK ==
    /\ pc \in {"cycle", "beat"} \cup Waiting
    /\ conn \in Conns \cup {NoConn}
    /\ (conn \in Conns) <=> (pc \in Waiting)
    /\ approved \in BOOLEAN /\ due \in BOOLEAN
    /\ last_error \in BOOLEAN

TablesOK ==
    /\ status \in Statuses /\ approving \subseteq Operators /\ seen \in BOOLEAN
    /\ stored \subseteq kept /\ kept \subseteq Rows
    /\ refused \subseteq Rows /\ erased \subseteq Rows /\ cut \subseteq Rows
    /\ announced \in [Rows -> Nat]

\* Every variable has its type; the loop waits for exactly one exchange or none;
\* only a row still cached is marked delivered.
TypeOK ==
    /\ CacheOK /\ LoopOK /\ TablesOK
    /\ call \in [Conns -> Call]
    /\ faults \in 0..MaxFaults

\* No row is marked delivered on the Sensor, and none stands in an ACK, that
\* the Standalone has neither stored nor refused: a lost, late or repeated
\* exchange, a partial ACK or a crash on either side loses no row silently.
AckedIsSettled ==
    /\ delivered \subseteq Settled
    /\ \A c \in Conns : call[c].acked \subseteq Settled

\* What sensor_listener.rs:137-142 says of an error taken for permanent: it "can never
\* succeed on retry", for it is "a constraint/data problem".  So every row marked
\* delivered that the constraints do not forbid would have been stored.
SoundRowsAreStored == delivered \ Poison \subseteq kept

\* A stored row is announced, or some handler is about to announce it, unless a fault
\* came between its insert and the end of its finalize: a retry that finds the row
\* taken, a partial ACK or a second handler at the same batch passes over none.
StoredIsAnnounced ==
    \A r \in kept : announced[r] > 0 \/ r \in Finalizing \/ r \in cut

\* Retries never create a duplicate: finalize (alerts, zones, broadcast) runs at
\* most once for a row, once more if the operator deleted it in between, however
\* many handlers work on the same batch.
AnnouncedOnce ==
    \A r \in Rows : announced[r] <= (IF r \in erased THEN 2 ELSE 1)

\* A request sent to a revoked sensor never gets as far as storing, unless an approval
\* that had found the sensor pending has approved it again since: but for that, only
\* batches already past the keyring lookup may still be stored.
RevokedNeverAdmitted ==
    \A c \in Conns : call[c].late => call[c].stage \notin {"authed", "serving", "finalizing"}

\* A revoked sensor's online mark is never raised again, even by a handler that
\* read the row as approved (repo/sensor.rs, touch_seen_from).
RevokedStaysDark == [][(status = "revoked" /\ seen') => seen]_vars

\* As long as the sensor stays approved and faults end, every cached row is
\* delivered or expires: partial ACKs always make progress.
BacklogDrains ==
    <>[](status = "approved") =>
        \A r \in Rows : (r \in cached) ~> (r \in delivered \/ r \notin cached)

\* As long as the sensor stays approved it keeps being seen, busy or idle: the
\* heartbeat is evaluated in every cycle.
StaysOnline == <>[](status = "approved") => []<>seen

\* The forward path implements ReliableDelivery: owed are the cached rows not
\* delivered, settled the rows the Standalone stored or refused.
Delivery == INSTANCE ReliableDelivery WITH
    produced <- 1..captured, owed <- Undelivered, acked <- delivered, settled <- Settled
ImplementsDelivery == Delivery!Spec
=============================================================================
