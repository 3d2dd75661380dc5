-------------------------- MODULE SensorEnrollment --------------------------
(***************************************************************************)
(* The Standalone's keyring of one sensor listener: self-enrollment by     *)
(* Sensor nodes (fluxfang-api/src/sensor_listener.rs, enroll) against the  *)
(* operator's approve, reject, revoke and rotate                           *)
(* (fluxfang-api/src/sensors.rs), one database statement per step          *)
(* (fluxfang-db/src/repo/sensor.rs), and the in-memory enrollment window.  *)
(*                                                                         *)
(* A fingerprint is a one-way hash of (sensor_id, key), taken to be free   *)
(* of collisions: for a given sensor id it is represented by the key.      *)
(***************************************************************************)
EXTENDS Naturals

CONSTANTS Ids,        \* sensor ids
          Nodes,      \* Sensor nodes
          Claims,     \* the sensor id each node is configured with
          Keys,       \* symmetric keys
          NoKey,      \* the empty string: no key yet
          Slots,      \* enrollments of one node the listener can be serving at once
          Operators,  \* approve requests open at the same time
          NoId,       \* no sensor id
          MaxRekeys   \* bound: how often a node's key is changed in its settings

ASSUME EnrollmentAssumption ==
    /\ Claims \in [Nodes -> Ids]
    /\ NoKey \notin Keys
    /\ NoId \notin Ids
    /\ MaxRekeys \in Nat

VARIABLES
    rows,     \* the sensor table
    window,   \* the enrollment window is open
    node_key, \* the key each node is configured with
    enrolls,  \* enroll handlers under way
    approvals,\* approve handlers under way
    claimed,  \* history: fingerprints each id was registered or rotated to
    opened,   \* history: the window was opened since the Standalone started
    rekeys    \* changes of a node's key so far

vars == <<rows, window, node_key, enrolls, approvals, claimed, opened, rekeys>>

Dead == {"revoked", "rejected"}
Statuses == {"none", "pending", "approved"} \cup Dead
Row == [status : Statuses, fingerprint : Keys \cup {NoKey}, key : Keys \cup {NoKey}]
NoRow == [status |-> "none", fingerprint |-> NoKey, key |-> NoKey]

\* An enroll handler: the status it has read, and what it does next.
Enroll == [stage : {"idle", "read", "gate", "write"}, fingerprint : Keys \cup {NoKey},
           found : {"none", "pending", "dead"}]
IdleEnroll == [stage |-> "idle", fingerprint |-> NoKey, found |-> "none"]

\* An approve handler past its checks.
Approval == [stage : {"idle", "set_key", "set_status", "list", "close"},
             id : Ids \cup {NoId}, key : Keys \cup {NoKey}]
IdleApproval == [stage |-> "idle", id |-> NoId, key |-> NoKey]
Ended(o) == approvals' = [approvals EXCEPT ![o] = IdleApproval]

Init ==
    /\ rows = [id \in Ids |-> NoRow]
    /\ window = FALSE
    /\ node_key \in [Nodes -> Keys]
    /\ enrolls = [n \in Nodes |-> [s \in Slots |-> IdleEnroll]]
    /\ approvals = [o \in Operators |-> IdleApproval]
    /\ claimed = [id \in Ids |-> {}]
    /\ opened = FALSE
    /\ rekeys = 0

-----------------------------------------------------------------------------
(* The Sensor: it keeps enrolling, and a retry may overtake a request that   *)
(* timed out.                                                                *)

Send(n, s) ==
    /\ enrolls[n][s].stage = "idle"
    /\ enrolls' = [enrolls EXCEPT ![n][s] = [IdleEnroll EXCEPT !.stage = "read",
                                                 !.fingerprint = node_key[n]]]
    /\ UNCHANGED <<rows, window, node_key, approvals, claimed, opened, rekeys>>

\* The node's own operator gives it another key.
Rekey(n) ==
    /\ rekeys < MaxRekeys
    /\ \E k \in Keys \ {node_key[n]} : node_key' = [node_key EXCEPT ![n] = k]
    /\ rekeys' = rekeys + 1
    /\ UNCHANGED <<rows, window, enrolls, approvals, claimed, opened>>

-----------------------------------------------------------------------------
(* /sensor/enroll. *)

\* The handler answers, or is cancelled: nothing else of it remains.
Answered(n, s) == enrolls' = [enrolls EXCEPT ![n][s] = IdleEnroll]

\* Lookup.  An approved sensor is answered here, by the fingerprint on file.
ReadRow(n, s) ==
    /\ enrolls[n][s].stage = "read"
    /\ LET status == rows[Claims[n]].status
       IN  IF status = "approved"
           THEN Answered(n, s)
           ELSE enrolls' = [enrolls EXCEPT ![n][s].stage = "gate",
                                ![n][s].found = IF status \in Dead THEN "dead" ELSE status]
    /\ UNCHANGED <<rows, window, node_key, approvals, claimed, opened, rekeys>>

\* Mutant: the window is not consulted for an id that is known already.
GateForNewOnly(n, s) ==
    /\ enrolls[n][s].stage = "gate"
    /\ IF (window \/ enrolls[n][s].found = "pending") /\ enrolls[n][s].found # "dead"
       THEN enrolls' = [enrolls EXCEPT ![n][s].stage = "write"]
       ELSE Answered(n, s)
    /\ UNCHANGED <<rows, window, node_key, approvals, claimed, opened, rekeys>>

\* Mutant: an id that is on file already is not let through again.
GateForUnknownOnly(n, s) ==
    /\ enrolls[n][s].stage = "gate"
    /\ IF window /\ enrolls[n][s].found = "none"
       THEN enrolls' = [enrolls EXCEPT ![n][s].stage = "write"]
       ELSE Answered(n, s)
    /\ UNCHANGED <<rows, window, node_key, approvals, claimed, opened, rekeys>>

\* The window gates everything else, and a revoked or rejected row is refused.
Gate(n, s) ==
    /\ enrolls[n][s].stage = "gate"
    /\ IF window /\ enrolls[n][s].found # "dead"
       THEN enrolls' = [enrolls EXCEPT ![n][s].stage = "write"]
       ELSE Answered(n, s)
    /\ UNCHANGED <<rows, window, node_key, approvals, claimed, opened, rekeys>>

Register(n, s, row) ==
    /\ rows' = [rows EXCEPT ![Claims[n]] = row]
    /\ claimed' = [claimed EXCEPT ![Claims[n]] = @ \cup {enrolls[n][s].fingerprint}]

\* Mutant: registering is an upsert, whatever is on file.
UpsertPending(n, s) ==
    /\ enrolls[n][s].stage = "write" /\ enrolls[n][s].found = "none"
    /\ Register(n, s, [status |-> "pending", fingerprint |-> enrolls[n][s].fingerprint,
                       key |-> NoKey])
    /\ Answered(n, s)
    /\ UNCHANGED <<window, node_key, approvals, opened, rekeys>>

\* insert_pending: the unique index refuses a second row for the id.
InsertPending(n, s) ==
    /\ enrolls[n][s].stage = "write" /\ enrolls[n][s].found = "none"
    /\ IF rows[Claims[n]].status = "none"
       THEN Register(n, s, [status |-> "pending", fingerprint |-> enrolls[n][s].fingerprint,
                            key |-> NoKey])
       ELSE UNCHANGED <<rows, claimed>>
    /\ Answered(n, s)
    /\ UNCHANGED <<window, node_key, approvals, opened, rekeys>>

\* Mutant: the UPDATE does not look at the status.
UpdateAnyFingerprint(n, s) ==
    /\ enrolls[n][s].stage = "write" /\ enrolls[n][s].found = "pending"
    /\ Register(n, s, [rows[Claims[n]] EXCEPT !.fingerprint = enrolls[n][s].fingerprint])
    /\ Answered(n, s)
    /\ UNCHANGED <<window, node_key, approvals, opened, rekeys>>

\* update_pending_fingerprint: guarded by status = 'pending' in the UPDATE.
UpdatePendingFingerprint(n, s) ==
    /\ enrolls[n][s].stage = "write" /\ enrolls[n][s].found = "pending"
    /\ IF rows[Claims[n]].status = "pending"
       THEN Register(n, s, [rows[Claims[n]] EXCEPT !.fingerprint = enrolls[n][s].fingerprint])
       ELSE UNCHANGED <<rows, claimed>>
    /\ Answered(n, s)
    /\ UNCHANGED <<window, node_key, approvals, opened, rekeys>>

\* The request was lost, or its handler cancelled or failed at an await.
CancelEnroll(n, s) ==
    /\ enrolls[n][s].stage # "idle"
    /\ Answered(n, s)
    /\ UNCHANGED <<rows, window, node_key, approvals, claimed, opened, rekeys>>

-----------------------------------------------------------------------------
(* POST /api/sensors/:id/approve. *)

\* Mutant: the typed key is not compared with the fingerprint on file.
StartAnyApproval(o) ==
    /\ approvals[o].stage = "idle"
    /\ \E id \in Ids, k \in Keys :
          /\ rows[id].status = "pending"
          /\ approvals' = [approvals EXCEPT ![o] = [stage |-> "set_key", id |-> id, key |-> k]]
    /\ UNCHANGED <<rows, window, node_key, enrolls, claimed, opened, rekeys>>

\* The checks, on one read of the row: it is pending, and the key the operator
\* typed reproduces its fingerprint.
StartApproval(o) ==
    /\ approvals[o].stage = "idle"
    /\ \E id \in Ids :
          /\ rows[id].status = "pending"
          /\ approvals' = [approvals EXCEPT ![o] = [stage |-> "set_key", id |-> id,
                                                    key |-> rows[id].fingerprint]]
    /\ UNCHANGED <<rows, window, node_key, enrolls, claimed, opened, rekeys>>

Advance(o, stage) == approvals' = [approvals EXCEPT ![o].stage = stage]

\* set_key (and set_auto_group), whatever has become of the row.
SetKey(o) ==
    /\ approvals[o].stage = "set_key"
    /\ rows' = [rows EXCEPT ![approvals[o].id].key = approvals[o].key,
                            ![approvals[o].id].fingerprint = approvals[o].key]
    /\ Advance(o, "set_status")
    /\ UNCHANGED <<window, node_key, enrolls, claimed, opened, rekeys>>

\* set_status 'approved', whatever has become of the row.
SetApproved(o) ==
    /\ approvals[o].stage = "set_status"
    /\ rows' = [rows EXCEPT ![approvals[o].id].status = "approved"]
    /\ Advance(o, "list")
    /\ UNCHANGED <<window, node_key, enrolls, claimed, opened, rekeys>>

\* Is another sensor of this listener still pending?  A query that fails counts
\* as no (unwrap_or(false)).
ListOthers(o) ==
    /\ approvals[o].stage = "list"
    /\ \E answered \in BOOLEAN :
          IF answered /\ \E other \in Ids \ {approvals[o].id} : rows[other].status = "pending"
          THEN Ended(o)
          ELSE Advance(o, "close")
    /\ UNCHANGED <<rows, window, node_key, enrolls, claimed, opened, rekeys>>

\* close_enrollment_window.
CloseWindow(o) ==
    /\ approvals[o].stage = "close"
    /\ window' = FALSE
    /\ Ended(o)
    /\ UNCHANGED <<rows, node_key, enrolls, claimed, opened, rekeys>>

\* The operator's browser disconnects, or a statement fails: the rest of the
\* approval does not happen.
AbandonApproval(o) ==
    /\ approvals[o].stage # "idle"
    /\ Ended(o)
    /\ UNCHANGED <<rows, window, node_key, enrolls, claimed, opened, rekeys>>

-----------------------------------------------------------------------------
(* The other endpoints, the window, the process. *)

\* reject and revoke: from any status.
Dismiss(id, status) ==
    /\ rows[id].status # "none"
    /\ rows' = [rows EXCEPT ![id].status = status]
    /\ UNCHANGED <<window, node_key, enrolls, approvals, claimed, opened, rekeys>>

\* rotate: a freshly generated key and its fingerprint, in any status.
Rotate(id) ==
    /\ rows[id].status # "none"
    /\ \E k \in Keys \ UNION {claimed[i] : i \in Ids} :
          /\ k \notin {node_key[n] : n \in Nodes}
          /\ rows' = [rows EXCEPT ![id].key = k, ![id].fingerprint = k]
          /\ claimed' = [claimed EXCEPT ![id] = @ \cup {k}]
    /\ UNCHANGED <<window, node_key, enrolls, approvals, opened, rekeys>>

OpenWindow ==
    /\ window' = TRUE
    /\ opened' = TRUE
    /\ UNCHANGED <<rows, node_key, enrolls, approvals, claimed, rekeys>>

\* DEFAULT_ENROLLMENT_WINDOW_SECS have passed.
WindowExpires ==
    /\ window
    /\ window' = FALSE
    /\ UNCHANGED <<rows, node_key, enrolls, approvals, claimed, opened, rekeys>>

\* The Standalone restarts: the window is in memory, and so is every handler.
Restart ==
    /\ window' = FALSE
    /\ opened' = FALSE
    /\ enrolls' = [n \in Nodes |-> [s \in Slots |-> IdleEnroll]]
    /\ approvals' = [o \in Operators |-> IdleApproval]
    /\ UNCHANGED <<rows, node_key, claimed, rekeys>>

-----------------------------------------------------------------------------
EnrollStep(n, s) ==
    \/ ReadRow(n, s) \/ Gate(n, s)
    \/ InsertPending(n, s) \/ UpdatePendingFingerprint(n, s)

ApproveStep(o) == SetKey(o) \/ SetApproved(o) \/ ListOthers(o) \/ CloseWindow(o)

Next ==
    \/ \E n \in Nodes : Rekey(n) \/ \E s \in Slots : Send(n, s) \/ EnrollStep(n, s)
                                                       \/ CancelEnroll(n, s)
    \/ \E o \in Operators : StartApproval(o) \/ ApproveStep(o) \/ AbandonApproval(o)
    \/ \E id \in Ids : Rotate(id) \/ \E status \in Dead : Dismiss(id, status)
    \/ OpenWindow \/ WindowExpires \/ Restart

Spec == Init /\ [][Next]_vars

\* A node never stops trying, and not every one of its attempts is cut short at
\* the same step: some request gets past each of them again and again.
Fairness ==
    \A n \in Nodes :
        /\ WF_vars(\E s \in Slots : Send(n, s))
        /\ SF_vars(\E s \in Slots : ReadRow(n, s))
        /\ SF_vars(\E s \in Slots : Gate(n, s))
        /\ SF_vars(\E s \in Slots : UpdatePendingFingerprint(n, s))

FairSpec == Spec /\ Fairness

-----------------------------------------------------------------------------
RowOK(row) ==
    /\ row.status = "none" => row = NoRow
    /\ row.status # "none" => row.fingerprint \in Keys
    /\ row.status = "approved" => row.key \in Keys

\* Every variable has its type; a row on file has a fingerprint, and an approved
\* one a key: ingest never meets an approved sensor it cannot decode a key for.
TypeOK ==
    /\ rows \in [Ids -> Row] /\ \A id \in Ids : RowOK(rows[id])
    /\ window \in BOOLEAN
    /\ node_key \in [Nodes -> Keys]
    /\ enrolls \in [Nodes -> [Slots -> Enroll]]
    /\ approvals \in [Operators -> Approval]
    /\ claimed \in [Ids -> SUBSET Keys]
    /\ opened \in BOOLEAN
    /\ rekeys \in 0..MaxRekeys

\* No key is on file that was neither claimed by a node for this very id nor
\* generated here for it, however approvals, retries and rotations interleave.
StoredKeyWasClaimed == \A id \in Ids : rows[id].key \in claimed[id] \cup {NoKey}

\* While a sensor is approved, no enrollment changes what it is known by: its
\* fingerprint changes only together with its key (repo/sensor.rs, the guard of
\* update_pending_fingerprint).
ApprovedPairFixed ==
    [][\A id \in Ids :
         rows[id].status = "approved" /\ rows'[id].fingerprint # rows[id].fingerprint
             => rows'[id].key = rows'[id].fingerprint]_vars

Approving(id) ==
    \E o \in Operators : approvals[o].id = id /\ approvals[o].stage \in {"set_key", "set_status"}

\* A revoked or rejected sensor stays so, unless an approval was already past its
\* check: no enrollment and no later approval brings it back.
DeadStaysDead ==
    [][\A id \in Ids :
         rows[id].status \in Dead /\ ~Approving(id) => rows'[id].status \in Dead]_vars

\* Until the operator opens the window after a start of the Standalone, no node gets
\* in and none changes what it is waiting with, rows kept from before included: a
\* fingerprint that changes then is one the Standalone itself writes with its key.
ShutSinceStart ==
    [][~opened =>
         \A id \in Ids :
            rows'[id].fingerprint # rows[id].fingerprint =>
                /\ rows[id].status # "none"
                /\ rows'[id].fingerprint = rows'[id].key]_vars

Alone(n) == \A m \in Nodes \ {n} : Claims[m] # Claims[n]

\* As long as the window stays open, the sensor pending and no approval writes to
\* its row, the Standalone ends up with the fingerprint of the key the node has
\* now: a retry overtaken by an older request, or undone by an approval that was
\* abandoned, is repaired by the next one.
PendingFollowsNode ==
    \A n \in Nodes :
        LET id == Claims[n]
        IN  Alone(n) /\ <>[](window /\ rows[id].status = "pending" /\ ~Approving(id)) =>
                <>[](rows[id].fingerprint = node_key[n])
=============================================================================
