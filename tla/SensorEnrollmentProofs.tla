------------------------ MODULE SensorEnrollmentProofs ------------------------
(***************************************************************************)
(* Theorems about SensorEnrollment, for every set of nodes, sensor ids,    *)
(* keys and operators.                                                     *)
(***************************************************************************)
EXTENDS SensorEnrollment, TLAPS

\* Strengthening: a row's fingerprint, too, was claimed for its id.
RowsOK ==
    /\ rows \in [Ids -> Row] /\ claimed \in [Ids -> SUBSET Keys]
    /\ \A id \in Ids : /\ RowOK(rows[id])
                       /\ rows[id].key \in claimed[id] \cup {NoKey}
                       /\ rows[id].status # "none" => rows[id].fingerprint \in claimed[id]

\* Strengthening: a handler about to write was let in since the last start.
EnrollOK(e, open) ==
    /\ e \in Enroll
    /\ e.stage # "idle" => e.fingerprint \in Keys
    /\ e.stage = "write" => open
EnrollsOK ==
    /\ enrolls \in [Nodes -> [Slots -> Enroll]]
    /\ \A n \in Nodes, s \in Slots : EnrollOK(enrolls[n][s], opened)

\* Strengthening: an approval under way is of a row on file, with a key claimed for
\* it; before it sets the status it has stored a key.
ApprovalOK(a, table, claims) ==
    /\ a \in Approval
    /\ a.stage # "idle" => a.id \in Ids /\ table[a.id].status # "none"
    /\ a.stage \in {"set_key", "set_status"} => a.key \in claims[a.id]
    /\ a.stage = "set_status" => table[a.id].key \in Keys
ApprovalsOK ==
    /\ approvals \in [Operators -> Approval]
    /\ \A o \in Operators : ApprovalOK(approvals[o], rows, claimed)

WindowOK ==
    /\ window \in BOOLEAN /\ opened \in BOOLEAN
    /\ window => opened

NodesOK == node_key \in [Nodes -> Keys] /\ rekeys \in 0..MaxRekeys

\* The inductive invariant.
KeyringInv == RowsOK /\ EnrollsOK /\ ApprovalsOK /\ WindowOK /\ NodesOK

-----------------------------------------------------------------------------
(* One lemma per table. *)

\* Writing a row on file whose key and fingerprint were, or now are, claimed.
LEMMA RowWrite ==
    ASSUME RowsOK, NEW id \in Ids, NEW row \in Row, NEW K \in SUBSET Keys,
           RowOK(row), row.key \in claimed[id] \cup K \cup {NoKey},
           row.fingerprint \in claimed[id] \cup K,
           rows' = [rows EXCEPT ![id] = row],
           claimed' = [claimed EXCEPT ![id] = @ \cup K]
    PROVE  RowsOK'
    BY DEF RowsOK, RowOK

\* Writing a row on file with what was claimed before.
LEMMA RowChange ==
    ASSUME RowsOK, NEW id \in Ids, NEW row \in Row,
           RowOK(row), row.key \in claimed[id] \cup {NoKey}, row.fingerprint \in claimed[id],
           rows' = [rows EXCEPT ![id] = row], claimed' = claimed
    PROVE  RowsOK'
    BY DEF RowsOK, RowOK

\* Steps that leave the tables alone.
LEMMA RowsStutter ==
    ASSUME RowsOK, UNCHANGED <<rows, claimed>> PROVE RowsOK'
    BY DEF RowsOK, RowOK

\* One handler moves on.
LEMMA EnrollMove ==
    ASSUME EnrollsOK, NEW n \in Nodes, NEW s \in Slots, NEW e, EnrollOK(e, opened),
           enrolls' = [enrolls EXCEPT ![n][s] = e], opened' = opened
    PROVE  EnrollsOK'
    BY DEF EnrollsOK, EnrollOK

LEMMA EnrollsStutter ==
    ASSUME EnrollsOK, enrolls' = enrolls, opened => opened' PROVE EnrollsOK'
    BY DEF EnrollsOK, EnrollOK

\* An idle handler is fine at any time.
LEMMA IdleHandlers ==
    /\ \A open : EnrollOK(IdleEnroll, open)
    /\ IdleApproval \in Approval
    /\ \A table, claims : ApprovalOK(IdleApproval, table, claims)
    BY DEF EnrollOK, IdleEnroll, Enroll, IdleApproval, Approval, ApprovalOK

\* What other actors may do to the tables under an approval's feet.
LEMMA ApprovalStands ==
    ASSUME RowsOK, NEW a, ApprovalOK(a, rows, claimed),
           \A id \in Ids : /\ claimed[id] \subseteq claimed'[id]
                           /\ rows[id].status # "none" => rows'[id].status # "none"
                           /\ rows[id].status # "none" /\ rows[id].key \in Keys
                                 => rows'[id].key \in Keys
    PROVE  ApprovalOK(a, rows', claimed')
    BY DEF ApprovalOK, Approval

\* One approval moves on while the tables only grow.
LEMMA ApprovalMove ==
    ASSUME RowsOK, ApprovalsOK, NEW o \in Operators, NEW a,
           a \in Approval, ApprovalOK(a, rows', claimed'),
           approvals' = [approvals EXCEPT ![o] = a],
           \A id \in Ids : /\ claimed[id] \subseteq claimed'[id]
                           /\ rows[id].status # "none" => rows'[id].status # "none"
                           /\ rows[id].status # "none" /\ rows[id].key \in Keys
                                 => rows'[id].key \in Keys
    PROVE  ApprovalsOK'
    <1>1. approvals' \in [Operators -> Approval]
        BY DEF ApprovalsOK
    <1>2. ASSUME NEW p \in Operators PROVE ApprovalOK(approvals'[p], rows', claimed')
        <2>1. CASE p = o
            BY <2>1 DEF ApprovalsOK
        <2>2. CASE p # o
            <3>1. approvals'[p] = approvals[p] /\ ApprovalOK(approvals[p], rows, claimed)
                BY <2>2 DEF ApprovalsOK
            <3>2. QED
                BY <3>1, ApprovalStands DEF ApprovalOK
        <2>3. QED
            BY <2>1, <2>2
    <1>3. QED
        BY <1>1, <1>2 DEF ApprovalsOK

\* No approval moves and the tables only grow.
LEMMA ApprovalsStutter ==
    ASSUME RowsOK, ApprovalsOK, approvals' = approvals,
           \A id \in Ids : /\ claimed[id] \subseteq claimed'[id]
                           /\ rows[id].status # "none" => rows'[id].status # "none"
                           /\ rows[id].status # "none" /\ rows[id].key \in Keys
                                 => rows'[id].key \in Keys
    PROVE  ApprovalsOK'
    <1>1. \A o \in Operators : ApprovalOK(approvals[o], rows', claimed')
        BY ApprovalStands DEF ApprovalsOK, ApprovalOK
    <1>2. QED
        BY <1>1 DEF ApprovalsOK
-----------------------------------------------------------------------------
(* The invariant is inductive: one lemma per actor. *)

LEMMA InitKeyring == Init => KeyringInv
    <1> SUFFICES ASSUME Init PROVE KeyringInv
        OBVIOUS
    <1>1. RowsOK
        BY EnrollmentAssumption DEF Init, RowsOK, RowOK, NoRow, Row, Statuses, Dead
    <1>2. EnrollsOK
        BY IdleHandlers DEF Init, EnrollsOK, EnrollOK
    <1>3. ApprovalsOK
        BY IdleHandlers DEF Init, ApprovalsOK
    <1>4. WindowOK
        BY DEF Init, WindowOK
    <1>5. NodesOK
        BY EnrollmentAssumption DEF Init, NodesOK
    <1>6. QED
        BY <1>1, <1>2, <1>3, <1>4, <1>5 DEF KeyringInv

\* Steps of an enroll handler that write nothing, requests and cancellations.
LEMMA EnrollKeeps ==
    ASSUME KeyringInv, NEW n \in Nodes, NEW s \in Slots,
           Send(n, s) \/ ReadRow(n, s) \/ Gate(n, s) \/ CancelEnroll(n, s)
    PROVE  KeyringInv'
    <1>1. /\ RowsOK /\ ApprovalsOK /\ EnrollsOK
          /\ EnrollOK(enrolls[n][s], opened) /\ node_key[n] \in Keys /\ (window => opened)
          /\ enrolls \in [Nodes -> [Slots -> Enroll]]
        BY DEF KeyringInv, EnrollsOK, NodesOK, WindowOK
    <1>2. UNCHANGED <<rows, claimed, approvals, window, opened, node_key, rekeys>>
        BY DEF Send, ReadRow, Gate, CancelEnroll
    <1>3. PICK e : EnrollOK(e, opened) /\ enrolls' = [enrolls EXCEPT ![n][s] = e]
        <2>1. CASE Send(n, s)
            BY <1>1, <2>1 DEF Send, EnrollOK, IdleEnroll, Enroll
        <2>2. CASE ReadRow(n, s)
            <3> DEFINE status == rows[Claims[n]].status
                       e == [enrolls[n][s] EXCEPT !.stage = "gate",
                                !.found = IF status \in Dead THEN "dead" ELSE status]
            <3>1. CASE status = "approved"
                BY <2>2, <3>1, IdleHandlers DEF ReadRow, Answered
            <3>2. CASE status # "approved"
                <4>1. status \in Statuses
                    BY <1>1, EnrollmentAssumption DEF RowsOK, Row
                <4>2. EnrollOK(e, opened)
                    BY <1>1, <2>2, <3>2, <4>1 DEF EnrollOK, Enroll, ReadRow, Statuses
                <4>3. enrolls' = [enrolls EXCEPT ![n][s] = e]
                    BY <1>1, <2>2, <3>2 DEF ReadRow
                <4>4. QED
                    BY <4>2, <4>3
            <3>3. QED
                BY <3>1, <3>2
        <2>3. CASE Gate(n, s)
            <3> DEFINE e == [enrolls[n][s] EXCEPT !.stage = "write"]
            <3>1. CASE window /\ enrolls[n][s].found # "dead"
                <4>1. EnrollOK(e, opened)
                    BY <1>1, <2>3, <3>1 DEF EnrollOK, Enroll, Gate
                <4>2. enrolls' = [enrolls EXCEPT ![n][s] = e]
                    BY <1>1, <2>3, <3>1 DEF Gate
                <4>3. QED
                    BY <4>1, <4>2
            <3>2. CASE ~(window /\ enrolls[n][s].found # "dead")
                BY <2>3, <3>2, IdleHandlers DEF Gate, Answered
            <3>3. QED
                BY <3>1, <3>2
        <2>4. CASE CancelEnroll(n, s)
            BY <2>4, IdleHandlers DEF CancelEnroll, Answered
        <2>5. QED
            BY <2>1, <2>2, <2>3, <2>4
    <1>4. RowsOK' /\ EnrollsOK' /\ ApprovalsOK'
        BY <1>1, <1>2, <1>3, RowsStutter, EnrollMove, ApprovalsStutter
    <1>5. QED
        BY <1>2, <1>4 DEF KeyringInv, WindowOK, NodesOK

\* The two writes of an enroll handler, whether they touch the row or not.
LEMMA RegisterKeeps ==
    ASSUME KeyringInv, NEW n \in Nodes, NEW s \in Slots,
           InsertPending(n, s) \/ UpdatePendingFingerprint(n, s)
    PROVE  KeyringInv'
    <1> DEFINE id == Claims[n]
               f == enrolls[n][s].fingerprint
    <1>1. /\ RowsOK /\ ApprovalsOK /\ EnrollsOK /\ id \in Ids /\ f \in Keys
          /\ rows[id] \in Row /\ RowOK(rows[id])
        BY EnrollmentAssumption
        DEF KeyringInv, EnrollsOK, EnrollOK, RowsOK, InsertPending, UpdatePendingFingerprint
    <1>2. UNCHANGED <<approvals, window, opened, node_key, rekeys>>
        BY DEF InsertPending, UpdatePendingFingerprint
    <1>3. EnrollsOK'
        BY <1>1, <1>2, IdleHandlers, EnrollMove
        DEF InsertPending, UpdatePendingFingerprint, Answered
    <1>4. CASE UNCHANGED <<rows, claimed>>
        BY <1>1, <1>2, <1>3, <1>4, RowsStutter, ApprovalsStutter
        DEF KeyringInv, WindowOK, NodesOK
    <1>5. CASE ~UNCHANGED <<rows, claimed>>
        <2>1. PICK row \in Row :
                  /\ row.status = "pending" /\ row.fingerprint = f
                  /\ \/ rows[id].status = "none" /\ row.key = NoKey
                     \/ rows[id].status = "pending" /\ row.key = rows[id].key
                  /\ Register(n, s, row)
            <3>1. CASE InsertPending(n, s)
                <4> DEFINE row == [status |-> "pending", fingerprint |-> f, key |-> NoKey]
                <4>1. row \in Row
                    BY <1>1 DEF Row, Statuses
                <4>2. rows[id].status = "none" /\ Register(n, s, row)
                    BY <1>5, <3>1 DEF InsertPending
                <4>3. QED
                    BY <4>1, <4>2
            <3>2. CASE UpdatePendingFingerprint(n, s)
                <4> DEFINE row == [rows[id] EXCEPT !.fingerprint = f]
                <4>1. rows[id].status = "pending" /\ Register(n, s, row)
                    BY <1>5, <3>2 DEF UpdatePendingFingerprint
                <4>2. row \in Row /\ row.status = "pending" /\ row.fingerprint = f
                      /\ row.key = rows[id].key
                    BY <1>1, <4>1 DEF Row
                <4>3. QED
                    BY <4>1, <4>2
            <3>3. QED
                BY <3>1, <3>2
        <2>2. /\ rows' = [rows EXCEPT ![id] = row]
              /\ claimed' = [claimed EXCEPT ![id] = @ \cup {f}]
            BY <2>1 DEF Register
        <2>3. RowOK(row)
            BY <1>1, <2>1 DEF RowOK
        <2>4. row.key \in claimed[id] \cup {f} \cup {NoKey}
            BY <1>1, <2>1 DEF RowsOK
        <2>5. RowsOK'
            <3>1. {f} \in SUBSET Keys /\ row.fingerprint \in claimed[id] \cup {f}
                BY <1>1, <2>1
            <3> HIDE DEF id, f
            <3>2. QED
                BY <1>1, <2>1, <2>2, <2>3, <2>4, <3>1, RowWrite
        <2>6. \A i \in Ids : /\ claimed[i] \subseteq claimed'[i]
                             /\ rows[i].status # "none" => rows'[i].status # "none"
                             /\ rows[i].status # "none" /\ rows[i].key \in Keys
                                   => rows'[i].key \in Keys
            BY <1>1, <2>1, <2>2 DEF RowsOK
        <2>7. ApprovalsOK'
            BY <1>1, <1>2, <2>6, ApprovalsStutter
        <2>8. QED
            BY <1>2, <1>3, <2>5, <2>7 DEF KeyringInv, WindowOK, NodesOK
    <1>6. QED
        BY <1>4, <1>5

\* The approve handler.
LEMMA ApproveKeeps ==
    ASSUME KeyringInv, NEW o \in Operators,
           StartApproval(o) \/ ApproveStep(o) \/ AbandonApproval(o)
    PROVE  KeyringInv'
    <1> DEFINE a == approvals[o]
    <1>1. /\ RowsOK /\ ApprovalsOK /\ EnrollsOK /\ WindowOK /\ NodesOK
          /\ a \in Approval /\ ApprovalOK(a, rows, claimed)
          /\ rows \in [Ids -> Row] /\ approvals \in [Operators -> Approval]
        BY DEF KeyringInv, ApprovalsOK, RowsOK
    <1>2. UNCHANGED <<claimed, enrolls, opened, node_key, rekeys>>
        BY DEF StartApproval, ApproveStep, SetKey, SetApproved, ListOthers, CloseWindow,
               AbandonApproval, Advance, Ended
    <1>3. EnrollsOK' /\ NodesOK'
        BY <1>1, <1>2, EnrollsStutter DEF NodesOK
    <1>4. WindowOK'
        <2>1. window' = window \/ window' = FALSE
            <3>1. CloseWindow(o) => window' = FALSE
                BY DEF CloseWindow
            <3>2. StartApproval(o) \/ SetKey(o) \/ SetApproved(o) \/ ListOthers(o)
                    \/ AbandonApproval(o) => window' = window
                BY DEF StartApproval, SetKey, SetApproved, ListOthers, AbandonApproval
            <3>3. QED
                BY <3>1, <3>2 DEF ApproveStep
        <2>2. opened' = opened /\ WindowOK
            BY <1>1, <1>2
        <2>3. CASE window' = window
            BY <2>2, <2>3 DEF WindowOK
        <2>4. CASE window' = FALSE
            BY <2>2, <2>4 DEF WindowOK
        <2>5. QED
            BY <2>1, <2>3, <2>4
    <1>5. RowsOK' /\ \A i \in Ids : /\ rows[i].status # "none" => rows'[i].status # "none"
                                    /\ rows[i].status # "none" /\ rows[i].key \in Keys
                                          => rows'[i].key \in Keys
        <2>1. CASE SetKey(o)
            <3> DEFINE row == [rows[a.id] EXCEPT !.key = a.key, !.fingerprint = a.key]
            <3>1. /\ a.id \in Ids /\ a.key \in claimed[a.id] /\ rows[a.id].status # "none"
                  /\ rows[a.id] \in Row /\ a.key \in Keys
                BY <1>1, <2>1 DEF SetKey, ApprovalOK, RowsOK
            <3>2. /\ row \in Row /\ RowOK(row) /\ row.key = a.key
                  /\ row.fingerprint = a.key /\ row.status = rows[a.id].status
                BY <3>1 DEF Row, RowOK
            <3>3. rows' = [rows EXCEPT ![a.id] = row]
                BY <1>1, <1>2, <2>1, <3>1 DEF SetKey, RowsOK
            <3>4. RowsOK'
                BY <1>1, <1>2, <3>1, <3>2, <3>3, RowChange
            <3>5. QED
                BY <1>1, <3>1, <3>2, <3>3, <3>4
        <2>2. CASE SetApproved(o)
            <3> DEFINE row == [rows[a.id] EXCEPT !.status = "approved"]
            <3>1. /\ a.id \in Ids /\ rows[a.id].key \in Keys /\ rows[a.id].status # "none"
                  /\ rows[a.id] \in Row /\ RowOK(rows[a.id])
                  /\ rows[a.id].key \in claimed[a.id] \cup {NoKey}
                  /\ rows[a.id].fingerprint \in claimed[a.id]
                BY <1>1, <2>2 DEF SetApproved, ApprovalOK, RowsOK
            <3>2. /\ row \in Row /\ RowOK(row) /\ row.key = rows[a.id].key
                  /\ row.fingerprint = rows[a.id].fingerprint /\ row.status = "approved"
                BY <3>1 DEF Row, RowOK, Statuses
            <3>3. rows' = [rows EXCEPT ![a.id] = row]
                BY <1>1, <1>2, <2>2, <3>1 DEF SetApproved, RowsOK
            <3>4. RowsOK'
                BY <1>1, <1>2, <3>1, <3>2, <3>3, RowChange
            <3>5. QED
                BY <1>1, <3>1, <3>2, <3>3, <3>4
        <2>3. CASE StartApproval(o) \/ ListOthers(o) \/ CloseWindow(o) \/ AbandonApproval(o)
            <3>1. rows' = rows
                BY <2>3 DEF StartApproval, ListOthers, CloseWindow, AbandonApproval
            <3>2. QED
                BY <1>1, <1>2, <3>1, RowsStutter
        <2>4. QED
            BY <2>1, <2>2, <2>3 DEF ApproveStep
    <1>6. PICK b \in Approval : ApprovalOK(b, rows', claimed') /\ approvals' = [approvals EXCEPT ![o] = b]
        <2>1. CASE StartApproval(o)
            <3>1. PICK id \in Ids :
                      /\ rows[id].status = "pending"
                      /\ approvals' = [approvals EXCEPT ![o] = [stage |-> "set_key", id |-> id,
                                                                key |-> rows[id].fingerprint]]
                BY <2>1 DEF StartApproval
            <3> DEFINE b == [stage |-> "set_key", id |-> id, key |-> rows[id].fingerprint]
            <3>2. rows[id].fingerprint \in claimed[id] /\ b \in Approval
                BY <1>1, <3>1 DEF RowsOK, Approval, Row
            <3>3. ApprovalOK(b, rows', claimed')
                BY <1>2, <1>5, <3>1, <3>2 DEF ApprovalOK
            <3>4. QED
                BY <3>1, <3>2, <3>3
        <2>2. CASE SetKey(o)
            <3> DEFINE b == [a EXCEPT !.stage = "set_status"]
            <3>1. a.id \in Ids /\ a.key \in Keys /\ rows[a.id].status # "none"
                  /\ a.key \in claimed[a.id] /\ b \in Approval
                BY <1>1, <2>2 DEF SetKey, ApprovalOK, RowsOK, Approval
            <3>2. rows'[a.id].key = a.key
                BY <1>1, <2>2, <3>1 DEF SetKey, Row
            <3>3. ApprovalOK(b, rows', claimed')
                BY <1>1, <1>2, <1>5, <3>1, <3>2 DEF ApprovalOK, Approval
            <3>4. approvals' = [approvals EXCEPT ![o] = b]
                BY <1>1, <2>2 DEF SetKey, Advance
            <3>5. QED
                BY <3>1, <3>3, <3>4
        <2>3. CASE SetApproved(o)
            <3> DEFINE b == [a EXCEPT !.stage = "list"]
            <3>1. a.id \in Ids /\ rows[a.id].status # "none" /\ b \in Approval
                BY <1>1, <2>3 DEF SetApproved, ApprovalOK, Approval
            <3>2. ApprovalOK(b, rows', claimed')
                BY <1>1, <1>5, <3>1 DEF ApprovalOK, Approval
            <3>3. approvals' = [approvals EXCEPT ![o] = b]
                BY <1>1, <2>3 DEF SetApproved, Advance
            <3>4. QED
                BY <3>1, <3>2, <3>3
        <2>4. CASE ListOthers(o)
            <3> DEFINE b == [a EXCEPT !.stage = "close"]
            <3>1. a.id \in Ids /\ rows[a.id].status # "none" /\ b \in Approval
                BY <1>1, <2>4 DEF ListOthers, ApprovalOK, Approval
            <3>2. ApprovalOK(b, rows', claimed')
                BY <1>1, <1>5, <3>1 DEF ApprovalOK, Approval
            <3>3. \/ approvals' = [approvals EXCEPT ![o] = b]
                  \/ approvals' = [approvals EXCEPT ![o] = IdleApproval]
                BY <1>1, <2>4 DEF ListOthers, Advance, Ended
            <3>4. QED
                BY <3>1, <3>2, <3>3, IdleHandlers DEF ApprovalOK, IdleApproval
        <2>5. CASE CloseWindow(o) \/ AbandonApproval(o)
            BY <2>5, IdleHandlers DEF CloseWindow, AbandonApproval, Ended, ApprovalOK, IdleApproval
        <2>6. QED
            BY <2>1, <2>2, <2>3, <2>4, <2>5 DEF ApproveStep
    <1>7. ApprovalsOK'
        BY <1>1, <1>2, <1>5, <1>6, ApprovalMove
    <1>8. QED
        BY <1>3, <1>4, <1>5, <1>7 DEF KeyringInv

\* Reject, revoke and rotate.
LEMMA OperatorKeeps ==
    ASSUME KeyringInv, NEW id \in Ids,
           Rotate(id) \/ \E status \in Dead : Dismiss(id, status)
    PROVE  KeyringInv'
    <1>1. /\ RowsOK /\ ApprovalsOK /\ EnrollsOK /\ WindowOK /\ NodesOK
          /\ rows \in [Ids -> Row] /\ rows[id] \in Row /\ RowOK(rows[id])
          /\ rows[id].status # "none"
        BY DEF KeyringInv, RowsOK, Rotate, Dismiss
    <1>2. UNCHANGED <<window, node_key, enrolls, approvals, opened, rekeys>>
        BY DEF Rotate, Dismiss
    <1>3. RowsOK' /\ \A i \in Ids : /\ claimed[i] \subseteq claimed'[i]
                                    /\ rows[i].status # "none" => rows'[i].status # "none"
                                    /\ rows[i].status # "none" /\ rows[i].key \in Keys
                                          => rows'[i].key \in Keys
        <2>1. CASE Rotate(id)
            <3>1. PICK k \in Keys :
                      /\ rows' = [rows EXCEPT ![id].key = k, ![id].fingerprint = k]
                      /\ claimed' = [claimed EXCEPT ![id] = @ \cup {k}]
                BY <2>1 DEF Rotate
            <3> DEFINE row == [rows[id] EXCEPT !.key = k, !.fingerprint = k]
            <3>2. /\ row \in Row /\ RowOK(row) /\ row.key = k /\ row.fingerprint = k
                  /\ row.status = rows[id].status
                BY <1>1, EnrollmentAssumption DEF Row, RowOK
            <3>3. rows' = [rows EXCEPT ![id] = row] /\ {k} \in SUBSET Keys
                BY <1>1, <3>1
            <3>4. row.key \in claimed[id] \cup {k} \cup {NoKey}
                  /\ row.fingerprint \in claimed[id] \cup {k}
                BY <3>2
            <3>5. RowsOK'
                <4> HIDE DEF row
                <4>1. QED
                    BY <1>1, <3>1, <3>2, <3>3, <3>4, RowWrite
            <3>6. QED
                BY <1>1, <3>1, <3>2, <3>3, <3>5 DEF RowsOK
        <2>2. CASE \E status \in Dead : Dismiss(id, status)
            <3>1. PICK status \in Dead : Dismiss(id, status)
                BY <2>2
            <3> DEFINE row == [rows[id] EXCEPT !.status = status]
            <3>2. /\ row \in Row /\ RowOK(row) /\ row.key = rows[id].key
                  /\ row.fingerprint = rows[id].fingerprint /\ row.status # "none"
                BY <1>1 DEF Row, RowOK, Statuses, Dead
            <3>3. rows' = [rows EXCEPT ![id] = row] /\ claimed' = claimed
                BY <1>1, <3>1 DEF Dismiss
            <3>4. row.key \in claimed[id] \cup {NoKey} /\ row.fingerprint \in claimed[id]
                BY <1>1, <3>2 DEF RowsOK
            <3>5. RowsOK'
                BY <1>1, <3>2, <3>3, <3>4, RowChange
            <3>6. QED
                BY <1>1, <3>2, <3>3, <3>5
        <2>3. QED
            BY <2>1, <2>2
    <1>4. EnrollsOK' /\ ApprovalsOK'
        BY <1>1, <1>2, <1>3, EnrollsStutter, ApprovalsStutter
    <1>5. QED
        BY <1>1, <1>2, <1>3, <1>4 DEF KeyringInv, WindowOK, NodesOK

\* The node's settings, the window and the process.
LEMMA SettingKeeps ==
    ASSUME KeyringInv, (\E n \in Nodes : Rekey(n)) \/ OpenWindow \/ WindowExpires \/ Restart
    PROVE  KeyringInv'
    <1>1. /\ RowsOK /\ ApprovalsOK /\ EnrollsOK /\ WindowOK /\ NodesOK
          /\ UNCHANGED <<rows, claimed>>
        BY DEF KeyringInv, Rekey, OpenWindow, WindowExpires, Restart
    <1>2. RowsOK'
        BY <1>1, RowsStutter
    <1>3. NodesOK'
        BY <1>1, EnrollmentAssumption DEF NodesOK, Rekey, OpenWindow, WindowExpires, Restart
    <1>4. WindowOK' /\ EnrollsOK' /\ ApprovalsOK'
        <2>1. CASE \E n \in Nodes : Rekey(n)
            BY <1>1, <2>1, EnrollsStutter, ApprovalsStutter DEF Rekey, WindowOK
        <2>2. CASE OpenWindow
            <3>1. UNCHANGED <<enrolls, approvals>> /\ WindowOK' /\ opened'
                BY <2>2 DEF OpenWindow, WindowOK
            <3>2. QED
                BY <1>1, <3>1, EnrollsStutter, ApprovalsStutter
        <2>3. CASE WindowExpires
            <3>1. UNCHANGED <<enrolls, approvals, opened>> /\ WindowOK'
                BY <1>1, <2>3 DEF WindowExpires, WindowOK
            <3>2. QED
                BY <1>1, <3>1, EnrollsStutter, ApprovalsStutter
        <2>4. CASE Restart
            <3>1. WindowOK'
                BY <2>4 DEF Restart, WindowOK
            <3>2. EnrollsOK'
                BY <2>4, IdleHandlers DEF Restart, EnrollsOK, EnrollOK
            <3>3. ApprovalsOK'
                BY <2>4, IdleHandlers DEF Restart, ApprovalsOK
            <3>4. QED
                BY <3>1, <3>2, <3>3
        <2>5. QED
            BY <2>1, <2>2, <2>3, <2>4
    <1>5. QED
        BY <1>2, <1>3, <1>4 DEF KeyringInv

LEMMA NextKeyring == KeyringInv /\ [Next]_vars => KeyringInv'
    <1> SUFFICES ASSUME KeyringInv, [Next]_vars PROVE KeyringInv'
        OBVIOUS
    <1>1. CASE UNCHANGED vars
        <2>1. RowsOK' /\ EnrollsOK' /\ ApprovalsOK'
            BY <1>1, RowsStutter, EnrollsStutter, ApprovalsStutter DEF KeyringInv, vars
        <2>2. QED
            BY <1>1, <2>1 DEF KeyringInv, WindowOK, NodesOK, vars
    <1>2. CASE Next
        BY <1>2, EnrollKeeps, RegisterKeeps, ApproveKeeps, OperatorKeeps, SettingKeeps
        DEF Next, EnrollStep
    <1>3. QED
        BY <1>1, <1>2

LEMMA KeyringInvariant == Spec => []KeyringInv
    <1>1. QED
        BY InitKeyring, NextKeyring, PTL DEF Spec

-----------------------------------------------------------------------------
(* The theorems. *)

\* Every variable keeps its type and every row its shape: an approved sensor has a
\* key, so ingest can always open what it sends.
THEOREM EnrollmentTypeOK == Spec => []TypeOK
    <1>1. KeyringInv => TypeOK
        BY DEF KeyringInv, RowsOK, EnrollsOK, ApprovalsOK, WindowOK, NodesOK, TypeOK
    <1>2. QED
        BY <1>1, KeyringInvariant, PTL

\* No interleaving of approvals, retries and rotations puts a key on file that no
\* node of this id claimed and the Standalone did not make for it.
THEOREM KeysAreClaimed == Spec => []StoredKeyWasClaimed
    <1>1. KeyringInv => StoredKeyWasClaimed
        BY DEF KeyringInv, RowsOK, StoredKeyWasClaimed
    <1>2. QED
        BY <1>1, KeyringInvariant, PTL

\* No enrollment in flight moves an approved sensor's fingerprint off its key.
THEOREM ApprovedFingerprintFixed == Spec => ApprovedPairFixed
    <1> DEFINE Fixed == \A id \in Ids :
                  rows[id].status = "approved" /\ rows'[id].fingerprint # rows[id].fingerprint
                      => rows'[id].key = rows'[id].fingerprint
    <1>1. KeyringInv /\ [Next]_vars => [Fixed]_vars
        <2> SUFFICES ASSUME KeyringInv, Next, NEW id \in Ids, rows[id].status = "approved",
                            rows'[id].fingerprint # rows[id].fingerprint
                     PROVE  rows'[id].key = rows'[id].fingerprint
            OBVIOUS
        <2>1. rows \in [Ids -> Row] /\ Claims \in [Nodes -> Ids]
            BY EnrollmentAssumption DEF KeyringInv, RowsOK
        <2>2. ASSUME NEW n \in Nodes, NEW s \in Slots,
                     InsertPending(n, s) \/ UpdatePendingFingerprint(n, s)
              PROVE  FALSE
            BY <2>1, <2>2 DEF InsertPending, UpdatePendingFingerprint, Register
        <2>3. ASSUME NEW o \in Operators, SetKey(o) PROVE rows'[id].key = rows'[id].fingerprint
            BY <2>1, <2>3 DEF SetKey, Row
        <2>4. ASSUME NEW o \in Operators, SetApproved(o) PROVE FALSE
            BY <2>1, <2>4 DEF SetApproved, Row
        <2>5. ASSUME NEW i \in Ids, NEW status \in Dead, Dismiss(i, status) PROVE FALSE
            BY <2>1, <2>5 DEF Dismiss, Row
        <2>6. ASSUME NEW i \in Ids, Rotate(i) PROVE rows'[id].key = rows'[id].fingerprint
            BY <2>1, <2>6 DEF Rotate, Row
        <2>7. rows' # rows
            OBVIOUS
        <2>8. QED
            BY <2>2, <2>3, <2>4, <2>5, <2>6, <2>7
            DEF Next, EnrollStep, ApproveStep, Rekey, Send, ReadRow, Gate, CancelEnroll, StartApproval,
                ListOthers, CloseWindow, AbandonApproval, OpenWindow, WindowExpires, Restart
    <1>2. QED
        BY <1>1, KeyringInvariant, PTL DEF Spec, ApprovedPairFixed

\* Nobody gets in between a start of the Standalone and the operator's opening of
\* the window.
THEOREM ShutAfterStart == Spec => ShutSinceStart
    <1> DEFINE Shut == ~opened =>
                  \A id \in Ids :
                     rows'[id].fingerprint # rows[id].fingerprint =>
                         /\ rows[id].status # "none"
                         /\ rows'[id].fingerprint = rows'[id].key
    <1>1. KeyringInv /\ [Next]_vars => [Shut]_vars
        <2> SUFFICES ASSUME KeyringInv, Next, ~opened, NEW id \in Ids,
                            rows'[id].fingerprint # rows[id].fingerprint
                     PROVE  /\ rows[id].status # "none"
                            /\ rows'[id].fingerprint = rows'[id].key
            OBVIOUS
        <2>1. rows \in [Ids -> Row]
            BY DEF KeyringInv, RowsOK
        <2>2. ASSUME NEW n \in Nodes, NEW s \in Slots,
                     InsertPending(n, s) \/ UpdatePendingFingerprint(n, s)
              PROVE  FALSE
            BY <2>2 DEF InsertPending, UpdatePendingFingerprint, KeyringInv, EnrollsOK, EnrollOK
        <2>3. ASSUME NEW o \in Operators, SetKey(o)
              PROVE  rows[id].status # "none" /\ rows'[id].fingerprint = rows'[id].key
            <3>1. ApprovalOK(approvals[o], rows, claimed)
                BY DEF KeyringInv, ApprovalsOK
            <3>2. approvals[o].id = id
                BY <2>1, <2>3 DEF SetKey, Row
            <3>3. rows'[id].fingerprint = rows'[id].key
                BY <2>1, <2>3, <3>2 DEF SetKey, Row
            <3>4. QED
                BY <2>3, <3>1, <3>2, <3>3 DEF SetKey, ApprovalOK
        <2>4. ASSUME NEW o \in Operators, SetApproved(o) PROVE FALSE
            BY <2>1, <2>4 DEF SetApproved, Row
        <2>5. ASSUME NEW i \in Ids, NEW status \in Dead, Dismiss(i, status) PROVE FALSE
            BY <2>1, <2>5 DEF Dismiss, Row
        <2>6. ASSUME NEW i \in Ids, Rotate(i)
              PROVE  rows[id].status # "none" /\ rows'[id].fingerprint = rows'[id].key
            BY <2>1, <2>6 DEF Rotate, Row
        <2>7. rows' # rows
            OBVIOUS
        <2>8. QED
            BY <2>2, <2>3, <2>4, <2>5, <2>6, <2>7
            DEF Next, EnrollStep, ApproveStep, Rekey, Send, ReadRow, Gate, CancelEnroll, StartApproval,
                ListOthers, CloseWindow, AbandonApproval, OpenWindow, WindowExpires, Restart
    <1>2. QED
        BY <1>1, KeyringInvariant, PTL DEF Spec, ShutSinceStart

\* A revoked or rejected sensor comes back only through an approval that had passed
\* its check before: none started later, and no enrollment, does it.
THEOREM DismissalHolds == Spec => DeadStaysDead
    <1> DEFINE Stays == \A id \in Ids :
                  rows[id].status \in Dead /\ ~Approving(id) => rows'[id].status \in Dead
    <1>1. KeyringInv /\ [Next]_vars => [Stays]_vars
        <2> SUFFICES ASSUME KeyringInv, Next, NEW id \in Ids, rows[id].status \in Dead,
                            ~Approving(id)
                     PROVE  rows'[id].status \in Dead
            BY Zenon
        <2>1. rows \in [Ids -> Row] /\ Claims \in [Nodes -> Ids]
            BY EnrollmentAssumption DEF KeyringInv, RowsOK
        <2>2. ASSUME NEW n \in Nodes, NEW s \in Slots,
                     InsertPending(n, s) \/ UpdatePendingFingerprint(n, s)
              PROVE  rows'[id].status = rows[id].status
            BY <2>1, <2>2 DEF InsertPending, UpdatePendingFingerprint, Register, Dead
        <2>3. ASSUME NEW o \in Operators, SetKey(o) PROVE rows'[id].status = rows[id].status
            BY <2>1, <2>3 DEF SetKey, Row
        <2>4. ASSUME NEW o \in Operators, SetApproved(o) PROVE rows'[id].status = rows[id].status
            BY <2>1, <2>4 DEF SetApproved, Approving, Row
        <2>5. ASSUME NEW i \in Ids, NEW status \in Dead, Dismiss(i, status)
              PROVE  rows'[id].status \in Dead
            BY <2>1, <2>5 DEF Dismiss, Row
        <2>6. ASSUME NEW i \in Ids, Rotate(i) PROVE rows'[id].status = rows[id].status
            BY <2>1, <2>6 DEF Rotate, Row
        <2>7. CASE rows' = rows
            BY <2>7
        <2>8. CASE rows' # rows
            BY <2>2, <2>3, <2>4, <2>5, <2>6, <2>8
            DEF Next, EnrollStep, ApproveStep, Rekey, Send, ReadRow, Gate, CancelEnroll, StartApproval,
                ListOthers, CloseWindow, AbandonApproval, OpenWindow, WindowExpires, Restart
        <2>9. QED
            BY <2>7, <2>8
    <1>2. QED
        BY <1>1, KeyringInvariant, PTL DEF Spec, DeadStaysDead
=============================================================================
