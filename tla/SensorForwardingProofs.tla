----------------------- MODULE SensorForwardingProofs -----------------------
(***************************************************************************)
(* Theorems about SensorForwarding, for every number of rows, exchanges    *)
(* and faults, every batch limit and every set of poison rows.             *)
(***************************************************************************)
EXTENDS SensorForwarding, FiniteSetTheorems, TLAPS

\* Strengthening: a batch only ever holds rows that were captured.
BatchIsCaptured == \A c \in Conns : call[c].todo \subseteq 1..captured

\* Strengthening: the row a handler is finalizing has been inserted.
RowInsertedIn(x, S) == x.stage = "finalizing" => \A r \in x.todo : IsOldest(r, x.todo) => r \in S
FinalizingIsKept == \A c \in Conns : RowInsertedIn(call[c], kept)

\* The inductive invariant behind the delivery theorems.
DeliveryInv == TypeOK /\ BatchIsCaptured /\ AckedIsSettled /\ FinalizingIsKept

-----------------------------------------------------------------------------
(* What the helpers return. *)

\* Updating one exchange keeps the table of exchanges well-typed.
LEMMA CallUpdate ==
    ASSUME call \in [Conns -> Call], NEW c \in Conns, NEW v \in Call
    PROVE  /\ [call EXCEPT ![c] = v] \in [Conns -> Call]
           /\ [call EXCEPT ![c] = v][c] = v
           /\ \A d \in Conns \ {c} : [call EXCEPT ![c] = v][d] = call[d]
    OBVIOUS

\* A free exchange is empty.
LEMMA FreeCallType ==
    /\ FreeCall \in Call /\ FreeCall.stage = "free"
    /\ FreeCall.todo = {} /\ FreeCall.acked = {}
    BY DEF FreeCall, Call, Stages, Kinds, Codes

\* A request carries its rows and no acknowledgement.
LEMMA RequestType ==
    ASSUME NEW kind \in Kinds, NEW rows \in SUBSET Rows
    PROVE  /\ Request(kind, rows) \in Call
           /\ Request(kind, rows).stage = "sent"
           /\ Request(kind, rows).todo = rows
           /\ Request(kind, rows).acked = {}
    BY DEF Request, FreeCall, Call, Stages, Kinds, Codes

\* An answer keeps the accepted rows of the handler and nothing to do.
LEMMA AnswerType ==
    ASSUME call \in [Conns -> Call], NEW c \in Conns, NEW code \in Codes
    PROVE  /\ Answer(c, code) \in Call
           /\ Answer(c, code).stage = "reply"
           /\ Answer(c, code).todo = {}
           /\ Answer(c, code).acked = call[c].acked
    BY DEF Answer, Call, Stages

\* A batch never holds more than undelivered rows.
LEMMA BatchIsUndelivered == OldestBatch \subseteq Undelivered
    BY DEF OldestBatch

\* Replacing one exchange by a sound one keeps every exchange sound.
LEMMA SoundExchange ==
    ASSUME DeliveryInv, NEW c \in Conns, NEW v \in Call,
           v.todo \subseteq 1..captured', v.acked \subseteq Settled', RowInsertedIn(v, kept'),
           call' = [call EXCEPT ![c] = v],
           captured' = captured, kept \subseteq kept', refused \subseteq refused'
    PROVE  /\ call' \in [Conns -> Call]
           /\ BatchIsCaptured' /\ FinalizingIsKept'
           /\ \A d \in Conns : call'[d].acked \subseteq Settled'
    <1>1. call \in [Conns -> Call]
        BY DEF DeliveryInv, TypeOK
    <1>2. /\ call' \in [Conns -> Call]
          /\ call'[c] = v
          /\ \A d \in Conns \ {c} : call'[d] = call[d]
        BY <1>1, CallUpdate
    <1>3. \A d \in Conns : /\ call[d].todo \subseteq 1..captured'
                          /\ call[d].acked \subseteq Settled'
        BY DEF DeliveryInv, BatchIsCaptured, AckedIsSettled, Settled
    <1>4. \A d \in Conns : RowInsertedIn(call[d], kept')
        BY DEF DeliveryInv, FinalizingIsKept, RowInsertedIn
    <1>5. BatchIsCaptured' /\ \A d \in Conns : call'[d].acked \subseteq Settled'
        BY <1>2, <1>3 DEF BatchIsCaptured
    <1>6. \A d \in Conns : RowInsertedIn(call'[d], kept')
        BY <1>2, <1>4
    <1>7. QED
        BY <1>2, <1>5, <1>6 DEF FinalizingIsKept, RowInsertedIn, IsOldest

-----------------------------------------------------------------------------
(* The invariant is inductive: one lemma per group of actions. *)

\* What is being finalized was captured.
LEMMA FinalizingType ==
    ASSUME TypeOK
    PROVE  Finalizing \subseteq Rows /\ \A c \in Conns : FinalizingIn(call[c]) \subseteq Rows
    BY DEF TypeOK, Call, Finalizing, FinalizingIn

\* An approval changes nothing of an exchange but that it is no longer late.
LEMMA ApprovalStep ==
    ASSUME TypeOK, NEW o \in Operators, SetApproved(o)
    PROVE  /\ call' \in [Conns -> Call]
           /\ \A c \in Conns : /\ call'[c].stage = call[c].stage /\ call'[c].todo = call[c].todo
                              /\ call'[c].acked = call[c].acked /\ ~call'[c].late
    BY DEF SetApproved, TypeOK, Call

LEMMA InitDelivery == Init => DeliveryInv
    <1> SUFFICES ASSUME Init PROVE DeliveryInv
        OBVIOUS
    <1>1. CacheOK /\ faults \in 0..MaxFaults
        BY ForwardingAssumption DEF Init, CacheOK
    <1>2. LoopOK
        BY ForwardingAssumption DEF Init, LoopOK, Waiting
    <1>3. TablesOK
        BY DEF Init, TablesOK, Statuses
    <1>4. /\ call \in [Conns -> Call]
          /\ \A c \in Conns : /\ call[c].stage = "free"
                             /\ call[c].todo = {} /\ call[c].acked = {}
        BY FreeCallType DEF Init
    <1>5. delivered = {}
        BY DEF Init
    <1>6. QED
        BY <1>1, <1>2, <1>3, <1>4, <1>5
        DEF DeliveryInv, TypeOK, BatchIsCaptured, AckedIsSettled, FinalizingIsKept, RowInsertedIn

\* Steps that change neither an exchange nor a row: approval, timers, health.
LEMMA QuietStep ==
    ASSUME DeliveryInv, UNCHANGED <<sensorVars, call, kept, refused>>,
           LoopOK', TablesOK', faults' \in 0..MaxFaults
    PROVE  DeliveryInv'
    BY DEF DeliveryInv, TypeOK, CacheOK, BatchIsCaptured, AckedIsSettled, FinalizingIsKept,
           RowInsertedIn, IsOldest, Settled, sensorVars

\* Steps that replace one exchange by a sound one.
LEMMA ExchangeStep ==
    ASSUME DeliveryInv, NEW c \in Conns, NEW v \in Call,
           v.todo \subseteq 1..captured, v.acked \subseteq Settled', RowInsertedIn(v, kept'),
           call' = [call EXCEPT ![c] = v],
           UNCHANGED <<captured, cached>>, delivered' \subseteq cached \cap Settled',
           kept \subseteq kept', refused \subseteq refused',
           LoopOK', TablesOK', faults' \in 0..MaxFaults
    PROVE  DeliveryInv'
    <1>1. CacheOK'
        BY DEF DeliveryInv, TypeOK, CacheOK
    <1>2. /\ call' \in [Conns -> Call]
          /\ BatchIsCaptured' /\ FinalizingIsKept'
          /\ \A d \in Conns : call'[d].acked \subseteq Settled'
        BY SoundExchange
    <1>3. QED
        BY <1>1, <1>2 DEF DeliveryInv, TypeOK, AckedIsSettled

\* Sending puts the oldest undelivered rows, or none, on a free exchange.
LEMMA SendStep ==
    ASSUME DeliveryInv, NEW kind \in Kinds, NEW rows \in SUBSET cached,
           NEW waiting \in Waiting, Send(kind, rows, waiting)
    PROVE  DeliveryInv'
    <1>1. PICK c \in Conns : conn' = c /\ call' = [call EXCEPT ![c] = Request(kind, rows)]
        BY DEF Send
    <1>2. rows \subseteq Rows /\ rows \subseteq 1..captured
        BY ForwardingAssumption DEF DeliveryInv, TypeOK, CacheOK, Rows
    <1>3. /\ Request(kind, rows) \in Call
          /\ Request(kind, rows).todo \subseteq 1..captured
          /\ Request(kind, rows).acked \subseteq Settled'
          /\ RowInsertedIn(Request(kind, rows), kept')
        BY <1>2, RequestType DEF RowInsertedIn
    <1>4. LoopOK'
        BY <1>1 DEF Send, DeliveryInv, TypeOK, LoopOK, healthVars
    <1>5. TablesOK' /\ faults' \in 0..MaxFaults
        BY DEF Send, DeliveryInv, TypeOK, TablesOK, keyringVars, tableVars
    <1>6. /\ UNCHANGED <<captured, cached, kept, refused>>
          /\ delivered' \subseteq cached \cap Settled'
        BY DEF Send, sensorVars, tableVars, Settled, DeliveryInv, AckedIsSettled, TypeOK, CacheOK
    <1>7. QED
        BY <1>1, <1>3, <1>4, <1>5, <1>6, ExchangeStep

\* The loop's own steps.
LEMMA ForwarderKeeps == DeliveryInv /\ ForwarderStep => DeliveryInv'
    <1> SUFFICES ASSUME DeliveryInv, ForwarderStep PROVE DeliveryInv'
        OBVIOUS
    <1> USE DEF Kinds, Waiting
    <1>1. CASE CycleEnroll
        BY <1>1, SendStep DEF CycleEnroll
    <1>2. CASE CycleForward
        <2>1. OldestBatch \subseteq cached
            BY BatchIsUndelivered DEF Undelivered
        <2>2. QED
            BY <1>2, <2>1, SendStep DEF CycleForward
    <1>3. CASE CycleIdle \/ Sleep
        <2>1. LoopOK'
            BY <1>3 DEF CycleIdle, Sleep, DeliveryInv, TypeOK, LoopOK, healthVars
        <2>2. TablesOK' /\ faults' \in 0..MaxFaults
            BY <1>3 DEF CycleIdle, Sleep, DeliveryInv, TypeOK, TablesOK, keyringVars, tableVars
        <2>3. QED
            BY <1>3, <2>1, <2>2, QuietStep DEF CycleIdle, Sleep, tableVars
    <1>4. CASE Heartbeat
        BY <1>4, SendStep DEF Heartbeat
    <1>5. CASE Broken
        <2>1. LoopOK'
            BY <1>5, ForwardingAssumption
            DEF Broken, Conclude, DeliveryInv, TypeOK, LoopOK
        <2>2. TablesOK' /\ faults' \in 0..MaxFaults
            BY <1>5 DEF Broken, DeliveryInv, TypeOK, TablesOK, keyringVars, tableVars
        <2>3. QED
            BY <1>5, <2>1, <2>2, QuietStep DEF Broken, tableVars
    <1>6. CASE ReceiveEnroll \/ ReceiveAck \/ ReceiveRefusal
        <2>1. conn \in Conns
            BY <1>6 DEF ReceiveEnroll, ReceiveAck, MarkDelivered, ReceiveRefusal, DeliveryInv, TypeOK, LoopOK
        <2>2. LoopOK'
            BY <1>6, ForwardingAssumption
            DEF ReceiveEnroll, ReceiveAck, MarkDelivered, ReceiveRefusal, Conclude, DeliveryInv, TypeOK, LoopOK
        <2>3. TablesOK' /\ faults' \in 0..MaxFaults /\ UNCHANGED <<kept, refused, Settled>>
            BY <1>6 DEF ReceiveEnroll, ReceiveAck, MarkDelivered, ReceiveRefusal, DeliveryInv, TypeOK, TablesOK,
                        keyringVars, tableVars, Settled
        <2>4. UNCHANGED <<captured, cached>> /\ delivered' \subseteq cached \cap Settled
            BY <1>6, <2>1
            DEF ReceiveEnroll, ReceiveAck, MarkDelivered, ReceiveRefusal, sensorVars, DeliveryInv, TypeOK,
                CacheOK, AckedIsSettled
        <2>5. call' = [call EXCEPT ![conn] = FreeCall]
            BY <1>6 DEF ReceiveEnroll, ReceiveAck, MarkDelivered, ReceiveRefusal, Release
        <2>6. RowInsertedIn(FreeCall, kept')
            BY FreeCallType DEF RowInsertedIn
        <2>7. QED
            BY <2>1, <2>2, <2>3, <2>4, <2>5, <2>6, FreeCallType, ExchangeStep
    <1>7. QED
        BY <1>1, <1>2, <1>3, <1>4, <1>5, <1>6 DEF ForwarderStep

\* Settling a row, or giving it up for this batch, keeps the exchange sound.
LEMMA DoneStep ==
    ASSUME DeliveryInv, NEW c \in Conns, NEW r \in call[c].todo, NEW ack \in BOOLEAN,
           ack => r \in Settled',
           Done(c, r, ack), UNCHANGED <<sensorVars, loopVars, healthVars>>,
           kept \subseteq kept', refused \subseteq refused', TablesOK', faults' \in 0..MaxFaults
    PROVE  DeliveryInv'
    <1> DEFINE v == [call[c] EXCEPT !.stage = "serving", !.todo = @ \ {r},
                                    !.acked = IF ack THEN @ \cup {r} ELSE @]
    <1>1. /\ call[c] \in Call /\ call[c].todo \subseteq 1..captured
          /\ call[c].acked \subseteq Settled /\ delivered \subseteq cached \cap Settled
        BY DEF DeliveryInv, TypeOK, CacheOK, BatchIsCaptured, AckedIsSettled
    <1>2. v \in Call
        BY <1>1 DEF Call, Stages
    <1>3. /\ v.todo \subseteq 1..captured /\ v.acked \subseteq Settled'
          /\ RowInsertedIn(v, kept') /\ delivered \subseteq cached \cap Settled'
        BY <1>1 DEF Call, RowInsertedIn, Settled
    <1>4. call' = [call EXCEPT ![c] = v]
        BY DEF Done
    <1>5. LoopOK'
        BY DEF DeliveryInv, TypeOK, LoopOK, loopVars, healthVars
    <1>6. QED
        BY <1>1, <1>2, <1>3, <1>4, <1>5, ExchangeStep DEF sensorVars

\* An exchange that ends, or moves on without touching its rows.
LEMMA ExchangeKeeps ==
    ASSUME DeliveryInv, NEW c \in Conns, NEW v \in Call,
           v.todo \subseteq call[c].todo, v.acked \subseteq call[c].acked,
           v.stage # "finalizing",
           call' = [call EXCEPT ![c] = v],
           UNCHANGED <<sensorVars, kept, refused>>,
           LoopOK', TablesOK', faults' \in 0..MaxFaults
    PROVE  DeliveryInv'
    <1>1. /\ call[c].todo \subseteq 1..captured /\ call[c].acked \subseteq Settled
          /\ delivered \subseteq cached \cap Settled
        BY DEF DeliveryInv, TypeOK, CacheOK, BatchIsCaptured, AckedIsSettled
    <1>2. UNCHANGED <<captured, cached, delivered, Settled>>
        BY DEF sensorVars, Settled
    <1>3. QED
        BY <1>1, <1>2, ExchangeStep DEF RowInsertedIn

\* The Standalone's handlers, statement by statement.
LEMMA HandlerKeeps ==
    ASSUME DeliveryInv, NEW c \in Conns, HandlerStep(c)
    PROVE  DeliveryInv'
    <1>0. /\ call \in [Conns -> Call] /\ call[c] \in Call /\ LoopOK /\ TablesOK
          /\ faults \in 0..MaxFaults
        BY DEF DeliveryInv, TypeOK
    <1>1. CASE ServeEnroll(c)
        <2>1. PICK code \in Codes : call' = [call EXCEPT ![c] = Answer(c, code)]
            BY <1>1 DEF ServeEnroll, Codes
        <2>2. LoopOK'
            BY <1>0, <1>1 DEF ServeEnroll, LoopOK, loopVars, healthVars
        <2>3. TablesOK' /\ faults' \in 0..MaxFaults
            BY <1>0, <1>1 DEF ServeEnroll, TouchSeen, TablesOK, keyringVars, tableVars, Statuses
        <2>4. QED
            BY <1>0, <1>1, <2>1, <2>2, <2>3, AnswerType, ExchangeKeeps DEF ServeEnroll, tableVars
    <1>2. CASE Lookup(c) \/ Touch(c) \/ Finish(c)
        <2> DEFINE next(s) == [call[c] EXCEPT !.stage = s]
        <2>1. /\ next("authed") \in Call /\ next("serving") \in Call
              /\ next("authed").stage = "authed" /\ next("serving").stage = "serving"
            BY <1>0 DEF Call, Stages
        <2>2. /\ Answer(c, "ok") \in Call /\ Answer(c, "forbidden") \in Call
              /\ \A code \in {"ok", "forbidden"} :
                    /\ Answer(c, code).stage = "reply"
                    /\ Answer(c, code).todo = {} /\ Answer(c, code).acked = call[c].acked
            BY <1>0, AnswerType DEF Codes
        <2>3. PICK v \in Call : /\ call' = [call EXCEPT ![c] = v]
                                /\ v.todo \subseteq call[c].todo
                                /\ v.acked \subseteq call[c].acked
                                /\ v.stage # "finalizing"
            <3>1. CASE Lookup(c)
                BY <1>0, <2>1, <2>2, <3>1 DEF Lookup, Call
            <3>2. CASE Touch(c)
                BY <1>0, <2>1, <3>2 DEF Touch, Call
            <3>3. CASE Finish(c)
                BY <1>0, <2>2, <3>3 DEF Finish
            <3>4. QED
                BY <1>2, <3>1, <3>2, <3>3
        <2>4. LoopOK'
            BY <1>0, <1>2 DEF Lookup, Touch, Finish, LoopOK, loopVars, healthVars
        <2>5. TablesOK' /\ faults' \in 0..MaxFaults
            BY <1>0, <1>2 DEF Lookup, Touch, Finish, TouchSeen, TablesOK, keyringVars, tableVars
        <2>6. QED
            BY <1>2, <2>3, <2>4, <2>5, ExchangeKeeps DEF Lookup, Touch, Finish, tableVars
    <1>3. CASE InsertRow(c)
        <2>1. PICK r \in call[c].todo : /\ IsOldest(r, call[c].todo)
                                        /\ stored' = stored \cup {r} /\ kept' = kept \cup {r}
            BY <1>3 DEF InsertRow
        <2>2. r \in Rows
            BY <1>0 DEF Call
        <2> DEFINE v == [call[c] EXCEPT !.stage = "finalizing"]
        <2>3. v \in Call /\ v.todo = call[c].todo /\ v.acked = call[c].acked
            BY <1>0 DEF Call, Stages
        <2>4. LoopOK'
            BY <1>0, <1>3 DEF InsertRow, LoopOK, loopVars, healthVars
        <2>5. TablesOK' /\ faults' \in 0..MaxFaults
            BY <1>0, <1>3, <2>1, <2>2 DEF InsertRow, keyringVars, TablesOK
        <2>6. kept \subseteq kept' /\ refused' = refused /\ UNCHANGED sensorVars
            BY <1>3, <2>1 DEF InsertRow
        <2>7. /\ v.todo \subseteq 1..captured /\ v.acked \subseteq Settled'
              /\ delivered \subseteq cached \cap Settled'
            BY <2>3, <2>6
            DEF DeliveryInv, TypeOK, CacheOK, BatchIsCaptured, AckedIsSettled, Settled
        <2>0. RowInsertedIn(v, kept')
            <3>1. \A s \in call[c].todo : IsOldest(s, call[c].todo) => s = r
                BY <1>0, <2>1, <2>2 DEF IsOldest, Call, Rows
            <3>2. QED
                BY <2>1, <2>3, <3>1 DEF RowInsertedIn
        <2>8. call' = [call EXCEPT ![c] = v]
            BY <1>3 DEF InsertRow
        <2>9. QED
            BY <2>0, <2>3, <2>4, <2>5, <2>6, <2>7, <2>8, ExchangeStep DEF sensorVars
    <1>4. CASE SkipDuplicate(c)
        <2>1. PICK r \in call[c].todo : r \in stored /\ Done(c, r, TRUE)
            BY <1>4 DEF SkipDuplicate
        <2>2. r \in Settled' /\ UNCHANGED <<kept, refused>> /\ TablesOK'
            BY <1>0, <1>4, <2>1 DEF SkipDuplicate, keyringVars, tableVars, TablesOK, Settled
        <2>3. QED
            BY <1>0, <1>4, <2>1, <2>2, DoneStep DEF SkipDuplicate
    <1>5. CASE RefuseRow(c)
        <2>1. PICK r \in call[c].todo : refused' = refused \cup {r} /\ Done(c, r, TRUE)
            BY <1>5 DEF RefuseRow
        <2>2. r \in Rows
            BY <1>0 DEF Call
        <2>3. r \in Settled' /\ kept' = kept /\ refused \subseteq refused' /\ TablesOK'
            BY <1>0, <1>5, <2>1, <2>2 DEF RefuseRow, keyringVars, TablesOK, Settled
        <2>4. faults' \in 0..MaxFaults
            BY <1>0, <1>5, ForwardingAssumption DEF RefuseRow, Fault
        <2>5. QED
            BY <1>5, <2>1, <2>3, <2>4, DoneStep DEF RefuseRow
    <1>6. CASE FinalizeRow(c)
        <2>1. PICK r \in call[c].todo : /\ IsOldest(r, call[c].todo)
                                        /\ announced' = [announced EXCEPT ![r] = @ + 1]
                                        /\ Done(c, r, TRUE)
            BY <1>6 DEF FinalizeRow
        <2>2. r \in kept /\ r \in Rows
            BY <1>0, <1>6, <2>1
            DEF FinalizeRow, DeliveryInv, FinalizingIsKept, RowInsertedIn, Call
        <2>3. TablesOK' /\ r \in Settled' /\ UNCHANGED <<kept, refused>>
            BY <1>0, <1>6, <2>1, <2>2 DEF FinalizeRow, keyringVars, TablesOK, Settled
        <2>4. QED
            BY <1>0, <1>6, <2>1, <2>3, DoneStep DEF FinalizeRow
    <1>7. QED
        BY <1>1, <1>2, <1>3, <1>4, <1>5, <1>6 DEF HandlerStep

\* Exchanges that break, and the faults of statements, nodes and clients.
LEMMA DropKeeps ==
    ASSUME DeliveryInv, NEW c \in Conns, Drop(c)
    PROVE  DeliveryInv'
    <1>1. LoopOK' /\ TablesOK'
        BY FinalizingType
        DEF Drop, DeliveryInv, TypeOK, LoopOK, TablesOK, loopVars, healthVars, keyringVars
    <1>2. faults' \in 0..MaxFaults
        BY ForwardingAssumption DEF Drop, Fault, DeliveryInv, TypeOK
    <1>3. QED
        BY <1>1, <1>2, FreeCallType, ExchangeKeeps DEF Drop, Release

LEMMA RowFaultKeeps ==
    ASSUME DeliveryInv, NEW c \in Conns, Reject(c) \/ RetryRow(c) \/ FinalizeFails(c)
    PROVE  DeliveryInv'
    <1>0. /\ call \in [Conns -> Call] /\ call[c] \in Call
          /\ LoopOK' /\ TablesOK' /\ UNCHANGED <<kept, refused>>
        BY FinalizingType
        DEF Reject, RetryRow, FinalizeFails, DeliveryInv, TypeOK, LoopOK, TablesOK, loopVars,
            healthVars, keyringVars, tableVars
    <1>1. faults' \in 0..MaxFaults
        <2>1. Fault /\ faults \in 0..MaxFaults
            BY DEF Reject, RetryRow, FinalizeFails, DeliveryInv, TypeOK
        <2>2. QED
            BY <2>1, ForwardingAssumption DEF Fault
    <1>2. CASE Reject(c)
        <2>1. /\ Answer(c, "error") \in Call /\ Answer(c, "error").stage = "reply"
              /\ Answer(c, "error").todo = {} /\ Answer(c, "error").acked = call[c].acked
            BY <1>0, AnswerType DEF Codes
        <2>2. QED
            BY <1>0, <1>1, <1>2, <2>1, ExchangeKeeps DEF Reject
    <1>3. CASE RetryRow(c)
        <2>1. PICK r \in call[c].todo : Done(c, r, FALSE)
            BY <1>3 DEF RetryRow
        <2>2. QED
            BY <1>0, <1>1, <1>3, <2>1, DoneStep DEF RetryRow
    <1>4. CASE FinalizeFails(c)
        <2>1. PICK r \in call[c].todo, ack \in BOOLEAN :
                  IsOldest(r, call[c].todo) /\ Done(c, r, ack)
            BY <1>4 DEF FinalizeFails
        <2>2. r \in Settled'
            BY <1>0, <1>4, <2>1
            DEF FinalizeFails, DeliveryInv, FinalizingIsKept, RowInsertedIn, Settled
        <2>3. QED
            BY <1>0, <1>1, <1>4, <2>1, <2>2, DoneStep DEF FinalizeFails
    <1>5. QED
        BY <1>2, <1>3, <1>4

LEMMA NodeFaultKeeps ==
    ASSUME DeliveryInv,
           CycleRetarget \/ MarkFails \/ Timeout \/ SensorCrash \/ StandaloneCrash
    PROVE  DeliveryInv'
    <1>1. faults' \in 0..MaxFaults
        BY ForwardingAssumption
        DEF CycleRetarget, MarkFails, Timeout, SensorCrash, StandaloneCrash, Fault, DeliveryInv,
            TypeOK
    <1>2. TablesOK' /\ UNCHANGED <<sensorVars, kept, refused>>
        BY FinalizingType
        DEF CycleRetarget, MarkFails, Timeout, SensorCrash, StandaloneCrash, DeliveryInv,
            TypeOK, TablesOK, keyringVars, tableVars
    <1>3. LoopOK'
        BY ForwardingAssumption
        DEF CycleRetarget, MarkFails, Timeout, SensorCrash, StandaloneCrash, Conclude,
            DeliveryInv, TypeOK, LoopOK, Waiting, loopVars, healthVars
    <1>4. CASE CycleRetarget \/ Timeout \/ SensorCrash
        BY <1>1, <1>2, <1>3, <1>4, QuietStep DEF CycleRetarget, Timeout, SensorCrash
    <1>5. CASE MarkFails
        <2>1. conn \in Conns
            BY <1>5 DEF MarkFails, DeliveryInv, TypeOK, LoopOK, Waiting
        <2>2. QED
            BY <1>1, <1>2, <1>3, <1>5, <2>1, FreeCallType, ExchangeKeeps DEF MarkFails, Release
    <1>6. CASE StandaloneCrash
        <2>1. /\ call' \in [Conns -> Call]
              /\ \A d \in Conns : /\ call'[d].stage = "free"
                                 /\ call'[d].todo = {} /\ call'[d].acked = {}
            BY <1>6, FreeCallType DEF StandaloneCrash
        <2>2. BatchIsCaptured' /\ FinalizingIsKept'
            BY <2>1 DEF BatchIsCaptured, FinalizingIsKept, RowInsertedIn
        <2>3. CacheOK' /\ AckedIsSettled'
            BY <1>2, <2>1
            DEF DeliveryInv, TypeOK, CacheOK, AckedIsSettled, Settled, sensorVars
        <2>4. QED
            BY <1>1, <1>2, <1>3, <2>1, <2>2, <2>3 DEF DeliveryInv, TypeOK
    <1>7. QED
        BY <1>4, <1>5, <1>6

\* Captures, expiry, operators and clocks.
LEMMA EnvironmentKeeps ==
    ASSUME DeliveryInv, Capture \/ OperatorStep \/ TimeStep
    PROVE  DeliveryInv'
    <1>0. /\ LoopOK' /\ faults' \in 0..MaxFaults /\ UNCHANGED <<kept, refused>>
        BY DEF Capture, OperatorStep, TimeStep, StartApproval, SetApproved, AbandonApproval, Revoke,
               Erase, HeartbeatDue, SeenExpires, Prune, DeliveryInv, TypeOK, LoopOK, loopVars,
               healthVars, tableVars
    <1>1. TablesOK'
        BY DEF Capture, OperatorStep, TimeStep, StartApproval, SetApproved, AbandonApproval, Revoke,
               Erase, HeartbeatDue, SeenExpires, Prune, DeliveryInv, TypeOK, TablesOK, keyringVars,
               tableVars, Statuses
    <1>2. CASE Capture \/ Prune
        <2>0. CacheOK /\ captured \in Nat /\ cached \subseteq Nat
            BY ForwardingAssumption DEF DeliveryInv, TypeOK, CacheOK
        <2>1. CacheOK' /\ captured <= captured' /\ delivered' \subseteq delivered
            <3>1. CASE Capture
                BY <2>0, <3>1, ForwardingAssumption DEF Capture, CacheOK
            <3>2. CASE Prune
                <4>1. PICK cutoff \in cached :
                          /\ cached' = {r \in cached : r > cutoff}
                          /\ delivered' = {r \in delivered : r > cutoff}
                    BY <3>2 DEF Prune
                <4>2. captured' = captured
                    BY <3>2 DEF Prune
                <4>3. cached' \subseteq cached /\ delivered' \subseteq delivered
                    BY <4>1
                <4>4. delivered' \subseteq cached'
                    BY <2>0, <4>1 DEF CacheOK
                <4>5. QED
                    BY <2>0, <4>2, <4>3, <4>4 DEF CacheOK
            <3>3. QED
                BY <1>2, <3>1, <3>2
        <2>2. 1..captured \subseteq 1..captured' /\ UNCHANGED call
            BY <1>2, <2>1, ForwardingAssumption DEF DeliveryInv, TypeOK, CacheOK, Capture, Prune
        <2>3. BatchIsCaptured' /\ AckedIsSettled' /\ FinalizingIsKept'
            BY <1>0, <2>1, <2>2
            DEF DeliveryInv, BatchIsCaptured, AckedIsSettled, FinalizingIsKept, RowInsertedIn,
                IsOldest, Settled
        <2>4. QED
            BY <1>0, <1>1, <2>1, <2>2, <2>3 DEF DeliveryInv, TypeOK
    <1>3. CASE \/ \E o \in Operators : StartApproval(o) \/ AbandonApproval(o)
               \/ Revoke \/ Erase \/ HeartbeatDue \/ SeenExpires
        BY <1>0, <1>1, <1>3, QuietStep
        DEF StartApproval, AbandonApproval, Revoke, Erase, HeartbeatDue, SeenExpires, sensorVars,
            tableVars
    <1>4. ASSUME NEW o \in Operators, SetApproved(o) PROVE DeliveryInv'
        <2>1. UNCHANGED <<sensorVars, kept, refused>>
            BY <1>4 DEF SetApproved, tableVars
        <2>2. /\ call' \in [Conns -> Call]
              /\ \A c \in Conns : /\ call'[c].stage = call[c].stage /\ call'[c].todo = call[c].todo
                                 /\ call'[c].acked = call[c].acked
            BY <1>4, ApprovalStep DEF DeliveryInv
        <2>3. CacheOK' /\ BatchIsCaptured' /\ AckedIsSettled' /\ FinalizingIsKept'
            BY <2>1, <2>2
            DEF sensorVars, DeliveryInv, TypeOK, CacheOK, BatchIsCaptured, AckedIsSettled, Settled,
                FinalizingIsKept, RowInsertedIn, IsOldest
        <2>4. QED
            BY <1>0, <1>1, <2>2, <2>3 DEF DeliveryInv, TypeOK
    <1>5. QED
        BY <1>2, <1>3, <1>4 DEF OperatorStep, TimeStep

LEMMA NextDelivery == DeliveryInv /\ [Next]_vars => DeliveryInv'
    <1> SUFFICES ASSUME DeliveryInv, [Next]_vars PROVE DeliveryInv'
        OBVIOUS
    <1>1. CASE UNCHANGED vars
        <2>1. LoopOK' /\ TablesOK' /\ faults' \in 0..MaxFaults
            BY <1>1 DEF vars, DeliveryInv, TypeOK, LoopOK, TablesOK, loopVars, healthVars, keyringVars, tableVars
        <2>2. QED
            BY <1>1, <2>1, QuietStep DEF vars, tableVars
    <1>2. CASE Next
        BY <1>2, ForwarderKeeps, HandlerKeeps, DropKeeps, RowFaultKeeps, NodeFaultKeeps,
           EnvironmentKeeps
        DEF Next, FaultStep
    <1>3. QED
        BY <1>1, <1>2

LEMMA DeliveryInvariant == Spec => []DeliveryInv
    BY InitDelivery, NextDelivery, PTL DEF Spec

\* Every variable of the forward path has its type in every reachable state.
THEOREM ForwardingTypeOK == Spec => []TypeOK
    <1>1. DeliveryInv => TypeOK
        BY DEF DeliveryInv
    <1>2. QED
        BY <1>1, DeliveryInvariant, PTL

\* No row is marked delivered, and none acknowledged, that the Standalone has
\* neither stored nor refused.
THEOREM DeliveredWasSettled == Spec => []AckedIsSettled
    <1>1. DeliveryInv => AckedIsSettled
        BY DEF DeliveryInv
    <1>2. QED
        BY <1>1, DeliveryInvariant, PTL

-----------------------------------------------------------------------------
(* The forward path implements ReliableDelivery. *)

LEMMA DeliveryInitMaps == Init => Delivery!Init
    BY DEF Init, Delivery!Init, Undelivered, Settled

\* Every step captures one row, settles one row, acknowledges settled rows,
\* expires rows, or leaves all four sets alone.
LEMMA DeliveryStepMaps ==
    ASSUME DeliveryInv, [Next]_vars
    PROVE  Delivery!Next \/ UNCHANGED <<1..captured, Undelivered, delivered, Settled>>
    <1>0. /\ captured \in Nat /\ MaxRow \in Nat /\ captured <= MaxRow
          /\ cached \subseteq 1..captured /\ delivered \subseteq cached
        BY ForwardingAssumption DEF DeliveryInv, TypeOK, CacheOK
    <1>1. CASE Capture
        <2>1. /\ captured' = captured + 1 /\ captured + 1 \in Rows \ (1..captured)
              /\ captured + 1 \notin cached
            BY <1>0, <1>1 DEF Capture, Rows
        <2>2. 1..captured' = (1..captured) \cup {captured + 1}
            BY <1>0, <2>1
        <2>3. Undelivered' = Undelivered \cup {captured + 1} /\ delivered' = delivered
            BY <1>0, <1>1, <2>1 DEF Capture, Undelivered
        <2>4. Settled' = Settled
            BY <1>1 DEF Capture, tableVars, Settled
        <2>5. QED
            BY <2>1, <2>2, <2>3, <2>4 DEF Delivery!Next, Delivery!Produce
    <1>2. CASE Prune
        <2>1. PICK cutoff \in cached : /\ cached' = {r \in cached : r > cutoff}
                                       /\ delivered' = {r \in delivered : r > cutoff}
            BY <1>2 DEF Prune
        <2> DEFINE R == {r \in cached : ~(r > cutoff)}
        <2>2. R \in SUBSET Rows
            <3>1. \A r \in 1..captured : r \in Rows
                BY <1>0 DEF Rows
            <3>2. QED
                BY <1>0, <3>1
        <2>3. Undelivered' = Undelivered \ R /\ delivered' = delivered \ R
            BY <1>0, <2>1 DEF Undelivered
        <2>4. captured' = captured /\ Settled' = Settled
            BY <1>2 DEF Prune, tableVars, Settled
        <2>5. QED
            BY <2>2, <2>3, <2>4 DEF Delivery!Next, Delivery!Expire
    <1>3. CASE ReceiveAck
        <2> DEFINE R == (call[conn].acked \cap cached) \ delivered
        <2>1. conn \in Conns
            BY <1>3 DEF ReceiveAck, MarkDelivered, DeliveryInv, TypeOK, LoopOK, Waiting
        <2>2. R \in SUBSET (Undelivered \cap Settled)
            BY <2>1 DEF DeliveryInv, AckedIsSettled, Undelivered
        <2>3. Undelivered' = Undelivered \ R /\ delivered' = delivered \cup R
            BY <1>3 DEF ReceiveAck, MarkDelivered, Undelivered
        <2>4. captured' = captured /\ Settled' = Settled
            BY <1>3 DEF ReceiveAck, MarkDelivered, tableVars, Settled
        <2>5. QED
            BY <2>2, <2>3, <2>4 DEF Delivery!Next, Delivery!Acknowledge
    <1>4. CASE \E c \in Conns : InsertRow(c) \/ RefuseRow(c)
        <2>1. PICK c \in Conns : InsertRow(c) \/ RefuseRow(c)
            BY <1>4
        <2>2. PICK r \in call[c].todo : Settled' = Settled \cup {r}
            BY <2>1 DEF InsertRow, RefuseRow, Settled
        <2>3. r \in 1..captured
            BY DEF DeliveryInv, BatchIsCaptured
        <2>4. captured' = captured /\ Undelivered' = Undelivered /\ delivered' = delivered
            BY <2>1 DEF InsertRow, RefuseRow, sensorVars, Undelivered
        <2>5. QED
            BY <2>2, <2>3, <2>4 DEF Delivery!Next, Delivery!Settle
    <1>5. CASE UNCHANGED <<sensorVars, kept, refused>>
        BY <1>5 DEF sensorVars, Undelivered, Settled
    <1>6. QED
        BY <1>1, <1>2, <1>3, <1>4, <1>5
        DEF Next, vars, tableVars, ForwarderStep, CycleEnroll, CycleForward, CycleIdle, Heartbeat,
            Sleep, Send, ReceiveEnroll, ReceiveRefusal, Broken, HandlerStep, ServeEnroll,
            Lookup, Touch, SkipDuplicate, FinalizeRow, Finish, Drop, FaultStep, CycleRetarget,
            MarkFails, Timeout, SensorCrash, StandaloneCrash, Reject, RetryRow, FinalizeFails,
            OperatorStep, StartApproval, SetApproved, AbandonApproval, Revoke, Erase, TimeStep,
            HeartbeatDue, SeenExpires

\* The forward path keeps the promise of ReliableDelivery: a row is owed until it
\* expires or is acknowledged, and acknowledged only after it was settled.
THEOREM ForwardingImplementsDelivery == Spec => ImplementsDelivery
    BY DeliveryInitMaps, DeliveryStepMaps, DeliveryInvariant, PTL
    DEF Spec, ImplementsDelivery, Delivery!Spec

-----------------------------------------------------------------------------
(* Revocation.  A late request belongs to a sensor that has been revoked     *)
(* ever since it was sent, so no lookup finds that sensor approved.          *)

LateIsRevoked == (\E c \in Conns : call[c].late) => status = "revoked"

RevocationInv == RevokedNeverAdmitted /\ LateIsRevoked

\* Nothing undoes a revocation but an approval that had passed its check.
LEMMA RevokedForGood ==
    ASSUME [Next]_vars, status = "revoked", ~\E o \in Operators : SetApproved(o)
    PROVE  status' = "revoked"
    BY DEF Next, vars, Capture, ForwarderStep, CycleEnroll, CycleForward, CycleIdle, Heartbeat,
           Sleep, Send, ReceiveEnroll, ReceiveAck, ReceiveRefusal, Broken, HandlerStep,
           ServeEnroll, Lookup, Touch, InsertRow, SkipDuplicate, RefuseRow, FinalizeRow, Finish,
           Drop, FaultStep, CycleRetarget, MarkFails, Timeout, SensorCrash, StandaloneCrash,
           Reject, RetryRow, FinalizeFails, OperatorStep, StartApproval, SetApproved,
           AbandonApproval, Revoke, Erase, TimeStep, HeartbeatDue, SeenExpires, Prune, keyringVars

\* What a step may do to an exchange: a request is late only if it is sent now and the
\* sensor is revoked; one that is late already is not admitted, and the others may be.
Lawful(c) ==
    \/ call'[c] = call[c]
    \/ call'[c].stage \in {"free", "sent", "reply"} /\ (call'[c].late => call[c].late \/ status = "revoked")
    \/ call'[c].late = call[c].late /\ (call[c].stage = "sent" => status = "approved")
       /\ call[c].stage \in {"sent", "authed", "serving", "finalizing"}

LEMMA OneChanges ==
    ASSUME call \in [Conns -> Call], NEW c \in Conns, NEW v,
           call' = [call EXCEPT ![c] = v],
           \/ v.stage \in {"free", "sent", "reply"} /\ (v.late => call[c].late \/ status = "revoked")
           \/ v.late = call[c].late /\ (call[c].stage = "sent" => status = "approved")
              /\ call[c].stage \in {"sent", "authed", "serving", "finalizing"}
    PROVE  \A d \in Conns : Lawful(d)
    BY DEF Lawful

LEMMA FreeIsLawful == FreeCall.stage = "free" /\ ~FreeCall.late
    BY DEF FreeCall

LEMMA SendIsLawful ==
    ASSUME call \in [Conns -> Call], NEW kind, NEW rows, NEW waiting, Send(kind, rows, waiting)
    PROVE  \A d \in Conns : Lawful(d)
    <1>1. PICK c \in Conns : call' = [call EXCEPT ![c] = Request(kind, rows)]
        BY DEF Send
    <1>2. Request(kind, rows).stage = "sent" /\ (Request(kind, rows).late => status = "revoked")
        BY DEF Request, FreeCall
    <1>3. QED
        BY <1>1, <1>2, OneChanges

LEMMA AnswerIsLawful ==
    ASSUME call \in [Conns -> Call], NEW c \in Conns, NEW code,
           call' = [call EXCEPT ![c] = Answer(c, code)]
    PROVE  \A d \in Conns : Lawful(d)
    <1>1. Answer(c, code).stage = "reply" /\ Answer(c, code).late = call[c].late
        BY DEF Answer, Call
    <1>2. QED
        BY <1>1, OneChanges

LEMMA DoneIsLawful ==
    ASSUME call \in [Conns -> Call], NEW c \in Conns, NEW r, NEW ack,
           call[c].stage \in {"serving", "finalizing"}, Done(c, r, ack)
    PROVE  \A d \in Conns : Lawful(d)
    <1> DEFINE v == [call[c] EXCEPT !.stage = "serving", !.todo = @ \ {r},
                                    !.acked = IF ack THEN @ \cup {r} ELSE @]
    <1>1. call' = [call EXCEPT ![c] = v]
        BY DEF Done
    <1>2. v.late = call[c].late
        BY DEF Call
    <1>3. QED
        BY <1>1, <1>2, OneChanges

LEMMA NextIsLawful ==
    ASSUME TypeOK, [Next]_vars, ~\E o \in Operators : SetApproved(o)
    PROVE  \A d \in Conns : Lawful(d)
    <1>0. call \in [Conns -> Call]
        BY DEF TypeOK
    <1>1. CASE UNCHANGED call
        BY <1>1 DEF Lawful
    <1>2. CASE CycleEnroll \/ CycleForward \/ Heartbeat
        BY <1>0, <1>2, SendIsLawful DEF CycleEnroll, CycleForward, Heartbeat
    <1>3. CASE ReceiveEnroll \/ ReceiveAck \/ ReceiveRefusal \/ MarkFails
        <2>1. conn \in Conns /\ call' = [call EXCEPT ![conn] = FreeCall]
            BY <1>3 DEF ReceiveEnroll, ReceiveAck, ReceiveRefusal, MarkFails, Release, TypeOK, LoopOK, Waiting
        <2>2. QED
            BY <1>0, <2>1, FreeIsLawful, OneChanges
    <1>4. ASSUME NEW c \in Conns, Drop(c) PROVE \A d \in Conns : Lawful(d)
        BY <1>0, <1>4, FreeIsLawful, OneChanges DEF Drop, Release
    <1>5. CASE StandaloneCrash
        BY <1>5, FreeIsLawful DEF StandaloneCrash, Lawful
    <1>6. ASSUME NEW c \in Conns, ServeEnroll(c) \/ Reject(c) \/ Finish(c)
          PROVE  \A d \in Conns : Lawful(d)
        BY <1>0, <1>6, AnswerIsLawful DEF ServeEnroll, Reject, Finish
    <1>7. ASSUME NEW c \in Conns, Lookup(c) PROVE \A d \in Conns : Lawful(d)
        <2>1. CASE status = "approved"
            <3>1. call' = [call EXCEPT ![c] = [call[c] EXCEPT !.stage = "authed"]]
                BY <1>0, <1>7, <2>1 DEF Lookup
            <3>2. [call[c] EXCEPT !.stage = "authed"].late = call[c].late /\ call[c].stage = "sent"
                BY <1>0, <1>7 DEF Lookup, Call
            <3>3. QED
                BY <1>0, <2>1, <3>1, <3>2, OneChanges
        <2>2. CASE status # "approved"
            BY <1>0, <1>7, <2>2, AnswerIsLawful DEF Lookup
        <2>3. QED
            BY <2>1, <2>2
    <1>8. ASSUME NEW c \in Conns, NEW s \in {"serving", "finalizing"}, call[c].stage \in {"authed", "serving"},
                 call' = [call EXCEPT ![c].stage = s]
          PROVE  \A d \in Conns : Lawful(d)
        <2>1. call' = [call EXCEPT ![c] = [call[c] EXCEPT !.stage = s]]
            BY <1>0, <1>8
        <2>2. [call[c] EXCEPT !.stage = s].late = call[c].late
            BY <1>0 DEF Call
        <2>3. QED
            BY <1>0, <1>8, <2>1, <2>2, OneChanges
    <1>9. ASSUME NEW c \in Conns,
                 SkipDuplicate(c) \/ RefuseRow(c) \/ FinalizeRow(c) \/ RetryRow(c) \/ FinalizeFails(c)
          PROVE  \A d \in Conns : Lawful(d)
        <2>1. /\ call[c].stage \in {"serving", "finalizing"}
              /\ \E r \in call[c].todo, ack \in BOOLEAN : Done(c, r, ack)
            BY <1>9 DEF SkipDuplicate, RefuseRow, FinalizeRow, RetryRow, FinalizeFails
        <2>2. QED
            BY <1>0, <2>1, DoneIsLawful
    <1>10. ASSUME NEW c \in Conns, HandlerStep(c) PROVE \A d \in Conns : Lawful(d)
        BY <1>6, <1>7, <1>8, <1>9, <1>10 DEF HandlerStep, Touch, InsertRow
    <1>11. CASE ForwarderStep
        <2>1. CASE CycleIdle \/ Sleep \/ Broken
            BY <1>1, <2>1 DEF CycleIdle, Sleep, Broken
        <2>2. QED
            BY <1>2, <1>3, <1>11, <2>1 DEF ForwarderStep
    <1>12. CASE FaultStep
        <2>1. CASE CycleRetarget \/ Timeout \/ SensorCrash
            BY <1>1, <2>1 DEF CycleRetarget, Timeout, SensorCrash
        <2>2. QED
            BY <1>3, <1>5, <1>6, <1>9, <1>12, <2>1 DEF FaultStep
    <1>13. CASE Capture \/ OperatorStep \/ TimeStep \/ UNCHANGED vars
        BY <1>1, <1>13 DEF Capture, OperatorStep, TimeStep, StartApproval, AbandonApproval, Revoke,
                           Erase, HeartbeatDue, SeenExpires, Prune, vars
    <1>14. QED
        BY <1>4, <1>10, <1>11, <1>12, <1>13 DEF Next

LEMMA InitRevocation == Init => RevocationInv
    BY FreeIsLawful DEF Init, RevocationInv, RevokedNeverAdmitted, LateIsRevoked

LEMMA NextRevocation == TypeOK /\ RevocationInv /\ [Next]_vars => RevocationInv'
    <1> SUFFICES ASSUME TypeOK, RevocationInv, [Next]_vars PROVE RevocationInv'
        OBVIOUS
    <1>1. CASE \E o \in Operators : SetApproved(o)
        BY <1>1, ApprovalStep DEF RevocationInv, LateIsRevoked, RevokedNeverAdmitted
    <1>2. CASE ~\E o \in Operators : SetApproved(o)
        <2>1. \A d \in Conns : Lawful(d)
            BY <1>2, NextIsLawful
        <2>2. LateIsRevoked'
            BY <1>2, <2>1, RevokedForGood DEF Lawful, RevocationInv, LateIsRevoked
        <2>3. RevokedNeverAdmitted'
            BY <2>1 DEF Lawful, RevocationInv, LateIsRevoked, RevokedNeverAdmitted
        <2>4. QED
            BY <2>2, <2>3 DEF RevocationInv
    <1>3. QED
        BY <1>1, <1>2

\* No batch of a sensor that has been revoked since before it was sent is opened, let alone
\* stored, however long the request was under way (step 3 of sensor_listener.rs, ingest), and
\* whatever approvals are still running: only one that completes admits the batch.
THEOREM NoLateAdmission == Spec => []RevokedNeverAdmitted
    <1>1. RevocationInv => RevokedNeverAdmitted
        BY DEF RevocationInv
    <1>2. QED
        BY <1>1, InitRevocation, NextRevocation, ForwardingTypeOK, PTL DEF Spec

\* No step raises the online mark of a sensor that is revoked: the statement that stamps
\* it has its own condition on the status (repo/sensor.rs, touch_seen_from).
THEOREM RevokedIsDark == Spec => RevokedStaysDark
    <1>1. [Next]_vars => [(status = "revoked" /\ seen') => seen]_vars
        BY DEF Next, vars, Capture, ForwarderStep, CycleEnroll, CycleForward, CycleIdle, Heartbeat,
           Sleep, Send, ReceiveEnroll, ReceiveAck, ReceiveRefusal, Broken, HandlerStep,
           ServeEnroll, Lookup, Touch, TouchSeen, InsertRow, SkipDuplicate, RefuseRow, FinalizeRow, Finish,
           Drop, FaultStep, CycleRetarget, MarkFails, Timeout, SensorCrash, StandaloneCrash,
           Reject, RetryRow, FinalizeFails, OperatorStep, StartApproval, SetApproved,
           AbandonApproval, Revoke, Erase, TimeStep, HeartbeatDue, SeenExpires, Prune, keyringVars
    <1>2. QED
        BY <1>1, PTL DEF Spec, RevokedStaysDark

-----------------------------------------------------------------------------
(* Announcements.  A row is finalized by the handler that inserted it and by *)
(* no other, so what was announced of it, and what is being announced, is at *)
(* most what was inserted: once while it is stored, once more if it was      *)
(* deleted.                                                                  *)

\* The handlers that are finalizing a row.
Finalizers(r) == {c \in Conns : call[c].stage = "finalizing" /\ IsOldest(r, call[c].todo)}

\* How often a row has been inserted.
Inserted(r) == (IF r \in stored THEN 1 ELSE 0) + (IF r \in erased THEN 1 ELSE 0)

CountIsBounded(r) ==
    /\ IsFiniteSet(Finalizers(r))
    /\ announced[r] + Cardinality(Finalizers(r)) <= Inserted(r)

AnnouncementInv == \A r \in Rows : CountIsBounded(r)

LEMMA BoundType ==
    ASSUME TypeOK, AnnouncementInv, NEW r \in Rows
    PROVE  /\ announced[r] \in Nat /\ Cardinality(Finalizers(r)) \in Nat
           /\ Inserted(r) \in Nat /\ IsFiniteSet(Finalizers(r))
           /\ announced[r] + Cardinality(Finalizers(r)) <= Inserted(r)
    BY FS_CardinalityType DEF TypeOK, TablesOK, AnnouncementInv, CountIsBounded, Inserted

\* Fewer finalizers, with nothing inserted or announced, keep the bound.
LEMMA FewerFinalizers ==
    ASSUME TypeOK, AnnouncementInv, NEW r \in Rows, Finalizers(r)' \subseteq Finalizers(r),
           announced'[r] = announced[r], Inserted(r)' = Inserted(r)
    PROVE  CountIsBounded(r)'
    <1> DEFINE F == Finalizers(r)'
    <1>1. IsFiniteSet(F) /\ Cardinality(F) <= Cardinality(Finalizers(r))
        BY BoundType, FS_Subset
    <1>2. Cardinality(F) \in Nat
        BY <1>1, FS_CardinalityType
    <1>3. announced'[r] + Cardinality(F) <= Inserted(r)'
        BY <1>1, <1>2, BoundType
    <1>4. QED
        BY <1>1, <1>3 DEF CountIsBounded

\* A step that makes no exchange start finalizing.
LEMMA NobodyStarts ==
    ASSUME TypeOK, AnnouncementInv,
           \A c \in Conns : call'[c] = call[c] \/ call'[c].stage # "finalizing",
           UNCHANGED announced, \A r \in Rows : Inserted(r)' = Inserted(r)
    PROVE  AnnouncementInv'
    <1>1. ASSUME NEW r \in Rows PROVE Finalizers(r)' \subseteq Finalizers(r)
        BY DEF Finalizers, IsOldest
    <1>2. QED
        BY <1>1, FewerFinalizers DEF AnnouncementInv

LEMMA ReplaceQuietly ==
    ASSUME TypeOK, AnnouncementInv, NEW c \in Conns, NEW v,
           call' = [call EXCEPT ![c] = v], v.stage # "finalizing",
           UNCHANGED <<stored, announced, erased>>
    PROVE  AnnouncementInv'
    <1>1. \A d \in Conns : call'[d] = call[d] \/ call'[d].stage # "finalizing"
        BY DEF TypeOK
    <1>2. \A r \in Rows : Inserted(r)' = Inserted(r)
        BY DEF Inserted
    <1>3. QED
        BY <1>1, <1>2, NobodyStarts

\* There is one oldest row of a batch.
LEMMA OldestIsOne ==
    ASSUME NEW c \in Conns, call[c] \in Call, NEW r, NEW s,
           IsOldest(r, call[c].todo), IsOldest(s, call[c].todo)
    PROVE  r = s
    <1>1. r \in 1..MaxRow /\ s \in 1..MaxRow /\ r <= s /\ s <= r
        BY DEF Call, Rows, IsOldest
    <1>2. QED
        BY <1>1, ForwardingAssumption

LEMMA InsertKeepsCount ==
    ASSUME TypeOK, AnnouncementInv, NEW c \in Conns, InsertRow(c)
    PROVE  AnnouncementInv'
    <1>1. PICK r \in call[c].todo \ (stored \cup Poison) :
              /\ IsOldest(r, call[c].todo) /\ stored' = stored \cup {r}
        BY DEF InsertRow
    <1>2. /\ call[c] \in Call /\ call[c].stage = "serving" /\ UNCHANGED <<announced, erased>>
          /\ r \in Rows
        BY <1>1 DEF InsertRow, TypeOK, Call
    <1>3. /\ call'[c].stage = "finalizing" /\ call'[c].todo = call[c].todo
          /\ \A d \in Conns \ {c} : call'[d] = call[d]
        BY DEF InsertRow, TypeOK, Call
    <1>4. ASSUME NEW s \in Rows, s # r PROVE CountIsBounded(s)'
        <2>1. ~IsOldest(s, call[c].todo)
            BY <1>1, <1>2, <1>4, OldestIsOne
        <2>2. Finalizers(s)' \subseteq Finalizers(s)
            BY <1>3, <2>1 DEF Finalizers, IsOldest
        <2>3. Inserted(s)' = Inserted(s)
            BY <1>1, <1>2, <1>4 DEF Inserted
        <2>4. QED
            BY <1>2, <2>2, <2>3, FewerFinalizers
    <1>5. CountIsBounded(r)'
        <2>1. Finalizers(r)' = Finalizers(r) \cup {c}
            BY <1>1, <1>2, <1>3 DEF Finalizers, IsOldest
        <2>2. c \notin Finalizers(r)
            BY <1>2 DEF Finalizers
        <2>3. /\ IsFiniteSet(Finalizers(r)')
              /\ Cardinality(Finalizers(r)') = Cardinality(Finalizers(r)) + 1
            BY <1>2, <2>1, <2>2, BoundType, FS_AddElement
        <2>4. Inserted(r)' = Inserted(r) + 1
            BY <1>1, <1>2 DEF Inserted
        <2>5. QED
            BY <1>2, <2>3, <2>4, BoundType DEF CountIsBounded
    <1>6. QED
        BY <1>4, <1>5 DEF AnnouncementInv

LEMMA FinalizeKeepsCount ==
    ASSUME TypeOK, AnnouncementInv, NEW c \in Conns, FinalizeRow(c)
    PROVE  AnnouncementInv'
    <1>1. PICK r \in call[c].todo : /\ IsOldest(r, call[c].todo)
                                    /\ announced' = [announced EXCEPT ![r] = @ + 1]
                                    /\ Done(c, r, TRUE)
        BY DEF FinalizeRow
    <1>2. /\ call[c] \in Call /\ call[c].stage = "finalizing" /\ UNCHANGED <<stored, erased>>
          /\ r \in Rows
        BY <1>1 DEF FinalizeRow, TypeOK, Call
    <1>3. call'[c].stage = "serving" /\ \A d \in Conns \ {c} : call'[d] = call[d]
        BY <1>1 DEF Done, TypeOK, Call
    <1>4. ASSUME NEW s \in Rows PROVE Inserted(s)' = Inserted(s)
        BY <1>2 DEF Inserted
    <1>5. ASSUME NEW s \in Rows, s # r PROVE CountIsBounded(s)'
        <2>1. Finalizers(s)' \subseteq Finalizers(s)
            BY <1>3 DEF Finalizers, IsOldest
        <2>2. announced'[s] = announced[s]
            BY <1>1, <1>5 DEF TypeOK, TablesOK
        <2>3. QED
            BY <1>4, <2>1, <2>2, FewerFinalizers
    <1>6. CountIsBounded(r)'
        <2>1. Finalizers(r)' = Finalizers(r) \ {c} /\ c \in Finalizers(r)
            BY <1>1, <1>2, <1>3 DEF Finalizers, IsOldest
        <2>2. /\ IsFiniteSet(Finalizers(r)')
              /\ Cardinality(Finalizers(r)') = Cardinality(Finalizers(r)) - 1
            BY <1>2, <2>1, BoundType, FS_RemoveElement
        <2>3. announced'[r] = announced[r] + 1
            BY <1>1, <1>2 DEF TypeOK, TablesOK
        <2>4. QED
            BY <1>2, <1>4, <2>2, <2>3, BoundType DEF CountIsBounded
    <1>7. QED
        BY <1>5, <1>6 DEF AnnouncementInv

LEMMA InitAnnouncement == Init => AnnouncementInv
    <1> SUFFICES ASSUME Init, NEW r \in Rows PROVE CountIsBounded(r)
        BY DEF AnnouncementInv
    <1>1. Finalizers(r) = {}
        BY FreeCallType DEF Init, Finalizers
    <1>2. announced[r] = 0 /\ Inserted(r) = 0
        BY DEF Init, Inserted
    <1>3. QED
        BY <1>1, <1>2, FS_EmptySet DEF CountIsBounded

LEMMA NextAnnouncement == TypeOK /\ AnnouncementInv /\ [Next]_vars => AnnouncementInv'
    <1> SUFFICES ASSUME TypeOK, AnnouncementInv, [Next]_vars PROVE AnnouncementInv'
        OBVIOUS
    <1>0. call \in [Conns -> Call]
        BY DEF TypeOK
    <1>1. CASE UNCHANGED <<call, stored, announced, erased>>
        BY <1>1, NobodyStarts DEF Inserted
    <1>2. ASSUME NEW kind, NEW rows, NEW waiting, Send(kind, rows, waiting) PROVE AnnouncementInv'
        <2>1. PICK c \in Conns : call' = [call EXCEPT ![c] = Request(kind, rows)]
            BY <1>2 DEF Send
        <2>2. Request(kind, rows).stage # "finalizing" /\ UNCHANGED <<stored, announced, erased>>
            BY <1>2 DEF Request, FreeCall, Send, tableVars
        <2>3. QED
            BY <2>1, <2>2, ReplaceQuietly
    <1>3. CASE ReceiveEnroll \/ ReceiveAck \/ ReceiveRefusal \/ MarkFails
        <2>1. conn \in Conns /\ call' = [call EXCEPT ![conn] = FreeCall]
            BY <1>3 DEF ReceiveEnroll, ReceiveAck, ReceiveRefusal, MarkFails, Release, TypeOK, LoopOK, Waiting
        <2>2. UNCHANGED <<stored, announced, erased>>
            BY <1>3 DEF ReceiveEnroll, ReceiveAck, ReceiveRefusal, MarkFails, tableVars
        <2>3. QED
            BY <2>1, <2>2, FreeCallType, ReplaceQuietly
    <1>4. ASSUME NEW c \in Conns, Drop(c) PROVE AnnouncementInv'
        BY <1>4, FreeCallType, ReplaceQuietly DEF Drop, Release
    <1>5. CASE StandaloneCrash
        BY <1>5, FreeCallType, NobodyStarts DEF StandaloneCrash, Inserted
    <1>6. ASSUME NEW c \in Conns, NEW code, call' = [call EXCEPT ![c] = Answer(c, code)],
                 UNCHANGED <<stored, announced, erased>>
          PROVE  AnnouncementInv'
        <2>1. Answer(c, code).stage = "reply"
            BY <1>0 DEF Answer, Call
        <2>2. QED
            BY <1>6, <2>1, ReplaceQuietly
    <1>7. ASSUME NEW c \in Conns, Lookup(c) \/ Touch(c) PROVE AnnouncementInv'
        <2>1. UNCHANGED <<stored, announced, erased>>
            BY <1>7 DEF Lookup, Touch, tableVars
        <2>2. ASSUME NEW s \in {"authed", "serving"}, call' = [call EXCEPT ![c] = [call[c] EXCEPT !.stage = s]]
              PROVE  AnnouncementInv'
            <3>1. [call[c] EXCEPT !.stage = s].stage # "finalizing"
                BY <1>0 DEF Call
            <3>2. QED
                BY <2>1, <2>2, <3>1, ReplaceQuietly
        <2>3. CASE Lookup(c)
            BY <1>6, <2>1, <2>2, <2>3 DEF Lookup
        <2>4. CASE Touch(c)
            <3>1. call' = [call EXCEPT ![c] = [call[c] EXCEPT !.stage = "serving"]]
                BY <1>0, <2>4 DEF Touch
            <3>2. QED
                BY <2>2, <3>1
        <2>5. QED
            BY <1>7, <2>3, <2>4
    <1>8. ASSUME NEW c \in Conns, NEW r, NEW ack, Done(c, r, ack), UNCHANGED <<stored, announced, erased>>
          PROVE  AnnouncementInv'
        <2> DEFINE v == [call[c] EXCEPT !.stage = "serving", !.todo = @ \ {r},
                                        !.acked = IF ack THEN @ \cup {r} ELSE @]
        <2>1. call' = [call EXCEPT ![c] = v] /\ v.stage = "serving"
            BY <1>0, <1>8 DEF Done, Call
        <2>2. QED
            BY <1>8, <2>1, ReplaceQuietly
    <1>9. ASSUME NEW c \in Conns, SkipDuplicate(c) \/ RefuseRow(c) \/ RetryRow(c) \/ FinalizeFails(c)
          PROVE  AnnouncementInv'
        <2>1. /\ \E r, ack : Done(c, r, ack)
              /\ UNCHANGED <<stored, announced, erased>>
            BY <1>9 DEF SkipDuplicate, RefuseRow, RetryRow, FinalizeFails, tableVars
        <2>2. QED
            BY <1>8, <2>1
    <1>10. ASSUME NEW c \in Conns, ServeEnroll(c) \/ Reject(c) \/ Finish(c) PROVE AnnouncementInv'
        BY <1>6, <1>10 DEF ServeEnroll, Reject, Finish, tableVars
    <1>11. CASE Erase
        <2>1. PICK r \in stored \ erased : stored' = stored \ {r} /\ erased' = erased \cup {r}
            BY <1>11 DEF Erase
        <2>2. \A s \in Rows : Inserted(s)' = Inserted(s)
            BY <2>1 DEF Inserted
        <2>3. UNCHANGED <<call, announced>>
            BY <1>11 DEF Erase
        <2>4. QED
            BY <2>2, <2>3, NobodyStarts
    <1>12. ASSUME NEW c \in Conns, HandlerStep(c) PROVE AnnouncementInv'
        BY <1>7, <1>9, <1>10, <1>12, InsertKeepsCount, FinalizeKeepsCount DEF HandlerStep
    <1>13. CASE ForwarderStep
        <2>1. CASE CycleIdle \/ Sleep \/ Broken
            BY <1>1, <2>1 DEF CycleIdle, Sleep, Broken, tableVars
        <2>2. CASE CycleEnroll \/ CycleForward \/ Heartbeat
            BY <1>2, <2>2 DEF CycleEnroll, CycleForward, Heartbeat
        <2>3. QED
            BY <1>3, <1>13, <2>1, <2>2 DEF ForwarderStep
    <1>14. CASE FaultStep
        <2>1. CASE CycleRetarget \/ Timeout \/ SensorCrash
            BY <1>1, <2>1 DEF CycleRetarget, Timeout, SensorCrash, tableVars
        <2>2. QED
            BY <1>3, <1>5, <1>9, <1>10, <1>14, <2>1 DEF FaultStep
    <1>15. CASE \/ \E o \in Operators : StartApproval(o) \/ AbandonApproval(o)
                \/ Capture \/ Revoke \/ TimeStep \/ UNCHANGED vars
        BY <1>1, <1>15 DEF Capture, StartApproval, AbandonApproval, Revoke, TimeStep, HeartbeatDue,
                           SeenExpires, Prune, vars, tableVars
    <1>16. ASSUME NEW o \in Operators, SetApproved(o) PROVE AnnouncementInv'
        <2>1. \A r \in Rows : Finalizers(r)' = Finalizers(r)
            BY <1>16, ApprovalStep DEF Finalizers, IsOldest
        <2>2. UNCHANGED <<stored, announced, erased>>
            BY <1>16 DEF SetApproved, tableVars
        <2>3. QED
            BY <2>1, <2>2, FewerFinalizers DEF AnnouncementInv, Inserted
    <1>17. QED
        BY <1>4, <1>11, <1>12, <1>13, <1>14, <1>15, <1>16 DEF Next, OperatorStep

\* However many handlers work on however many copies of a batch, a row is announced once,
\* and once more only if the operator deleted it in between (ingest_remote: "already
\* ingested").
THEOREM NothingAnnouncedTwice == Spec => []AnnouncedOnce
    <1>1. TypeOK /\ AnnouncementInv => AnnouncedOnce
        <2> SUFFICES ASSUME TypeOK, AnnouncementInv, NEW r \in Rows
                     PROVE  announced[r] <= (IF r \in erased THEN 2 ELSE 1)
            BY DEF AnnouncedOnce
        <2>1. Inserted(r) <= (IF r \in erased THEN 2 ELSE 1)
            BY DEF Inserted
        <2>2. QED
            BY <2>1, BoundType
    <1>2. QED
        BY <1>1, InitAnnouncement, NextAnnouncement, ForwardingTypeOK, PTL DEF Spec

-----------------------------------------------------------------------------
(* No row is passed over: what was inserted is announced, or about to be, or *)
(* was cut off by a fault.                                                   *)

\* A step after which every handler that was finalizing a row still is, or has announced
\* it, or was cut off.
NoneIsLost ==
    /\ \A r \in Finalizing : r \in Finalizing' \/ announced'[r] > 0 \/ r \in cut'
    /\ \A r \in Rows : announced[r] > 0 => announced'[r] > 0
    /\ cut \subseteq cut'

LEMMA KeptStaysAnnounced ==
    ASSUME TypeOK, StoredIsAnnounced, NoneIsLost, kept' \subseteq kept \cup Finalizing'
    PROVE  StoredIsAnnounced'
    BY DEF TypeOK, TablesOK, StoredIsAnnounced, NoneIsLost

\* A step that touches no handler that is finalizing.
LEMMA OthersMove ==
    ASSUME TypeOK, StoredIsAnnounced, UNCHANGED <<kept, announced, cut>>,
           \A c \in Conns : call[c].stage = "finalizing" => call'[c].stage = "finalizing"
                                                      /\ call'[c].todo = call[c].todo
    PROVE  StoredIsAnnounced'
    <1>1. Finalizing \subseteq Finalizing'
        BY DEF Finalizing, FinalizingIn, IsOldest
    <1>2. QED
        BY <1>1, KeptStaysAnnounced DEF NoneIsLost

\* A step of one exchange that is not finalizing a row.
LEMMA OneMoves ==
    ASSUME TypeOK, StoredIsAnnounced, NEW c \in Conns, NEW v, call' = [call EXCEPT ![c] = v],
           call[c].stage # "finalizing", UNCHANGED <<kept, announced, cut>>
    PROVE  StoredIsAnnounced'
    <1>1. \A d \in Conns : call[d].stage = "finalizing" => call'[d] = call[d]
        BY DEF TypeOK
    <1>2. QED
        BY <1>1, OthersMove

\* A handler that is cut off leaves its row to cut.
LEMMA OneIsCutOff ==
    ASSUME TypeOK, StoredIsAnnounced, NEW c \in Conns, NEW v, call' = [call EXCEPT ![c] = v],
           cut' = cut \cup FinalizingIn(call[c]), UNCHANGED <<kept, announced>>
    PROVE  StoredIsAnnounced'
    <1>1. \A d \in Conns \ {c} : call'[d] = call[d]
        BY DEF TypeOK
    <1>2. \A r \in Finalizing : r \in Finalizing' \/ r \in cut'
        BY <1>1 DEF Finalizing, FinalizingIn, IsOldest
    <1>3. QED
        BY <1>2, KeptStaysAnnounced DEF NoneIsLost

LEMMA HandlerAnnounces ==
    ASSUME TypeOK, StoredIsAnnounced, NEW c \in Conns, HandlerStep(c)
    PROVE  StoredIsAnnounced'
    <1>0. call \in [Conns -> Call] /\ call[c] \in Call
        BY DEF TypeOK
    <1>1. CASE InsertRow(c)
        <2>1. PICK r \in call[c].todo : IsOldest(r, call[c].todo) /\ kept' = kept \cup {r}
            BY <1>1 DEF InsertRow
        <2>2. /\ call'[c].stage = "finalizing" /\ call'[c].todo = call[c].todo
              /\ call[c].stage = "serving" /\ \A d \in Conns \ {c} : call'[d] = call[d]
            BY <1>0, <1>1 DEF InsertRow, Call
        <2>3. r \in Finalizing' /\ Finalizing \subseteq Finalizing'
            BY <2>1, <2>2 DEF Finalizing, FinalizingIn, IsOldest
        <2>4. UNCHANGED <<announced, cut>>
            BY <1>1 DEF InsertRow
        <2>5. QED
            BY <2>1, <2>3, <2>4, KeptStaysAnnounced DEF NoneIsLost
    <1>2. CASE FinalizeRow(c)
        <2>1. PICK r \in call[c].todo : /\ IsOldest(r, call[c].todo)
                                        /\ announced' = [announced EXCEPT ![r] = @ + 1]
                                        /\ Done(c, r, TRUE)
            BY <1>2 DEF FinalizeRow
        <2>2. /\ r \in Rows /\ announced \in [Rows -> Nat]
              /\ \A d \in Conns \ {c} : call'[d] = call[d]
            BY <1>0, <2>1 DEF Done, Call, TypeOK, TablesOK
        <2>3. announced'[r] > 0 /\ \A x \in Rows : announced[x] > 0 => announced'[x] > 0
            BY <2>1, <2>2
        <2>4. \A x \in FinalizingIn(call[c]) : x = r
            BY <1>0, <2>1, OldestIsOne DEF FinalizingIn
        <2>5. \A x \in Finalizing : x \in Finalizing' \/ x = r
            BY <2>2, <2>4 DEF Finalizing, FinalizingIn, IsOldest
        <2>6. UNCHANGED <<kept, cut>>
            BY <1>2 DEF FinalizeRow
        <2>7. QED
            BY <2>3, <2>5, <2>6, KeptStaysAnnounced DEF NoneIsLost
    <1>3. CASE ServeEnroll(c) \/ Lookup(c) \/ Touch(c) \/ Finish(c) \/ SkipDuplicate(c) \/ RefuseRow(c)
        <2>1. UNCHANGED <<kept, announced, cut>> /\ call[c].stage # "finalizing"
            BY <1>3 DEF ServeEnroll, Lookup, Touch, Finish, SkipDuplicate, RefuseRow, tableVars
        <2>2. \E v : call' = [call EXCEPT ![c] = v]
            BY <1>3 DEF ServeEnroll, Lookup, Touch, Finish, SkipDuplicate, RefuseRow, Done
        <2>3. QED
            BY <2>1, <2>2, OneMoves
    <1>4. QED
        BY <1>1, <1>2, <1>3 DEF HandlerStep

LEMMA FaultAnnounces ==
    ASSUME TypeOK, StoredIsAnnounced, FaultStep
    PROVE  StoredIsAnnounced'
    <1>1. CASE CycleRetarget \/ Timeout \/ SensorCrash
        BY <1>1, OthersMove DEF CycleRetarget, Timeout, SensorCrash, tableVars
    <1>2. CASE MarkFails
        <2>1. conn \in Conns /\ call[conn].stage # "finalizing"
            BY <1>2 DEF MarkFails, TypeOK, LoopOK, Waiting
        <2>2. QED
            BY <1>2, <2>1, OneMoves DEF MarkFails, Release, tableVars
    <1>3. CASE StandaloneCrash
        <2>1. cut' = cut \cup Finalizing /\ UNCHANGED <<kept, announced>>
            BY <1>3 DEF StandaloneCrash
        <2>2. NoneIsLost
            BY <2>1 DEF NoneIsLost
        <2>3. QED
            BY <2>1, <2>2, KeptStaysAnnounced
    <1>4. ASSUME NEW c \in Conns, Reject(c) PROVE StoredIsAnnounced'
        BY <1>4, OneMoves DEF Reject, tableVars
    <1>5. ASSUME NEW c \in Conns, RetryRow(c) PROVE StoredIsAnnounced'
        <2>1. UNCHANGED <<kept, announced, cut>> /\ call[c].stage # "finalizing"
            BY <1>5 DEF RetryRow, tableVars
        <2>2. \E v : call' = [call EXCEPT ![c] = v]
            BY <1>5 DEF RetryRow, Done
        <2>3. QED
            BY <2>1, <2>2, OneMoves
    <1>6. ASSUME NEW c \in Conns, FinalizeFails(c) PROVE StoredIsAnnounced'
        BY <1>6, OneIsCutOff DEF FinalizeFails, Done
    <1>7. QED
        BY <1>1, <1>2, <1>3, <1>4, <1>5, <1>6 DEF FaultStep

LEMMA InitAnnounces == Init => StoredIsAnnounced
    BY DEF Init, StoredIsAnnounced

LEMMA NextAnnounces == TypeOK /\ StoredIsAnnounced /\ [Next]_vars => StoredIsAnnounced'
    <1> SUFFICES ASSUME TypeOK, StoredIsAnnounced, [Next]_vars PROVE StoredIsAnnounced'
        OBVIOUS
    <1>1. CASE CycleEnroll \/ CycleForward \/ Heartbeat
        <2>1. PICK kind, rows, waiting : Send(kind, rows, waiting)
            BY <1>1 DEF CycleEnroll, CycleForward, Heartbeat
        <2>2. QED
            BY <2>1, OneMoves DEF Send, tableVars
    <1>2. CASE ReceiveEnroll \/ ReceiveAck \/ ReceiveRefusal
        <2>1. conn \in Conns /\ call[conn].stage # "finalizing" /\ UNCHANGED <<kept, announced, cut>>
            BY <1>2 DEF ReceiveEnroll, ReceiveAck, ReceiveRefusal, TypeOK, LoopOK, Waiting, tableVars
        <2>2. QED
            BY <1>2, <2>1, OneMoves DEF ReceiveEnroll, ReceiveAck, ReceiveRefusal, Release
    <1>3. ASSUME NEW c \in Conns, Drop(c) PROVE StoredIsAnnounced'
        BY <1>3, OneIsCutOff DEF Drop, Release
    <1>4. ASSUME NEW o \in Operators, SetApproved(o) PROVE StoredIsAnnounced'
        BY <1>4, ApprovalStep, OthersMove DEF SetApproved, tableVars
    <1>5. CASE \/ CycleIdle \/ Sleep \/ Broken \/ Capture \/ Revoke \/ Erase \/ TimeStep \/ UNCHANGED vars
               \/ \E o \in Operators : StartApproval(o) \/ AbandonApproval(o)
        BY <1>5, OthersMove
        DEF CycleIdle, Sleep, Broken, Capture, Revoke, Erase, TimeStep, HeartbeatDue, SeenExpires,
            Prune, StartApproval, AbandonApproval, vars, tableVars
    <1>6. QED
        BY <1>1, <1>2, <1>3, <1>4, <1>5, HandlerAnnounces, FaultAnnounces
        DEF Next, ForwarderStep, OperatorStep

\* Every row the Standalone stored was announced or is about to be, unless a failing
\* statement, a dropped request or a restart came between its insert and the end of its
\* finalize: no duplicate, no partial ACK and no second handler passes over one.
THEOREM NothingIsPassedOver == Spec => []StoredIsAnnounced
    BY InitAnnounces, NextAnnounces, ForwardingTypeOK, PTL DEF Spec
=============================================================================
