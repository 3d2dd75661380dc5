-------------------------- MODULE ZoneAlertsProofs --------------------------
(***************************************************************************)
(* CrossingsAreTold, for every number of ingests, methods, calls, faults    *)
(* and edits, and whichever subjects have rules.                            *)
(*                                                                         *)
(* An alert is in one of three places: still to be sent by some call, sent  *)
(* and still to be stored, or stored.  The proof counts the calls in the    *)
(* first two.                                                              *)
(***************************************************************************)
EXTENDS ZoneAlerts, FiniteSetTheorems, TLAPS

\* A call that compares a position, or fires the rules for a change of it, has one, and only
\* the pump's is the host's.
Compares(p, o) == o.at \in BOOLEAN /\ (o.subject = "host" <=> p = "pump")

\* Strengthening: a call fires rules of one trigger, for a crossing those of the change it
\* wrote, and sends the alerts of one rule at a time.
Firing(p, o) ==
    /\ o.on = "detected" =>
         /\ p # "pump"
         /\ \A r \in o.todo : r[2] = "detected"
         /\ \A x \in o.out \cup o.told : x[1][2] = "detected"
    /\ o.on # "detected" =>
         /\ Compares(p, o) /\ o.on = TriggerOn(o.at)
         /\ o.todo \subseteq {<<o.subject, o.on>>}
         /\ \A x \in o.out \cup o.told : x[1] = <<o.subject, o.on>>
    /\ \A x \in o.out : x[1] \notin o.todo
    /\ \A x, y \in o.told : x = y

Sound(p, o) ==
    /\ o \in Op
    /\ o.stage = "idle" => o = Idle
    /\ o.stage # "fire" => o.on = "detected" /\ o.todo = {} /\ o.out = {} /\ o.told = {}
    /\ o.stage = "track" => p = "pump" /\ o.at \in BOOLEAN
    /\ o.stage = "detect" => p # "pump"
    /\ o.stage \in {"list", "get", "upsert"} => Compares(p, o)
    /\ o.stage = "fire" => Firing(p, o)

CallsInv ==
    /\ op \in [Procs -> Op]
    /\ \A p \in Procs : Sound(p, op[p])

\* Strengthening: what a call has listed, and what it is about to fire, it has seen enabled.
SeenInv ==
    \A p \in Procs :
        /\ ~At(p, "idle") => enabled \subseteq seen[p]
        /\ op[p].listed \cup op[p].todo \subseteq seen[p]
        /\ \A x \in op[p].out \cup op[p].told : x[1] \in seen[p] /\ x[2] \in seen[p]

\* The calls that are still to send, and those that are still to store, an alert.
ToSend(x) == {p \in Procs : x[1] \in op[p].todo \/ x \in op[p].out}
ToStore(x) == {p \in Procs : x \in op[p].told}

\* Strengthening: an alert of a crossing is sent, or still to be sent, at most as often as
\* the crossing was written, and none is stored that was not sent.
CountInv ==
    \A x \in Alerts :
        /\ x[1][2] # "detected" => sent[x] + Cardinality(ToSend(x)) <= written[x[1]]
        /\ stored[x] + Cardinality(ToStore(x)) <= sent[x]

Upset == edits # 0 \/ faults # 0

\* Strengthening: if nothing failed and nothing was switched, every rule is listed and the
\* counts are exact.
ExactInv ==
    ~Upset =>
        /\ enabled = Rules \cup Methods
        /\ \A p \in Procs : op[p].stage \in {"get", "upsert"} => op[p].listed = Rules
        /\ \A x \in Alerts :
              /\ x[1][2] # "detected" => sent[x] + Cardinality(ToSend(x)) = written[x[1]]
              /\ stored[x] + Cardinality(ToStore(x)) = sent[x]

\* Strengthening: the pump writes a change of the host's side only, and fires for it before
\* the next.
HostInv ==
    ~Upset =>
        /\ written[<<"host", "enters">>] = written[<<"host", "leaves">>]
                                              + (IF inside["host"] THEN 1 ELSE 0)
        /\ At("pump", "upsert") => op["pump"].at # inside["host"]
        /\ At("pump", "fire") => op["pump"].at = inside["host"]

-----------------------------------------------------------------------------
(* Counting. *)

\* A set that gains or loses at most p.
LEMMA CountOne ==
    ASSUME NEW S, IsFiniteSet(S), NEW T, NEW p, T \ {p} = S \ {p}
    PROVE  /\ IsFiniteSet(T) /\ Cardinality(S) \in Nat /\ Cardinality(T) \in Nat
           /\ (p \in S <=> p \in T) => Cardinality(T) = Cardinality(S)
           /\ p \in S /\ p \notin T => Cardinality(T) + 1 = Cardinality(S)
           /\ p \notin S /\ p \in T => Cardinality(T) = Cardinality(S) + 1
    <1>1. IsFiniteSet(S \ {p}) /\ Cardinality(S) \in Nat /\ Cardinality(S \ {p}) \in Nat
          /\ Cardinality(S \ {p}) = IF p \in S THEN Cardinality(S) - 1 ELSE Cardinality(S)
        BY FS_RemoveElement, FS_CardinalityType
    <1>2. CASE p \in T
        <2>1. T = (S \ {p}) \cup {p} /\ p \notin S \ {p}
            BY <1>2
        <2>2. IsFiniteSet(T) /\ Cardinality(T) = Cardinality(S \ {p}) + 1
            BY <1>1, <2>1, FS_AddElement
        <2>3. QED
            BY <1>1, <1>2, <2>2
    <1>3. CASE p \notin T
        <2>1. T = S \ {p}
            BY <1>3
        <2>2. QED
            BY <1>1, <1>3, <2>1
    <1>4. QED
        BY <1>2, <1>3

LEMMA CallsFinite ==
    ASSUME AlertsAssumption, NEW S, S \subseteq Procs
    PROVE  IsFiniteSet(S)
    <1>1. IsFiniteSet(Procs)
        BY FS_AddElement DEF AlertsAssumption, Procs
    <1>2. QED
        BY <1>1, FS_Subset

-----------------------------------------------------------------------------
(* Calls. *)

LEMMA IdleFacts ==
    /\ Idle \in Op /\ Idle.stage = "idle" /\ Idle.subject = "host" /\ Idle.at = Nowhere /\ Idle.listed = {}
    /\ Idle.on = "detected" /\ Idle.todo = {} /\ Idle.out = {} /\ Idle.told = {}
    BY DEF Idle, Op, Subjects, Triggers

LEMMA IdleSound == \A p : Sound(p, Idle)
    BY IdleFacts DEF Sound

LEMMA CompareFacts ==
    ASSUME NEW p, NEW o \in Op, NEW s \in Subjects, o.at \in BOOLEAN, s = "host" <=> p = "pump"
    PROVE  /\ Sound(p, Compare(o, s)) /\ Compare(o, s).stage = "list" /\ Compare(o, s).listed = {}
           /\ Compare(o, s).todo = {} /\ Compare(o, s).out = {} /\ Compare(o, s).told = {}
    <1> DEFINE c == Compare(o, s)
    <1>1. /\ c \in Op /\ c.stage = "list" /\ c.subject = s /\ c.at = o.at /\ c.listed = {}
          /\ c.on = "detected" /\ c.todo = {} /\ c.out = {} /\ c.told = {}
        BY IdleFacts DEF Compare, Op
    <1> HIDE DEF c
    <1>2. Sound(p, c)
        BY <1>1 DEF Sound, Compares
    <1>3. QED
        BY <1>1, <1>2 DEF c

LEMMA ThroughFacts ==
    ASSUME NEW p, NEW o \in Op, o.on = "detected" => p # "pump", o.on # "detected" => Compares(p, o)
    PROVE  /\ Sound(p, Through(o)) /\ Through(o).stage \in {"idle", "list"} /\ Through(o).listed = {}
           /\ Through(o).todo = {} /\ Through(o).out = {} /\ Through(o).told = {}
    <1>1. PICK s, t \in Subjects : s = "emitter" /\ t = "entity"
        BY DEF Subjects
    <1>2. CASE o.on = "detected" /\ o.at # Nowhere
        <2>1. Through(o) = Compare(o, s) /\ o.at \in BOOLEAN /\ s # "host" /\ p # "pump"
            BY <1>1, <1>2 DEF Through, Op
        <2>2. s = "host" <=> p = "pump"
            BY <2>1
        <2>3. /\ Sound(p, Compare(o, s)) /\ Compare(o, s).stage = "list" /\ Compare(o, s).listed = {}
              /\ Compare(o, s).todo = {} /\ Compare(o, s).out = {} /\ Compare(o, s).told = {}
            BY <2>1, <2>2, CompareFacts
        <2>4. QED
            BY <2>1, <2>3
    <1>3. CASE o.on # "detected" /\ o.subject = "emitter"
        <2>1. Through(o) = Compare(o, t) /\ o.at \in BOOLEAN /\ t # "host" /\ p # "pump"
            BY <1>1, <1>3 DEF Through, Compares
        <2>2. t = "host" <=> p = "pump"
            BY <2>1
        <2>3. /\ Sound(p, Compare(o, t)) /\ Compare(o, t).stage = "list" /\ Compare(o, t).listed = {}
              /\ Compare(o, t).todo = {} /\ Compare(o, t).out = {} /\ Compare(o, t).told = {}
            BY <2>1, <2>2, CompareFacts
        <2>4. QED
            BY <2>1, <2>3
    <1>4. CASE ~(o.on = "detected" /\ o.at # Nowhere) /\ ~(o.on # "detected" /\ o.subject = "emitter")
        <2>1. Through(o) = Idle
            BY <1>4 DEF Through
        <2>2. QED
            BY <2>1, IdleFacts, IdleSound
    <1>5. QED
        BY <1>2, <1>3, <1>4

LEMMA OnwardFacts ==
    ASSUME NEW p, NEW o \in Op, o.stage = "fire", Firing(p, o)
    PROVE  /\ Sound(p, Onward(o)) /\ Onward(o).listed \in {o.listed, {}}
           /\ Onward(o).stage \in {"idle", "list"} \/ Onward(o) = o
           /\ Onward(o).todo = o.todo /\ Onward(o).out = o.out /\ Onward(o).told = o.told
    <1>1. CASE o.todo \cup o.out \cup o.told = {}
        <2>1. Onward(o) = Through(o) /\ o.todo = {} /\ o.out = {} /\ o.told = {}
            BY <1>1 DEF Onward
        <2>2. QED
            BY <2>1, ThroughFacts DEF Firing
    <1>2. CASE o.todo \cup o.out \cup o.told # {}
        BY <1>2 DEF Onward, Sound
    <1>3. QED
        BY <1>1, <1>2

\* The others stay where they are.
Alone(p) == op' \in [Procs -> Op] /\ \A q \in Procs \ {p} : op'[q] = op[q]

LEMMA CallMoves ==
    ASSUME CallsInv, NEW p \in Procs, NEW o, Sound(p, o), op' = [op EXCEPT ![p] = o]
    PROVE  CallsInv' /\ Alone(p) /\ op'[p] = o
    <1>1. op' \in [Procs -> Op] /\ op'[p] = o /\ \A q \in Procs \ {p} : op'[q] = op[q]
        BY DEF CallsInv, Sound
    <1>2. QED
        BY <1>1 DEF CallsInv, Alone

Empty(o) == o.todo = {} /\ o.out = {} /\ o.told = {}

LEMMA BeginMoves ==
    ASSUME AlertsAssumption, CallsInv, NEW p \in Procs, NEW at,
           (at \in BOOLEAN \cup {Nowhere} /\ Emit(p, at)) \/ (at \in BOOLEAN /\ Fix(at) /\ p = "pump")
    PROVE  /\ CallsInv' /\ Alone(p) /\ Empty(op[p]) /\ Empty(op'[p])
           /\ op'[p].stage \in {"detect", "track"} /\ op'[p].listed = {}
    <1>1. CASE at \in BOOLEAN \cup {Nowhere} /\ Emit(p, at)
        <2> DEFINE o == [Idle EXCEPT !.stage = "detect", !.at = at]
        <2>1. op' = [op EXCEPT ![p] = o] /\ op[p].stage = "idle" /\ p # "pump"
            BY <1>1 DEF Emit, Begin, At, AlertsAssumption
        <2>2. o \in Op /\ o.stage = "detect" /\ o.listed = {} /\ o.on = "detected" /\ Empty(o)
            BY <1>1, IdleFacts DEF Op, Empty
        <2> HIDE DEF o
        <2>3. Sound(p, o)
            BY <2>1, <2>2 DEF Sound, Empty
        <2>4. Empty(op[p])
            BY <2>1 DEF CallsInv, Sound, Empty
        <2>5. CallsInv' /\ Alone(p) /\ op'[p] = o
            BY <2>1, <2>3, CallMoves
        <2>6. QED
            BY <2>2, <2>4, <2>5
    <1>2. CASE at \in BOOLEAN /\ Fix(at) /\ p = "pump"
        <2> DEFINE o == [Idle EXCEPT !.stage = "track", !.at = at]
        <2>1. op' = [op EXCEPT ![p] = o] /\ op[p].stage = "idle"
            BY <1>2 DEF Fix, Begin, At
        <2>2. o \in Op /\ o.stage = "track" /\ o.at = at /\ o.listed = {} /\ o.on = "detected" /\ Empty(o)
            BY <1>2, IdleFacts DEF Op, Empty
        <2> HIDE DEF o
        <2>3. Sound(p, o)
            BY <1>2, <2>1, <2>2 DEF Sound, Empty
        <2>4. Empty(op[p])
            BY <2>1 DEF CallsInv, Sound, Empty
        <2>5. CallsInv' /\ Alone(p) /\ op'[p] = o
            BY <2>1, <2>3, CallMoves
        <2>6. QED
            BY <2>2, <2>4, <2>5
    <1>3. QED
        BY <1>1, <1>2

LEMMA TrackMoves ==
    ASSUME CallsInv, NEW compare \in BOOLEAN, Track(compare), NEW p \in Procs, p = "pump"
    PROVE  /\ CallsInv' /\ Alone(p) /\ Empty(op[p]) /\ Empty(op'[p]) /\ op'[p].stage \in {"idle", "list"}
           /\ op'[p].listed = {}
    <1>1. op[p].stage = "track" /\ Sound(p, op[p]) /\ op[p] \in Op
        BY DEF CallsInv, Track, At
    <1>2. PICK s \in Subjects : s = "host"
        BY DEF Subjects
    <1>3. op' = [op EXCEPT ![p] = Compare(op[p], s)] \/ op' = [op EXCEPT ![p] = Idle]
        BY <1>2 DEF Track
    <1>4. op[p].at \in BOOLEAN /\ (s = "host" <=> p = "pump")
        BY <1>1, <1>2 DEF Sound
    <1>5. /\ Sound(p, Compare(op[p], s)) /\ Compare(op[p], s).stage = "list" /\ Compare(op[p], s).listed = {}
          /\ Empty(Compare(op[p], s))
        BY <1>1, <1>4, CompareFacts DEF Empty
    <1>6. Sound(p, Idle) /\ Empty(Idle)
        BY IdleSound, IdleFacts DEF Empty
    <1>7. CallsInv' /\ Alone(p) /\ op'[p] \in {Compare(op[p], s), Idle}
        BY <1>3, <1>5, <1>6, CallMoves
    <1>8. QED
        BY <1>1, <1>5, <1>6, <1>7, IdleFacts DEF Sound, Empty

LEMMA ListMoves ==
    ASSUME CallsInv, enabled \subseteq Rules \cup Methods, NEW p \in Procs, List(p)
    PROVE  /\ CallsInv' /\ Alone(p) /\ Empty(op[p]) /\ Empty(op'[p]) /\ op'[p].stage = "get"
           /\ op'[p].listed = enabled \cap Rules \/ (op'[p].listed = op[p].listed /\ Fault)
    <1>1. op[p].stage = "list" /\ Sound(p, op[p]) /\ op[p] \in Op
        BY DEF CallsInv, List, At
    <1>2. PICK l \in SUBSET Rules : /\ l = enabled \cap Rules \/ (l = op[p].listed /\ Fault)
                                   /\ op' = [op EXCEPT ![p] = [op[p] EXCEPT !.stage = "get", !.listed = l]]
        <2>1. CASE Step(p, [op[p] EXCEPT !.stage = "get", !.listed = enabled \cap Rules])
            BY <2>1 DEF Step
        <2>2. CASE Fault /\ Step(p, [op[p] EXCEPT !.stage = "get"])
            <3>1. [op[p] EXCEPT !.stage = "get"] = [op[p] EXCEPT !.stage = "get", !.listed = op[p].listed]
                BY <1>1 DEF Op
            <3>2. op[p].listed \in SUBSET Rules
                BY <1>1 DEF Op
            <3>3. QED
                BY <2>2, <3>1, <3>2 DEF Step
        <2>3. QED
            BY <2>1, <2>2 DEF List
    <1> DEFINE o == [op[p] EXCEPT !.stage = "get", !.listed = l]
    <1>3. /\ o \in Op /\ o.stage = "get" /\ o.listed = l /\ o.on = op[p].on /\ o.at = op[p].at
          /\ o.subject = op[p].subject /\ o.todo = op[p].todo /\ o.out = op[p].out /\ o.told = op[p].told
          /\ op' = [op EXCEPT ![p] = o]
        BY <1>1, <1>2 DEF Op
    <1> HIDE DEF o
    <1>4. Sound(p, o) /\ Empty(op[p]) /\ Empty(o)
        BY <1>1, <1>3 DEF Sound, Empty, Compares
    <1>5. CallsInv' /\ Alone(p) /\ op'[p] = o
        BY <1>3, <1>4, CallMoves
    <1>6. QED
        BY <1>2, <1>3, <1>4, <1>5

LEMMA GetMoves ==
    ASSUME CallsInv, inside \in [Subjects -> BOOLEAN], NEW p \in Procs, Get(p)
    PROVE  /\ CallsInv' /\ Alone(p) /\ Empty(op[p]) /\ Empty(op'[p])
           /\ \/ op'[p].stage \in {"idle", "list"} /\ op'[p].listed = {}
              \/ /\ op'[p].stage = "upsert" /\ op'[p].listed = op[p].listed /\ op'[p].at = op[p].at
                 /\ op[p].at # inside[op[p].subject] \/ Fault
    <1>1. op[p].stage = "get" /\ Sound(p, op[p]) /\ op[p] \in Op /\ Empty(op[p])
        BY DEF CallsInv, Get, At, Sound, Empty
    <1> DEFINE t == [op[p] EXCEPT !.on = TriggerOn(op[p].at)]
               u == [op[p] EXCEPT !.stage = "upsert"]
    <1>2. \/ op' = [op EXCEPT ![p] = Through(t)]
          \/ op' = [op EXCEPT ![p] = u] /\ (op[p].at # inside[op[p].subject] \/ Fault)
        BY DEF Get, Step
    <1>3. t \in Op /\ t.on # "detected" /\ t.at = op[p].at /\ t.subject = op[p].subject
        BY <1>1 DEF TriggerOn, Triggers, Op
    <1>4. /\ u \in Op /\ u.stage = "upsert" /\ u.listed = op[p].listed /\ u.on = op[p].on /\ u.at = op[p].at
          /\ u.subject = op[p].subject /\ u.todo = op[p].todo /\ u.out = op[p].out /\ u.told = op[p].told
        BY <1>1 DEF Op
    <1> HIDE DEF t, u
    <1>5. Sound(p, u) /\ Empty(u)
        BY <1>1, <1>4 DEF Sound, Empty, Compares
    <1>6. Compares(p, t)
        BY <1>1, <1>3 DEF Sound, Compares
    <1>7. /\ Sound(p, Through(t)) /\ Through(t).stage \in {"idle", "list"} /\ Through(t).listed = {}
          /\ Empty(Through(t))
        BY <1>3, <1>6, ThroughFacts DEF Empty
    <1>8. CASE op' = [op EXCEPT ![p] = Through(t)]
        <2>1. CallsInv' /\ Alone(p) /\ op'[p] = Through(t)
            BY <1>7, <1>8, CallMoves
        <2>2. QED
            BY <1>1, <1>7, <2>1
    <1>9. CASE op' = [op EXCEPT ![p] = u] /\ (op[p].at # inside[op[p].subject] \/ Fault)
        <2>1. CallsInv' /\ Alone(p) /\ op'[p] = u
            BY <1>5, <1>9, CallMoves
        <2>2. QED
            BY <1>1, <1>4, <1>5, <1>9, <2>1
    <1>10. QED
        BY <1>2, <1>8, <1>9

\* A detection is about to fire rules for being detected, or has nothing to fire.
LEMMA DetectMoves ==
    ASSUME AlertsAssumption, CallsInv, enabled \subseteq Rules \cup Methods, NEW p \in Procs, Detect(p)
    PROVE  /\ CallsInv' /\ Alone(p) /\ Empty(op[p]) /\ op'[p].out = {} /\ op'[p].told = {}
           /\ op'[p].todo \subseteq enabled /\ \A r \in op'[p].todo : r[2] = "detected"
           /\ op'[p].stage \in {"idle", "list", "fire"} /\ op'[p].listed \in {op[p].listed, {}}
           /\ p # "pump"
    <1>1. /\ op[p].stage = "detect" /\ Sound(p, op[p]) /\ op[p] \in Op /\ Empty(op[p]) /\ p # "pump"
          /\ op[p].on = "detected"
        BY DEF CallsInv, Detect, At, Sound, Empty
    <1> DEFINE d == enabled \cap ({"emitter", "entity"} \X {"detected"})
               o == [op[p] EXCEPT !.stage = "fire", !.todo = d]
    <1>2. op' = [op EXCEPT ![p] = Onward(o)] \/ op' = [op EXCEPT ![p] = Through(op[p])]
        BY DEF Detect, Step
    <1>3. d \subseteq Rules /\ d \subseteq enabled /\ \A r \in d : r[2] = "detected"
        BY DEF AlertsAssumption, Subjects, Triggers
    <1>4. /\ o \in Op /\ o.stage = "fire" /\ o.on = "detected" /\ o.todo = d /\ o.out = {} /\ o.told = {}
          /\ o.listed = op[p].listed
        BY <1>1, <1>3 DEF Op, Empty
    <1> HIDE DEF o, d
    <1>5. Firing(p, o)
        BY <1>1, <1>3, <1>4 DEF Firing
    <1>6. /\ Sound(p, Onward(o)) /\ Onward(o).listed \in {o.listed, {}}
          /\ Onward(o).stage \in {"idle", "list"} \/ Onward(o) = o
          /\ Onward(o).todo = d /\ Onward(o).out = {} /\ Onward(o).told = {}
        BY <1>4, <1>5, OnwardFacts
    <1>7. /\ Sound(p, Through(op[p])) /\ Through(op[p]).stage \in {"idle", "list"}
          /\ Through(op[p]).listed = {} /\ Empty(Through(op[p]))
        BY <1>1, ThroughFacts DEF Empty
    <1>8. CASE op' = [op EXCEPT ![p] = Onward(o)]
        <2>1. CallsInv' /\ Alone(p) /\ op'[p] = Onward(o)
            BY <1>6, <1>8, CallMoves
        <2>2. QED
            BY <1>1, <1>3, <1>4, <1>6, <2>1
    <1>9. CASE op' = [op EXCEPT ![p] = Through(op[p])]
        <2>1. CallsInv' /\ Alone(p) /\ op'[p] = Through(op[p])
            BY <1>7, <1>9, CallMoves
        <2>2. QED
            BY <1>1, <1>7, <2>1 DEF Empty
    <1>10. QED
        BY <1>2, <1>8, <1>9

\* A change that was written is about to fire the rule for it, if it was listed.
LEMMA UpsertMoves ==
    ASSUME AlertsAssumption, CallsInv, NEW p \in Procs, Upsert(p)
    PROVE  /\ CallsInv' /\ Alone(p) /\ Empty(op[p]) /\ op'[p].out = {} /\ op'[p].told = {}
           /\ op'[p].stage \in {"idle", "list", "fire"} /\ op'[p].listed \in {op[p].listed, {}}
           /\ op'[p].stage = "fire" => op'[p].at = op[p].at
           /\ op[p].at \in BOOLEAN /\ (op[p].subject = "host" <=> p = "pump") /\ op[p].stage = "upsert"
           /\ \/ /\ op'[p].todo = op[p].listed \cap {<<op[p].subject, TriggerOn(op[p].at)>>}
                 /\ inside' = [inside EXCEPT ![op[p].subject] = op[p].at]
                 /\ written' = [written EXCEPT ![<<op[p].subject, TriggerOn(op[p].at)>>] = @ + 1]
              \/ op'[p].todo = {} /\ Fault /\ UNCHANGED <<inside, written>>
    <1>1. /\ op[p].stage = "upsert" /\ Sound(p, op[p]) /\ op[p] \in Op /\ Empty(op[p]) /\ Compares(p, op[p])
        BY DEF CallsInv, Upsert, At, Sound, Empty
    <1> DEFINE x == <<op[p].subject, TriggerOn(op[p].at)>>
               b == [op[p] EXCEPT !.stage = "fire", !.on = x[2]]
               t == op[p].listed \cap {x}
               o == [b EXCEPT !.todo = t]
    <1>2. \/ /\ op' = [op EXCEPT ![p] = Onward(o)]
             /\ inside' = [inside EXCEPT ![op[p].subject] = op[p].at]
             /\ written' = [written EXCEPT ![x] = @ + 1]
          \/ op' = [op EXCEPT ![p] = Through(b)] /\ Fault /\ UNCHANGED <<inside, written>>
        <2>1. b.listed = op[p].listed
            BY <1>1 DEF Op
        <2>2. QED
            BY <2>1 DEF Upsert, Step
    <1>3. TriggerOn(op[p].at) \in Triggers \ {"detected"} /\ x[2] = TriggerOn(op[p].at)
        BY DEF TriggerOn, Triggers
    <1>4. /\ b \in Op /\ b.stage = "fire" /\ b.on = TriggerOn(op[p].at) /\ b.at = op[p].at
          /\ b.subject = op[p].subject /\ b.listed = op[p].listed /\ b.todo = {} /\ b.out = {} /\ b.told = {}
        BY <1>1, <1>3 DEF Op, Empty
    <1>5. t \subseteq Rules /\ t \subseteq {x}
        BY <1>1 DEF Op
    <1> HIDE DEF b
    <1>6. /\ o \in Op /\ o.stage = "fire" /\ o.on = TriggerOn(op[p].at) /\ o.at = op[p].at
          /\ o.subject = op[p].subject /\ o.listed = op[p].listed /\ o.todo = t /\ o.out = {} /\ o.told = {}
        BY <1>4, <1>5 DEF Op
    <1> HIDE DEF o, t
    <1>7. Firing(p, o) /\ Compares(p, b) /\ b.on # "detected"
        BY <1>1, <1>3, <1>4, <1>5, <1>6 DEF Firing, Compares
    <1>8. /\ Sound(p, Onward(o)) /\ Onward(o).listed \in {o.listed, {}}
          /\ Onward(o).stage \in {"idle", "list"} \/ Onward(o) = o
          /\ Onward(o).todo = t /\ Onward(o).out = {} /\ Onward(o).told = {}
        BY <1>6, <1>7, OnwardFacts
    <1>9. /\ Sound(p, Through(b)) /\ Through(b).stage \in {"idle", "list"} /\ Through(b).listed = {}
          /\ Empty(Through(b))
        BY <1>4, <1>7, ThroughFacts DEF Empty
    <1>10. op[p].at \in BOOLEAN /\ (op[p].subject = "host" <=> p = "pump")
        BY <1>1 DEF Compares
    <1>11. CASE /\ op' = [op EXCEPT ![p] = Onward(o)]
                /\ inside' = [inside EXCEPT ![op[p].subject] = op[p].at]
                /\ written' = [written EXCEPT ![x] = @ + 1]
        <2>1. CallsInv' /\ Alone(p) /\ op'[p] = Onward(o)
            BY <1>8, <1>11, CallMoves
        <2>2. /\ op'[p].todo = t /\ op'[p].out = {} /\ op'[p].told = {} /\ op'[p].listed \in {op[p].listed, {}}
              /\ op'[p].stage \in {"idle", "list", "fire"} /\ (op'[p].stage = "fire" => op'[p].at = op[p].at)
            BY <1>6, <1>8, <2>1
        <2>3. QED
            BY <1>1, <1>10, <1>11, <2>1, <2>2 DEF t
    <1>12. CASE op' = [op EXCEPT ![p] = Through(b)] /\ Fault /\ UNCHANGED <<inside, written>>
        <2>1. CallsInv' /\ Alone(p) /\ op'[p] = Through(b)
            BY <1>9, <1>12, CallMoves
        <2>2. QED
            BY <1>1, <1>9, <1>10, <1>12, <2>1 DEF Empty
    <1>13. QED
        BY <1>2, <1>11, <1>12

\* What a step of a call that fires leaves of it: it goes on with the same subject and
\* position, or is through.
Fires(p) ==
    /\ CallsInv' /\ Alone(p) /\ op[p].stage = "fire"
    /\ op'[p].stage \in {"idle", "list", "fire"} /\ op'[p].listed \in {op[p].listed, {}}
    /\ op'[p].stage = "fire" => op'[p].at = op[p].at

LEMMA FireMoves ==
    ASSUME CallsInv, enabled \subseteq Rules \cup Methods, NEW p \in Procs, NEW r \in Rules, Fire(p, r)
    PROVE  /\ Fires(p) /\ r \in op[p].todo /\ op[p].out = {} /\ op[p].told = {}
           /\ op'[p].todo = op[p].todo \ {r} /\ op'[p].told = {}
           /\ op'[p].out = {r} \X (enabled \cap Methods) \/ (op'[p].out = {} /\ Fault)
    <1>1. /\ op[p].stage = "fire" /\ Sound(p, op[p]) /\ op[p] \in Op /\ Firing(p, op[p])
          /\ r \in op[p].todo /\ op[p].out = {} /\ op[p].told = {}
        BY DEF CallsInv, Fire, At, Sound
    <1>2. PICK new \in SUBSET Alerts :
              /\ op' = [op EXCEPT ![p] = Onward([op[p] EXCEPT !.todo = @ \ {r}, !.out = new])]
              /\ new = {r} \X (enabled \cap Methods) \/ (new = {} /\ Fault)
        <2>1. CASE Step(p, Onward([[op[p] EXCEPT !.todo = @ \ {r}] EXCEPT !.out = {r} \X (enabled \cap Methods)]))
            <3>1. {r} \X (enabled \cap Methods) \in SUBSET Alerts
                BY DEF Alerts
            <3>2. [[op[p] EXCEPT !.todo = @ \ {r}] EXCEPT !.out = {r} \X (enabled \cap Methods)]
                      = [op[p] EXCEPT !.todo = @ \ {r}, !.out = {r} \X (enabled \cap Methods)]
                OBVIOUS
            <3>3. QED
                BY <2>1, <3>1, <3>2 DEF Step
        <2>2. CASE Fault /\ Step(p, Onward([op[p] EXCEPT !.todo = @ \ {r}]))
            <3>1. [op[p] EXCEPT !.todo = @ \ {r}] = [op[p] EXCEPT !.todo = @ \ {r}, !.out = {}]
                BY <1>1 DEF Op
            <3>2. QED
                BY <2>2, <3>1 DEF Step
        <2>3. QED
            BY <2>1, <2>2 DEF Fire
    <1> DEFINE o == [op[p] EXCEPT !.todo = @ \ {r}, !.out = new]
    <1>3. /\ o \in Op /\ o.stage = "fire" /\ o.on = op[p].on /\ o.at = op[p].at /\ o.subject = op[p].subject
          /\ o.listed = op[p].listed /\ o.todo = op[p].todo \ {r} /\ o.out = new /\ o.told = {}
          /\ op' = [op EXCEPT ![p] = Onward(o)]
        BY <1>1, <1>2 DEF Op
    <1> HIDE DEF o
    <1>4. \A x \in new : x[1] = r
        BY <1>2
    <1>5. Firing(p, o)
        <2>1. o.on = "detected" => /\ p # "pump"
                                   /\ \A q \in o.todo : q[2] = "detected"
                                   /\ \A x \in o.out \cup o.told : x[1][2] = "detected"
            BY <1>1, <1>3, <1>4 DEF Firing
        <2>2. o.on # "detected" => /\ Compares(p, o) /\ o.on = TriggerOn(o.at)
                                   /\ o.todo \subseteq {<<o.subject, o.on>>}
                                   /\ \A x \in o.out \cup o.told : x[1] = <<o.subject, o.on>>
            BY <1>1, <1>3, <1>4 DEF Firing, Compares
        <2>3. (\A x \in o.out : x[1] \notin o.todo) /\ (\A x, y \in o.told : x = y)
            BY <1>3, <1>4
        <2>4. QED
            BY <2>1, <2>2, <2>3 DEF Firing
    <1>6. /\ Sound(p, Onward(o)) /\ Onward(o).listed \in {o.listed, {}}
          /\ Onward(o).stage \in {"idle", "list"} \/ Onward(o) = o
          /\ Onward(o).todo = o.todo /\ Onward(o).out = o.out /\ Onward(o).told = o.told
        BY <1>3, <1>5, OnwardFacts
    <1>7. CallsInv' /\ Alone(p) /\ op'[p] = Onward(o)
        BY <1>3, <1>6, CallMoves
    <1>8. QED
        BY <1>1, <1>2, <1>3, <1>6, <1>7 DEF Fires

LEMMA DispatchMoves ==
    ASSUME CallsInv, NEW p \in Procs, NEW x \in Alerts, Dispatch(p, x)
    PROVE  /\ Fires(p) /\ x \in op[p].out /\ op[p].told = {} /\ x[1] \notin op[p].todo
           /\ op'[p].todo = op[p].todo /\ op'[p].out = op[p].out \ {x} /\ op'[p].told = {x}
    <1>1. /\ op[p].stage = "fire" /\ Sound(p, op[p]) /\ op[p] \in Op /\ Firing(p, op[p])
          /\ x \in op[p].out /\ op[p].told = {}
        BY DEF CallsInv, Dispatch, At, Sound
    <1> DEFINE o == [op[p] EXCEPT !.out = @ \ {x}, !.told = {x}]
    <1>2. /\ o \in Op /\ o.stage = "fire" /\ o.on = op[p].on /\ o.at = op[p].at /\ o.subject = op[p].subject
          /\ o.listed = op[p].listed /\ o.todo = op[p].todo /\ o.out = op[p].out \ {x} /\ o.told = {x}
          /\ op' = [op EXCEPT ![p] = o]
        BY <1>1 DEF Op, Dispatch, Step
    <1> HIDE DEF o
    <1>3. Firing(p, o)
        BY <1>1, <1>2 DEF Firing, Compares
    <1>4. Sound(p, o)
        BY <1>2, <1>3 DEF Sound
    <1>5. CallsInv' /\ Alone(p) /\ op'[p] = o
        BY <1>2, <1>4, CallMoves
    <1>6. QED
        BY <1>1, <1>2, <1>5 DEF Fires, Firing

LEMMA StoreMoves ==
    ASSUME CallsInv, NEW p \in Procs, Store(p), NEW x \in op[p].told
    PROVE  /\ Fires(p) /\ op[p].told = {x} /\ x \in Alerts
           /\ op'[p].todo = op[p].todo /\ op'[p].out = op[p].out /\ op'[p].told = {}
    <1>1. /\ op[p].stage = "fire" /\ Sound(p, op[p]) /\ op[p] \in Op /\ Firing(p, op[p])
        BY DEF CallsInv, Store, At, Sound
    <1> DEFINE o == [op[p] EXCEPT !.told = {}]
    <1>2. /\ o \in Op /\ o.stage = "fire" /\ o.on = op[p].on /\ o.at = op[p].at /\ o.subject = op[p].subject
          /\ o.listed = op[p].listed /\ o.todo = op[p].todo /\ o.out = op[p].out /\ o.told = {}
          /\ op' = [op EXCEPT ![p] = Onward(o)]
        BY <1>1 DEF Op, Store, Step
    <1> HIDE DEF o
    <1>3. Firing(p, o)
        BY <1>1, <1>2 DEF Firing, Compares
    <1>4. /\ Sound(p, Onward(o)) /\ Onward(o).listed \in {o.listed, {}}
          /\ Onward(o).stage \in {"idle", "list"} \/ Onward(o) = o
          /\ Onward(o).todo = o.todo /\ Onward(o).out = o.out /\ Onward(o).told = o.told
        BY <1>2, <1>3, OnwardFacts
    <1>5. CallsInv' /\ Alone(p) /\ op'[p] = Onward(o)
        BY <1>2, <1>4, CallMoves
    <1>6. op[p].told = {x} /\ x \in Alerts
        BY <1>1 DEF Firing, Op
    <1>7. QED
        BY <1>1, <1>2, <1>4, <1>5, <1>6 DEF Fires

LEMMA CutMoves ==
    ASSUME CallsInv, NEW p \in Procs, Cut(p)
    PROVE  CallsInv' /\ Alone(p) /\ op'[p] = Idle /\ Fault
    <1>1. op' = [op EXCEPT ![p] = Idle] /\ Fault
        BY DEF Cut, Step
    <1>2. QED
        BY <1>1, IdleSound, CallMoves

-----------------------------------------------------------------------------
(* Types. *)

Base == AlertsAssumption /\ CallsInv /\ TypeOK

LEMMA FaultType ==
    ASSUME Base, Fault
    PROVE  faults' \in 0 .. MaxUpsets /\ faults' # 0
    BY DEF Base, AlertsAssumption, TypeOK, Fault

LEMMA CountType ==
    ASSUME NEW S, NEW f \in [S -> Nat], NEW x
    PROVE  [f EXCEPT ![x] = @ + 1] \in [S -> Nat]
    <1>1. [f EXCEPT ![x] = @ + 1] = [y \in S |-> IF y = x THEN f[y] + 1 ELSE f[y]]
        OBVIOUS
    <1>2. \A y \in S : (IF y = x THEN f[y] + 1 ELSE f[y]) \in Nat
        OBVIOUS
    <1>3. QED
        BY <1>1, <1>2

\* A step of a call.
CallStep(p) ==
    \/ \E at \in BOOLEAN \cup {Nowhere} : Emit(p, at)
    \/ p = "pump" /\ \E at \in BOOLEAN : Fix(at)
    \/ p = "pump" /\ \E compare \in BOOLEAN : Track(compare)
    \/ Detect(p) \/ List(p) \/ Get(p) \/ Upsert(p) \/ Store(p) \/ Cut(p)
    \/ \E r \in Rules : Fire(p, r)
    \/ \E x \in Alerts : Dispatch(p, x)

\* A step that only goes on, without anything to send or to store.
Quiet(p) ==
    \/ \E at \in BOOLEAN \cup {Nowhere} : Emit(p, at)
    \/ p = "pump" /\ \E at \in BOOLEAN : Fix(at)
    \/ p = "pump" /\ \E compare \in BOOLEAN : Track(compare)
    \/ List(p) \/ Get(p)

LEMMA NextSteps ==
    ASSUME Base, [Next]_vars
    PROVE  (\E p \in Procs : CallStep(p)) \/ (\E x \in Rules \cup Methods : Switch(x)) \/ UNCHANGED vars
    <1>1. "pump" \in Procs
        BY DEF Procs
    <1>2. ASSUME NEW p \in Ingests, NEW at \in BOOLEAN \cup {Nowhere}, Emit(p, at)
          PROVE  \E q \in Procs : CallStep(q)
        BY <1>2 DEF CallStep, Procs
    <1>3. (\E at \in BOOLEAN : Fix(at)) \/ (\E compare \in BOOLEAN : Track(compare)) => CallStep("pump")
        BY DEF CallStep
    <1>4. QED
        BY <1>1, <1>2, <1>3 DEF Next, CallStep, Done

LEMMA QuietMoves ==
    ASSUME Base, NEW p \in Procs, Quiet(p)
    PROVE  /\ CallsInv' /\ Alone(p) /\ Empty(op[p]) /\ Empty(op'[p]) /\ op'[p].stage # "fire"
           /\ UNCHANGED <<enabled, tables, edits>> /\ (faults' = faults \/ Fault)
           /\ calls' \in 0 .. MaxCalls
    <1> USE DEF Base
    <1>1. CASE \E at \in BOOLEAN \cup {Nowhere} : Emit(p, at)
        <2>1. PICK at \in BOOLEAN \cup {Nowhere} : Emit(p, at)
            BY <1>1
        <2>2. CallsInv' /\ Alone(p) /\ Empty(op[p]) /\ Empty(op'[p]) /\ op'[p].stage # "fire"
            BY <2>1, BeginMoves
        <2>3. QED
            BY <2>1, <2>2 DEF Emit, Begin, TypeOK, AlertsAssumption
    <1>2. CASE p = "pump" /\ \E at \in BOOLEAN : Fix(at)
        <2>1. PICK at \in BOOLEAN : Fix(at)
            BY <1>2
        <2>2. CallsInv' /\ Alone(p) /\ Empty(op[p]) /\ Empty(op'[p]) /\ op'[p].stage # "fire"
            BY <1>2, <2>1, BeginMoves
        <2>3. QED
            BY <2>1, <2>2 DEF Fix, Begin, TypeOK, AlertsAssumption
    <1>3. CASE p = "pump" /\ \E compare \in BOOLEAN : Track(compare)
        <2>1. PICK compare \in BOOLEAN : Track(compare)
            BY <1>3
        <2>2. CallsInv' /\ Alone(p) /\ Empty(op[p]) /\ Empty(op'[p]) /\ op'[p].stage # "fire"
            BY <1>3, <2>1, TrackMoves
        <2>3. QED
            BY <2>1, <2>2 DEF Track, TypeOK
    <1>4. CASE List(p)
        <2>1. CallsInv' /\ Alone(p) /\ Empty(op[p]) /\ Empty(op'[p]) /\ op'[p].stage # "fire"
            BY <1>4, ListMoves DEF TypeOK
        <2>2. QED
            BY <1>4, <2>1 DEF List, Step, TypeOK
    <1>5. CASE Get(p)
        <2>1. CallsInv' /\ Alone(p) /\ Empty(op[p]) /\ Empty(op'[p]) /\ op'[p].stage # "fire"
            BY <1>5, GetMoves DEF TypeOK
        <2>2. UNCHANGED <<enabled, tables, edits>> /\ (faults' = faults \/ Fault) /\ calls' = calls
            BY <1>5 DEF Get, Step
        <2>3. QED
            BY <2>1, <2>2 DEF TypeOK
    <1>6. QED
        BY <1>1, <1>2, <1>3, <1>4, <1>5 DEF Quiet

LEMMA BaseStep ==
    ASSUME Base, NEW p \in Procs, CallStep(p)
    PROVE  /\ Base' /\ Alone(p) /\ UNCHANGED <<enabled, edits>> /\ (faults' = faults \/ Fault)
           /\ \A q \in Procs \ {p} : seen'[q] = seen[q]
           /\ seen'[p] = seen[p] \/ (seen'[p] = enabled /\ op'[p].listed = {})
    <1> USE DEF Base
    <1>1. /\ CallsInv' /\ Alone(p) /\ UNCHANGED <<enabled, edits>> /\ (faults' = faults \/ Fault)
          /\ calls' \in 0 .. MaxCalls
        <2>1. CASE Quiet(p)
            BY <2>1, QuietMoves
        <2>2. CASE Detect(p)
            BY <2>2, DetectMoves DEF TypeOK, Detect, Step
        <2>3. CASE Upsert(p)
            <3>1. UNCHANGED <<enabled, edits, calls>> /\ (faults' = faults \/ Fault)
                BY <2>3 DEF Upsert, Step
            <3>2. QED
                BY <2>3, <3>1, UpsertMoves DEF TypeOK
        <2>4. CASE Store(p)
            <3>1. /\ UNCHANGED <<enabled, edits, calls>> /\ (faults' = faults \/ Fault)
                  /\ \E x \in op[p].told : TRUE
                BY <2>4 DEF Store, Step
            <3>2. QED
                BY <2>4, <3>1, StoreMoves DEF TypeOK, Fires
        <2>5. CASE Cut(p)
            BY <2>5, CutMoves DEF TypeOK, Cut, Step
        <2>6. ASSUME NEW r \in Rules, Fire(p, r)
              PROVE  <1>1!:
            <3>1. UNCHANGED <<enabled, edits, calls>> /\ (faults' = faults \/ Fault)
                BY <2>6 DEF Fire, Step
            <3>2. QED
                BY <2>6, <3>1, FireMoves DEF TypeOK, Fires
        <2>7. ASSUME NEW x \in Alerts, Dispatch(p, x)
              PROVE  <1>1!:
            BY <2>7, DispatchMoves DEF TypeOK, Fires, Dispatch, Step
        <2>8. QED
            BY <2>1, <2>2, <2>3, <2>4, <2>5, <2>6, <2>7 DEF CallStep, Quiet
    <1>2. /\ \A q \in Procs \ {p} : seen'[q] = seen[q]
          /\ seen'[p] = seen[p] \/ (seen'[p] = enabled /\ op'[p].listed = {})
          /\ seen' \in [Procs -> SUBSET (Rules \cup Methods)]
        <2>1. CASE \/ \E at \in BOOLEAN \cup {Nowhere} : Emit(p, at)
                   \/ p = "pump" /\ \E at \in BOOLEAN : Fix(at)
            <3>1. PICK at : \/ at \in BOOLEAN \cup {Nowhere} /\ Emit(p, at)
                            \/ at \in BOOLEAN /\ Fix(at) /\ p = "pump"
                BY <2>1
            <3>2. seen' = [seen EXCEPT ![p] = enabled]
                BY <3>1 DEF Emit, Fix, Begin
            <3>3. op'[p].listed = {}
                BY <3>1, BeginMoves
            <3>4. QED
                BY <3>2, <3>3 DEF TypeOK
        <2>2. CASE ~\/ \E at \in BOOLEAN \cup {Nowhere} : Emit(p, at)
                    \/ p = "pump" /\ \E at \in BOOLEAN : Fix(at)
            <3>1. seen' = seen
                BY <2>2 DEF CallStep, Track, Detect, List, Get, Upsert, Store, Cut, Fire, Dispatch, Step
            <3>2. QED
                BY <3>1 DEF TypeOK
        <2>3. QED
            BY <2>1, <2>2
    <1>3. /\ inside' \in [Subjects -> BOOLEAN] /\ written' \in [Subjects \X Triggers -> Nat]
          /\ sent' \in [Alerts -> Nat] /\ stored' \in [Alerts -> Nat]
        <2>1. CASE Quiet(p) \/ Detect(p) \/ Cut(p) \/ \E r \in Rules : Fire(p, r)
            <3>1. Quiet(p) => UNCHANGED tables
                BY QuietMoves
            <3>2. UNCHANGED tables
                BY <2>1, <3>1 DEF Detect, Cut, Fire
            <3>3. QED
                BY <3>2 DEF tables, TypeOK
        <2>2. CASE Upsert(p)
            <3> DEFINE x == <<op[p].subject, TriggerOn(op[p].at)>>
            <3>1. /\ \/ inside' = [inside EXCEPT ![op[p].subject] = op[p].at] /\ written' = [written EXCEPT ![x] = @ + 1]
                     \/ UNCHANGED <<inside, written>>
                  /\ UNCHANGED <<sent, stored>>
                BY <2>2 DEF Upsert
            <3>2. op[p].at \in BOOLEAN
                BY <2>2, UpsertMoves
            <3> HIDE DEF x
            <3>3. inside' \in [Subjects -> BOOLEAN]
                BY <3>1, <3>2 DEF TypeOK
            <3>4. [written EXCEPT ![x] = @ + 1] \in [Subjects \X Triggers -> Nat]
                BY CountType DEF TypeOK
            <3>5. QED
                BY <3>1, <3>3, <3>4 DEF TypeOK
        <2>3. CASE Store(p)
            <3>1. /\ stored' = stored \/ \E x \in op[p].told : stored' = [stored EXCEPT ![x] = @ + 1]
                  /\ UNCHANGED <<inside, written, sent>>
                BY <2>3 DEF Store
            <3>2. \A x : [stored EXCEPT ![x] = @ + 1] \in [Alerts -> Nat]
                BY CountType DEF TypeOK
            <3>3. QED
                BY <3>1, <3>2 DEF TypeOK
        <2>4. ASSUME NEW x \in Alerts, Dispatch(p, x)
              PROVE  <1>3!:
            <3>1. sent' = [sent EXCEPT ![x] = @ + 1] /\ UNCHANGED <<inside, written, stored>>
                BY <2>4 DEF Dispatch
            <3>2. [sent EXCEPT ![x] = @ + 1] \in [Alerts -> Nat]
                BY CountType DEF TypeOK
            <3>3. QED
                BY <3>1, <3>2 DEF TypeOK
        <2>5. QED
            BY <2>1, <2>2, <2>3, <2>4 DEF CallStep, Quiet
    <1>4. faults' \in 0 .. MaxUpsets
        BY <1>1, FaultType DEF TypeOK
    <1>5. AlertsAssumption' /\ op' \in [Procs -> Op]
        BY <1>1 DEF Alone, AlertsAssumption, Rules, Subjects, Triggers
    <1>6. TypeOK'
        BY <1>1, <1>2, <1>3, <1>4, <1>5 DEF TypeOK
    <1>7. QED
        BY <1>1, <1>2, <1>5, <1>6

\* The other steps: what is enabled changes for every call.
LEMMA SwitchMoves ==
    ASSUME Base, NEW x \in Rules \cup Methods, Switch(x)
    PROVE  /\ Base' /\ UNCHANGED <<op, tables, faults>> /\ edits' # 0
           /\ \A p \in Procs : seen'[p] = IF At(p, "idle") THEN {} ELSE seen[p] \cup enabled'
    <1> USE DEF Base
    <1>1. UNCHANGED <<op, tables, faults, calls>>
        BY DEF Switch
    <1>2. edits' \in 0 .. MaxUpsets /\ edits' # 0
        BY DEF Switch, TypeOK, AlertsAssumption
    <1>3. enabled' \subseteq Rules \cup Methods
        BY DEF Switch, TypeOK
    <1>4. seen' \in [Procs -> SUBSET (Rules \cup Methods)]
        <2>1. seen' = [p \in Procs |-> IF At(p, "idle") THEN {} ELSE seen[p] \cup enabled']
            BY DEF Switch
        <2>2. ASSUME NEW p \in Procs
              PROVE  (IF At(p, "idle") THEN {} ELSE seen[p] \cup enabled') \in SUBSET (Rules \cup Methods)
            BY <1>3 DEF TypeOK
        <2> HIDE DEF Base
        <2>3. QED
            BY <2>1, <2>2
    <1>5. CallsInv' /\ AlertsAssumption'
        BY <1>1 DEF CallsInv, AlertsAssumption, Rules, Subjects, Triggers
    <1>6. TypeOK'
        BY <1>1, <1>2, <1>3, <1>4 DEF TypeOK, tables
    <1>7. QED
        BY <1>1, <1>2, <1>5, <1>6 DEF Switch

LEMMA StutterMoves ==
    ASSUME Base, UNCHANGED vars
    PROVE  Base'
    BY DEF Base, vars, tables, CallsInv, TypeOK, AlertsAssumption, Rules, Subjects, Triggers, At

-----------------------------------------------------------------------------
(* What was switched off. *)

Begins(p) == (\E at \in BOOLEAN \cup {Nowhere} : Emit(p, at)) \/ (p = "pump" /\ \E at \in BOOLEAN : Fix(at))

\* What a call lists is enabled, what it is about to fire was listed or is enabled, and it
\* sends alerts of what it was about to fire to what is enabled.
LEMMA SeenFrom ==
    ASSUME Base, NEW p \in Procs, CallStep(p), ~Begins(p)
    PROVE  /\ op[p].stage # "idle" /\ seen' = seen
           /\ op'[p].listed \subseteq op[p].listed \cup enabled
           /\ op'[p].todo \subseteq op[p].todo \cup op[p].listed \cup enabled
           /\ \A x \in op'[p].out \cup op'[p].told :
                 x \in op[p].out \cup op[p].told \/ (x[1] \in op[p].todo /\ x[2] \in enabled)
    <1> USE DEF Base
    <1>1. op[p].stage # "idle" /\ seen' = seen
        BY DEF CallStep, Begins, Track, Detect, List, Get, Upsert, Store, Cut, Fire, Dispatch, Step, At
    <1>2. CASE p = "pump" /\ \E compare \in BOOLEAN : Track(compare)
        BY <1>1, <1>2, TrackMoves DEF Empty
    <1>3. CASE List(p)
        BY <1>1, <1>3, ListMoves DEF Empty, TypeOK
    <1>4. CASE Get(p)
        BY <1>1, <1>4, GetMoves DEF Empty, TypeOK
    <1>5. CASE Detect(p)
        BY <1>1, <1>5, DetectMoves DEF TypeOK
    <1>6. CASE Upsert(p)
        <2>1. /\ op'[p].out = {} /\ op'[p].told = {} /\ op'[p].listed \in {op[p].listed, {}}
              /\ \/ op'[p].todo = {}
                 \/ op'[p].todo = op[p].listed \cap {<<op[p].subject, TriggerOn(op[p].at)>>}
            BY <1>6, UpsertMoves
        <2>2. QED
            BY <1>1, <2>1
    <1>7. CASE Store(p)
        <2>1. PICK x \in op[p].told : TRUE
            BY <1>7 DEF Store
        <2>2. QED
            BY <1>1, <1>7, <2>1, StoreMoves DEF Fires
    <1>8. CASE Cut(p)
        BY <1>1, <1>8, CutMoves, IdleFacts
    <1>9. ASSUME NEW r \in Rules, Fire(p, r)
          PROVE  /\ op'[p].listed \subseteq op[p].listed \cup enabled
                 /\ op'[p].todo \subseteq op[p].todo \cup op[p].listed \cup enabled
                 /\ \A x \in op'[p].out \cup op'[p].told :
                       x \in op[p].out \cup op[p].told \/ (x[1] \in op[p].todo /\ x[2] \in enabled)
        <2>1. /\ Fires(p) /\ r \in op[p].todo /\ op'[p].todo = op[p].todo \ {r} /\ op'[p].told = {}
              /\ op'[p].out = {r} \X (enabled \cap Methods) \/ op'[p].out = {}
            BY <1>9, FireMoves DEF TypeOK
        <2>2. \A x \in op'[p].out : x[1] = r /\ x[2] \in enabled
            BY <2>1
        <2>3. QED
            BY <2>1, <2>2 DEF Fires
    <1>10. ASSUME NEW x \in Alerts, Dispatch(p, x)
           PROVE  /\ op'[p].listed \subseteq op[p].listed
                  /\ op'[p].todo = op[p].todo /\ op'[p].out \cup op'[p].told = op[p].out \cup op[p].told
        BY <1>10, DispatchMoves DEF Fires
    <1>11. QED
        BY <1>1, <1>2, <1>3, <1>4, <1>5, <1>6, <1>7, <1>8, <1>9, <1>10 DEF CallStep, Begins

LEMMA SeenNext ==
    ASSUME Base, SeenInv, [Next]_vars
    PROVE  SeenInv'
    <1>1. ASSUME NEW p \in Procs, CallStep(p)
          PROVE  SeenInv'
        <2>1. Alone(p) /\ enabled' = enabled /\ \A q \in Procs \ {p} : seen'[q] = seen[q]
            BY <1>1, BaseStep
        <2>2. CASE Begins(p)
            <3>1. PICK at : \/ at \in BOOLEAN \cup {Nowhere} /\ Emit(p, at)
                            \/ at \in BOOLEAN /\ Fix(at) /\ p = "pump"
                BY <2>2 DEF Begins
            <3>2. seen' = [seen EXCEPT ![p] = enabled]
                BY <3>1 DEF Emit, Fix, Begin
            <3>3. seen'[p] = enabled
                BY <3>2 DEF Base, TypeOK
            <3>4. op'[p].listed = {} /\ Empty(op'[p])
                BY <3>1, BeginMoves DEF Base
            <3>5. QED
                BY <2>1, <3>3, <3>4 DEF SeenInv, Alone, At, Empty
        <2>3. CASE ~Begins(p)
            <3>1. /\ op[p].stage # "idle" /\ seen' = seen
                  /\ op'[p].listed \subseteq op[p].listed \cup enabled
                  /\ op'[p].todo \subseteq op[p].todo \cup op[p].listed \cup enabled
                  /\ \A x \in op'[p].out \cup op'[p].told :
                        x \in op[p].out \cup op[p].told \/ (x[1] \in op[p].todo /\ x[2] \in enabled)
                BY <1>1, <2>3, SeenFrom
            <3>2. enabled \subseteq seen[p]
                BY <3>1 DEF SeenInv, At
            <3>3. /\ enabled' \subseteq seen'[p]
                  /\ op'[p].listed \cup op'[p].todo \subseteq seen'[p]
                  /\ \A x \in op'[p].out \cup op'[p].told : x[1] \in seen'[p] /\ x[2] \in seen'[p]
                BY <2>1, <3>1, <3>2 DEF SeenInv
            <3>4. QED
                BY <2>1, <3>3 DEF SeenInv, Alone, At
        <2>4. QED
            BY <2>2, <2>3
    <1>2. ASSUME NEW x \in Rules \cup Methods, Switch(x)
          PROVE  SeenInv'
        <2>1. op' = op /\ \A p \in Procs : seen'[p] = IF At(p, "idle") THEN {} ELSE seen[p] \cup enabled'
            BY <1>2, SwitchMoves
        <2>2. \A p \in Procs : At(p, "idle") => op[p] = Idle
            BY DEF Base, CallsInv, Sound, At
        <2>3. QED
            BY <2>1, <2>2, IdleFacts DEF SeenInv, At
    <1>3. CASE UNCHANGED vars
        BY <1>3 DEF vars, SeenInv, At
    <1>4. QED
        BY <1>1, <1>2, <1>3, NextSteps

-----------------------------------------------------------------------------
(* What is sent and stored. *)

\* A step of p moves p alone in and out of the sets that are counted.
LEMMA Counts ==
    ASSUME Base, NEW p \in Procs, Alone(p), NEW x \in Alerts
    PROVE  /\ Cardinality(ToSend(x)) \in Nat /\ Cardinality(ToSend(x)') \in Nat
           /\ (p \in ToSend(x) <=> p \in ToSend(x)') => Cardinality(ToSend(x)') = Cardinality(ToSend(x))
           /\ p \in ToSend(x) /\ p \notin ToSend(x)' => Cardinality(ToSend(x)') + 1 = Cardinality(ToSend(x))
           /\ p \notin ToSend(x) /\ p \in ToSend(x)' => Cardinality(ToSend(x)') = Cardinality(ToSend(x)) + 1
           /\ Cardinality(ToStore(x)) \in Nat /\ Cardinality(ToStore(x)') \in Nat
           /\ (p \in ToStore(x) <=> p \in ToStore(x)') => Cardinality(ToStore(x)') = Cardinality(ToStore(x))
           /\ p \in ToStore(x) /\ p \notin ToStore(x)' => Cardinality(ToStore(x)') + 1 = Cardinality(ToStore(x))
           /\ p \notin ToStore(x) /\ p \in ToStore(x)' => Cardinality(ToStore(x)') = Cardinality(ToStore(x)) + 1
    <1>1. IsFiniteSet(ToSend(x)) /\ IsFiniteSet(ToStore(x))
        BY CallsFinite DEF Base, ToSend, ToStore
    <1>2. ToSend(x)' \ {p} = ToSend(x) \ {p} /\ ToStore(x)' \ {p} = ToStore(x) \ {p}
        BY DEF Alone, ToSend, ToStore
    <1>3. QED
        BY <1>1, <1>2, CountOne

\* Whether p itself is counted.
LEMMA Membership ==
    ASSUME NEW p \in Procs, NEW x
    PROVE  /\ p \in ToSend(x) <=> x[1] \in op[p].todo \/ x \in op[p].out
           /\ p \in ToSend(x)' <=> x[1] \in op'[p].todo \/ x \in op'[p].out
           /\ p \in ToStore(x) <=> x \in op[p].told
           /\ p \in ToStore(x)' <=> x \in op'[p].told
    BY DEF ToSend, ToStore

\* Everything is switched on, and what has been listed is every rule.
AllOn == enabled = Rules \cup Methods /\ \A p \in Procs : op[p].stage \in {"get", "upsert"} => op[p].listed = Rules

LEMMA SendStep ==
    ASSUME Base, NEW p \in Procs, CallStep(p), NEW x \in Alerts, x[1][2] # "detected"
    PROVE  /\ sent'[x] + Cardinality(ToSend(x)') + written[x[1]]
                  <= sent[x] + Cardinality(ToSend(x)) + written'[x[1]]
           /\ faults' = faults /\ AllOn =>
                 sent'[x] + Cardinality(ToSend(x)') + written[x[1]]
                     = sent[x] + Cardinality(ToSend(x)) + written'[x[1]]
    <1> USE DEF Base
    <1> DEFINE n == Cardinality(ToSend(x))
               m == Cardinality(ToSend(x)')
    <1>1. x[1] \in Rules /\ x[2] \in Methods /\ x = <<x[1], x[2]>> /\ x[1] \in Subjects \X Triggers
        BY DEF Alerts, Rules, AlertsAssumption
    <1>2. sent[x] \in Nat /\ written[x[1]] \in Nat
        BY <1>1 DEF TypeOK
    <1>3. Fault => faults' # faults
        BY DEF Fault, TypeOK
    <1>4. Alone(p)
        BY BaseStep
    <1>5. /\ n \in Nat /\ m \in Nat
          /\ (p \in ToSend(x) <=> p \in ToSend(x)') => m = n
          /\ p \in ToSend(x) /\ p \notin ToSend(x)' => m + 1 = n
          /\ p \notin ToSend(x) /\ p \in ToSend(x)' => m = n + 1
        BY <1>4, Counts
    <1>6. /\ p \in ToSend(x) <=> x[1] \in op[p].todo \/ x \in op[p].out
          /\ p \in ToSend(x)' <=> x[1] \in op'[p].todo \/ x \in op'[p].out
        BY Membership
    <1> HIDE DEF n, m, Base
    <1> DEFINE Goal ==
                   /\ sent'[x] + m + written[x[1]] <= sent[x] + n + written'[x[1]]
                   /\ faults' = faults /\ AllOn => sent'[x] + m + written[x[1]] = sent[x] + n + written'[x[1]]
    <1>7. SUFFICES Goal
        BY DEF n, m
    <1>8. CASE Quiet(p) \/ Detect(p) \/ Store(p)
        <2>1. UNCHANGED <<sent, written>>
            BY <1>8, QuietMoves DEF tables, Detect, Store
        <2>2. p \in ToSend(x) <=> p \in ToSend(x)'
            <3>1. CASE Quiet(p)
                BY <1>6, <3>1, QuietMoves DEF Empty
            <3>2. CASE Detect(p)
                BY <1>6, <3>2, DetectMoves DEF Empty, Base, TypeOK
            <3>3. CASE Store(p)
                <4>1. PICK y \in op[p].told : TRUE
                    BY <3>3 DEF Store
                <4>2. op'[p].todo = op[p].todo /\ op'[p].out = op[p].out
                    BY <3>3, <4>1, StoreMoves DEF Base
                <4>3. QED
                    BY <1>6, <4>2
            <3>4. QED
                BY <1>8, <3>1, <3>2, <3>3
        <2>3. QED
            BY <1>2, <1>5, <2>1, <2>2
    <1>9. CASE Upsert(p)
        <2> DEFINE y == <<op[p].subject, TriggerOn(op[p].at)>>
        <2>1. /\ Empty(op[p]) /\ op'[p].out = {} /\ op[p].stage = "upsert"
              /\ \/ op'[p].todo = op[p].listed \cap {y} /\ written' = [written EXCEPT ![y] = @ + 1]
                 \/ op'[p].todo = {} /\ Fault /\ UNCHANGED <<inside, written>>
            BY <1>9, UpsertMoves DEF Base
        <2>2. sent' = sent
            BY <1>9 DEF Upsert
        <2>3. p \notin ToSend(x)
            BY <1>6, <2>1 DEF Empty
        <2>4. CASE op'[p].todo = {} /\ Fault /\ UNCHANGED <<inside, written>>
            BY <1>2, <1>3, <1>5, <1>6, <2>1, <2>2, <2>3, <2>4
        <2>5. CASE op'[p].todo = op[p].listed \cap {y} /\ written' = [written EXCEPT ![y] = @ + 1]
            <3> HIDE DEF y
            <3>1. CASE x[1] = y
                <4>1. written'[x[1]] = written[x[1]] + 1
                    BY <1>1, <2>5, <3>1 DEF Base, TypeOK
                <4>2. AllOn => p \in ToSend(x)'
                    BY <1>1, <1>6, <2>1, <2>5, <3>1 DEF AllOn
                <4>3. QED
                    BY <1>2, <1>5, <2>2, <2>3, <4>1, <4>2
            <3>2. CASE x[1] # y
                <4>1. written'[x[1]] = written[x[1]]
                    BY <1>1, <2>5, <3>2 DEF Base, TypeOK
                <4>2. p \notin ToSend(x)'
                    BY <1>6, <2>1, <2>5, <3>2
                <4>3. QED
                    BY <1>2, <1>5, <2>2, <2>3, <4>1, <4>2
            <3>3. QED
                BY <3>1, <3>2
        <2>6. QED
            BY <2>1, <2>4, <2>5
    <1>10. CASE Cut(p)
        <2>1. op'[p] = Idle /\ Fault /\ UNCHANGED <<sent, written>>
            BY <1>10, CutMoves DEF Cut, tables, Base
        <2>2. p \notin ToSend(x)'
            BY <1>6, <2>1, IdleFacts
        <2>3. QED
            BY <1>2, <1>3, <1>5, <2>1, <2>2
    <1>11. ASSUME NEW r \in Rules, Fire(p, r)
           PROVE  Goal
        <2>1. /\ r \in op[p].todo /\ op[p].out = {} /\ op'[p].todo = op[p].todo \ {r}
              /\ op'[p].out = {r} \X (enabled \cap Methods) \/ (op'[p].out = {} /\ Fault)
            BY <1>11, FireMoves DEF Base, TypeOK
        <2>2. UNCHANGED <<sent, written>>
            BY <1>11 DEF Fire, tables
        <2>3. p \in ToSend(x)' => p \in ToSend(x)
            BY <1>1, <1>6, <2>1
        <2>4. AllOn /\ ~Fault /\ p \in ToSend(x) => p \in ToSend(x)'
            <3>1. SUFFICES ASSUME AllOn, ~Fault, x[1] \in op[p].todo PROVE x[1] \in op'[p].todo \/ x \in op'[p].out
                BY <1>6, <2>1
            <3>2. CASE x[1] = r
                <4>1. x \in {r} \X (enabled \cap Methods)
                    BY <1>1, <3>1, <3>2 DEF AllOn
                <4>2. QED
                    BY <2>1, <3>1, <4>1
            <3>3. CASE x[1] # r
                BY <2>1, <3>1, <3>3
            <3>4. QED
                BY <3>2, <3>3
        <2>5. QED
            BY <1>2, <1>3, <1>5, <2>2, <2>3, <2>4
    <1>12. ASSUME NEW y \in Alerts, Dispatch(p, y)
           PROVE  Goal
        <2>1. /\ y \in op[p].out /\ y[1] \notin op[p].todo /\ op'[p].todo = op[p].todo
              /\ op'[p].out = op[p].out \ {y}
            BY <1>12, DispatchMoves DEF Base
        <2>2. sent' = [sent EXCEPT ![y] = @ + 1] /\ written' = written
            BY <1>12 DEF Dispatch
        <2>3. CASE x = y
            <3>1. p \in ToSend(x) /\ p \notin ToSend(x)'
                BY <1>6, <2>1, <2>3
            <3>2. sent'[x] = sent[x] + 1
                BY <2>2, <2>3 DEF Base, TypeOK
            <3>3. QED
                BY <1>2, <1>5, <2>2, <3>1, <3>2
        <2>4. CASE x # y
            <3>1. p \in ToSend(x) <=> p \in ToSend(x)'
                BY <1>6, <2>1, <2>4
            <3>2. sent'[x] = sent[x]
                BY <2>2, <2>4 DEF Base, TypeOK
            <3>3. QED
                BY <1>2, <1>5, <2>2, <3>1, <3>2
        <2>5. QED
            BY <2>3, <2>4
    <1>13. QED
        BY <1>8, <1>9, <1>10, <1>11, <1>12 DEF CallStep, Quiet

LEMMA StoreStep ==
    ASSUME Base, NEW p \in Procs, CallStep(p), NEW x \in Alerts
    PROVE  /\ stored'[x] + Cardinality(ToStore(x)') + sent[x]
                  <= stored[x] + Cardinality(ToStore(x)) + sent'[x]
           /\ faults' = faults =>
                 stored'[x] + Cardinality(ToStore(x)') + sent[x]
                     = stored[x] + Cardinality(ToStore(x)) + sent'[x]
    <1> USE DEF Base
    <1> DEFINE n == Cardinality(ToStore(x))
               m == Cardinality(ToStore(x)')
    <1>1. sent[x] \in Nat /\ stored[x] \in Nat
        BY DEF TypeOK
    <1>2. Fault => faults' # faults
        BY DEF Fault, TypeOK
    <1>3. Alone(p)
        BY BaseStep
    <1>4. /\ n \in Nat /\ m \in Nat
          /\ (p \in ToStore(x) <=> p \in ToStore(x)') => m = n
          /\ p \in ToStore(x) /\ p \notin ToStore(x)' => m + 1 = n
          /\ p \notin ToStore(x) /\ p \in ToStore(x)' => m = n + 1
        BY <1>3, Counts
    <1>5. (p \in ToStore(x) <=> x \in op[p].told) /\ (p \in ToStore(x)' <=> x \in op'[p].told)
        BY Membership
    <1> HIDE DEF n, m, Base
    <1> DEFINE Goal ==
                   /\ stored'[x] + m + sent[x] <= stored[x] + n + sent'[x]
                   /\ faults' = faults => stored'[x] + m + sent[x] = stored[x] + n + sent'[x]
    <1>6. SUFFICES Goal
        BY DEF n, m
    <1>7. CASE Quiet(p) \/ Detect(p) \/ Upsert(p) \/ \E r \in Rules : Fire(p, r)
        <2>1. UNCHANGED <<sent, stored>>
            BY <1>7, QuietMoves DEF tables, Detect, Upsert, Fire
        <2>2. op[p].told = {} /\ op'[p].told = {}
            <3>1. CASE Quiet(p)
                BY <3>1, QuietMoves DEF Empty
            <3>2. CASE Detect(p)
                BY <3>2, DetectMoves DEF Empty, Base, TypeOK
            <3>3. CASE Upsert(p)
                BY <3>3, UpsertMoves DEF Empty, Base
            <3>4. ASSUME NEW r \in Rules, Fire(p, r)
                  PROVE  op[p].told = {} /\ op'[p].told = {}
                BY <3>4, FireMoves DEF Base, TypeOK
            <3>5. QED
                BY <1>7, <3>1, <3>2, <3>3, <3>4
        <2>3. QED
            BY <1>1, <1>4, <1>5, <2>1, <2>2
    <1>8. CASE Cut(p)
        <2>1. op'[p] = Idle /\ Fault /\ UNCHANGED <<sent, stored>>
            BY <1>8, CutMoves DEF Cut, tables, Base
        <2>2. p \notin ToStore(x)'
            BY <1>5, <2>1, IdleFacts
        <2>3. QED
            BY <1>1, <1>2, <1>4, <2>1, <2>2
    <1>9. ASSUME NEW y \in Alerts, Dispatch(p, y)
          PROVE  Goal
        <2>1. op[p].told = {} /\ op'[p].told = {y}
            BY <1>9, DispatchMoves DEF Base
        <2>2. sent' = [sent EXCEPT ![y] = @ + 1] /\ stored' = stored
            BY <1>9 DEF Dispatch
        <2>3. CASE x = y
            <3>1. sent'[x] = sent[x] + 1
                BY <2>2, <2>3 DEF Base, TypeOK
            <3>2. QED
                BY <1>1, <1>4, <1>5, <2>1, <2>2, <2>3, <3>1
        <2>4. CASE x # y
            <3>1. sent'[x] = sent[x]
                BY <2>2, <2>4 DEF Base, TypeOK
            <3>2. QED
                BY <1>1, <1>4, <1>5, <2>1, <2>2, <2>4, <3>1
        <2>5. QED
            BY <2>3, <2>4
    <1>10. CASE Store(p)
        <2>1. PICK y \in op[p].told : \/ stored' = [stored EXCEPT ![y] = @ + 1]
                                      \/ Fault /\ stored' = stored
            BY <1>10 DEF Store
        <2>2. op[p].told = {y} /\ op'[p].told = {} /\ sent' = sent /\ y \in Alerts
            BY <1>10, <2>1, StoreMoves DEF Base, Store
        <2>3. CASE x = y
            <3>1. stored'[x] = stored[x] + 1 \/ (Fault /\ stored' = stored)
                BY <2>1, <2>3 DEF Base, TypeOK
            <3>2. QED
                BY <1>1, <1>2, <1>4, <1>5, <2>2, <2>3, <3>1
        <2>4. CASE x # y
            <3>1. stored'[x] = stored[x]
                BY <2>1, <2>4 DEF Base, TypeOK
            <3>2. QED
                BY <1>1, <1>4, <1>5, <2>2, <2>4, <3>1
        <2>5. QED
            BY <2>3, <2>4
    <1>11. QED
        BY <1>7, <1>8, <1>9, <1>10 DEF CallStep, Quiet

LEMMA CountNext ==
    ASSUME Base, CountInv, [Next]_vars
    PROVE  CountInv'
    <1>1. ASSUME NEW p \in Procs, CallStep(p), NEW x \in Alerts
          PROVE  /\ x[1][2] # "detected" => sent'[x] + Cardinality(ToSend(x)') <= written'[x[1]]
                 /\ stored'[x] + Cardinality(ToStore(x)') <= sent'[x]
        <2>1. Base' /\ Alone(p)
            BY <1>1, BaseStep
        <2>2. /\ Cardinality(ToSend(x)) \in Nat /\ Cardinality(ToSend(x)') \in Nat
              /\ Cardinality(ToStore(x)) \in Nat /\ Cardinality(ToStore(x)') \in Nat
            BY <1>1, <2>1, Counts
        <2>3. x[1] \in Subjects \X Triggers
            BY DEF Base, Alerts, Rules, AlertsAssumption
        <2>4. /\ sent[x] \in Nat /\ stored[x] \in Nat /\ written[x[1]] \in Nat
              /\ sent'[x] \in Nat /\ stored'[x] \in Nat /\ written'[x[1]] \in Nat
            BY <2>1, <2>3 DEF Base, TypeOK
        <2>5. stored'[x] + Cardinality(ToStore(x)') + sent[x] <= stored[x] + Cardinality(ToStore(x)) + sent'[x]
            BY <1>1, StoreStep
        <2>6. stored[x] + Cardinality(ToStore(x)) <= sent[x]
            BY DEF CountInv
        <2>7. stored'[x] + Cardinality(ToStore(x)') <= sent'[x]
            BY <2>2, <2>4, <2>5, <2>6
        <2>8. ASSUME x[1][2] # "detected"
              PROVE  sent'[x] + Cardinality(ToSend(x)') <= written'[x[1]]
            <3>1. sent'[x] + Cardinality(ToSend(x)') + written[x[1]] <= sent[x] + Cardinality(ToSend(x)) + written'[x[1]]
                BY <1>1, <2>8, SendStep
            <3>2. sent[x] + Cardinality(ToSend(x)) <= written[x[1]]
                BY <2>8 DEF CountInv
            <3>3. QED
                BY <2>2, <2>4, <3>1, <3>2
        <2>9. QED
            BY <2>7, <2>8
    <1>2. ASSUME UNCHANGED <<op, tables>>
          PROVE  CountInv'
        <2>1. \A x \in Alerts : ToSend(x)' = ToSend(x) /\ ToStore(x)' = ToStore(x)
            BY <1>2 DEF ToSend, ToStore
        <2>2. QED
            BY <1>2, <2>1 DEF CountInv, tables
    <1>3. ASSUME NEW p \in Procs, CallStep(p)
          PROVE  CountInv'
        BY <1>1, <1>3 DEF CountInv
    <1>4. ASSUME NEW x \in Rules \cup Methods, Switch(x)
          PROVE  CountInv'
        BY <1>2, <1>4, SwitchMoves
    <1>5. CASE UNCHANGED vars
        <2>1. UNCHANGED <<op, tables>>
            BY <1>5 DEF vars, tables
        <2>2. QED
            BY <1>2, <2>1
    <1>6. QED
        BY <1>3, <1>4, <1>5, NextSteps

LEMMA NoUpset ==
    ASSUME Base, [Next]_vars, ~Upset'
    PROVE  /\ ~Upset /\ ~Fault
           /\ (\E p \in Procs : CallStep(p)) \/ UNCHANGED vars
    <1>1. ~Fault
        BY FaultType DEF Upset
    <1>2. \A x \in Rules \cup Methods : ~Switch(x)
        BY SwitchMoves DEF Upset
    <1>3. (\E p \in Procs : CallStep(p)) \/ UNCHANGED vars
        BY <1>2, NextSteps
    <1>4. faults' = faults /\ edits' = edits
        BY <1>1, <1>3, BaseStep DEF vars
    <1>5. QED
        BY <1>1, <1>3, <1>4 DEF Upset

\* Without a fault, what is listed is all that is on.
LEMMA AllOnStep ==
    ASSUME Base, AllOn, ~Fault, NEW p \in Procs, CallStep(p)
    PROVE  AllOn'
    <1> USE DEF Base
    <1>1. /\ Alone(p) /\ enabled' = enabled /\ Rules' = Rules
        BY BaseStep DEF Rules, Triggers
    <1>2. enabled \cap Rules = Rules
        BY DEF AllOn
    <1>3. op'[p].stage \in {"get", "upsert"} => op'[p].listed = Rules
        <2>1. CASE Begins(p)
            <3>1. op'[p].stage \in {"detect", "track"}
                BY <2>1, BeginMoves DEF Begins
            <3>2. QED
                BY <3>1
        <2>2. CASE p = "pump" /\ \E compare \in BOOLEAN : Track(compare)
            <3>1. op'[p].stage \in {"idle", "list"}
                BY <2>2, TrackMoves
            <3>2. QED
                BY <3>1
        <2>3. CASE List(p)
            BY <1>2, <2>3, ListMoves DEF TypeOK
        <2>4. CASE Get(p)
            <3>1. op[p].listed = Rules
                BY <2>4 DEF Get, At, AllOn
            <3>2. op'[p].stage \in {"idle", "list"} \/ op'[p].listed = op[p].listed
                BY <2>4, GetMoves DEF TypeOK
            <3>3. QED
                BY <3>1, <3>2
        <2>5. CASE Detect(p)
            <3>1. op'[p].stage \in {"idle", "list", "fire"}
                BY <2>5, DetectMoves DEF TypeOK
            <3>2. QED
                BY <3>1
        <2>6. CASE Upsert(p)
            <3>1. op'[p].stage \in {"idle", "list", "fire"}
                BY <2>6, UpsertMoves
            <3>2. QED
                BY <3>1
        <2>7. CASE Store(p) \/ (\E r \in Rules : Fire(p, r)) \/ (\E x \in Alerts : Dispatch(p, x))
            <3>1. op'[p].stage \in {"idle", "list", "fire"}
                <4>1. CASE Store(p)
                    <5>1. PICK x \in op[p].told : TRUE
                        BY <4>1 DEF Store
                    <5>2. QED
                        BY <4>1, <5>1, StoreMoves DEF Fires
                <4>2. QED
                    BY <2>7, <4>1, FireMoves, DispatchMoves DEF Fires, TypeOK
            <3>2. QED
                BY <3>1
        <2>8. CASE Cut(p)
            BY <2>8, CutMoves
        <2>9. QED
            BY <2>1, <2>2, <2>3, <2>4, <2>5, <2>6, <2>7, <2>8 DEF CallStep, Begins
    <1>4. QED
        BY <1>1, <1>3 DEF AllOn, Alone

LEMMA ExactNext ==
    ASSUME Base, ExactInv, [Next]_vars
    PROVE  ExactInv'
    <1>1. SUFFICES ASSUME ~Upset'
                   PROVE  /\ AllOn'
                          /\ \A x \in Alerts :
                                /\ x[1][2] # "detected" => sent'[x] + Cardinality(ToSend(x)') = written'[x[1]]
                                /\ stored'[x] + Cardinality(ToStore(x)') = sent'[x]
        BY DEF ExactInv, AllOn
    <1>2. /\ ~Upset /\ ~Fault
          /\ (\E p \in Procs : CallStep(p)) \/ UNCHANGED vars
        BY <1>1, NoUpset
    <1>3. /\ AllOn
          /\ \A x \in Alerts : /\ x[1][2] # "detected" => sent[x] + Cardinality(ToSend(x)) = written[x[1]]
                               /\ stored[x] + Cardinality(ToStore(x)) = sent[x]
        BY <1>2 DEF ExactInv, AllOn
    <1>4. ASSUME NEW p \in Procs, CallStep(p)
          PROVE  AllOn' /\ faults' = faults
        BY <1>2, <1>3, <1>4, AllOnStep, BaseStep
    <1>5. ASSUME NEW p \in Procs, CallStep(p), NEW x \in Alerts
          PROVE  /\ x[1][2] # "detected" => sent'[x] + Cardinality(ToSend(x)') = written'[x[1]]
                 /\ stored'[x] + Cardinality(ToStore(x)') = sent'[x]
        <2>1. Base' /\ Alone(p) /\ faults' = faults
            BY <1>4, <1>5, BaseStep
        <2>2. /\ Cardinality(ToSend(x)) \in Nat /\ Cardinality(ToSend(x)') \in Nat
              /\ Cardinality(ToStore(x)) \in Nat /\ Cardinality(ToStore(x)') \in Nat
            BY <1>5, <2>1, Counts
        <2>3. x[1] \in Subjects \X Triggers
            BY DEF Base, Alerts, Rules, AlertsAssumption
        <2>4. /\ sent[x] \in Nat /\ stored[x] \in Nat /\ written[x[1]] \in Nat
              /\ sent'[x] \in Nat /\ stored'[x] \in Nat /\ written'[x[1]] \in Nat
            BY <2>1, <2>3 DEF Base, TypeOK
        <2>5. stored'[x] + Cardinality(ToStore(x)') + sent[x] = stored[x] + Cardinality(ToStore(x)) + sent'[x]
            BY <1>5, <2>1, StoreStep
        <2>6. stored'[x] + Cardinality(ToStore(x)') = sent'[x]
            BY <1>3, <2>2, <2>4, <2>5
        <2>7. ASSUME x[1][2] # "detected"
              PROVE  sent'[x] + Cardinality(ToSend(x)') = written'[x[1]]
            <3>1. sent'[x] + Cardinality(ToSend(x)') + written[x[1]] = sent[x] + Cardinality(ToSend(x)) + written'[x[1]]
                BY <1>3, <1>5, <2>1, <2>7, SendStep
            <3>2. sent[x] + Cardinality(ToSend(x)) = written[x[1]]
                BY <1>3, <2>7
            <3>3. QED
                BY <2>2, <2>4, <3>1, <3>2
        <2>8. QED
            BY <2>6, <2>7
    <1>6. CASE UNCHANGED vars
        <2>1. \A x \in Alerts : ToSend(x)' = ToSend(x) /\ ToStore(x)' = ToStore(x)
            BY <1>6 DEF vars, ToSend, ToStore
        <2>2. AllOn'
            BY <1>3, <1>6 DEF vars, AllOn
        <2>3. QED
            BY <1>3, <1>6, <2>1, <2>2 DEF vars, tables
    <1>7. QED
        BY <1>2, <1>4, <1>5, <1>6

-----------------------------------------------------------------------------
(* The host. *)

\* Without a fault, the pump is about to write only where the host's position is not the
\* stored one, and fires for the stored one.
LEMMA PumpStep ==
    ASSUME Base, HostInv, ~Upset, ~Fault, NEW p \in Procs, p = "pump", CallStep(p), ~Upsert(p)
    PROVE  /\ op'[p].stage = "upsert" => op'[p].at # inside["host"]
           /\ op'[p].stage = "fire" => op'[p].at = inside["host"]
    <1> USE DEF Base
    <1>1. CASE Begins(p)
        <2>1. op'[p].stage \in {"detect", "track"}
            BY <1>1, BeginMoves DEF Begins
        <2>2. QED
            BY <2>1
    <1>2. CASE \E compare \in BOOLEAN : Track(compare)
        <2>1. op'[p].stage \in {"idle", "list"}
            BY <1>2, TrackMoves
        <2>2. QED
            BY <2>1
    <1>3. CASE List(p)
        <2>1. op'[p].stage = "get"
            BY <1>3, ListMoves DEF TypeOK
        <2>2. QED
            BY <2>1
    <1>4. CASE Get(p)
        <2>1. \/ op'[p].stage \in {"idle", "list"}
              \/ op'[p].stage = "upsert" /\ op'[p].at = op[p].at /\ op[p].at # inside[op[p].subject]
            BY <1>4, GetMoves DEF TypeOK
        <2>2. op[p].subject = "host"
            BY <1>4 DEF Get, At, CallsInv, Sound, Compares
        <2>3. QED
            BY <2>1, <2>2
    <1>5. CASE Detect(p)
        BY <1>5, DetectMoves DEF TypeOK
    <1>6. CASE Cut(p)
        BY <1>6, CutMoves
    <1>7. CASE Store(p) \/ (\E r \in Rules : Fire(p, r)) \/ (\E x \in Alerts : Dispatch(p, x))
        <2>1. Fires(p)
            <3>1. CASE Store(p)
                <4>1. PICK x \in op[p].told : TRUE
                    BY <3>1 DEF Store
                <4>2. QED
                    BY <3>1, <4>1, StoreMoves
            <3>2. QED
                BY <1>7, <3>1, FireMoves, DispatchMoves DEF TypeOK
        <2>2. /\ op[p].stage = "fire" /\ op'[p].stage \in {"idle", "list", "fire"}
              /\ op'[p].stage = "fire" => op'[p].at = op[p].at
            BY <2>1 DEF Fires
        <2>3. op[p].at = inside["host"]
            BY <2>2 DEF HostInv, At
        <2>4. QED
            BY <2>2, <2>3
    <1>8. QED
        BY <1>1, <1>2, <1>3, <1>4, <1>5, <1>6, <1>7 DEF CallStep, Begins

\* Only an upsert writes memberships.
LEMMA NoWrite ==
    ASSUME Base, NEW p \in Procs, CallStep(p), ~Upsert(p)
    PROVE  UNCHANGED <<inside, written>>
    <1>1. Quiet(p) => UNCHANGED tables
        BY QuietMoves
    <1>2. QED
        BY <1>1 DEF CallStep, Quiet, Detect, Cut, Fire, Store, Dispatch, tables

LEMMA HostNext ==
    ASSUME Base, HostInv, [Next]_vars
    PROVE  HostInv'
    <1>1. PICK pump \in Procs, h \in Subjects, e, l \in Triggers :
              pump = "pump" /\ h = "host" /\ e = "enters" /\ l = "leaves"
        BY DEF Procs, Subjects, Triggers
    <1> DEFINE Turns == written[<<h, e>>] = written[<<h, l>>] + (IF inside[h] THEN 1 ELSE 0)
               Writes == op[pump].stage = "upsert" => op[pump].at # inside[h]
               Tells == op[pump].stage = "fire" => op[pump].at = inside[h]
    <1>2. SUFFICES ASSUME ~Upset'
                   PROVE  Turns' /\ Writes' /\ Tells'
        BY <1>1 DEF HostInv, At
    <1>3. /\ ~Upset /\ ~Fault
          /\ (\E p \in Procs : CallStep(p)) \/ UNCHANGED vars
        BY <1>2, NoUpset
    <1>4. Turns /\ Writes /\ Tells
        BY <1>1, <1>3 DEF HostInv, At
    <1>5. ASSUME NEW p \in Procs, CallStep(p), ~Upsert(p)
          PROVE  Turns' /\ Writes' /\ Tells'
        <2>1. UNCHANGED <<inside, written>>
            BY <1>5, NoWrite
        <2>2. Turns'
            BY <1>4, <2>1
        <2>3. CASE p = pump
            <3>1. /\ op'[p].stage = "upsert" => op'[p].at # inside["host"]
                  /\ op'[p].stage = "fire" => op'[p].at = inside["host"]
                BY <1>1, <1>3, <1>5, <2>3, PumpStep
            <3>2. QED
                BY <1>1, <2>1, <2>2, <2>3, <3>1
        <2>4. CASE p # pump
            <3>1. op'[pump] = op[pump]
                BY <1>5, <2>4, BaseStep DEF Alone
            <3>2. QED
                BY <1>4, <2>1, <2>2, <3>1
        <2>5. QED
            BY <2>3, <2>4
    <1>6. ASSUME NEW p \in Procs, Upsert(p)
          PROVE  Turns' /\ Writes' /\ Tells'
        <2> DEFINE s == op[p].subject
                   at == op[p].at
                   x == <<s, TriggerOn(at)>>
        <2>1. /\ Alone(p) /\ op'[p].stage \in {"idle", "list", "fire"} /\ op[p].stage = "upsert"
              /\ op'[p].stage = "fire" => op'[p].at = at
              /\ at \in BOOLEAN /\ (s = "host" <=> p = "pump")
              /\ inside' = [inside EXCEPT ![s] = at] /\ written' = [written EXCEPT ![x] = @ + 1]
            BY <1>3, <1>6, UpsertMoves DEF Base
        <2>2. s \in Subjects /\ TriggerOn(at) \in Triggers
            BY DEF Base, TypeOK, Op, TriggerOn, Triggers
        <2>3. /\ inside \in [Subjects -> BOOLEAN] /\ written \in [Subjects \X Triggers -> Nat]
              /\ <<h, e>> \in Subjects \X Triggers /\ <<h, l>> \in Subjects \X Triggers
            BY DEF Base, TypeOK
        <2> HIDE DEF s, at
        <2>4. CASE p = pump
            <3>1. s = h
                BY <1>1, <2>1, <2>4
            <3>2. at # inside[h] /\ inside'[h] = at
                BY <1>4, <2>1, <2>3, <2>4, <3>1 DEF at
            <3>3. CASE at = TRUE
                <4>1. TriggerOn(at) = e
                    BY <1>1, <3>3 DEF TriggerOn
                <4>2. written'[<<h, e>>] = written[<<h, e>>] + 1 /\ written'[<<h, l>>] = written[<<h, l>>]
                    BY <1>1, <2>1, <2>3, <3>1, <4>1
                <4>3. inside[h] = FALSE /\ inside'[h] = TRUE
                    BY <2>3, <3>2, <3>3
                <4>4. Turns'
                    BY <1>4, <2>3, <4>2, <4>3
                <4>5. QED
                    BY <2>1, <2>4, <3>2, <4>4
            <3>4. CASE at = FALSE
                <4>1. TriggerOn(at) = l
                    BY <1>1, <3>4 DEF TriggerOn
                <4>2. written'[<<h, l>>] = written[<<h, l>>] + 1 /\ written'[<<h, e>>] = written[<<h, e>>]
                    BY <1>1, <2>1, <2>3, <3>1, <4>1
                <4>3. inside[h] = TRUE /\ inside'[h] = FALSE
                    BY <2>3, <3>2, <3>4
                <4>4. Turns'
                    BY <1>4, <2>3, <4>2, <4>3
                <4>5. QED
                    BY <2>1, <2>4, <3>2, <4>4
            <3>5. QED
                BY <2>1, <3>3, <3>4
        <2>5. CASE p # pump
            <3>1. s # h
                BY <1>1, <2>1, <2>5
            <3>2. inside'[h] = inside[h]
                BY <2>1, <2>3, <3>1
            <3>3. written'[<<h, e>>] = written[<<h, e>>] /\ written'[<<h, l>>] = written[<<h, l>>]
                BY <2>1, <2>3, <3>1
            <3>4. op'[pump] = op[pump]
                BY <2>1, <2>5 DEF Alone
            <3>5. QED
                BY <1>4, <3>2, <3>3, <3>4
        <2>6. QED
            BY <2>4, <2>5
    <1>7. CASE UNCHANGED vars
        <2>1. UNCHANGED <<inside, written, op>>
            BY <1>7 DEF vars
        <2>2. QED
            BY <1>4, <2>1
    <1>8. QED
        BY <1>3, <1>5, <1>6, <1>7

-----------------------------------------------------------------------------
(* The invariant. *)

AlertsInv == Base /\ SeenInv /\ CountInv /\ ExactInv /\ HostInv

LEMMA AlertsInit ==
    ASSUME AlertsAssumption, Init
    PROVE  AlertsInv
    <1>1. \A p \in Procs : op[p] = Idle
        BY DEF Init
    <1>2. CallsInv
        BY <1>1, IdleFacts, IdleSound DEF Init, CallsInv
    <1>3. TypeOK
        BY <1>2 DEF Init, TypeOK, CallsInv, AlertsAssumption
    <1>4. SeenInv
        BY <1>1, IdleFacts DEF SeenInv, At
    <1>5. \A x \in Alerts : /\ Cardinality(ToSend(x)) = 0 /\ Cardinality(ToStore(x)) = 0
                            /\ sent[x] = 0 /\ stored[x] = 0 /\ written[x[1]] = 0
        <2>1. SUFFICES ASSUME NEW x \in Alerts
                       PROVE  /\ Cardinality(ToSend(x)) = 0 /\ Cardinality(ToStore(x)) = 0
                              /\ sent[x] = 0 /\ stored[x] = 0 /\ written[x[1]] = 0
            OBVIOUS
        <2>2. ToSend(x) = {} /\ ToStore(x) = {}
            BY <1>1, IdleFacts DEF ToSend, ToStore
        <2>3. x[1] \in Subjects \X Triggers
            BY DEF Alerts, Rules, AlertsAssumption
        <2>4. QED
            BY <2>2, <2>3, FS_EmptySet DEF Init
    <1>6. CountInv
        BY <1>5 DEF CountInv
    <1>7. ExactInv
        <2>1. \A p \in Procs : op[p].stage = "idle"
            BY <1>1, IdleFacts
        <2>2. QED
            BY <1>5, <2>1 DEF ExactInv, Init
    <1>8. HostInv
        <2>1. PICK pump \in Procs, h \in Subjects, e, l \in Triggers :
                  pump = "pump" /\ h = "host" /\ e = "enters" /\ l = "leaves"
            BY DEF Procs, Subjects, Triggers
        <2>2. inside[h] = FALSE /\ written[<<h, e>>] = 0 /\ written[<<h, l>>] = 0 /\ op[pump].stage = "idle"
            BY <1>1, IdleFacts DEF Init
        <2>3. QED
            BY <2>1, <2>2 DEF HostInv, At
    <1>9. QED
        BY <1>2, <1>3, <1>4, <1>6, <1>7, <1>8 DEF AlertsInv, Base

LEMMA BaseNext ==
    ASSUME Base, [Next]_vars
    PROVE  Base'
    BY NextSteps, BaseStep, SwitchMoves, StutterMoves

LEMMA AlertsStep ==
    ASSUME AlertsInv, [Next]_vars
    PROVE  AlertsInv'
    BY BaseNext, SeenNext, CountNext, ExactNext, HostNext DEF AlertsInv

-----------------------------------------------------------------------------
(* What follows from it. *)

\* Nothing is left to send, or to store, of a call that does not fire.
LEMMA OnlyFiring ==
    ASSUME CallsInv, NEW p \in Procs, op[p].stage # "fire"
    PROVE  op[p].todo = {} /\ op[p].out = {} /\ op[p].told = {}
    BY DEF CallsInv, Sound

\* An alert that is still to be sent for a crossing of the host is the pump's, for the side
\* the host is on.
LEMMA HostSends ==
    ASSUME Base, HostInv, ~Upset, NEW t \in {"enters", "leaves"}, NEW m \in Methods,
           NEW h \in Subjects, h = "host"
    PROVE  \/ ToSend(<<<<h, t>>, m>>) = {}
           \/ /\ ToSend(<<<<h, t>>, m>>) = {"pump"} /\ ~At("pump", "idle")
              /\ t = TriggerOn(inside[h])
    <1> DEFINE x == <<<<h, t>>, m>>
    <1>1. ASSUME NEW p \in ToSend(x)
          PROVE  p = "pump" /\ op[p].stage = "fire" /\ t = TriggerOn(inside[h])
        <2>1. p \in Procs /\ (<<h, t>> \in op[p].todo \/ x \in op[p].out)
            BY DEF ToSend
        <2>2. op[p].stage = "fire"
            BY <2>1, OnlyFiring DEF Base
        <2>3. Firing(p, op[p])
            BY <2>1, <2>2 DEF Base, CallsInv, Sound
        <2>4. op[p].on # "detected"
            BY <2>1, <2>3 DEF Firing
        <2>5. <<h, t>> = <<op[p].subject, op[p].on>> /\ Compares(p, op[p]) /\ op[p].on = TriggerOn(op[p].at)
            BY <2>1, <2>3, <2>4 DEF Firing
        <2>6. p = "pump" /\ t = TriggerOn(op[p].at)
            BY <2>5 DEF Compares
        <2>7. op[p].at = inside[h]
            BY <2>2, <2>6 DEF HostInv, At
        <2>8. QED
            BY <2>2, <2>6, <2>7
    <1> HIDE DEF x
    <1>2. CASE ToSend(x) # {}
        <2>1. PICK p \in ToSend(x) : TRUE
            BY <1>2
        <2>2. p = "pump" /\ op[p].stage = "fire" /\ t = TriggerOn(inside[h])
            BY <1>1
        <2>3. ToSend(x) = {"pump"}
            BY <1>1, <2>1, <2>2
        <2>4. QED
            BY <2>2, <2>3 DEF x, At
    <1>3. QED
        BY <1>2 DEF x

LEMMA HostTold ==
    ASSUME AlertsInv
    PROVE  HostAlternates
    <1>1. PICK h \in Subjects, e, l \in Triggers : h = "host" /\ e = "enters" /\ l = "leaves"
        BY DEF Subjects, Triggers
    <1>2. SUFFICES ASSUME ~Upset, NEW m \in Methods, {<<h, e>>, <<h, l>>} \subseteq enabled
                   PROVE  /\ sent[<<<<h, e>>, m>>] - sent[<<<<h, l>>, m>>] \in 0 .. 1
                          /\ At("pump", "idle") =>
                                (sent[<<<<h, e>>, m>>] > sent[<<<<h, l>>, m>>]) = inside[h]
        BY <1>1 DEF HostAlternates, Upset
    <1> DEFINE xe == <<<<h, e>>, m>>
               xl == <<<<h, l>>, m>>
    <1>3. xe \in Alerts /\ xl \in Alerts
        BY <1>2 DEF AlertsInv, Base, AlertsAssumption, TypeOK, Alerts
    <1>4. /\ sent[xe] + Cardinality(ToSend(xe)) = written[<<h, e>>]
          /\ sent[xl] + Cardinality(ToSend(xl)) = written[<<h, l>>]
        BY <1>1, <1>2, <1>3 DEF AlertsInv, ExactInv
    <1>5. /\ sent[xe] \in Nat /\ sent[xl] \in Nat /\ inside[h] \in BOOLEAN
          /\ written[<<h, e>>] \in Nat /\ written[<<h, l>>] \in Nat
        BY <1>3 DEF AlertsInv, Base, TypeOK
    <1>6. written[<<h, e>>] = written[<<h, l>>] + (IF inside[h] THEN 1 ELSE 0)
        BY <1>1, <1>2 DEF AlertsInv, HostInv
    <1>7. \/ ToSend(xe) = {}
          \/ ToSend(xe) = {"pump"} /\ ~At("pump", "idle") /\ e = TriggerOn(inside[h])
        BY <1>1, <1>2, HostSends DEF AlertsInv
    <1>8. \/ ToSend(xl) = {}
          \/ ToSend(xl) = {"pump"} /\ ~At("pump", "idle") /\ l = TriggerOn(inside[h])
        BY <1>1, <1>2, HostSends DEF AlertsInv
    <1>9. Cardinality({}) = 0 /\ Cardinality({"pump"}) = 1
        BY FS_EmptySet, FS_Singleton
    <1> HIDE DEF xe, xl
    <1>10. CASE inside[h] = TRUE
        <2>1. Cardinality(ToSend(xl)) = 0
            BY <1>1, <1>8, <1>9, <1>10 DEF TriggerOn
        <2>2. Cardinality(ToSend(xe)) = 0 \/ (Cardinality(ToSend(xe)) = 1 /\ ~At("pump", "idle"))
            BY <1>7, <1>9
        <2>3. sent[xl] = written[<<h, l>>] /\ written[<<h, e>>] = written[<<h, l>>] + 1
            BY <1>4, <1>5, <1>6, <1>10, <2>1
        <2>4. /\ sent[xe] - sent[xl] \in 0 .. 1
              /\ At("pump", "idle") => sent[xe] > sent[xl]
            BY <1>4, <1>5, <2>2, <2>3
        <2>5. QED
            BY <1>10, <2>4 DEF xe, xl
    <1>11. CASE inside[h] = FALSE
        <2>1. Cardinality(ToSend(xe)) = 0
            BY <1>1, <1>7, <1>9, <1>11 DEF TriggerOn
        <2>2. Cardinality(ToSend(xl)) = 0 \/ (Cardinality(ToSend(xl)) = 1 /\ ~At("pump", "idle"))
            BY <1>8, <1>9
        <2>3. sent[xe] = written[<<h, e>>] /\ written[<<h, e>>] = written[<<h, l>>]
            BY <1>4, <1>5, <1>6, <1>11, <2>1
        <2>4. /\ sent[xe] - sent[xl] \in 0 .. 1
              /\ At("pump", "idle") => ~(sent[xe] > sent[xl])
            BY <1>4, <1>5, <2>2, <2>3
        <2>5. At("pump", "idle") => (sent[xe] > sent[xl]) = FALSE
            BY <1>5, <2>4
        <2>6. QED
            BY <1>11, <2>4, <2>5 DEF xe, xl
    <1>12. QED
        BY <1>5, <1>10, <1>11

LEMMA OthersTold ==
    ASSUME AlertsInv
    PROVE  ToldOfChangesOnly /\ EveryChangeIsTold /\ SwitchedOffIsSilent
    <1> USE DEF AlertsInv
    <1>1. ToldOfChangesOnly
        <2>1. SUFFICES ASSUME NEW s \in Watched, NEW t \in {"enters", "leaves"}, NEW m \in Methods
                       PROVE  sent[<<<<s, t>>, m>>] <= written[<<s, t>>]
            BY DEF ToldOfChangesOnly
        <2> DEFINE x == <<<<s, t>>, m>>
        <2>2. x \in Alerts /\ <<s, t>> \in Subjects \X Triggers
            BY DEF Base, AlertsAssumption, Alerts, Rules, Triggers
        <2>3. sent[x] + Cardinality(ToSend(x)) <= written[<<s, t>>]
            BY <2>2 DEF CountInv
        <2>4. sent[x] \in Nat /\ written[<<s, t>>] \in Nat
            BY <2>2 DEF Base, TypeOK
        <2>5. Cardinality(ToSend(x)) \in Nat
            BY CallsFinite, FS_CardinalityType DEF Base, ToSend
        <2>6. QED
            BY <2>3, <2>4, <2>5
    <1>2. EveryChangeIsTold
        <2>1. SUFFICES ASSUME ~Upset, Finished, NEW r \in Rules, NEW m \in Methods
                       PROVE  /\ r[2] # "detected" => sent[<<r, m>>] = written[r]
                              /\ stored[<<r, m>>] = sent[<<r, m>>]
            BY DEF EveryChangeIsTold, Upset
        <2> DEFINE x == <<r, m>>
        <2>2. x \in Alerts /\ r \in Subjects \X Triggers
            BY DEF Base, AlertsAssumption, Alerts, Rules
        <2>3. \A p \in Procs : op[p].todo = {} /\ op[p].out = {} /\ op[p].told = {}
            BY <2>1, OnlyFiring DEF Base, Finished, At
        <2>4. ToSend(x) = {} /\ ToStore(x) = {}
            BY <2>3 DEF ToSend, ToStore
        <2>5. Cardinality(ToSend(x)) = 0 /\ Cardinality(ToStore(x)) = 0
            BY <2>4, FS_EmptySet
        <2>6. sent[x] \in Nat /\ written[r] \in Nat /\ stored[x] \in Nat
            BY <2>2 DEF Base, TypeOK
        <2>7. /\ r[2] # "detected" => sent[x] + Cardinality(ToSend(x)) = written[r]
              /\ stored[x] + Cardinality(ToStore(x)) = sent[x]
            BY <2>1, <2>2 DEF ExactInv
        <2>8. QED
            BY <2>5, <2>6, <2>7
    <1>3. SwitchedOffIsSilent
        BY DEF SwitchedOffIsSilent, SeenInv
    <1>4. QED
        BY <1>1, <1>2, <1>3

\* The host is told to enter and to leave in turn, no alert of a crossing answers to none,
\* every written change is told unless something fails or is switched, and what was off
\* throughout a call is silent in it: for any number of ingests, methods, calls and faults.
\* (The alerts are one of the parts that the capture run composes; the assumption about
\* their constants is a hypothesis here, as the run states it for its own.)
THEOREM CrossingsHold == AlertsAssumption /\ Spec => []CrossingsAreTold
    <1>1. AlertsAssumption /\ Init => AlertsInv
        BY AlertsInit
    <1>2. AlertsInv /\ [Next]_vars => AlertsInv'
        BY AlertsStep
    <1>3. AlertsInv => CrossingsAreTold
        BY HostTold, OthersTold DEF AlertsInv, Base, CrossingsAreTold
    <1>4. QED
        BY <1>1, <1>2, <1>3, PTL DEF Spec
=============================================================================
