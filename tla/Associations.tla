---------------------------- MODULE Associations ----------------------------
(***************************************************************************)
(* Links between emitters ("other tires on the same car"): the correlation  *)
(* pass adds them, the operator confirms and removes them, the MCP agent     *)
(* proposes and removes them (fluxfang-api/src/correlate.rs, emitters.rs,     *)
(* mcp/tools; fluxfang-core/src/correlate.rs; the association and evidence    *)
(* tables of fluxfang-db).                                                   *)
(*                                                                         *)
(* A link is two rows, one per direction.  Transactions are Postgres's at    *)
(* READ COMMITTED: a row written is locked until the commit, an INSERT or a  *)
(* DELETE that meets a locked row waits, two that wait for each other lose   *)
(* one of them, a DELETE finds the rows of its own start.  Deleting an       *)
(* emitter and the cascade are one step.  Times are whole numbers, a place   *)
(* is a mile from every other; an emitter has one reading at a time.         *)
(***************************************************************************)
EXTENDS Integers, Sequences, FiniteSets, FiniteSetsExt

CONSTANTS N,            \* emitters 1..N, in the order the pass lists them
          Model,        \* function: the model of each emitter
          Histories,    \* what an emitter may have sent before: functions from times to places
          Late,         \* emissions that may still come in, as <<time, place>>
          Nowhere, Window, MinEvents, MinSpread,
          MaxCalls,     \* bound: calls of the operator and the agent, and passes
          MaxFaults     \* bound: statements that fail

Emitters == 1..N
Callers == {"operator", "agent"}
Procs == Callers \cup {"pass"}
Directions == {d \in Emitters \X Emitters : d[1] # d[2]}
Swap(d) == <<d[2], d[1]>>
None == [source |-> "none", state |-> "none"]

AssociationsAssumption ==
    /\ N \in Nat /\ DOMAIN Model = Emitters
    /\ \A h \in Histories : DOMAIN h \subseteq Nat /\ IsFiniteSet(DOMAIN h)
    /\ Late \subseteq Nat \X UNION {{h[t] : t \in DOMAIN h} : h \in Histories}
    /\ {Window, MinEvents, MinSpread, MaxCalls, MaxFaults} \subseteq Nat

-----------------------------------------------------------------------------
\* The engine: cooccurrences and should_associate.

Apart(s, t) == IF s < t THEN t - s ELSE s - t
Least(s, t) == IF s < t THEN s ELSE t

\* The earliest two readings that are left, if within the window, are an event and used up;
\* if not, the earlier of them is passed over.
Advance(w) ==
    LET s == Min(w.a)
        t == Min(w.b)
    IN  IF Apart(s, t) =< Window
        THEN [a |-> w.a \ {s}, b |-> w.b \ {t}, events |-> w.events \cup {<<s, t>>}]
        ELSE IF s < t THEN [w EXCEPT !.a = @ \ {s}] ELSE [w EXCEPT !.b = @ \ {t}]

\* Two pointers over the sorted readings, until one has no more: the events, each as the
\* times of its readings.
Cooccurrences(a, b) ==
    LET most == Cardinality(DOMAIN a) + Cardinality(DOMAIN b)
        walk[k \in 0..most] ==
            IF k = 0 THEN [a |-> DOMAIN a, b |-> DOMAIN b, events |-> {}]
            ELSE LET w == walk[k - 1] IN IF w.a = {} \/ w.b = {} THEN w ELSE Advance(w)
    IN  walk[most].events

\* An event has the earlier time and the first known place.
Moment(e) == Least(e[1], e[2])
Place(a, b, e) == IF a[e[1]] # Nowhere THEN a[e[1]] ELSE b[e[2]]

\* The confidence, as the state it becomes (initial_evidence_state).
ShouldAssociate(a, b) ==
    LET events == Cooccurrences(a, b)
        far == \E e, f \in events : /\ Nowhere \notin {Place(a, b, e), Place(a, b, f)}
                                    /\ Place(a, b, e) # Place(a, b, f)
        spread == \E e, f \in events : Moment(f) - Moment(e) >= MinSpread
    IN  IF far THEN "observed"
        ELSE IF Cardinality(events) >= MinEvents /\ spread THEN "inferred" ELSE "none"

InitialEvidenceState(source, verdict) ==
    CASE source = "manual" -> "verified" [] source = "ai" -> "hypothesis" [] OTHER -> verdict

-----------------------------------------------------------------------------
VARIABLES
    emitters,    \* the emitter table
    readings,    \* their emissions
    link,        \* emitter_association, as committed: a row or None for every direction
    evidence,    \* attribution_evidence
    op,          \* what each caller, and the pass, is at
    writes,      \* the rows each open transaction has written, which it holds locked
    candidates,  \* the emitters whose readings the pass has still to load
    loaded,      \* the readings it works on
    todo,        \* the pairs it has still to look at
    late,        \* the emissions that have not come in yet
    lost,        \* history: pairs whose evidence was not recorded for a failure
    raced,       \* history: directions removed while a call was adding them, or the reverse
    confirmed,   \* history: directions confirmed since the agent's check
    calls, faults

vars == <<emitters, readings, link, evidence, op, writes, candidates, loaded, todo, late,
          lost, raced, confirmed, calls, faults>>

\* A call: its stage, the direction it was given, the row it adds, the inserts it has
\* still to make or the rows its DELETE has still to reach.
Idle == [stage |-> "idle", on |-> <<1, 2>>, row |-> None, left |-> {}, next |-> <<>>]
NoWrites == <<>>

Init ==
    /\ emitters = Emitters
    /\ readings \in [Emitters -> Histories]
    /\ link = [d \in Directions |-> None]
    /\ evidence = {}
    /\ op = [p \in Procs |-> Idle]
    /\ writes = [p \in Procs |-> NoWrites]
    /\ candidates = {}
    /\ loaded = <<>>
    /\ todo = {}
    /\ late = Late
    /\ lost = {} /\ raced = {} /\ confirmed = {}
    /\ calls = 0 /\ faults = 0

LockedFrom(p, d) == \E q \in Procs \ {p} : d \in DOMAIN writes[q]

Begin(p, call) ==
    /\ op[p] = Idle /\ calls < MaxCalls
    /\ calls' = calls + 1
    /\ op' = [op EXCEPT ![p] = call]

Adding(d, source, verdict) ==
    [Idle EXCEPT !.stage = "insert", !.on = d, !.next = <<d, Swap(d)>>,
                 !.row = [source |-> source, state |-> InitialEvidenceState(source, verdict)]]

\* A DELETE starts: it will find the rows that are there now.
Deleting(d) == [Idle EXCEPT !.stage = "delete", !.on = d,
                            !.left = {x \in {d, Swap(d)} : link[x] # None}]

-----------------------------------------------------------------------------
\* An emission of e comes in.
Observe(e, m) ==
    /\ m \in late /\ e \in emitters /\ m[1] \notin DOMAIN readings[e]
    /\ late' = late \ {m}
    /\ readings' = [readings EXCEPT ![e] = [t \in DOMAIN @ \cup {m[1]} |->
                                                IF t = m[1] THEN m[2] ELSE @[t]]]
    /\ UNCHANGED <<emitters, link, evidence, op, writes, candidates, loaded, todo, lost, raced, confirmed,
                   calls, faults>>

\* add_association, remove_association.
Confirm(d) ==
    /\ {d[1], d[2]} \subseteq emitters
    /\ Begin("operator", Adding(d, "manual", "none"))
    /\ UNCHANGED <<emitters, readings, link, evidence, writes, candidates, loaded, todo, late, lost, raced,
                   confirmed, faults>>

RemoveAssociation(d) ==
    /\ Begin("operator", Deleting(d))
    /\ UNCHANGED <<emitters, readings, link, evidence, writes, candidates, loaded, todo, late, lost, raced,
                   confirmed, faults>>

\* link_emitters looks at nothing before it adds.
LinkEmitters(d) ==
    /\ Begin("agent", Adding(d, "ai", "none"))
    /\ UNCHANGED <<emitters, readings, link, evidence, writes, candidates, loaded, todo, late, lost, raced,
                   confirmed, faults>>

\* Mutant: the agent unlinks whatever the operator said.
UnlinkUnchecked(d) ==
    /\ Begin("agent", [Idle EXCEPT !.stage = "unlink", !.on = d])
    /\ confirmed' = {}
    /\ UNCHANGED <<emitters, readings, link, evidence, writes, candidates, loaded, todo, late, lost, raced,
                   faults>>

\* unlink_emitters reads the state of the link, and refuses what the operator confirmed...
UnlinkEmitters(d) ==
    /\ link[d].state # "verified"
    /\ Begin("agent", [Idle EXCEPT !.stage = "unlink", !.on = d])
    /\ confirmed' = {}
    /\ UNCHANGED <<emitters, readings, link, evidence, writes, candidates, loaded, todo, late, lost, raced,
                   faults>>

\* ...and removes it in another statement.
UnlinkRemove ==
    /\ op["agent"].stage = "unlink"
    /\ op' = [op EXCEPT !["agent"] = Deleting(@.on)]
    /\ UNCHANGED <<emitters, readings, link, evidence, writes, candidates, loaded, todo, late, lost, raced,
                   confirmed, calls, faults>>

\* An emitter is deleted, and its links with it; the rows of open transactions hold it off.
DeleteEmitter(p, e) ==
    LET mine == {d \in Directions : e \in {d[1], d[2]}} IN
    /\ e \in emitters /\ op[p] = Idle /\ calls < MaxCalls
    /\ \A d \in mine : ~LockedFrom(p, d)
    /\ calls' = calls + 1
    /\ emitters' = emitters \ {e}
    /\ link' = [d \in Directions |-> IF d \in mine THEN None ELSE link[d]]
    /\ op' = [q \in Procs |-> [op[q] EXCEPT !.left = @ \ mine]]
    /\ UNCHANGED <<readings, evidence, writes, candidates, loaded, todo, late, lost, raced, confirmed, faults>>

-----------------------------------------------------------------------------
\* EmitterAssociationRepo::add, one INSERT after the other.  A manual one overwrites the
\* row that is there, any other leaves it, unlocked, as it is.
Insert(p) ==
    LET d == Head(op[p].next) IN
    /\ op[p].stage = "insert" /\ op[p].next # <<>>
    /\ ~LockedFrom(p, d)
    /\ IF link[d] = None /\ ~({d[1], d[2]} \subseteq emitters)
       THEN /\ op' = [op EXCEPT ![p] = Idle]
            /\ writes' = [writes EXCEPT ![p] = NoWrites]
       ELSE /\ op' = [op EXCEPT ![p].next = Tail(@)]
            /\ writes' = IF link[d] = None \/ op[p].row.source = "manual"
                         THEN [writes EXCEPT ![p] = [x \in DOMAIN @ \cup {d} |-> op[p].row]]
                         ELSE writes
    /\ UNCHANGED <<emitters, readings, link, evidence, candidates, loaded, todo, late, lost, raced, confirmed,
                   calls, faults>>

\* The DELETE reaches a row, in any order; one that is gone by then it passes over.
DeleteRow(p, d) ==
    /\ op[p].stage = "delete" /\ d \in op[p].left
    /\ ~LockedFrom(p, d)
    /\ op' = [op EXCEPT ![p].left = @ \ {d}]
    /\ writes' = [writes EXCEPT ![p] = [x \in DOMAIN @ \cup {d} |-> None]]
    /\ UNCHANGED <<emitters, readings, link, evidence, candidates, loaded, todo, late, lost, raced, confirmed,
                   calls, faults>>

\* Another call is adding, or removing, the link of which d is one half.
Meets(p, d, what) == \E q \in Procs \ {p} : op[q].stage = what /\ op[q].on \in {d, Swap(d)}

\* The transaction commits.  What it removed, no other DELETE can find any more; the pass
\* goes on to record the evidence, whether or not the link is its own.
Commit(p) ==
    LET gone == {d \in DOMAIN writes[p] : writes[p][d] = None}
        done == IF p = "pass" THEN [op[p] EXCEPT !.stage = "record"] ELSE Idle
    IN
    /\ \/ op[p].stage = "insert" /\ op[p].next = <<>>
       \/ op[p].stage = "delete" /\ op[p].left = {}
    /\ link' = [d \in Directions |-> IF d \in DOMAIN writes[p] THEN writes[p][d] ELSE link[d]]
    /\ op' = [q \in Procs |-> IF q = p THEN done ELSE [op[q] EXCEPT !.left = @ \ gone]]
    /\ writes' = [writes EXCEPT ![p] = NoWrites]
    /\ raced' = {d \in raced : \/ Meets(p, d, "insert") \/ Meets(p, d, "delete")
                              \/ link'[d] # link'[Swap(d)]}
                    \cup {d \in gone : Meets(p, d, "insert")}
                    \cup {d \in DOMAIN writes[p] \ gone : Meets(p, d, "delete")}
    /\ confirmed' = confirmed \cup {d \in DOMAIN writes[p] : writes[p][d].state = "verified"}
    /\ UNCHANGED <<emitters, readings, evidence, candidates, loaded, todo, late, lost, calls, faults>>

\* A statement fails, or the node goes down: the transaction is rolled back, the call is
\* over, and the pass with all the pairs it had left.
Abandon(p) ==
    /\ op' = [op EXCEPT ![p] = Idle]
    /\ writes' = [writes EXCEPT ![p] = NoWrites]
    /\ todo' = IF p = "pass" THEN {} ELSE todo
    /\ loaded' = IF p = "pass" THEN <<>> ELSE loaded
    /\ candidates' = IF p = "pass" THEN {} ELSE candidates
    /\ lost' = IF op[p].stage = "record" THEN lost \cup {op[p].on, Swap(op[p].on)} ELSE lost

Fail(p) ==
    /\ op[p] # Idle /\ faults < MaxFaults
    /\ faults' = faults + 1
    /\ Abandon(p)
    /\ UNCHANGED <<emitters, readings, link, evidence, late, raced, confirmed, calls>>

Waits(p, q) ==
    \/ op[p].stage = "insert" /\ op[p].next # <<>> /\ Head(op[p].next) \in DOMAIN writes[q]
    \/ op[p].stage = "delete" /\ op[p].left # {} /\ op[p].left \subseteq DOMAIN writes[q]

\* Postgres ends one of two transactions that wait for each other.
Victim(p) ==
    /\ \E q \in Procs \ {p} : Waits(p, q) /\ Waits(q, p)
    /\ Abandon(p)
    /\ UNCHANGED <<emitters, readings, link, evidence, late, raced, confirmed, calls, faults>>

-----------------------------------------------------------------------------
\* run_correlation_pass: the candidates' readings, one query each; then every pair of one
\* model in turn.
StartPass ==
    /\ Begin("pass", [Idle EXCEPT !.stage = "load"])
    /\ candidates' = emitters
    /\ UNCHANGED <<emitters, readings, link, evidence, writes, loaded, todo, late, lost, raced,
                   confirmed, faults>>

Load(e) ==
    /\ op["pass"].stage = "load" /\ e \in candidates /\ \A x \in candidates : e =< x
    /\ candidates' = candidates \ {e}
    /\ loaded' = [x \in DOMAIN loaded \cup {e} |->
                     IF x # e THEN loaded[x] ELSE IF e \in emitters THEN readings[e] ELSE <<>>]
    /\ UNCHANGED <<emitters, readings, link, evidence, op, writes, todo, late, lost, raced,
                   confirmed, calls, faults>>

PairUp ==
    /\ op["pass"].stage = "load" /\ candidates = {}
    /\ op' = [op EXCEPT !["pass"].stage = "pair"]
    /\ todo' = {d \in Directions : /\ {d[1], d[2]} \subseteq DOMAIN loaded
                                   /\ d[1] < d[2] /\ Model[d[1]] = Model[d[2]]}
    /\ UNCHANGED <<emitters, readings, link, evidence, writes, candidates, loaded, late, lost,
                   raced, confirmed, calls, faults>>

\* A pair that is linked already is skipped; another is added on a verdict.
LookAt(d) ==
    LET verdict == ShouldAssociate(loaded[d[1]], loaded[d[2]]) IN
    /\ op["pass"].stage = "pair" /\ d \in todo
    /\ \A x \in todo : d[1] < x[1] \/ (d[1] = x[1] /\ d[2] =< x[2])
    /\ todo' = todo \ {d}
    /\ op' = [op EXCEPT !["pass"] = IF link[d] # None \/ verdict = "none" THEN @
                                    ELSE Adding(d, "auto", verdict)]
    /\ UNCHANGED <<emitters, readings, link, evidence, writes, candidates, loaded, late, lost, raced, confirmed,
                   calls, faults>>

\* Mutant: nothing is recorded for a link that rests on time alone.
RecordLocated ==
    LET d == op["pass"].on IN
    /\ op["pass"].stage = "record"
    /\ evidence' = IF op["pass"].row.state = "inferred" THEN evidence
                   ELSE evidence \cup {[on |-> d, state |-> op["pass"].row.state,
                                        a |-> loaded[d[1]], b |-> loaded[d[2]], count |-> 0]}
    /\ op' = [op EXCEPT !["pass"] = [Idle EXCEPT !.stage = "pair"]]
    /\ UNCHANGED <<emitters, readings, link, writes, candidates, loaded, todo, late, lost, raced, confirmed,
                   calls, faults>>

\* The basis of the verdict is frozen: the events of that moment.
Record ==
    LET d == op["pass"].on IN
    /\ op["pass"].stage = "record"
    /\ evidence' = evidence \cup {[on |-> d, state |-> op["pass"].row.state,
                                   a |-> loaded[d[1]], b |-> loaded[d[2]],
                                   count |-> Cardinality(Cooccurrences(loaded[d[1]], loaded[d[2]]))]}
    /\ op' = [op EXCEPT !["pass"] = [Idle EXCEPT !.stage = "pair"]]
    /\ lost' = lost \ {x \in {d, Swap(d)} : link[x].state = op["pass"].row.state}
    /\ UNCHANGED <<emitters, readings, link, writes, candidates, loaded, todo, late, raced, confirmed, calls,
                   faults>>

EndPass ==
    /\ op["pass"].stage = "pair" /\ todo = {}
    /\ op' = [op EXCEPT !["pass"] = Idle]
    /\ loaded' = <<>>
    /\ UNCHANGED <<emitters, readings, link, evidence, writes, candidates, todo, late, lost, raced, confirmed,
                   calls, faults>>

Done == calls = MaxCalls /\ (\A p \in Procs : op[p] = Idle) /\ UNCHANGED vars

Next ==
    \/ \E e \in Emitters, m \in Late : Observe(e, m)
    \/ \E d \in Directions : Confirm(d) \/ RemoveAssociation(d) \/ LinkEmitters(d) \/ UnlinkEmitters(d)
    \/ UnlinkRemove
    \/ \E p \in Callers, e \in Emitters : DeleteEmitter(p, e)
    \/ \E p \in Procs : Insert(p) \/ Commit(p) \/ Fail(p) \/ Victim(p)
    \/ \E p \in Callers, d \in Directions : DeleteRow(p, d)
    \/ StartPass \/ (\E e \in Emitters : Load(e)) \/ PairUp \/ (\E d \in Directions : LookAt(d))
    \/ Record \/ EndPass \/ Done

Spec == Init /\ [][Next]_vars

-----------------------------------------------------------------------------
\* Every link is stored in both directions, and says the same in both: what the table
\* promises ("so either emitter lists the other").
LinksComeInPairs == \A d \in Directions : link[d] = link[Swap(d)]

\* It does, but for one case: a link is one-sided only where one half of it was removed while
\* another call was adding the link and had passed over the row, or added while another call
\* was removing the link and had not found the row.  Waiting, deadlock, roll-back, a failed
\* statement and the cascade never leave half a link.
HalfLinksAreRaced ==
    \A d \in Directions : link[d] # link[Swap(d)] => {d, Swap(d)} \cap raced # {}

\* What the operator confirmed, neither the pass nor the agent changes: a verified row is
\* never given another source or state, and the agent removes one only when the operator
\* confirmed it after the agent's check, or when the halves of the link differed: the check
\* reads one of them, the removal takes both.
OperatorsWordStands ==
    \A d \in Directions :
           link[d].state = "verified" /\ link'[d] # link[d] =>
               /\ link'[d] = None
               /\ \/ ~({d[1], d[2]} \subseteq emitters')
                  \/ op["operator"].stage = "delete" /\ op'["operator"] = Idle
                  \/ d \in confirmed \/ link[d] # link[Swap(d)]

\* Reference: ways to pair readings within the window, each used once.
Pairings(a, b) ==
    {P \in SUBSET {x \in (DOMAIN a) \X (DOMAIN b) : Apart(x[1], x[2]) =< Window} :
        \A x, y \in P : x # y => x[1] # y[1] /\ x[2] # y[2]}

\* The evidence holds what was there to see: as many events as the readings allow at all,
\* and a link by time rests on enough of them over a long enough time, one by place on two
\* events that are a mile apart.
Sound(w) ==
    /\ \A P \in Pairings(w.a, w.b) : Cardinality(P) =< w.count
    /\ \E P \in Pairings(w.a, w.b) :
           /\ Cardinality(P) = w.count
           /\ w.state = "inferred" =>
                  /\ w.count >= MinEvents
                  /\ \E x, y \in P : Least(y[1], y[2]) - Least(x[1], x[2]) >= MinSpread
           /\ w.state = "observed" =>
                  \E x, y \in P : \E s \in {w.a[x[1]], w.b[x[2]]}, t \in {w.a[y[1]], w.b[y[2]]} :
                      s # t /\ s # Nowhere /\ t # Nowhere

\* A link the pass made is explained: there is evidence of the same grade for it, which is
\* sound, unless recording it failed (the next pass finds the link and records nothing) or
\* is still to come.
AutoLinksAreExplained ==
    /\ \A w \in evidence : Sound(w)
    /\ \A d \in Directions :
           link[d].source = "auto" =>
               \/ \E w \in evidence : w.on \in {d, Swap(d)} /\ w.state = link[d].state
               \/ d \in lost
               \/ op["pass"].stage = "record" /\ op["pass"].on \in {d, Swap(d)}
=============================================================================
