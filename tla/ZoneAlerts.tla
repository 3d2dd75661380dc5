----------------------------- MODULE ZoneAlerts -----------------------------
(***************************************************************************)
(* Alerts (fluxfang-api/src/ingest/alerts.rs, zones.rs, pump.rs).  Emissions *)
(* of an emitter are ingested concurrently, fixes of the host one after the *)
(* other by the location pump; each is compared with the membership stored  *)
(* for its subject, and a change fires the rules for it.                    *)
(*                                                                         *)
(* One zone, one emitter, and the entity it is grouped under.  A position   *)
(* is inside the zone or outside; a rule is named by its subject and its    *)
(* trigger, so that a crossing has at most one rule.  No property is about  *)
(* payloads, names or the content a rule matches.                           *)
(***************************************************************************)
EXTENDS Naturals, FiniteSets

CONSTANTS Ingests,      \* emissions under way at once
          Methods,      \* alert methods, each linked to every rule
          Watched,      \* the subjects that have rules
          Nowhere,      \* an emission without a location
          MaxCalls,     \* bound: emissions and fixes
          MaxUpsets     \* bound: failed statements, calls cut short, rules and methods
                        \* switched

Subjects == {"host", "emitter", "entity"}
Triggers == {"detected", "enters", "leaves"}
Rules == Watched \X Triggers

AlertsAssumption ==
    /\ Watched \subseteq Subjects /\ "pump" \notin Ingests /\ Nowhere \notin BOOLEAN
    /\ Methods \cap (Subjects \X Triggers) = {} /\ IsFiniteSet(Ingests)
    /\ MaxCalls \in Nat /\ MaxUpsets \in Nat

Procs == Ingests \cup {"pump"}

VARIABLES
    enabled,   \* the rules and methods that are switched on
    inside,    \* zone_membership
    op,        \* what each emission, and the pump, is at
    written,   \* history: memberships written, by subject and direction
    sent,      \* history: alerts dispatched, by rule and method
    stored,    \* the notification table, by rule and method
    seen,      \* history: what was enabled at some moment of each call
    calls, edits, faults

tables == <<inside, written, sent, stored>>
vars == <<enabled, inside, op, written, sent, stored, seen, calls, edits, faults>>

\* A call: where it is, whose position it compares and which position that is, the rules
\* it listed, the trigger it fires, the rules that are still to fire, the alerts left to
\* send and the one that is sent but not stored yet.
Alerts == Rules \X Methods
Op == [stage : {"idle", "track", "detect", "list", "get", "upsert", "fire"},
       subject : Subjects, at : BOOLEAN \cup {Nowhere}, listed : SUBSET Rules,
       on : Triggers, todo : SUBSET Rules, out : SUBSET Alerts, told : SUBSET Alerts]
Idle == [stage |-> "idle", subject |-> "host", at |-> Nowhere, listed |-> {},
         on |-> "detected", todo |-> {}, out |-> {}, told |-> {}]

Init ==
    /\ enabled = Rules \cup Methods
    /\ inside = [s \in Subjects |-> FALSE]
    /\ op = [p \in Procs |-> Idle]
    /\ written = [r \in Subjects \X Triggers |-> 0]
    /\ sent = [x \in Alerts |-> 0]
    /\ stored = [x \in Alerts |-> 0]
    /\ seen = [p \in Procs |-> {}]
    /\ calls = 0 /\ edits = 0 /\ faults = 0

Fault == edits + faults < MaxUpsets /\ faults' = faults + 1
At(p, stage) == op[p].stage = stage

\* `trigger_on_for`: the trigger a change to now_inside fires.
TriggerOn(now_inside) == IF now_inside THEN "enters" ELSE "leaves"

\* update_subject_zones for one subject, from the top; what a message names it, and says of
\* the change, is left out.
Compare(o, s) == [Idle EXCEPT !.stage = "list", !.subject = s, !.at = o.at]

\* What follows: the zones, if the emission has a location; after the emitter its entity;
\* then the call ends, and the pump takes its next fix.
Through(o) ==
    CASE o.on = "detected" /\ o.at # Nowhere -> Compare(o, "emitter")
      [] o.on # "detected" /\ o.subject = "emitter" -> Compare(o, "entity")
      [] OTHER -> Idle

\* A rule that fires, or the next one, or what follows.
Onward(o) == IF o.todo \cup o.out \cup o.told = {} THEN Through(o) ELSE o

-----------------------------------------------------------------------------
(* What comes in.                                                            *)

Begin(p, o) ==
    /\ At(p, "idle") /\ calls < MaxCalls
    /\ calls' = calls + 1
    /\ op' = [op EXCEPT ![p] = o]
    /\ seen' = [seen EXCEPT ![p] = enabled]
    /\ UNCHANGED <<enabled, tables, edits, faults>>

\* finalize_emission, for an emission that was attached to the emitter: its own position,
\* the host's latest, or none (the fix is stale, or there is none).
Emit(p, at) ==
    /\ p \in Ingests
    /\ Begin(p, [Idle EXCEPT !.stage = "detect", !.at = at])

\* The pump takes the next fix only when it is through with the one before.
Fix(at) ==
    Begin("pump", [Idle EXCEPT !.stage = "track", !.at = at])

\* The fix is written to the track, and then looked at; not so when it comes within the
\* write interval, when no session is open, or when the write fails.
Track(compare) ==
    /\ At("pump", "track")
    /\ op' = [op EXCEPT !["pump"] = IF compare THEN Compare(@, "host") ELSE Idle]
    /\ UNCHANGED <<enabled, tables, seen, calls, edits, faults>>

-----------------------------------------------------------------------------
(* Comparing and firing.  A step that fails ends that part, never the call.   *)

Step(p, o) ==
    /\ op' = [op EXCEPT ![p] = o]
    /\ UNCHANGED <<enabled, seen, calls, edits>>

\* evaluate_alerts: the enabled rules that the emitter, or its entity, is detected.
Detect(p) ==
    /\ At(p, "detect")
    /\ \/ /\ Step(p, Onward([op[p] EXCEPT !.stage = "fire",
                 !.todo = enabled \cap ({"emitter", "entity"} \X {"detected"})]))
          /\ UNCHANGED faults
       \/ Fault /\ Step(p, Through(op[p]))
    /\ UNCHANGED tables

\* The rules are listed once per call; a list that fails is an empty one.
List(p) ==
    /\ At(p, "list")
    /\ \/ Step(p, [op[p] EXCEPT !.stage = "get", !.listed = enabled \cap Rules]) /\ UNCHANGED faults
       \/ Fault /\ Step(p, [op[p] EXCEPT !.stage = "get"])
    /\ UNCHANGED tables

\* Mutant: the stored membership is not read.
GetNothing(p) ==
    /\ At(p, "get")
    /\ Step(p, IF op[p].at THEN [op[p] EXCEPT !.stage = "upsert"]
                           ELSE Through([op[p] EXCEPT !.on = "leaves"]))
    /\ UNCHANGED <<tables, faults>>

\* The stored membership is read, FALSE when there is none or the read fails.
Get(p) ==
    /\ At(p, "get")
    /\ LET o == op[p]
           compared(was) == IF o.at = was THEN Through([o EXCEPT !.on = TriggerOn(o.at)])
                                      ELSE [o EXCEPT !.stage = "upsert"]
       IN \/ Step(p, compared(inside[o.subject])) /\ UNCHANGED faults
          \/ Fault /\ Step(p, compared(FALSE))
    /\ UNCHANGED tables

\* The change is written, and the listed rules for it are about to fire; not when the
\* write fails.
Upsert(p) ==
    /\ At(p, "upsert")
    /\ LET s == op[p].subject
           x == <<s, TriggerOn(op[p].at)>>
           o == [op[p] EXCEPT !.stage = "fire", !.on = x[2]]
       IN \/ /\ inside' = [inside EXCEPT ![s] = op[p].at]
             /\ written' = [written EXCEPT ![x] = @ + 1]
             /\ Step(p, Onward([o EXCEPT !.todo = o.listed \cap {x}]))
             /\ UNCHANGED faults
          \/ Fault /\ Step(p, Through(o)) /\ UNCHANGED <<inside, written>>
    /\ UNCHANGED <<sent, stored>>

\* fire_rule: its enabled methods are read, then each of them is sent to.
Fire(p, r) ==
    /\ At(p, "fire") /\ r \in op[p].todo /\ op[p].out \cup op[p].told = {}
    /\ LET o == [op[p] EXCEPT !.todo = @ \ {r}]
       IN \/ Step(p, Onward([o EXCEPT !.out = {r} \X (enabled \cap Methods)])) /\ UNCHANGED faults
          \/ Fault /\ Step(p, Onward(o))
    /\ UNCHANGED tables

\* dispatch; whether it was delivered goes into the row.
Dispatch(p, x) ==
    /\ At(p, "fire") /\ x \in op[p].out /\ op[p].told = {}
    /\ sent' = [sent EXCEPT ![x] = @ + 1]
    /\ Step(p, [op[p] EXCEPT !.out = @ \ {x}, !.told = {x}])
    /\ UNCHANGED <<inside, written, stored, faults>>

\* The notification is inserted; if that fails the next method is still sent to.
Store(p) ==
    /\ At(p, "fire")
    /\ \E x \in op[p].told :
          \/ stored' = [stored EXCEPT ![x] = @ + 1] /\ UNCHANGED faults
          \/ Fault /\ UNCHANGED stored
    /\ Step(p, Onward([op[p] EXCEPT !.told = {}]))
    /\ UNCHANGED <<inside, written, sent>>

\* A source that is stopped takes its pump, and the call it is in, with it.
Cut(p) ==
    /\ ~At(p, "idle") /\ Fault
    /\ Step(p, Idle)
    /\ UNCHANGED tables

\* A rule or a method is switched on or off.
Switch(x) ==
    /\ edits + faults < MaxUpsets /\ edits' = edits + 1
    /\ enabled' = IF x \in enabled THEN enabled \ {x} ELSE enabled \cup {x}
    /\ seen' = [p \in Procs |-> IF At(p, "idle") THEN {} ELSE seen[p] \cup enabled']
    /\ UNCHANGED <<tables, op, calls, faults>>

Finished == \A p \in Procs : At(p, "idle")
Done == Finished /\ UNCHANGED vars

Next ==
    \/ \E p \in Ingests, at \in BOOLEAN \cup {Nowhere} : Emit(p, at)
    \/ \E at \in BOOLEAN : Fix(at)
    \/ \E compare \in BOOLEAN : Track(compare)
    \/ \E p \in Procs :
          \/ Detect(p) \/ List(p) \/ Get(p) \/ Upsert(p) \/ Store(p) \/ Cut(p)
          \/ \E r \in Rules : Fire(p, r)
          \/ \E x \in Alerts : Dispatch(p, x)
    \/ \E x \in Rules \cup Methods : Switch(x)
    \/ Done

Spec == Init /\ [][Next]_vars

-----------------------------------------------------------------------------
(* Properties.                                                               *)

\* Every variable keeps its type.
TypeOK ==
    /\ enabled \subseteq Rules \cup Methods
    /\ inside \in [Subjects -> BOOLEAN]
    /\ op \in [Procs -> Op]
    /\ written \in [Subjects \X Triggers -> Nat]
    /\ sent \in [Alerts -> Nat] /\ stored \in [Alerts -> Nat]
    /\ seen \in [Procs -> SUBSET (Rules \cup Methods)]
    /\ calls \in 0 .. MaxCalls
    /\ edits \in 0 .. MaxUpsets /\ faults \in 0 .. MaxUpsets

\* The host is told to enter and to leave in turn: no alert of a crossing is repeated
\* before the one that undoes it, and when the pump is between two fixes the last alert
\* says on which side the host is.  (The host's position is compared by one pump only,
\* and nothing fails or is switched.)
HostAlternates ==
    edits = 0 /\ faults = 0 =>
    \A m \in Methods : LET told(t) == sent[<<<<"host", t>>, m>>] IN
        {<<"host", "enters">>, <<"host", "leaves">>} \subseteq enabled =>
            /\ told("enters") - told("leaves") \in 0 .. 1
            /\ At("pump", "idle") => (told("enters") > told("leaves")) = inside["host"]

\* An alert of a crossing answers to a membership that was written for it: concurrent
\* comparisons, failed statements and calls cut short never tell more than was written.
ToldOfChangesOnly ==
    \A s \in Watched, t \in {"enters", "leaves"}, m \in Methods :
        sent[<<<<s, t>>, m>>] <= written[<<s, t>>]

\* No change is lost on the way: unless a statement failed, a call was cut short or a rule
\* was switched, once the calls are through each written change was sent to every method
\* of its rule and a notification stands for each alert sent.
EveryChangeIsTold ==
    edits = 0 /\ faults = 0 /\ Finished =>
    \A r \in Rules \cap enabled, m \in Methods :
        /\ r[2] # "detected" => sent[<<r, m>>] = written[r]
        /\ stored[<<r, m>>] = sent[<<r, m>>]

\* What was switched off before a call began, and stayed off, is silent in it: a rule the
\* call lists, or a method it sends to, was on at some moment since.
SwitchedOffIsSilent ==
    \A p \in Procs : \A x \in op[p].out \cup op[p].told : {x[1], x[2]} \subseteq seen[p]

\* The host's visits alternate; nobody is told of a crossing that was not one; every
\* crossing reaches every channel that is on, and none that is off.
CrossingsAreTold ==
    TypeOK /\ HostAlternates /\ ToldOfChangesOnly /\ EveryChangeIsTold /\ SwitchedOffIsSilent
=============================================================================
