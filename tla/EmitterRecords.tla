--------------------------- MODULE EmitterRecords ---------------------------
(***************************************************************************)
(* The emitter and entity tables, and the emitter of each emission, under    *)
(* operators' requests (fluxfang-api/src/emitters.rs, entities.rs), the      *)
(* agent's tools (mcp/tools), the ingest of new emissions (ingest/mod.rs)    *)
(* and the age-out sweep (ageout.rs), one statement of the repositories a    *)
(* step.  The agent's update_emitter, set_emitter_match_rule, delete_emitter  *)
(* and what creates and ends an emitter run the operators' statements; what  *)
(* only it does is to attach and to detach single emissions.                 *)
(*                                                                         *)
(* Postgres runs at READ COMMITTED: a statement sees what was committed when *)
(* it began, and of a row it has to wait for what is there in the end.  A    *)
(* rule is the set of emissions it matches (RuleLanguage has how), and which *)
(* enabled rule is found is any (EmitterMatching has which).                 *)
(***************************************************************************)
EXTENDS Naturals, FiniteSets

CONSTANTS Emitters, Entities, Clients, Sources,
          Emissions,      \* each is captured once
          At, From, Identity,  \* of each: observed_at, data source, identity_key
          Rules,          \* rules an operator may ask for: sets of emissions
          Cutoff,         \* of the sweep: emitters last seen before it are aged out
          MaxCalls, MaxTools, MaxFaults, MaxSweeps   \* bounds: requests, the agent's statements,
                                                     \* failed statements, sweeps

None == "none"
Unseen == 0                   \* a window with no end yet
NoRow == [there |-> FALSE]    \* an id not given out
Gone == [there |-> FALSE, gone |-> TRUE]
Frames == {None} \cup Emissions

RecordsAssumption ==
    /\ At \in [Emissions -> Nat \ {0}] /\ From \in [Emissions -> Sources]
    /\ Rules \subseteq SUBSET Emissions /\ None \notin Emitters \cup Entities \cup Emissions
    /\ {Cutoff, MaxCalls, MaxTools, MaxFaults, MaxSweeps} \subseteq Nat

VARIABLES
    emitter,     \* rows of emitter
    entities,    \* ids in entity
    owner,       \* emission.emitter_id of every stored emission
    opted,       \* data sources with config.age_out_ephemeral
    stage, pick, \* where the ingest of each emission is, and the emitter it goes to
    op,          \* the request of each client
    sweep,       \* the DELETE of the sweep: which emitters it found, and the emissions it saw
    missed,      \* history: emissions whose window was not widened for them, or not for good
    discarded,   \* history: emissions the sweep deleted
    calls, tools, faults, sweeps

vars == <<emitter, entities, owner, opted, stage, pick, op, sweep, missed, discarded,
          calls, tools, faults, sweeps>>

Attributes(class, ap) == [mac_persistence |-> class, ap |-> ap]
NewRow(entity, rule, attributes, key) ==
    [there |-> TRUE, entity |-> entity, rule |-> rule, match_enabled |-> TRUE, attributes |-> attributes,
     identity_key |-> key, first |-> Unseen, last |-> Unseen]

\* A request: its stage, the emitter and entity, the rule or what is left of a PATCH, the
\* emissions its transaction has claimed, and the window it read.
Idle == [stage |-> "idle", m |-> None, entity |-> None, rule |-> {}, left |-> {}, attributes |-> None,
         claims |-> {}, first |-> Unseen, last |-> Unseen, fresh |-> FALSE]
NoSweep == [on |-> FALSE, hit |-> {}, saw |-> {}]

Rows == {m \in Emitters : emitter[m].there}
Stored == DOMAIN owner
Min(S) == CHOOSE x \in S : \A y \in S : x <= y
Max(S) == CHOOSE x \in S : \A y \in S : x >= y

Init ==
    /\ emitter = [m \in Emitters |-> NoRow] /\ entities \in SUBSET Entities
    /\ owner = <<>> /\ opted \in SUBSET Sources
    /\ stage = [e \in Emissions |-> "new"] /\ pick = [e \in Emissions |-> None]
    /\ op = [c \in Clients |-> Idle] /\ sweep = NoSweep
    /\ missed = {} /\ discarded = {}
    /\ calls = 0 /\ tools = 0 /\ faults = 0 /\ sweeps = 0

tables == <<emitter, entities, owner>>
ingest == <<stage, pick, missed>>
history == <<discarded, tools>>

Begin(c, call) == op[c].stage = "idle" /\ calls < MaxCalls /\ calls' = calls + 1 /\ op' = [op EXCEPT ![c] = call]
Go(c, s) == op' = [op EXCEPT ![c].stage = s]
Answer(c) == op' = [op EXCEPT ![c] = Idle]

Claimed == UNION {op[c].claims : c \in Clients}
Others(c) == Clients \ {c}
\* A transaction that has attached emissions to m keeps its row from being deleted.
Pinned(m) == \E c \in Clients : op[c].claims # {} /\ op[c].m = m

-----------------------------------------------------------------------------
\* create_emitter: the request is validated first; entity_id is not.
CreateEmitter(c, m, n, rule) ==
    /\ emitter[m] = NoRow /\ \A d \in Clients : op[d].m # m
    /\ Begin(c, [Idle EXCEPT !.stage = "insert", !.m = m, !.entity = n, !.rule = rule])
    /\ UNCHANGED <<tables, ingest, history, opted, sweep, faults, sweeps>>

\* EmitterRepo::insert: a foreign key no row has is an error of the database.
InsertEmitter(c) ==
    LET r == op[c] IN
    /\ r.stage = "insert"
    /\ IF r.entity \in entities \cup {None}
       THEN /\ emitter' = [emitter EXCEPT ![r.m] = NewRow(r.entity, r.rule, Attributes(None, None), None)]
            /\ IF r.rule = {} THEN Answer(c) ELSE Go(c, "attach")
       ELSE Answer(c) /\ UNCHANGED emitter
    /\ UNCHANGED <<entities, owner, ingest, history, opted, sweep, calls, faults, sweeps>>

\* create_with_entity: both rows and the backfill are one transaction.
CreateWithEntity(c, m, n, rule) ==
    /\ emitter[m] = NoRow /\ n \notin entities
    /\ \A d \in Clients : op[d].m # m /\ ~(op[d].fresh /\ op[d].entity = n)
    /\ Begin(c, [Idle EXCEPT !.stage = "attach", !.m = m, !.entity = n, !.rule = rule, !.fresh = TRUE])
    /\ UNCHANGED <<tables, ingest, history, opted, sweep, faults, sweeps>>

\* set_rule: the row is read; then the rule is written, an error if the row has gone.
SetRule(c, m, rule) ==
    /\ m \in Rows
    /\ Begin(c, [Idle EXCEPT !.stage = "rule", !.m = m, !.rule = rule])
    /\ UNCHANGED <<tables, ingest, history, opted, sweep, faults, sweeps>>

UpdateRule(c) ==
    LET r == op[c] IN
    /\ r.stage = "rule"
    /\ IF r.m \in Rows
       THEN emitter' = [emitter EXCEPT ![r.m].rule = r.rule] /\ Go(c, "attach")
       ELSE Answer(c) /\ UNCHANGED emitter
    /\ UNCHANGED <<entities, owner, ingest, history, opted, sweep, calls, faults, sweeps>>

\* attach_emissions_matching, a transaction: every stored emission the rule matches...
Attach(c) ==
    LET r == op[c]  hits == r.rule \cap Stored IN
    /\ r.stage = "attach"
    /\ hits \cap UNION {op[d].claims : d \in Others(c)} = {}
    /\ IF r.m \in Rows \/ r.fresh \/ hits = {}
       THEN op' = [op EXCEPT ![c].stage = "window", ![c].claims = hits]
       ELSE Answer(c)
    /\ UNCHANGED <<tables, ingest, history, opted, sweep, calls, faults, sweeps>>

\* ...then MIN and MAX over all that are the emitter's now...
ReadWindow(c) ==
    LET r == op[c]  mine == {At[e] : e \in {x \in Stored : owner[x] = r.m \/ x \in r.claims}} IN
    /\ r.stage = "window"
    /\ \E first, last \in (IF mine = {} THEN {Unseen} ELSE mine) :
          /\ \A t \in mine : first <= t /\ t <= last
          /\ op' = [op EXCEPT ![c].stage = "commit", ![c].first = first, ![c].last = last]
    /\ UNCHANGED <<tables, ingest, history, opted, sweep, calls, faults, sweeps>>

\* What the window of a row, or of a refresh that has read it, spans.
Holds(window, e) == window.first # Unseen /\ window.first <= At[e] /\ At[e] <= window.last

\* A refresh of m is open that has read without e, and will write over its window.
Overtaken(e, m, C) ==
    \E c \in C : op[c].stage = "commit" /\ op[c].m = m /\ ~Holds(op[c], e)

\* ...written over the row's window, whatever became of that since.
CommitAttach(c) ==
    LET r == op[c]
        old == IF r.fresh THEN NewRow(r.entity, r.rule, Attributes(None, None), None) ELSE emitter[r.m] IN
    /\ r.stage = "commit"
    /\ owner' = [e \in Stored |-> IF e \in r.claims THEN r.m ELSE owner[e]]
    /\ IF r.m \in Rows \/ r.fresh
       THEN emitter' = [emitter EXCEPT ![r.m] = [old EXCEPT !.first = r.first, !.last = r.last]]
       ELSE UNCHANGED emitter
    /\ entities' = IF r.fresh THEN entities \cup {r.entity} ELSE entities
    /\ missed' = (missed \cup r.claims) \
                    {e \in Stored : /\ owner'[e] = r.m /\ Holds(r, e)
                                    /\ ~Overtaken(e, r.m, Others(c))}
    /\ Answer(c)
    /\ UNCHANGED <<stage, pick, history, opted, sweep, calls, faults, sweeps>>

-----------------------------------------------------------------------------
\* update_emitter: the fields that are named, each a statement of its own, in this order.
Patch(c, m, fields, n, class) ==
    /\ m \in Rows /\ fields # {}
    /\ Begin(c, [Idle EXCEPT !.stage = "patch", !.m = m, !.left = fields,
                             !.entity = IF "entity_id" \in fields THEN n ELSE None,
                             !.attributes = IF "attributes" \in fields
                                            THEN Attributes(class, emitter[m].attributes.ap) ELSE None])
    /\ UNCHANGED <<tables, ingest, history, opted, sweep, faults, sweeps>>

NextField(fields) == CHOOSE f \in fields : \A g \in fields :
    g # f => <<f, g>> \in {<<"entity_id", "match_enabled">>, <<"entity_id", "attributes">>, <<"match_enabled", "attributes">>}

\* set_entity, set_match_enabled, set_attributes: one column of the row.
FieldSet(row, r, f) ==
    CASE f = "entity_id"     -> [row EXCEPT !.entity = r.entity]
      [] f = "match_enabled" -> [row EXCEPT !.match_enabled = ~@]
      [] f = "attributes"    -> [row EXCEPT !.attributes = r.attributes]

PatchField(c) ==
    LET r == op[c]  f == NextField(r.left)  left == r.left \ {f} IN
    /\ r.stage = "patch"
    /\ IF r.m \in Rows /\ (f = "entity_id" => r.entity \in entities \cup {None})
       THEN /\ emitter' = [emitter EXCEPT ![r.m] = FieldSet(@, r, f)]
            /\ IF left = {} THEN Answer(c) ELSE op' = [op EXCEPT ![c].left = left]
       ELSE Answer(c) /\ UNCHANGED emitter
    /\ UNCHANGED <<entities, owner, ingest, history, opted, sweep, calls, faults, sweeps>>

\* delete_emitter, bulk_delete_emitters, clear_emitters: their emissions stay, unassigned.
DeleteEmitters(S) ==
    /\ S # {} /\ S \subseteq Rows /\ calls < MaxCalls
    /\ \A m \in S : ~Pinned(m)
    /\ \A e \in Claimed : owner[e] \notin S
    /\ calls' = calls + 1
    /\ emitter' = [m \in Emitters |-> IF m \in S THEN Gone ELSE emitter[m]]
    /\ owner' = [e \in Stored |-> IF owner[e] \in S THEN None ELSE owner[e]]
    /\ UNCHANGED <<entities, ingest, history, opted, op, sweep, faults, sweeps>>

\* delete_entity, bulk_delete_entities, clear_entities: their emitters stay, detached.
DeleteEntities(S) ==
    /\ S # {} /\ S \subseteq entities /\ calls < MaxCalls
    /\ calls' = calls + 1
    /\ entities' = entities \ S
    /\ emitter' = [m \in Emitters |-> IF m \in Rows /\ emitter[m].entity \in S
                                      THEN [emitter[m] EXCEPT !.entity = None] ELSE emitter[m]]
    /\ UNCHANGED <<owner, ingest, history, opted, op, sweep, faults, sweeps>>

\* bulk_delete_emissions, clear_emissions, the agent's deletes.
DeleteEmissions(S) ==
    /\ S # {} /\ S \subseteq Stored /\ S \cap Claimed = {} /\ calls < MaxCalls
    /\ calls' = calls + 1
    /\ owner' = [e \in Stored \ S |-> owner[e]]
    /\ UNCHANGED <<emitter, entities, ingest, history, opted, op, sweep, faults, sweeps>>

\* attach_emissions, create_emitter_from_emissions: set_emitter of one of the list, and
\* the window stays as it is.
AgentAttach(e, m) ==
    /\ e \in Stored \ Claimed /\ m \in Rows /\ tools < MaxTools
    /\ tools' = tools + 1
    /\ owner' = [owner EXCEPT ![e] = m]
    /\ missed' = IF Holds(emitter[m], e) /\ ~Overtaken(e, m, Clients) THEN missed \ {e} ELSE missed \cup {e}
    /\ UNCHANGED <<emitter, entities, stage, pick, discarded, opted, op, sweep, calls, faults, sweeps>>

\* detach_emissions: clear_emitter of one of the list.
AgentDetach(e) ==
    /\ e \in Stored \ Claimed /\ tools < MaxTools
    /\ tools' = tools + 1
    /\ owner' = [owner EXCEPT ![e] = None]
    /\ UNCHANGED <<emitter, entities, ingest, discarded, opted, op, sweep, calls, faults, sweeps>>

\* A source opts in or out of the sweep.
Consent(s) ==
    /\ calls < MaxCalls /\ calls' = calls + 1
    /\ opted' = IF s \in opted THEN opted \ {s} ELSE opted \cup {s}
    /\ UNCHANGED <<tables, ingest, history, op, sweep, faults, sweeps>>

-----------------------------------------------------------------------------
\* The ingest of e: the row, the rule found if any, else its own emitter found or created.
Store(e) ==
    /\ stage[e] = "new"
    /\ stage' = [stage EXCEPT ![e] = "stored"]
    /\ owner' = [x \in Stored \cup {e} |-> IF x = e THEN None ELSE owner[x]]
    /\ UNCHANGED <<emitter, entities, pick, missed, history, opted, op, sweep, calls, faults, sweeps>>

Found(e) == {m \in Rows : e \in emitter[m].rule /\ emitter[m].match_enabled}
Known(e) == {m \in Rows : emitter[m].identity_key = Identity[e]}

FirstMatch(e) ==
    /\ stage[e] = "stored" /\ Found(e) # {}
    /\ \E m \in Found(e) : pick' = [pick EXCEPT ![e] = m]
    /\ stage' = [stage EXCEPT ![e] = "picked"]
    /\ UNCHANGED <<tables, missed, history, opted, op, sweep, calls, faults, sweeps>>

\* get_or_create_by_identity; an emitter that is there and switched off gets nothing.
GetOrCreate(e, m) ==
    /\ stage[e] = "stored" /\ Found(e) = {}
    /\ \/ m \in Known(e) /\ UNCHANGED emitter
       \/ /\ Known(e) = {} /\ emitter[m] = NoRow /\ \A c \in Clients : op[c].m # m
          /\ emitter' = [emitter EXCEPT ![m] = NewRow(None, {x \in Emissions : Identity[x] = Identity[e]},
                                                      Attributes("ephemeral", None), Identity[e])]
    /\ pick' = [pick EXCEPT ![e] = m]
    /\ stage' = [stage EXCEPT ![e] = IF emitter'[m].match_enabled THEN "picked" ELSE "done"]
    /\ UNCHANGED <<entities, owner, missed, history, opted, op, sweep, calls, faults, sweeps>>

\* EmissionRepo::set_emitter: an error where the emitter or the emission has gone.
SetEmitter(e) ==
    /\ stage[e] = "picked" /\ e \notin Claimed
    /\ IF pick[e] \in Rows /\ e \in Stored
       THEN /\ owner' = [owner EXCEPT ![e] = pick[e]] /\ stage' = [stage EXCEPT ![e] = "owned"]
            /\ missed' = missed \ {e}
       ELSE UNCHANGED <<owner, missed>> /\ stage' = [stage EXCEPT ![e] = "done"]
    /\ UNCHANGED <<emitter, entities, pick, history, opted, op, sweep, calls, faults, sweeps>>

\* Mutant: the window ends with the emission that came last.
TouchLatest(e) ==
    LET m == pick[e] IN
    /\ stage[e] = "owned"
    /\ stage' = [stage EXCEPT ![e] = "touched"]
    /\ IF m \in Rows
       THEN emitter' = [emitter EXCEPT ![m].last = At[e], ![m].first = IF @ = Unseen THEN At[e] ELSE Min({@, At[e]})]
       ELSE UNCHANGED emitter
    /\ UNCHANGED <<entities, owner, pick, missed, history, opted, op, sweep, calls, faults, sweeps>>

\* touch_seen widens the window.
Touch(e) ==
    LET m == pick[e] IN
    /\ stage[e] = "owned"
    /\ stage' = [stage EXCEPT ![e] = "touched"]
    /\ IF m \in Rows
       THEN emitter' = [emitter EXCEPT ![m].last = Max({@, At[e]}),
                                       ![m].first = IF @ = Unseen THEN At[e] ELSE Min({@, At[e]})]
       ELSE UNCHANGED emitter
    /\ missed' = IF Overtaken(e, m, Clients) THEN missed \cup {e} ELSE missed
    /\ UNCHANGED <<entities, owner, pick, history, opted, op, sweep, calls, faults, sweeps>>

\* The statement fails and is not tried again: the end of the ingest of an emission that
\* matched a rule, of no account to one that got its emitter by identity.
TouchFails(e) ==
    /\ stage[e] = "owned" /\ faults < MaxFaults
    /\ faults' = faults + 1
    /\ \E s \in {"touched", "done"} : stage' = [stage EXCEPT ![e] = s]
    /\ missed' = missed \cup {e}
    /\ UNCHANGED <<tables, pick, history, opted, op, sweep, calls, sweeps>>

\* merge_client_attributes, merge_ap_attributes: the keys the frame names, and no other.
Merged(attributes, e) == [attributes EXCEPT !.ap = e]

Enrich(e) ==
    /\ stage[e] = "touched"
    /\ stage' = [stage EXCEPT ![e] = "done"]
    /\ emitter' = IF pick[e] \in Rows THEN [emitter EXCEPT ![pick[e]].attributes = Merged(@, e)] ELSE emitter
    /\ UNCHANGED <<entities, owner, pick, missed, history, opted, op, sweep, calls, faults, sweeps>>

-----------------------------------------------------------------------------
Mine(m) == {e \in Stored : owner[e] = m}

\* age_out_ephemeral, one statement: what it finds is of the moment it begins...
SweepBegin ==
    LET hit == {m \in Rows : /\ emitter[m].attributes.mac_persistence = "ephemeral"
                             /\ emitter[m].last # Unseen /\ emitter[m].last < Cutoff
                             /\ Mine(m) # {} /\ \A e \in Mine(m) : From[e] \in opted} IN
    /\ ~sweep.on /\ sweeps < MaxSweeps /\ hit # {}
    /\ sweeps' = sweeps + 1
    /\ sweep' = [on |-> TRUE, hit |-> hit, saw |-> UNION {Mine(m) : m \in hit}]
    /\ UNCHANGED <<tables, ingest, history, opted, op, calls, faults>>

\* ...so an emission attached since is not among the deleted: it loses its emitter.
SweepEnd ==
    /\ sweep.on /\ \A m \in sweep.hit : ~Pinned(m)
    /\ LET dead == {e \in sweep.saw \cap Stored : owner[e] \in sweep.hit} IN
       /\ {e \in Stored : owner[e] \in sweep.hit} \cap Claimed = {}
       /\ owner' = [e \in Stored \ dead |-> IF owner[e] \in sweep.hit THEN None ELSE owner[e]]
       /\ discarded' = discarded \cup dead
    /\ emitter' = [m \in Emitters |-> IF m \in sweep.hit /\ m \in Rows THEN Gone ELSE emitter[m]]
    /\ sweep' = NoSweep
    /\ UNCHANGED <<entities, ingest, tools, opted, op, calls, faults, sweeps>>

\* A request is dropped or its statement fails: an open transaction is rolled back.
Fail(c) ==
    /\ op[c].stage # "idle" /\ faults < MaxFaults
    /\ faults' = faults + 1
    /\ op' = [op EXCEPT ![c] = Idle]
    /\ UNCHANGED <<tables, ingest, history, opted, sweep, calls, sweeps>>

Next ==
    \/ \E c \in Clients, m \in Emitters, n \in Entities \cup {None}, rule \in Rules \cup {{}} : CreateEmitter(c, m, n, rule)
    \/ \E c \in Clients, m \in Emitters, n \in Entities, rule \in Rules : CreateWithEntity(c, m, n, rule)
    \/ \E c \in Clients, m \in Emitters, rule \in Rules : SetRule(c, m, rule)
    \/ \E c \in Clients, m \in Emitters, fields \in SUBSET {"entity_id", "match_enabled", "attributes"},
          n \in Entities, class \in {"ephemeral", "stable"} : Patch(c, m, fields, n, class)
    \/ \E c \in Clients : \/ InsertEmitter(c) \/ UpdateRule(c) \/ Attach(c) \/ ReadWindow(c)
                          \/ CommitAttach(c) \/ PatchField(c) \/ Fail(c)
    \/ \E S \in SUBSET Emitters : DeleteEmitters(S)
    \/ \E S \in SUBSET Entities : DeleteEntities(S)
    \/ \E S \in SUBSET Emissions : DeleteEmissions(S)
    \/ \E e \in Emissions : AgentDetach(e) \/ \E m \in Emitters : AgentAttach(e, m)
    \/ \E s \in Sources : Consent(s)
    \/ \E e \in Emissions : \/ Store(e) \/ FirstMatch(e) \/ SetEmitter(e) \/ Touch(e) \/ TouchFails(e) \/ Enrich(e)
                            \/ \E m \in Emitters : GetOrCreate(e, m)
    \/ SweepBegin \/ SweepEnd

Spec == Init /\ [][Next]_vars

-----------------------------------------------------------------------------
\* The seen window of an emitter covers every emission that is its own: captured, claimed
\* from another emitter, moved to it, out of order.  Not so, until a backfill reads them,
\* of those for which the ingest's update failed (mod.rs:476-505), a refresh that had not
\* seen them wrote over it, or which the agent's tools attached from outside the window,
\* which they leave as it is (writes.rs:88, 142).
WindowCovers ==
    \A e \in Stored \ missed :
        owner[e] # None /\ ~(stage[e] = "owned" /\ owner[e] = pick[e]) => Holds(emitter[owner[e]], e)

\* The sweep never deletes an emission of a source that had not opted in when it looked,
\* though emissions are attached, claimed and reassigned while it runs.
ConsentHolds == \A e \in discarded' \ discarded : e \in sweep.saw

=============================================================================
