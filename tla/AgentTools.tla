------------------------------ MODULE AgentTools ------------------------------
(* The writing tools of the MCP server (mcp/tools/, mcp/audit.rs): an agent's *)
(* call is a series of statements without a transaction, which others'        *)
(* statements fall between, and ends with a row of the audit log.  How links  *)
(* are made is in Associations, what a rule matches in RuleLanguage.          *)
EXTENDS Naturals, FiniteSets

CONSTANTS
    Emissions, Emitters, Entities,
    Kind, At,      \* of each emission
    Values,        \* of a name, a note or an attribute
    Filters,       \* what may be sent as a filter
    MaxOthers, MaxFaults   \* bounds: others' statements and failures during a call

None == "none"
Ids == Emissions \cup Emitters \cup Entities

\* A filter: the fields that are sent, those sent with another JSON type than the field's,
\* and the values of the others.  A string that does not parse is an error (BeginBad).
FilterFields == {"kind", "time_from", "time_to", "emitter_id", "unassigned"}

ToolsAssumption ==
    /\ Kind \in [Emissions -> STRING] /\ At \in [Emissions -> Nat] /\ None \notin Ids
    /\ \A f \in Filters : f.odd \subseteq f.sent /\ f.sent \subseteq FilterFields
    /\ {MaxOthers, MaxFaults} \subseteq Nat

VARIABLES
    owner,     \* emission.emitter_id of the stored emissions
    emitter,   \* rows of emitter
    entity,    \* rows of entity
    confirmed, \* pairs of emitters linked by an operator
    call,      \* the agent's call
    born,      \* ids given out
    mine,      \* history: entities an agent has created
    others, faults

vars == <<owner, emitter, entity, confirmed, call, born, mine, others, faults>>
tables == <<owner, emitter, entity, confirmed>>

Creates == {"create_emitter_from_emissions", "create_entity"}
OverEmissions == {"create_emitter_from_emissions", "attach_emissions", "detach_emissions"}
OverEmitters == {"create_entity", "assign_emitters_to_entity", "unassign_emitters_from_entity"}
Loops == OverEmissions \cup OverEmitters
Detaching == {"detach_emissions", "unassign_emitters_from_entity"}

\* A call: the row it is about, the ids of its list still to do, what it has noted as
\* affected, its rule, patch and filter; the ids its row of the log names; and, as history,
\* the rows it has really written.
NoCall == [tool |-> None, stage |-> "idle", on |-> None, left |-> {}, list |-> {}, affected |-> {},
           rule |-> None, patch |-> <<>>, read |-> <<>>, filter |-> <<>>, status |-> None,
           named |-> {}, changed |-> {}]

\* EntityRepo::insert grades what is created.
InitialEvidenceState(source) == IF source = "manual" THEN "verified" ELSE "hypothesis"

\* Any tables, and a call about to be made.
Init ==
    /\ owner \in [Emissions -> Emitters \cup {None}]
    /\ born \in SUBSET (Emitters \cup Entities) /\ \A e \in Emissions : owner[e] \in born \cup {None}
    /\ mine \in SUBSET (born \cap Entities)
    /\ emitter = [m \in born \cap Emitters |->
                     [entity |-> None, rule |-> None, name |-> None, own |-> None, ap |-> None]]
    /\ entity = [n \in born \cap Entities |->
                    [state |-> InitialEvidenceState(IF n \in mine THEN "ai" ELSE "manual"), name |-> None, notes |-> None]]
    /\ confirmed \in SUBSET {l \in SUBSET DOMAIN emitter : Cardinality(l) = 2}
    /\ call = NoCall /\ others = 0 /\ faults = 0

With(f, x, v) == [y \in DOMAIN f \cup {x} |-> IF y = x THEN v ELSE f[y]]
Without(f, S) == [y \in DOMAIN f \ S |-> f[y]]
Differ(f, g) == {x \in DOMAIN f \cup DOMAIN g :
                    x \notin DOMAIN f \/ x \notin DOMAIN g \/ (x \in DOMAIN f \cap DOMAIN g /\ f[x] # g[x])}

\* The rows a statement has written: not those that a foreign key changes with a deleted row.
Written ==
    IF call.stage = "delete"
    THEN (DOMAIN owner \ DOMAIN owner') \cup (DOMAIN emitter \ DOMAIN emitter') \cup (DOMAIN entity \ DOMAIN entity')
    ELSE Differ(owner, owner') \cup Differ(emitter, emitter') \cup Differ(entity, entity')

\* The call goes on with c.
Go(c) == call' = [c EXCEPT !.changed = call.changed \cup Written]
Stage(s) == [call EXCEPT !.stage = s]
Ends(status) == [call EXCEPT !.stage = "audit", !.status = status]

-----------------------------------------------------------------------------
(* What the agent asks for.                                                  *)

Begin(c) == call' = c /\ UNCHANGED <<tables, mine, others, faults>>

\* A list whose ids are no uuids, or a missing argument: an error before any statement.
BeginBad(tool) ==
    Begin([NoCall EXCEPT !.tool = tool, !.stage = "audit", !.status = "error"]) /\ UNCHANGED born

\* The tools that work through a list; some first insert the row it is for.
BeginList(tool, on, list, rule) ==
    /\ list \subseteq (IF tool \in OverEmissions THEN Emissions ELSE Emitters)
    /\ on \in (IF tool \in Detaching THEN {None} ELSE IF tool \in OverEmissions THEN Emitters ELSE Entities)
    /\ tool \in Creates => on \notin born
    /\ rule # None => tool = "create_emitter_from_emissions"
    /\ born' = IF tool \in Creates THEN born \cup {on} ELSE born
    /\ Begin([NoCall EXCEPT !.tool = tool, !.stage = IF tool \in Creates THEN "insert" ELSE "list",
                            !.on = on, !.left = list, !.list = list, !.rule = rule])

BeginRule(m, rule) ==
    /\ Begin([NoCall EXCEPT !.tool = "set_emitter_match_rule", !.stage = "rule", !.on = m, !.rule = rule])
    /\ UNCHANGED born

\* update_emitter, update_entity: what is left out is taken from the row as it is read.
BeginUpdate(tool, on, patch) ==
    /\ LET row == IF tool = "update_emitter" THEN emitter ELSE entity IN
       Begin([NoCall EXCEPT !.tool = tool, !.on = on, !.patch = patch,
                            !.stage = IF on \in DOMAIN row THEN "update" ELSE "audit",
                            !.status = IF on \in DOMAIN row THEN None ELSE "error",
                            !.read = IF on \in DOMAIN row THEN row[on] ELSE <<>>])
    /\ UNCHANGED born

\* delete_entity refuses what an operator has confirmed.
Refuses(n) == n \in DOMAIN entity /\ entity[n].state = "verified"

BeginDeleteEntity(n) ==
    /\ Begin([NoCall EXCEPT !.tool = "delete_entity", !.on = n,
                            !.stage = IF Refuses(n) THEN "audit" ELSE "delete",
                            !.status = IF Refuses(n) THEN "error" ELSE None])
    /\ UNCHANGED born

BeginDeleteEmitter(m) ==
    /\ Begin([NoCall EXCEPT !.tool = "delete_emitter", !.on = m, !.stage = "delete"])
    /\ UNCHANGED born

BeginDelete(list) ==
    /\ Begin([NoCall EXCEPT !.tool = "delete_emissions", !.stage = "delete", !.list = list])
    /\ UNCHANGED born

\* delete_emissions_where: the fields that are read; one of another type is taken as not sent.
Parsed(f) == [f EXCEPT !.sent = @ \ f.odd]

HasFilter(f) == Parsed(f).sent # {}

BeginDeleteWhere(f, all) ==
    /\ LET ok == all \/ HasFilter(f) IN
       Begin([NoCall EXCEPT !.tool = "delete_emissions_where", !.stage = IF ok THEN "delete" ELSE "audit",
                            !.status = IF ok THEN None ELSE "error",
                            !.filter = [sent |-> f, all |-> all]])
    /\ UNCHANGED born

-----------------------------------------------------------------------------
(* The statements.  One that finds no row for an UPDATE ... RETURNING, or a   *)
(* foreign key that no row has, is an error, and the call ends there.         *)

Statement == UNCHANGED <<born, others, faults>>

Insert ==
    /\ call.stage = "insert"
    /\ IF call.tool = "create_entity"
       THEN /\ entity' = With(entity, call.on, [state |-> InitialEvidenceState("ai"), name |-> None, notes |-> None])
            /\ mine' = mine \cup {call.on} /\ UNCHANGED emitter
       ELSE /\ emitter' = With(emitter, call.on, [entity |-> None, rule |-> call.rule, name |-> None,
                                                  own |-> None, ap |-> None])
            /\ UNCHANGED <<entity, mine>>
    /\ UNCHANGED <<owner, confirmed>>
    /\ Go([Stage("list") EXCEPT !.affected = {call.on}])
    /\ Statement

\* set_emitter, clear_emitter, set_entity: the next of the list.
Item(x) ==
    LET c == [call EXCEPT !.left = @ \ {x}, !.affected = @ \cup {x}]
        found == IF call.tool \in OverEmissions THEN x \in DOMAIN owner /\ call.on \in DOMAIN emitter \cup {None}
                 ELSE x \in DOMAIN emitter /\ call.on \in DOMAIN entity \cup {None} IN
    /\ owner' = IF found /\ call.tool \in OverEmissions THEN [owner EXCEPT ![x] = call.on] ELSE owner
    /\ emitter' = IF found /\ call.tool \in OverEmitters THEN [emitter EXCEPT ![x].entity = call.on] ELSE emitter
    /\ UNCHANGED entity
    /\ Go(IF found THEN c ELSE Ends("error"))

List ==
    /\ call.stage = "list" /\ \E x \in call.left : Item(x)
    /\ UNCHANGED <<confirmed, mine>> /\ Statement

EndList ==
    /\ call.stage = "list" /\ call.left = {}
    /\ call' = IF call.rule # None THEN Stage("rule")
               ELSE IF call.tool = "create_emitter_from_emissions" THEN Stage("get") ELSE Ends("ok")
    /\ UNCHANGED <<tables, mine>> /\ Statement

\* create_emitter_from_emissions reads back what it answers.
Get ==
    /\ call.stage = "get"
    /\ call' = Ends(IF call.on \in DOMAIN emitter THEN "ok" ELSE "error")
    /\ UNCHANGED <<tables, mine>> /\ Statement

\* update_rule: whatever the rule; only the backfill asks the catalogue.
UpdateRule ==
    /\ call.stage = "rule"
    /\ UNCHANGED <<owner, entity, confirmed, mine>> /\ Statement
    /\ IF call.on \in DOMAIN emitter
       THEN emitter' = [emitter EXCEPT ![call.on].rule = call.rule] /\ Go(Stage("claim"))
       ELSE UNCHANGED emitter /\ call' = Ends("error")

\* attach_emissions_matching, a transaction; what it claims is counted, and neither named nor
\* in the history.
Claim ==
    /\ call.stage = "claim"
    /\ IF call.rule = "invalid" THEN UNCHANGED owner /\ call' = Ends("error")
       ELSE \E S \in SUBSET DOMAIN owner :
               /\ S # {} => call.on \in DOMAIN emitter
               /\ owner' = [e \in DOMAIN owner |-> IF e \in S THEN call.on ELSE owner[e]]
               /\ call' = IF call.tool \in Creates THEN Stage("get") ELSE Ends("ok")
    /\ UNCHANGED <<emitter, entity, confirmed, mine>> /\ Statement

\* EmitterRepo::update_basic, EntityRepo::update: the columns as read, or as patched...
Merged(row, fields) == [f \in DOMAIN row |-> IF f \in fields \cap DOMAIN call.patch THEN call.patch[f]
                                             ELSE IF f \in fields THEN call.read[f] ELSE row[f]]

Update ==
    /\ call.stage = "update"
    /\ IF call.tool = "update_emitter"
       THEN /\ emitter' = IF call.on \in DOMAIN emitter
                          THEN [emitter EXCEPT ![call.on] = Merged(@, {"name"})] ELSE emitter
            /\ UNCHANGED entity
       ELSE /\ entity' = IF call.on \in DOMAIN entity
                         THEN [entity EXCEPT ![call.on] = Merged(@, {"name", "notes"})] ELSE entity
            /\ UNCHANGED emitter
    /\ UNCHANGED <<owner, confirmed, mine>> /\ Statement
    /\ Go(IF call.on \notin DOMAIN emitter \cup DOMAIN entity THEN Ends("error")
          ELSE IF "own" \notin DOMAIN call.patch THEN Ends("ok")
          ELSE [Stage("attributes") EXCEPT !.read = emitter'[call.on]])

\* ...then set_attributes: all of them, as the statement before has returned them.
SetAttributes ==
    /\ call.stage = "attributes"
    /\ UNCHANGED <<owner, entity, confirmed, mine>> /\ Statement
    /\ IF call.on \in DOMAIN emitter
       THEN emitter' = [emitter EXCEPT ![call.on] = Merged(@, {"own", "ap"})] /\ Go(Ends("ok"))
       ELSE UNCHANGED emitter /\ call' = Ends("error")

\* EmissionRepo::delete_where.
Selects(f, e) ==
    /\ "kind" \in f.sent => Kind[e] = f.kind
    /\ "time_from" \in f.sent => At[e] >= f.time_from
    /\ "time_to" \in f.sent => At[e] =< f.time_to
    /\ "emitter_id" \in f.sent => owner[e] = f.emitter_id
    /\ "unassigned" \in f.sent => (f.unassigned <=> owner[e] = None)

\* emitter.entity_id is set to null with its entity.
Detached(S) == [m \in DOMAIN emitter |-> IF emitter[m].entity \in S THEN [emitter[m] EXCEPT !.entity = None]
                                         ELSE emitter[m]]

\* An emitter goes with its links; its emissions stay.
RemoveEmitter(m) ==
    /\ emitter' = Without(emitter, {m}) /\ confirmed' = {l \in confirmed : m \notin l}
    /\ owner' = [e \in DOMAIN owner |-> IF owner[e] = m THEN None ELSE owner[e]] /\ UNCHANGED entity

RemoveEntity(n) ==
    entity' = Without(entity, {n}) /\ emitter' = Detached({n}) /\ UNCHANGED <<owner, confirmed>>

RemoveEmissions(S) == owner' = Without(owner, S) /\ UNCHANGED <<emitter, entity, confirmed>>

Delete ==
    LET f == call.filter IN
    /\ call.stage = "delete"
    /\ CASE call.tool = "delete_entity" -> RemoveEntity(call.on)
         [] call.tool = "delete_emitter" -> RemoveEmitter(call.on)
         [] call.tool = "delete_emissions" -> RemoveEmissions(call.list)
         [] OTHER -> RemoveEmissions({e \in DOMAIN owner : f.all \/ Selects(Parsed(f.sent), e)})
    /\ Go(Ends(IF call.on \notin {None} \cup DOMAIN entity \cup DOMAIN emitter THEN "error" ELSE "ok"))
    /\ UNCHANGED mine /\ Statement

-----------------------------------------------------------------------------
(* The log.                                                                  *)

\* Mutant: an error of any tool names nothing.
NamedIfOk ==
    IF call.status = "error" \/ call.tool = "delete_emissions_where" THEN {}
    ELSE IF call.tool = "create_emitter_from_emissions" THEN call.affected
    ELSE ({call.on} \ {None}) \cup call.list

\* What the handlers name: the row they are about and their list; the deletes by filter and
\* an error that dispatch records, nothing.
Named ==
    IF call.tool = "create_emitter_from_emissions" THEN call.affected
    ELSE IF call.status = "error" \/ call.tool = "delete_emissions_where" THEN {}
    ELSE ({call.on} \ {None}) \cup call.list

\* record_success and record_error, the handler's own or dispatch's (write_action: each writing
\* tool's errors are recorded by one of them); best effort.
Audit ==
    /\ call.stage = "audit"
    /\ \/ call' = [Stage("ended") EXCEPT !.named = Named] /\ UNCHANGED faults
       \/ faults < MaxFaults /\ faults' = faults + 1 /\ call' = Stage("dropped")
    /\ UNCHANGED <<tables, mine, born, others>>

-----------------------------------------------------------------------------
(* What happens meanwhile.                                                   *)

Running == call.stage \notin {"idle", "audit", "ended", "dropped"}

\* A statement fails; or the client goes away, and the rest is never run.
Fail ==
    /\ Running /\ faults < MaxFaults /\ faults' = faults + 1
    /\ \/ call' = Ends("error") \/ call' = Stage("dropped")
    /\ UNCHANGED <<tables, mine, born, others>>

Other == Running /\ others < MaxOthers /\ others' = others + 1 /\ UNCHANGED <<call, born, mine, faults>>

\* An operator's requests, and the ingest's merge_client_attributes.
OtherDeletes(x) ==
    /\ Other
    /\ \/ x \in DOMAIN owner /\ RemoveEmissions({x})
       \/ x \in DOMAIN emitter /\ RemoveEmitter(x)
       \/ x \in DOMAIN entity /\ RemoveEntity(x)

OtherWrites(x, v) ==
    /\ Other
    /\ \/ /\ x \in DOMAIN emitter /\ emitter' = [emitter EXCEPT ![x].ap = v] /\ UNCHANGED entity
       \/ /\ x \in DOMAIN entity /\ entity' = [entity EXCEPT ![x].notes = v] /\ UNCHANGED emitter
    /\ UNCHANGED <<owner, confirmed>>

Patches(tool) ==
    LET fields == IF tool = "update_emitter" THEN {"name", "own"} ELSE {"name", "notes"}
    IN UNION {[F -> Values] : F \in SUBSET fields}

Asks ==
    \/ \E tool \in Loops \cup {"set_emitter_match_rule", "delete_emissions"} : BeginBad(tool)
    \/ \E tool \in Loops, on \in Emitters \cup Entities \cup {None}, list \in SUBSET (Emissions \cup Emitters),
          rule \in {None, "valid", "invalid"} : BeginList(tool, on, list, rule)
    \/ \E m \in Emitters, rule \in {"valid", "invalid"} : BeginRule(m, rule)
    \/ \E m \in Emitters, patch \in Patches("update_emitter") : BeginUpdate("update_emitter", m, patch)
    \/ \E n \in Entities, patch \in Patches("update_entity") : BeginUpdate("update_entity", n, patch)
    \/ (\E n \in Entities : BeginDeleteEntity(n)) \/ (\E m \in Emitters : BeginDeleteEmitter(m))
    \/ \E list \in SUBSET Emissions : BeginDelete(list)
    \/ \E f \in Filters, all \in BOOLEAN : (all => f.sent = {}) /\ BeginDeleteWhere(f, all)

Next ==
    \/ call.stage = "idle" /\ Asks
    \/ Insert \/ List \/ EndList \/ Get \/ UpdateRule \/ Claim \/ Update \/ SetAttributes \/ Delete \/ Audit
    \/ Fail
    \/ \E x \in Ids : OtherDeletes(x)
    \/ \E x \in Ids, v \in Values : OtherWrites(x, v)

Spec == Init /\ [][Next]_vars

-----------------------------------------------------------------------------
TypeOK ==
    /\ DOMAIN owner \subseteq Emissions /\ \A e \in DOMAIN owner : owner[e] \in DOMAIN emitter \cup {None}
    /\ DOMAIN emitter \subseteq born \cap Emitters /\ DOMAIN entity \subseteq born \cap Entities
    /\ \A m \in DOMAIN emitter : emitter[m].entity \in DOMAIN entity \cup {None}

Ended == call.stage = "ended"

\* Calls whose row of the log speaks of their rows: those that succeed, and the creation of an
\* emitter wherever it stops.  dispatch records the error of any other tool with no ids at all,
\* however much of its list was done (ErrorsNameTheirRows), and a deletion by filter names none.
Speaks ==
    /\ Ended /\ call.tool # "delete_emissions_where"
    /\ call.status = "ok" \/ call.tool = "create_emitter_from_emissions"

\* The log understates no such call and overstates none: it names every row the call has
\* written itself (a rule's claims apart), and of a list no item that was not done.
LogIsTrue ==
    Speaks => /\ call.changed \subseteq call.named
              /\ call.tool \in Loops => call.named \subseteq {call.on} \cup (call.list \ call.left)

\* What record_error is documented to do: the row of an error names what did persist before it,
\* and none only if there was nothing (not so of a list that fails half way).
ErrorsNameTheirRows == Ended /\ call.status = "error" => call.changed \subseteq call.named

\* Emissions are deleted by filter only if they match every field that was read, and some
\* field was, or all of them are asked for.
DeletesAsRead ==
    call.tool = "delete_emissions_where" /\ call.stage = "delete" /\ call'.stage = "audit" /\ ~call.filter.all =>
         LET f == Parsed(call.filter.sent) IN
         \A e \in DOMAIN owner \ DOMAIN owner' :
            /\ f.sent # {}
            /\ "unassigned" \in f.sent => (f.unassigned <=> owner[e] = None)
            /\ "emitter_id" \in f.sent => owner[e] = f.emitter_id
            /\ "kind" \in f.sent => Kind[e] = f.kind
            /\ {"time_from", "time_to"} \subseteq f.sent => At[e] \in f.time_from .. f.time_to

\* The agent deletes no entity but its own, whatever came between its check and the delete.
OnlyItsOwnEntities ==
    call.tool = "delete_entity" /\ call.stage = "delete" /\ others' = others =>
         DOMAIN entity \ DOMAIN entity' \subseteq mine

=============================================================================
