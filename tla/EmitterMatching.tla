--------------------------- MODULE EmitterMatching ---------------------------
(***************************************************************************)
(* Giving an emission its emitter (fluxfang-api/src/ingest/mod.rs and       *)
(* matcher.rs, the emitter routes and repository).  Ingests run             *)
(* concurrently and match against one shared snapshot of the rules, which   *)
(* a change token kept by database triggers invalidates; an ingest that     *)
(* finds no rule creates an emitter and teaches the snapshot about it.      *)
(* Meanwhile the operator edits rules, and backfills what they match.       *)
(*                                                                         *)
(* A payload is the device it comes from, a rule the devices it matches.    *)
(***************************************************************************)
EXTENDS Naturals, Sequences, FiniteSets

CONSTANTS Ingests,      \* ingests under way at once
          Devices,
          AutoCreate,   \* devices of a known kind, from sources that create emitters
          Stated,       \* the rules an operator states
          None,
          MaxAppended,  \* MAX_APPENDED
          MaxEmissions, \* bound
          MaxEmitters,  \* bound: emitters ever made
          MaxEdits      \* bound: requests of the operator

ASSUME MatchingAssumption ==
    /\ AutoCreate \subseteq Devices /\ Stated \subseteq SUBSET Devices
    /\ None \notin Ingests \cup Devices \cup Nat
    /\ MaxAppended \in Nat /\ MaxEmissions \in Nat /\ MaxEmitters \in Nat /\ MaxEdits \in Nat

VARIABLES
    table,     \* the emitter table; ids are handed out in created_at order
    version,   \* emitter_match_version
    minted,    \* emitter ids handed out
    emissions, \* the emission table: each one's device and emitter
    index,     \* EmitterMatchIndex: the snapshot, or None
    writer,    \* the ingest that holds the write lock on it
    op,        \* where each ingest is
    backfill,  \* the emitter whose backfill the operator's request has still to run
    edits, narrowed, \* requests made; whether one deleted or disabled an emitter
    seen       \* history: what was true during each ingest

rows == <<table, version, minted>>
operator == <<backfill, edits, narrowed>>
vars == <<table, version, minted, emissions, index, writer, op, backfill, edits, narrowed,
          seen>>

Ids == 1..MaxEmitters
Deleted == 0             \* in place of an emission's emitter: the emission is gone
Rule == SUBSET Devices
Emitter == [id : Ids, rule : Rule, on : BOOLEAN, key : Devices \cup {None}]
Snapshot == [version : Nat, base : SUBSET Emitter, appended : SUBSET Emitter]

Stages == {"idle", "version", "look", "wait", "list", "attach", "create", "select", "note",
           "append"}
Op == [stage : Stages, em : 0..MaxEmissions, v : Nat, n : Nat, found : Ids \cup {None}]
Idle == [stage |-> "idle", em |-> 0, v |-> 0, n |-> 0, found |-> None]

IdsOf(tab) == {e.id : e \in tab}
Entry(i) == CHOOSE e \in table : e.id = i
KeyTaken(d) == \E e \in table : e.key = d
Dev(p) == emissions[op[p].em].dev

\* The first rule that matches the device: those listed in created_at order, and then
\* those appended, which were created in the order they were appended in (see Note).
Hits(rules, d) == {e \in rules : d \in e.rule}
Oldest(rules) == CHOOSE e \in rules : \A f \in rules : e.id <= f.id
FirstMatch(base, appended, d) ==
    IF Hits(base, d) # {} THEN Oldest(Hits(base, d)).id
    ELSE IF Hits(appended, d) # {} THEN Oldest(Hits(appended, d)).id
    ELSE None

\* list_match_rules.
EnabledRules(tab) == {e \in tab : e.on}

\* What a rule, or the identity of an emitter, made attachable at this moment.
Attachable(tab, d) == {e.id : e \in {f \in tab : f.on /\ (d \in f.rule \/ f.key = d)}}
Unmatched(tab, d) == Hits(EnabledRules(tab), d) = {}
Nothing == [ids |-> {}, none |-> FALSE]

Init ==
    /\ table = {} /\ version = 1 /\ minted = 0
    /\ emissions = <<>>
    /\ index = None /\ writer = None
    /\ op = [p \in Ingests |-> Idle]
    /\ backfill = None /\ edits = 0 /\ narrowed = FALSE
    /\ seen = [p \in Ingests |-> Nothing]

-----------------------------------------------------------------------------
(* The stages of one ingest.                                                 *)

At(p, stage) == op[p].stage = stage
Go(p, stage) == op' = [op EXCEPT ![p].stage = stage]
Leave(p) == op' = [op EXCEPT ![p] = Idle]

\* The emission is stored without an emitter; then finalize_emission.
Store(p, d) ==
    /\ At(p, "idle") /\ Len(emissions) < MaxEmissions
    /\ emissions' = Append(emissions, [dev |-> d, to |-> None])
    /\ op' = [op EXCEPT ![p] = [Idle EXCEPT !.stage = "version", !.em = Len(emissions) + 1]]
    /\ UNCHANGED <<rows, index, writer, operator>>

ReadVersion(p) ==
    /\ At(p, "version")
    /\ op' = [op EXCEPT ![p].stage = "look", ![p].v = version]
    /\ UNCHANGED <<rows, emissions, index, writer, operator>>

Answer(p, snap) ==
    LET m == FirstMatch(snap.base, snap.appended, Dev(p))
    IN  op' = [op EXCEPT ![p].stage = IF m = None THEN "create" ELSE "attach",
                         ![p].v = snap.version, ![p].found = m]

Current(p) == index # None /\ index.version = op[p].v

\* Mutant: whatever snapshot there is will do.
LookAtAny(p) ==
    /\ At(p, "look") /\ writer = None
    /\ IF index # None THEN Answer(p, index) ELSE Go(p, "wait")
    /\ UNCHANGED <<rows, emissions, index, writer, operator>>

\* The fast path, under the read lock.
Look(p) ==
    /\ At(p, "look") /\ writer = None
    /\ IF Current(p) THEN Answer(p, index) ELSE Go(p, "wait")
    /\ UNCHANGED <<rows, emissions, index, writer, operator>>

\* The write lock, and the second look under it.
Lock(p) ==
    /\ At(p, "wait") /\ writer = None
    /\ IF Current(p) THEN Answer(p, index) /\ UNCHANGED writer
                     ELSE Go(p, "list") /\ writer' = p
    /\ UNCHANGED <<rows, emissions, index, operator>>

\* The rules are read now, and kept under the version that was read before.
Reload(p) ==
    /\ At(p, "list")
    /\ index' = [version |-> op[p].v, base |-> EnabledRules(table), appended |-> {}]
    /\ writer' = None
    /\ Answer(p, index')
    /\ UNCHANGED <<rows, emissions, operator>>

\* set_emitter: of an emitter that is gone by now the foreign key makes it fail, and the
\* emission stays as it is; one that is gone itself stays gone.
Attach(p) ==
    /\ At(p, "attach")
    /\ emissions' = IF op[p].found \in IdsOf(table) /\ emissions[op[p].em].to # Deleted
                    THEN [emissions EXCEPT ![op[p].em].to = op[p].found] ELSE emissions
    /\ Leave(p)
    /\ UNCHANGED <<rows, index, writer, operator>>

\* auto_create_emitter: INSERT ... ON CONFLICT (identity_key) DO NOTHING.
Create(p) ==
    /\ At(p, "create")
    /\ IF Dev(p) \notin AutoCreate
       THEN Leave(p) /\ UNCHANGED rows
       ELSE IF KeyTaken(Dev(p))
       THEN Go(p, "select") /\ UNCHANGED rows
       ELSE /\ minted < MaxEmitters /\ minted' = minted + 1
            /\ table' = table \cup {[id |-> minted', rule |-> {Dev(p)}, on |-> TRUE,
                                        key |-> Dev(p)]}
            /\ version' = version + 1
            /\ op' = [op EXCEPT ![p].stage = "note", ![p].found = minted']
    /\ UNCHANGED <<emissions, index, writer, operator>>

\* The emitter somebody else made for this identity, unless it is disabled or gone.
Select(p) ==
    /\ At(p, "select")
    /\ \/ \E e \in table : /\ e.key = Dev(p) /\ e.on
                          /\ op' = [op EXCEPT ![p].stage = "attach", ![p].found = e.id]
       \/ (\A e \in table : ~(e.key = Dev(p) /\ e.on)) /\ Leave(p)
    /\ UNCHANGED <<rows, emissions, index, writer, operator>>

\* note_created reads the version before it waits for the lock.
NoteVersion(p) ==
    /\ At(p, "note")
    /\ op' = [op EXCEPT ![p].stage = "append", ![p].n = version]
    /\ UNCHANGED <<rows, emissions, index, writer, operator>>

Appended(p) == [id |-> op[p].found, rule |-> {Dev(p)}, on |-> TRUE, key |-> Dev(p)]

\* Mutant: the append adopts the version that was read, however far it is.
NoteAnyDelta(p) ==
    /\ At(p, "append") /\ writer = None
    /\ index' = IF index # None /\ index.version = op[p].v /\ Cardinality(index.appended) < MaxAppended
                THEN [index EXCEPT !.version = op[p].n, !.appended = @ \cup {Appended(p)}]
                ELSE index
    /\ op' = [op EXCEPT ![p].stage = "attach", ![p].n = 0]
    /\ UNCHANGED <<rows, emissions, writer, operator>>

\* The append, only when the creation is all the snapshot has missed.
Note(p) ==
    /\ At(p, "append") /\ writer = None
    /\ index' = IF /\ index # None /\ index.version = op[p].v
                   /\ op[p].n = op[p].v + 1 /\ Cardinality(index.appended) < MaxAppended
                THEN [index EXCEPT !.version = op[p].n, !.appended = @ \cup {Appended(p)}]
                ELSE index
    /\ op' = [op EXCEPT ![p].stage = "attach", ![p].n = 0]
    /\ UNCHANGED <<rows, emissions, writer, operator>>

-----------------------------------------------------------------------------
(* The operator: each change of a rule moves the version in the same         *)
(* transaction (migration 0021); one that states a rule backfills after it.  *)

Edit == backfill = None /\ edits < MaxEdits /\ edits' = edits + 1 /\ version' = version + 1

CreateEmitter(rule) ==
    /\ Edit /\ minted < MaxEmitters /\ minted' = minted + 1
    /\ table' = table \cup {[id |-> minted', rule |-> rule, on |-> TRUE, key |-> None]}
    /\ backfill' = minted'
    /\ UNCHANGED <<emissions, index, writer, op, narrowed>>

SetRule(e, rule) ==
    /\ Edit
    /\ table' = (table \ {e}) \cup {[e EXCEPT !.rule = rule]}
    /\ backfill' = e.id
    /\ UNCHANGED <<minted, emissions, index, writer, op, narrowed>>

\* attach_emissions_matching: what the rule in the request matches, whoever has it now.
Backfill ==
    /\ backfill # None /\ backfill' = None
    /\ emissions' = [m \in 1..Len(emissions) |->
                        IF /\ backfill \in IdsOf(table) /\ emissions[m].to # Deleted
                           /\ emissions[m].dev \in Entry(backfill).rule
                        THEN [emissions[m] EXCEPT !.to = backfill] ELSE emissions[m]]
    /\ UNCHANGED <<rows, index, writer, op, edits, narrowed>>

SetEnabled(e, on) ==
    /\ Edit
    /\ table' = (table \ {e}) \cup {[e EXCEPT !.on = on]}
    /\ narrowed' = (narrowed \/ ~on)
    /\ UNCHANGED <<minted, emissions, index, writer, op, backfill>>

\* One, some or all of them in one statement; the foreign key of an emission is ON DELETE
\* SET NULL.
Delete(gone) ==
    /\ Edit
    /\ table' = {e \in table : e.id \notin gone}
    /\ emissions' = [m \in 1..Len(emissions) |->
                        IF emissions[m].to \in gone THEN [emissions[m] EXCEPT !.to = None]
                                                    ELSE emissions[m]]
    /\ narrowed' = TRUE
    /\ UNCHANGED <<minted, index, writer, op, backfill>>

\* The age-out sweep asks nobody: it may come before a backfill that is due.  It takes
\* emitters that have emissions, and these with them.
AgeOut(gone) ==
    /\ edits < MaxEdits /\ edits' = edits + 1 /\ version' = version + 1
    /\ \A i \in gone : \E m \in 1..Len(emissions) : emissions[m].to = i
    /\ table' = {e \in table : e.id \notin gone}
    /\ emissions' = [m \in 1..Len(emissions) |->
                        IF emissions[m].to \in gone THEN [emissions[m] EXCEPT !.to = Deleted]
                                                    ELSE emissions[m]]
    /\ narrowed' = TRUE
    /\ UNCHANGED <<minted, index, writer, op, backfill>>

-----------------------------------------------------------------------------
Quiet == backfill = None /\ \A p \in Ingests : At(p, "idle")

Ingest(p) ==
    \/ \E d \in Devices : Store(p, d)
    \/ ReadVersion(p) \/ Look(p) \/ Lock(p) \/ Reload(p)
    \/ Attach(p) \/ Create(p) \/ Select(p) \/ NoteVersion(p) \/ Note(p)

Operator ==
    \/ Backfill
    \/ \E rule \in Stated : CreateEmitter(rule)
    \/ \E e \in table : \/ \E rule \in Stated : SetRule(e, rule)
                       \/ \E on \in BOOLEAN : SetEnabled(e, on)
    \/ \E gone \in SUBSET IdsOf(table) \ {{}} : Delete(gone) \/ AgeOut(gone)

\* The history: from the moment an emission is stored until the next one of its ingest.
Observe ==
    seen' = [p \in Ingests |->
        IF op'[p].em = 0 THEN Nothing
        ELSE LET d == emissions'[op'[p].em].dev
                 past == IF op'[p].em = op[p].em THEN seen[p] ELSE Nothing
             IN  [ids |-> past.ids \cup Attachable(table', d),
                  none |-> past.none \/ Unmatched(table', d)]]

\* The bounds are reached.
Finished == Quiet /\ UNCHANGED <<rows, emissions, index, writer, op, operator>>

Next == ((\E p \in Ingests : Ingest(p)) \/ Operator \/ Finished) /\ Observe

Spec == Init /\ [][Next]_vars

-----------------------------------------------------------------------------
\* Every variable has its type, and the write lock is held by the one that reloads.
TypeOK ==
    /\ table \subseteq Emitter
    /\ version \in Nat /\ minted \in 0..MaxEmitters
    /\ emissions \in Seq([dev : Devices, to : Ids \cup {None, Deleted}])
    /\ index # None => /\ index \in Snapshot /\ index.version \in 1..version
                       /\ IsFiniteSet(index.appended) /\ Cardinality(index.appended) <= MaxAppended
    /\ op \in [Ingests -> Op]
    /\ \A p \in Ingests : At(p, "list") <=> writer = p
    /\ backfill \in Ids \cup {None} /\ edits \in 0..MaxEdits

\* A snapshot that carries the version of the database matches as the database would,
\* whatever reloads, appends and edits came together to make it: it is never stale
\* without showing it (matcher.rs, "never stale").
CurrentSnapshotIsExact ==
    index # None /\ index.version = version =>
        \A d \in Devices : FirstMatch(index.base, index.appended, d)
                               = FirstMatch(EnabledRules(table), {}, d)

\* The emitter an ingest decides on was, at some moment of that ingest, there, enabled
\* and right for the device: a rule that was disabled, deleted or edited away before the
\* emission came takes no part.
AnswerWasLive == \A p \in Ingests : op[p].found # None => op[p].found \in seen[p].ids

\* An ingest goes on to create an emitter only if there was a moment of it at which no
\* rule matched: a stale snapshot never makes a duplicate for a device that has one.
CreationWasCalledFor ==
    \A p \in Ingests : op[p].stage \in {"create", "select", "note", "append"} => seen[p].none

\* A rule being stated while emissions are on their way leaves no gap: what is stored
\* before the backfill is backfilled, what is stored after it finds the rule.  As long as
\* nothing is disabled or deleted, an emission with a rule for it has an emitter in the end.
NoGap ==
    Quiet /\ ~narrowed =>
        \A m \in 1..Len(emissions) : emissions[m].to = None => Unmatched(table, emissions[m].dev)

\* What the matcher answers is what a live emitter's rule says, an emitter is created
\* only for what no rule claims, and no emission falls between the index and a backfill.
AnswersAreLive == AnswerWasLive /\ CreationWasCalledFor /\ NoGap
=============================================================================
