---------------------------- MODULE AlertRegistry ----------------------------
(***************************************************************************)
(* Alert rules, the methods that deliver them, and the zones they watch:     *)
(* what the operator's requests make of the three tables                     *)
(* (fluxfang-api/src/alert_rules.rs, alert_methods.rs, zones.rs and their    *)
(* repositories).                                                            *)
(*                                                                         *)
(* A PATCH reads the row, merges, validates the merged row and writes all of *)
(* it; the links to methods are replaced by a transaction of their own.       *)
(* Transactions are Postgres's at READ COMMITTED: a statement finds the rows  *)
(* of its own start, waits for those another transaction has written, and     *)
(* passes over what was committed meanwhile.  Whether a content_match is      *)
(* well-formed is a matter of RuleLanguage.                                  *)
(***************************************************************************)
EXTENDS Naturals, FiniteSets, TLC

CONSTANTS Clients, Rules, Methods, Zones,
          Garbage, NoZone,   \* a zone_id that is no uuid, and none at all
          NewRules,          \* rows a request may ask to create
          Patches,           \* what a PATCH may name: functions from some of a rule's fields
          MaxCalls,          \* bound: requests
          MaxFaults          \* bound: statements that fail, requests that are dropped

NoRule == [on |-> "none"]       \* an id not given out yet
Gone == [on |-> "deleted"]      \* and one never given out again
Unchanged == {"unchanged"}      \* a PATCH without method_ids
ZoneTriggers == {"enters_zone", "host_enters_zone"}
RuleRows == [enabled : BOOLEAN, target_type : BOOLEAN, target_id : BOOLEAN,
             on : ZoneTriggers \cup {"detected"}, zone : Zones \cup {Garbage, NoZone}]

RegistryAssumption ==
    /\ NewRules \subseteq RuleRows /\ {Garbage, NoZone} \cap Zones = {}
    /\ \A p \in Patches, row \in RuleRows : p @@ row \in RuleRows
    /\ Methods \cap Unchanged = {}
    /\ {MaxCalls, MaxFaults} \subseteq Nat

VARIABLES
    zones, methods,   \* ids of the rows of zone and alert_method
    rules,            \* alert_rule
    links,            \* alert_rule_method, as committed
    op,               \* what each client's request is at
    asked,            \* history: the method_ids committed last for each rule
    mixed,            \* history: rules whose method_ids two requests replaced at once
    rewritten,        \* history: rules written since their zone began to go
    calls, faults

vars == <<zones, methods, rules, links, op, asked, mixed, rewritten, calls, faults>>

\* A request: its stage, its rule, the row and method_ids it wants, the ids it has still to
\* look at or insert; of its transaction, the rows its DELETE found, those it removed, those
\* it added; and for a deletion the zone and the rules it has locked.
Idle == [stage |-> "idle", rule |-> CHOOSE r \in Rules : TRUE, row |-> NoRule, ids |-> {},
         left |-> {}, sees |-> {}, wiped |-> {}, added |-> {}, zone |-> NoZone, hits |-> {}]

\* The matrix of validate_trigger: the zone a zone trigger needs, the target it must or must
\* not have.  Of a "detected" rule the zone is not looked at.
ValidTrigger(row) ==
    /\ row.on \in ZoneTriggers => row.zone \in Zones
    /\ row.target_type = (row.on # "host_enters_zone")
    /\ row.target_id = (row.on # "host_enters_zone")

Exists(r) == rules[r] \notin {NoRule, Gone}
Linked(r) == {x \in links : x[1] = r}

Init ==
    /\ zones = Zones /\ methods = Methods
    /\ \E r \in Rules, row \in {x \in NewRules : ValidTrigger(x) /\ x.zone # Garbage}, ids \in SUBSET Methods :
           /\ rules = [x \in Rules |-> IF x = r THEN row ELSE NoRule]
           /\ links = {r} \X ids
           /\ asked = [x \in Rules |-> IF x = r THEN ids ELSE {}]
    /\ op = [c \in Clients |-> Idle]
    /\ mixed = {} /\ rewritten = {}
    /\ calls = 0 /\ faults = 0

Begin(c, call) ==
    /\ op[c] = Idle /\ calls < MaxCalls
    /\ calls' = calls + 1
    /\ op' = [op EXCEPT ![c] = call]

Others(c) == Clients \ {c}

-----------------------------------------------------------------------------
\* create_alert_rule, update_alert_rule: an invalid row is refused before anything happens.
CreateRule(c, row, ids) ==
    /\ ValidTrigger(row)
    /\ Cardinality({d \in Clients : op[d].stage = "create"}) < Cardinality({r \in Rules : rules[r] = NoRule})
    /\ Begin(c, [Idle EXCEPT !.stage = "create", !.row = row, !.ids = ids, !.left = ids])
    /\ UNCHANGED <<zones, methods, rules, links, asked, mixed, rewritten, faults>>

UpdateRule(c, r, patch, ids) ==
    /\ Exists(r) /\ ValidTrigger(patch @@ rules[r])
    /\ Begin(c, [Idle EXCEPT !.stage = "update", !.rule = r, !.row = patch @@ rules[r],
                             !.ids = ids, !.left = IF ids = Unchanged THEN {} ELSE ids])
    /\ UNCHANGED <<zones, methods, rules, links, asked, mixed, rewritten, faults>>

\* validate_method_ids_exist: one SELECT per id; an unknown one ends the request.
CheckMethod(c, m) ==
    /\ op[c].stage \in {"create", "update"} /\ m \in op[c].left
    /\ op' = IF m \in methods THEN [op EXCEPT ![c].left = @ \ {m}] ELSE [op EXCEPT ![c] = Idle]
    /\ UNCHANGED <<zones, methods, rules, links, asked, mixed, rewritten, calls, faults>>

\* A rule that watches z is written while z is gone, or going.
Late(row) == row.zone \in Zones
             /\ \/ row.zone \notin zones
                \/ \E d \in Clients : op[d].stage = "disabled" /\ op[d].zone = row.zone

InsertRule(c, r) ==
    /\ op[c].stage = "create" /\ op[c].left = {} /\ rules[r] = NoRule
    /\ rules' = [rules EXCEPT ![r] = op[c].row]
    /\ op' = [op EXCEPT ![c] = [@ EXCEPT !.stage = "wipe", !.rule = r]]
    /\ rewritten' = IF Late(op[c].row) THEN rewritten \cup {r} ELSE rewritten
    /\ UNCHANGED <<zones, methods, links, asked, mixed, calls, faults>>

LockedRule(c, r) == \E d \in Others(c) : r \in op[d].hits

\* What follows the UPDATE: the methods, if the request names any.
AfterUpdate(call) == IF call.ids = Unchanged THEN Idle ELSE [call EXCEPT !.stage = "wipe"]

\* AlertRuleRepo::update: the whole row, whatever became of it since it was read; of a rule
\* that is gone there is an error.
WriteRule(c) ==
    LET r == op[c].rule IN
    /\ op[c].stage = "update" /\ op[c].left = {} /\ ~LockedRule(c, r)
    /\ op' = [op EXCEPT ![c] = IF Exists(r) THEN AfterUpdate(@) ELSE Idle]
    /\ rules' = IF Exists(r) THEN [rules EXCEPT ![r] = op[c].row] ELSE rules
    /\ rewritten' = IF Exists(r) /\ Late(op[c].row) THEN rewritten \cup {r} ELSE rewritten
    /\ UNCHANGED <<zones, methods, links, asked, mixed, calls, faults>>

-----------------------------------------------------------------------------
\* AlertRuleRepo::set_methods, a transaction: a DELETE, then an INSERT per id.
Replacing(d, r) == op[d].stage \in {"wiping", "link"} /\ op[d].rule = r

\* The DELETE starts: it has found the links there are.
Wipe(c) ==
    LET r == op[c].rule IN
    /\ op[c].stage = "wipe"
    /\ op' = [op EXCEPT ![c] = [@ EXCEPT !.stage = "wiping", !.sees = Linked(r)]]
    /\ mixed' = IF \E d \in Others(c) : Replacing(d, r) THEN mixed \cup {r} ELSE mixed
    /\ UNCHANGED <<zones, methods, rules, links, asked, rewritten, calls, faults>>

\* It has waited for those another transaction was removing, and removed the others.
Wiped(c) ==
    /\ op[c].stage = "wiping"
    /\ \A d \in Others(c) : op[d].wiped \cap op[c].sees = {}
    /\ op' = [op EXCEPT ![c] = [@ EXCEPT !.stage = "link", !.wiped = op[c].sees \cap links, !.left = op[c].ids]]
    /\ UNCHANGED <<zones, methods, rules, links, asked, mixed, rewritten, calls, faults>>

\* Another transaction has written the pair: an INSERT of it waits for that one to end.
Held(c, x) == \E d \in Others(c) : x \in op[d].added \cup op[d].wiped

\* An INSERT: it fails where the link is there, or the rule or the method no longer is.
Link(c, m) ==
    LET x == <<op[c].rule, m>> IN
    /\ op[c].stage = "link" /\ m \in op[c].left /\ ~Held(c, x)
    /\ op' = IF x \in links \ op[c].wiped \/ ~Exists(op[c].rule) \/ m \notin methods
             THEN [op EXCEPT ![c] = Idle]
             ELSE [op EXCEPT ![c].left = @ \ {m}, ![c].added = @ \cup {x}]
    /\ UNCHANGED <<zones, methods, rules, links, asked, mixed, rewritten, calls, faults>>

CommitLinks(c) ==
    LET r == op[c].rule IN
    /\ op[c].stage = "link" /\ op[c].left = {}
    /\ links' = (links \ op[c].wiped) \cup op[c].added
    /\ op' = [op EXCEPT ![c] = Idle]
    /\ asked' = [asked EXCEPT ![r] = op[c].ids]
    /\ UNCHANGED <<zones, methods, rules, mixed, rewritten, calls, faults>>

-----------------------------------------------------------------------------
\* A row an open transaction refers to cannot go: the deletion waits, as its cascade does
\* for a link that is being removed.
Referred(x) == \E d \in Clients : x \in op[d].added \cup op[d].wiped

DeleteRule(r) ==
    /\ Exists(r) /\ calls < MaxCalls
    /\ \A m \in Methods : ~Referred(<<r, m>>)
    /\ \A d \in Clients : r \notin op[d].hits
    /\ calls' = calls + 1
    /\ rules' = [rules EXCEPT ![r] = Gone]
    /\ links' = links \ Linked(r)
    /\ UNCHANGED <<zones, methods, op, asked, mixed, rewritten, faults>>

DeleteMethod(m) ==
    /\ m \in methods /\ calls < MaxCalls
    /\ \A r \in Rules : ~Referred(<<r, m>>)
    /\ calls' = calls + 1
    /\ methods' = methods \ {m}
    /\ links' = {x \in links : x[2] # m}
    /\ UNCHANGED <<zones, rules, op, asked, mixed, rewritten, faults>>

\* ZoneRepo::delete_and_disable_rules, a transaction: the zone...
DeleteZone(c, z) ==
    /\ z \in zones /\ \A d \in Clients : op[d].zone # z
    /\ Begin(c, [Idle EXCEPT !.stage = "unzone", !.zone = z])
    /\ UNCHANGED <<zones, methods, rules, links, asked, mixed, rewritten, faults>>

\* ...and an UPDATE of the rules that name it, which fails on a zone_id that is no uuid.
DisableRules(c) ==
    /\ op[c].stage = "unzone"
    /\ op' = [op EXCEPT ![c] = IF \E r \in Rules : Exists(r) /\ rules[r].zone = Garbage THEN Idle
                               ELSE [@ EXCEPT !.stage = "disabled",
                                              !.hits = {r \in Rules : Exists(r) /\ rules[r].zone = op[c].zone}]]
    /\ UNCHANGED <<zones, methods, rules, links, asked, mixed, rewritten, calls, faults>>

CommitZone(c) ==
    /\ op[c].stage = "disabled"
    /\ zones' = zones \ {op[c].zone}
    /\ rules' = [r \in Rules |-> IF r \in op[c].hits THEN [rules[r] EXCEPT !.enabled = FALSE] ELSE rules[r]]
    /\ op' = [op EXCEPT ![c] = Idle]
    /\ UNCHANGED <<methods, links, asked, mixed, rewritten, calls, faults>>

\* Mutant: the DELETE of the links is a statement of its own.
FailAfterWipe(c) ==
    /\ op[c] # Idle /\ faults < MaxFaults
    /\ faults' = faults + 1
    /\ links' = links \ op[c].wiped
    /\ op' = [op EXCEPT ![c] = Idle]
    /\ UNCHANGED <<zones, methods, rules, asked, mixed, rewritten, calls>>

\* A statement fails or the request is dropped; its transaction is rolled back, what it
\* committed before stays.
Fail(c) ==
    /\ op[c] # Idle /\ faults < MaxFaults
    /\ faults' = faults + 1
    /\ op' = [op EXCEPT ![c] = Idle]
    /\ UNCHANGED <<zones, methods, rules, links, asked, mixed, rewritten, calls>>

Blocked(c, d) ==
    /\ op[c].stage = "link" /\ op[c].left # {}
    /\ \A m \in op[c].left : <<op[c].rule, m>> \in op[d].added \cup op[d].wiped

\* Postgres ends one of two transactions that wait for each other.
Victim(c) ==
    /\ \E d \in Others(c) : Blocked(c, d) /\ Blocked(d, c)
    /\ op' = [op EXCEPT ![c] = Idle]
    /\ UNCHANGED <<zones, methods, rules, links, asked, mixed, rewritten, calls, faults>>

Done == calls = MaxCalls /\ (\A c \in Clients : op[c] = Idle) /\ UNCHANGED vars

Next ==
    \/ \E c \in Clients, row \in NewRules, ids \in SUBSET Methods : CreateRule(c, row, ids)
    \/ \E c \in Clients, r \in Rules, p \in Patches, ids \in (SUBSET Methods) \cup {Unchanged} :
           UpdateRule(c, r, p, ids)
    \/ \E c \in Clients, m \in Methods : CheckMethod(c, m) \/ Link(c, m)
    \/ \E c \in Clients, r \in Rules : InsertRule(c, r)
    \/ \E c \in Clients : \/ WriteRule(c) \/ Wipe(c) \/ Wiped(c) \/ CommitLinks(c)
                          \/ DisableRules(c) \/ CommitZone(c) \/ Fail(c) \/ Victim(c)
    \/ \E c \in Clients, z \in Zones : DeleteZone(c, z)
    \/ (\E r \in Rules : DeleteRule(r)) \/ (\E m \in Methods : DeleteMethod(m))
    \/ Done

Spec == Init /\ [][Next]_vars

-----------------------------------------------------------------------------
\* Every rule that is stored passes the validation, although each PATCH merges with a row
\* that may have changed since: a rule that fires never, for a target its trigger has no use
\* for, does not come about.
RuleRowsAreValid == \A r \in Rules : Exists(r) => ValidTrigger(rules[r])

\* A rule is delivered by the methods it was last given, those deleted since apart, through
\* failures, deletions and requests that end half way; unless two requests replaced them at
\* the same time.
LinksAreAsked ==
    \A r \in Rules : Exists(r) /\ r \notin mixed => Linked(r) = {r} \X (asked[r] \cap methods)

\* A zone that goes takes its rules out of service; one that is enabled and watches a zone
\* that is gone was written after that, or meanwhile.
DeletionDisables ==
    \A r \in Rules : Exists(r) /\ rules[r].enabled /\ rules[r].zone \in Zones \ zones => r \in rewritten

=============================================================================
