----------------------------- MODULE QueryBinds -----------------------------
(* The statements the list routes build (emissions.rs, emitters.rs,          *)
(* entities.rs and their repositories).  A WHERE clause names its values by  *)
(* position ($n); the values are bound by other code, in an order of its     *)
(* own.  The module asks whether position and value agree, whatever filters  *)
(* a request combines, and whether the statement has few enough of them.     *)
EXTENDS Integers, Sequences, FiniteSets

CONSTANTS
    MaxConditions,  \* MAX_CONDITIONS
    MaxInElements,  \* MAX_IN_ELEMENTS
    MaxParameters,  \* external: parameters a statement of Postgres may have
    Counts, Sizes,  \* how many conditions a client sends, and how long an `in` is
    None            \* no statement

\* The filters of an emission list, in the order of their clauses, and of an emitter list.
EmissionKeys == <<"data_source_id", "session_id", "emitter_id", "unassigned", "time_from",
                  "time_to", "bbox", "kind", "sensor_id", "q", "emitter_type",
                  "emitter_category", "mac_persistence">>
EmitterKeys == <<"search", "entity_id", "emitter_type", "mac_persistence">>

\* How many values a filter compares with.
Width(key) == CASE key = "unassigned" -> 0 [] key = "bbox" -> 4 [] OTHER -> 1

\* A condition is its operator and the number of its values (an empty `in` is FALSE); a key is
\* the name of a filter, or a condition's place.
Condition == [op : {"eq", "in"}, values : Nat]
Filter(name) == <<name, 0>>
Cond(i) == <<"cond", i>>

BindsAssumption ==
    /\ Counts \subseteq Nat /\ Sizes \subseteq Nat
    /\ {MaxConditions, MaxParameters} \subseteq Nat /\ MaxInElements \in Nat \ {0}
    /\ MaxConditions * MaxInElements + 60 =< MaxParameters  \* with every filter and a page

VARIABLES
    statement,  \* the last one built: its clauses, its binds, and what was asked for
    status      \* of the request

vars == <<statement, status>>

Init == statement = None /\ status = "none"

-----------------------------------------------------------------------------
(* Building.  Two counters: the text of a statement numbers its positions      *)
(* from next, the driver gives each value the place after those it has bound.  *)
(* A clause, and a bind, is the n positions of one filter from `at` on.        *)

Empty == [next |-> 1, clauses |-> <<>>, bound |-> 0, binds |-> <<>>]

Number(b, g) ==
    [next |-> b.next + g.n, clauses |-> Append(b.clauses, [key |-> g.key, at |-> b.next, n |-> g.n]),
     bound |-> b.bound, binds |-> b.binds]

Bind(b, g) ==
    [next |-> b.next, clauses |-> b.clauses,
     bound |-> b.bound + g.n, binds |-> Append(b.binds, [key |-> g.key, at |-> b.bound + 1, n |-> g.n])]

Take(b, g, how) ==
    CASE how = "number" -> Number(b, g)
      [] how = "bind" -> Bind(b, g)
      [] how = "both" -> Bind(Number(b, g), g)

\* In turn, the filters that were asked for.
Each(b, groups, asked, how) ==
    LET built[i \in 0..Len(groups)] ==
            IF i = 0 THEN b
            ELSE IF groups[i].key \in asked THEN Take(built[i - 1], groups[i], how)
            ELSE built[i - 1]
    IN  built[Len(groups)]

Filters(b, order, keys, how) ==
    Each(b, [i \in DOMAIN order |-> [key |-> Filter(order[i]), n |-> Width(order[i])]],
         {Filter(k) : k \in keys}, how)

\* rule_sql::build; a condition is known by its place in the request.
Conditions(b, conditions, how) ==
    Each(b, [i \in DOMAIN conditions |-> [key |-> Cond(i), n |-> conditions[i].values]],
         {Cond(i) : i \in DOMAIN conditions}, how)

EmissionWhere(keys, conditions) ==
    Conditions(Filters(Empty, EmissionKeys, keys, "both"), conditions, "both")

\* The page's own values are bound last, at positions that the text counts from `at`.
Paged(b, at) ==
    Filters([next |-> at, clauses |-> b.clauses, bound |-> b.bound, binds |-> b.binds],
            <<"limit", "offset">>, {"limit", "offset"}, "both")

EmissionPage(keys, conditions) ==
    LET b == EmissionWhere(keys, conditions) IN Paged(b, b.bound + 1)

\* EmitterRepo::query: the clauses are numbered in one place and bound in another (bind_all).
BindAll(b, keys, conditions) ==
    Conditions(Filters(b, <<"search", "entity_id", "emitter_type", "mac_persistence">>, keys, "bind"),
               conditions, "bind")

EmitterPage(keys, conditions) ==
    LET b == Conditions(Filters(Empty, EmitterKeys, keys, "number"), conditions, "number")
    IN  Paged(BindAll(b, keys, conditions), b.next)

\* EntityRepo::query writes its positions down.
EntityPage(keys) ==
    Paged(Filters(Empty, <<"search">>, keys, "both"), IF "search" \in keys THEN 2 ELSE 1)

\* The two statements of a rule, the emissions it would claim and those it claims, write down
\* the positions of what is fixed.
RuleStatement(fixed, conditions) ==
    LET first == [i \in DOMAIN fixed |-> [key |-> Filter(fixed[i]), at |-> i, n |-> 1]]
    IN  Conditions([next |-> Len(fixed) + 1, clauses |-> first, bound |-> Len(fixed), binds |-> first],
                   conditions, "both")

-----------------------------------------------------------------------------
(* The routes.                                                               *)

\* The filters a client combines: at most two, or all but two at most.
Combined(order) ==
    {keys \in SUBSET {order[i] : i \in DOMAIN order} :
        Cardinality(keys) <= 2 \/ Cardinality(keys) >= Len(order) - 2}

\* What it sends as conditions: of one shape, but for the first.
Sent ==
    UNION {{[i \in 1..count |-> [op |-> "in", values |-> n]],
            [i \in 1..count |-> IF i = 1 THEN [op |-> "eq", values |-> 1]
                                ELSE [op |-> "in", values |-> n]]}
           : count \in Counts, n \in Sizes}

\* parse_condition and parse_filter.
WithinCaps(conditions) ==
    /\ Len(conditions) <= MaxConditions
    /\ \A i \in DOMAIN conditions :
           conditions[i].op = "in" => conditions[i].values <= MaxInElements

Refuse == status' = "400" /\ statement' = None

Answer(keys, conditions, built, capped) ==
    /\ statement' = [clauses |-> built.clauses, binds |-> built.binds, bound |-> built.bound, capped |-> capped,
                     keys |-> {Filter(k) : k \in keys} \cup {Cond(i) : i \in DOMAIN conditions}]
    /\ status' = "200"

\* GET /api/emissions and /api/emissions/points: a value that does not parse, or too many
\* conditions, is a 400.
ListEmissions ==
    /\ status = "none"
    /\ \E keys \in Combined(EmissionKeys), conditions \in Sent :
          \/ Refuse
          \/ ~WithinCaps(conditions) /\ Refuse
          \/ /\ WithinCaps(conditions)
             /\ Answer(keys \cup {"limit", "offset"}, conditions,
                       EmissionPage(keys, conditions), TRUE)
          \/ /\ WithinCaps(conditions)
             /\ Answer(keys, conditions, EmissionWhere(keys, conditions), TRUE)

\* GET /api/emitters: conditions are over the attributes of one type of emitter.
ListEmitters ==
    /\ status = "none"
    /\ \E keys \in Combined(EmitterKeys), conditions \in Sent :
          IF WithinCaps(conditions) /\ (conditions = <<>> \/ "emitter_type" \in keys)
          THEN Answer(keys \cup {"limit", "offset"}, conditions,
                      EmitterPage(keys, conditions), TRUE)
          ELSE Refuse

\* GET /api/entities.
ListEntities ==
    /\ status = "none"
    /\ \E keys \in SUBSET {"search"} :
          Answer(keys \cup {"limit", "offset"}, <<>>, EntityPage(keys), TRUE)

\* A rule is counted (count_matching) or attached (attach_emissions_matching): it comes as a
\* JSON document, and nothing counts its conditions or their values.
RunRule ==
    /\ status = "none"
    /\ \E conditions \in Sent, fixed \in {<<"kind">>, <<"emitter_id", "kind">>} :
          Answer({fixed[i] : i \in DOMAIN fixed}, conditions, RuleStatement(fixed, conditions), FALSE)

\* The next request.
Again == status # "none" /\ statement' = None /\ status' = "none"

Next == ListEmissions \/ ListEmitters \/ ListEntities \/ RunRule \/ Again

Spec == Init /\ [][Next]_vars

-----------------------------------------------------------------------------
\* Whatever a request combines, its filters are the clauses, every position of a clause is bound
\* to a value of that clause's own filter, and no value is left over: the numbering (next_bind)
\* and the binding (a list, or bind_all) are two pieces of code.
PlaceholdersAgree ==
    statement # None =>
        LET clauses == statement.clauses
            binds == statement.binds
        IN  /\ {clauses[i].key : i \in DOMAIN clauses} = statement.keys
            /\ \A i \in DOMAIN clauses : clauses[i].n > 0 => \E j \in DOMAIN binds : binds[j] = clauses[i]
            /\ \A j \in DOMAIN binds : binds[j].n > 0 => \E i \in DOMAIN clauses : clauses[i] = binds[j]

\* The caps of the list routes ("Caps" in emissions.rs) keep a statement within what Postgres
\* takes, together with every filter there is.
WithinLimit ==
    statement # None /\ statement.capped => statement.bound =< MaxParameters
=============================================================================
