---------------------------- MODULE RuleLanguage ----------------------------
(***************************************************************************)
(* The rule language, and its two meanings (fluxfang-core/src/rule.rs,      *)
(* rule_sql.rs, catalog.rs).  A rule claims an emission by eval when the     *)
(* emission is ingested, and by the query built from it when the emission   *)
(* was stored before (EmitterRepo::attach_emissions_matching): the module   *)
(* asks whether the two agree.                                              *)
(*                                                                         *)
(* A JSON value is its type and the text Rust displays it with.  A number   *)
(* is its spelling (6 and 6.0 are different values of one magnitude);       *)
(* Magnitude gives the number a text reads as, Stored the text Postgres     *)
(* gives a number back with where that is another one (serde_json displays   *)
(* large numbers with an exponent, ->> does not).                           *)
(***************************************************************************)
EXTENDS Integers, Sequences

CONSTANTS Words,        \* texts that are no number
          Magnitude,    \* function: the number each numeral reads as
          Stored,       \* function: how Postgres spells a numeral, where it differs
          Language,     \* function: the texts each valid pattern matches
          Catalog,      \* function: the type of every field that a rule may name
          Rules, Payloads, NextBind

Numerals == DOMAIN Magnitude
Texts == Words \cup Numerals
Types == {"string", "number", "bool", "null", "array", "absent"}
Json == {v \in [type : Types, text : Texts] : v.type = "number" => v.text \in Numerals}
Ops == {"eq", "neq", "matches", "in", "gte", "lte"}

\* A condition has a field, an op and a value, which is a scalar, the only item, or an array of
\* scalars; an array in a payload is its text, and equal to no condition's value.
Conditions(c) ==
    /\ c.op \in Ops /\ c.shape \in {"scalar", "array"}
    /\ c.items \in Seq(Json)
    /\ c.shape = "scalar" => Len(c.items) = 1
Array(c) == c.shape = "array"
Scalar(c) == c.items[1]

RuleAssumption ==
    /\ DOMAIN Stored \subseteq Numerals /\ DOMAIN Language \subseteq Texts
    /\ \A f \in DOMAIN Catalog : Catalog[f] \in {"text", "mac", "enum", "number"}
    /\ Payloads \subseteq UNION {[F -> Json] : F \in SUBSET DOMAIN Catalog}
    /\ \A r \in Rules : /\ r.conditions \in Seq({r.conditions[i] : i \in DOMAIN r.conditions})
                        /\ \A i \in DOMAIN r.conditions : Conditions(r.conditions[i])
    /\ NextBind \in Nat

-----------------------------------------------------------------------------
\* What the matcher computes: rule.rs.  A field that is not there satisfies no operator.

MatchString(v) == v.type \in {"string", "number"}

EvalNumeric(op, v, w) ==
    /\ v.type = "number" /\ w.type = "number"
    /\ \/ op = "gte" /\ Magnitude[v.text] >= Magnitude[w.text]
       \/ op = "lte" /\ Magnitude[v.text] =< Magnitude[w.text]

EvalCondition(c, payload) ==
    /\ c.field \in DOMAIN payload
    /\ LET v == payload[c.field] IN
       \/ c.op = "eq" /\ ~Array(c) /\ v = Scalar(c)
       \/ c.op = "neq" /\ (Array(c) \/ v # Scalar(c))
       \/ c.op = "matches" /\ ~Array(c) /\ Scalar(c).type = "string" /\ MatchString(v)
          /\ Scalar(c).text \in DOMAIN Language /\ v.text \in Language[Scalar(c).text]
       \/ c.op = "in" /\ Array(c) /\ \E i \in DOMAIN c.items : c.items[i] = v
       \/ ~Array(c) /\ EvalNumeric(c.op, v, Scalar(c))

Eval(r, payload) ==
    LET holds == {i \in DOMAIN r.conditions : EvalCondition(r.conditions[i], payload)} IN
    IF r.mode = "all" THEN holds = DOMAIN r.conditions ELSE holds # {}

-----------------------------------------------------------------------------
\* What a rule is checked for before it is translated: catalog.rs and validate_conditions.

OpsOf(type) == CASE type \in {"text", "mac"} -> {"eq", "neq", "matches", "in"}
                 [] type = "number" -> {"eq", "neq", "gte", "lte", "in"}
                 [] OTHER -> {"eq", "neq", "in"}

ValueMatchesType(v, type) == v.type = IF type = "number" THEN "number" ELSE "string"

\* Mutant: the type of the value is not checked.
ValidWithoutValues(c) ==
    /\ c.field \in DOMAIN Catalog
    /\ c.op \in OpsOf(Catalog[c.field])
    /\ Array(c) <=> c.op = "in"

Valid(c) ==
    /\ c.field \in DOMAIN Catalog
    /\ c.op \in OpsOf(Catalog[c.field])
    /\ Array(c) <=> c.op = "in"
    /\ \A i \in DOMAIN c.items : ValueMatchesType(c.items[i], Catalog[c.field])

ValidRule(r) == \A i \in DOMAIN r.conditions : Valid(r.conditions[i])

-----------------------------------------------------------------------------
\* The translation: a clause names its column, its operator and its parameters; the
\* binds are one list for the whole query, a parameter an index into it.

TextBind(v) == IF v.type \in {"string", "number", "bool"} THEN v.text ELSE ""

Never == [op |-> "false", field |-> "", params |-> <<>>]

\* condition_clause: every value takes one parameter, and a clause that can never hold
\* takes none.
ConditionClause(c, next) ==
    LET dead == \/ c.op = "matches" /\ (Array(c) \/ Scalar(c).type # "string")
                \/ c.op \in {"gte", "lte"} /\ (Array(c) \/ Scalar(c).type # "number")
                \/ c.op = "in" /\ (~Array(c) \/ c.items = <<>>)
        values == IF c.op = "in" \/ ~Array(c) THEN c.items ELSE <<[type |-> "array", text |-> ""]>>
    IN  IF dead THEN [clause |-> Never, binds |-> <<>>]
        ELSE [clause |-> [op |-> c.op, field |-> c.field,
                          params |-> [i \in DOMAIN values |-> next + i - 1]],
              binds |-> [i \in DOMAIN values |-> TextBind(values[i])]]

\* build: the clauses of the conditions in order, each from the next free parameter.
WithCondition(done, c) ==
    LET made == ConditionClause(c, NextBind + Len(done.binds))
    IN  [clauses |-> Append(done.clauses, made.clause), binds |-> done.binds \o made.binds]

Build(r) ==
    LET built[i \in 0..Len(r.conditions)] ==
            IF i = 0 THEN [clauses |-> <<>>, binds |-> <<>>]
            ELSE WithCondition(built[i - 1], r.conditions[i])
    IN  built[Len(r.conditions)]

-----------------------------------------------------------------------------
\* What Postgres makes of it.  A clause is TRUE, FALSE, NULL or an error that ends the
\* query; ->> gives NULL for a field that is absent or null, and text for everything else.

IsNull(payload, f) == f \notin DOMAIN payload \/ payload[f].type = "null"

Column(payload, f) ==
    LET v == payload[f] IN
    IF v.type = "number" /\ v.text \in DOMAIN Stored THEN Stored[v.text] ELSE v.text

Truth(p) == IF p THEN "true" ELSE "false"

ClauseValue(cl, binds, payload) ==
    LET col == Column(payload, cl.field)
        args == [i \in DOMAIN cl.params |-> binds[cl.params[i] - NextBind + 1]]
        Casts(t) == t \in Numerals
    IN  IF cl.op = "false" THEN "false"
        ELSE IF IsNull(payload, cl.field) THEN "null"
        ELSE CASE cl.op = "eq" -> Truth(col = args[1])
               [] cl.op = "neq" -> Truth(col # args[1])
               [] cl.op = "in" -> Truth(\E i \in DOMAIN args : col = args[i])
               [] cl.op = "matches" -> IF args[1] \notin DOMAIN Language THEN "error"
                                       ELSE Truth(col \in Language[args[1]])
               [] OTHER -> IF ~Casts(col) \/ ~Casts(args[1]) THEN "error"
                           ELSE IF cl.op = "gte" THEN Truth(Magnitude[col] >= Magnitude[args[1]])
                           ELSE Truth(Magnitude[col] =< Magnitude[args[1]])

\* The row is claimed, is left, or the query fails.  Postgres may take the clauses in any
\* order and stop at one that decides: a clause in error need not be reached.
Outcomes(r, payload) ==
    LET q == Build(r)
        values == {ClauseValue(q.clauses[i], q.binds, payload) : i \in DOMAIN q.clauses}
        decides == IF r.mode = "all" THEN "false" ELSE "true"
        plain == IF r.mode = "all" THEN values \subseteq {"true"} ELSE "true" \in values
    IN  (IF "error" \in values THEN {"error"} ELSE {})
            \cup (IF "error" \notin values \/ decides \in values THEN {Truth(plain)} ELSE {})

-----------------------------------------------------------------------------
VARIABLES
    rule, payload,   \* a rule and an emission
    backfill,        \* what became of the emission, had it been stored first
    live             \* and had it come in after the rule was set

vars == <<rule, payload, backfill, live>>

Init ==
    /\ rule \in Rules /\ payload \in Payloads
    /\ backfill = "none" /\ live = "none"

\* The rule is set and claims the stored emission, unless it is refused.
AttachEmissionsMatching ==
    /\ backfill = "none"
    /\ IF ValidRule(rule) THEN backfill' \in Outcomes(rule, payload) ELSE backfill' = "refused"
    /\ UNCHANGED <<rule, payload, live>>

\* The emission comes in and is matched with the rule.
Match ==
    /\ live = "none"
    /\ live' = Truth(Eval(rule, payload))
    /\ UNCHANGED <<rule, payload, backfill>>

Done == backfill # "none" /\ live # "none" /\ UNCHANGED vars

Next == AttachEmissionsMatching \/ Match \/ Done
Spec == Init /\ [][Next]_vars

-----------------------------------------------------------------------------
\* A condition reads a value as the catalog says it is: of the declared type, spelled
\* alike on both sides, and, if it is a pattern, a valid one.
Regular(c) ==
    /\ c.field \in DOMAIN payload =>
           /\ ValueMatchesType(payload[c.field], Catalog[c.field])
           /\ payload[c.field].text \notin DOMAIN Stored
    /\ c.op = "matches" => Scalar(c).text \in DOMAIN Language

\* Whether an emission belongs to an emitter does not depend on which came first, the
\* rule or the emission: for every rule the check lets through and every payload typed
\* as the catalog says, the query claims the row exactly when eval matches, and never
\* fails; NULL clauses, empty arrays and the numbering of the parameters included.
QueryAgreesWithEval ==
    (/\ backfill \notin {"none", "refused"} /\ live # "none"
     /\ \A i \in DOMAIN rule.conditions : Regular(rule.conditions[i]))
    => backfill = live
=============================================================================
