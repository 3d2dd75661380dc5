------------------------------ MODULE MCRecords -------------------------------
(*****************************************************************************)
(* An instance of RecordsSuite for TLC.                                      *)
(*****************************************************************************)
EXTENDS RecordsSuite

CONSTANTS e1, e2, m1, s1, z1

\* An old and a new emission, from one source, of one device, with one rule for both.
TwoMoments == e1 :> 1 @@ e2 :> 3
OneSource == [e \in Emissions |-> s1]
OneDevice == [e \in Emissions |-> "dev"]
OneRule == {Emissions}

\* Two sensors of one model, with histories that meet by time only, at one place, or at two.
OneModel == [e \in 1..2 |-> "model"]
TwoHistories == {(0 :> "nowhere") @@ (3 :> "nowhere"),
                 (1 :> "here") @@ (2 :> "here") @@ (4 :> "there"),
                 (0 :> "here") @@ (1 :> "nowhere") @@ (4 :> "here")}
OneLate == {<<3, "there">>}

\* No filter field, every one alone, every two, and each with one of another JSON type.
TwoKinds == e1 :> "wifi" @@ e2 :> "bluetooth"
InTurn == e1 :> 1 @@ e2 :> 2

Filter(sent, odd) ==
    [sent |-> sent, odd |-> odd, kind |-> "wifi", time_from |-> 2, time_to |-> 2, emitter_id |-> m1,
     unassigned |-> FALSE]
FieldSets == {F \in SUBSET {"kind", "time_from", "time_to", "emitter_id", "unassigned"} : Cardinality(F) =< 2}
FewFields == {Filter(F, {}) : F \in FieldSets} \cup UNION {{Filter(F, {x}) : x \in F} : F \in FieldSets}

\* A zone, rules about a visitor of it, about the host and about any detection, and
\* PATCHes that turn the one into the other, in whole or in part.
Row(on, target, zone) ==
    [enabled |-> TRUE, target_type |-> target, target_id |-> target, on |-> on, zone |-> zone]

TwoRules == {Row("enters_zone", TRUE, z1), Row("detected", TRUE, "not-a-uuid")}
TwoPatches == {[on |-> "host_enters_zone", target_type |-> FALSE, target_id |-> FALSE],
               [target_type |-> TRUE, target_id |-> TRUE]}

\* The agent's entities are alike, and so are the clients.
Symmetry == Permutations(Wards) \cup Permutations(Requesters)

FourConfigs == {{"host"}, {"host", "password"}, {"url"}, {"url", "secret"}}
=============================================================================
