----------------------------- MODULE IngestSuite -----------------------------
(*****************************************************************************)
(* How an emission gets its emitter (EmitterMatching), the language of the   *)
(* rules it is matched with, the statements a query is composed of and the   *)
(* lists a query fills.  They share no variable; the state graph is the      *)
(* disjoint union of theirs.                                                 *)
(*****************************************************************************)
EXTENDS EmitterMatching, Integers

CONSTANTS
    Parts,                                                       \* the components that may move
    NoValue,
    RuleWords, Magnitudes, Spellings, Regexes, FieldTypes, StatedRules, HeldPayloads, FirstBind, \* Language
    ConditionsAtMost, ElementsAtMost, ParametersAtMost, ConditionCounts, InSizes,                \* Binds
    ListedIds, ListedRows, SentLimits, LimitAtMost, PointsAtMost, SortedBy, ListChanges          \* Lists

VARIABLES
    part,
    stated_rule, payload, rule_backfill, live_match,
    statement, status,
    rows_listed, changes, reader

Language == INSTANCE RuleLanguage WITH
    Words <- RuleWords, Magnitude <- Magnitudes, Stored <- Spellings, Language <- Regexes,
    Catalog <- FieldTypes, Rules <- StatedRules, Payloads <- HeldPayloads, NextBind <- FirstBind,
    rule <- stated_rule, backfill <- rule_backfill, live <- live_match

Binds == INSTANCE QueryBinds WITH
    MaxConditions <- ConditionsAtMost, MaxInElements <- ElementsAtMost,
    MaxParameters <- ParametersAtMost, Counts <- ConditionCounts, Sizes <- InSizes, None <- NoValue

Lists == INSTANCE Paging WITH
    Ids <- ListedIds, Rows <- ListedRows, Null <- NoValue, Limits <- SentLimits,
    MaxLimit <- LimitAtMost, MaxPoints <- PointsAtMost, Directions <- SortedBy,
    MaxChanges <- ListChanges, table <- rows_listed

ASSUME RulesAreSound == Language!RuleAssumption

ASSUME CapsAreSound == Binds!BindsAssumption

ASSUME ListsAreSound == Lists!PagingAssumption

languageVars == <<stated_rule, payload, rule_backfill, live_match>>

bindsVars == <<statement, status>>

listsVars == <<rows_listed, changes, reader>>

suiteVars == <<part, vars, languageVars, bindsVars, listsVars>>

\* One component moves; the others stay where one of their initial states has them.
SuiteInit ==
    /\ part \in Parts
    /\ Init
    /\ (part # "language" => stated_rule = [mode |-> "all", conditions |-> <<>>] /\ payload = <<>>)
    /\ Language!Init
    /\ Binds!Init
    /\ (part # "lists" =>
           rows_listed = [id \in ListedIds \ {CHOOSE id \in ListedIds : TRUE} |-> CHOOSE row \in ListedRows : TRUE])
    /\ Lists!Init

\* A rule that has met its emission, the last statement and the last page are at rest.
SuiteNext ==
    /\ UNCHANGED part
    /\ \/ part = "matching" /\ Next /\ UNCHANGED <<languageVars, bindsVars, listsVars>>
       \/ part = "language" /\ Language!Next /\ UNCHANGED <<vars, bindsVars, listsVars>>
       \/ part = "binds" /\ Binds!Next /\ UNCHANGED <<vars, languageVars, listsVars>>
       \/ part = "lists" /\ Lists!Next /\ UNCHANGED <<vars, languageVars, bindsVars>>
       \/ part # "matching" /\ UNCHANGED <<vars, languageVars, bindsVars, listsVars>>

SuiteSpec == SuiteInit /\ [][SuiteNext]_suiteVars

-----------------------------------------------------------------------------
(* Properties. *)

\* A rule selects the same emissions as SQL and as the live matcher; every placeholder of
\* a composed statement stands for the value it was pushed with, and there are never more
\* of them than a statement may have.
QueriesMeanTheirRules ==
    Language!QueryAgreesWithEval /\ Binds!PlaceholdersAgree /\ Binds!WithinLimit

\* A client that turns pages is shown every row that was there, in one place of the order, all
\* the while, unless others leave the list or sink in it; and a map that is told it has all
\* points has them but for those inserted since.
PagesAreComplete == Lists!EveryRowIsShown /\ Lists!TruncatedIsTrue
=============================================================================
