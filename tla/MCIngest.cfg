SPECIFICATION SuiteSpec
CONSTANTS
    Parts = {"matching", "language", "binds", "lists"}
    NoValue = NoValue
    RuleWords <- Words
    Magnitudes <- Numbers
    Spellings <- Decimals
    Regexes <- Selections
    FieldTypes <- Typed
    StatedRules <- RulesStated
    HeldPayloads <- PayloadsHeld
    FirstBind = 3
    ConditionsAtMost = 20
    ElementsAtMost = 1000
    ParametersAtMost = 65535
    ConditionCounts = {0, 2, 20, 66}
    InSizes = {0, 1, 1000, 4000}
    ListedIds = {1, 2, 3}
    ListedRows <- EmissionRows
    SentLimits = {0, 9}
    LimitAtMost = 2
    PointsAtMost = 2
    SortedBy = {"asc", "desc"}
    ListChanges = 2
    Ingests = {i1, i2}
    Devices = {tag, phone}
    AutoCreate = {tag, phone}
    Stated = {{tag}, {phone}, {tag, phone}}
    None = None
    MaxAppended = 1
    MaxEmissions = 2
    MaxEmitters = 4
    MaxEdits = 2
SYMMETRY Symmetry
INVARIANTS
    CurrentSnapshotIsExact
    AnswersAreLive
    QueriesMeanTheirRules
    PagesAreComplete
