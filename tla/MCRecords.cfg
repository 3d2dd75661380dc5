SPECIFICATION RecordsSpec
CONSTANTS
    Parts = {"records", "links", "agent", "registry", "channels"}
    e1 = e1
    e2 = e2
    m1 = m1
    s1 = s1
    z1 = z1
    EmitterIds = {m1, m2}
    Emissions = {e1, e2}
    Sources = {s1}
    Persons = {n1}
    Askers = {c1}
    ObservedAt <- TwoMoments
    SourceOf <- OneSource
    KeyOf <- OneDevice
    RuleSets <- OneRule
    AgeOutBefore = 2
    EmitterCount = 2
    Models <- OneModel
    MeetingHistories <- TwoHistories
    LateReadings <- OneLate
    Unplaced = "nowhere"
    TimeWindow = 1
    EventsAtLeast = 2
    SpreadAtLeast = 2
    Wards = {w1, w2}
    KindOf <- TwoKinds
    SentAt <- InTurn
    Words = {"x"}
    SentFilters <- FewFields
    Requesters = {q1, q2}
    RuleIds = {r1, r2}
    MethodIds = {a1, a2}
    ZoneIds = {z1}
    NoUuid = "not-a-uuid"
    Zoneless = "no zone"
    RulesAsked <- TwoRules
    RulePatches <- TwoPatches
    Channels = {a1}
    ChannelConfigs <- FourConfigs
    SecretKeys = {k1, k2}
    Uncreated = Uncreated
    Deleted = Deleted
    RecordsCalls = 1
    RecordsTools = 1
    RecordsFaults = 1
    RecordsSweeps = 1
    LinksCalls = 3
    LinksFaults = 1
    AgentOthers = 1
    AgentFaults = 1
    RegistryCalls = 2
    RegistryFaults = 1
    ChannelPatches = 2
    ChannelRestarts = 1
SYMMETRY Symmetry
CHECK_DEADLOCK FALSE
INVARIANTS
    RecordsFollowTheirSource
    LinksAreExplained
    AgentIsAudited
    TablesAreConsistent
    SecretsSurviveEdits
PROPERTIES
    NothingGoesUnasked
