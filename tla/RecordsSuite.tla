----------------------------- MODULE RecordsSuite -----------------------------
(*****************************************************************************)
(* The components that keep rows in the database for requests, passes and    *)
(* sweeps to change: emitters and entities, links between emitters, what the  *)
(* agent's tools write, alert rules with their methods and zones, delivery    *)
(* channels.  They are modelled apart and share no variable here; the state   *)
(* graph is the disjoint union of theirs.                                    *)
(*****************************************************************************)
EXTENDS Naturals, FiniteSets, TLC

CONSTANTS
    Parts,                                           \* the components that may move
    EmitterIds, Emissions, Sources,
    Persons, Askers, ObservedAt, SourceOf, KeyOf, RuleSets, AgeOutBefore,   \* Records
    EmitterCount, Models, MeetingHistories, LateReadings, Unplaced,
    TimeWindow, EventsAtLeast, SpreadAtLeast,                                         \* Links
    Wards, KindOf, SentAt, Words, SentFilters,                                        \* Agent
    Requesters, RuleIds, MethodIds, ZoneIds, NoUuid, Zoneless, RulesAsked, RulePatches,  \* Registry
    Channels, ChannelConfigs, SecretKeys, Uncreated, Deleted,                         \* AlertChannels
    RecordsCalls, RecordsTools, RecordsFaults, RecordsSweeps, LinksCalls, LinksFaults, AgentOthers, AgentFaults,
    RegistryCalls, RegistryFaults, ChannelPatches, ChannelRestarts                    \* bounds

VARIABLES
    part,
    emitter, entities, owner, opted, stage, pick, op, sweep, missed, discarded,
    calls, tools, faults, sweeps,
    links_emitters, readings, link, evidence, links_op, writes, candidates, loaded, todo, late,
    lost, raced, confirmed, links_calls, links_faults,
    agent_owner, agent_emitter, entity, agent_confirmed, call, born, mine, others, agent_faults,
    zones, methods, rules, links, rules_op, asked, mixed, rewritten, rules_calls, rules_faults,
    rows, key, channels_op, patches, restarts, answer, given, passed, undone

Records == INSTANCE EmitterRecords WITH
    Emitters <- EmitterIds, Entities <- Persons, Clients <- Askers, At <- ObservedAt,
    From <- SourceOf, Identity <- KeyOf, Rules <- RuleSets,
    Cutoff <- AgeOutBefore, MaxCalls <- RecordsCalls, MaxTools <- RecordsTools, MaxFaults <- RecordsFaults,
    MaxSweeps <- RecordsSweeps

Links == INSTANCE Associations WITH
    N <- EmitterCount, Model <- Models, Histories <- MeetingHistories, Late <- LateReadings,
    Nowhere <- Unplaced, Window <- TimeWindow, MinEvents <- EventsAtLeast,
    MinSpread <- SpreadAtLeast, MaxCalls <- LinksCalls, MaxFaults <- LinksFaults,
    emitters <- links_emitters, op <- links_op, calls <- links_calls, faults <- links_faults

Agent == INSTANCE AgentTools WITH
    Emitters <- EmitterIds, Entities <- Wards, Kind <- KindOf, At <- SentAt, Values <- Words,
    Filters <- SentFilters, MaxOthers <- AgentOthers, MaxFaults <- AgentFaults,
    owner <- agent_owner, emitter <- agent_emitter, confirmed <- agent_confirmed,
    faults <- agent_faults

Registry == INSTANCE AlertRegistry WITH
    Clients <- Requesters, Rules <- RuleIds, Methods <- MethodIds, Zones <- ZoneIds,
    Garbage <- NoUuid, NoZone <- Zoneless, NewRules <- RulesAsked, Patches <- RulePatches,
    MaxCalls <- RegistryCalls, MaxFaults <- RegistryFaults,
    op <- rules_op, calls <- rules_calls, faults <- rules_faults

AlertChannels == INSTANCE AlertMethods WITH
    Methods <- Channels, Clients <- Requesters, Configs <- ChannelConfigs, Keys <- SecretKeys,
    NoMethod <- Uncreated, MaxPatches <- ChannelPatches, MaxRestarts <- ChannelRestarts,
    op <- channels_op

ASSUME RecordsAreSound == Records!RecordsAssumption

ASSUME LinksAreSound == Links!AssociationsAssumption

ASSUME ToolsAreSound == Agent!ToolsAssumption

ASSUME RegistryIsSound == Registry!RegistryAssumption

ASSUME ChannelsAreSound == AlertChannels!MethodsAssumption

recordsVars ==
    <<emitter, entities, owner, opted, stage, pick, op, sweep, missed, discarded,
      calls, tools, faults, sweeps>>

linksVars ==
    <<links_emitters, readings, link, evidence, links_op, writes, candidates, loaded, todo,
      late, lost, raced, confirmed, links_calls, links_faults>>

agentVars ==
    <<agent_owner, agent_emitter, entity, agent_confirmed, call, born, mine, others,
      agent_faults>>

registryVars ==
    <<zones, methods, rules, links, rules_op, asked, mixed, rewritten, rules_calls, rules_faults>>

channelsVars ==
    <<rows, key, channels_op, patches, restarts, answer, given, passed, undone>>

suiteVars == <<part, recordsVars, linksVars, agentVars, registryVars, channelsVars>>

\* One component moves; the others stay where one of their initial states has them.
RecordsInit ==
    /\ part \in Parts
    /\ Records!Init /\ (part # "records" => entities = {} /\ opted = {})
    /\ Links!Init
    /\ part # "links" => readings = [e \in 1..EmitterCount |-> CHOOSE h \in MeetingHistories : TRUE]
    /\ Agent!Init /\ (part # "agent" => born = {} /\ agent_confirmed = {})
    /\ Registry!Init
    /\ part # "registry" =>
           /\ links = {}
           /\ rules[CHOOSE r \in RuleIds : TRUE] =
                  CHOOSE row \in RulesAsked : Registry!ValidTrigger(row) /\ row.zone # NoUuid
    /\ AlertChannels!Init /\ (part # "channels" => key = CHOOSE k \in SecretKeys : TRUE)

RecordsNext ==
    /\ UNCHANGED part
    /\ \/ part = "records" /\ Records!Next /\ UNCHANGED <<linksVars, agentVars, registryVars, channelsVars>>
       \/ part = "links" /\ Links!Next /\ UNCHANGED <<recordsVars, agentVars, registryVars, channelsVars>>
       \/ part = "agent" /\ Agent!Next /\ UNCHANGED <<recordsVars, linksVars, registryVars, channelsVars>>
       \/ part = "registry" /\ Registry!Next /\ UNCHANGED <<recordsVars, linksVars, agentVars, channelsVars>>
       \/ part = "channels" /\ AlertChannels!Next /\ UNCHANGED <<recordsVars, linksVars, agentVars, registryVars>>

RecordsSpec == RecordsInit /\ [][RecordsNext]_suiteVars

-----------------------------------------------------------------------------
(* Properties. *)

\* What is stored of an emitter follows what was heard of it: its seen window covers its
\* emissions, but for those whose window a failure, a refresh or the agent has passed by.
RecordsFollowTheirSource == Records!WindowCovers

\* Every link the correlation made is explained by evidence, and the evidence by what was
\* heard, but for what failed or was rewritten meanwhile.
LinksAreExplained == Links!AutoLinksAreExplained

\* The log of the agent's calls, of those that succeed and of the creation of an emitter wherever
\* it stops: every row they have written is named, and nothing of a list that was not done.  The
\* errors of the other tools are logged without ids, as the code has it.
AgentIsAudited == Agent!LogIsTrue

\* What an operator confirmed, kept or has not offered is not destroyed behind his back:
\* verified links fall to him or to a cascade, a sweep takes only emissions it has seen
\* to belong to what it deletes, and a tool deletes what its filter says and only
\* entities of its own making.
NothingGoesUnasked ==
    [][/\ Links!OperatorsWordStands
       /\ Records!ConsentHolds
       /\ Agent!DeletesAsRead
       /\ Agent!OnlyItsOwnEntities]_suiteVars

\* What the tables promise of rows that refer to others: stored alert rules are ones the
\* routes would accept, with methods that one request or another asked for; the deletion
\* of a zone switches off the rules it found; and half a link comes of a race only.
TablesAreConsistent ==
    /\ Registry!RuleRowsAreValid /\ Registry!LinksAreAsked /\ Registry!DeletionDisables
    /\ Links!HalfLinksAreRaced

\* A delivery method keeps the config it was given last, secrets and all, through every rename and
\* change of the key, but for a PATCH that had read the row before; and what was accepted can be
\* sent.
SecretsSurviveEdits == AlertChannels!AcceptedCanBeSent /\ AlertChannels!LastConfigStands

\* What the table of links promises (emitter_association.rs:1-4: a link is two rows,
\* "written and removed together in one transaction so either emitter lists the other").
LinksComeInPairs == Links!LinksComeInPairs
=============================================================================
