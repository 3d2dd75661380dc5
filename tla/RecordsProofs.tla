---------------------------- MODULE RecordsProofs ----------------------------
(***************************************************************************)
(* Theorems about RecordsSuite, for every number of rows, requests and      *)
(* faults.  Each component has an invariant of its own, which the others'   *)
(* steps do not touch.                                                      *)
(***************************************************************************)
EXTENDS RecordsSuite, Sequences, FiniteSetTheorems, WellFoundedInduction, TLAPS

-----------------------------------------------------------------------------
(* Delivery channels.                                                        *)

PatchCall == [at : {"write"}, id : Channels, config : SUBSET ChannelConfigs, row : AlertChannels!MethodRows]

ChannelsTypes ==
    /\ rows \in [Channels -> AlertChannels!MethodRows \cup {Uncreated, Deleted}]
    /\ key \in SecretKeys
    /\ channels_op \in [Requesters -> PatchCall \cup {AlertChannels!None}]
    /\ given \in [Channels -> ChannelConfigs \cup {Uncreated}]

\* Strengthening: whatever the key, a stored config has the shape of its channel.
ConfigsParse ==
    \A id \in Channels : AlertChannels!Exists(id) =>
        AlertChannels!Parses(rows[id].type, rows[id].sealed.config)

\* Strengthening: a row that is about to be written is as good as one that is stored; it has the
\* config the client sends, or the one given last, unless it has been passed by a newer one.
PatchIsSound(c) ==
    LET it == channels_op[c] IN
    /\ AlertChannels!Parses(it.row.type, it.row.sealed.config)
    /\ rows[it.id] # Uncreated
    /\ it.config # {} => it.config = {it.row.sealed.config}
    /\ it.config = {} /\ c \notin passed => it.id \in undone \/ it.row.sealed.config = given[it.id]

PatchesAreSound == \A c \in Requesters : channels_op[c].at = "write" => PatchIsSound(c)

ChannelsInv == ChannelsTypes /\ ConfigsParse /\ PatchesAreSound /\ AlertChannels!LastConfigStands

LEMMA ChannelsInitially == RecordsInit => ChannelsInv
<1> SUFFICES ASSUME AlertChannels!Init PROVE ChannelsInv
    BY DEF RecordsInit
<1>1. ChannelsTypes
    <2>1. rows \in [Channels -> AlertChannels!MethodRows \cup {Uncreated, Deleted}]
        BY DEF AlertChannels!Init
    <2>2. channels_op \in [Requesters -> PatchCall \cup {AlertChannels!None}]
        BY DEF AlertChannels!Init
    <2>3. given \in [Channels -> ChannelConfigs \cup {Uncreated}] /\ key \in SecretKeys
        BY DEF AlertChannels!Init
    <2>4. QED
        BY <2>1, <2>2, <2>3 DEF ChannelsTypes
<1>2. \A id \in Channels : ~AlertChannels!Exists(id)
    BY DEF AlertChannels!Init, AlertChannels!Exists
<1>3. \A c \in Requesters : channels_op[c].at # "write"
    BY DEF AlertChannels!Init, AlertChannels!None
<1>4. QED
    BY <1>1, <1>2, <1>3 DEF ChannelsInv, ConfigsParse, PatchesAreSound, AlertChannels!LastConfigStands

\* What stays of the invariant if no row and no call moves.
LEMMA AnswerMoves ==
    ASSUME ChannelsInv, UNCHANGED <<rows, channels_op, given, passed, undone>>, key' \in SecretKeys
    PROVE  ChannelsInv'
BY DEF ChannelsInv, ChannelsTypes, ConfigsParse, PatchesAreSound, PatchIsSound, AlertChannels!LastConfigStands,
       AlertChannels!Exists, AlertChannels!Parses

\* A stored row is a row.
LEMMA StoredRows ==
    ASSUME ChannelsInv, NEW id \in Channels, AlertChannels!Exists(id)
    PROVE  rows[id] \in AlertChannels!MethodRows
BY DEF ChannelsInv, ChannelsTypes, AlertChannels!Exists

\* A PATCH that is begun.
LEMMA BegunPatch ==
    ASSUME ChannelsInv, NEW c \in Requesters, channels_op[c].at = "write"
    PROVE  /\ channels_op[c] \in PatchCall /\ channels_op[c].id \in Channels
           /\ channels_op[c].row \in AlertChannels!MethodRows /\ channels_op[c].config \in SUBSET ChannelConfigs
           /\ PatchIsSound(c)
<1>1. channels_op[c] \in PatchCall
    BY DEF ChannelsInv, ChannelsTypes, AlertChannels!None
<1>2. QED
    BY <1>1 DEF PatchCall, ChannelsInv, PatchesAreSound

LEMMA CreateSteps == ChannelsInv /\ AlertChannels!Create => ChannelsInv'
<1> SUFFICES ASSUME ChannelsInv, AlertChannels!Create PROVE ChannelsInv'
    OBVIOUS
<1>1. PICK id \in Channels, type \in AlertChannels!Types, enabled \in BOOLEAN, config \in ChannelConfigs :
          /\ rows[id] = Uncreated
          /\ IF AlertChannels!Parses(type, config)
             THEN LET r == [type |-> type, enabled |-> enabled, sealed |-> AlertChannels!Encrypt(key, config)]
                  IN  /\ rows' = [rows EXCEPT ![id] = r]
                      /\ given' = [given EXCEPT ![id] = config]
                      /\ AlertChannels!Told("201", AlertChannels!SafeConfig(r))
             ELSE AlertChannels!Told("400", {}) /\ UNCHANGED <<rows, given>>
    BY DEF AlertChannels!Create
<1>2. UNCHANGED <<key, channels_op, passed, undone>>
    BY DEF AlertChannels!Create
<1>3. CASE AlertChannels!Parses(type, config)
    <2> DEFINE r == [type |-> type, enabled |-> enabled, sealed |-> AlertChannels!Encrypt(key, config)]
    <2>1. r \in AlertChannels!MethodRows
        BY DEF AlertChannels!MethodRows, AlertChannels!Encrypt, ChannelsInv, ChannelsTypes
    <2>2. r.type = type /\ r.sealed.config = config
        BY DEF AlertChannels!Encrypt
    <2> HIDE DEF r
    <2>3. rows' = [rows EXCEPT ![id] = r] /\ given' = [given EXCEPT ![id] = config]
        BY <1>1, <1>3 DEF r
    <2>4. ChannelsTypes'
        BY <1>2, <2>1, <2>3 DEF ChannelsInv, ChannelsTypes
    <2>5. \A x \in Channels : x # id => rows'[x] = rows[x] /\ given'[x] = given[x]
        BY <2>3 DEF ChannelsInv, ChannelsTypes
    <2>6. rows'[id] = r /\ given'[id] = config
        BY <2>3 DEF ChannelsInv, ChannelsTypes
    <2>7. ConfigsParse' /\ AlertChannels!LastConfigStands'
        BY <1>2, <1>3, <2>2, <2>5, <2>6
        DEF ChannelsInv, ConfigsParse, AlertChannels!LastConfigStands, AlertChannels!Exists, AlertChannels!Parses
    <2>8. PatchesAreSound'
        <3> SUFFICES ASSUME NEW c \in Requesters, channels_op[c].at = "write" PROVE PatchIsSound(c)'
            BY <1>2 DEF PatchesAreSound
        <3>1. channels_op[c].id \in Channels /\ channels_op[c].id # id /\ PatchIsSound(c)
            BY <1>1, BegunPatch DEF PatchIsSound
        <3>2. QED
            BY <1>2, <2>5, <3>1 DEF PatchIsSound, AlertChannels!Parses
    <2>9. QED
        BY <2>4, <2>7, <2>8 DEF ChannelsInv
<1>4. CASE ~AlertChannels!Parses(type, config)
    BY <1>1, <1>2, <1>4, AnswerMoves DEF ChannelsInv, ChannelsTypes
<1>5. QED
    BY <1>3, <1>4

LEMMA PatchReadSteps ==
    ASSUME ChannelsInv, NEW c \in Requesters, AlertChannels!PatchRead(c)
    PROVE  ChannelsInv'
<1>1. UNCHANGED <<rows, key, given, passed, undone>> /\ channels_op[c] = AlertChannels!None
    BY DEF AlertChannels!PatchRead, AlertChannels!history
<1>2. PICK id \in Channels, said \in AlertChannels!Types,
          switch \in {{}, {TRUE}, {FALSE}}, config \in {{}} \cup {{x} : x \in ChannelConfigs} :
          IF ~AlertChannels!Exists(id)
          THEN rows[id] = Deleted /\ AlertChannels!Told("404", {}) /\ UNCHANGED channels_op
          ELSE LET r == rows[id] IN
               IF \E x \in config : ~AlertChannels!ValidFor(r, said, x)
               THEN AlertChannels!Told("400", {}) /\ UNCHANGED channels_op
               ELSE /\ channels_op' = [channels_op EXCEPT ![c] =
                         [at |-> "write", id |-> id, config |-> config,
                          row |-> [r EXCEPT
                                     !.enabled = IF switch = {} THEN @ ELSE switch = {TRUE},
                                     !.sealed = AlertChannels!Sealed(r, config)]]]
                    /\ UNCHANGED answer
    BY DEF AlertChannels!PatchRead
<1>3. CASE ~AlertChannels!Exists(id) \/ \E x \in config : ~AlertChannels!ValidFor(rows[id], said, x)
    <2>1. UNCHANGED channels_op
        BY <1>2, <1>3
    <2>2. QED
        BY <1>1, <2>1, AnswerMoves DEF ChannelsInv, ChannelsTypes
<1>4. CASE AlertChannels!Exists(id) /\ \A x \in config : AlertChannels!ValidFor(rows[id], said, x)
    <2> DEFINE r == [rows[id] EXCEPT !.enabled = IF switch = {} THEN @ ELSE switch = {TRUE},
                                     !.sealed = AlertChannels!Sealed(rows[id], config)]
               new == [at |-> "write", id |-> id, config |-> config, row |-> r]
    <2>1. channels_op' = [channels_op EXCEPT ![c] = new]
        BY <1>2, <1>4
    <2>2. rows[id] \in AlertChannels!MethodRows
        BY <1>4, StoredRows
    <2>3. /\ r \in AlertChannels!MethodRows /\ r.type = rows[id].type
          /\ r.sealed = AlertChannels!Sealed(rows[id], config)
        <3>1. AlertChannels!Sealed(rows[id], config) \in [key : SecretKeys, config : ChannelConfigs]
            BY <2>2 DEF AlertChannels!Sealed, AlertChannels!Encrypt, AlertChannels!MethodRows, ChannelsInv, ChannelsTypes
        <3>2. QED
            BY <2>2, <3>1 DEF AlertChannels!MethodRows
    <2>4. /\ AlertChannels!Parses(r.type, r.sealed.config)
          /\ config # {} => config = {r.sealed.config}
          /\ config = {} => id \in undone \/ r.sealed.config = given[id]
        <3>1. CASE config = {}
            BY <1>4, <2>3, <3>1
            DEF ChannelsInv, ConfigsParse, AlertChannels!LastConfigStands, AlertChannels!Sealed
        <3>2. CASE config # {}
            <4>1. PICK x \in ChannelConfigs : config = {x}
                BY <3>2
            <4>2. r.sealed.config = x
                BY <2>3, <4>1 DEF AlertChannels!Sealed, AlertChannels!Encrypt
            <4>3. QED
                BY <1>4, <2>3, <4>1, <4>2 DEF AlertChannels!ValidFor
        <3>3. QED
            BY <3>1, <3>2
    <2> HIDE DEF r
    <2>5. new \in PatchCall
        BY <2>3 DEF PatchCall
    <2>6. ChannelsTypes'
        BY <1>1, <2>1, <2>5 DEF ChannelsInv, ChannelsTypes
    <2>7. PatchesAreSound'
        <3> SUFFICES ASSUME NEW d \in Requesters, channels_op'[d].at = "write" PROVE PatchIsSound(d)'
            BY DEF PatchesAreSound
        <3>1. CASE d = c
            <4>1. channels_op'[d] = new
                BY <2>1, <3>1 DEF ChannelsInv, ChannelsTypes
            <4>2. QED
                BY <1>1, <1>4, <2>4, <4>1 DEF PatchIsSound, AlertChannels!Exists, AlertChannels!Parses
        <3>2. CASE d # c
            <4>1. channels_op'[d] = channels_op[d]
                BY <2>1, <3>2 DEF ChannelsInv, ChannelsTypes
            <4>2. QED
                BY <1>1, <4>1 DEF ChannelsInv, PatchesAreSound, PatchIsSound, AlertChannels!Parses
        <3>3. QED
            BY <3>1, <3>2
    <2>8. (ConfigsParse /\ AlertChannels!LastConfigStands)'
        BY <1>1 DEF ChannelsInv, ConfigsParse, AlertChannels!LastConfigStands, AlertChannels!Exists,
                    AlertChannels!Parses
    <2>9. QED
        BY <2>6, <2>7, <2>8 DEF ChannelsInv
<1>5. QED
    BY <1>2, <1>3, <1>4

LEMMA PatchWriteSteps ==
    ASSUME ChannelsInv, NEW c \in Requesters, AlertChannels!PatchWrite(c)
    PROVE  ChannelsInv'
<1> DEFINE patch == channels_op[c]
           id == patch.id
<1>1. /\ channels_op' = [channels_op EXCEPT ![c] = AlertChannels!None] /\ UNCHANGED key
      /\ patch.at = "write"
    BY DEF AlertChannels!PatchWrite
<1>2. id \in Channels /\ patch.row \in AlertChannels!MethodRows /\ patch.config \in SUBSET ChannelConfigs
    BY <1>1, BegunPatch
<1>3. PatchIsSound(c)
    BY <1>1, BegunPatch
<1>4. \A d \in Requesters : channels_op'[d].at = "write" => d # c /\ channels_op'[d] = channels_op[d]
    BY <1>1 DEF ChannelsInv, ChannelsTypes, AlertChannels!None
<1>5. passed \ {c} \subseteq passed'
    BY DEF AlertChannels!PatchWrite
<1>6. CASE ~AlertChannels!Exists(id)
    <2>1. UNCHANGED <<rows, given, undone>>
        BY <1>6 DEF AlertChannels!PatchWrite
    <2>2. ChannelsTypes'
        BY <1>1, <2>1 DEF ChannelsInv, ChannelsTypes
    <2>3. (ConfigsParse /\ AlertChannels!LastConfigStands)'
        BY <2>1 DEF ChannelsInv, ConfigsParse, AlertChannels!LastConfigStands, AlertChannels!Exists,
                    AlertChannels!Parses
    <2>4. PatchesAreSound'
        BY <1>4, <1>5, <2>1 DEF ChannelsInv, PatchesAreSound, PatchIsSound, AlertChannels!Parses
    <2>5. QED
        BY <2>2, <2>3, <2>4 DEF ChannelsInv
<1>7. CASE AlertChannels!Exists(id)
    <2> DEFINE new == CHOOSE x \in patch.config : TRUE
    <2>1. /\ rows' = [rows EXCEPT ![id] = patch.row]
          /\ \/ /\ patch.config = {} /\ UNCHANGED given
                /\ undone' = IF c \in passed THEN undone \cup {id} ELSE undone
             \/ /\ patch.config # {} /\ given' = [given EXCEPT ![id] = new]
                /\ undone' = undone \ {id}
                /\ passed' = (passed \cup AlertChannels!Begun(id)) \ {c}
        BY <1>7 DEF AlertChannels!PatchWrite
    <2>2. patch.config # {} => new = patch.row.sealed.config /\ new \in ChannelConfigs
        BY <1>2, <1>3 DEF PatchIsSound
    <2> HIDE DEF new
    <2>3. ChannelsTypes'
        BY <1>1, <1>2, <2>1, <2>2 DEF ChannelsInv, ChannelsTypes
    <2>4. \A x \in Channels : rows'[x] = IF x = id THEN patch.row ELSE rows[x]
        BY <1>2, <2>1 DEF ChannelsInv, ChannelsTypes
    <2>5. \A x \in Channels : x # id => given'[x] = given[x] /\ (x \in undone' <=> x \in undone)
        BY <1>2, <2>1 DEF ChannelsInv, ChannelsTypes
    <2>6. id \notin undone' => patch.row.sealed.config = given'[id]
        <3>1. CASE patch.config = {}
            BY <1>3, <2>1, <3>1 DEF PatchIsSound
        <3>2. CASE patch.config # {}
            BY <1>2, <2>1, <2>2, <3>2 DEF ChannelsInv, ChannelsTypes
        <3>3. QED
            BY <3>1, <3>2
    <2>7. ConfigsParse'
        BY <1>3, <2>4 DEF ChannelsInv, ConfigsParse, PatchIsSound, AlertChannels!Exists, AlertChannels!Parses
    <2>8. AlertChannels!LastConfigStands'
        BY <2>4, <2>5, <2>6 DEF ChannelsInv, AlertChannels!LastConfigStands, AlertChannels!Exists
    <2>9. PatchesAreSound'
        <3> SUFFICES ASSUME NEW d \in Requesters, channels_op'[d].at = "write" PROVE PatchIsSound(d)'
            BY DEF PatchesAreSound
        <3>1. d # c /\ channels_op'[d] = channels_op[d] /\ channels_op[d].at = "write"
            BY <1>4
        <3>2. channels_op[d].id \in Channels /\ PatchIsSound(d)
            BY <3>1, BegunPatch
        <3>3. rows'[channels_op[d].id] # Uncreated
            BY <1>2, <2>4, <3>2, ChannelsAreSound DEF PatchIsSound, AlertChannels!MethodsAssumption
        <3>4. /\ d \notin passed' => d \notin passed
              /\ d \notin passed' /\ channels_op[d].id = id => patch.config = {}
            BY <1>5, <2>1, <3>1 DEF AlertChannels!Begun
        <3>5. ASSUME channels_op[d].config = {}, d \notin passed'
              PROVE  channels_op[d].id \in undone' \/ channels_op[d].row.sealed.config = given'[channels_op[d].id]
            <4>1. channels_op[d].id \in undone \/ channels_op[d].row.sealed.config = given[channels_op[d].id]
                BY <3>2, <3>4, <3>5 DEF PatchIsSound
            <4>2. CASE channels_op[d].id = id
                BY <2>1, <3>4, <3>5, <4>1, <4>2
            <4>3. CASE channels_op[d].id # id
                BY <2>5, <3>2, <4>1, <4>3
            <4>4. QED
                BY <4>2, <4>3
        <3>6. QED
            BY <3>1, <3>2, <3>3, <3>5 DEF PatchIsSound, AlertChannels!Parses
    <2>10. QED
        BY <2>3, <2>7, <2>8, <2>9 DEF ChannelsInv
<1>8. QED
    BY <1>6, <1>7

LEMMA DeleteSteps == ChannelsInv /\ AlertChannels!Delete => ChannelsInv'
<1> SUFFICES ASSUME ChannelsInv, AlertChannels!Delete PROVE ChannelsInv'
    OBVIOUS
<1>1. PICK id \in Channels :
          \/ AlertChannels!Exists(id) /\ rows' = [rows EXCEPT ![id] = Deleted]
          \/ rows[id] = Deleted /\ UNCHANGED rows
    BY DEF AlertChannels!Delete
<1>2. UNCHANGED <<key, channels_op, given, passed, undone>>
    BY DEF AlertChannels!Delete, AlertChannels!history
<1>3. \A x \in Channels : rows'[x] = rows[x] \/ rows'[x] = Deleted
    BY <1>1 DEF ChannelsInv, ChannelsTypes
<1>4. ChannelsTypes'
    BY <1>1, <1>2 DEF ChannelsInv, ChannelsTypes
<1>5. (ConfigsParse /\ AlertChannels!LastConfigStands)'
    BY <1>2, <1>3 DEF ChannelsInv, ConfigsParse, AlertChannels!LastConfigStands, AlertChannels!Exists,
                AlertChannels!Parses
<1>6. PatchesAreSound'
    <2> SUFFICES ASSUME NEW d \in Requesters, channels_op[d].at = "write" PROVE PatchIsSound(d)'
        BY <1>2 DEF PatchesAreSound
    <2>1. channels_op[d].id \in Channels /\ PatchIsSound(d)
        BY BegunPatch
    <2>2. rows'[channels_op[d].id] # Uncreated
        BY <1>3, <2>1, ChannelsAreSound DEF PatchIsSound, AlertChannels!MethodsAssumption
    <2>3. QED
        BY <1>2, <2>1, <2>2 DEF PatchIsSound, AlertChannels!Parses
<1>7. QED
    BY <1>4, <1>5, <1>6 DEF ChannelsInv

LEMMA RestartSteps == ChannelsInv /\ AlertChannels!Restart => ChannelsInv'
<1> SUFFICES ASSUME ChannelsInv, AlertChannels!Restart PROVE ChannelsInv'
    OBVIOUS
<1>1. /\ key' \in SecretKeys /\ channels_op' = [c \in Requesters |-> AlertChannels!None]
      /\ UNCHANGED <<rows, given, undone>>
    BY DEF AlertChannels!Restart
<1>2. ChannelsTypes'
    BY <1>1 DEF ChannelsInv, ChannelsTypes
<1>3. (ConfigsParse /\ AlertChannels!LastConfigStands)'
    BY <1>1 DEF ChannelsInv, ConfigsParse, AlertChannels!LastConfigStands, AlertChannels!Exists,
                AlertChannels!Parses
<1>4. PatchesAreSound'
    BY <1>1 DEF PatchesAreSound, AlertChannels!None
<1>5. QED
    BY <1>2, <1>3, <1>4 DEF ChannelsInv

LEMMA ChannelsStep == ChannelsInv /\ [RecordsNext]_suiteVars => ChannelsInv'
<1> SUFFICES ASSUME ChannelsInv, [RecordsNext]_suiteVars PROVE ChannelsInv'
    OBVIOUS
<1>1. CASE UNCHANGED channelsVars
    BY <1>1, AnswerMoves DEF channelsVars, ChannelsInv, ChannelsTypes
<1>2. CASE AlertChannels!List \/ AlertChannels!Test \/ \E id \in Channels : AlertChannels!Fire(id)
    <2>1. UNCHANGED <<rows, key, channels_op, given, passed, undone>>
        BY <1>2 DEF AlertChannels!List, AlertChannels!Test, AlertChannels!Fire, AlertChannels!history
    <2>2. QED
        BY <2>1, AnswerMoves DEF ChannelsInv, ChannelsTypes
<1>3. CASE AlertChannels!Next
    BY <1>2, <1>3, CreateSteps, PatchReadSteps, PatchWriteSteps, DeleteSteps, RestartSteps
    DEF AlertChannels!Next
<1>4. QED
    BY <1>1, <1>3 DEF RecordsNext, suiteVars

\* A delivery method (alert_methods.rs, secrets.rs) keeps the config it was given last, secrets and
\* all, through renames, switches and changes of the key, unless a PATCH that had read the row
\* before that config writes back what it read; and what was accepted can be sent.
THEOREM SecretsAreKept == RecordsSpec => []SecretsSurviveEdits
<1>1. ChannelsInv => SecretsSurviveEdits
    BY DEF ChannelsInv, SecretsSurviveEdits, ConfigsParse, AlertChannels!AcceptedCanBeSent
<1>2. QED
    BY <1>1, ChannelsInitially, ChannelsStep, PTL DEF RecordsSpec

-----------------------------------------------------------------------------
(* Alert rules, methods and zones.                                           *)

Pairs == RuleIds \X MethodIds

RuleCalls ==
    [stage : {"idle", "create", "update", "wipe", "wiping", "link", "unzone", "disabled"},
     rule : RuleIds, row : Registry!RuleRows \cup {Registry!NoRule}, ids : (SUBSET MethodIds) \cup {Registry!Unchanged},
     left : SUBSET MethodIds, sees : SUBSET Pairs, wiped : SUBSET Pairs, added : SUBSET Pairs, zone : ZoneIds \cup {Zoneless}, hits : SUBSET RuleIds]

RegistryTypes ==
    /\ RuleIds # {} /\ zones \subseteq ZoneIds /\ methods \subseteq MethodIds
    /\ rules \in [RuleIds -> Registry!RuleRows \cup {Registry!NoRule, Registry!Gone}]
    /\ links \subseteq Pairs
    /\ rules_op \in [Requesters -> RuleCalls]
    /\ asked \in [RuleIds -> SUBSET MethodIds]
    /\ mixed \subseteq RuleIds /\ rewritten \subseteq RuleIds

\* Strengthening, of a request k: the row it carries is valid, its rule was there, its
\* transaction has removed and added links of this rule only, all that it was asked for and
\* has done is in what it added; and a deletion of a zone has hit the rules that watch it,
\* those written since apart.
RuleRequestOK(k) ==
    /\ k.stage \in {"create", "update"} => k.row \in Registry!RuleRows /\ Registry!ValidTrigger(k.row)
    /\ k.stage \in {"update", "wipe", "wiping", "link"} => rules[k.rule] # Registry!NoRule
    /\ k.stage \in {"create", "wipe", "wiping", "link"} => k.ids \in SUBSET MethodIds
    /\ k.stage = "wiping" => k.sees \subseteq {k.rule} \X MethodIds
    /\ k.stage # "link" => k.wiped = {} /\ k.added = {}
    /\ k.stage = "link" => /\ k.wiped \subseteq {k.rule} \X MethodIds
                           /\ k.left \subseteq k.ids /\ k.ids \ k.left \subseteq methods
                           /\ k.added = {k.rule} \X (k.ids \ k.left)
                           /\ k.added # {} => Registry!Exists(k.rule)
    /\ k.stage # "disabled" => k.hits = {}
    /\ k.stage \in {"unzone", "disabled"} => k.zone \in ZoneIds
    /\ k.stage = "disabled" => /\ \A r \in k.hits : Registry!Exists(r)
                               /\ \A r \in RuleIds :
                                      Registry!Exists(r) /\ rules[r].enabled /\ rules[r].zone = k.zone
                                          => r \in k.hits \cup rewritten

\* Strengthening: links are of rules that are there; a rule that is not has none to come.
LinksHaveRules ==
    \A r \in RuleIds : /\ ~Registry!Exists(r) => Registry!Linked(r) = {}
                       /\ rules[r] = Registry!NoRule => asked[r] = {}

\* Strengthening: but for the mixed ones, one request at a time replaces the links of a
\* rule, and it has found all that there are.
ReplacedAlone ==
    /\ \A r \in RuleIds \ mixed, c, d \in Requesters :
           Registry!Replacing(c, r) /\ Registry!Replacing(d, r) => c = d
    /\ \A c \in Requesters : rules_op[c].rule \notin mixed =>
           /\ rules_op[c].stage = "wiping" => Registry!Linked(rules_op[c].rule) \subseteq rules_op[c].sees
           /\ rules_op[c].stage = "link" => Registry!Linked(rules_op[c].rule) \subseteq rules_op[c].wiped

RegistryInv ==
    /\ RegistryTypes /\ LinksHaveRules /\ ReplacedAlone
    /\ \A c \in Requesters : RuleRequestOK(rules_op[c])
    /\ Registry!RuleRowsAreValid /\ Registry!LinksAreAsked /\ Registry!DeletionDisables

\* The two that are no rules are none.
LEMMA NoRuleIsNone ==
    /\ Registry!NoRule \notin Registry!RuleRows /\ Registry!Gone \notin Registry!RuleRows
    /\ Registry!NoRule # Registry!Gone
<1>1. Registry!NoRule.on = "none" /\ Registry!Gone.on = "deleted"
    BY DEF Registry!NoRule, Registry!Gone
<1>2. \A r \in Registry!RuleRows : r.on \in {"enters_zone", "host_enters_zone", "detected"}
    BY DEF Registry!RuleRows, Registry!ZoneTriggers
<1>3. QED
    BY <1>1, <1>2

LEMMA StoredRule ==
    ASSUME RegistryTypes, NEW r \in RuleIds
    PROVE  Registry!Exists(r) <=> rules[r] \in Registry!RuleRows
BY NoRuleIsNone DEF RegistryTypes, Registry!Exists

LEMMA IdleRequest ==
    ASSUME RegistryTypes
    PROVE  Registry!Idle \in RuleCalls /\ RuleRequestOK(Registry!Idle) /\ Registry!Idle.stage = "idle"
<1>1. (CHOOSE r \in RuleIds : TRUE) \in RuleIds
    BY DEF RegistryTypes
<1>2. Registry!Idle \in RuleCalls
    <2> DEFINE r == CHOOSE x \in RuleIds : TRUE
    <2> HIDE DEF r
    <2>1. r \in RuleIds
        BY <1>1 DEF r
    <2>2. Registry!Idle = [stage |-> "idle", rule |-> r, row |-> Registry!NoRule, ids |-> {},
                           left |-> {}, sees |-> {}, wiped |-> {}, added |-> {}, zone |-> Zoneless,
                           hits |-> {}]
        BY DEF Registry!Idle, r
    <2>3. QED
        BY <2>1, <2>2 DEF RuleCalls
<1>3. QED
    BY <1>2 DEF RuleRequestOK, Registry!Idle

\* A request moves that replaces no links, and no table does.
LEMMA RequestMoves ==
    ASSUME RegistryInv, NEW c \in Requesters, NEW k \in RuleCalls, RuleRequestOK(k),
           k.stage \notin {"wiping", "link"}, rules_op' = [rules_op EXCEPT ![c] = k],
           UNCHANGED <<zones, methods, rules, links, asked, mixed, rewritten>>
    PROVE  RegistryInv'
<1>1. RegistryTypes'
    BY DEF RegistryInv, RegistryTypes
<1>2. \A d \in Requesters : rules_op'[d] = IF d = c THEN k ELSE rules_op[d]
    BY DEF RegistryInv, RegistryTypes
<1>3. (\A d \in Requesters : RuleRequestOK(rules_op[d]))'
    <2>1. \A x : RuleRequestOK(x) => RuleRequestOK(x)'
        BY DEF RuleRequestOK, Registry!Exists, Registry!ValidTrigger
    <2>2. QED
        BY <1>2, <2>1 DEF RegistryInv
<1>4. ReplacedAlone'
    BY <1>2 DEF RegistryInv, ReplacedAlone, Registry!Replacing, Registry!Linked
<1>5. QED
    BY <1>1, <1>3, <1>4
    DEF RegistryInv, LinksHaveRules, Registry!Exists, Registry!Linked, Registry!RuleRowsAreValid,
        Registry!ValidTrigger, Registry!LinksAreAsked, Registry!DeletionDisables

LEMMA CreateRuleSteps ==
    ASSUME RegistryInv, NEW c \in Requesters, NEW r \in RulesAsked, NEW ids \in SUBSET MethodIds,
           Registry!CreateRule(c, r, ids)
    PROVE  RegistryInv'
<1> DEFINE k == [Registry!Idle EXCEPT !.stage = "create", !.row = r, !.ids = ids, !.left = ids]
<1>1. Registry!Idle \in RuleCalls /\ RuleRequestOK(Registry!Idle) /\ Registry!Idle.stage = "idle"
    BY IdleRequest DEF RegistryInv
<1>2. r \in Registry!RuleRows
    BY RegistryIsSound DEF Registry!RegistryAssumption
<1>3. k \in RuleCalls
    BY <1>1, <1>2 DEF RuleCalls
<1>4. /\ k.stage = "create" /\ k.row = r /\ k.ids = ids /\ k.wiped = Registry!Idle.wiped
      /\ k.added = Registry!Idle.added /\ k.hits = Registry!Idle.hits
    BY <1>1 DEF RuleCalls
<1>5. RuleRequestOK(k)
    BY <1>1, <1>2, <1>4 DEF RuleRequestOK, Registry!CreateRule
<1>6. /\ rules_op' = [rules_op EXCEPT ![c] = k]
      /\ UNCHANGED <<zones, methods, rules, links, asked, mixed, rewritten>>
    BY DEF Registry!CreateRule, Registry!Begin
<1> HIDE DEF k
<1>7. QED
    BY <1>3, <1>4, <1>5, <1>6, RequestMoves

LEMMA UpdateRuleSteps ==
    ASSUME RegistryInv, NEW c \in Requesters, NEW r \in RuleIds, NEW p \in RulePatches,
           NEW ids \in (SUBSET MethodIds) \cup {Registry!Unchanged}, Registry!UpdateRule(c, r, p, ids)
    PROVE  RegistryInv'
<1> DEFINE merged == p @@ rules[r]
           left == IF ids = Registry!Unchanged THEN {} ELSE ids
           k == [Registry!Idle EXCEPT !.stage = "update", !.rule = r, !.row = merged, !.ids = ids,
                                      !.left = left]
<1>1. Registry!Idle \in RuleCalls /\ RuleRequestOK(Registry!Idle) /\ Registry!Idle.stage = "idle"
    BY IdleRequest DEF RegistryInv
<1>2. Registry!Exists(r) /\ Registry!ValidTrigger(merged)
    BY DEF Registry!UpdateRule
<1>3. rules[r] \in Registry!RuleRows
    BY <1>2, StoredRule DEF RegistryInv
<1>4. merged \in Registry!RuleRows
    BY <1>3, RegistryIsSound DEF Registry!RegistryAssumption
<1>5. /\ rules_op' = [rules_op EXCEPT ![c] = k]
      /\ UNCHANGED <<zones, methods, rules, links, asked, mixed, rewritten>>
    BY DEF Registry!UpdateRule, Registry!Begin
<1>6. left \in SUBSET MethodIds
    OBVIOUS
<1> HIDE DEF merged, left
<1>7. k \in RuleCalls
    BY <1>1, <1>4, <1>6 DEF RuleCalls
<1>8. /\ k.stage = "update" /\ k.row = merged /\ k.rule = r /\ k.wiped = Registry!Idle.wiped
      /\ k.added = Registry!Idle.added /\ k.hits = Registry!Idle.hits
    BY <1>1 DEF RuleCalls
<1>9. rules[r] # Registry!NoRule
    BY <1>2 DEF Registry!Exists
<1>10. RuleRequestOK(k)
    BY <1>1, <1>2, <1>4, <1>8, <1>9 DEF RuleRequestOK
<1> HIDE DEF k
<1>11. QED
    BY <1>5, <1>7, <1>8, <1>10, RequestMoves

\* A request ends without having changed a table.
LEMMA RequestEnds ==
    ASSUME RegistryInv, NEW c \in Requesters, rules_op' = [rules_op EXCEPT ![c] = Registry!Idle],
           UNCHANGED <<zones, methods, rules, links, asked, mixed, rewritten>>
    PROVE  RegistryInv'
BY IdleRequest, RequestMoves DEF RegistryInv

LEMMA CheckMethodSteps ==
    ASSUME RegistryInv, NEW c \in Requesters, NEW m \in MethodIds, Registry!CheckMethod(c, m)
    PROVE  RegistryInv'
<1> DEFINE k == [rules_op[c] EXCEPT !.left = rules_op[c].left \ {m}]
<1>1. /\ rules_op' = IF m \in methods THEN [rules_op EXCEPT ![c] = k] ELSE [rules_op EXCEPT ![c] = Registry!Idle]
      /\ UNCHANGED <<zones, methods, rules, links, asked, mixed, rewritten>>
    BY DEF Registry!CheckMethod
<1>2. rules_op[c] \in RuleCalls /\ RuleRequestOK(rules_op[c]) /\ rules_op[c].stage \in {"create", "update"}
    BY DEF Registry!CheckMethod, RegistryInv, RegistryTypes
<1>3. CASE m \in methods
    <2>1. rules_op' = [rules_op EXCEPT ![c] = k]
        BY <1>1, <1>3
    <2>2. k \in RuleCalls
        BY <1>2 DEF RuleCalls
    <2>3. /\ k.stage = rules_op[c].stage /\ k.row = rules_op[c].row /\ k.rule = rules_op[c].rule
          /\ k.ids = rules_op[c].ids /\ k.wiped = rules_op[c].wiped /\ k.added = rules_op[c].added
          /\ k.hits = rules_op[c].hits
        BY <1>2 DEF RuleCalls
    <2> HIDE DEF k
    <2>4. RuleRequestOK(k)
        BY <1>2, <2>3 DEF RuleRequestOK
    <2>5. QED
        BY <1>1, <1>2, <2>1, <2>2, <2>3, <2>4, RequestMoves
<1>4. CASE m \notin methods
    BY <1>1, <1>4, RequestEnds
<1>5. QED
    BY <1>3, <1>4

LEMMA DeleteZoneSteps ==
    ASSUME RegistryInv, NEW c \in Requesters, NEW z \in ZoneIds, Registry!DeleteZone(c, z)
    PROVE  RegistryInv'
<1> DEFINE k == [Registry!Idle EXCEPT !.stage = "unzone", !.zone = z]
<1>1. Registry!Idle \in RuleCalls /\ RuleRequestOK(Registry!Idle) /\ Registry!Idle.stage = "idle"
    BY IdleRequest DEF RegistryInv
<1>2. /\ rules_op' = [rules_op EXCEPT ![c] = k]
      /\ UNCHANGED <<zones, methods, rules, links, asked, mixed, rewritten>>
    BY DEF Registry!DeleteZone, Registry!Begin
<1>3. k \in RuleCalls
    BY <1>1 DEF RuleCalls
<1>4. /\ k.stage = "unzone" /\ k.zone = z /\ k.wiped = Registry!Idle.wiped
      /\ k.added = Registry!Idle.added /\ k.hits = Registry!Idle.hits
    BY <1>1 DEF RuleCalls
<1> HIDE DEF k
<1>5. RuleRequestOK(k)
    BY <1>1, <1>4 DEF RuleRequestOK
<1>6. QED
    BY <1>2, <1>3, <1>4, <1>5, RequestMoves

LEMMA DisableRulesSteps ==
    ASSUME RegistryInv, NEW c \in Requesters, Registry!DisableRules(c)
    PROVE  RegistryInv'
<1> DEFINE found == {r \in RuleIds : Registry!Exists(r) /\ rules[r].zone = rules_op[c].zone}
           k == [rules_op[c] EXCEPT !.stage = "disabled", !.hits = found]
<1>1. UNCHANGED <<zones, methods, rules, links, asked, mixed, rewritten>>
    BY DEF Registry!DisableRules
<1>2. rules_op[c] \in RuleCalls /\ RuleRequestOK(rules_op[c]) /\ rules_op[c].stage = "unzone"
    BY DEF Registry!DisableRules, RegistryInv, RegistryTypes
<1>3. CASE rules_op' = [rules_op EXCEPT ![c] = k]
    <2> HIDE DEF found
    <2>1. found \subseteq RuleIds
        BY DEF found
    <2>2. k \in RuleCalls
        BY <1>2, <2>1 DEF RuleCalls
    <2>3. /\ k.stage = "disabled" /\ k.zone = rules_op[c].zone /\ k.wiped = rules_op[c].wiped
          /\ k.added = rules_op[c].added /\ k.hits = found
        BY <1>2 DEF RuleCalls
    <2> HIDE DEF k
    <2>4. RuleRequestOK(k)
        BY <1>2, <2>3 DEF RuleRequestOK, found
    <2>5. QED
        BY <1>1, <1>3, <2>2, <2>3, <2>4, RequestMoves
<1>4. CASE rules_op' = [rules_op EXCEPT ![c] = Registry!Idle]
    BY <1>1, <1>4, RequestEnds
<1>5. QED
    BY <1>3, <1>4 DEF Registry!DisableRules

\* What another request knows of the tables outlasts an insertion or an update of a rule
\* that it has not hit: if the rule is new or is there, and counts as rewritten where it is late.
LEMMA RequestsOutlast ==
    ASSUME RegistryInv, NEW k \in RuleCalls, RuleRequestOK(k),
           NEW r \in RuleIds, NEW new \in Registry!RuleRows,
           rules' = [rules EXCEPT ![r] = new], UNCHANGED methods, r \notin k.hits,
           k.stage = "disabled" /\ k.zone = new.zone => r \in rewritten',
           rewritten \subseteq rewritten'
    PROVE  RuleRequestOK(k)'
<1>1. /\ rules'[r] = new /\ \A x \in RuleIds : x # r => rules'[x] = rules[x]
      /\ \A x \in RuleIds : Registry!Exists(x) => Registry!Exists(x)'
      /\ \A x \in RuleIds : rules[x] # Registry!NoRule => rules'[x] # Registry!NoRule
    BY NoRuleIsNone DEF RegistryInv, RegistryTypes, Registry!Exists
<1>2. k.rule \in RuleIds /\ k.hits \subseteq RuleIds
    BY DEF RuleCalls
<1>3. k.stage = "disabled" =>
          \A x \in RuleIds : Registry!Exists(x)' /\ rules'[x].enabled /\ rules'[x].zone = k.zone
                                 => x \in k.hits \cup rewritten'
    <2> SUFFICES ASSUME k.stage = "disabled", NEW x \in RuleIds, Registry!Exists(x)', rules'[x].enabled,
                        rules'[x].zone = k.zone
                 PROVE  x \in k.hits \cup rewritten'
        OBVIOUS
    <2>1. CASE x = r
        BY <1>1, <2>1
    <2>2. CASE x # r
        BY <1>1, <2>2 DEF RuleRequestOK, Registry!Exists
    <2>3. QED
        BY <2>1, <2>2
<1>4. QED
    BY <1>1, <1>2, <1>3 DEF RuleRequestOK, Registry!ValidTrigger

\* A valid rule is written, by c, which goes on to replace its links or is done.
LEMMA RuleIsWritten ==
    ASSUME RegistryInv, NEW c \in Requesters, NEW k \in RuleCalls, RuleRequestOK(k)',
           NEW r \in RuleIds, NEW new \in Registry!RuleRows, Registry!ValidTrigger(new),
           k.stage \in {"idle", "wipe"},
           rules_op' = [rules_op EXCEPT ![c] = k], rules' = [rules EXCEPT ![r] = new],
           rules[r] # Registry!Gone, ~Registry!LockedRule(c, r), rules_op[c].stage # "disabled",
           rewritten' = (IF Registry!Late(new) THEN rewritten \cup {r} ELSE rewritten),
           UNCHANGED <<zones, methods, links, asked, mixed>>
    PROVE  RegistryInv'
<1>1. RegistryTypes'
    BY DEF RegistryInv, RegistryTypes
<1>2. \A d \in Requesters : rules_op'[d] = IF d = c THEN k ELSE rules_op[d]
    BY DEF RegistryInv, RegistryTypes
<1>3. /\ rules'[r] = new /\ \A x \in RuleIds : x # r => rules'[x] = rules[x]
      /\ \A x \in RuleIds : x # r => (Registry!Exists(x)' <=> Registry!Exists(x))
      /\ Registry!Exists(r)'
    BY NoRuleIsNone DEF RegistryInv, RegistryTypes, Registry!Exists
<1>4. \A d \in Requesters : RuleRequestOK(rules_op[d])'
    <2> SUFFICES ASSUME NEW d \in Requesters, d # c PROVE RuleRequestOK(rules_op[d])'
        BY <1>2
    <2>1. PICK x \in RuleCalls : x = rules_op[d] /\ x = rules_op'[d]
        BY <1>2 DEF RegistryInv, RegistryTypes
    <2>2. RuleRequestOK(x) /\ r \notin x.hits
        BY <2>1 DEF RegistryInv, Registry!LockedRule, Registry!Others
    <2>3. x.stage = "disabled" /\ x.zone = new.zone => r \in rewritten'
        <3> SUFFICES ASSUME x.stage = "disabled", x.zone = new.zone PROVE r \in rewritten'
            OBVIOUS
        <3>1. new.zone \in ZoneIds
            BY <2>2 DEF RuleRequestOK
        <3>2. QED
            BY <2>1, <3>1 DEF Registry!Late
    <2>4. RuleRequestOK(x)'
        BY <2>2, <2>3, RequestsOutlast
    <2>5. QED
        BY <2>1, <2>4
<1>5. LinksHaveRules'
    BY <1>3 DEF RegistryInv, LinksHaveRules, Registry!Linked, Registry!Exists
<1>6. ReplacedAlone'
    BY <1>2 DEF RegistryInv, ReplacedAlone, Registry!Replacing, Registry!Linked
<1>7. Registry!RuleRowsAreValid'
    BY <1>3 DEF RegistryInv, Registry!RuleRowsAreValid, Registry!ValidTrigger
<1>8. Registry!LinksAreAsked'
    <2> SUFFICES ASSUME NEW x \in RuleIds, Registry!Exists(x)', x \notin mixed
                 PROVE  Registry!Linked(x) = {x} \X (asked[x] \cap methods)
        BY DEF Registry!LinksAreAsked, Registry!Linked
    <2>1. CASE Registry!Exists(x)
        BY <2>1 DEF RegistryInv, Registry!LinksAreAsked
    <2>2. CASE ~Registry!Exists(x)
        <3>1. x = r /\ rules[x] = Registry!NoRule
            BY <1>3, <2>2 DEF Registry!Exists
        <3>2. Registry!Linked(x) = {} /\ asked[x] = {}
            BY <2>2, <3>1 DEF RegistryInv, LinksHaveRules
        <3>3. QED
            BY <3>2
    <2>3. QED
        BY <2>1, <2>2
<1>9. Registry!DeletionDisables'
    BY <1>3 DEF RegistryInv, Registry!DeletionDisables, Registry!Late
<1>10. QED
    BY <1>1, <1>4, <1>5, <1>6, <1>7, <1>8, <1>9 DEF RegistryInv

LEMMA InsertRuleSteps ==
    ASSUME RegistryInv, NEW c \in Requesters, NEW r \in RuleIds, Registry!InsertRule(c, r)
    PROVE  RegistryInv'
<1> DEFINE k == [rules_op[c] EXCEPT !.stage = "wipe", !.rule = r]
<1>1. rules_op[c] \in RuleCalls /\ RuleRequestOK(rules_op[c]) /\ rules_op[c].stage = "create"
    BY DEF Registry!InsertRule, RegistryInv, RegistryTypes
<1>2. /\ rules_op' = [rules_op EXCEPT ![c] = k]
      /\ rules[r] = Registry!NoRule /\ rules' = [rules EXCEPT ![r] = rules_op[c].row]
      /\ rewritten' = IF Registry!Late(rules_op[c].row) THEN rewritten \cup {r} ELSE rewritten
      /\ UNCHANGED <<zones, methods, links, asked, mixed>>
    BY DEF Registry!InsertRule
<1>3. k \in RuleCalls
    BY <1>1 DEF RuleCalls
<1>4. /\ k.stage = "wipe" /\ k.rule = r /\ k.ids = rules_op[c].ids /\ k.wiped = rules_op[c].wiped
      /\ k.added = rules_op[c].added /\ k.hits = rules_op[c].hits
    BY <1>1 DEF RuleCalls
<1> HIDE DEF k
<1>5. rules_op[c].row \in Registry!RuleRows /\ Registry!ValidTrigger(rules_op[c].row)
    BY <1>1 DEF RuleRequestOK
<1>6. rules'[r] = rules_op[c].row /\ rules'[r] # Registry!NoRule
    BY <1>2, <1>5, NoRuleIsNone DEF RegistryInv, RegistryTypes
<1>7. \A x : x = k => RuleRequestOK(x)'
    BY <1>1, <1>4, <1>6 DEF RuleRequestOK
<1>8. ~Registry!LockedRule(c, r)
    BY <1>2 DEF Registry!LockedRule, Registry!Others, RegistryInv, RuleRequestOK, Registry!Exists
<1>9. PICK x \in RuleCalls, new \in Registry!RuleRows : x = k /\ new = rules_op[c].row
    BY <1>3, <1>5
<1>10. rules[r] # Registry!Gone
    BY <1>2, NoRuleIsNone
<1>11. QED
    BY <1>1, <1>2, <1>4, <1>5, <1>7, <1>8, <1>9, <1>10, RuleIsWritten


LEMMA WriteRuleSteps ==
    ASSUME RegistryInv, NEW c \in Requesters, Registry!WriteRule(c)
    PROVE  RegistryInv'
<1> DEFINE r == rules_op[c].rule
           k == Registry!AfterUpdate(rules_op[c])
<1>1. rules_op[c] \in RuleCalls /\ RuleRequestOK(rules_op[c]) /\ rules_op[c].stage = "update"
    BY DEF Registry!WriteRule, RegistryInv, RegistryTypes
<1>2. /\ rules_op' = [rules_op EXCEPT ![c] = IF Registry!Exists(r) THEN k ELSE Registry!Idle]
      /\ rules' = IF Registry!Exists(r) THEN [rules EXCEPT ![r] = rules_op[c].row] ELSE rules
      /\ rewritten' = IF Registry!Exists(r) /\ Registry!Late(rules_op[c].row) THEN rewritten \cup {r}
                      ELSE rewritten
      /\ ~Registry!LockedRule(c, r)
      /\ UNCHANGED <<zones, methods, links, asked, mixed>>
    BY DEF Registry!WriteRule
<1>3. CASE ~Registry!Exists(r)
    BY <1>2, <1>3, RequestEnds
<1>4. CASE Registry!Exists(r)
    <2>1. rules_op[c].row \in Registry!RuleRows /\ Registry!ValidTrigger(rules_op[c].row) /\ r \in RuleIds
        BY <1>1 DEF RuleRequestOK, RuleCalls
    <2>2. rules'[r] = rules_op[c].row /\ rules'[r] # Registry!NoRule
        BY <1>2, <1>4, <2>1, NoRuleIsNone DEF RegistryInv, RegistryTypes
    <2>3. k \in RuleCalls /\ k.stage \in {"idle", "wipe"} /\ \A x : x = k => RuleRequestOK(x)'
        <3>1. CASE rules_op[c].ids = Registry!Unchanged
            <4>1. k = Registry!Idle
                BY <3>1 DEF Registry!AfterUpdate
            <4>2. QED
                BY <4>1, IdleRequest DEF RegistryInv, RuleRequestOK
        <3>2. CASE rules_op[c].ids # Registry!Unchanged
            <4> DEFINE w == [rules_op[c] EXCEPT !.stage = "wipe"]
            <4>1. k = w
                BY <3>2 DEF Registry!AfterUpdate
            <4>2. /\ w \in RuleCalls
                  /\ w.stage = "wipe" /\ w.rule = r /\ w.ids = rules_op[c].ids /\ w.wiped = rules_op[c].wiped
                  /\ w.added = rules_op[c].added /\ w.hits = rules_op[c].hits
                BY <1>1 DEF RuleCalls
            <4>3. w.ids \in SUBSET MethodIds
                BY <1>1, <3>2, <4>2 DEF RuleCalls
            <4> HIDE DEF w
            <4>4. \A x : x = w => RuleRequestOK(x)'
                BY <1>1, <2>2, <4>2, <4>3 DEF RuleRequestOK
            <4>5. QED
                BY <4>1, <4>2, <4>4
        <3>3. QED
            BY <3>1, <3>2
    <2> HIDE DEF k, r
    <2>4. /\ rules_op' = [rules_op EXCEPT ![c] = k] /\ rules' = [rules EXCEPT ![r] = rules_op[c].row]
          /\ rewritten' = IF Registry!Late(rules_op[c].row) THEN rewritten \cup {r} ELSE rewritten
        BY <1>2, <1>4
    <2>5. PICK x \in RuleCalls, new \in Registry!RuleRows, y \in RuleIds :
              x = k /\ new = rules_op[c].row /\ y = r
        BY <2>1, <2>3
    <2>6. rules[r] # Registry!Gone
        BY <1>4 DEF Registry!Exists
    <2>7. QED
        BY <1>1, <1>2, <2>1, <2>3, <2>4, <2>5, <2>6, RuleIsWritten
<1>5. QED
    BY <1>3, <1>4

\* A request that replaces the links of a rule goes on; no table changes yet.
LEMMA ReplacementMoves ==
    ASSUME RegistryInv, NEW c \in Requesters, NEW k \in RuleCalls, RuleRequestOK(k),
           rules_op' = [rules_op EXCEPT ![c] = k],
           UNCHANGED <<zones, methods, rules, links, asked, rewritten>>,
           mixed \subseteq mixed', mixed' \subseteq RuleIds, ReplacedAlone'
    PROVE  RegistryInv'
<1>1. RegistryTypes'
    BY DEF RegistryInv, RegistryTypes
<1>2. \A d \in Requesters : rules_op'[d] = IF d = c THEN k ELSE rules_op[d]
    BY DEF RegistryInv, RegistryTypes
<1>3. (\A d \in Requesters : RuleRequestOK(rules_op[d]))'
    <2>1. \A x : RuleRequestOK(x) => RuleRequestOK(x)'
        BY DEF RuleRequestOK, Registry!Exists, Registry!ValidTrigger
    <2>2. QED
        BY <1>2, <2>1 DEF RegistryInv
<1>4. QED
    BY <1>1, <1>3
    DEF RegistryInv, LinksHaveRules, Registry!Exists, Registry!Linked, Registry!RuleRowsAreValid,
        Registry!ValidTrigger, Registry!LinksAreAsked, Registry!DeletionDisables

LEMMA LinkedPairs ==
    ASSUME RegistryTypes, NEW r \in RuleIds
    PROVE  Registry!Linked(r) \subseteq Pairs /\ Registry!Linked(r) \subseteq {r} \X MethodIds
BY DEF RegistryTypes, Pairs, Registry!Linked

LEMMA WipeSteps ==
    ASSUME RegistryInv, NEW c \in Requesters, Registry!Wipe(c)
    PROVE  RegistryInv'
<1> DEFINE r == rules_op[c].rule
           k == [rules_op[c] EXCEPT !.stage = "wiping", !.sees = Registry!Linked(r)]
<1>1. rules_op[c] \in RuleCalls /\ RuleRequestOK(rules_op[c]) /\ rules_op[c].stage = "wipe" /\ r \in RuleIds
    BY DEF Registry!Wipe, RegistryInv, RegistryTypes, RuleCalls
<1>2. /\ rules_op' = [rules_op EXCEPT ![c] = k]
      /\ mixed' = IF \E d \in Registry!Others(c) : Registry!Replacing(d, r) THEN mixed \cup {r} ELSE mixed
      /\ UNCHANGED <<zones, methods, rules, links, asked, rewritten>>
    BY DEF Registry!Wipe
<1>3. Registry!Linked(r) \subseteq Pairs /\ Registry!Linked(r) \subseteq {r} \X MethodIds
    BY <1>1, LinkedPairs DEF RegistryInv
<1>4. k \in RuleCalls
    BY <1>1, <1>3 DEF RuleCalls
<1>5. /\ k.stage = "wiping" /\ k.rule = r /\ k.ids = rules_op[c].ids /\ k.wiped = rules_op[c].wiped
      /\ k.added = rules_op[c].added /\ k.hits = rules_op[c].hits /\ k.sees = Registry!Linked(r)
    BY <1>1 DEF RuleCalls
<1> HIDE DEF k
<1>6. RuleRequestOK(k)
    BY <1>1, <1>3, <1>5 DEF RuleRequestOK
<1>7. \A d \in Requesters : rules_op'[d] = IF d = c THEN k ELSE rules_op[d]
    BY <1>2 DEF RegistryInv, RegistryTypes
<1>8. ReplacedAlone'
    <2>1. \A x : Registry!Linked(x)' = Registry!Linked(x)
        BY <1>2 DEF Registry!Linked
    <2>2. \A d \in Requesters, x \in RuleIds :
              Registry!Replacing(d, x)' <=> (d = c /\ x = r) \/ (d # c /\ Registry!Replacing(d, x))
        <3> SUFFICES ASSUME NEW d \in Requesters, NEW x \in RuleIds
                     PROVE  Registry!Replacing(d, x)' <=> (d = c /\ x = r) \/ (d # c /\ Registry!Replacing(d, x))
            OBVIOUS
        <3>1. rules_op'[d] = IF d = c THEN k ELSE rules_op[d]
            BY <1>7
        <3>2. CASE d = c
            BY <1>5, <3>1, <3>2 DEF Registry!Replacing
        <3>3. CASE d # c
            BY <3>1, <3>3 DEF Registry!Replacing
        <3>4. QED
            BY <3>2, <3>3
    <2>3. mixed \subseteq mixed' /\ (r \notin mixed' => \A d \in Requesters \ {c} : ~Registry!Replacing(d, r))
        BY <1>2 DEF Registry!Others
    <2>4. \A x \in RuleIds \ mixed', d, e \in Requesters :
              Registry!Replacing(d, x)' /\ Registry!Replacing(e, x)' => d = e
        BY <2>2, <2>3 DEF RegistryInv, ReplacedAlone
    <2>5. \A d \in Requesters : rules_op'[d].rule \notin mixed' =>
              /\ rules_op'[d].stage = "wiping" =>
                     Registry!Linked(rules_op'[d].rule) \subseteq rules_op'[d].sees
              /\ rules_op'[d].stage = "link" =>
                     Registry!Linked(rules_op'[d].rule) \subseteq rules_op'[d].wiped
        BY <1>5, <1>7, <2>3 DEF RegistryInv, ReplacedAlone
    <2>6. QED
        BY <2>1, <2>4, <2>5 DEF ReplacedAlone
<1>9. mixed \subseteq mixed' /\ mixed' \subseteq RuleIds
    BY <1>1, <1>2 DEF RegistryInv, RegistryTypes
<1>10. QED
    BY <1>2, <1>4, <1>6, <1>8, <1>9, ReplacementMoves

\* A request goes on to the links it adds, or adds one; those it was alone with stay found.
LEMMA LinkerMoves ==
    ASSUME RegistryInv, NEW c \in Requesters, NEW k \in RuleCalls, RuleRequestOK(k),
           Registry!Replacing(c, rules_op[c].rule), k.rule = rules_op[c].rule, k.stage = "link",
           rules_op[c].rule \notin mixed => Registry!Linked(k.rule) \subseteq k.wiped,
           rules_op' = [rules_op EXCEPT ![c] = k],
           UNCHANGED <<zones, methods, rules, links, asked, mixed, rewritten>>
    PROVE  RegistryInv'
<1>1. \A d \in Requesters : rules_op'[d] = IF d = c THEN k ELSE rules_op[d]
    BY DEF RegistryInv, RegistryTypes
<1>2. \A x : Registry!Linked(x)' = Registry!Linked(x)
    BY DEF Registry!Linked
<1>3. \A d \in Requesters, x \in RuleIds : Registry!Replacing(d, x)' <=> Registry!Replacing(d, x)
    BY <1>1 DEF Registry!Replacing
<1>4. \A d \in Requesters : rules_op'[d].rule \notin mixed' =>
          /\ rules_op'[d].stage = "wiping" =>
                 Registry!Linked(rules_op'[d].rule) \subseteq rules_op'[d].sees
          /\ rules_op'[d].stage = "link" =>
                 Registry!Linked(rules_op'[d].rule) \subseteq rules_op'[d].wiped
    BY <1>1 DEF RegistryInv, ReplacedAlone
<1>5. ReplacedAlone'
    BY <1>2, <1>3, <1>4 DEF RegistryInv, ReplacedAlone
<1>6. mixed' \subseteq RuleIds
    BY DEF RegistryInv, RegistryTypes
<1>7. QED
    BY <1>5, <1>6, ReplacementMoves

LEMMA WipedSteps ==
    ASSUME RegistryInv, NEW c \in Requesters, Registry!Wiped(c)
    PROVE  RegistryInv'
<1> DEFINE found == rules_op[c].sees \cap links
           k == [rules_op[c] EXCEPT !.stage = "link", !.wiped = found, !.left = rules_op[c].ids]
<1>1. rules_op[c] \in RuleCalls /\ RuleRequestOK(rules_op[c]) /\ rules_op[c].stage = "wiping"
    BY DEF Registry!Wiped, RegistryInv, RegistryTypes
<1>2. /\ rules_op' = [rules_op EXCEPT ![c] = k]
      /\ UNCHANGED <<zones, methods, rules, links, asked, mixed, rewritten>>
    BY DEF Registry!Wiped
<1>3. found \subseteq Pairs /\ found \subseteq {rules_op[c].rule} \X MethodIds
    BY <1>1 DEF RuleRequestOK, RuleCalls
<1>4. rules_op[c].ids \in SUBSET MethodIds /\ rules_op[c].added = {} /\ rules_op[c].hits = {}
    BY <1>1 DEF RuleRequestOK
<1>5. k \in RuleCalls
    BY <1>1, <1>3, <1>4 DEF RuleCalls
<1>6. /\ k.stage = "link" /\ k.rule = rules_op[c].rule /\ k.ids = rules_op[c].ids /\ k.wiped = found
      /\ k.added = rules_op[c].added /\ k.hits = rules_op[c].hits /\ k.left = rules_op[c].ids
    BY <1>1 DEF RuleCalls
<1> HIDE DEF k
<1>7. RuleRequestOK(k)
    BY <1>1, <1>3, <1>4, <1>6 DEF RuleRequestOK
<1>8. rules_op[c].rule \notin mixed => Registry!Linked(k.rule) \subseteq k.wiped
    BY <1>1, <1>6 DEF RegistryInv, ReplacedAlone, Registry!Linked
<1>9. QED
    BY <1>1, <1>2, <1>5, <1>6, <1>7, <1>8, LinkerMoves DEF Registry!Replacing

LEMMA LinkSteps ==
    ASSUME RegistryInv, NEW c \in Requesters, NEW m \in MethodIds, Registry!Link(c, m)
    PROVE  RegistryInv'
<1> DEFINE r == rules_op[c].rule
           x == <<r, m>>
           k == [rules_op[c] EXCEPT !.left = rules_op[c].left \ {m}, !.added = rules_op[c].added \cup {x}]
<1>1. /\ rules_op[c] \in RuleCalls /\ RuleRequestOK(rules_op[c]) /\ rules_op[c].stage = "link"
      /\ m \in rules_op[c].left /\ r \in RuleIds
    BY DEF Registry!Link, RegistryInv, RegistryTypes, RuleCalls
<1>2. UNCHANGED <<zones, methods, rules, links, asked, mixed, rewritten>>
    BY DEF Registry!Link
<1>3. CASE rules_op' = [rules_op EXCEPT ![c] = Registry!Idle]
    BY <1>2, <1>3, RequestEnds
<1>4. CASE Registry!Exists(r) /\ m \in methods /\ rules_op' = [rules_op EXCEPT ![c] = k]
    <2> HIDE DEF x
    <2>1. k \in RuleCalls
        <3>1. rules_op[c].added \cup {x} \subseteq Pairs
            BY <1>1 DEF RuleCalls, Pairs, x
        <3>2. QED
            BY <1>1, <3>1 DEF RuleCalls
    <2>2. /\ k.stage = "link" /\ k.rule = r /\ k.ids = rules_op[c].ids /\ k.wiped = rules_op[c].wiped
          /\ k.added = rules_op[c].added \cup {x} /\ k.hits = rules_op[c].hits
          /\ k.left = rules_op[c].left \ {m}
        BY <1>1 DEF RuleCalls
    <2> HIDE DEF k
    <2>3. /\ rules_op[c].left \subseteq rules_op[c].ids /\ rules_op[c].ids \ rules_op[c].left \subseteq methods
          /\ rules_op[c].added = {r} \X (rules_op[c].ids \ rules_op[c].left)
        BY <1>1 DEF RuleRequestOK
    <2>4. k.ids \ k.left = (rules_op[c].ids \ rules_op[c].left) \cup {m}
        BY <1>1, <2>2, <2>3
    <2>5. k.added = {r} \X (k.ids \ k.left)
        BY <2>2, <2>3, <2>4 DEF x
    <2>6. RuleRequestOK(k)
        BY <1>1, <1>4, <2>2, <2>3, <2>4, <2>5 DEF RuleRequestOK
    <2>7. r \notin mixed => Registry!Linked(k.rule) \subseteq k.wiped
        BY <1>1, <2>2 DEF RegistryInv, ReplacedAlone
    <2>8. QED
        BY <1>1, <1>2, <1>4, <2>1, <2>2, <2>6, <2>7, LinkerMoves DEF Registry!Replacing
<1>5. QED
    BY <1>3, <1>4 DEF Registry!Link

LEMMA CommitLinksSteps ==
    ASSUME RegistryInv, NEW c \in Requesters, Registry!CommitLinks(c)
    PROVE  RegistryInv'
<1>1. PICK r \in RuleIds, k \in RuleCalls :
          r = rules_op[c].rule /\ k = rules_op[c] /\ k.stage = "link" /\ k.left = {} /\ k.rule = r
    BY DEF Registry!CommitLinks, RegistryInv, RegistryTypes, RuleCalls
<1>2. /\ links' = (links \ k.wiped) \cup k.added /\ asked' = [asked EXCEPT ![r] = k.ids]
      /\ rules_op' = [rules_op EXCEPT ![c] = Registry!Idle]
      /\ UNCHANGED <<zones, methods, rules, mixed, rewritten>>
    BY <1>1 DEF Registry!CommitLinks
<1>3. /\ k.wiped \subseteq {r} \X MethodIds /\ k.ids \in SUBSET MethodIds /\ k.ids \subseteq methods
      /\ k.added = {r} \X k.ids /\ (k.added # {} => Registry!Exists(r)) /\ rules[r] # Registry!NoRule
    BY <1>1 DEF RegistryInv, RuleRequestOK
<1>4. Registry!Idle \in RuleCalls /\ RuleRequestOK(Registry!Idle) /\ Registry!Idle.stage = "idle"
    BY IdleRequest DEF RegistryInv
<1>5. RegistryTypes'
    <2>1. links' \subseteq Pairs
        BY <1>2, <1>3 DEF RegistryInv, RegistryTypes, Pairs
    <2>2. asked' \in [RuleIds -> SUBSET MethodIds]
        BY <1>2, <1>3 DEF RegistryInv, RegistryTypes
    <2>3. QED
        BY <1>2, <1>4, <2>1, <2>2 DEF RegistryInv, RegistryTypes
<1>6. \A d \in Requesters : rules_op'[d] = IF d = c THEN Registry!Idle ELSE rules_op[d]
    BY <1>2 DEF RegistryInv, RegistryTypes
<1>7. (\A d \in Requesters : RuleRequestOK(rules_op[d]))'
    <2>1. \A x : RuleRequestOK(x) => RuleRequestOK(x)'
        BY <1>2 DEF RuleRequestOK, Registry!Exists, Registry!ValidTrigger
    <2>2. QED
        BY <1>4, <1>6, <2>1 DEF RegistryInv
<1>8. \A x \in RuleIds \ {r} : Registry!Linked(x)' = Registry!Linked(x) /\ asked'[x] = asked[x]
    BY <1>2, <1>3 DEF Registry!Linked, RegistryInv, RegistryTypes
<1>9. Registry!Linked(r)' = (Registry!Linked(r) \ k.wiped) \cup k.added
    BY <1>2, <1>3 DEF Registry!Linked
<1>10. LinksHaveRules'
    <2>1. ~Registry!Exists(r) => Registry!Linked(r)' = {}
        BY <1>3, <1>9 DEF RegistryInv, LinksHaveRules
    <2>2. QED
        BY <1>2, <1>3, <1>8, <2>1 DEF RegistryInv, LinksHaveRules, Registry!Exists
<1>11. ReplacedAlone'
    <2>1. \A d \in Requesters, x \in RuleIds : Registry!Replacing(d, x)' => d # c /\ Registry!Replacing(d, x)
        BY <1>4, <1>6 DEF Registry!Replacing
    <2>2. Registry!Replacing(c, r)
        BY <1>1 DEF Registry!Replacing
    <2>3. \A d \in Requesters : rules_op'[d].rule \notin mixed /\ rules_op'[d].stage \in {"wiping", "link"} =>
              /\ rules_op'[d] = rules_op[d] /\ rules_op[d].rule # r /\ rules_op[d].rule \in RuleIds
        <3> SUFFICES ASSUME NEW d \in Requesters, rules_op'[d].rule \notin mixed,
                            rules_op'[d].stage \in {"wiping", "link"}
                     PROVE  rules_op'[d] = rules_op[d] /\ rules_op[d].rule # r /\ rules_op[d].rule \in RuleIds
            OBVIOUS
        <3>1. d # c /\ rules_op'[d] = rules_op[d]
            BY <1>4, <1>6
        <3>2. rules_op[d].rule \in RuleIds
            BY DEF RegistryInv, RegistryTypes, RuleCalls
        <3>3. Registry!Replacing(d, rules_op[d].rule)
            BY <3>1 DEF Registry!Replacing
        <3>4. QED
            BY <2>2, <3>1, <3>2, <3>3 DEF RegistryInv, ReplacedAlone
    <2>4. \A d \in Requesters : rules_op'[d].rule \notin mixed =>
              /\ rules_op'[d].stage = "wiping" =>
                     Registry!Linked(rules_op[d].rule)' \subseteq rules_op'[d].sees
              /\ rules_op'[d].stage = "link" =>
                     Registry!Linked(rules_op[d].rule)' \subseteq rules_op'[d].wiped
        <3> SUFFICES ASSUME NEW d \in Requesters, rules_op'[d].rule \notin mixed,
                            rules_op'[d].stage \in {"wiping", "link"}
                     PROVE  /\ rules_op'[d].stage = "wiping" =>
                                   Registry!Linked(rules_op[d].rule)' \subseteq rules_op'[d].sees
                            /\ rules_op'[d].stage = "link" =>
                                   Registry!Linked(rules_op[d].rule)' \subseteq rules_op'[d].wiped
            OBVIOUS
        <3>1. PICK x \in RuleIds : x = rules_op[d].rule /\ x # r /\ rules_op'[d] = rules_op[d]
            BY <2>3
        <3>2. Registry!Linked(x)' = Registry!Linked(x)
            BY <1>8, <3>1
        <3>3. Registry!Linked(rules_op[d].rule)' = Registry!Linked(x)'
            BY <3>1
        <3>4. QED
            BY <3>1, <3>2, <3>3 DEF RegistryInv, ReplacedAlone
    <2>5. (\A x \in RuleIds \ mixed, d, e \in Requesters :
               Registry!Replacing(d, x) /\ Registry!Replacing(e, x) => d = e)'
        BY <1>2, <2>1 DEF RegistryInv, ReplacedAlone
    <2>6. QED
        BY <1>2, <2>4, <2>5 DEF ReplacedAlone
<1>12. Registry!LinksAreAsked'
    <2> SUFFICES ASSUME NEW x \in RuleIds, Registry!Exists(x)', x \notin mixed
                 PROVE  Registry!Linked(x)' = {x} \X (asked'[x] \cap methods)
        BY <1>2 DEF Registry!LinksAreAsked
    <2>1. Registry!Exists(x)
        BY <1>2 DEF Registry!Exists
    <2>2. CASE x # r
        BY <1>2, <1>8, <2>1, <2>2 DEF RegistryInv, Registry!LinksAreAsked
    <2>3. CASE x = r
        <3>1. Registry!Linked(r) \subseteq k.wiped
            BY <1>1, <2>3 DEF RegistryInv, ReplacedAlone
        <3>2. Registry!Linked(r)' = k.added
            BY <1>9, <3>1
        <3>3. asked'[r] = k.ids
            BY <1>2 DEF RegistryInv, RegistryTypes
        <3>4. k.ids \cap methods = k.ids
            BY <1>3
        <3>5. QED
            BY <1>3, <2>3, <3>2, <3>3, <3>4
    <2>4. QED
        BY <2>2, <2>3
<1>13. Registry!RuleRowsAreValid' /\ Registry!DeletionDisables'
    BY <1>2 DEF RegistryInv, Registry!RuleRowsAreValid, Registry!ValidTrigger, Registry!DeletionDisables,
                Registry!Exists
<1>14. QED
    BY <1>5, <1>7, <1>10, <1>11, <1>12, <1>13 DEF RegistryInv

LEMMA DeleteRuleSteps ==
    ASSUME RegistryInv, NEW r \in RuleIds, Registry!DeleteRule(r)
    PROVE  RegistryInv'
<1>1. /\ Registry!Exists(r) /\ rules' = [rules EXCEPT ![r] = Registry!Gone]
      /\ links' = links \ Registry!Linked(r)
      /\ \A m \in MethodIds, d \in Requesters : <<r, m>> \notin rules_op[d].added
      /\ \A d \in Requesters : r \notin rules_op[d].hits
      /\ UNCHANGED <<zones, methods, rules_op, asked, mixed, rewritten>>
    BY DEF Registry!DeleteRule, Registry!Referred
<1>2. RegistryTypes'
    BY <1>1 DEF RegistryInv, RegistryTypes
<1>3. /\ rules'[r] = Registry!Gone /\ \A x \in RuleIds \ {r} : rules'[x] = rules[x]
      /\ ~Registry!Exists(r)' /\ \A x \in RuleIds \ {r} : Registry!Exists(x)' <=> Registry!Exists(x)
    BY <1>1 DEF RegistryInv, RegistryTypes, Registry!Exists
<1>4. (\A d \in Requesters : RuleRequestOK(rules_op[d]))'
    <2> SUFFICES ASSUME NEW d \in Requesters PROVE RuleRequestOK(rules_op[d])'
        BY <1>1
    <2>1. PICK k \in RuleCalls : k = rules_op[d] /\ rules_op'[d] = k
        BY <1>1 DEF RegistryInv, RegistryTypes
    <2>2. RuleRequestOK(k) /\ k.rule \in RuleIds /\ k.hits \subseteq RuleIds
        BY <2>1 DEF RegistryInv, RuleCalls
    <2>3. \A x \in RuleIds : rules[x] # Registry!NoRule => rules'[x] # Registry!NoRule
        BY <1>3, NoRuleIsNone
    <2>4. k.stage = "link" /\ k.added # {} => k.rule # r
        <3> SUFFICES ASSUME k.stage = "link", k.added # {} PROVE k.rule # r
            OBVIOUS
        <3>1. PICK x \in k.added : TRUE
            OBVIOUS
        <3>2. x \in {k.rule} \X MethodIds
            BY <2>2 DEF RuleRequestOK
        <3>3. QED
            BY <1>1, <2>1, <3>1, <3>2
    <2>5. \A x \in RuleIds : Registry!Exists(x)' => x # r /\ Registry!Exists(x) /\ rules'[x] = rules[x]
        BY <1>3
    <2>6. RuleRequestOK(k)'
        BY <1>1, <1>3, <2>1, <2>2, <2>3, <2>4, <2>5 DEF RuleRequestOK, Registry!ValidTrigger
    <2>7. QED
        BY <2>1, <2>6
<1>5. /\ Registry!Linked(r)' = {}
      /\ \A x \in RuleIds \ {r} : Registry!Linked(x)' = Registry!Linked(x)
      /\ \A x : Registry!Linked(x)' \subseteq Registry!Linked(x)
    BY <1>1 DEF Registry!Linked
<1>6. LinksHaveRules'
    BY <1>1, <1>3, <1>5, NoRuleIsNone DEF RegistryInv, LinksHaveRules
<1>7. ReplacedAlone'
    BY <1>1, <1>5 DEF RegistryInv, ReplacedAlone, Registry!Replacing
<1>8. Registry!LinksAreAsked'
    BY <1>1, <1>3, <1>5 DEF RegistryInv, Registry!LinksAreAsked
<1>9. Registry!RuleRowsAreValid' /\ Registry!DeletionDisables'
    BY <1>1, <1>3 DEF RegistryInv, Registry!RuleRowsAreValid, Registry!ValidTrigger, Registry!DeletionDisables
<1>10. QED
    BY <1>2, <1>4, <1>6, <1>7, <1>8, <1>9 DEF RegistryInv

LEMMA DeleteMethodSteps ==
    ASSUME RegistryInv, NEW m \in MethodIds, Registry!DeleteMethod(m)
    PROVE  RegistryInv'
<1>1. /\ methods' = methods \ {m} /\ links' = {x \in links : x[2] # m}
      /\ \A r \in RuleIds, d \in Requesters : <<r, m>> \notin rules_op[d].added
      /\ UNCHANGED <<zones, rules, rules_op, asked, mixed, rewritten>>
    BY DEF Registry!DeleteMethod, Registry!Referred
<1>2. RegistryTypes'
    BY <1>1 DEF RegistryInv, RegistryTypes
<1>3. (\A d \in Requesters : RuleRequestOK(rules_op[d]))'
    <2> SUFFICES ASSUME NEW d \in Requesters PROVE RuleRequestOK(rules_op[d])'
        BY <1>1
    <2>1. PICK k \in RuleCalls : k = rules_op[d] /\ rules_op'[d] = k
        BY <1>1 DEF RegistryInv, RegistryTypes
    <2>2. RuleRequestOK(k) /\ k.rule \in RuleIds
        BY <2>1 DEF RegistryInv, RuleCalls
    <2>3. k.stage = "link" => k.ids \ k.left \subseteq methods'
        <3> SUFFICES ASSUME k.stage = "link", NEW i \in k.ids \ k.left PROVE i \in methods'
            OBVIOUS
        <3>1. i \in methods /\ k.added = {k.rule} \X (k.ids \ k.left)
            BY <2>2 DEF RuleRequestOK
        <3>2. <<k.rule, i>> \in k.added
            BY <3>1
        <3>3. QED
            BY <1>1, <2>1, <2>2, <3>1, <3>2
    <2>4. RuleRequestOK(k)'
        BY <1>1, <2>2, <2>3 DEF RuleRequestOK, Registry!Exists, Registry!ValidTrigger
    <2>5. QED
        BY <2>1, <2>4
<1>4. \A x : Registry!Linked(x)' = {l \in Registry!Linked(x) : l[2] # m}
    BY <1>1 DEF Registry!Linked
<1>5. LinksHaveRules'
    BY <1>1, <1>4 DEF RegistryInv, LinksHaveRules, Registry!Exists
<1>6. ReplacedAlone'
    BY <1>1, <1>4 DEF RegistryInv, ReplacedAlone, Registry!Replacing
<1>7. Registry!LinksAreAsked'
    <2> SUFFICES ASSUME NEW x \in RuleIds, Registry!Exists(x)', x \notin mixed
                 PROVE  Registry!Linked(x)' = {x} \X (asked[x] \cap methods')
        BY <1>1 DEF Registry!LinksAreAsked
    <2>1. Registry!Linked(x) = {x} \X (asked[x] \cap methods)
        BY <1>1 DEF RegistryInv, Registry!LinksAreAsked, Registry!Exists
    <2>2. QED
        BY <1>1, <1>4, <2>1
<1>8. Registry!RuleRowsAreValid' /\ Registry!DeletionDisables'
    BY <1>1 DEF RegistryInv, Registry!RuleRowsAreValid, Registry!ValidTrigger, Registry!DeletionDisables,
                Registry!Exists
<1>9. QED
    BY <1>2, <1>3, <1>5, <1>6, <1>7, <1>8 DEF RegistryInv

LEMMA RulesSwitchOff ==
    ASSUME NEW row \in Registry!RuleRows
    PROVE  /\ [row EXCEPT !.enabled = FALSE] \in Registry!RuleRows
           /\ ~[row EXCEPT !.enabled = FALSE].enabled /\ [row EXCEPT !.enabled = FALSE].zone = row.zone
           /\ Registry!ValidTrigger(row) => Registry!ValidTrigger([row EXCEPT !.enabled = FALSE])
<1> DEFINE off == [row EXCEPT !.enabled = FALSE]
<1>1. off \in Registry!RuleRows
    BY DEF Registry!RuleRows
<1>2. off.enabled = FALSE
    BY DEF Registry!RuleRows
<1>3. off.zone = row.zone /\ off.on = row.on /\ off.target_type = row.target_type /\ off.target_id = row.target_id
    BY DEF Registry!RuleRows
<1> HIDE DEF off
<1>4. Registry!ValidTrigger(row) => Registry!ValidTrigger(off)
    BY <1>3 DEF Registry!ValidTrigger
<1>5. ~off.enabled
    BY <1>2
<1>6. QED
    BY <1>1, <1>3, <1>4, <1>5 DEF off

LEMMA CommitZoneSteps ==
    ASSUME RegistryInv, NEW c \in Requesters, Registry!CommitZone(c)
    PROVE  RegistryInv'
<1> DEFINE hits == rules_op[c].hits
           off(r) == [rules[r] EXCEPT !.enabled = FALSE]
<1>1. /\ rules_op[c] \in RuleCalls /\ RuleRequestOK(rules_op[c]) /\ rules_op[c].stage = "disabled"
      /\ hits \subseteq RuleIds
    BY DEF Registry!CommitZone, RegistryInv, RegistryTypes, RuleCalls
<1>2. /\ zones' = zones \ {rules_op[c].zone}
      /\ rules' = [r \in RuleIds |-> IF r \in hits THEN off(r) ELSE rules[r]]
      /\ rules_op' = [rules_op EXCEPT ![c] = Registry!Idle]
      /\ UNCHANGED <<methods, links, asked, mixed, rewritten>>
    BY DEF Registry!CommitZone
<1>3. \A r \in hits : /\ Registry!Exists(r) /\ off(r) \in Registry!RuleRows
                      /\ ~off(r).enabled /\ off(r).zone = rules[r].zone
                      /\ Registry!ValidTrigger(rules[r]) => Registry!ValidTrigger(off(r))
    <2> SUFFICES ASSUME NEW r \in hits
                 PROVE  /\ Registry!Exists(r) /\ off(r) \in Registry!RuleRows
                        /\ ~off(r).enabled /\ off(r).zone = rules[r].zone
                        /\ Registry!ValidTrigger(rules[r]) => Registry!ValidTrigger(off(r))
        OBVIOUS
    <2>1. Registry!Exists(r)
        BY <1>1 DEF RuleRequestOK
    <2>2. rules[r] \in Registry!RuleRows
        BY <1>1, <2>1, StoredRule DEF RegistryInv
    <2>3. QED
        BY <2>1, <2>2, RulesSwitchOff
<1>4. Registry!Idle \in RuleCalls /\ RuleRequestOK(Registry!Idle) /\ Registry!Idle.stage = "idle"
    BY IdleRequest DEF RegistryInv
<1> HIDE DEF off, hits
<1>5. \A r \in RuleIds : rules'[r] = IF r \in hits THEN off(r) ELSE rules[r]
    BY <1>2
<1>6. RegistryTypes'
    <2>1. rules' \in [RuleIds -> Registry!RuleRows \cup {Registry!NoRule, Registry!Gone}]
        BY <1>2, <1>3 DEF RegistryInv, RegistryTypes
    <2>2. QED
        BY <1>2, <1>4, <2>1 DEF RegistryInv, RegistryTypes
<1>7. \A r \in RuleIds : Registry!Exists(r)' <=> Registry!Exists(r)
    BY <1>3, <1>5, NoRuleIsNone DEF Registry!Exists
<1>8. \A r \in RuleIds : rules'[r] = Registry!NoRule <=> rules[r] = Registry!NoRule
    BY <1>3, <1>5, NoRuleIsNone DEF Registry!Exists
<1>9. \A r \in RuleIds : Registry!Exists(r) /\ rules'[r].enabled =>
          /\ rules'[r] = rules[r] /\ r \notin hits
    BY <1>3, <1>5
<1>10. \A d \in Requesters : rules_op'[d] = IF d = c THEN Registry!Idle ELSE rules_op[d]
    BY <1>2 DEF RegistryInv, RegistryTypes
<1>11. \A d \in Requesters : RuleRequestOK(rules_op[d])'
    <2> SUFFICES ASSUME NEW d \in Requesters PROVE RuleRequestOK(rules_op[d])'
        OBVIOUS
    <2>1. PICK k \in RuleCalls : rules_op'[d] = k /\ RuleRequestOK(k)
        BY <1>4, <1>10 DEF RegistryInv, RegistryTypes
    <2>2. k.rule \in RuleIds /\ k.hits \subseteq RuleIds
        BY DEF RuleCalls
    <2>3. k.stage = "disabled" => \A r \in RuleIds : Registry!Exists(r)' /\ rules'[r].enabled /\ rules'[r].zone = k.zone
                                                        => r \in k.hits \cup rewritten
        BY <1>7, <1>9, <2>1 DEF RuleRequestOK
    <2>4. RuleRequestOK(k)'
        BY <1>2, <1>7, <1>8, <2>1, <2>2, <2>3 DEF RuleRequestOK, Registry!ValidTrigger
    <2>5. QED
        BY <2>1, <2>4
<1>12. LinksHaveRules'
    BY <1>2, <1>7, <1>8 DEF RegistryInv, LinksHaveRules, Registry!Linked
<1>13. ReplacedAlone'
    <2>1. \A d \in Requesters : rules_op'[d].stage \in {"wiping", "link"} => rules_op'[d] = rules_op[d]
        BY <1>4, <1>10
    <2>2. (\A x \in RuleIds \ mixed, d, e \in Requesters :
               Registry!Replacing(d, x) /\ Registry!Replacing(e, x) => d = e)'
        BY <1>2, <2>1 DEF RegistryInv, ReplacedAlone, Registry!Replacing
    <2>3. QED
        BY <1>2, <2>1, <2>2 DEF RegistryInv, ReplacedAlone, Registry!Linked
<1>14. Registry!RuleRowsAreValid'
    <2> SUFFICES ASSUME NEW r \in RuleIds, Registry!Exists(r)
                 PROVE  Registry!ValidTrigger(rules'[r])
        BY <1>7 DEF Registry!RuleRowsAreValid, Registry!ValidTrigger
    <2>1. Registry!ValidTrigger(rules[r])
        BY DEF RegistryInv, Registry!RuleRowsAreValid
    <2>2. QED
        BY <1>3, <1>5, <2>1
<1>15. Registry!LinksAreAsked'
    BY <1>2, <1>7 DEF RegistryInv, Registry!LinksAreAsked, Registry!Linked
<1>16. Registry!DeletionDisables'
    <2> SUFFICES ASSUME NEW r \in RuleIds, Registry!Exists(r), rules'[r].enabled,
                        rules'[r].zone \in ZoneIds \ zones'
                 PROVE  r \in rewritten
        BY <1>2, <1>7 DEF Registry!DeletionDisables
    <2>1. rules'[r] = rules[r] /\ r \notin hits
        BY <1>9
    <2>2. CASE rules[r].zone = rules_op[c].zone
        BY <1>1, <2>1, <2>2 DEF RuleRequestOK, hits
    <2>3. CASE rules[r].zone # rules_op[c].zone
        BY <1>2, <2>1, <2>3 DEF RegistryInv, Registry!DeletionDisables
    <2>4. QED
        BY <2>2, <2>3
<1>17. QED
    BY <1>6, <1>11, <1>12, <1>13, <1>14, <1>15, <1>16 DEF RegistryInv

LEMMA RegistryInitially == RecordsInit => RegistryInv
<1> SUFFICES ASSUME RecordsInit PROVE RegistryInv
    OBVIOUS
<1>1. Registry!Init
    BY DEF RecordsInit
<1>2. PICK r \in RuleIds, row \in RulesAsked, ids \in SUBSET MethodIds :
          /\ Registry!ValidTrigger(row)
          /\ rules = [x \in RuleIds |-> IF x = r THEN row ELSE Registry!NoRule]
          /\ links = {r} \X ids
          /\ asked = [x \in RuleIds |-> IF x = r THEN ids ELSE {}]
    BY <1>1 DEF Registry!Init
<1>3. row \in Registry!RuleRows
    BY RegistryIsSound DEF Registry!RegistryAssumption
<1>4. (CHOOSE x \in RuleIds : TRUE) \in RuleIds
    BY <1>2
<1>5. Registry!Idle \in RuleCalls /\ RuleRequestOK(Registry!Idle) /\ Registry!Idle.stage = "idle"
    <2> DEFINE first == CHOOSE x \in RuleIds : TRUE
    <2> HIDE DEF first
    <2>1. first \in RuleIds
        BY <1>4 DEF first
    <2>2. Registry!Idle = [stage |-> "idle", rule |-> first, row |-> Registry!NoRule, ids |-> {},
                           left |-> {}, sees |-> {}, wiped |-> {}, added |-> {}, zone |-> Zoneless,
                           hits |-> {}]
        BY DEF Registry!Idle, first
    <2>3. Registry!Idle \in RuleCalls
        BY <2>1, <2>2 DEF RuleCalls
    <2>4. QED
        BY <2>3 DEF RuleRequestOK, Registry!Idle
<1>6. RegistryTypes
    <2>1. rules \in [RuleIds -> Registry!RuleRows \cup {Registry!NoRule, Registry!Gone}]
        BY <1>2, <1>3
    <2>2. links \subseteq Pairs /\ asked \in [RuleIds -> SUBSET MethodIds]
        BY <1>2 DEF Pairs
    <2>3. QED
        BY <1>1, <1>2, <1>5, <2>1, <2>2 DEF Registry!Init, RegistryTypes
<1>7. \A x \in RuleIds : Registry!Exists(x) <=> x = r
    BY <1>2, <1>3, NoRuleIsNone DEF Registry!Exists
<1>8. Registry!Linked(r) = {r} \X ids /\ \A x \in RuleIds \ {r} : Registry!Linked(x) = {} /\ asked[x] = {}
    BY <1>2 DEF Registry!Linked
<1>9. LinksHaveRules
    BY <1>2, <1>3, <1>7, <1>8, NoRuleIsNone DEF LinksHaveRules
<1>10. ReplacedAlone
    BY <1>1, <1>5 DEF ReplacedAlone, Registry!Replacing, Registry!Init
<1>11. \A c \in Requesters : RuleRequestOK(rules_op[c])
    BY <1>1, <1>5 DEF Registry!Init
<1>12. Registry!RuleRowsAreValid
    BY <1>2, <1>7 DEF Registry!RuleRowsAreValid
<1>13. Registry!LinksAreAsked
    <2>1. asked[r] = ids /\ methods = MethodIds
        BY <1>1, <1>2 DEF Registry!Init
    <2>2. QED
        BY <1>7, <1>8, <2>1 DEF Registry!LinksAreAsked
<1>14. Registry!DeletionDisables
    BY <1>1 DEF Registry!Init, Registry!DeletionDisables
<1>15. QED
    BY <1>6, <1>9, <1>10, <1>11, <1>12, <1>13, <1>14 DEF RegistryInv

LEMMA RegistryStutters == RegistryInv /\ UNCHANGED registryVars => RegistryInv'
<1> SUFFICES ASSUME RegistryInv, UNCHANGED registryVars PROVE RegistryInv'
    OBVIOUS
<1>1. UNCHANGED <<zones, methods, rules, links, rules_op, asked, mixed, rewritten>>
    BY DEF registryVars
<1>2. \A c \in Requesters : RuleRequestOK(rules_op[c])'
    <2>1. \A x : RuleRequestOK(x) => RuleRequestOK(x)'
        BY <1>1 DEF RuleRequestOK, Registry!Exists, Registry!ValidTrigger
    <2>2. QED
        BY <1>1, <2>1 DEF RegistryInv
<1>3. QED
    BY <1>1, <1>2
    DEF RegistryInv, RegistryTypes, LinksHaveRules, ReplacedAlone, Registry!Replacing, Registry!Linked,
        Registry!Exists, Registry!RuleRowsAreValid, Registry!ValidTrigger, Registry!LinksAreAsked,
        Registry!DeletionDisables

LEMMA RegistryStep == RegistryInv /\ [RecordsNext]_suiteVars => RegistryInv'
<1> SUFFICES ASSUME RegistryInv, [RecordsNext]_suiteVars PROVE RegistryInv'
    OBVIOUS
<1>1. CASE UNCHANGED registryVars
    BY <1>1, RegistryStutters
<1>2. CASE Registry!Next
    <2>1. ASSUME NEW c \in Requesters, Registry!Fail(c) \/ Registry!Victim(c) PROVE RegistryInv'
        BY <2>1, RequestEnds DEF Registry!Fail, Registry!Victim
    <2>2. ASSUME Registry!Done PROVE RegistryInv'
        BY <2>2, RegistryStutters DEF Registry!Done, Registry!vars, registryVars
    <2>3. ASSUME NEW c \in Requesters, NEW m \in MethodIds, Registry!CheckMethod(c, m) \/ Registry!Link(c, m)
          PROVE  RegistryInv'
        BY <2>3, CheckMethodSteps, LinkSteps
    <2>4. ASSUME NEW c \in Requesters, Registry!WriteRule(c) \/ Registry!Wipe(c) \/ Registry!Wiped(c)
                                       \/ Registry!CommitLinks(c) \/ Registry!DisableRules(c)
                                       \/ Registry!CommitZone(c)
          PROVE  RegistryInv'
        BY <2>4, WriteRuleSteps, WipeSteps, WipedSteps, CommitLinksSteps, DisableRulesSteps, CommitZoneSteps
    <2>5. QED
        BY <1>2, <2>1, <2>2, <2>3, <2>4, CreateRuleSteps, UpdateRuleSteps, InsertRuleSteps, DeleteZoneSteps,
           DeleteRuleSteps, DeleteMethodSteps
        DEF Registry!Next
<1>3. QED
    BY <1>1, <1>2 DEF RecordsNext, suiteVars, registryVars

-----------------------------------------------------------------------------
(* Links between emitters.                                                   *)

LinkRows ==
    {[source |-> "manual", state |-> "verified"], [source |-> "ai", state |-> "hypothesis"],
     [source |-> "auto", state |-> "observed"], [source |-> "auto", state |-> "inferred"]}

LinkCalls ==
    [stage : {"idle", "insert", "delete", "unlink", "load", "pair", "record"}, on : Nat \X Nat,
     row : LinkRows \cup {Links!None}, left : SUBSET Links!Directions, next : Seq(Links!Directions)]

Halves(d) == {d, Links!Swap(d)}
Ends(d) == {d[1], d[2]}

\* The halves an INSERT has looked at.
Passed(k) ==
    IF k.next = <<>> THEN Halves(k.on) ELSE IF k.next = <<Links!Swap(k.on)>> THEN {k.on} ELSE {}

\* Strengthening, of a call k of p that adds a link: it holds the rows it wrote, which were not
\* there unless the call is the operator's; one it passed over was there, and has been removed
\* since only by a race; so what would leave the halves different is known to be a race.
AddingOK(p, k) ==
    k.stage = "insert" =>
        /\ k.on \in Links!Directions /\ k.row \in LinkRows
        /\ k.row.source = "manual" => p = "operator"
        /\ k.next \in {<<k.on, Links!Swap(k.on)>>, <<Links!Swap(k.on)>>, <<>>}
        /\ DOMAIN writes[p] \subseteq Passed(k)
        /\ \A d \in DOMAIN writes[p] : /\ writes[p][d] = k.row /\ Ends(d) \subseteq links_emitters
                                       /\ k.row.source # "manual" => link[d] = Links!None
        /\ \A d \in Passed(k) \ DOMAIN writes[p] :
               /\ k.row.source # "manual"
               /\ link[d] # Links!None \/ d \in raced \/ ~(Ends(d) \subseteq links_emitters)
        /\ DOMAIN writes[p] # {} /\ Passed(k) \ DOMAIN writes[p] # {} => Halves(k.on) \cap raced # {}

\* Strengthening, of one that removes a link: a half it did not find has come since only by a race.
RemovingOK(p, k) ==
    k.stage = "delete" =>
        /\ k.on \in Links!Directions /\ p \in Links!Callers
        /\ k.left \subseteq Halves(k.on) /\ DOMAIN writes[p] \subseteq Halves(k.on) \ k.left
        /\ \A d \in DOMAIN writes[p] : writes[p][d] = Links!None
        /\ \A d \in (Halves(k.on) \ k.left) \ DOMAIN writes[p] : link[d] = Links!None \/ d \in raced

\* Strengthening, of the agent's: what is confirmed was confirmed after the check, or is half a link.
UnlinkingOK(p, k) ==
    p = "agent" /\ k.stage \in {"unlink", "delete"} =>
        /\ k.on \in Links!Directions
        /\ \A d \in Halves(k.on) :
               link[d].state = "verified" => d \in confirmed \/ link[d] # link[Links!Swap(d)]

LinkCallOK(p, k) ==
    /\ AddingOK(p, k) /\ RemovingOK(p, k) /\ UnlinkingOK(p, k)
    /\ k.stage \notin {"insert", "delete"} => DOMAIN writes[p] = {}

LinksInv ==
    /\ link \in [Links!Directions -> LinkRows \cup {Links!None}]
    /\ links_op \in [Links!Procs -> LinkCalls] /\ DOMAIN writes = Links!Procs
    /\ \A p \in Links!Procs : LinkCallOK(p, links_op[p])
    /\ \A p, q \in Links!Procs : p # q => DOMAIN writes[p] \cap DOMAIN writes[q] = {}
    /\ \A d \in Links!Directions : link[d] # Links!None => Ends(d) \subseteq links_emitters
    /\ Links!HalfLinksAreRaced

LEMMA SwapTwice ==
    ASSUME NEW d \in Links!Directions
    PROVE  /\ Links!Swap(d) \in Links!Directions /\ Links!Swap(Links!Swap(d)) = d /\ Links!Swap(d) # d
           /\ Ends(Links!Swap(d)) = Ends(d) /\ d \in Nat \X Nat
BY DEF Links!Directions, Links!Swap, Links!Emitters, Ends

LEMMA RowsAreLinks ==
    /\ Links!None \notin LinkRows /\ Links!None.state # "verified"
    /\ \A x \in LinkRows : /\ x.source = "manual" <=> x.state = "verified"
                           /\ x.source # "none" /\ x.state # "none"
BY DEF LinkRows, Links!None

LEMMA IdleLinkCall ==
    /\ Links!Idle \in LinkCalls /\ Links!Idle.stage = "idle" /\ Links!Idle.left = {}
    /\ Links!Idle.next = <<>>
<1>1. <<>> \in Seq(Links!Directions) /\ <<1, 2>> \in Nat \X Nat
    OBVIOUS
<1>2. QED
    BY <1>1 DEF Links!Idle, LinkCalls

LEMMA NothingWritten == DOMAIN Links!NoWrites = {}
BY DEF Links!NoWrites

\* A call that adds and has not written: what it is at.
LEMMA AddingCall ==
    ASSUME NEW d \in Links!Directions, NEW s \in {"manual", "ai", "auto"}, NEW v,
           s = "auto" => v \in {"observed", "inferred"}
    PROVE  LET k == Links!Adding(d, s, v)
           IN  /\ k \in LinkCalls /\ k.stage = "insert" /\ k.on = d /\ k.row \in LinkRows
               /\ k.row.source = s /\ k.next = <<d, Links!Swap(d)>> /\ Passed(k) = {}
<1> DEFINE x == [source |-> s, state |-> Links!InitialEvidenceState(s, v)]
           k == Links!Adding(d, s, v)
<1>1. x \in LinkRows /\ x.source = s
    BY DEF LinkRows, Links!InitialEvidenceState
<1>2. Links!Swap(d) \in Links!Directions /\ d \in Nat \X Nat
    BY SwapTwice
<1>3. <<d, Links!Swap(d)>> \in Seq(Links!Directions)
    BY <1>2
<1> HIDE DEF x
<1>4. k = [Links!Idle EXCEPT !.stage = "insert", !.on = d, !.next = <<d, Links!Swap(d)>>, !.row = x]
    BY DEF Links!Adding, x
<1>5. k \in LinkCalls
    BY <1>1, <1>2, <1>3, <1>4, IdleLinkCall DEF LinkCalls
<1>6. k.stage = "insert" /\ k.on = d /\ k.row = x /\ k.next = <<d, Links!Swap(d)>>
    BY <1>4, IdleLinkCall DEF LinkCalls
<1>7. Passed(k) = {}
    <2>1. k.next # <<>> /\ k.next # <<Links!Swap(k.on)>>
        BY <1>6
    <2>2. QED
        BY <2>1 DEF Passed
<1>8. QED
    BY <1>1, <1>5, <1>6, <1>7

LEMMA DeletingCall ==
    ASSUME NEW d \in Links!Directions
    PROVE  LET k == Links!Deleting(d)
           IN  /\ k \in LinkCalls /\ k.stage = "delete" /\ k.on = d
               /\ k.left = {x \in Halves(d) : link[x] # Links!None}
<1> DEFINE found == {x \in Halves(d) : link[x] # Links!None}
           k == Links!Deleting(d)
<1>1. found \in SUBSET Links!Directions /\ d \in Nat \X Nat
    BY SwapTwice DEF Halves
<1> HIDE DEF found
<1>2. k = [Links!Idle EXCEPT !.stage = "delete", !.on = d, !.left = found]
    BY DEF Links!Deleting, found, Halves
<1>3. k \in LinkCalls /\ k.stage = "delete" /\ k.on = d /\ k.left = found
    BY <1>1, <1>2, IdleLinkCall DEF LinkCalls
<1>4. QED
    BY <1>3 DEF found

\* A call moves, and no table does: if it is well and holds only what no other holds.
LEMMA LinkCallMoves ==
    ASSUME LinksInv, NEW p \in Links!Procs, NEW k \in LinkCalls, links_op' = [links_op EXCEPT ![p] = k],
           LinkCallOK(p, k)', DOMAIN writes' = Links!Procs,
           \A q \in Links!Procs \ {p} : /\ writes'[q] = writes[q]
                                        /\ DOMAIN writes'[p] \cap DOMAIN writes[q] = {},
           UNCHANGED <<links_emitters, link, raced>>, confirmed' = confirmed \/ p = "agent"
    PROVE  LinksInv'
<1>1. \A q \in Links!Procs : links_op'[q] = IF q = p THEN k ELSE links_op[q]
    BY DEF LinksInv
<1>2. links_op' \in [Links!Procs -> LinkCalls]
    BY DEF LinksInv
<1>3. \A q \in Links!Procs : LinkCallOK(q, links_op[q])'
    <2> SUFFICES ASSUME NEW q \in Links!Procs, q # p PROVE LinkCallOK(q, links_op[q])'
        BY <1>1
    <2>1. LinkCallOK(q, links_op[q]) /\ links_op'[q] = links_op[q] /\ writes'[q] = writes[q]
        BY <1>1 DEF LinksInv
    <2>2. QED
        BY <2>1 DEF LinkCallOK, AddingOK, RemovingOK, UnlinkingOK
<1>4. \A q, r \in Links!Procs : q # r => DOMAIN writes'[q] \cap DOMAIN writes'[r] = {}
    BY DEF LinksInv
<1>5. QED
    BY <1>2, <1>3, <1>4 DEF LinksInv, Links!HalfLinksAreRaced

LEMMA LinkCallEnds ==
    ASSUME LinksInv, NEW p \in Links!Procs, links_op' = [links_op EXCEPT ![p] = Links!Idle],
           writes' = [writes EXCEPT ![p] = Links!NoWrites],
           UNCHANGED <<links_emitters, link, raced, confirmed>>
    PROVE  LinksInv'
<1>1. DOMAIN writes'[p] = {} /\ DOMAIN writes' = Links!Procs /\ \A q \in Links!Procs \ {p} : writes'[q] = writes[q]
    BY NothingWritten DEF LinksInv
<1>2. LinkCallOK(p, Links!Idle)'
    BY <1>1, IdleLinkCall DEF LinkCallOK, AddingOK, RemovingOK, UnlinkingOK
<1>3. QED
    BY <1>1, <1>2, IdleLinkCall, LinkCallMoves

\* A call begins, or goes on from one that holds nothing.
LEMMA FreshCall ==
    ASSUME LinksInv, NEW p \in Links!Procs, NEW k \in LinkCalls, links_op' = [links_op EXCEPT ![p] = k],
           DOMAIN writes[p] = {}, AddingOK(p, k)', RemovingOK(p, k)', UnlinkingOK(p, k)',
           UNCHANGED <<links_emitters, link, raced, writes>>, confirmed' = confirmed \/ p = "agent"
    PROVE  LinksInv'
<1>1. LinkCallOK(p, k)'
    BY DEF LinkCallOK
<1>2. QED
    BY <1>1, LinkCallMoves DEF LinksInv

LEMMA AddBegins ==
    ASSUME LinksInv, NEW p \in Links!Procs, NEW d \in Links!Directions, NEW s \in {"manual", "ai", "auto"},
           NEW v, s = "auto" => v \in {"observed", "inferred"}, s = "manual" => p = "operator",
           links_op' = [links_op EXCEPT ![p] = Links!Adding(d, s, v)], DOMAIN writes[p] = {},
           UNCHANGED <<links_emitters, link, raced, writes, confirmed>>
    PROVE  LinksInv'
<1>1. PICK k \in LinkCalls : /\ k = Links!Adding(d, s, v) /\ k.stage = "insert" /\ k.on = d /\ k.row \in LinkRows
                             /\ k.row.source = s /\ k.next = <<d, Links!Swap(d)>> /\ Passed(k) = {}
    BY AddingCall
<1>2. AddingOK(p, k)' /\ RemovingOK(p, k)' /\ UnlinkingOK(p, k)'
    <2>1. Passed(k)' = {}
        BY <1>1 DEF Passed, Halves
    <2>2. QED
        BY <1>1, <2>1 DEF AddingOK, RemovingOK, UnlinkingOK
<1>3. QED
    BY <1>1, <1>2, FreshCall

LEMMA IdleHoldsNothing ==
    ASSUME LinksInv, NEW p \in Links!Procs, links_op[p].stage \notin {"insert", "delete"}
    PROVE  DOMAIN writes[p] = {}
BY DEF LinksInv, LinkCallOK

LEMMA ConfirmSteps ==
    ASSUME LinksInv, NEW d \in Links!Directions, Links!Confirm(d) \/ Links!LinkEmitters(d)
    PROVE  LinksInv'
<1>1. {"operator", "agent"} \subseteq Links!Procs
    BY DEF Links!Procs, Links!Callers
<1>2. ASSUME Links!Confirm(d) PROVE LinksInv'
    <2>1. links_op["operator"] = Links!Idle /\ links_op' = [links_op EXCEPT !["operator"] = Links!Adding(d, "manual", "none")]
        BY <1>2 DEF Links!Confirm, Links!Begin
    <2>2. DOMAIN writes["operator"] = {}
        BY <1>1, <2>1, IdleHoldsNothing, IdleLinkCall
    <2>3. QED
        BY <1>1, <1>2, <2>1, <2>2, AddBegins DEF Links!Confirm
<1>3. ASSUME Links!LinkEmitters(d) PROVE LinksInv'
    <2>1. links_op["agent"] = Links!Idle /\ links_op' = [links_op EXCEPT !["agent"] = Links!Adding(d, "ai", "none")]
        BY <1>3 DEF Links!LinkEmitters, Links!Begin
    <2>2. DOMAIN writes["agent"] = {}
        BY <1>1, <2>1, IdleHoldsNothing, IdleLinkCall
    <2>3. QED
        BY <1>1, <1>3, <2>1, <2>2, AddBegins DEF Links!LinkEmitters
<1>4. QED
    BY <1>2, <1>3

\* A removal begins: it has found every half there is.
LEMMA RemovalBegins ==
    ASSUME LinksInv, NEW p \in Links!Callers, NEW d \in Links!Directions,
           links_op' = [links_op EXCEPT ![p] = Links!Deleting(d)], DOMAIN writes[p] = {},
           p = "agent" => \A x \in Halves(d) :
                              link[x].state = "verified" => x \in confirmed \/ link[x] # link[Links!Swap(x)],
           UNCHANGED <<links_emitters, link, raced, writes, confirmed>>
    PROVE  LinksInv'
<1>1. PICK k \in LinkCalls : /\ k = Links!Deleting(d) /\ k.stage = "delete" /\ k.on = d
                             /\ k.left = {x \in Halves(d) : link[x] # Links!None}
    BY DeletingCall
<1>2. p \in Links!Procs
    BY DEF Links!Procs
<1>3. AddingOK(p, k)' /\ UnlinkingOK(p, k)'
    BY <1>1 DEF AddingOK, UnlinkingOK, Halves
<1>4. RemovingOK(p, k)'
    BY <1>1 DEF RemovingOK, Halves
<1>5. QED
    BY <1>1, <1>2, <1>3, <1>4, FreshCall

LEMMA RemoveAssociationSteps ==
    ASSUME LinksInv, NEW d \in Links!Directions, Links!RemoveAssociation(d)
    PROVE  LinksInv'
<1>1. "operator" \in Links!Procs /\ "operator" \in Links!Callers
    BY DEF Links!Procs, Links!Callers
<1>2. links_op["operator"] = Links!Idle /\ links_op' = [links_op EXCEPT !["operator"] = Links!Deleting(d)]
    BY DEF Links!RemoveAssociation, Links!Begin
<1>3. DOMAIN writes["operator"] = {}
    BY <1>1, <1>2, IdleHoldsNothing, IdleLinkCall
<1>4. QED
    BY <1>1, <1>2, <1>3, RemovalBegins DEF Links!RemoveAssociation

LEMMA UnlinkEmittersSteps ==
    ASSUME LinksInv, NEW d \in Links!Directions, Links!UnlinkEmitters(d)
    PROVE  LinksInv'
<1> DEFINE k == [Links!Idle EXCEPT !.stage = "unlink", !.on = d]
<1>1. "agent" \in Links!Procs
    BY DEF Links!Procs, Links!Callers
<1>2. /\ links_op["agent"] = Links!Idle /\ links_op' = [links_op EXCEPT !["agent"] = k]
      /\ link[d].state # "verified" /\ UNCHANGED <<links_emitters, link, raced, writes>>
    BY DEF Links!UnlinkEmitters, Links!Begin
<1>3. DOMAIN writes["agent"] = {}
    BY <1>1, <1>2, IdleHoldsNothing, IdleLinkCall
<1>4. d \in Nat \X Nat /\ Links!Swap(Links!Swap(d)) = d
    BY SwapTwice
<1>5. k \in LinkCalls /\ k.stage = "unlink" /\ k.on = d
    BY <1>4, IdleLinkCall DEF LinkCalls
<1> HIDE DEF k
<1>6. AddingOK("agent", k)' /\ RemovingOK("agent", k)'
    BY <1>5 DEF AddingOK, RemovingOK
<1>7. \A x \in Halves(d) : link[x].state = "verified" => link[x] # link[Links!Swap(x)]
    BY <1>2, <1>4 DEF Halves
<1>8. UnlinkingOK("agent", k)'
    BY <1>2, <1>5, <1>7 DEF UnlinkingOK, Halves
<1>9. QED
    BY <1>1, <1>2, <1>3, <1>5, <1>6, <1>8, FreshCall

LEMMA UnlinkRemoveSteps ==
    ASSUME LinksInv, Links!UnlinkRemove
    PROVE  LinksInv'
<1>1. "agent" \in Links!Procs /\ "agent" \in Links!Callers
    BY DEF Links!Procs, Links!Callers
<1>2. PICK d \in Links!Directions :
          /\ d = links_op["agent"].on
          /\ \A x \in Halves(d) :
                 link[x].state = "verified" => x \in confirmed \/ link[x] # link[Links!Swap(x)]
    BY <1>1 DEF Links!UnlinkRemove, LinksInv, LinkCallOK, UnlinkingOK
<1>3. links_op' = [links_op EXCEPT !["agent"] = Links!Deleting(d)]
    BY <1>2 DEF Links!UnlinkRemove
<1>4. DOMAIN writes["agent"] = {}
    BY <1>1, IdleHoldsNothing DEF Links!UnlinkRemove
<1>5. QED
    BY <1>1, <1>2, <1>3, <1>4, RemovalBegins DEF Links!UnlinkRemove

LEMMA FailedLinkSteps ==
    ASSUME LinksInv, NEW p \in Links!Procs, Links!Fail(p) \/ Links!Victim(p)
    PROVE  LinksInv'
BY LinkCallEnds DEF Links!Fail, Links!Victim, Links!Abandon

LEMMA InsertSteps ==
    ASSUME LinksInv, NEW p \in Links!Procs, Links!Insert(p)
    PROVE  LinksInv'
<1>1. PICK c \in LinkCalls :
          c = links_op[p] /\ c.stage = "insert" /\ c.next # <<>> /\ LinkCallOK(p, c) /\ AddingOK(p, c)
    BY DEF Links!Insert, LinksInv, LinkCallOK
<1>2. UNCHANGED <<links_emitters, link, raced, confirmed>> /\ ~Links!LockedFrom(p, Head(c.next))
    BY <1>1 DEF Links!Insert
<1>3. PICK on \in Links!Directions : on = c.on /\ c.next \in {<<on, Links!Swap(on)>>, <<Links!Swap(on)>>}
    BY <1>1 DEF AddingOK
<1>4. Links!Swap(on) \in Links!Directions /\ Links!Swap(on) # on /\ Links!Swap(Links!Swap(on)) = on
    BY SwapTwice
<1>5. PICK d \in Links!Directions, rest \in Seq(Links!Directions) :
          /\ d = Head(c.next) /\ rest = Tail(c.next) /\ rest \in {<<Links!Swap(on)>>, <<>>}
          /\ d \in Halves(on) /\ d \notin Passed(c) /\ Passed(c) \subseteq {Links!Swap(d)}
          /\ \A x : x.on = on /\ x.next = rest => Passed(x) = Passed(c) \cup {d}
    <2>1. CASE c.next = <<on, Links!Swap(on)>>
        <3>1. Head(c.next) = on /\ Tail(c.next) = <<Links!Swap(on)>> /\ <<Links!Swap(on)>> \in Seq(Links!Directions)
            BY <1>4, <2>1
        <3>2. <<Links!Swap(on)>> # <<>> /\ c.next # <<>> /\ c.next # <<Links!Swap(on)>>
            BY <2>1
        <3>3. Passed(c) = {} /\ \A x : x.on = on /\ x.next = <<Links!Swap(on)>> => Passed(x) = {on}
            BY <1>3, <3>2 DEF Passed
        <3>4. PICK z \in Seq(Links!Directions) : z = <<Links!Swap(on)>>
            BY <3>1
        <3>5. on \in Halves(on) /\ on \notin Passed(c) /\ Passed(c) \subseteq {Links!Swap(on)}
            BY <3>3 DEF Halves
        <3>6. \A x : x.on = on /\ x.next = z => Passed(x) = Passed(c) \cup {on}
            BY <3>3, <3>4
        <3>7. on = Head(c.next) /\ z = Tail(c.next) /\ z \in {<<Links!Swap(on)>>, <<>>}
            BY <3>1, <3>4
        <3>8. QED
            BY <3>5, <3>6, <3>7
    <2>2. CASE c.next = <<Links!Swap(on)>>
        <3>1. Head(c.next) = Links!Swap(on) /\ Tail(c.next) = <<>> /\ <<>> \in Seq(Links!Directions)
            BY <1>4, <2>2
        <3>2. <<Links!Swap(on)>> # <<>>
            OBVIOUS
        <3>3. Passed(c) = {on} /\ \A x : x.on = on /\ x.next = <<>> => Passed(x) = {on, Links!Swap(on)}
            BY <1>3, <2>2, <3>2 DEF Passed, Halves
        <3>4. QED
            BY <1>4, <3>1, <3>3 DEF Halves
    <2>3. QED
        BY <1>3, <2>1, <2>2
<1>6. PICK k \in LinkCalls :
          /\ k = [links_op[p] EXCEPT !.next = Tail(links_op[p].next)]
          /\ k.stage = "insert" /\ k.on = on /\ k.row = c.row /\ k.next = rest
    <2> DEFINE x == [c EXCEPT !.next = rest]
    <2>1. x \in LinkCalls
        BY DEF LinkCalls
    <2>2. x.stage = c.stage /\ x.on = c.on /\ x.row = c.row /\ x.next = rest
        BY DEF LinkCalls
    <2>3. x = [links_op[p] EXCEPT !.next = Tail(links_op[p].next)]
        BY <1>1, <1>5
    <2> HIDE DEF x
    <2>4. QED
        BY <1>1, <1>3, <2>1, <2>2, <2>3
<1>7. Passed(k) = Passed(c) \cup {d} /\ Passed(c) \subseteq {Links!Swap(d)}
    BY <1>5, <1>6
<1> DEFINE held == [x \in DOMAIN writes[p] \cup {d} |-> links_op[p].row]
<1>8. CASE links_op' = [links_op EXCEPT ![p] = Links!Idle] /\ writes' = [writes EXCEPT ![p] = Links!NoWrites]
    BY <1>2, <1>8, LinkCallEnds
<1>9. Halves(d) = Halves(on) /\ Ends(Links!Swap(d)) = Ends(d)
    BY <1>4, <1>5, SwapTwice DEF Halves
<1>10. RemovingOK(p, k)' /\ UnlinkingOK(p, k)'
    BY <1>6 DEF RemovingOK, UnlinkingOK
<1>11. CASE /\ link[d] = Links!None => Ends(d) \subseteq links_emitters
            /\ link[d] = Links!None \/ c.row.source = "manual"
            /\ links_op' = [links_op EXCEPT ![p] = k] /\ writes' = [writes EXCEPT ![p] = held]
    <2>1. /\ writes'[p] = held /\ DOMAIN held = DOMAIN writes[p] \cup {d} /\ DOMAIN writes' = Links!Procs
          /\ \A x \in DOMAIN held : held[x] = c.row
        BY <1>1, <1>11 DEF LinksInv
    <2> HIDE DEF held
    <2>2. Ends(d) \subseteq links_emitters
        BY <1>5, <1>11 DEF LinksInv
    <2>3. DOMAIN held # {} /\ Passed(k) \ DOMAIN held # {} => Halves(on) \cap raced # {}
        <3> SUFFICES ASSUME NEW y \in Passed(k) \ DOMAIN held PROVE Halves(on) \cap raced # {}
            OBVIOUS
        <3>1. y = Links!Swap(d) /\ y \in Passed(c) \ DOMAIN writes[p]
            BY <1>7, <2>1
        <3>2. /\ c.row.source # "manual"
              /\ link[y] # Links!None \/ y \in raced \/ ~(Ends(y) \subseteq links_emitters)
            BY <1>1, <3>1 DEF AddingOK
        <3>3. link[d] = Links!None
            BY <1>11, <3>2
        <3>4. link[y] # link[d] \/ y \in raced
            BY <1>9, <2>2, <3>1, <3>2, <3>3
        <3>5. QED
            BY <1>5, <1>9, <3>1, <3>4 DEF LinksInv, Links!HalfLinksAreRaced, Halves
    <2>4. AddingOK(p, k)'
        <3>1. \A x \in DOMAIN held : /\ Ends(x) \subseteq links_emitters
                                     /\ c.row.source # "manual" => link[x] = Links!None
            BY <1>1, <1>11, <2>1, <2>2 DEF AddingOK
        <3>2. \A x \in Passed(k) \ DOMAIN held :
                  /\ c.row.source # "manual"
                  /\ link[x] # Links!None \/ x \in raced \/ ~(Ends(x) \subseteq links_emitters)
            BY <1>1, <1>7, <2>1 DEF AddingOK
        <3>3. DOMAIN held \subseteq Passed(k)
            BY <1>1, <1>7, <2>1 DEF AddingOK
        <3>4. k.row \in LinkRows /\ (k.row.source = "manual" => p = "operator")
            BY <1>1, <1>6 DEF AddingOK
        <3>5. QED
            BY <1>2, <1>3, <1>5, <1>6, <2>1, <2>3, <3>1, <3>2, <3>3, <3>4 DEF AddingOK, Ends
    <2>5. LinkCallOK(p, k)'
        BY <1>6, <1>10, <2>4 DEF LinkCallOK
    <2>6. \A q \in Links!Procs \ {p} : /\ writes'[q] = writes[q]
                                       /\ DOMAIN writes'[p] \cap DOMAIN writes[q] = {}
        BY <1>2, <1>5, <1>11, <2>1 DEF LinksInv, Links!LockedFrom
    <2>7. QED
        BY <1>2, <1>6, <1>11, <2>1, <2>5, <2>6, LinkCallMoves
<1>12. CASE /\ link[d] # Links!None /\ c.row.source # "manual"
            /\ links_op' = [links_op EXCEPT ![p] = k] /\ writes' = writes
    <2>1. DOMAIN writes[p] # {} => Halves(on) \cap raced # {}
        <3> SUFFICES ASSUME NEW y \in DOMAIN writes[p] PROVE Halves(on) \cap raced # {}
            OBVIOUS
        <3>1. y = Links!Swap(d) /\ link[y] = Links!None
            BY <1>1, <1>7, <1>12 DEF AddingOK
        <3>2. QED
            BY <1>5, <1>9, <1>12, <3>1 DEF LinksInv, Links!HalfLinksAreRaced, Halves
    <2>2. AddingOK(p, k)'
        BY <1>1, <1>2, <1>3, <1>5, <1>6, <1>7, <1>12, <2>1 DEF AddingOK, Halves, Ends
    <2>3. LinkCallOK(p, k)'
        BY <1>6, <1>10, <2>2 DEF LinkCallOK
    <2>4. QED
        BY <1>2, <1>6, <1>12, <2>3, LinkCallMoves DEF LinksInv
<1>13. \/ links_op' = [links_op EXCEPT ![p] = Links!Idle] /\ writes' = [writes EXCEPT ![p] = Links!NoWrites]
       \/ /\ ~(link[d] = Links!None /\ ~({d[1], d[2]} \subseteq links_emitters))
          /\ links_op' = [links_op EXCEPT ![p] = k]
          /\ writes' = IF link[d] = Links!None \/ links_op[p].row.source = "manual"
                       THEN [writes EXCEPT ![p] = held] ELSE writes
    BY <1>1, <1>5, <1>6 DEF Links!Insert
<1>14. QED
    BY <1>1, <1>8, <1>11, <1>12, <1>13 DEF Ends

LEMMA DeleteRowSteps ==
    ASSUME LinksInv, NEW p \in Links!Callers, NEW d \in Links!Directions, Links!DeleteRow(p, d)
    PROVE  LinksInv'
<1> DEFINE held == [x \in DOMAIN writes[p] \cup {d} |-> Links!None]
<1>1. p \in Links!Procs
    BY DEF Links!Procs
<1>2. PICK c \in LinkCalls : /\ c = links_op[p] /\ c.stage = "delete" /\ d \in c.left
                             /\ RemovingOK(p, c) /\ UnlinkingOK(p, c)
    BY <1>1 DEF Links!DeleteRow, LinksInv, LinkCallOK
<1>3. /\ links_op' = [links_op EXCEPT ![p].left = @ \ {d}] /\ writes' = [writes EXCEPT ![p] = held]
      /\ ~Links!LockedFrom(p, d) /\ UNCHANGED <<links_emitters, link, raced, confirmed>>
    BY DEF Links!DeleteRow
<1>4. PICK k \in LinkCalls : /\ links_op' = [links_op EXCEPT ![p] = k]
                             /\ k.stage = "delete" /\ k.on = c.on /\ k.left = c.left \ {d}
    <2> DEFINE x == [c EXCEPT !.left = c.left \ {d}]
    <2>1. x \in LinkCalls /\ x.stage = c.stage /\ x.on = c.on /\ x.left = c.left \ {d}
        BY DEF LinkCalls
    <2>2. links_op' = [links_op EXCEPT ![p] = x]
        BY <1>2, <1>3
    <2> HIDE DEF x
    <2>3. QED
        BY <1>2, <2>1, <2>2
<1>5. /\ writes'[p] = held /\ DOMAIN held = DOMAIN writes[p] \cup {d} /\ DOMAIN writes' = Links!Procs
      /\ \A x \in DOMAIN held : held[x] = Links!None
    BY <1>1, <1>3 DEF LinksInv
<1> HIDE DEF held
<1>6. RemovingOK(p, k)'
    BY <1>2, <1>3, <1>4, <1>5 DEF RemovingOK, Halves
<1>7. AddingOK(p, k)' /\ UnlinkingOK(p, k)'
    BY <1>2, <1>3, <1>4 DEF AddingOK, UnlinkingOK, Halves
<1>8. LinkCallOK(p, k)'
    BY <1>4, <1>6, <1>7 DEF LinkCallOK
<1>9. \A q \in Links!Procs \ {p} : /\ writes'[q] = writes[q]
                                   /\ DOMAIN writes'[p] \cap DOMAIN writes[q] = {}
    BY <1>1, <1>3, <1>5 DEF LinksInv, Links!LockedFrom
<1>10. QED
    BY <1>1, <1>3, <1>4, <1>5, <1>8, <1>9, LinkCallMoves

\* What a transaction holds when it commits: both halves of its link with one row, or some that
\* differ by a race.
LEMMA CommittedRows ==
    ASSUME LinksInv, NEW p \in Links!Procs, Links!Commit(p)
    PROVE  /\ links_op[p].stage \in {"insert", "delete"} /\ links_op[p].on \in Links!Directions
           /\ DOMAIN writes[p] \subseteq Halves(links_op[p].on)
           /\ \A d \in DOMAIN writes[p] : writes[p][d] \in LinkRows \cup {Links!None}
           /\ \A d \in DOMAIN writes[p] : writes[p][d] # Links!None => Ends(d) \subseteq links_emitters
           /\ \A d \in DOMAIN writes[p] : Links!Swap(d) \in DOMAIN writes[p] => writes[p][d] = writes[p][Links!Swap(d)]
           /\ \A d \in DOMAIN writes[p] :
                  writes[p][d].state = "verified" => p = "operator" /\ Links!Swap(d) \in DOMAIN writes[p]
           /\ \A d \in DOMAIN writes[p] : Links!Swap(d) \notin DOMAIN writes[p] =>
                  \/ {d, Links!Swap(d)} \cap raced # {}
                  \/ writes[p][d] = Links!None /\ link[Links!Swap(d)] = Links!None
           /\ \A d \in DOMAIN writes[p] : writes[p][d] # Links!None /\ p # "operator" => link[d] = Links!None
           /\ \A d \in DOMAIN writes[p] : writes[p][d] = Links!None =>
                  /\ links_op[p].stage = "delete" /\ p \in Links!Callers
                  /\ p = "agent" /\ link[d].state = "verified" => d \in confirmed \/ link[d] # link[Links!Swap(d)]
<1>1. PICK c \in LinkCalls : c = links_op[p] /\ LinkCallOK(p, c) /\ AddingOK(p, c) /\ RemovingOK(p, c)
                                             /\ UnlinkingOK(p, c)
    BY DEF LinksInv, LinkCallOK
<1>2. CASE c.stage = "insert"
    <2>1. c.next = <<>> /\ Passed(c) = Halves(c.on)
        BY <1>1, <1>2 DEF Links!Commit, Passed
    <2>2. PICK on \in Links!Directions : on = c.on
        BY <1>1, <1>2 DEF AddingOK
    <2>3. Links!Swap(on) \in Links!Directions /\ Links!Swap(on) # on /\ Links!Swap(Links!Swap(on)) = on
        BY SwapTwice
    <2>4. \A d \in Halves(on) : Halves(d) = Halves(on) /\ Links!Swap(d) \in Halves(on)
        BY <2>3 DEF Halves
    <2>5. \A d \in DOMAIN writes[p] : Links!Swap(d) \notin DOMAIN writes[p] => Halves(d) \cap raced # {}
        BY <1>1, <1>2, <2>1, <2>2, <2>4 DEF AddingOK
    <2>6. \A d \in DOMAIN writes[p] : Links!Swap(d) \notin DOMAIN writes[p] => c.row.source # "manual"
        BY <1>1, <1>2, <2>1, <2>2, <2>4 DEF AddingOK
    <2>7. c.row # Links!None /\ (c.row.source = "manual" <=> c.row.state = "verified")
        BY <1>1, <1>2, RowsAreLinks DEF AddingOK
    <2>8. /\ c.row \in LinkRows /\ DOMAIN writes[p] \subseteq Halves(c.on)
          /\ \A d \in DOMAIN writes[p] : /\ writes[p][d] = c.row /\ Ends(d) \subseteq links_emitters
                                         /\ c.row.source # "manual" => link[d] = Links!None
          /\ c.row.source = "manual" => p = "operator"
        BY <1>1, <1>2, <2>1 DEF AddingOK
    <2>9. QED
        BY <1>1, <1>2, <2>2, <2>5, <2>6, <2>7, <2>8 DEF Halves
<1>3. CASE c.stage = "delete"
    <2>1. c.left = {}
        BY <1>1, <1>3 DEF Links!Commit
    <2>2. PICK on \in Links!Directions : on = c.on
        BY <1>1, <1>3 DEF RemovingOK
    <2>3. Links!Swap(on) \in Links!Directions /\ Links!Swap(on) # on /\ Links!Swap(Links!Swap(on)) = on
        BY SwapTwice
    <2>4. \A d \in Halves(on) : Halves(d) = Halves(on) /\ Links!Swap(d) \in Halves(on)
        BY <2>3 DEF Halves
    <2>5. /\ DOMAIN writes[p] \subseteq Halves(on) /\ \A d \in DOMAIN writes[p] : writes[p][d] = Links!None
          /\ \A d \in Halves(on) \ DOMAIN writes[p] : link[d] = Links!None \/ d \in raced
          /\ p \in Links!Callers
        BY <1>1, <1>3, <2>1, <2>2 DEF RemovingOK
    <2>6. p = "agent" => \A d \in Halves(on) :
              link[d].state = "verified" => d \in confirmed \/ link[d] # link[Links!Swap(d)]
        BY <1>1, <1>3, <2>2 DEF UnlinkingOK
    <2>7. QED
        BY <1>1, <1>3, <2>2, <2>4, <2>5, <2>6, RowsAreLinks
<1>4. QED
    BY <1>1, <1>2, <1>3 DEF Links!Commit

\* A link changes only where a transaction wrote it, or falls with an emitter; the races that
\* concern a call in progress, or halves that differ, are kept.
LEMMA CommitFacts ==
    ASSUME LinksInv, NEW p \in Links!Procs, Links!Commit(p)
    PROVE  /\ \A d \in Links!Directions :
                  link'[d] = IF d \in DOMAIN writes[p] THEN writes[p][d] ELSE link[d]
           /\ \A d \in raced : \/ Links!Meets(p, d, "insert") \/ Links!Meets(p, d, "delete")
                               \/ link'[d] # link'[Links!Swap(d)]
                               => d \in raced'
           /\ \A d \in DOMAIN writes[p] :
                  /\ writes[p][d] = Links!None /\ Links!Meets(p, d, "insert") => d \in raced'
                  /\ writes[p][d] # Links!None /\ Links!Meets(p, d, "delete") => d \in raced'
           /\ confirmed' = confirmed \cup {d \in DOMAIN writes[p] : writes[p][d].state = "verified"}
           /\ UNCHANGED links_emitters /\ writes' = [writes EXCEPT ![p] = Links!NoWrites]
BY DEF Links!Commit

LEMMA CommittedLinks ==
    ASSUME LinksInv, NEW p \in Links!Procs, Links!Commit(p)
    PROVE  /\ link' \in [Links!Directions -> LinkRows \cup {Links!None}]
           /\ \A d \in Links!Directions : link'[d] # Links!None => Ends(d) \subseteq links_emitters'
           /\ Links!HalfLinksAreRaced'
<1>1. link' \in [Links!Directions -> LinkRows \cup {Links!None}]
    <2>1. link' = [d \in Links!Directions |-> IF d \in DOMAIN writes[p] THEN writes[p][d] ELSE link[d]]
        BY DEF Links!Commit
    <2>2. QED
        BY <2>1, CommittedRows DEF LinksInv
<1>2. \A d \in Links!Directions : link'[d] # Links!None => Ends(d) \subseteq links_emitters'
    BY CommittedRows, CommitFacts DEF LinksInv
<1>3. ASSUME NEW d \in Links!Directions, link'[d] # link'[Links!Swap(d)], d \in DOMAIN writes[p],
             Links!Swap(d) \notin DOMAIN writes[p]
      PROVE  Halves(d) \cap raced' # {}
    <2>1. Links!Swap(d) \in Links!Directions /\ Links!Swap(Links!Swap(d)) = d
        BY SwapTwice
    <2>2. link'[d] = writes[p][d] /\ link'[Links!Swap(d)] = link[Links!Swap(d)]
        BY <1>3, <2>1, CommitFacts
    <2>3. Halves(d) \cap raced # {}
        BY <1>3, <2>2, CommittedRows DEF Halves
    <2>4. QED
        BY <1>3, <2>1, <2>3, CommitFacts DEF Halves
<1>4. ASSUME NEW d \in Links!Directions, link'[d] # link'[Links!Swap(d)]
      PROVE  Halves(d) \cap raced' # {}
    <2>1. /\ Links!Swap(d) \in Links!Directions /\ Links!Swap(Links!Swap(d)) = d
          /\ Halves(Links!Swap(d)) = Halves(d)
        BY SwapTwice DEF Halves
    <2>2. CASE d \in DOMAIN writes[p] /\ Links!Swap(d) \in DOMAIN writes[p]
        BY <1>4, <2>1, <2>2, CommittedRows, CommitFacts
    <2>3. CASE d \in DOMAIN writes[p] /\ Links!Swap(d) \notin DOMAIN writes[p]
        BY <1>3, <1>4, <2>3
    <2>4. CASE d \notin DOMAIN writes[p] /\ Links!Swap(d) \in DOMAIN writes[p]
        BY <1>3, <1>4, <2>1, <2>4
    <2>5. CASE d \notin DOMAIN writes[p] /\ Links!Swap(d) \notin DOMAIN writes[p]
        <3>1. link'[d] = link[d] /\ link'[Links!Swap(d)] = link[Links!Swap(d)]
            BY <2>1, <2>5, CommitFacts
        <3>2. Halves(d) \cap raced # {}
            BY <1>4, <3>1 DEF LinksInv, Links!HalfLinksAreRaced, Halves
        <3>3. QED
            BY <1>4, <2>1, <3>2, CommitFacts DEF Halves
    <2>6. QED
        BY <2>2, <2>3, <2>4, <2>5
<1>5. Links!HalfLinksAreRaced'
    BY <1>4 DEF Links!HalfLinksAreRaced, Halves
<1>6. QED
    BY <1>1, <1>2, <1>5

\* A call in progress keeps the races that concern it, when another commits.
LEMMA RacesAreKept ==
    ASSUME LinksInv, NEW p \in Links!Procs, Links!Commit(p), NEW q \in Links!Procs \ {p},
           links_op[q].stage \in {"insert", "delete"}, NEW d \in Halves(links_op[q].on),
           links_op[q].on \in Links!Directions
    PROVE  /\ d \in raced => d \in raced'
           /\ Links!Meets(p, d, links_op[q].stage)
<1>1. links_op[q].on \in {d, Links!Swap(d)}
    BY SwapTwice DEF Halves
<1>2. Links!Meets(p, d, links_op[q].stage)
    BY <1>1 DEF Links!Meets
<1>3. QED
    BY <1>2, CommitFacts

LEMMA OthersAtCommit ==
    ASSUME LinksInv, NEW p \in Links!Procs, Links!Commit(p), NEW q \in Links!Procs \ {p},
           NEW k \in LinkCalls, k.stage = links_op[q].stage, k.on = links_op[q].on, k.row = links_op[q].row,
           k.next = links_op[q].next,
           k.left = links_op[q].left \ {d \in DOMAIN writes[p] : writes[p][d] = Links!None}
    PROVE  LinkCallOK(q, k)'
<1> DEFINE gone == {d \in DOMAIN writes[p] : writes[p][d] = Links!None}
<1>1. /\ LinkCallOK(q, links_op[q]) /\ AddingOK(q, links_op[q]) /\ RemovingOK(q, links_op[q])
      /\ UnlinkingOK(q, links_op[q]) /\ DOMAIN writes[p] \cap DOMAIN writes[q] = {}
    BY DEF LinksInv, LinkCallOK
<1>2. writes'[q] = writes[q] /\ UNCHANGED links_emitters
    BY CommitFacts DEF LinksInv
<1>3. Passed(k) = Passed(links_op[q])
    BY DEF Passed
<1>4. AddingOK(q, k)'
    <2> SUFFICES ASSUME k.stage = "insert" PROVE AddingOK(q, k)'
        BY DEF AddingOK
    <2>1. PICK on \in Links!Directions : on = k.on
        BY <1>1 DEF AddingOK
    <2>2. Links!Swap(on) \in Links!Directions
        BY SwapTwice
    <2>3. /\ k.row \in LinkRows /\ (k.row.source = "manual" => q = "operator")
          /\ k.next \in {<<on, Links!Swap(on)>>, <<Links!Swap(on)>>, <<>>}
          /\ DOMAIN writes[q] \subseteq Passed(k) /\ Passed(k) \subseteq Halves(on)
        BY <1>1, <1>3, <2>1 DEF AddingOK, Passed, Halves
    <2>4. \A d \in Halves(on) : (d \in raced => d \in raced') /\ Links!Meets(p, d, "insert")
        <3>1. on = links_op[q].on /\ links_op[q].stage = "insert"
            BY <2>1
        <3> SUFFICES ASSUME NEW d \in Halves(links_op[q].on)
                     PROVE  (d \in raced => d \in raced') /\ Links!Meets(p, d, links_op[q].stage)
            BY <3>1
        <3>2. QED
            BY <3>1, RacesAreKept
    <2>5. \A d \in DOMAIN writes[q] : link'[d] = link[d]
        BY <1>1, <2>2, <2>3, CommitFacts DEF Halves
    <2>6. \A d \in DOMAIN writes[q] : /\ writes[q][d] = k.row /\ Ends(d) \subseteq links_emitters
                                      /\ k.row.source # "manual" => link'[d] = Links!None
        BY <1>1, <2>5 DEF AddingOK
    <2>7. \A d \in Passed(k) \ DOMAIN writes[q] :
              /\ k.row.source # "manual"
              /\ link'[d] # Links!None \/ d \in raced' \/ ~(Ends(d) \subseteq links_emitters)
        <3> SUFFICES ASSUME NEW d \in Passed(k) \ DOMAIN writes[q]
                     PROVE  /\ k.row.source # "manual"
                            /\ link'[d] # Links!None \/ d \in raced' \/ ~(Ends(d) \subseteq links_emitters)
            OBVIOUS
        <3>1. /\ k.row.source # "manual"
              /\ link[d] # Links!None \/ d \in raced \/ ~(Ends(d) \subseteq links_emitters)
            BY <1>1, <1>3 DEF AddingOK
        <3>2. d \in Halves(on) /\ d \in Links!Directions
            BY <2>2, <2>3 DEF Halves
        <3>3. link'[d] = Links!None => link[d] = Links!None \/ d \in raced'
            BY <2>4, <3>2, CommitFacts
        <3>4. QED
            BY <2>4, <3>1, <3>2, <3>3
    <2>8. DOMAIN writes[q] # {} /\ Passed(k) \ DOMAIN writes[q] # {} => Halves(on) \cap raced' # {}
        BY <1>1, <1>3, <2>1, <2>4 DEF AddingOK
    <2>9. QED
        BY <1>2, <2>1, <2>3, <2>6, <2>7, <2>8 DEF AddingOK, Halves, Passed, Ends
<1>5. RemovingOK(q, k)'
    <2> SUFFICES ASSUME k.stage = "delete" PROVE RemovingOK(q, k)'
        BY DEF RemovingOK
    <2>1. PICK on \in Links!Directions : on = k.on
        BY <1>1 DEF RemovingOK
    <2>2. Links!Swap(on) \in Links!Directions
        BY SwapTwice
    <2>3. \A d \in Halves(on) : (d \in raced => d \in raced') /\ Links!Meets(p, d, "delete")
        <3>1. on = links_op[q].on /\ links_op[q].stage = "delete"
            BY <2>1
        <3> SUFFICES ASSUME NEW d \in Halves(links_op[q].on)
                     PROVE  (d \in raced => d \in raced') /\ Links!Meets(p, d, links_op[q].stage)
            BY <3>1
        <3>2. QED
            BY <3>1, RacesAreKept
    <2>4. /\ q \in Links!Callers /\ k.left \subseteq Halves(on) /\ DOMAIN writes[q] \subseteq Halves(on) \ k.left
          /\ \A d \in DOMAIN writes[q] : writes[q][d] = Links!None
        BY <1>1, <2>1 DEF RemovingOK
    <2>5. \A d \in (Halves(on) \ k.left) \ DOMAIN writes[q] : link'[d] = Links!None \/ d \in raced'
        <3> SUFFICES ASSUME NEW d \in (Halves(on) \ k.left) \ DOMAIN writes[q]
                     PROVE  link'[d] = Links!None \/ d \in raced'
            OBVIOUS
        <3>1. d \in Links!Directions /\ (link[d] = Links!None \/ d \in raced \/ d \in gone)
            BY <1>1, <2>1, <2>2 DEF RemovingOK, Halves
        <3>2. QED
            BY <2>3, <3>1, CommitFacts
    <2>6. QED
        BY <1>2, <2>1, <2>4, <2>5 DEF RemovingOK, Halves
<1>6. UnlinkingOK(q, k)'
    <2> SUFFICES ASSUME q = "agent", k.stage \in {"unlink", "delete"} PROVE UnlinkingOK(q, k)'
        BY DEF UnlinkingOK
    <2>1. PICK on \in Links!Directions : on = k.on
        BY <1>1 DEF UnlinkingOK
    <2>2. \A d \in Halves(on) : link[d].state = "verified" => d \in confirmed \/ link[d] # link[Links!Swap(d)]
        BY <1>1, <2>1 DEF UnlinkingOK
    <2>3. ASSUME NEW d \in Halves(on), link'[d].state = "verified", d \notin confirmed'
          PROVE  link'[d] # link'[Links!Swap(d)]
        <3>1. d \in Links!Directions /\ Links!Swap(d) \in Links!Directions /\ Links!Swap(Links!Swap(d)) = d
            BY SwapTwice DEF Halves
        <3>2. d \notin DOMAIN writes[p] /\ link'[d] = link[d] /\ d \notin confirmed
            BY <2>3, <3>1, CommitFacts
        <3>3. link[d] # link[Links!Swap(d)]
            BY <2>2, <2>3, <3>2
        <3>4. Links!Swap(d) \in DOMAIN writes[p] => link'[Links!Swap(d)].state # "verified"
            BY <3>1, <3>2, CommitFacts, CommittedRows
        <3>5. QED
            BY <2>3, <3>1, <3>2, <3>3, <3>4, CommitFacts
    <2>4. QED
        BY <2>1, <2>3 DEF UnlinkingOK, Halves
<1>7. k.stage \notin {"insert", "delete"} => DOMAIN writes'[q] = {}
    BY <1>1, <1>2 DEF LinkCallOK
<1>8. QED
    BY <1>4, <1>5, <1>6, <1>7 DEF LinkCallOK

LEMMA CommitSteps ==
    ASSUME LinksInv, NEW p \in Links!Procs, Links!Commit(p)
    PROVE  LinksInv'
<1> DEFINE gone == {d \in DOMAIN writes[p] : writes[p][d] = Links!None}
           done == IF p = "pass" THEN [links_op[p] EXCEPT !.stage = "record"] ELSE Links!Idle
           thinned(q) == [links_op[q] EXCEPT !.left = links_op[q].left \ gone]
<1>1. links_op' = [q \in Links!Procs |-> IF q = p THEN done ELSE thinned(q)]
    BY DEF Links!Commit
<1>2. done \in LinkCalls /\ done.stage \in {"idle", "record"}
    <2>1. links_op[p] \in LinkCalls
        BY DEF LinksInv
    <2>2. CASE p = "pass"
        BY <2>1, <2>2 DEF LinkCalls
    <2>3. CASE p # "pass"
        BY <2>3, IdleLinkCall
    <2>4. QED
        BY <2>2, <2>3
<1>3. \A q \in Links!Procs \ {p} :
          /\ thinned(q) \in LinkCalls /\ thinned(q).stage = links_op[q].stage /\ thinned(q).on = links_op[q].on
          /\ thinned(q).row = links_op[q].row /\ thinned(q).next = links_op[q].next
          /\ thinned(q).left = links_op[q].left \ gone
    <2> SUFFICES ASSUME NEW q \in Links!Procs \ {p}
                 PROVE  /\ thinned(q) \in LinkCalls /\ thinned(q).stage = links_op[q].stage
                        /\ thinned(q).on = links_op[q].on /\ thinned(q).row = links_op[q].row
                        /\ thinned(q).next = links_op[q].next /\ thinned(q).left = links_op[q].left \ gone
        OBVIOUS
    <2>1. links_op[q] \in LinkCalls
        BY DEF LinksInv
    <2> HIDE DEF gone
    <2>2. QED
        BY <2>1 DEF LinkCalls
<1> HIDE DEF done, thinned
<1>4. links_op' \in [Links!Procs -> LinkCalls]
    BY <1>1, <1>2, <1>3
<1>5. /\ DOMAIN writes' = Links!Procs /\ DOMAIN writes'[p] = {}
      /\ \A q \in Links!Procs \ {p} : writes'[q] = writes[q]
    BY CommitFacts, NothingWritten DEF LinksInv
<1>6. \A q \in Links!Procs : LinkCallOK(q, links_op[q])'
    <2>1. ASSUME NEW q \in Links!Procs \ {p} PROVE LinkCallOK(q, links_op[q])'
        <3>1. PICK k \in LinkCalls : k = thinned(q) /\ links_op'[q] = k
            BY <1>1, <1>3
        <3>2. LinkCallOK(q, k)'
            BY <1>3, <3>1, OthersAtCommit
        <3>3. QED
            BY <3>1, <3>2
    <2>2. LinkCallOK(p, links_op[p])'
        <3>1. PICK k \in LinkCalls : k = done /\ links_op'[p] = k
            BY <1>1, <1>2
        <3>2. LinkCallOK(p, k)'
            BY <1>2, <1>5, <3>1 DEF LinkCallOK, AddingOK, RemovingOK, UnlinkingOK
        <3>3. QED
            BY <3>1, <3>2
    <2>3. QED
        BY <2>1, <2>2
<1>7. \A q, r \in Links!Procs : q # r => DOMAIN writes'[q] \cap DOMAIN writes'[r] = {}
    BY <1>5 DEF LinksInv
<1>8. QED
    BY <1>4, <1>5, <1>6, <1>7, CommittedLinks DEF LinksInv

LEMMA DeleteEmitterSteps ==
    ASSUME LinksInv, NEW p \in Links!Callers, NEW e \in Links!Emitters, Links!DeleteEmitter(p, e)
    PROVE  LinksInv'
<1> DEFINE theirs == {d \in Links!Directions : e \in {d[1], d[2]}}
           thinned(q) == [links_op[q] EXCEPT !.left = links_op[q].left \ theirs]
<1>1. /\ p \in Links!Procs /\ links_op[p] = Links!Idle /\ \A d \in theirs : ~Links!LockedFrom(p, d)
      /\ links_emitters' = links_emitters \ {e}
      /\ link' = [d \in Links!Directions |-> IF d \in theirs THEN Links!None ELSE link[d]]
      /\ links_op' = [q \in Links!Procs |-> thinned(q)]
      /\ UNCHANGED <<writes, raced, confirmed>>
    BY DEF Links!DeleteEmitter, Links!Procs
<1>2. \A q \in Links!Procs : DOMAIN writes[q] \cap theirs = {}
    <2>1. DOMAIN writes[p] = {}
        BY <1>1, IdleHoldsNothing, IdleLinkCall
    <2>2. QED
        BY <1>1, <2>1 DEF Links!LockedFrom
<1>3. \A d \in Links!Directions : d \in theirs <=> e \in Ends(d)
    BY DEF Ends
<1>4. \A d \in Links!Directions : /\ Links!Swap(d) \in Links!Directions
                                  /\ Links!Swap(d) \in theirs <=> d \in theirs
    BY <1>3, SwapTwice
<1>5. \A q \in Links!Procs :
          /\ thinned(q) \in LinkCalls /\ thinned(q).stage = links_op[q].stage /\ thinned(q).on = links_op[q].on
          /\ thinned(q).row = links_op[q].row /\ thinned(q).next = links_op[q].next
          /\ thinned(q).left = links_op[q].left \ theirs
    <2> SUFFICES ASSUME NEW q \in Links!Procs
                 PROVE  /\ thinned(q) \in LinkCalls /\ thinned(q).stage = links_op[q].stage
                        /\ thinned(q).on = links_op[q].on /\ thinned(q).row = links_op[q].row
                        /\ thinned(q).next = links_op[q].next /\ thinned(q).left = links_op[q].left \ theirs
        OBVIOUS
    <2>1. links_op[q] \in LinkCalls
        BY DEF LinksInv
    <2> HIDE DEF theirs
    <2>2. QED
        BY <2>1 DEF LinkCalls
<1> HIDE DEF thinned, theirs
<1>6. \A d \in Links!Directions : link'[d] = IF d \in theirs THEN Links!None ELSE link[d]
    BY <1>1
<1>7. \A q \in Links!Procs : LinkCallOK(q, links_op[q])'
    <2> SUFFICES ASSUME NEW q \in Links!Procs PROVE LinkCallOK(q, links_op[q])'
        OBVIOUS
    <2>1. PICK k \in LinkCalls : k = thinned(q) /\ links_op'[q] = k
        BY <1>1, <1>5
    <2>2. /\ LinkCallOK(q, links_op[q]) /\ AddingOK(q, links_op[q]) /\ RemovingOK(q, links_op[q])
          /\ UnlinkingOK(q, links_op[q])
        BY DEF LinksInv, LinkCallOK
    <2>3. /\ k.stage = links_op[q].stage /\ k.on = links_op[q].on /\ k.row = links_op[q].row
          /\ k.next = links_op[q].next /\ k.left = links_op[q].left \ theirs
          /\ Passed(k) = Passed(links_op[q])
        BY <1>5, <2>1 DEF Passed
    <2>4. AddingOK(q, k)'
        <3> SUFFICES ASSUME k.stage = "insert" PROVE AddingOK(q, k)'
            BY DEF AddingOK
        <3>1. PICK on \in Links!Directions : on = k.on
            BY <2>2, <2>3 DEF AddingOK
        <3>2. Passed(k) \subseteq Links!Directions
            BY <3>1, SwapTwice DEF Passed, Halves
        <3>3. /\ k.row \in LinkRows /\ (k.row.source = "manual" => q = "operator")
              /\ k.next \in {<<on, Links!Swap(on)>>, <<Links!Swap(on)>>, <<>>}
              /\ DOMAIN writes[q] \subseteq Passed(k)
              /\ DOMAIN writes[q] # {} /\ Passed(k) \ DOMAIN writes[q] # {} => Halves(on) \cap raced # {}
            BY <2>2, <2>3, <3>1 DEF AddingOK
        <3>4. \A d \in DOMAIN writes[q] : /\ writes[q][d] = k.row /\ Ends(d) \subseteq links_emitters'
                                          /\ k.row.source # "manual" => link'[d] = Links!None
            <4> SUFFICES ASSUME NEW d \in DOMAIN writes[q]
                         PROVE  /\ writes[q][d] = k.row /\ Ends(d) \subseteq links_emitters'
                                /\ k.row.source # "manual" => link'[d] = Links!None
                OBVIOUS
            <4>1. d \in Links!Directions /\ d \notin theirs /\ e \notin Ends(d) /\ link'[d] = link[d]
                BY <1>2, <1>3, <1>6, <3>2, <3>3
            <4>2. QED
                BY <1>1, <2>2, <2>3, <4>1 DEF AddingOK
        <3>5. \A d \in Passed(k) \ DOMAIN writes[q] :
                  /\ k.row.source # "manual"
                  /\ link'[d] # Links!None \/ d \in raced \/ ~(Ends(d) \subseteq links_emitters')
            <4> SUFFICES ASSUME NEW d \in Passed(k) \ DOMAIN writes[q]
                         PROVE  /\ k.row.source # "manual"
                                /\ link'[d] # Links!None \/ d \in raced \/ ~(Ends(d) \subseteq links_emitters')
                OBVIOUS
            <4>1. /\ k.row.source # "manual"
                  /\ link[d] # Links!None \/ d \in raced \/ ~(Ends(d) \subseteq links_emitters)
                BY <2>2, <2>3 DEF AddingOK
            <4>2. d \in theirs => e \in Ends(d)
                BY <1>3, <3>2
            <4>3. QED
                BY <1>1, <1>6, <3>2, <4>1, <4>2
        <3>6. QED
            BY <1>1, <3>1, <3>3, <3>4, <3>5 DEF AddingOK, Halves, Passed, Ends
    <2>5. RemovingOK(q, k)'
        <3> SUFFICES ASSUME k.stage = "delete" PROVE RemovingOK(q, k)'
            BY DEF RemovingOK
        <3>1. PICK on \in Links!Directions : on = k.on
            BY <2>2, <2>3 DEF RemovingOK
        <3>2. \A d \in Halves(on) : d \in Links!Directions
            BY SwapTwice DEF Halves
        <3>3. \A d \in (Halves(on) \ k.left) \ DOMAIN writes[q] : link'[d] = Links!None \/ d \in raced
            BY <1>6, <2>2, <2>3, <3>1, <3>2 DEF RemovingOK
        <3>4. QED
            BY <1>1, <2>2, <2>3, <3>1, <3>3 DEF RemovingOK, Halves
    <2>6. UnlinkingOK(q, k)'
        <3> SUFFICES ASSUME q = "agent", k.stage \in {"unlink", "delete"} PROVE UnlinkingOK(q, k)'
            BY DEF UnlinkingOK
        <3>1. PICK on \in Links!Directions : on = k.on
            BY <2>2, <2>3 DEF UnlinkingOK
        <3>2. \A d \in Halves(on) : d \in Links!Directions
            BY SwapTwice DEF Halves
        <3>3. \A d \in Halves(on) : link'[d].state = "verified" => d \in confirmed \/ link'[d] # link'[Links!Swap(d)]
            BY <1>4, <1>6, <2>2, <2>3, <3>1, <3>2, RowsAreLinks DEF UnlinkingOK
        <3>4. QED
            BY <1>1, <3>1, <3>3 DEF UnlinkingOK, Halves
    <2>7. QED
        BY <1>1, <2>1, <2>2, <2>3, <2>4, <2>5, <2>6 DEF LinkCallOK
<1>8. link' \in [Links!Directions -> LinkRows \cup {Links!None}]
    BY <1>1 DEF LinksInv
<1>9. \A d \in Links!Directions : link'[d] # Links!None => Ends(d) \subseteq links_emitters'
    BY <1>1, <1>3, <1>6 DEF LinksInv
<1>10. Links!HalfLinksAreRaced'
    BY <1>1, <1>4, <1>6 DEF LinksInv, Links!HalfLinksAreRaced
<1>11. links_op' \in [Links!Procs -> LinkCalls]
    BY <1>1, <1>5
<1>12. QED
    BY <1>1, <1>7, <1>8, <1>9, <1>10, <1>11 DEF LinksInv

\* The pass, between its transactions, holds nothing.
LEMMA PassMoves ==
    ASSUME LinksInv, NEW k \in LinkCalls, k.stage \in {"idle", "load", "pair"},
           links_op' = [links_op EXCEPT !["pass"] = k], links_op["pass"].stage \notin {"insert", "delete"},
           UNCHANGED <<links_emitters, link, raced, writes, confirmed>>
    PROVE  LinksInv'
<1>1. "pass" \in Links!Procs
    BY DEF Links!Procs
<1>2. DOMAIN writes["pass"] = {}
    BY <1>1, IdleHoldsNothing
<1>3. AddingOK("pass", k)' /\ RemovingOK("pass", k)' /\ UnlinkingOK("pass", k)'
    BY DEF AddingOK, RemovingOK, UnlinkingOK
<1>4. QED
    BY <1>1, <1>2, <1>3, FreshCall

LEMMA StageSet ==
    ASSUME NEW k \in LinkCalls, NEW s \in {"load", "pair"}
    PROVE  [k EXCEPT !.stage = s] \in LinkCalls /\ [k EXCEPT !.stage = s].stage = s
BY DEF LinkCalls

LEMMA LinksStutter ==
    ASSUME LinksInv, UNCHANGED <<links_emitters, link, links_op, writes, raced, confirmed>>
    PROVE  LinksInv'
<1>1. \A p \in Links!Procs : LinkCallOK(p, links_op[p])'
    BY DEF LinksInv, LinkCallOK, AddingOK, RemovingOK, UnlinkingOK, Passed, Halves, Ends
<1>2. QED
    BY <1>1 DEF LinksInv, Links!HalfLinksAreRaced

LEMMA Verdicts ==
    ASSUME NEW x, NEW y
    PROVE  Links!ShouldAssociate(x, y) \in {"observed", "inferred", "none"}
BY DEF Links!ShouldAssociate

LEMMA PassSteps ==
    ASSUME LinksInv,
           \/ Links!StartPass \/ Links!PairUp \/ Links!Record \/ Links!EndPass
           \/ \E e \in Links!Emitters : Links!Load(e)
           \/ \E d \in Links!Directions : Links!LookAt(d)
    PROVE  LinksInv'
<1>1. links_op["pass"] \in LinkCalls
    BY DEF LinksInv, Links!Procs
<1>2. ASSUME Links!StartPass PROVE LinksInv'
    <2>1. links_op["pass"] = Links!Idle /\ links_op' = [links_op EXCEPT !["pass"] = [Links!Idle EXCEPT !.stage = "load"]]
        BY <1>2 DEF Links!StartPass, Links!Begin
    <2>2. QED
        BY <1>2, <2>1, StageSet, IdleLinkCall, PassMoves DEF Links!StartPass
<1>3. ASSUME Links!PairUp PROVE LinksInv'
    <2>1. links_op' = [links_op EXCEPT !["pass"] = [links_op["pass"] EXCEPT !.stage = "pair"]]
        BY <1>3 DEF Links!PairUp
    <2>2. links_op["pass"].stage = "load" /\ UNCHANGED <<links_emitters, link, raced, writes, confirmed>>
        BY <1>3 DEF Links!PairUp
    <2>3. QED
        BY <1>1, <2>1, <2>2, StageSet, PassMoves
<1>4. ASSUME Links!Record PROVE LinksInv'
    <2>1. links_op' = [links_op EXCEPT !["pass"] = [Links!Idle EXCEPT !.stage = "pair"]]
        BY <1>4 DEF Links!Record
    <2>2. QED
        BY <1>4, <2>1, StageSet, IdleLinkCall, PassMoves DEF Links!Record
<1>5. ASSUME Links!EndPass PROVE LinksInv'
    BY <1>5, IdleLinkCall, PassMoves DEF Links!EndPass
<1>6. ASSUME NEW e \in Links!Emitters, Links!Load(e) PROVE LinksInv'
    BY <1>6, LinksStutter DEF Links!Load
<1>7. ASSUME NEW d \in Links!Directions, Links!LookAt(d) PROVE LinksInv'
    <2> DEFINE verdict == Links!ShouldAssociate(loaded[d[1]], loaded[d[2]])
    <2>1. /\ links_op["pass"].stage = "pair"
          /\ links_op' = [links_op EXCEPT !["pass"] = IF link[d] # Links!None \/ verdict = "none" THEN @
                                                      ELSE Links!Adding(d, "auto", verdict)]
          /\ UNCHANGED <<links_emitters, link, raced, writes, confirmed>>
        BY <1>7 DEF Links!LookAt
    <2>2. verdict \in {"observed", "inferred", "none"}
        BY Verdicts
    <2> HIDE DEF verdict
    <2>3. "pass" \in Links!Procs
        BY DEF Links!Procs
    <2>4. CASE link[d] # Links!None \/ verdict = "none"
        <3>1. links_op' = links_op
            BY <2>1, <2>4 DEF LinksInv
        <3>2. QED
            BY <2>1, <3>1, LinksStutter
    <2>5. CASE ~(link[d] # Links!None \/ verdict = "none")
        <3>1. links_op' = [links_op EXCEPT !["pass"] = Links!Adding(d, "auto", verdict)]
            BY <2>1, <2>5
        <3>2. verdict \in {"observed", "inferred"} /\ DOMAIN writes["pass"] = {}
            BY <2>1, <2>2, <2>3, <2>5, IdleHoldsNothing
        <3>3. QED
            BY <2>1, <2>3, <3>1, <3>2, AddBegins
    <2>6. QED
        BY <2>4, <2>5
<1>8. QED
    BY <1>2, <1>3, <1>4, <1>5, <1>6, <1>7

LEMMA LinksInitially == RecordsInit => LinksInv
<1> SUFFICES ASSUME RecordsInit PROVE LinksInv
    OBVIOUS
<1>1. Links!Init
    BY DEF RecordsInit
<1>2. \A p \in Links!Procs : links_op[p] = Links!Idle /\ DOMAIN writes[p] = {}
    BY <1>1, NothingWritten DEF Links!Init
<1>3. \A p \in Links!Procs : LinkCallOK(p, links_op[p])
    BY <1>2, IdleLinkCall DEF LinkCallOK, AddingOK, RemovingOK, UnlinkingOK
<1>4. \A d \in Links!Directions : link[d] = Links!None /\ link[Links!Swap(d)] = Links!None
    BY <1>1, SwapTwice DEF Links!Init
<1>5. QED
    BY <1>1, <1>2, <1>3, <1>4, IdleLinkCall DEF LinksInv, Links!Init, Links!HalfLinksAreRaced

LEMMA LinksStep == LinksInv /\ [RecordsNext]_suiteVars => LinksInv'
<1> SUFFICES ASSUME LinksInv, [RecordsNext]_suiteVars PROVE LinksInv'
    OBVIOUS
<1>1. CASE UNCHANGED linksVars
    BY <1>1, LinksStutter DEF linksVars
<1>2. CASE Links!Next
    <2>1. ASSUME NEW e \in Links!Emitters, NEW m \in LateReadings, Links!Observe(e, m) PROVE LinksInv'
        BY <2>1, LinksStutter DEF Links!Observe
    <2>2. ASSUME NEW p \in Links!Procs,
                 Links!Insert(p) \/ Links!Commit(p) \/ Links!Fail(p) \/ Links!Victim(p)
          PROVE  LinksInv'
        BY <2>2, InsertSteps, CommitSteps, FailedLinkSteps
    <2>3. ASSUME NEW d \in Links!Directions,
                 \/ Links!Confirm(d) \/ Links!RemoveAssociation(d) \/ Links!LinkEmitters(d)
                 \/ Links!UnlinkEmitters(d)
          PROVE  LinksInv'
        BY <2>3, ConfirmSteps, RemoveAssociationSteps, UnlinkEmittersSteps
    <2>4. ASSUME Links!Done PROVE LinksInv'
        BY <2>4, LinksStutter DEF Links!Done, Links!vars
    <2>5. QED
        BY <1>2, <2>1, <2>2, <2>3, <2>4, UnlinkRemoveSteps, DeleteEmitterSteps, DeleteRowSteps, PassSteps
        DEF Links!Next
<1>3. QED
    BY <1>1, <1>2 DEF RecordsNext, suiteVars, linksVars

\* Of a verified row that changes: only a commit or a cascade changes rows.
LEMMA WordStands == LinksInv /\ [RecordsNext]_suiteVars => Links!OperatorsWordStands
<1> SUFFICES ASSUME LinksInv, [RecordsNext]_suiteVars, NEW d \in Links!Directions,
                    link[d].state = "verified", link'[d] # link[d]
             PROVE  /\ link'[d] = Links!None
                    /\ \/ ~({d[1], d[2]} \subseteq links_emitters')
                       \/ links_op["operator"].stage = "delete" /\ links_op'["operator"] = Links!Idle
                       \/ d \in confirmed \/ link[d] # link[Links!Swap(d)]
    BY DEF Links!OperatorsWordStands
<1>1. link[d] # Links!None
    BY RowsAreLinks
<1>2. CASE \E p \in Links!Procs : Links!Commit(p)
    <2>1. PICK p \in Links!Procs : Links!Commit(p)
        BY <1>2
    <2>2. d \in DOMAIN writes[p] /\ link'[d] = writes[p][d]
        BY <2>1, CommitFacts
    <2>3. CASE writes[p][d] # Links!None
        <3>1. p = "operator"
            BY <1>1, <2>1, <2>2, <2>3, CommittedRows
        <3>2. link[d] \in LinkRows /\ writes[p][d] \in LinkRows
            BY <1>1, <2>1, <2>2, <2>3, CommittedRows DEF LinksInv
        <3>3. links_op[p].stage = "insert"
            BY <2>1, <2>2, <2>3, CommittedRows DEF LinksInv, LinkCallOK, RemovingOK
        <3>4. links_op[p].row.source = "manual"
            <4>1. \A x \in DOMAIN writes[p] : writes[p][x] = links_op[p].row
                                              /\ (links_op[p].row.source # "manual" => link[x] = Links!None)
                BY <3>3 DEF LinksInv, LinkCallOK, AddingOK
            <4>2. QED
                BY <1>1, <2>2, <4>1
        <3>5. writes[p][d].source = "manual"
            BY <2>2, <3>3, <3>4 DEF LinksInv, LinkCallOK, AddingOK
        <3>6. link[d] = writes[p][d]
            BY <3>2, <3>5 DEF LinkRows
        <3>7. QED
            BY <2>2, <3>6
    <2>4. CASE writes[p][d] = Links!None
        <3>1. /\ links_op[p].stage = "delete" /\ p \in Links!Callers
              /\ p = "agent" => d \in confirmed \/ link[d] # link[Links!Swap(d)]
            BY <2>1, <2>2, <2>4, CommittedRows
        <3>2. CASE p = "operator"
            <4>1. links_op'["operator"] = Links!Idle
                BY <2>1, <3>2 DEF Links!Commit
            <4>2. QED
                BY <2>2, <2>4, <3>1, <3>2, <4>1
        <3>3. QED
            BY <2>2, <2>4, <3>1, <3>2 DEF Links!Callers
    <2>5. QED
        BY <2>3, <2>4
<1>3. CASE \E p \in Links!Callers, e \in Links!Emitters : Links!DeleteEmitter(p, e)
    <2>1. PICK p \in Links!Callers, e \in Links!Emitters : Links!DeleteEmitter(p, e)
        BY <1>3
    <2>2. link'[d] = (IF e \in {d[1], d[2]} THEN Links!None ELSE link[d]) /\ links_emitters' = links_emitters \ {e}
        BY <2>1 DEF Links!DeleteEmitter
    <2>3. QED
        BY <2>2
<1>4. CASE /\ ~\E p \in Links!Procs : Links!Commit(p)
           /\ ~\E p \in Links!Callers, e \in Links!Emitters : Links!DeleteEmitter(p, e)
    <2>1. CASE UNCHANGED linksVars
        BY <2>1 DEF linksVars
    <2>2. CASE Links!Next
        BY <1>4, <2>2
        DEF Links!Next, Links!Observe, Links!Confirm, Links!RemoveAssociation, Links!LinkEmitters,
            Links!UnlinkEmitters, Links!UnlinkRemove, Links!Insert, Links!Fail, Links!Victim, Links!DeleteRow,
            Links!StartPass, Links!Load, Links!PairUp, Links!LookAt, Links!Record, Links!EndPass, Links!Done,
            Links!vars
    <2>3. QED
        BY <2>1, <2>2 DEF RecordsNext, suiteVars, linksVars
<1>5. QED
    BY <1>2, <1>3, <1>4

\* What the tables promise of rows that refer to others holds in every reachable state: stored
\* alert rules are valid, have the methods that were asked for last, and are switched off with
\* their zone; and a link between emitters is half only where an addition met a removal.
THEOREM TablesStayConsistent == RecordsSpec => []TablesAreConsistent
<1>1. RegistryInv /\ LinksInv => TablesAreConsistent
    BY DEF RegistryInv, LinksInv, TablesAreConsistent
<1>2. QED
    BY <1>1, RegistryInitially, RegistryStep, LinksInitially, LinksStep, PTL DEF RecordsSpec

-----------------------------------------------------------------------------
(* What the correlation finds: no pairing of two histories has more events.  *)

\* A way to pair readings at the times A with readings at the times B.
Pairing(P, A, B) ==
    /\ P \subseteq A \X B
    /\ \A x \in P : Links!Apart(x[1], x[2]) =< TimeWindow
    /\ \A x, y \in P : x # y => x[1] # y[1] /\ x[2] # y[2]

FinitelyMany(A) == A \subseteq Nat /\ IsFiniteSet(A)

LEMMA LinksCounts ==
    /\ \A S : Links!Cardinality(S) = Cardinality(S)
    /\ \A S : Links!IsFiniteSet(S) = IsFiniteSet(S)
<1>1. \A S : Links!Cardinality(S) = Cardinality(S)
    BY DEF Links!Cardinality, Cardinality
<1>2. \A S : Links!IsFiniteSet(S) = IsFiniteSet(S)
    BY DEF Links!IsFiniteSet, IsFiniteSet
<1>3. QED
    BY <1>1, <1>2

LEMMA PairingsPair ==
    ASSUME NEW a, NEW b, NEW P
    PROVE  P \in Links!Pairings(a, b) <=> Pairing(P, DOMAIN a, DOMAIN b)
BY DEF Links!Pairings, Pairing

LEMMA PairsAreFinite ==
    ASSUME NEW A, NEW B, FinitelyMany(A), FinitelyMany(B), NEW P, Pairing(P, A, B)
    PROVE  IsFiniteSet(P) /\ Cardinality(P) \in Nat
<1>1. IsFiniteSet(A \X B)
    BY FS_Product DEF FinitelyMany
<1>2. IsFiniteSet(P)
    BY <1>1, FS_Subset DEF Pairing
<1>3. QED
    BY <1>2, FS_CardinalityType

LEMMA LeastTime ==
    ASSUME NEW T, T \subseteq Nat, T # {}
    PROVE  Links!Min(T) \in T /\ \A y \in T : Links!Min(T) =< y
<1> DEFINE R == OpToRel(<, Nat)
<1>1. IsWellFoundedOn(R, Nat)
    BY NatLessThanWellFounded
<1>2. ASSUME NEW x \in T, NEW y \in T, y < x
      PROVE  <<y, x>> \in R
    BY <1>2 DEF OpToRel
<1> HIDE DEF R
<1>3. PICK x \in T : \A y \in T : ~(<<y, x>> \in R)
    BY <1>1, WFMin
<1>4. \A y \in T : x =< y
    <2>1. \A y \in T : ~(y < x)
        BY <1>2, <1>3
    <2>2. QED
        BY <2>1
<1>5. QED
    BY <1>4 DEF Links!Min

\* Using up the earliest two costs a pairing of what is left at most one event: if both are
\* used, and not for each other, those they were used for are within the window too.
LEMMA OneEventLess ==
    ASSUME NEW A, NEW B, FinitelyMany(A), FinitelyMany(B), Links!AssociationsAssumption,
           NEW s \in A, NEW t \in B, \A x \in A : s =< x, \A y \in B : t =< y,
           Links!Apart(s, t) =< TimeWindow, NEW Q, Pairing(Q, A, B)
    PROVE  \E R : Pairing(R, A \ {s}, B \ {t}) /\ Cardinality(Q) =< Cardinality(R) + 1
<1>1. IsFiniteSet(Q) /\ Cardinality(Q) \in Nat
    BY PairsAreFinite
<1>2. CASE \A x \in Q : x[1] # s /\ x[2] # t
    <2>1. Pairing(Q, A \ {s}, B \ {t})
        BY <1>2 DEF Pairing
    <2>2. QED
        BY <1>1, <2>1
<1>3. ASSUME NEW q \in Q, \A x \in Q \ {q} : x[1] # s /\ x[2] # t
      PROVE  \E R : Pairing(R, A \ {s}, B \ {t}) /\ Cardinality(Q) =< Cardinality(R) + 1
    <2>1. Pairing(Q \ {q}, A \ {s}, B \ {t})
        BY <1>3 DEF Pairing
    <2>2. Cardinality(Q \ {q}) = Cardinality(Q) - 1
        BY <1>1, FS_RemoveElement
    <2>3. QED
        BY <1>1, <2>1, <2>2
<1>4. ASSUME NEW q \in Q, NEW r \in Q, q[1] = s, r[2] = t, q # r
      PROVE  \E R : Pairing(R, A \ {s}, B \ {t}) /\ Cardinality(Q) =< Cardinality(R) + 1
    <2> DEFINE e == <<r[1], q[2]>>
               K == (Q \ {q}) \ {r}
    <2>1. /\ q \in A \X B /\ r \in A \X B /\ q[1] # r[1] /\ q[2] # r[2]
          /\ Links!Apart(q[1], q[2]) =< TimeWindow /\ Links!Apart(r[1], r[2]) =< TimeWindow
        BY <1>4 DEF Pairing
    <2>2. Links!Apart(r[1], q[2]) =< TimeWindow
        <3>1. r[1] \in Nat /\ q[2] \in Nat /\ s \in Nat /\ t \in Nat /\ s =< r[1] /\ t =< q[2] /\ TimeWindow \in Nat
            BY <2>1 DEF FinitelyMany, Links!AssociationsAssumption
        <3>2. QED
            BY <1>4, <2>1, <3>1 DEF Links!Apart
    <2>3. \A x \in K : x \in A \X B /\ x[1] # s /\ x[2] # t /\ x[1] # r[1] /\ x[2] # q[2]
        BY <1>4 DEF Pairing
    <2>4. e \in (A \ {s}) \X (B \ {t}) /\ e[1] = r[1] /\ e[2] = q[2]
        BY <1>4, <2>1
    <2> HIDE DEF e
    <2>5. Pairing(K \cup {e}, A \ {s}, B \ {t})
        BY <2>2, <2>3, <2>4 DEF Pairing
    <2>6. IsFiniteSet(K) /\ Cardinality(K) = Cardinality(Q) - 2
        <3>1. IsFiniteSet(Q \ {q}) /\ Cardinality(Q \ {q}) = Cardinality(Q) - 1
            BY <1>1, FS_RemoveElement
        <3>2. IsFiniteSet(K) /\ Cardinality(K) = Cardinality(Q \ {q}) - 1
            BY <1>4, <3>1, FS_RemoveElement
        <3>3. QED
            BY <1>1, <3>1, <3>2
    <2>7. Cardinality(K \cup {e}) = Cardinality(K) + 1
        <3>1. e \notin K
            BY <2>3, <2>4
        <3>2. QED
            BY <2>6, <3>1, FS_AddElement
    <2>8. Cardinality(Q) =< Cardinality(K \cup {e}) + 1
        BY <1>1, <2>6, <2>7
    <2>9. QED
        BY <2>5, <2>8
<1>5. CASE \E q \in Q : q[1] = s
    <2>1. PICK q \in Q : q[1] = s
        BY <1>5
    <2>2. \A x \in Q \ {q} : x[1] # s
        BY <2>1 DEF Pairing
    <2>3. CASE \E r \in Q \ {q} : r[2] = t
        BY <1>4, <2>1, <2>3
    <2>4. CASE \A r \in Q \ {q} : r[2] # t
        BY <1>3, <2>2, <2>4
    <2>5. QED
        BY <2>3, <2>4
<1>6. CASE \A q \in Q : q[1] # s
    <2>1. CASE \E q \in Q : q[2] = t
        <3>1. PICK q \in Q : q[2] = t
            BY <2>1
        <3>2. \A x \in Q \ {q} : x[1] # s /\ x[2] # t
            BY <1>6, <3>1 DEF Pairing
        <3>3. QED
            BY <1>3, <3>2
    <2>2. QED
        BY <1>2, <1>6, <2>1
<1>7. QED
    BY <1>5, <1>6

\* Where the walk over A and B has got to.
WalkOK(w, A, B) ==
    /\ w = [a |-> w.a, b |-> w.b, events |-> w.events]
    /\ w.a \subseteq A /\ w.b \subseteq B
    /\ Pairing(w.events, A \ w.a, B \ w.b)
    /\ \A P : Pairing(P, A, B) =>
           \E Q : Pairing(Q, w.a, w.b) /\ Cardinality(P) =< Cardinality(w.events) + Cardinality(Q)

LEMMA FewerTimes ==
    ASSUME NEW A, FinitelyMany(A), NEW S, S \subseteq A
    PROVE  FinitelyMany(S) /\ Cardinality(S) \in Nat
BY FS_Subset, FS_CardinalityType DEF FinitelyMany

LEMMA WalkAdvances ==
    ASSUME NEW A, NEW B, FinitelyMany(A), FinitelyMany(B), Links!AssociationsAssumption,
           NEW w, WalkOK(w, A, B), w.a # {}, w.b # {}
    PROVE  /\ WalkOK(Links!Advance(w), A, B)
           /\ Cardinality(Links!Advance(w).a) + Cardinality(Links!Advance(w).b)
                  =< Cardinality(w.a) + Cardinality(w.b) - 1
<1>1. PICK s \in w.a : s = Links!Min(w.a) /\ \A x \in w.a : s =< x
    BY LeastTime DEF WalkOK, FinitelyMany
<1>2. PICK t \in w.b : t = Links!Min(w.b) /\ \A y \in w.b : t =< y
    BY LeastTime DEF WalkOK, FinitelyMany
<1>3. /\ FinitelyMany(w.a) /\ Cardinality(w.a) \in Nat /\ FinitelyMany(w.b) /\ Cardinality(w.b) \in Nat
      /\ w.a \subseteq A /\ w.b \subseteq B
    BY FewerTimes DEF WalkOK
<1>4. s \in Nat /\ t \in Nat /\ TimeWindow \in Nat
    BY <1>3 DEF FinitelyMany, Links!AssociationsAssumption
<1>5. Cardinality(w.a \ {s}) = Cardinality(w.a) - 1 /\ Cardinality(w.b \ {t}) = Cardinality(w.b) - 1
    BY <1>3, FS_RemoveElement DEF FinitelyMany
<1>6. CASE Links!Apart(s, t) =< TimeWindow
    <2> DEFINE v == [a |-> w.a \ {s}, b |-> w.b \ {t}, events |-> w.events \cup {<<s, t>>}]
    <2>1. Links!Advance(w) = v
        BY <1>1, <1>2, <1>6 DEF Links!Advance
    <2>2. Pairing(v.events, A \ v.a, B \ v.b)
        <3>1. \A x \in w.events : x \in A \X B /\ x[1] # s /\ x[2] # t
            BY DEF WalkOK, Pairing
        <3>2. A \ v.a = (A \ w.a) \cup {s} /\ B \ v.b = (B \ w.b) \cup {t}
            BY <1>3
        <3>3. Pairing(w.events \cup {<<s, t>>}, (A \ w.a) \cup {s}, (B \ w.b) \cup {t})
            BY <1>6, <3>1 DEF WalkOK, Pairing
        <3>4. QED
            BY <3>2, <3>3
    <2>3. Cardinality(v.events) = Cardinality(w.events) + 1 /\ Cardinality(w.events) \in Nat
        <3>1. <<s, t>> \notin w.events
            BY <1>1 DEF WalkOK, Pairing
        <3>2. FinitelyMany(A \ w.a) /\ FinitelyMany(B \ w.b)
            BY FewerTimes
        <3>3. IsFiniteSet(w.events) /\ Cardinality(w.events) \in Nat
            BY <3>2, PairsAreFinite DEF WalkOK
        <3>4. QED
            BY <3>1, <3>3, FS_AddElement
    <2>4. ASSUME NEW P, Pairing(P, A, B)
          PROVE  \E R : Pairing(R, v.a, v.b) /\ Cardinality(P) =< Cardinality(v.events) + Cardinality(R)
        <3>1. PICK Q : Pairing(Q, w.a, w.b) /\ Cardinality(P) =< Cardinality(w.events) + Cardinality(Q)
            BY <2>4 DEF WalkOK
        <3>2. PICK R : Pairing(R, w.a \ {s}, w.b \ {t}) /\ Cardinality(Q) =< Cardinality(R) + 1
            BY <1>1, <1>2, <1>3, <1>6, <3>1, OneEventLess
        <3>3. FinitelyMany(w.a \ {s}) /\ FinitelyMany(w.b \ {t})
            BY <1>3, FewerTimes
        <3>4. Cardinality(P) \in Nat /\ Cardinality(Q) \in Nat /\ Cardinality(R) \in Nat
            BY <1>3, <2>4, <3>1, <3>2, <3>3, PairsAreFinite
        <3>5. QED
            BY <2>3, <3>1, <3>2, <3>4
    <2>5. v.a \subseteq A /\ v.b \subseteq B /\ v = [a |-> v.a, b |-> v.b, events |-> v.events]
        BY <1>3
    <2>6. v.a = w.a \ {s} /\ v.b = w.b \ {t}
        OBVIOUS
    <2> HIDE DEF v
    <2>7. WalkOK(v, A, B)
        BY <2>2, <2>4, <2>5 DEF WalkOK
    <2>8. QED
        BY <1>3, <1>5, <2>1, <2>6, <2>7
<1>7. ASSUME NEW v, v = [a |-> v.a, b |-> v.b, events |-> v.events], v.events = w.events,
             \/ v.a = w.a \ {s} /\ v.b = w.b /\ \A y \in w.b : ~(Links!Apart(s, y) =< TimeWindow)
             \/ v.b = w.b \ {t} /\ v.a = w.a /\ \A x \in w.a : ~(Links!Apart(x, t) =< TimeWindow),
             Links!Advance(w) = v
      PROVE  /\ WalkOK(Links!Advance(w), A, B)
             /\ Cardinality(Links!Advance(w).a) + Cardinality(Links!Advance(w).b)
                    =< Cardinality(w.a) + Cardinality(w.b) - 1
    <2>1. v.a \subseteq w.a /\ v.b \subseteq w.b
        BY <1>7
    <2>2. \A Q : Pairing(Q, w.a, w.b) => Pairing(Q, v.a, v.b)
        <3>1. SUFFICES ASSUME NEW Q, Pairing(Q, w.a, w.b) PROVE Q \subseteq v.a \X v.b
            BY DEF Pairing
        <3>2. \A x \in Q : x \in w.a \X w.b /\ Links!Apart(x[1], x[2]) =< TimeWindow
            BY <3>1 DEF Pairing
        <3>3. QED
            BY <1>7, <3>2
    <2>3. Pairing(v.events, A \ v.a, B \ v.b)
        BY <1>7, <2>1 DEF WalkOK, Pairing
    <2>4. \A P : Pairing(P, A, B) =>
              \E Q : Pairing(Q, v.a, v.b) /\ Cardinality(P) =< Cardinality(v.events) + Cardinality(Q)
        BY <1>7, <2>2 DEF WalkOK
    <2>5. WalkOK(v, A, B)
        BY <1>3, <1>7, <2>1, <2>3, <2>4 DEF WalkOK
    <2>6. Cardinality(v.a) + Cardinality(v.b) =< Cardinality(w.a) + Cardinality(w.b) - 1
        <3>1. \/ Cardinality(v.a) = Cardinality(w.a) - 1 /\ Cardinality(v.b) = Cardinality(w.b)
              \/ Cardinality(v.b) = Cardinality(w.b) - 1 /\ Cardinality(v.a) = Cardinality(w.a)
            BY <1>5, <1>7, Zenon
        <3>2. QED
            BY <1>3, <3>1
    <2>7. QED
        BY <1>7, <2>5, <2>6
<1>8. CASE ~(Links!Apart(s, t) =< TimeWindow) /\ s < t
    <2>1. PICK v : v = [a |-> w.a \ {s}, b |-> w.b, events |-> w.events]
        OBVIOUS
    <2>2. Links!Advance(w) = v
        <3>1. Links!Advance(w) = [w EXCEPT !.a = w.a \ {s}]
            BY <1>1, <1>2, <1>8 DEF Links!Advance
        <3>2. w = [a |-> w.a, b |-> w.b, events |-> w.events]
            BY DEF WalkOK
        <3>3. QED
            BY <2>1, <3>1, <3>2
    <2>3. \A y \in w.b : ~(Links!Apart(s, y) =< TimeWindow)
        <3>1. \A y \in w.b : y \in Nat /\ t =< y
            BY <1>2, <1>3 DEF FinitelyMany
        <3>2. QED
            BY <1>4, <1>8, <3>1 DEF Links!Apart
    <2>4. QED
        BY <1>7, <2>1, <2>2, <2>3
<1>9. CASE ~(Links!Apart(s, t) =< TimeWindow) /\ ~(s < t)
    <2>1. PICK v : v = [a |-> w.a, b |-> w.b \ {t}, events |-> w.events]
        OBVIOUS
    <2>2. Links!Advance(w) = v
        <3>1. Links!Advance(w) = [w EXCEPT !.b = w.b \ {t}]
            BY <1>1, <1>2, <1>9 DEF Links!Advance
        <3>2. w = [a |-> w.a, b |-> w.b, events |-> w.events]
            BY DEF WalkOK
        <3>3. QED
            BY <2>1, <3>1, <3>2
    <2>3. \A x \in w.a : ~(Links!Apart(x, t) =< TimeWindow)
        <3>1. \A x \in w.a : x \in Nat /\ s =< x
            BY <1>1, <1>3 DEF FinitelyMany
        <3>2. QED
            BY <1>4, <1>9, <3>1 DEF Links!Apart
    <2>4. QED
        BY <1>7, <2>1, <2>2, <2>3
<1>10. QED
    BY <1>6, <1>8, <1>9

GoOn(w) == IF w.a = {} \/ w.b = {} THEN w ELSE Links!Advance(w)

Walk(A, B, n, f) ==
    f = [k \in 0..n |-> IF k = 0 THEN [a |-> A, b |-> B, events |-> {}] ELSE GoOn(f[k - 1])]

LEMMA WalksExist ==
    ASSUME NEW A, NEW B, NEW n \in Nat
    PROVE  \E f : Walk(A, B, n, f)
<1> DEFINE T == {m \in Nat : ~\E f : Walk(A, B, m, f)}
<1>1. SUFFICES ASSUME T # {} PROVE FALSE
    OBVIOUS
<1>2. PICK m \in T : \A k \in T : m =< k
    BY <1>1, LeastTime
<1>3. CASE m = 0
    <2> DEFINE f == [k \in 0..0 |-> [a |-> A, b |-> B, events |-> {}]]
    <2>1. Walk(A, B, 0, f)
        BY DEF Walk
    <2>2. QED
        BY <1>3, <2>1
<1>4. CASE m # 0
    <2>1. m - 1 \in Nat /\ m - 1 \notin T
        BY <1>2, <1>4
    <2>2. PICK f : Walk(A, B, m - 1, f)
        BY <2>1
    <2> DEFINE g == [k \in 0..m |-> IF k = m THEN GoOn(f[m - 1]) ELSE f[k]]
    <2>3. Walk(A, B, m, g)
        <3>1. ASSUME NEW k \in 0..m
              PROVE  g[k] = IF k = 0 THEN [a |-> A, b |-> B, events |-> {}] ELSE GoOn(g[k - 1])
            <4>1. m \in Nat /\ m # 0
                BY <1>2, <1>4
            <4>2. CASE k = m
                <5>1. g[k] = GoOn(f[m - 1]) /\ g[m - 1] = f[m - 1]
                    BY <4>1, <4>2
                <5>2. QED
                    BY <4>1, <4>2, <5>1
            <4>3. CASE k # m
                <5>1. k \in 0..m - 1 /\ (k # 0 => k - 1 \in 0..m - 1 /\ k - 1 # m)
                    BY <4>1, <4>3
                <5>2. f[k] = IF k = 0 THEN [a |-> A, b |-> B, events |-> {}] ELSE GoOn(f[k - 1])
                    BY <2>2, <5>1 DEF Walk
                <5>3. g[k] = f[k] /\ (k # 0 => g[k - 1] = f[k - 1])
                    BY <4>1, <4>3, <5>1
                <5>4. QED
                    BY <5>2, <5>3
            <4>4. QED
                BY <4>2, <4>3
        <3> HIDE DEF g
        <3>2. SUFFICES g = [k \in 0..m |-> g[k]]
            BY <3>1, Zenon DEF Walk
        <3>3. QED
            BY DEF g
    <2> HIDE DEF g
    <2>4. QED
        BY <2>3
<1>5. QED
    BY <1>3, <1>4

\* At the end one history is used up, so nothing more can be paired.
LEMMA WalkEnds ==
    ASSUME NEW A, NEW B, FinitelyMany(A), FinitelyMany(B), Links!AssociationsAssumption,
           NEW n, n = Cardinality(A) + Cardinality(B), NEW f, Walk(A, B, n, f)
    PROVE  /\ Pairing(f[n].events, A, B)
           /\ \A P : Pairing(P, A, B) => Cardinality(P) =< Cardinality(f[n].events)
<1>1. Cardinality(A) \in Nat /\ Cardinality(B) \in Nat /\ n \in Nat
    BY FewerTimes
<1> DEFINE OK(k) == /\ WalkOK(f[k], A, B)
                    /\ \/ f[k].a = {} \/ f[k].b = {}
                       \/ Cardinality(f[k].a) + Cardinality(f[k].b) =< n - k
           T == {k \in 0..n : ~OK(k)}
<1>2. f[0] = [a |-> A, b |-> B, events |-> {}]
    BY <1>1 DEF Walk
<1>3. OK(0)
    <2>1. Pairing({}, A \ A, B \ B)
        BY DEF Pairing
    <2>2. Cardinality({}) = 0
        BY FS_EmptySet
    <2>3. \A P : Pairing(P, A, B) => Cardinality(P) =< Cardinality({}) + Cardinality(P)
        BY <2>2, PairsAreFinite
    <2>4. WalkOK(f[0], A, B)
        BY <1>2, <2>1, <2>3 DEF WalkOK
    <2>5. QED
        BY <1>1, <1>2, <2>4
<1>4. ASSUME NEW k \in 0..n, k # 0, OK(k - 1) PROVE OK(k)
    <2>1. f[k] = IF f[k - 1].a = {} \/ f[k - 1].b = {} THEN f[k - 1] ELSE Links!Advance(f[k - 1])
        BY <1>1, <1>4 DEF Walk, GoOn
    <2>2. CASE f[k - 1].a = {} \/ f[k - 1].b = {}
        BY <1>4, <2>1, <2>2
    <2>3. CASE f[k - 1].a # {} /\ f[k - 1].b # {}
        <3>1. PICK w : w = f[k - 1] /\ WalkOK(w, A, B)
            BY <1>4
        <3>2. PICK v : v = f[k] /\ v = Links!Advance(w)
            BY <2>1, <2>3, <3>1
        <3>3. WalkOK(v, A, B) /\ Cardinality(v.a) + Cardinality(v.b) =< Cardinality(w.a) + Cardinality(w.b) - 1
            BY <2>3, <3>1, <3>2, WalkAdvances
        <3>4. Cardinality(w.a) + Cardinality(w.b) =< n - (k - 1)
            BY <1>4, <2>3, <3>1
        <3>5. /\ Cardinality(w.a) \in Nat /\ Cardinality(w.b) \in Nat
              /\ Cardinality(v.a) \in Nat /\ Cardinality(v.b) \in Nat
            BY <3>1, <3>3, FewerTimes DEF WalkOK
        <3>6. Cardinality(v.a) + Cardinality(v.b) =< n - k
            BY <1>1, <3>3, <3>4, <3>5
        <3>7. QED
            BY <3>2, <3>3, <3>6
    <2>4. QED
        BY <2>2, <2>3
<1>5. OK(n)
    <2>1. SUFFICES ASSUME T # {} PROVE FALSE
        BY <1>1
    <2> HIDE DEF OK
    <2>2. PICK k \in T : \A j \in T : k =< j
        <3>1. T \subseteq Nat
            BY <1>1
        <3>2. QED
            BY <2>1, <3>1, LeastTime
    <2>3. k # 0 /\ k - 1 \in 0..n /\ k - 1 \notin T
        BY <1>1, <1>3, <2>2
    <2>4. QED
        BY <1>4, <2>2, <2>3
<1>6. PICK w : w = f[n] /\ WalkOK(w, A, B) /\ (w.a = {} \/ w.b = {})
    <2>1. PICK w : w = f[n] /\ WalkOK(w, A, B)
        BY <1>5
    <2>2. FinitelyMany(w.a) /\ Cardinality(w.a) \in Nat /\ FinitelyMany(w.b) /\ Cardinality(w.b) \in Nat
        BY <2>1, FewerTimes DEF WalkOK
    <2>3. w.a = {} \/ w.b = {} \/ Cardinality(w.a) + Cardinality(w.b) =< n - n
        BY <1>5, <2>1
    <2>4. Cardinality(w.a) = 0 => w.a = {}
        BY <2>2, FS_EmptySet DEF FinitelyMany
    <2>5. QED
        BY <1>1, <2>1, <2>2, <2>3, <2>4
<1>7. Pairing(w.events, A, B)
    BY <1>6 DEF WalkOK, Pairing
<1>8. ASSUME NEW P, Pairing(P, A, B) PROVE Cardinality(P) =< Cardinality(w.events)
    <2>1. PICK Q : Pairing(Q, w.a, w.b) /\ Cardinality(P) =< Cardinality(w.events) + Cardinality(Q)
        BY <1>6, <1>8 DEF WalkOK
    <2>2. Q = {}
        BY <1>6, <2>1 DEF Pairing
    <2>3. Cardinality(Q) = 0
        BY <2>2, FS_EmptySet
    <2>4. Cardinality(w.events) \in Nat
        BY <1>7, PairsAreFinite
    <2>5. QED
        BY <2>1, <2>3, <2>4
<1>9. QED
    BY <1>6, <1>7, <1>8

\* What cooccurrences returns: a pairing, of as many events as any.
LEMMA MostAreFound ==
    ASSUME NEW a, NEW b, FinitelyMany(DOMAIN a), FinitelyMany(DOMAIN b), Links!AssociationsAssumption
    PROVE  /\ Pairing(Links!Cooccurrences(a, b), DOMAIN a, DOMAIN b)
           /\ \A P : Pairing(P, DOMAIN a, DOMAIN b) => Cardinality(P) =< Cardinality(Links!Cooccurrences(a, b))
<1> DEFINE n == Cardinality(DOMAIN a) + Cardinality(DOMAIN b)
           walk == CHOOSE f : Walk(DOMAIN a, DOMAIN b, n, f)
<1>1. n \in Nat
    BY FewerTimes
<1>2. Walk(DOMAIN a, DOMAIN b, n, walk)
    BY <1>1, WalksExist
<1>3. Links!Cooccurrences(a, b) = walk[n].events
    BY LinksCounts DEF Links!Cooccurrences, Walk, GoOn
<1> HIDE DEF n, walk
<1>4. n = Cardinality(DOMAIN a) + Cardinality(DOMAIN b)
    BY DEF n
<1>5. QED
    BY <1>2, <1>3, <1>4, WalkEnds

-----------------------------------------------------------------------------
(* Links the correlation made are explained.                                 *)

LEMMA VerdictIsSound ==
    ASSUME Links!AssociationsAssumption, NEW a, NEW b, FinitelyMany(DOMAIN a), FinitelyMany(DOMAIN b),
           NEW v, v = Links!ShouldAssociate(a, b), v # "none",
           NEW w, w.a = a, w.b = b, w.state = v, w.count = Links!Cardinality(Links!Cooccurrences(a, b))
    PROVE  Links!Sound(w)
<1>1. PICK P : P = Links!Cooccurrences(a, b)
    OBVIOUS
<1>2. /\ Pairing(P, DOMAIN a, DOMAIN b) /\ w.count = Cardinality(P)
      /\ \A Q : Pairing(Q, DOMAIN a, DOMAIN b) => Cardinality(Q) =< Cardinality(P)
    BY <1>1, MostAreFound, LinksCounts
<1>3. \A Q \in Links!Pairings(w.a, w.b) : Links!Cardinality(Q) =< w.count
    BY <1>2, PairingsPair, LinksCounts
<1>4. P \in Links!Pairings(w.a, w.b) /\ Links!Cardinality(P) = w.count
    BY <1>2, PairingsPair, LinksCounts
<1>5. CASE v = "observed"
    <2>1. PICK e \in P, f \in P : /\ Unplaced \notin {Links!Place(a, b, e), Links!Place(a, b, f)}
                                  /\ Links!Place(a, b, e) # Links!Place(a, b, f)
        BY <1>1, <1>5 DEF Links!ShouldAssociate
    <2>2. Links!Place(a, b, e) \in {w.a[e[1]], w.b[e[2]]} /\ Links!Place(a, b, f) \in {w.a[f[1]], w.b[f[2]]}
        BY DEF Links!Place
    <2>3. QED
        BY <1>3, <1>4, <1>5, <2>1, <2>2 DEF Links!Sound
<1>6. CASE v = "inferred"
    <2>1. Links!Cardinality(P) >= EventsAtLeast
        BY <1>1, <1>6 DEF Links!ShouldAssociate
    <2>2. \E e, f \in P : Links!Least(f[1], f[2]) - Links!Least(e[1], e[2]) >= SpreadAtLeast
        BY <1>1, <1>6 DEF Links!ShouldAssociate, Links!Moment
    <2>3. QED
        BY <1>3, <1>4, <1>6, <2>1, <2>2 DEF Links!Sound
<1>7. QED
    BY <1>5, <1>6, Verdicts

\* What a pass has read is finite, and it looks only at what it has read.
ReadingsFound ==
    /\ DOMAIN readings = Links!Emitters /\ \A e \in Links!Emitters : FinitelyMany(DOMAIN readings[e])
    /\ \A e \in DOMAIN loaded : FinitelyMany(DOMAIN loaded[e])
    /\ \A d \in todo : d \in Links!Directions /\ Ends(d) \subseteq DOMAIN loaded

\* Strengthening: what the pass adds, and then records, is the verdict on what it has read; no
\* other call adds what looks like a link of the pass.
JudgedAsRead(k) ==
    k.stage \in {"insert", "record"} =>
        /\ Ends(k.on) \subseteq DOMAIN loaded /\ k.row.source = "auto" /\ k.row.state # "none"
        /\ k.row.state = Links!ShouldAssociate(loaded[k.on[1]], loaded[k.on[2]])

\* Strengthening: what the pass is still to record is of the grade of the link.
Explained(d) ==
    \/ \E w \in evidence : w.on \in Halves(d) /\ w.state = link[d].state
    \/ d \in lost
    \/ /\ links_op["pass"].stage = "record" /\ links_op["pass"].on \in Halves(d)
       /\ links_op["pass"].row.state = link[d].state

EvidenceInv ==
    /\ ReadingsFound
    /\ JudgedAsRead(links_op["pass"])
    /\ \A p \in Links!Callers : links_op[p].stage = "insert" => links_op[p].row.source # "auto"
    /\ \A w \in evidence : Links!Sound(w)
    /\ \A d \in Links!Directions : link[d].source = "auto" => Explained(d)

LEMMA HalvesMeet ==
    ASSUME NEW d \in Links!Directions, NEW x \in Nat \X Nat
    PROVE  d \in Halves(x) <=> x \in Halves(d)
<1>1. Links!Swap(Links!Swap(x)) = x
    BY DEF Links!Swap
<1>2. Links!Swap(Links!Swap(d)) = d
    BY SwapTwice
<1>3. QED
    BY <1>1, <1>2 DEF Halves

LEMMA PassIsNoCaller == "pass" \in Links!Procs /\ "pass" \notin Links!Callers /\ Links!Callers \subseteq Links!Procs
BY DEF Links!Procs, Links!Callers

\* Most steps: no verdict, no evidence, and no link of the pass is new.
LEMMA NothingFound ==
    ASSUME EvidenceInv, ReadingsFound', loaded' = loaded, evidence' = evidence, lost' = lost,
           \A d \in Links!Directions : link'[d] = link[d] \/ link'[d].source # "auto",
           \A p \in Links!Procs :
               \/ /\ links_op'[p].stage = links_op[p].stage /\ links_op'[p].on = links_op[p].on
                  /\ links_op'[p].row = links_op[p].row
               \/ links_op'[p].stage \notin {"insert", "record"} /\ links_op[p].stage # "record"
               \/ p \in Links!Callers /\ links_op'[p].row.source # "auto"
    PROVE  EvidenceInv'
<1>1. \/ /\ links_op'["pass"].stage = links_op["pass"].stage /\ links_op'["pass"].on = links_op["pass"].on
         /\ links_op'["pass"].row = links_op["pass"].row
      \/ links_op'["pass"].stage \notin {"insert", "record"} /\ links_op["pass"].stage # "record"
    BY PassIsNoCaller
<1>2. JudgedAsRead(links_op["pass"])'
    BY <1>1 DEF EvidenceInv, JudgedAsRead, Ends
<1>3. \A p \in Links!Callers : links_op'[p].stage = "insert" => links_op'[p].row.source # "auto"
    BY PassIsNoCaller DEF EvidenceInv
<1>4. \A w \in evidence' : Links!Sound(w)'
    BY DEF EvidenceInv, Links!Sound, Links!Pairings
<1>5. ASSUME NEW d \in Links!Directions, link'[d].source = "auto" PROVE Explained(d)'
    <2>1. link'[d] = link[d] /\ Explained(d)
        BY <1>5 DEF EvidenceInv
    <2>2. QED
        BY <1>1, <2>1 DEF Explained, Halves
<1>6. QED
    BY <1>2, <1>3, <1>4, <1>5 DEF EvidenceInv

LEMMA FoundStays ==
    ASSUME ReadingsFound, UNCHANGED <<readings, loaded, todo>>
    PROVE  ReadingsFound'
BY DEF ReadingsFound, FinitelyMany, Ends

\* One call moves, and the links, the readings and the evidence do not.
LEMMA CallOnly ==
    ASSUME LinksInv, EvidenceInv, NEW p \in Links!Procs, NEW k, links_op' = [links_op EXCEPT ![p] = k],
           UNCHANGED <<readings, loaded, evidence, lost, link>>, \A d \in todo' : d \in todo,
           \/ k.stage = links_op[p].stage /\ k.on = links_op[p].on /\ k.row = links_op[p].row
           \/ k.stage \notin {"insert", "record"} /\ links_op[p].stage # "record"
           \/ p \in Links!Callers /\ k.row.source # "auto"
    PROVE  EvidenceInv'
<1>1. \A q \in Links!Procs : links_op'[q] = IF q = p THEN k ELSE links_op[q]
    BY DEF LinksInv
<1>2. ReadingsFound'
    BY DEF EvidenceInv, ReadingsFound, FinitelyMany, Ends
<1>3. QED
    BY <1>1, <1>2, NothingFound

LEMMA CallsFound ==
    ASSUME LinksInv, EvidenceInv,
           \/ \E d \in Links!Directions : \/ Links!Confirm(d) \/ Links!RemoveAssociation(d)
                                          \/ Links!LinkEmitters(d) \/ Links!UnlinkEmitters(d)
           \/ Links!UnlinkRemove
    PROVE  EvidenceInv'
<1>1. {"operator", "agent"} \subseteq Links!Callers /\ Links!Callers \subseteq Links!Procs
    BY PassIsNoCaller DEF Links!Callers
<1>2. ASSUME NEW d \in Links!Directions, Links!Confirm(d) PROVE EvidenceInv'
    <2>1. PICK k : k = Links!Adding(d, "manual", "none")
        OBVIOUS
    <2>2. k.row.source = "manual"
        BY <2>1, AddingCall
    <2>3. links_op' = [links_op EXCEPT !["operator"] = k]
        BY <1>2, <2>1 DEF Links!Confirm, Links!Begin
    <2>4. QED
        BY <1>1, <1>2, <2>2, <2>3, CallOnly DEF Links!Confirm
<1>3. ASSUME NEW d \in Links!Directions, Links!LinkEmitters(d) PROVE EvidenceInv'
    <2>1. PICK k : k = Links!Adding(d, "ai", "none")
        OBVIOUS
    <2>2. k.row.source = "ai"
        BY <2>1, AddingCall
    <2>3. links_op' = [links_op EXCEPT !["agent"] = k]
        BY <1>3, <2>1 DEF Links!LinkEmitters, Links!Begin
    <2>4. QED
        BY <1>1, <1>3, <2>2, <2>3, CallOnly DEF Links!LinkEmitters
<1>4. ASSUME NEW d \in Links!Directions, Links!RemoveAssociation(d) PROVE EvidenceInv'
    <2>1. PICK k : /\ k = Links!Deleting(d) /\ k.stage = "delete" /\ links_op["operator"] = Links!Idle
                   /\ links_op' = [links_op EXCEPT !["operator"] = k]
        BY <1>4, DeletingCall DEF Links!RemoveAssociation, Links!Begin
    <2>2. QED
        BY <1>1, <1>4, <2>1, IdleLinkCall, CallOnly DEF Links!RemoveAssociation
<1>5. ASSUME NEW d \in Links!Directions, Links!UnlinkEmitters(d) PROVE EvidenceInv'
    <2>1. PICK k : /\ k = [Links!Idle EXCEPT !.stage = "unlink", !.on = d] /\ k.stage = "unlink"
                   /\ links_op' = [links_op EXCEPT !["agent"] = k] /\ links_op["agent"] = Links!Idle
        BY <1>5, IdleLinkCall DEF Links!UnlinkEmitters, Links!Begin, LinkCalls
    <2>2. QED
        BY <1>1, <1>5, <2>1, IdleLinkCall, CallOnly DEF Links!UnlinkEmitters
<1>6. ASSUME Links!UnlinkRemove PROVE EvidenceInv'
    <2>1. links_op["agent"].stage = "unlink" /\ links_op["agent"].on \in Links!Directions
        BY <1>1, <1>6 DEF Links!UnlinkRemove, LinksInv, LinkCallOK, UnlinkingOK
    <2>2. PICK k : /\ k = Links!Deleting(links_op["agent"].on) /\ k.stage = "delete"
                   /\ links_op' = [links_op EXCEPT !["agent"] = k]
        BY <1>6, <2>1, DeletingCall DEF Links!UnlinkRemove
    <2>3. QED
        BY <1>1, <1>6, <2>1, <2>2, CallOnly DEF Links!UnlinkRemove
<1>7. QED
    BY <1>2, <1>3, <1>4, <1>5, <1>6

LEMMA WritesFound ==
    ASSUME LinksInv, EvidenceInv,
           \/ \E p \in Links!Procs : Links!Insert(p)
           \/ \E p \in Links!Callers, d \in Links!Directions : Links!DeleteRow(p, d)
    PROVE  EvidenceInv'
<1>1. Links!Callers \subseteq Links!Procs
    BY PassIsNoCaller
<1>2. ASSUME NEW p \in Links!Procs, Links!Insert(p) PROVE EvidenceInv'
    <2>1. links_op[p] \in LinkCalls /\ links_op[p].stage = "insert"
        BY <1>2 DEF LinksInv, Links!Insert
    <2>2. CASE links_op' = [links_op EXCEPT ![p] = Links!Idle]
        BY <1>2, <2>1, <2>2, IdleLinkCall, CallOnly DEF Links!Insert
    <2>3. CASE links_op' = [links_op EXCEPT ![p].next = Tail(@)]
        <3>1. PICK k : k = [links_op[p] EXCEPT !.next = Tail(@)]
            OBVIOUS
        <3>2. k.stage = links_op[p].stage /\ k.on = links_op[p].on /\ k.row = links_op[p].row
            BY <2>1, <3>1 DEF LinkCalls
        <3>3. links_op' = [links_op EXCEPT ![p] = k]
            BY <2>3, <3>1
        <3>4. QED
            BY <1>2, <3>2, <3>3, CallOnly DEF Links!Insert
    <2>4. QED
        BY <1>2, <2>2, <2>3 DEF Links!Insert
<1>3. ASSUME NEW p \in Links!Callers, NEW d \in Links!Directions, Links!DeleteRow(p, d) PROVE EvidenceInv'
    <2>1. links_op[p] \in LinkCalls /\ p \in Links!Procs
        BY <1>1 DEF LinksInv
    <2>2. PICK k : k = [links_op[p] EXCEPT !.left = @ \ {d}]
        OBVIOUS
    <2>3. k.stage = links_op[p].stage /\ k.on = links_op[p].on /\ k.row = links_op[p].row
        BY <2>1, <2>2 DEF LinkCalls
    <2>4. links_op' = [links_op EXCEPT ![p] = k]
        BY <1>3, <2>2 DEF Links!DeleteRow
    <2>5. QED
        BY <1>3, <2>1, <2>3, <2>4, CallOnly DEF Links!DeleteRow
<1>4. QED
    BY <1>2, <1>3

\* A call whose DELETE has fewer rows left is at the same otherwise.
LEMMA LeftIsLess ==
    ASSUME NEW k \in LinkCalls, NEW gone
    PROVE  LET x == [k EXCEPT !.left = @ \ gone]
           IN  x.stage = k.stage /\ x.on = k.on /\ x.row = k.row
BY DEF LinkCalls

LEMMA DeletionFound ==
    ASSUME LinksInv, EvidenceInv, NEW p \in Links!Callers, NEW e \in Links!Emitters, Links!DeleteEmitter(p, e)
    PROVE  EvidenceInv'
<1> DEFINE its == {d \in Links!Directions : e \in {d[1], d[2]}}
<1>1. /\ link' = [d \in Links!Directions |-> IF d \in its THEN Links!None ELSE link[d]]
      /\ links_op' = [q \in Links!Procs |-> [links_op[q] EXCEPT !.left = @ \ its]]
      /\ UNCHANGED <<readings, evidence, loaded, todo, lost>>
    BY DEF Links!DeleteEmitter
<1> HIDE DEF its
<1>2. \A d \in Links!Directions : link'[d] = link[d] \/ link'[d].source # "auto"
    BY <1>1 DEF Links!None
<1>3. \A q \in Links!Procs : /\ links_op'[q].stage = links_op[q].stage /\ links_op'[q].on = links_op[q].on
                             /\ links_op'[q].row = links_op[q].row
    <2>1. SUFFICES ASSUME NEW q \in Links!Procs
                   PROVE  /\ links_op'[q].stage = links_op[q].stage /\ links_op'[q].on = links_op[q].on
                          /\ links_op'[q].row = links_op[q].row
        OBVIOUS
    <2>2. links_op[q] \in LinkCalls /\ links_op'[q] = [links_op[q] EXCEPT !.left = @ \ its]
        BY <1>1 DEF LinksInv
    <2>3. QED
        BY <2>2, LeftIsLess
<1>4. QED
    BY <1>1, <1>2, <1>3, FoundStays, NothingFound DEF EvidenceInv

\* A commit: an automatic link it brings is the pass's, which goes on to record it.
LEMMA CommitFound ==
    ASSUME LinksInv, EvidenceInv, NEW p \in Links!Procs, Links!Commit(p)
    PROVE  EvidenceInv'
<1>1. PICK c \in LinkCalls : c = links_op[p] /\ AddingOK(p, c) /\ RemovingOK(p, c)
    BY DEF LinksInv, LinkCallOK
<1>2. c.stage \in {"insert", "delete"} /\ UNCHANGED <<readings, evidence, loaded, todo, lost>>
    BY <1>1 DEF Links!Commit
<1>3. \A d \in Links!Directions : link'[d] = IF d \in DOMAIN writes[p] THEN writes[p][d] ELSE link[d]
    BY CommitFacts
<1> DEFINE gone == {d \in DOMAIN writes[p] : writes[p][d] = Links!None}
<1>4. links_op' = [q \in Links!Procs |->
                      IF q = p THEN (IF p = "pass" THEN [links_op[p] EXCEPT !.stage = "record"] ELSE Links!Idle)
                      ELSE [links_op[q] EXCEPT !.left = @ \ gone]]
    BY DEF Links!Commit
<1> HIDE DEF gone
<1>5. \A q \in Links!Procs \ {p} : /\ links_op'[q].stage = links_op[q].stage /\ links_op'[q].on = links_op[q].on
                                   /\ links_op'[q].row = links_op[q].row
    <2>1. SUFFICES ASSUME NEW q \in Links!Procs \ {p}
                   PROVE  /\ links_op'[q].stage = links_op[q].stage /\ links_op'[q].on = links_op[q].on
                          /\ links_op'[q].row = links_op[q].row
        OBVIOUS
    <2>2. links_op[q] \in LinkCalls /\ links_op'[q] = [links_op[q] EXCEPT !.left = @ \ gone]
        BY <1>4 DEF LinksInv
    <2>3. QED
        BY <2>2, LeftIsLess
<1>6. \A d \in DOMAIN writes[p] : writes[p][d].source = "auto" => c.stage = "insert" /\ writes[p][d] = c.row
    <2>1. Links!None.source # "auto"
        BY DEF Links!None
    <2>2. QED
        BY <1>1, <1>2, <2>1 DEF AddingOK, RemovingOK
<1>7. CASE p # "pass"
    <2>1. p \in Links!Callers
        BY <1>7 DEF Links!Procs
    <2>2. \A d \in DOMAIN writes[p] : writes[p][d].source # "auto"
        BY <1>1, <1>6, <2>1 DEF EvidenceInv
    <2>3. \A d \in Links!Directions : link'[d] = link[d] \/ link'[d].source # "auto"
        BY <1>3, <2>2
    <2>4. links_op'[p].row.source # "auto"
        <3>1. links_op'[p] = Links!Idle
            BY <1>4, <1>7
        <3>2. QED
            BY <3>1 DEF Links!Idle, Links!None
    <2>5. QED
        BY <1>2, <1>5, <2>1, <2>3, <2>4, FoundStays, NothingFound DEF EvidenceInv
<1>8. CASE p = "pass"
    <2>1. c.stage = "insert" /\ p \notin Links!Callers
        BY <1>1, <1>2, <1>8, PassIsNoCaller DEF RemovingOK
    <2>2. PICK k \in LinkCalls : k = links_op'["pass"] /\ k.stage = "record" /\ k.on = c.on /\ k.row = c.row
        <3>1. links_op'["pass"] = [c EXCEPT !.stage = "record"]
            BY <1>1, <1>4, <1>8
        <3>2. [c EXCEPT !.stage = "record"] \in LinkCalls /\ [c EXCEPT !.stage = "record"].stage = "record"
              /\ [c EXCEPT !.stage = "record"].on = c.on /\ [c EXCEPT !.stage = "record"].row = c.row
            BY DEF LinkCalls
        <3>3. QED
            BY <3>1, <3>2
    <2>3. JudgedAsRead(links_op["pass"])'
        BY <1>1, <1>2, <1>8, <2>1, <2>2 DEF EvidenceInv, JudgedAsRead, Ends
    <2>4. \A q \in Links!Callers : links_op'[q].stage = "insert" => links_op'[q].row.source # "auto"
        BY <1>5, <1>8, PassIsNoCaller DEF EvidenceInv
    <2>5. ASSUME NEW d \in Links!Directions, link'[d].source = "auto" PROVE Explained(d)'
        <3>1. CASE d \in DOMAIN writes[p]
            <4>1. link'[d] = c.row
                BY <1>3, <1>6, <2>5, <3>1
            <4>2. d \in Halves(c.on)
                <5>1. DOMAIN writes[p] \subseteq Halves(c.on)
                    BY <1>1, CommittedRows
                <5>2. QED
                    BY <3>1, <5>1
            <4>3. c.on \in Halves(d)
                BY <4>2, HalvesMeet DEF LinkCalls
            <4>4. QED
                BY <2>2, <4>1, <4>3 DEF Explained, Halves
        <3>2. CASE d \notin DOMAIN writes[p]
            <4>1. link'[d] = link[d] /\ Explained(d)
                BY <1>3, <2>5, <3>2 DEF EvidenceInv
            <4>2. links_op["pass"].stage # "record"
                BY <1>1, <1>8, <2>1
            <4>3. QED
                BY <1>2, <4>1, <4>2 DEF Explained, Halves
        <3>3. QED
            BY <3>1, <3>2
    <2>6. \A w \in evidence' : Links!Sound(w)'
        BY <1>2 DEF EvidenceInv, Links!Sound, Links!Pairings
    <2>7. QED
        BY <1>2, <2>3, <2>4, <2>5, <2>6, FoundStays DEF EvidenceInv
<1>9. QED
    BY <1>7, <1>8

\* A call is given up: what the pass was to record is counted as lost.
LEMMA AbandonFound ==
    ASSUME LinksInv, EvidenceInv, NEW p \in Links!Procs, Links!Abandon(p),
           UNCHANGED <<readings, link, evidence>>
    PROVE  EvidenceInv'
<1>1. links_op' = [links_op EXCEPT ![p] = Links!Idle] /\ Links!Idle.stage = "idle"
    BY IdleLinkCall DEF Links!Abandon
<1>2. ReadingsFound'
    <2>1. CASE p # "pass"
        BY <2>1, FoundStays DEF EvidenceInv, Links!Abandon
    <2>2. CASE p = "pass"
        <3>1. todo' = {} /\ DOMAIN loaded' = {} /\ readings' = readings
            BY <2>2 DEF Links!Abandon
        <3>2. QED
            BY <3>1 DEF EvidenceInv, ReadingsFound, FinitelyMany, Ends
    <2>3. QED
        BY <2>1, <2>2
<1>3. \A q \in Links!Procs : links_op'[q] = IF q = p THEN Links!Idle ELSE links_op[q]
    BY <1>1 DEF LinksInv
<1>4. \A q \in Links!Callers : links_op'[q].stage = "insert" => links_op'[q].row.source # "auto"
    BY <1>1, <1>3, PassIsNoCaller DEF EvidenceInv
<1>5. JudgedAsRead(links_op["pass"])'
    <2>1. CASE p = "pass"
        BY <1>1, <1>3, <2>1, PassIsNoCaller DEF JudgedAsRead
    <2>2. CASE p # "pass"
        <3>1. loaded' = loaded /\ links_op'["pass"] = links_op["pass"]
            BY <1>3, <2>2, PassIsNoCaller DEF Links!Abandon
        <3>2. QED
            BY <3>1 DEF EvidenceInv, JudgedAsRead, Ends
    <2>3. QED
        BY <2>1, <2>2
<1>6. \A w \in evidence' : Links!Sound(w)'
    BY DEF EvidenceInv, Links!Sound, Links!Pairings
<1>7. ASSUME NEW d \in Links!Directions, link'[d].source = "auto" PROVE Explained(d)'
    <2>1. Explained(d) /\ link' = link /\ evidence' = evidence
        BY <1>7 DEF EvidenceInv
    <2>2. lost' = IF links_op[p].stage = "record" THEN lost \cup Halves(links_op[p].on) ELSE lost
        BY DEF Links!Abandon, Halves
    <2>3. CASE p = "pass" /\ links_op["pass"].stage = "record"
        <3>1. links_op["pass"].on \in Halves(d) => d \in Halves(links_op["pass"].on)
            BY PassIsNoCaller, HalvesMeet DEF LinksInv, LinkCalls
        <3>2. QED
            BY <2>1, <2>2, <2>3, <3>1 DEF Explained, Halves
    <2>4. CASE p = "pass" /\ links_op["pass"].stage # "record"
        BY <2>1, <2>2, <2>4 DEF Explained, Halves
    <2>5. CASE p # "pass"
        <3>1. links_op'["pass"] = links_op["pass"]
            BY <1>3, <2>5, PassIsNoCaller
        <3>2. QED
            BY <2>1, <2>2, <3>1 DEF Explained, Halves
    <2>6. QED
        BY <2>3, <2>4, <2>5
<1>8. QED
    BY <1>2, <1>4, <1>5, <1>6, <1>7 DEF EvidenceInv

\* A reading comes in, of an emitter that has finitely many.
LEMMA ObserveFound ==
    ASSUME LinksInv, EvidenceInv, Links!AssociationsAssumption, NEW e \in Links!Emitters, NEW m \in LateReadings,
           Links!Observe(e, m)
    PROVE  EvidenceInv'
<1>1. /\ readings' = [readings EXCEPT ![e] = [t \in DOMAIN @ \cup {m[1]} |-> IF t = m[1] THEN m[2] ELSE @[t]]]
      /\ UNCHANGED <<link, evidence, links_op, loaded, todo, lost>>
    BY DEF Links!Observe
<1>2. m[1] \in Nat
    BY DEF Links!AssociationsAssumption
<1>3. DOMAIN readings = Links!Emitters /\ FinitelyMany(DOMAIN readings[e])
    BY DEF EvidenceInv, ReadingsFound
<1>4. /\ DOMAIN readings' = Links!Emitters /\ DOMAIN readings'[e] = DOMAIN readings[e] \cup {m[1]}
      /\ \A x \in Links!Emitters \ {e} : readings'[x] = readings[x]
    BY <1>1, <1>3
<1>5. FinitelyMany(DOMAIN readings'[e])
    BY <1>2, <1>3, <1>4, FS_AddElement DEF FinitelyMany
<1>6. ReadingsFound'
    <2>1. \A x \in Links!Emitters : FinitelyMany(DOMAIN readings'[x])
        BY <1>4, <1>5 DEF EvidenceInv, ReadingsFound
    <2>2. \A x \in DOMAIN loaded' : FinitelyMany(DOMAIN loaded'[x])
        BY <1>1 DEF EvidenceInv, ReadingsFound
    <2>3. \A d \in todo' : d \in Links!Directions /\ Ends(d) \subseteq DOMAIN loaded'
        BY <1>1 DEF EvidenceInv, ReadingsFound
    <2>4. QED
        BY <1>4, <2>1, <2>2, <2>3 DEF ReadingsFound, FinitelyMany, Ends
<1>7. QED
    BY <1>1, <1>6, NothingFound

LEMMA LoadFound ==
    ASSUME LinksInv, EvidenceInv, NEW e \in Links!Emitters, Links!Load(e)
    PROVE  EvidenceInv'
<1>1. /\ links_op["pass"].stage = "load"
      /\ loaded' = [x \in DOMAIN loaded \cup {e} |->
                       IF x # e THEN loaded[x] ELSE IF e \in links_emitters THEN readings[e] ELSE <<>>]
      /\ UNCHANGED <<readings, link, evidence, links_op, todo, lost>>
    BY DEF Links!Load
<1>2. FinitelyMany(DOMAIN <<>>)
    <2>1. DOMAIN <<>> = {}
        OBVIOUS
    <2>2. FinitelyMany({})
        BY FS_EmptySet DEF FinitelyMany
    <2>3. QED
        BY <2>1, <2>2
<1>3. DOMAIN loaded' = DOMAIN loaded \cup {e}
    BY <1>1
<1>4. ASSUME NEW x \in DOMAIN loaded' PROVE FinitelyMany(DOMAIN loaded'[x])
    <2>1. CASE x # e
        <3>1. loaded'[x] = loaded[x] /\ x \in DOMAIN loaded
            BY <1>1, <1>3, <1>4, <2>1
        <3>2. QED
            BY <3>1 DEF EvidenceInv, ReadingsFound
    <2>2. CASE x = e
        <3>1. loaded'[x] = readings[e] \/ loaded'[x] = <<>>
            BY <1>1, <1>3, <2>2
        <3>2. QED
            BY <1>2, <3>1 DEF EvidenceInv, ReadingsFound
    <2>3. QED
        BY <2>1, <2>2
<1>5. ReadingsFound'
    BY <1>1, <1>3, <1>4 DEF EvidenceInv, ReadingsFound, Ends, FinitelyMany
<1>6. JudgedAsRead(links_op["pass"])'
    BY <1>1 DEF JudgedAsRead
<1>7. \A w \in evidence' : Links!Sound(w)'
    BY <1>1 DEF EvidenceInv, Links!Sound, Links!Pairings
<1>8. \A d \in Links!Directions : link'[d].source = "auto" => Explained(d)'
    BY <1>1 DEF EvidenceInv, Explained, Halves
<1>9. QED
    BY <1>1, <1>5, <1>6, <1>7, <1>8 DEF EvidenceInv

LEMMA StartsAndEndsFound ==
    ASSUME LinksInv, EvidenceInv, Links!StartPass \/ Links!PairUp \/ Links!EndPass
    PROVE  EvidenceInv'
<1>1. "pass" \in Links!Procs /\ links_op["pass"] \in LinkCalls
    BY PassIsNoCaller DEF LinksInv
<1>2. CASE Links!StartPass
    <2>1. PICK k : /\ k = [Links!Idle EXCEPT !.stage = "load"] /\ links_op["pass"] = Links!Idle
                   /\ links_op' = [links_op EXCEPT !["pass"] = k]
        BY <1>2 DEF Links!StartPass, Links!Begin
    <2>2. k.stage = "load"
        BY <2>1, IdleLinkCall, StageSet
    <2>3. QED
        BY <1>1, <1>2, <2>1, <2>2, IdleLinkCall, CallOnly DEF Links!StartPass
<1>3. CASE Links!PairUp
    <2>1. PICK k : /\ k = [links_op["pass"] EXCEPT !.stage = "pair"] /\ links_op["pass"].stage = "load"
                   /\ links_op' = [links_op EXCEPT !["pass"] = k]
        BY <1>3 DEF Links!PairUp
    <2>2. k.stage = "pair"
        BY <1>1, <2>1, StageSet
    <2>3. \A q \in Links!Procs : links_op'[q] = IF q = "pass" THEN k ELSE links_op[q]
        BY <2>1 DEF LinksInv
    <2>4. UNCHANGED <<readings, link, evidence, loaded, lost>>
        BY <1>3 DEF Links!PairUp
    <2>5. ReadingsFound'
        <3>1. \A d \in todo' : d \in Links!Directions /\ {d[1], d[2]} \subseteq DOMAIN loaded
            BY <1>3 DEF Links!PairUp
        <3>2. QED
            BY <2>4, <3>1 DEF EvidenceInv, ReadingsFound, FinitelyMany, Ends
    <2>6. QED
        BY <2>1, <2>2, <2>3, <2>4, <2>5, NothingFound
<1>4. CASE Links!EndPass
    <2>1. /\ links_op["pass"].stage = "pair" /\ links_op' = [links_op EXCEPT !["pass"] = Links!Idle]
          /\ todo' = {} /\ DOMAIN loaded' = {} /\ UNCHANGED <<readings, link, evidence, lost>>
        BY <1>4 DEF Links!EndPass
    <2>2. \A q \in Links!Procs : links_op'[q] = IF q = "pass" THEN Links!Idle ELSE links_op[q]
        BY <2>1 DEF LinksInv
    <2>3. ReadingsFound'
        BY <2>1 DEF EvidenceInv, ReadingsFound, FinitelyMany, Ends
    <2>4. links_op'["pass"].stage = "idle"
        BY <1>1, <2>2, IdleLinkCall
    <2>5. JudgedAsRead(links_op["pass"])'
        BY <2>4 DEF JudgedAsRead
    <2>6. \A q \in Links!Callers : links_op'[q].stage = "insert" => links_op'[q].row.source # "auto"
        BY <2>2, PassIsNoCaller DEF EvidenceInv
    <2>7. \A w \in evidence' : Links!Sound(w)'
        BY <2>1 DEF EvidenceInv, Links!Sound, Links!Pairings
    <2>8. \A d \in Links!Directions : link'[d].source = "auto" => Explained(d)'
        BY <2>1, <2>4 DEF EvidenceInv, Explained, Halves
    <2>9. QED
        BY <2>3, <2>5, <2>6, <2>7, <2>8 DEF EvidenceInv
<1>5. QED
    BY <1>2, <1>3, <1>4

\* A pair is looked at: a link is begun on the verdict on its readings.
LEMMA LookAtFound ==
    ASSUME LinksInv, EvidenceInv, NEW d \in Links!Directions, Links!LookAt(d)
    PROVE  EvidenceInv'
<1> DEFINE verdict == Links!ShouldAssociate(loaded[d[1]], loaded[d[2]])
<1>1. /\ links_op["pass"].stage = "pair" /\ d \in todo /\ todo' = todo \ {d}
      /\ links_op' = [links_op EXCEPT !["pass"] = IF link[d] # Links!None \/ verdict = "none" THEN @
                                                  ELSE Links!Adding(d, "auto", verdict)]
      /\ UNCHANGED <<readings, link, evidence, loaded, lost>>
    BY DEF Links!LookAt
<1>2. verdict \in {"observed", "inferred", "none"}
    BY Verdicts
<1>3. PICK v : v = verdict
    OBVIOUS
<1> HIDE DEF verdict
<1>4. "pass" \in Links!Procs /\ \A x \in todo' : x \in todo
    BY <1>1, PassIsNoCaller
<1>5. CASE link[d] # Links!None \/ v = "none"
    <2>1. links_op' = [links_op EXCEPT !["pass"] = links_op["pass"]]
        BY <1>1, <1>3, <1>5
    <2>2. QED
        BY <1>1, <1>4, <2>1, CallOnly
<1>6. CASE ~(link[d] # Links!None \/ v = "none")
    <2>1. PICK k : k = Links!Adding(d, "auto", v)
        OBVIOUS
    <2>2. links_op' = [links_op EXCEPT !["pass"] = k]
        BY <1>1, <1>3, <1>6, <2>1
    <2>3. k.stage = "insert" /\ k.on = d /\ k.row = [source |-> "auto", state |-> v]
        <3>1. k = [Links!Idle EXCEPT !.stage = "insert", !.on = d, !.next = <<d, Links!Swap(d)>>,
                                     !.row = [source |-> "auto", state |-> v]]
            BY <2>1 DEF Links!Adding, Links!InitialEvidenceState
        <3>2. QED
            BY <3>1, IdleLinkCall DEF LinkCalls
    <2>4. \A q \in Links!Procs : links_op'[q] = IF q = "pass" THEN k ELSE links_op[q]
        BY <2>2 DEF LinksInv
    <2>5. ReadingsFound' /\ Ends(d) \subseteq DOMAIN loaded
        BY <1>1 DEF EvidenceInv, ReadingsFound, FinitelyMany, Ends
    <2>6. JudgedAsRead(links_op["pass"])'
        <3>1. v = Links!ShouldAssociate(loaded'[d[1]], loaded'[d[2]]) /\ v # "none"
            BY <1>1, <1>3, <1>6 DEF verdict
        <3>2. links_op'["pass"] = k /\ Ends(d) \subseteq DOMAIN loaded'
            BY <1>1, <1>4, <2>4, <2>5
        <3>3. QED
            BY <2>3, <3>1, <3>2 DEF JudgedAsRead, Ends
    <2>7. \A q \in Links!Callers : links_op'[q].stage = "insert" => links_op'[q].row.source # "auto"
        BY <2>4, PassIsNoCaller DEF EvidenceInv
    <2>8. \A w \in evidence' : Links!Sound(w)'
        BY <1>1 DEF EvidenceInv, Links!Sound, Links!Pairings
    <2>9. \A x \in Links!Directions : link'[x].source = "auto" => Explained(x)'
        BY <1>1 DEF EvidenceInv, Explained, Halves
    <2>10. QED
        BY <2>5, <2>6, <2>7, <2>8, <2>9 DEF EvidenceInv
<1>7. QED
    BY <1>5, <1>6

\* The evidence is recorded, of the readings the verdict was on.
LEMMA RecordFound ==
    ASSUME LinksInv, EvidenceInv, Links!AssociationsAssumption, Links!Record
    PROVE  EvidenceInv'
<1>1. PICK k \in LinkCalls : k = links_op["pass"] /\ k.stage = "record" /\ JudgedAsRead(k)
    BY PassIsNoCaller DEF LinksInv, EvidenceInv, Links!Record
<1>2. PICK a, b : a = loaded[k.on[1]] /\ b = loaded[k.on[2]]
    OBVIOUS
<1>3. PICK w : w = [on |-> k.on, state |-> k.row.state, a |-> a, b |-> b,
                    count |-> Links!Cardinality(Links!Cooccurrences(a, b))]
    OBVIOUS
<1>4. /\ evidence' = evidence \cup {w} /\ links_op' = [links_op EXCEPT !["pass"] = [Links!Idle EXCEPT !.stage = "pair"]]
      /\ lost' = lost \ {x \in Halves(k.on) : link[x].state = k.row.state}
      /\ UNCHANGED <<readings, link, loaded, todo>>
    BY <1>1, <1>2, <1>3 DEF Links!Record, Halves
<1>5. Links!Sound(w)
    <2>1. FinitelyMany(DOMAIN a) /\ FinitelyMany(DOMAIN b)
        BY <1>1, <1>2 DEF EvidenceInv, ReadingsFound, JudgedAsRead, Ends
    <2>2. k.row.state = Links!ShouldAssociate(a, b) /\ k.row.state # "none"
        BY <1>1, <1>2 DEF JudgedAsRead
    <2>3. w.a = a /\ w.b = b /\ w.state = k.row.state /\ w.count = Links!Cardinality(Links!Cooccurrences(a, b))
        BY <1>3
    <2>4. QED
        BY <2>1, <2>2, <2>3, VerdictIsSound
<1>6. \A q \in Links!Procs : links_op'[q] = IF q = "pass" THEN [Links!Idle EXCEPT !.stage = "pair"] ELSE links_op[q]
    BY <1>4 DEF LinksInv
<1>7. links_op'["pass"].stage = "pair"
    BY <1>6, PassIsNoCaller, IdleLinkCall, StageSet
<1>8. JudgedAsRead(links_op["pass"])'
    BY <1>7 DEF JudgedAsRead
<1>9. \A q \in Links!Callers : links_op'[q].stage = "insert" => links_op'[q].row.source # "auto"
    BY <1>6, PassIsNoCaller DEF EvidenceInv
<1>10. \A x \in evidence' : Links!Sound(x)'
    <2>1. \A x \in evidence' : Links!Sound(x)
        BY <1>4, <1>5 DEF EvidenceInv
    <2>2. QED
        BY <2>1 DEF Links!Sound, Links!Pairings
<1>11. ASSUME NEW d \in Links!Directions, link'[d].source = "auto" PROVE Explained(d)'
    <2>1. Explained(d) /\ link' = link
        BY <1>4, <1>11 DEF EvidenceInv
    <2>2. CASE d \in Halves(k.on) /\ link[d].state = k.row.state
        <3>1. w \in evidence' /\ w.on = k.on /\ w.state = k.row.state
            BY <1>3, <1>4
        <3>2. w.on \in Halves(d)
            BY <2>2, <3>1, HalvesMeet DEF LinkCalls
        <3>3. QED
            BY <2>1, <2>2, <3>1, <3>2 DEF Explained, Halves
    <2>3. CASE ~(d \in Halves(k.on) /\ link[d].state = k.row.state)
        <3>1. d \in lost => d \in lost'
            BY <1>4, <2>3
        <3>2. ~(k.on \in Halves(d) /\ k.row.state = link[d].state)
            <4>1. k.on \in Halves(d) => d \in Halves(k.on)
                BY HalvesMeet DEF LinkCalls
            <4>2. QED
                BY <2>3, <4>1
        <3>3. \/ \E x \in evidence : x.on \in Halves(d) /\ x.state = link[d].state
              \/ d \in lost
            BY <1>1, <2>1, <3>2 DEF Explained
        <3>4. QED
            BY <1>4, <2>1, <3>1, <3>3 DEF Explained, Halves
    <2>4. QED
        BY <2>2, <2>3
<1>12. ReadingsFound'
    BY <1>4, FoundStays DEF EvidenceInv
<1>13. QED
    BY <1>8, <1>9, <1>10, <1>11, <1>12 DEF EvidenceInv

LEMMA EvidenceInitially == RecordsInit /\ Links!AssociationsAssumption => EvidenceInv
<1> SUFFICES ASSUME RecordsInit, Links!AssociationsAssumption PROVE EvidenceInv
    OBVIOUS
<1>1. Links!Init
    BY DEF RecordsInit
<1>2. \A p \in Links!Procs : links_op[p].stage = "idle"
    BY <1>1, IdleLinkCall DEF Links!Init
<1>3. \A h \in MeetingHistories : FinitelyMany(DOMAIN h)
    BY LinksCounts DEF Links!AssociationsAssumption, FinitelyMany
<1>4. DOMAIN loaded = {} /\ todo = {} /\ evidence = {}
    BY <1>1 DEF Links!Init
<1>5. ReadingsFound
    BY <1>1, <1>3, <1>4 DEF Links!Init, ReadingsFound
<1>6. \A d \in Links!Directions : link[d].source # "auto"
    BY <1>1 DEF Links!Init, Links!None
<1>7. QED
    BY <1>2, <1>4, <1>5, <1>6, PassIsNoCaller DEF EvidenceInv, JudgedAsRead

LEMMA EvidenceStutters ==
    ASSUME EvidenceInv, UNCHANGED <<readings, link, evidence, links_op, loaded, todo, lost>>
    PROVE  EvidenceInv'
<1>1. ReadingsFound'
    BY FoundStays DEF EvidenceInv
<1>2. QED
    BY <1>1, NothingFound

LEMMA EvidenceStep == LinksInv /\ EvidenceInv /\ Links!AssociationsAssumption /\ [RecordsNext]_suiteVars => EvidenceInv'
<1> SUFFICES ASSUME LinksInv, EvidenceInv, Links!AssociationsAssumption, [RecordsNext]_suiteVars PROVE EvidenceInv'
    OBVIOUS
<1>1. CASE UNCHANGED linksVars
    BY <1>1, EvidenceStutters DEF linksVars
<1>2. CASE Links!Next
    <2>1. ASSUME NEW p \in Links!Procs, Links!Fail(p) \/ Links!Victim(p) PROVE EvidenceInv'
        BY <2>1, AbandonFound DEF Links!Fail, Links!Victim
    <2>2. ASSUME Links!Done PROVE EvidenceInv'
        BY <2>2, EvidenceStutters DEF Links!Done, Links!vars
    <2>3. QED
        BY <1>2, <2>1, <2>2, ObserveFound, CallsFound, WritesFound, DeletionFound, CommitFound, LoadFound,
           StartsAndEndsFound, LookAtFound, RecordFound
        DEF Links!Next
<1>3. QED
    BY <1>1, <1>2 DEF RecordsNext, suiteVars, linksVars

\* A link the correlation pass made is explained in every reachable state: there is evidence of
\* its grade, unless recording it failed or is still to come; and the evidence is sound: as many
\* events as the two histories allow at all, enough of them for the grade.
THEOREM LinksStayExplained == RecordsSpec => []LinksAreExplained
<1>1. LinksInv /\ EvidenceInv => LinksAreExplained
    BY DEF EvidenceInv, Explained, Halves, LinksAreExplained, Links!AutoLinksAreExplained
<1>2. RecordsInit => LinksInv /\ EvidenceInv
    BY LinksInitially, EvidenceInitially, LinksAreSound
<1>3. LinksInv /\ EvidenceInv /\ [RecordsNext]_suiteVars => (LinksInv /\ EvidenceInv)'
    BY LinksStep, EvidenceStep, LinksAreSound
<1>4. QED
    BY <1>1, <1>2, <1>3, PTL DEF RecordsSpec

-----------------------------------------------------------------------------
(* The agent's tools.                                                        *)

CallFields == {"tool", "stage", "on", "left", "list", "affected", "rule", "patch", "read", "filter",
               "status", "named", "changed"}
EmitterFields == {"entity", "rule", "name", "own", "ap"}
EntityFields == {"state", "name", "notes"}

\* Strengthening: an entity the agent has not made is one an operator has confirmed.
AgentTables ==
    /\ Agent!TypeOK
    /\ \A m \in DOMAIN agent_emitter : DOMAIN agent_emitter[m] = EmitterFields
    /\ \A n \in DOMAIN entity : DOMAIN entity[n] = EntityFields /\ (n \in mine \/ entity[n].state = "verified")

Creation == "create_emitter_from_emissions"

\* Strengthening, of the creation of an emitter: what it has written it has noted as affected,
\* at every stage, and that is the row and what it has done of its list.
CreationOK(c) ==
    c.tool = Creation /\ c.stage # "idle" =>
        /\ c.stage = "insert" => c.changed = {} /\ c.affected = {}
        /\ c.stage \in {"list", "rule", "claim", "get"} => c.on \in c.affected
        /\ c.left \subseteq c.list /\ c.changed \subseteq c.affected
        /\ c.affected \subseteq {c.on} \cup (c.list \ c.left)
        /\ c.stage = "ended" => c.named = c.affected

\* Strengthening, of the other tools: what they have written is the row they are about or of their
\* list, which is done when a call that works through one has come to its end.
OthersOK(c) ==
    /\ c.tool \notin {Creation, "delete_emissions_where"} =>
           /\ c.changed \subseteq ({c.on} \ {Agent!None}) \cup c.list
           /\ c.stage = "ended" /\ c.status = "ok" => c.named = ({c.on} \ {Agent!None}) \cup c.list
    /\ c.tool \in Agent!Loops => /\ c.stage \in {"insert", "list", "rule", "claim", "get", "audit", "ended", "dropped"}
                                 /\ c.left \subseteq c.list
    /\ c.stage \in {"insert", "list"} => c.tool \in Agent!Loops
    /\ c.stage = "delete" => c.tool \in {"delete_entity", "delete_emitter", "delete_emissions", "delete_emissions_where"}
    /\ c.tool \in Agent!Loops /\ (c.stage \in {"rule", "claim", "get"} \/ (c.stage \in {"audit", "ended"} /\ c.status = "ok")) =>
           c.left = {}

LogOK(c) == CreationOK(c) /\ OthersOK(c)

\* Strengthening, of any call: the row it will insert has an id of its own, it has a status when
\* it comes to the log, and what it deletes it may.
AgentCallOK(c) ==
    /\ DOMAIN c = CallFields /\ LogOK(c)
    /\ c.stage = "insert" => c.on \in born \cap (IF c.tool = "create_entity" THEN Wards ELSE EmitterIds)
    /\ c.stage = "audit" => c.status \in {"ok", "error"}
    /\ c.stage = "delete" /\ c.tool = "delete_emissions_where" => c.filter.all \/ Agent!HasFilter(c.filter.sent)
    /\ c.stage = "delete" /\ c.tool = "delete_entity" /\ c.on \in DOMAIN entity => entity[c.on].state # "verified"

AgentInv == AgentTables /\ AgentCallOK(call) /\ others \in Nat

LEMMA NoCallFields ==
    /\ DOMAIN Agent!NoCall = CallFields
    /\ Agent!NoCall.stage = "idle" /\ Agent!NoCall.affected = {} /\ Agent!NoCall.changed = {}
    /\ Agent!NoCall.left = {} /\ Agent!NoCall.list = {} /\ Agent!NoCall.tool = "none"
<1>1. DOMAIN Agent!NoCall = CallFields
    BY DEF Agent!NoCall, CallFields
<1>2. QED
    BY <1>1 DEF Agent!NoCall, Agent!None

LEMMA AgentInitially == RecordsInit => AgentInv
<1> SUFFICES ASSUME RecordsInit PROVE AgentInv
    OBVIOUS
<1>1. Agent!Init
    BY DEF RecordsInit
<1>2. Agent!TypeOK
    BY <1>1 DEF Agent!Init, Agent!TypeOK
<1>3. \A m \in DOMAIN agent_emitter : DOMAIN agent_emitter[m] = EmitterFields
    BY <1>1 DEF Agent!Init, EmitterFields
<1>4. \A n \in DOMAIN entity : DOMAIN entity[n] = EntityFields
    BY <1>1 DEF Agent!Init, EntityFields
<1>5. \A n \in DOMAIN entity : n \in mine \/ entity[n].state = "verified"
    BY <1>1 DEF Agent!Init, Agent!InitialEvidenceState
<1>6. AgentCallOK(call)
    BY <1>1, NoCallFields DEF Agent!Init, AgentCallOK, LogOK, CreationOK, OthersOK, Agent!Loops, Agent!OverEmissions, Agent!OverEmitters, Agent!None
<1>7. QED
    BY <1>1, <1>2, <1>3, <1>4, <1>5, <1>6 DEF AgentInv, AgentTables, Agent!Init

\* A call begins: the tables stay, ids may be given out.
LEMMA AgentBegins ==
    ASSUME AgentInv, NEW c, Agent!Begin(c), born \subseteq born', AgentCallOK(c)'
    PROVE  AgentInv'
BY DEF AgentInv, AgentTables, Agent!TypeOK, Agent!Begin, Agent!tables

\* A call without a list to work through, as it begins.
LEMMA NoLoop ==
    ASSUME NEW c, c.changed = {},
           c.tool \in {"set_emitter_match_rule", "update_emitter", "update_entity",
                       "delete_entity", "delete_emitter", "delete_emissions"},
           c.stage \in {"rule", "update", "audit"}
              \/ (c.stage = "delete" /\ c.tool \in {"delete_entity", "delete_emitter", "delete_emissions"})
    PROVE  LogOK(c)'
<1>1. c.tool \notin Agent!Loops /\ c.tool # Creation
    BY DEF Creation, Agent!Loops, Agent!OverEmissions, Agent!OverEmitters
<1>2. CreationOK(c)'
    BY <1>1 DEF CreationOK
<1>3. OthersOK(c)'
    BY <1>1 DEF OthersOK
<1>4. QED
    BY <1>2, <1>3 DEF LogOK

LEMMA BeginSteps ==
    ASSUME AgentInv, Agent!Asks
    PROVE  AgentInv'
<1> USE NoCallFields
<1>1. ASSUME NEW tool \in Agent!Loops \cup {"set_emitter_match_rule", "delete_emissions"}, Agent!BeginBad(tool)
      PROVE  AgentInv'
    <2> DEFINE k == [Agent!NoCall EXCEPT !.tool = tool, !.stage = "audit", !.status = "error"]
    <2>1. /\ DOMAIN k = CallFields /\ k.tool = tool /\ k.stage = "audit" /\ k.status = "error"
          /\ k.affected = {} /\ k.changed = {} /\ k.left = {} /\ k.list = {}
        BY DEF CallFields
    <2>2. tool # "preview_match_rule"
        BY DEF Agent!Loops, Agent!OverEmissions, Agent!OverEmitters
    <2> HIDE DEF k
    <2>3. AgentCallOK(k)'
        <3>1. PICK c : c = k
            OBVIOUS
        <3>2. QED
            BY <2>1, <2>2 DEF AgentCallOK, LogOK, CreationOK, OthersOK, Creation
    <2>4. QED
        BY <1>1, <2>3, AgentBegins DEF Agent!BeginBad, k
<1>2. ASSUME NEW tool \in Agent!Loops, NEW on, NEW list, NEW rule, Agent!BeginList(tool, on, list, rule)
      PROVE  AgentInv'
    <2> DEFINE k == [Agent!NoCall EXCEPT !.tool = tool,
                                         !.stage = IF tool \in Agent!Creates THEN "insert" ELSE "list",
                                         !.on = on, !.left = list, !.list = list, !.rule = rule]
    <2>1. /\ DOMAIN k = CallFields /\ k.tool = tool /\ k.on = on
          /\ k.stage = (IF tool \in Agent!Creates THEN "insert" ELSE "list")
          /\ k.affected = {} /\ k.changed = {} /\ k.left = list /\ k.list = list
        BY DEF CallFields
    <2>2. /\ tool # "preview_match_rule"
          /\ tool = "create_emitter_from_emissions" => tool \in Agent!Creates /\ on \in EmitterIds
          /\ tool = "create_entity" => on \in Wards
          /\ tool \in Agent!Creates => tool \in {"create_emitter_from_emissions", "create_entity"} /\ on \in born'
        BY <1>2 DEF Agent!Loops, Agent!OverEmissions, Agent!OverEmitters, Agent!BeginList, Agent!Detaching, Agent!Creates
    <2>3. born \subseteq born' /\ Agent!Begin(k)
        BY <1>2 DEF Agent!BeginList
    <2> HIDE DEF k
    <2>4. AgentCallOK(k)'
        <3>1. PICK c : c = k
            OBVIOUS
        <3>2. QED
            BY <2>1, <2>2 DEF AgentCallOK, LogOK, CreationOK, OthersOK, Creation
    <2>5. QED
        BY <2>3, <2>4, AgentBegins
<1>3. ASSUME NEW m, NEW rule, Agent!BeginRule(m, rule)
      PROVE  AgentInv'
    <2> DEFINE k == [Agent!NoCall EXCEPT !.tool = "set_emitter_match_rule", !.stage = "rule", !.on = m, !.rule = rule]
    <2>1. DOMAIN k = CallFields /\ k.tool = "set_emitter_match_rule" /\ k.stage = "rule" /\ k.changed = {}
        BY DEF CallFields
    <2>2. born \subseteq born' /\ Agent!Begin(k)
        BY <1>3 DEF Agent!BeginRule
    <2> HIDE DEF k
    <2>3. AgentCallOK(k)'
        <3>1. PICK c : c = k
            OBVIOUS
        <3>2. AgentCallOK(c)'
            BY <2>1, <3>1, NoLoop DEF AgentCallOK
        <3>3. QED
            BY <3>1, <3>2
    <2>4. QED
        BY <2>2, <2>3, AgentBegins
<1>4. ASSUME NEW tool \in {"update_emitter", "update_entity"}, NEW on, NEW patch, Agent!BeginUpdate(tool, on, patch)
      PROVE  AgentInv'
    <2> DEFINE row == IF tool = "update_emitter" THEN agent_emitter ELSE entity
               k == [Agent!NoCall EXCEPT !.tool = tool, !.on = on, !.patch = patch,
                                         !.stage = IF on \in DOMAIN row THEN "update" ELSE "audit",
                                         !.status = IF on \in DOMAIN row THEN Agent!None ELSE "error",
                                         !.read = IF on \in DOMAIN row THEN row[on] ELSE <<>>]
    <2>1. /\ DOMAIN k = CallFields /\ k.tool = tool
          /\ k.stage = "update" \/ (k.stage = "audit" /\ k.status = "error")
          /\ k.changed = {}
        BY DEF CallFields
    <2>2. born \subseteq born' /\ Agent!Begin(k)
        BY <1>4 DEF Agent!BeginUpdate
    <2> HIDE DEF k
    <2>3. PICK c : c = k
        OBVIOUS
    <2>4. AgentCallOK(c)'
        BY <2>1, <2>3, NoLoop DEF AgentCallOK
    <2>5. QED
        BY <2>2, <2>3, <2>4, AgentBegins
<1>5. ASSUME NEW n, Agent!BeginDeleteEntity(n)
      PROVE  AgentInv'
    <2> DEFINE k == [Agent!NoCall EXCEPT !.tool = "delete_entity", !.on = n,
                                         !.stage = IF Agent!Refuses(n) THEN "audit" ELSE "delete",
                                         !.status = IF Agent!Refuses(n) THEN "error" ELSE Agent!None]
    <2>1. /\ DOMAIN k = CallFields /\ k.tool = "delete_entity" /\ k.on = n /\ k.changed = {}
          /\ \/ k.stage = "audit" /\ k.status = "error"
             \/ k.stage = "delete" /\ ~Agent!Refuses(n)
        BY DEF CallFields
    <2>2. born \subseteq born' /\ Agent!Begin(k) /\ entity' = entity
        BY <1>5 DEF Agent!BeginDeleteEntity, Agent!Begin, Agent!tables
    <2> HIDE DEF k
    <2>3. PICK c : c = k
        OBVIOUS
    <2>4. AgentCallOK(c)'
        BY <2>1, <2>2, <2>3, NoLoop DEF AgentCallOK, Agent!Refuses
    <2>5. QED
        BY <2>2, <2>3, <2>4, AgentBegins
<1>6. ASSUME NEW m, Agent!BeginDeleteEmitter(m)
      PROVE  AgentInv'
    <2> DEFINE k == [Agent!NoCall EXCEPT !.tool = "delete_emitter", !.on = m, !.stage = "delete"]
    <2>1. DOMAIN k = CallFields /\ k.tool = "delete_emitter" /\ k.stage = "delete" /\ k.changed = {}
        BY DEF CallFields
    <2>2. born \subseteq born' /\ Agent!Begin(k)
        BY <1>6 DEF Agent!BeginDeleteEmitter
    <2> HIDE DEF k
    <2>3. AgentCallOK(k)'
        <3>1. PICK c : c = k
            OBVIOUS
        <3>2. AgentCallOK(c)'
            BY <2>1, <3>1, NoLoop DEF AgentCallOK
        <3>3. QED
            BY <3>1, <3>2
    <2>4. QED
        BY <2>2, <2>3, AgentBegins
<1>7. ASSUME NEW list, Agent!BeginDelete(list)
      PROVE  AgentInv'
    <2> DEFINE k == [Agent!NoCall EXCEPT !.tool = "delete_emissions", !.stage = "delete", !.list = list]
    <2>1. DOMAIN k = CallFields /\ k.tool = "delete_emissions" /\ k.stage = "delete" /\ k.changed = {}
        BY DEF CallFields
    <2>2. born \subseteq born' /\ Agent!Begin(k)
        BY <1>7 DEF Agent!BeginDelete
    <2> HIDE DEF k
    <2>3. AgentCallOK(k)'
        <3>1. PICK c : c = k
            OBVIOUS
        <3>2. AgentCallOK(c)'
            BY <2>1, <3>1, NoLoop DEF AgentCallOK
        <3>3. QED
            BY <3>1, <3>2
    <2>4. QED
        BY <2>2, <2>3, AgentBegins
<1>8. ASSUME NEW f, NEW all \in BOOLEAN, Agent!BeginDeleteWhere(f, all)
      PROVE  AgentInv'
    <2> DEFINE ok == all \/ Agent!HasFilter(f)
               k == [Agent!NoCall EXCEPT !.tool = "delete_emissions_where", !.stage = IF ok THEN "delete" ELSE "audit",
                                         !.status = IF ok THEN Agent!None ELSE "error",
                                         !.filter = [sent |-> f, all |-> all]]
    <2>1. /\ DOMAIN k = CallFields /\ k.tool = "delete_emissions_where"
          /\ k.stage = (IF ok THEN "delete" ELSE "audit") /\ k.status = (IF ok THEN Agent!None ELSE "error")
          /\ k.filter = [sent |-> f, all |-> all]
        BY DEF CallFields
    <2>2. born \subseteq born' /\ Agent!Begin(k)
        BY <1>8 DEF Agent!BeginDeleteWhere
    <2> HIDE DEF k
    <2>3. AgentCallOK(k)'
        <3>1. PICK c : c = k
            OBVIOUS
        <3>2. AgentCallOK(c)
            <4>1. k.filter.sent = f /\ k.filter.all = all
                BY <2>1
            <4>2. QED
                BY <2>1, <3>1, <4>1 DEF AgentCallOK, LogOK, CreationOK, OthersOK, Creation, Agent!Loops, Agent!OverEmissions, Agent!OverEmitters
        <3>3. QED
            BY <2>1, <3>1, <3>2 DEF AgentCallOK, LogOK, CreationOK, OthersOK
    <2>4. QED
        BY <2>2, <2>3, AgentBegins
<1>9. QED
    BY <1>1, <1>2, <1>3, <1>4, <1>5, <1>6, <1>7, <1>8 DEF Agent!Asks

\* What a row of the tables may become.
LEMMA OwnersWritten ==
    ASSUME AgentTables, UNCHANGED <<agent_emitter, entity, born, mine>>,
           DOMAIN agent_owner' \subseteq DOMAIN agent_owner,
           \A e \in DOMAIN agent_owner' : agent_owner'[e] \in DOMAIN agent_emitter \cup {Agent!None}
    PROVE  AgentTables'
BY DEF AgentTables, Agent!TypeOK

LEMMA EmitterWritten ==
    ASSUME AgentTables, UNCHANGED <<agent_owner, entity, born, mine>>, NEW m \in born \cap EmitterIds, NEW r,
           DOMAIN r = EmitterFields, r.entity \in DOMAIN entity \cup {Agent!None},
           agent_emitter' = Agent!With(agent_emitter, m, r)
    PROVE  AgentTables'
BY DEF AgentTables, Agent!TypeOK, Agent!With

LEMMA EntityWritten ==
    ASSUME AgentTables, UNCHANGED <<agent_owner, agent_emitter, born>>, mine \subseteq mine',
           NEW n \in born \cap Wards, NEW r,
           DOMAIN r = EntityFields, n \in mine' \/ r.state = "verified",
           entity' = Agent!With(entity, n, r)
    PROVE  AgentTables'
BY DEF AgentTables, Agent!TypeOK, Agent!With

LEMMA TablesStay ==
    ASSUME AgentTables, UNCHANGED <<agent_owner, agent_emitter, entity, born, mine>>
    PROVE  AgentTables'
BY DEF AgentTables, Agent!TypeOK

LEMMA EmitterGoes ==
    ASSUME AgentTables, UNCHANGED <<born, mine>>, NEW m, Agent!RemoveEmitter(m)
    PROVE  AgentTables'
<1>1. /\ agent_emitter' = Agent!Without(agent_emitter, {m}) /\ entity' = entity
      /\ agent_owner' = [e \in DOMAIN agent_owner |-> IF agent_owner[e] = m THEN Agent!None ELSE agent_owner[e]]
    BY DEF Agent!RemoveEmitter
<1>2. QED
    BY <1>1 DEF AgentTables, Agent!TypeOK, Agent!Without

LEMMA EntityGoes ==
    ASSUME AgentTables, UNCHANGED <<born, mine>>, NEW n, Agent!RemoveEntity(n)
    PROVE  AgentTables'
<1>1. /\ entity' = Agent!Without(entity, {n}) /\ agent_emitter' = Agent!Detached({n}) /\ agent_owner' = agent_owner
    BY DEF Agent!RemoveEntity
<1>2. /\ DOMAIN entity' = DOMAIN entity \ {n} /\ \A x \in DOMAIN entity' : entity'[x] = entity[x]
    BY <1>1 DEF Agent!Without
<1>3. DOMAIN agent_emitter' = DOMAIN agent_emitter
    BY <1>1 DEF Agent!Detached
<1>4. ASSUME NEW x \in DOMAIN agent_emitter
      PROVE  /\ DOMAIN agent_emitter'[x] = EmitterFields
             /\ agent_emitter'[x].entity \in DOMAIN entity' \cup {Agent!None}
    <2>1. DOMAIN agent_emitter[x] = EmitterFields /\ agent_emitter[x].entity \in DOMAIN entity \cup {Agent!None}
        BY DEF AgentTables, Agent!TypeOK
    <2>2. CASE agent_emitter[x].entity \in {n}
        <3>1. agent_emitter'[x] = [agent_emitter[x] EXCEPT !.entity = Agent!None]
            BY <1>1, <2>2 DEF Agent!Detached
        <3>2. QED
            BY <2>1, <3>1 DEF EmitterFields
    <2>3. CASE agent_emitter[x].entity \notin {n}
        <3>1. agent_emitter'[x] = agent_emitter[x]
            BY <1>1, <2>3 DEF Agent!Detached
        <3>2. QED
            BY <1>2, <2>1, <2>3, <3>1
    <2>4. QED
        BY <2>2, <2>3
<1>5. QED
    BY <1>1, <1>2, <1>3, <1>4 DEF AgentTables, Agent!TypeOK

LEMMA EmissionsGo ==
    ASSUME AgentTables, UNCHANGED <<born, mine>>, NEW S, Agent!RemoveEmissions(S)
    PROVE  AgentTables'
<1>1. agent_owner' = Agent!Without(agent_owner, S) /\ UNCHANGED <<agent_emitter, entity>>
    BY DEF Agent!RemoveEmissions
<1>2. QED
    BY <1>1, OwnersWritten DEF AgentTables, Agent!TypeOK, Agent!Without

\* What a call may become, other than one with a row to insert, a row in the log, or a delete.
LEMMA CallMoves ==
    ASSUME AgentCallOK(call), NEW k, call' = k, DOMAIN k = CallFields,
           k.stage \notin {"insert", "ended", "delete"}, k.stage = "audit" => k.status \in {"ok", "error"},
           LogOK(k)
    PROVE  AgentCallOK(call)'
<1>1. LogOK(call)'
    BY DEF LogOK, CreationOK, OthersOK
<1>2. QED
    BY <1>1 DEF AgentCallOK

\* Go sets no field but what the call has written.
LEMMA GoFields ==
    ASSUME NEW c, DOMAIN c = CallFields, Agent!Go(c)
    PROVE  /\ DOMAIN call' = CallFields
           /\ \A f \in CallFields \ {"changed"} : call'[f] = c[f]
           /\ call'.changed = call.changed \cup Agent!Written
<1>1. PICK S : S = call.changed \cup Agent!Written
    OBVIOUS
<1>2. call' = [c EXCEPT !.changed = S]
    BY <1>1 DEF Agent!Go
<1>3. QED
    BY <1>1, <1>2 DEF CallFields

LEMMA NoDifference == ASSUME NEW f PROVE Agent!Differ(f, f) = {}
BY DEF Agent!Differ

\* What a statement has written when it is no delete.
LEMMA WrittenBy ==
    ASSUME NEW S, call.stage # "delete", Agent!Differ(agent_owner, agent_owner') \subseteq S,
           Agent!Differ(agent_emitter, agent_emitter') \subseteq S, Agent!Differ(entity, entity') \subseteq S
    PROVE  Agent!Written \subseteq S
BY DEF Agent!Written

LEMMA GoMoves ==
    ASSUME AgentCallOK(call), NEW c, Agent!Go(c), DOMAIN c = CallFields,
           c.tool = call.tool, c.on = call.on, c.list = call.list,
           c.stage \notin {"insert", "ended", "delete"}, c.stage = "audit" => c.status \in {"ok", "error"},
           c.tool = Creation =>
               /\ c.stage \in {"list", "claim"} => c.on \in c.affected
               /\ c.affected \subseteq {c.on} \cup (c.list \ c.left)
               /\ call.changed \subseteq c.affected /\ Agent!Written \subseteq c.affected
               /\ c.stage \in {"list", "claim", "audit"},
           c.stage = "list" => c.tool \in Agent!Loops,
           c.tool \notin {Creation, "delete_emissions_where"} =>
               Agent!Written \subseteq ({c.on} \ {Agent!None}) \cup c.list,
           c.tool \in Agent!Loops =>
               /\ c.stage \in {"list", "claim", "audit"} /\ c.left \subseteq c.list
               /\ c.stage = "claim" => c.left = {}
               /\ c.stage = "audit" => c.status = "error"
    PROVE  AgentCallOK(call)'
<1>1. /\ DOMAIN call' = CallFields
      /\ \A f \in CallFields \ {"changed"} : call'[f] = c[f]
      /\ call'.changed = call.changed \cup Agent!Written
    BY GoFields
<1>2. /\ call'.tool = c.tool /\ call'.stage = c.stage /\ call'.on = c.on /\ call'.status = c.status
      /\ call'.left = c.left /\ call'.list = c.list /\ call'.affected = c.affected
    BY <1>1 DEF CallFields
<1>3. CreationOK(call)'
    BY <1>1, <1>2 DEF CreationOK, Creation, Agent!Loops, Agent!OverEmissions
<1>4. OthersOK(call)'
    <2>1. call.tool \notin {Creation, "delete_emissions_where"} =>
              call.changed \subseteq ({call.on} \ {Agent!None}) \cup call.list
        BY DEF AgentCallOK, LogOK, OthersOK
    <2>2. QED
        BY <1>1, <1>2, <2>1 DEF OthersOK
<1>5. QED
    BY <1>1, <1>2, <1>3, <1>4 DEF AgentCallOK, LogOK

LEMMA CallFacts ==
    ASSUME AgentInv
    PROVE  /\ DOMAIN call = CallFields
           /\ \A s : /\ DOMAIN Agent!Stage(s) = CallFields /\ Agent!Stage(s).stage = s
                     /\ \A f \in CallFields \ {"stage"} : Agent!Stage(s)[f] = call[f]
           /\ \A s : /\ DOMAIN Agent!Ends(s) = CallFields
                     /\ Agent!Ends(s).stage = "audit" /\ Agent!Ends(s).status = s
                     /\ \A f \in CallFields \ {"stage", "status"} : Agent!Ends(s)[f] = call[f]
BY DEF AgentInv, AgentCallOK, Agent!Stage, Agent!Ends, CallFields

\* Ids are none of them None.
LEMMA IdsAreSome == Agent!None \notin EmitterIds /\ Agent!None \notin Wards /\ Agent!None \notin Emissions
BY ToolsAreSound DEF Agent!ToolsAssumption, Agent!Ids

LEMMA AgentInserts ==
    ASSUME AgentInv, Agent!Insert
    PROVE  AgentInv'
<1> DEFINE k == [Agent!Stage("list") EXCEPT !.affected = {call.on}]
<1>1. /\ call.stage = "insert" /\ UNCHANGED <<agent_owner, born, others>>
      /\ call.on \in born \cap (IF call.tool = "create_entity" THEN Wards ELSE EmitterIds)
    BY DEF Agent!Insert, Agent!Statement, AgentInv, AgentCallOK
<1>2. AgentTables'
    <2>1. CASE call.tool = "create_entity"
        <3>1. PICK r : r = [state |-> "hypothesis", name |-> Agent!None, notes |-> Agent!None]
            OBVIOUS
        <3>2. DOMAIN r = EntityFields
            BY <3>1 DEF EntityFields
        <3>3. /\ entity' = Agent!With(entity, call.on, r)
              /\ mine' = mine \cup {call.on} /\ UNCHANGED agent_emitter
            BY <2>1, <3>1 DEF Agent!Insert, Agent!InitialEvidenceState
        <3>4. QED
            BY <1>1, <2>1, <3>2, <3>3, EntityWritten DEF AgentInv
    <2>2. CASE call.tool # "create_entity"
        <3>1. PICK r : r = [entity |-> Agent!None, rule |-> call.rule, name |-> Agent!None,
                            own |-> Agent!None, ap |-> Agent!None]
            OBVIOUS
        <3>2. DOMAIN r = EmitterFields /\ r.entity = Agent!None
            BY <3>1 DEF EmitterFields
        <3>3. agent_emitter' = Agent!With(agent_emitter, call.on, r) /\ UNCHANGED <<entity, mine>>
            BY <2>2, <3>1 DEF Agent!Insert
        <3>4. QED
            BY <1>1, <2>2, <3>2, <3>3, EmitterWritten DEF AgentInv
    <2>3. QED
        BY <2>1, <2>2
<1>3. AgentCallOK(call)'
    <2>1. PICK c : c = k /\ Agent!Go(c)
        BY DEF Agent!Insert, Agent!Go
    <2>2. /\ DOMAIN c = CallFields /\ c.tool = call.tool /\ c.stage = "list" /\ c.on = call.on
          /\ c.left = call.left /\ c.list = call.list /\ c.affected = {call.on}
        BY <2>1, CallFacts DEF CallFields
    <2>3. Agent!Written \subseteq {call.on}
        <3>1. /\ agent_owner' = agent_owner
              /\ \/ \E r : entity' = Agent!With(entity, call.on, r) /\ UNCHANGED agent_emitter
                 \/ \E r : agent_emitter' = Agent!With(agent_emitter, call.on, r) /\ UNCHANGED entity
            BY DEF Agent!Insert
        <3>2. /\ Agent!Differ(agent_owner, agent_owner') \subseteq {call.on}
              /\ Agent!Differ(agent_emitter, agent_emitter') \subseteq {call.on}
              /\ Agent!Differ(entity, entity') \subseteq {call.on}
            BY <3>1 DEF Agent!Differ, Agent!With
        <3>3. QED
            BY <1>1, <3>2, WrittenBy
    <2>4. call.on # Agent!None /\ OthersOK(call) /\ CreationOK(call)
        BY <1>1, IdsAreSome DEF AgentInv, AgentCallOK, LogOK
    <2>5. /\ call.tool \in Agent!Loops /\ call.left \subseteq call.list
          /\ call.tool = Creation => call.changed = {}
        BY <1>1, <2>4 DEF CreationOK, OthersOK
    <2>6. QED
        BY <1>1, <2>1, <2>2, <2>3, <2>4, <2>5, GoMoves DEF AgentInv
<1>4. QED
    BY <1>1, <1>2, <1>3 DEF AgentInv

\* A call that moves on without touching a table.
LEMMA QuietMoves ==
    ASSUME AgentInv, UNCHANGED <<Agent!tables, mine, born, others>>, NEW k, call' = k,
           DOMAIN k = CallFields,
           k.stage \notin {"insert", "ended", "delete"}, k.stage = "audit" => k.status \in {"ok", "error"},
           LogOK(k)
    PROVE  AgentInv'
<1>1. AgentTables'
    BY TablesStay DEF AgentInv, Agent!tables
<1>2. AgentCallOK(call)'
    BY CallMoves DEF AgentInv
<1>3. QED
    BY <1>1, <1>2 DEF AgentInv

LEMMA AgentQuietSteps ==
    ASSUME AgentInv, Agent!EndList \/ Agent!Get \/ Agent!Fail
    PROVE  AgentInv'
<1>1. PICK k : /\ call' = k /\ DOMAIN k = CallFields
               /\ k.tool = call.tool /\ k.on = call.on /\ k.left = call.left /\ k.list = call.list
               /\ k.affected = call.affected /\ k.changed = call.changed
               /\ \/ k.stage \in {"rule", "get"} /\ call.stage = "list" /\ call.left = {}
                  \/ k.stage = "audit" /\ k.status = "ok" /\ call.stage = "list" /\ call.left = {}
                  \/ k.stage = "audit" /\ k.status = "ok" /\ call.stage = "get"
                  \/ k.stage = "audit" /\ k.status = "error" /\ call.stage # "idle"
                  \/ k.stage = "dropped" /\ call.stage # "idle"
    <2>1. CASE Agent!EndList
        <3>1. PICK k : call' = k
            OBVIOUS
        <3>2. /\ call.stage = "list" /\ call.left = {}
              /\ k = Agent!Stage("rule") \/ k = Agent!Stage("get") \/ k = Agent!Ends("ok")
            BY <2>1, <3>1 DEF Agent!EndList
        <3>3. QED
            BY <3>1, <3>2, CallFacts DEF CallFields
    <2>2. CASE Agent!Get
        <3>1. PICK k : call' = k
            OBVIOUS
        <3>2. call.stage = "get" /\ (k = Agent!Ends("error") \/ k = Agent!Ends("ok"))
            BY <2>2, <3>1 DEF Agent!Get
        <3>3. QED
            BY <3>1, <3>2, CallFacts DEF CallFields
    <2>3. CASE Agent!Fail
        <3>1. PICK k : call' = k
            OBVIOUS
        <3>2. call.stage # "idle" /\ (k = Agent!Ends("error") \/ k = Agent!Stage("dropped"))
            BY <2>3, <3>1 DEF Agent!Fail, Agent!Running
        <3>3. QED
            BY <3>1, <3>2, CallFacts DEF CallFields
    <2>4. QED
        BY <2>1, <2>2, <2>3
<1>2. UNCHANGED <<Agent!tables, mine, born>>
    BY DEF Agent!EndList, Agent!Get, Agent!Fail, Agent!Statement
<1>3. others' = others
    BY DEF Agent!EndList, Agent!Get, Agent!Fail, Agent!Statement
<1>4. CreationOK(call) /\ OthersOK(call)
    BY DEF AgentInv, AgentCallOK, LogOK
<1>5. call.stage = "list" /\ call.tool = Creation => call.on \in call.affected
    BY <1>4 DEF CreationOK
<1>6. CreationOK(k)
    BY <1>1, <1>4 DEF CreationOK
<1>7. OthersOK(k)
    BY <1>1, <1>4 DEF OthersOK
<1>8. QED
    BY <1>1, <1>2, <1>3, <1>6, <1>7, QuietMoves DEF LogOK, Agent!tables

LEMMA AgentAudits ==
    ASSUME AgentInv, Agent!Audit
    PROVE  AgentInv'
<1>1. /\ call.stage = "audit" /\ call.status \in {"ok", "error"} /\ UNCHANGED <<Agent!tables, mine, born, others>>
    BY DEF Agent!Audit, AgentInv, AgentCallOK
<1>2. AgentTables'
    BY <1>1, TablesStay DEF AgentInv, Agent!tables
<1>3. PICK k : /\ call' = k
               /\ k = Agent!Stage("dropped") \/ k = [Agent!Stage("ended") EXCEPT !.named = Agent!Named]
    BY DEF Agent!Audit
<1>4. /\ DOMAIN k = CallFields /\ k.tool = call.tool /\ k.on = call.on /\ k.left = call.left /\ k.list = call.list
      /\ k.affected = call.affected /\ k.changed = call.changed /\ k.status = call.status
      /\ k.stage = "dropped" \/ (k.stage = "ended" /\ k.named = Agent!Named)
    BY <1>3, CallFacts DEF CallFields
<1>5. CreationOK(call) /\ OthersOK(call)
    BY DEF AgentInv, AgentCallOK, LogOK
<1>6. k.stage = "ended" /\ k.tool = Creation => k.named = k.affected
    BY <1>4 DEF Agent!Named, Creation
<1>7. k.stage = "ended" /\ k.status = "ok" /\ k.tool \notin {Creation, "delete_emissions_where"} =>
          k.named = ({k.on} \ {Agent!None}) \cup k.list
    BY <1>4 DEF Agent!Named, Creation
<1>8. CreationOK(k)
    BY <1>1, <1>4, <1>5, <1>6 DEF CreationOK
<1>9. OthersOK(k)
    BY <1>1, <1>4, <1>5, <1>7 DEF OthersOK
<1>10. LogOK(k)'
    BY <1>8, <1>9 DEF LogOK, CreationOK, OthersOK
<1>11. AgentCallOK(k)'
    BY <1>4, <1>10 DEF AgentCallOK
<1>12. QED
    BY <1>1, <1>2, <1>3, <1>11 DEF AgentInv

LEMMA WrittenAt ==
    ASSUME NEW f, NEW x \in DOMAIN f, NEW v
    PROVE  [f EXCEPT ![x] = v] = Agent!With(f, x, v)
<1>1. DOMAIN f \cup {x} = DOMAIN f
    OBVIOUS
<1>2. \A y \in DOMAIN f : [f EXCEPT ![x] = v][y] = (IF y = x THEN v ELSE f[y])
    OBVIOUS
<1>3. [f EXCEPT ![x] = v] = [y \in DOMAIN f |-> IF y = x THEN v ELSE f[y]]
    OBVIOUS
<1>4. QED
    BY <1>1, <1>3 DEF Agent!With

\* A column of a row of emitter.
LEMMA ColumnWritten ==
    ASSUME NEW m \in DOMAIN agent_emitter, NEW r, AgentTables,
           UNCHANGED <<agent_owner, entity, born, mine>>, DOMAIN r = EmitterFields,
           r.entity \in DOMAIN entity \cup {Agent!None},
           agent_emitter' = [agent_emitter EXCEPT ![m] = r]
    PROVE  AgentTables' /\ Agent!Differ(agent_emitter, agent_emitter') \subseteq {m}
<1>1. m \in born \cap EmitterIds
    BY DEF AgentTables, Agent!TypeOK
<1>2. agent_emitter' = Agent!With(agent_emitter, m, r)
    BY WrittenAt
<1>3. AgentTables'
    BY <1>1, <1>2, EmitterWritten
<1>4. Agent!Differ(agent_emitter, agent_emitter') \subseteq {m}
    BY DEF Agent!Differ
<1>5. QED
    BY <1>3, <1>4

LEMMA AgentLists ==
    ASSUME AgentInv, Agent!List
    PROVE  AgentInv'
<1>1. PICK x \in call.left : Agent!Item(x)
    BY DEF Agent!List
<1>2. call.stage = "list" /\ UNCHANGED <<agent_confirmed, mine, born, others>>
    BY DEF Agent!List, Agent!Statement
<1> DEFINE found == IF call.tool \in Agent!OverEmissions
                    THEN x \in DOMAIN agent_owner /\ call.on \in DOMAIN agent_emitter \cup {Agent!None}
                    ELSE x \in DOMAIN agent_emitter /\ call.on \in DOMAIN entity \cup {Agent!None}
           k == [call EXCEPT !.left = call.left \ {x}, !.affected = call.affected \cup {x}]
<1>3. /\ agent_owner' = IF found /\ call.tool \in Agent!OverEmissions
                        THEN [agent_owner EXCEPT ![x] = call.on] ELSE agent_owner
      /\ agent_emitter' = IF found /\ call.tool \in Agent!OverEmitters
                          THEN [agent_emitter EXCEPT ![x].entity = call.on] ELSE agent_emitter
      /\ entity' = entity
    BY <1>1 DEF Agent!Item
<1>4. Agent!Go(IF found THEN k ELSE Agent!Ends("error"))
    BY <1>1 DEF Agent!Item, Agent!Go
<1>5. call.tool \in Agent!OverEmissions => call.tool \notin Agent!OverEmitters
    BY DEF Agent!OverEmissions, Agent!OverEmitters
<1>6. AgentTables'
    <2>1. CASE found /\ call.tool \in Agent!OverEmissions
        <3>1. agent_owner' = [agent_owner EXCEPT ![x] = call.on] /\ UNCHANGED <<agent_emitter, entity>>
            BY <1>3, <1>5, <2>1
        <3>2. x \in DOMAIN agent_owner /\ call.on \in DOMAIN agent_emitter \cup {Agent!None}
            BY <2>1
        <3> HIDE DEF found
        <3>3. \A e \in DOMAIN agent_owner' : agent_owner'[e] \in DOMAIN agent_emitter \cup {Agent!None}
            BY <3>1, <3>2 DEF AgentInv, AgentTables, Agent!TypeOK
        <3>4. QED
            BY <1>2, <3>1, <3>3, OwnersWritten DEF AgentInv
    <2>2. CASE found /\ call.tool \in Agent!OverEmitters
        <3>1. agent_emitter' = [agent_emitter EXCEPT ![x].entity = call.on] /\ UNCHANGED <<agent_owner, entity>>
            BY <1>3, <1>5, <2>2
        <3>2. x \in DOMAIN agent_emitter /\ call.on \in DOMAIN entity \cup {Agent!None}
            BY <1>5, <2>2
        <3> HIDE DEF found
        <3>3. PICK r : r = [agent_emitter[x] EXCEPT !.entity = call.on]
            OBVIOUS
        <3>4. DOMAIN r = EmitterFields /\ r.entity = call.on
            BY <3>2, <3>3 DEF AgentInv, AgentTables, EmitterFields
        <3>5. agent_emitter' = [agent_emitter EXCEPT ![x] = r]
            BY <3>1, <3>3
        <3>6. QED
            BY <1>2, <3>1, <3>2, <3>4, <3>5, ColumnWritten DEF AgentInv
    <2>3. CASE ~(found /\ call.tool \in Agent!OverEmissions) /\ ~(found /\ call.tool \in Agent!OverEmitters)
        BY <1>2, <1>3, <2>3, TablesStay DEF AgentInv
    <2>4. QED
        BY <2>1, <2>2, <2>3
<1>7. AgentCallOK(call)'
    <2>1. PICK c : /\ c = (IF found THEN k ELSE Agent!Ends("error")) /\ Agent!Go(c)
        BY <1>4 DEF Agent!Go
    <2>2. /\ DOMAIN c = CallFields /\ c.tool = call.tool /\ c.on = call.on /\ c.list = call.list
          /\ \/ c.stage = "list" /\ c.left = call.left \ {x} /\ c.affected = call.affected \cup {x} /\ found
             \/ c.stage = "audit" /\ c.status = "error" /\ c.left = call.left /\ c.affected = call.affected /\ ~found
        <3>1. CASE found
            <4>1. c = k
                BY <2>1, <3>1
            <4>2. DOMAIN c = CallFields /\ c.tool = call.tool /\ c.on = call.on /\ c.list = call.list
                /\ c.stage = "list" /\ c.left = call.left \ {x} /\ c.affected = call.affected \cup {x}
                BY <1>2, <4>1, CallFacts DEF CallFields
            <4>3. QED
                BY <3>1, <4>2
        <3>2. CASE ~found
            <4>1. c = Agent!Ends("error")
                BY <2>1, <3>2
            <4>2. DOMAIN c = CallFields /\ c.tool = call.tool /\ c.on = call.on /\ c.list = call.list
                /\ c.stage = "audit" /\ c.status = "error" /\ c.left = call.left /\ c.affected = call.affected
                BY <4>1, CallFacts DEF CallFields
            <4>3. QED
                BY <3>2, <4>2
        <3>3. QED
            BY <3>1, <3>2
    <2>3. Agent!Written \subseteq (IF found THEN {x} ELSE {})
        <3>1. CASE ~found
            <4>1. agent_owner' = agent_owner /\ agent_emitter' = agent_emitter
                BY <1>3, <3>1
            <4>2. Agent!Written \subseteq {}
                BY <1>2, <1>3, <4>1, NoDifference, WrittenBy
            <4>3. QED
                BY <3>1, <4>2
        <3>2. CASE found
            <4>1. /\ agent_owner' = agent_owner \/ agent_owner' = [agent_owner EXCEPT ![x] = call.on]
                  /\ agent_emitter' = agent_emitter \/ agent_emitter' = [agent_emitter EXCEPT ![x].entity = call.on]
                BY <1>3
            <4> HIDE DEF found
            <4>2. Agent!Differ(agent_owner, agent_owner') \subseteq {x}
                BY <4>1 DEF Agent!Differ
            <4>3. Agent!Differ(agent_emitter, agent_emitter') \subseteq {x}
                BY <4>1 DEF Agent!Differ
            <4>4. Agent!Written \subseteq {x}
                BY <1>2, <1>3, <4>2, <4>3, NoDifference, WrittenBy
            <4>5. QED
                BY <3>2, <4>4
        <3>3. QED
            BY <3>1, <3>2
    <2> HIDE DEF found
    <2>4. CreationOK(call) /\ OthersOK(call) /\ AgentCallOK(call)
        BY DEF AgentInv, AgentCallOK, LogOK
    <2>5. c.tool \in Agent!Loops /\ call.left \subseteq call.list
        BY <1>2, <2>2, <2>4 DEF OthersOK
    <2>6. c.tool = Creation =>
              /\ call.on \in call.affected /\ call.changed \subseteq call.affected
              /\ call.affected \subseteq {call.on} \cup (call.list \ call.left)
        BY <1>2, <2>2, <2>4 DEF CreationOK
    <2>7. x \in call.list
        BY <1>1, <2>5
    <2>8. c.tool = Creation =>
               /\ c.stage \in {"list", "claim"} => c.on \in c.affected
               /\ c.affected \subseteq {c.on} \cup (c.list \ c.left)
               /\ call.changed \subseteq c.affected /\ Agent!Written \subseteq c.affected
               /\ c.stage \in {"list", "claim", "audit"}
        BY <1>1, <2>2, <2>3, <2>6, <2>7
    <2>9. Agent!Written \subseteq ({c.on} \ {Agent!None}) \cup c.list
        BY <2>2, <2>3, <2>7
    <2>10. /\ c.stage \in {"list", "audit"} /\ c.left \subseteq c.list
           /\ c.stage = "audit" => c.status = "error"
        BY <2>2, <2>5
    <2>11. QED
        BY <2>1, <2>2, <2>4, <2>5, <2>8, <2>9, <2>10, GoMoves
<1>8. QED
    BY <1>2, <1>6, <1>7 DEF AgentInv

LEMMA AgentUpdatesRule ==
    ASSUME AgentInv, Agent!UpdateRule
    PROVE  AgentInv'
<1>1. /\ call.stage = "rule" /\ UNCHANGED <<agent_owner, entity, agent_confirmed, mine, born, others>>
    BY DEF Agent!UpdateRule, Agent!Statement
<1>2. CASE call.on \in DOMAIN agent_emitter
    <2>1. PICK r : r = [agent_emitter[call.on] EXCEPT !.rule = call.rule]
        OBVIOUS
    <2>2. DOMAIN r = EmitterFields /\ r.entity \in DOMAIN entity \cup {Agent!None}
        BY <1>2, <2>1 DEF AgentInv, AgentTables, Agent!TypeOK, EmitterFields
    <2>3. agent_emitter' = [agent_emitter EXCEPT ![call.on] = r]
        BY <1>2, <2>1 DEF Agent!UpdateRule
    <2>4. AgentTables' /\ Agent!Differ(agent_emitter, agent_emitter') \subseteq {call.on}
        BY <1>1, <1>2, <2>2, <2>3, ColumnWritten DEF AgentInv
    <2>5. PICK c : c = Agent!Stage("claim") /\ Agent!Go(c)
        BY <1>2 DEF Agent!UpdateRule, Agent!Go
    <2>6. /\ DOMAIN c = CallFields /\ c.tool = call.tool /\ c.on = call.on /\ c.list = call.list
          /\ c.stage = "claim" /\ c.left = call.left /\ c.affected = call.affected
        BY <2>5, CallFacts DEF CallFields
    <2>7. Agent!Written \subseteq {call.on}
        BY <1>1, <2>4, NoDifference, WrittenBy
    <2>8. CreationOK(call) /\ OthersOK(call) /\ AgentCallOK(call) /\ call.on # Agent!None
        BY <1>2, IdsAreSome DEF AgentInv, AgentTables, Agent!TypeOK, AgentCallOK, LogOK
    <2>9. /\ c.tool = Creation =>
                 /\ call.on \in call.affected /\ call.changed \subseteq call.affected
                 /\ call.affected \subseteq {call.on} \cup (call.list \ call.left)
          /\ c.tool \in Agent!Loops => call.left = {}
        BY <1>1, <2>6, <2>8 DEF CreationOK, OthersOK
    <2>10. AgentCallOK(call)'
        BY <2>5, <2>6, <2>7, <2>8, <2>9, GoMoves
    <2>11. QED
        BY <1>1, <2>4, <2>10 DEF AgentInv
<1>3. CASE call.on \notin DOMAIN agent_emitter
    <2>1. PICK k : k = Agent!Ends("error") /\ call' = k /\ UNCHANGED agent_emitter
        BY <1>3 DEF Agent!UpdateRule
    <2>2. /\ DOMAIN k = CallFields /\ k.tool = call.tool /\ k.on = call.on /\ k.list = call.list /\ k.status = "error"
          /\ k.stage = "audit" /\ k.left = call.left /\ k.affected = call.affected /\ k.changed = call.changed
        BY <2>1, CallFacts DEF CallFields
    <2>3. LogOK(k)
        BY <1>1, <2>2 DEF AgentInv, AgentCallOK, LogOK, CreationOK, OthersOK
    <2>4. QED
        BY <1>1, <2>1, <2>2, <2>3, QuietMoves DEF Agent!tables
<1>4. QED
    BY <1>2, <1>3

LEMMA AgentClaims ==
    ASSUME AgentInv, Agent!Claim
    PROVE  AgentInv'
<1>1. /\ call.stage = "claim" /\ UNCHANGED <<agent_emitter, entity, agent_confirmed, mine, born, others>>
    BY DEF Agent!Claim, Agent!Statement
<1>2. PICK k : /\ call' = k
               /\ k = Agent!Ends("error") \/ k = Agent!Stage("get") \/ k = Agent!Ends("ok")
    BY DEF Agent!Claim
<1>3. /\ DOMAIN k = CallFields /\ k.tool = call.tool /\ k.on = call.on /\ k.list = call.list
      /\ k.stage = "get" \/ (k.stage = "audit" /\ k.status \in {"ok", "error"})
      /\ k.left = call.left /\ k.affected = call.affected /\ k.changed = call.changed
    BY <1>2, CallFacts DEF CallFields
<1>4. LogOK(k)
    BY <1>1, <1>3 DEF AgentInv, AgentCallOK, LogOK, CreationOK, OthersOK
<1>5. AgentCallOK(call)'
    BY <1>2, <1>3, <1>4, CallMoves DEF AgentInv
<1>6. AgentTables'
    <2>1. CASE agent_owner' = agent_owner
        BY <1>1, <2>1, TablesStay DEF AgentInv
    <2>2. ASSUME NEW S \in SUBSET DOMAIN agent_owner, S # {} => call.on \in DOMAIN agent_emitter,
                 agent_owner' = [e \in DOMAIN agent_owner |-> IF e \in S THEN call.on ELSE agent_owner[e]]
          PROVE  AgentTables'
        <3>1. \A e \in DOMAIN agent_owner' : agent_owner'[e] \in DOMAIN agent_emitter \cup {Agent!None}
            BY <2>2 DEF AgentInv, AgentTables, Agent!TypeOK
        <3>2. QED
            BY <1>1, <2>2, <3>1, OwnersWritten DEF AgentInv
    <2>3. QED
        BY <2>1, <2>2 DEF Agent!Claim
<1>7. QED
    BY <1>1, <1>5, <1>6 DEF AgentInv

LEMMA MergedRow ==
    ASSUME NEW row, NEW fields
    PROVE  /\ DOMAIN Agent!Merged(row, fields) = DOMAIN row
           /\ \A f \in DOMAIN row \ fields : Agent!Merged(row, fields)[f] = row[f]
BY DEF Agent!Merged

LEMMA AgentUpdates ==
    ASSUME AgentInv, Agent!Update
    PROVE  AgentInv'
<1>1. /\ call.stage = "update" /\ UNCHANGED <<agent_owner, agent_confirmed, mine, born, others>>
      /\ call.tool \notin Agent!Loops /\ call.tool # Creation
    BY DEF Agent!Update, Agent!Statement, AgentInv, AgentCallOK, LogOK, OthersOK, Creation, Agent!Loops,
           Agent!OverEmissions
<1>2. PICK c : /\ Agent!Go(c) /\ DOMAIN c = CallFields /\ c.tool = call.tool /\ c.on = call.on /\ c.list = call.list
               /\ c.stage = "attributes" \/ (c.stage = "audit" /\ c.status \in {"ok", "error"})
    <2>1. PICK c : /\ Agent!Go(c)
                   /\ \/ c = Agent!Ends("error") \/ c = Agent!Ends("ok")
                      \/ c = [Agent!Stage("attributes") EXCEPT !.read = agent_emitter'[call.on]]
        <3>1. CASE call.on \notin DOMAIN agent_emitter \cup DOMAIN entity
            <4>1. PICK c : c = Agent!Ends("error")
                OBVIOUS
            <4>2. Agent!Go(c)
                BY <3>1, <4>1 DEF Agent!Update, Agent!Go
            <4>3. QED
                BY <4>1, <4>2
        <3>2. CASE call.on \in DOMAIN agent_emitter \cup DOMAIN entity /\ "own" \notin DOMAIN call.patch
            <4>1. PICK c : c = Agent!Ends("ok")
                OBVIOUS
            <4>2. Agent!Go(c)
                BY <3>2, <4>1 DEF Agent!Update, Agent!Go
            <4>3. QED
                BY <4>1, <4>2
        <3>3. CASE call.on \in DOMAIN agent_emitter \cup DOMAIN entity /\ "own" \in DOMAIN call.patch
            <4>1. PICK c : c = [Agent!Stage("attributes") EXCEPT !.read = agent_emitter'[call.on]]
                OBVIOUS
            <4>2. Agent!Go(c)
                BY <3>3, <4>1 DEF Agent!Update, Agent!Go
            <4>3. QED
                BY <4>1, <4>2
        <3>4. QED
            BY <3>1, <3>2, <3>3
    <2>2. DOMAIN c = CallFields /\ c.tool = call.tool /\ c.on = call.on /\ c.list = call.list
          /\ (c.stage = "attributes" \/ (c.stage = "audit" /\ c.status \in {"ok", "error"}))
        BY <2>1, CallFacts DEF CallFields
    <2>3. QED
        BY <2>1, <2>2
<1>3. AgentCallOK(call)'
    <2>1. /\ \/ agent_emitter' = agent_emitter
             \/ /\ call.on \in DOMAIN agent_emitter
                /\ agent_emitter' = [agent_emitter EXCEPT ![call.on] = Agent!Merged(agent_emitter[call.on], {"name"})]
          /\ \/ entity' = entity
             \/ /\ call.on \in DOMAIN entity
                /\ entity' = [entity EXCEPT ![call.on] = Agent!Merged(entity[call.on], {"name", "notes"})]
        <3>1. CASE call.tool = "update_emitter"
            BY <3>1 DEF Agent!Update
        <3>2. CASE call.tool # "update_emitter"
            BY <3>2 DEF Agent!Update
        <3>3. QED
            BY <3>1, <3>2
    <2>2. Agent!None \notin DOMAIN agent_emitter /\ Agent!None \notin DOMAIN entity
        BY IdsAreSome DEF AgentInv, AgentTables, Agent!TypeOK
    <2>3. /\ Agent!Differ(agent_emitter, agent_emitter') \subseteq {call.on} \ {Agent!None}
          /\ Agent!Differ(entity, entity') \subseteq {call.on} \ {Agent!None}
        BY <2>1, <2>2 DEF Agent!Differ
    <2>4. Agent!Written \subseteq {call.on} \ {Agent!None}
        BY <1>1, <2>3, NoDifference, WrittenBy
    <2>5. QED
        BY <1>1, <1>2, <2>4, GoMoves DEF AgentInv
<1>4. AgentTables'
    <2>1. CASE UNCHANGED <<agent_emitter, entity>>
        BY <1>1, <2>1, TablesStay DEF AgentInv
    <2>2. CASE /\ call.on \in DOMAIN agent_emitter /\ UNCHANGED entity
               /\ agent_emitter' = [agent_emitter EXCEPT ![call.on] =
                                        Agent!Merged(agent_emitter[call.on], {"name"})]
        <3>1. PICK r : r = Agent!Merged(agent_emitter[call.on], {"name"})
            OBVIOUS
        <3>2. DOMAIN r = EmitterFields /\ r.entity \in DOMAIN entity \cup {Agent!None}
            BY <2>2, <3>1, MergedRow DEF AgentInv, AgentTables, Agent!TypeOK, EmitterFields
        <3>3. agent_emitter' = [agent_emitter EXCEPT ![call.on] = r]
            BY <2>2, <3>1
        <3>4. QED
            BY <1>1, <2>2, <3>2, <3>3, ColumnWritten DEF AgentInv
    <2>3. CASE /\ call.on \in DOMAIN entity /\ UNCHANGED agent_emitter
               /\ entity' = [entity EXCEPT ![call.on] = Agent!Merged(entity[call.on], {"name", "notes"})]
        <3>1. PICK r : r = Agent!Merged(entity[call.on], {"name", "notes"})
            OBVIOUS
        <3>2. DOMAIN r = EntityFields /\ r.state = entity[call.on].state
            BY <2>3, <3>1, MergedRow DEF AgentInv, AgentTables, EntityFields
        <3>3. entity' = Agent!With(entity, call.on, r)
            BY <2>3, <3>1, WrittenAt
        <3>4. call.on \in born \cap Wards /\ (call.on \in mine' \/ r.state = "verified")
            BY <1>1, <2>3, <3>2 DEF AgentInv, AgentTables, Agent!TypeOK
        <3>5. QED
            BY <1>1, <2>3, <3>2, <3>3, <3>4, EntityWritten DEF AgentInv
    <2>4. QED
        BY <2>1, <2>2, <2>3 DEF Agent!Update
<1>5. QED
    BY <1>1, <1>3, <1>4 DEF AgentInv

LEMMA AgentSetsAttributes ==
    ASSUME AgentInv, Agent!SetAttributes
    PROVE  AgentInv'
<1>1. /\ call.stage = "attributes" /\ UNCHANGED <<agent_owner, entity, agent_confirmed, mine, born, others>>
      /\ call.tool \notin Agent!Loops /\ call.tool # Creation
    BY DEF Agent!SetAttributes, Agent!Statement, AgentInv, AgentCallOK, LogOK, OthersOK, Creation, Agent!Loops,
           Agent!OverEmissions
<1>2. CASE call.on \in DOMAIN agent_emitter
    <2>1. PICK r : r = Agent!Merged(agent_emitter[call.on], {"own", "ap"})
        OBVIOUS
    <2>2. DOMAIN r = EmitterFields /\ r.entity \in DOMAIN entity \cup {Agent!None}
        BY <1>2, <2>1, MergedRow DEF AgentInv, AgentTables, Agent!TypeOK, EmitterFields
    <2>3. agent_emitter' = [agent_emitter EXCEPT ![call.on] = r]
        BY <1>2, <2>1 DEF Agent!SetAttributes
    <2>4. AgentTables' /\ Agent!Differ(agent_emitter, agent_emitter') \subseteq {call.on}
        BY <1>1, <1>2, <2>2, <2>3, ColumnWritten DEF AgentInv
    <2>5. PICK c : c = Agent!Ends("ok") /\ Agent!Go(c)
        BY <1>2 DEF Agent!SetAttributes, Agent!Go
    <2>6. /\ DOMAIN c = CallFields /\ c.tool = call.tool /\ c.stage = "audit" /\ c.status = "ok"
          /\ c.on = call.on /\ c.list = call.list
        BY <2>5, CallFacts DEF CallFields
    <2>7. AgentCallOK(call)'
        <3>1. Agent!Written \subseteq {call.on}
            BY <1>1, <2>4, NoDifference, WrittenBy
        <3>2. call.on # Agent!None
            BY <1>2, IdsAreSome DEF AgentInv, AgentTables, Agent!TypeOK
        <3>3. QED
            BY <1>1, <2>5, <2>6, <3>1, <3>2, GoMoves DEF AgentInv
    <2>8. QED
        BY <1>1, <2>4, <2>7 DEF AgentInv
<1>3. CASE call.on \notin DOMAIN agent_emitter
    <2>1. PICK k : k = Agent!Ends("error") /\ call' = k /\ UNCHANGED agent_emitter
        BY <1>3 DEF Agent!SetAttributes
    <2>2. /\ DOMAIN k = CallFields /\ k.tool = call.tool /\ k.status = "error" /\ k.stage = "audit"
          /\ k.on = call.on /\ k.list = call.list /\ k.changed = call.changed
        BY <2>1, CallFacts DEF CallFields
    <2>3. LogOK(k)
        BY <1>1, <2>2 DEF AgentInv, AgentCallOK, LogOK, CreationOK, OthersOK
    <2>4. QED
        BY <1>1, <2>1, <2>2, <2>3, QuietMoves DEF Agent!tables
<1>4. QED
    BY <1>2, <1>3

LEMMA AgentDeletes ==
    ASSUME AgentInv, Agent!Delete
    PROVE  AgentInv'
<1>1. /\ call.stage = "delete" /\ UNCHANGED <<mine, born, others>>
      /\ call.tool \in {"delete_entity", "delete_emitter", "delete_emissions", "delete_emissions_where"}
      /\ call.tool \notin Agent!Loops /\ call.tool # Creation
    BY DEF Agent!Delete, Agent!Statement, AgentInv, AgentCallOK, LogOK, OthersOK, Creation, Agent!Loops,
           Agent!OverEmissions, Agent!OverEmitters
<1>2. PICK s \in {"ok", "error"} : Agent!Go(Agent!Ends(s))
    <2>1. CASE call.on \notin {Agent!None} \cup DOMAIN entity \cup DOMAIN agent_emitter
        BY <2>1 DEF Agent!Delete, Agent!Go
    <2>2. CASE call.on \in {Agent!None} \cup DOMAIN entity \cup DOMAIN agent_emitter
        BY <2>2 DEF Agent!Delete, Agent!Go
    <2>3. QED
        BY <2>1, <2>2
<1>3. PICK c : c = Agent!Ends(s) /\ Agent!Go(c)
    BY <1>2 DEF Agent!Go
<1>4. /\ DOMAIN c = CallFields /\ c.tool = call.tool /\ c.stage = "audit" /\ c.status \in {"ok", "error"}
      /\ c.on = call.on /\ c.list = call.list
    BY <1>3, CallFacts DEF CallFields
<1>5. AgentCallOK(call)'
    <2>1. call.tool # "delete_emissions_where" =>
              Agent!Written \subseteq ({call.on} \ {Agent!None}) \cup call.list
        <3>1. Agent!None \notin DOMAIN agent_owner \cup DOMAIN agent_emitter \cup DOMAIN entity
            BY IdsAreSome DEF AgentInv, AgentTables, Agent!TypeOK
        <3>2. Agent!Written = (DOMAIN agent_owner \ DOMAIN agent_owner') \cup (DOMAIN agent_emitter \ DOMAIN agent_emitter')
                              \cup (DOMAIN entity \ DOMAIN entity')
            BY <1>1 DEF Agent!Written
        <3>3. CASE call.tool = "delete_entity"
            <4>1. Agent!RemoveEntity(call.on)
                BY <3>3 DEF Agent!Delete
            <4>2. QED
                BY <3>1, <3>2, <4>1 DEF Agent!RemoveEntity, Agent!Without, Agent!Detached
        <3>4. CASE call.tool = "delete_emitter"
            <4>1. Agent!RemoveEmitter(call.on)
                BY <3>4 DEF Agent!Delete
            <4>2. QED
                BY <3>1, <3>2, <4>1 DEF Agent!RemoveEmitter, Agent!Without
        <3>5. CASE call.tool = "delete_emissions"
            <4>1. Agent!RemoveEmissions(call.list)
                BY <3>5 DEF Agent!Delete
            <4>2. QED
                BY <3>1, <3>2, <4>1 DEF Agent!RemoveEmissions, Agent!Without
        <3>6. QED
            BY <1>1, <3>3, <3>4, <3>5
    <2>2. QED
        BY <1>1, <1>3, <1>4, <2>1, GoMoves DEF AgentInv
<1>6. AgentTables'
    <2>1. \/ Agent!RemoveEntity(call.on) \/ Agent!RemoveEmitter(call.on)
          \/ Agent!RemoveEmissions(call.list)
          \/ \E S : Agent!RemoveEmissions(S)
        BY DEF Agent!Delete
    <2>2. QED
        BY <1>1, <2>1, EntityGoes, EmitterGoes, EmissionsGo DEF AgentInv
<1>7. QED
    BY <1>1, <1>5, <1>6 DEF AgentInv

\* A call that others' statements come in the way of.
LEMMA CallStays ==
    ASSUME AgentCallOK(call), UNCHANGED <<call, born>>, DOMAIN entity' \subseteq DOMAIN entity,
           \A n \in DOMAIN entity' : entity'[n].state = entity[n].state
    PROVE  AgentCallOK(call)'
BY DEF AgentCallOK, LogOK, CreationOK, OthersOK

LEMMA OthersDelete ==
    ASSUME AgentInv, NEW x, Agent!OtherDeletes(x)
    PROVE  AgentInv'
<1>1. UNCHANGED <<call, born, mine>> /\ others' = others + 1
    BY DEF Agent!OtherDeletes, Agent!Other
<1>2. CASE Agent!RemoveEmissions({x})
    <2>1. entity' = entity
        BY <1>2 DEF Agent!RemoveEmissions
    <2>2. QED
        BY <1>1, <1>2, <2>1, EmissionsGo, CallStays DEF AgentInv
<1>3. CASE Agent!RemoveEmitter(x)
    <2>1. entity' = entity
        BY <1>3 DEF Agent!RemoveEmitter
    <2>2. QED
        BY <1>1, <1>3, <2>1, EmitterGoes, CallStays DEF AgentInv
<1>4. CASE Agent!RemoveEntity(x)
    <2>1. DOMAIN entity' \subseteq DOMAIN entity /\ \A n \in DOMAIN entity' : entity'[n].state = entity[n].state
        BY <1>4 DEF Agent!RemoveEntity, Agent!Without
    <2>2. QED
        BY <1>1, <1>4, <2>1, EntityGoes, CallStays DEF AgentInv
<1>5. QED
    BY <1>2, <1>3, <1>4 DEF Agent!OtherDeletes

LEMMA OthersWrite ==
    ASSUME AgentInv, NEW x, NEW v, Agent!OtherWrites(x, v)
    PROVE  AgentInv'
<1>1. UNCHANGED <<call, born, mine, agent_owner>> /\ others' = others + 1
    BY DEF Agent!OtherWrites, Agent!Other
<1>2. CASE x \in DOMAIN agent_emitter /\ agent_emitter' = [agent_emitter EXCEPT ![x].ap = v] /\ UNCHANGED entity
    <2>1. PICK r : r = [agent_emitter[x] EXCEPT !.ap = v]
        OBVIOUS
    <2>2. DOMAIN r = EmitterFields /\ r.entity \in DOMAIN entity \cup {Agent!None}
        BY <1>2, <2>1 DEF AgentInv, AgentTables, Agent!TypeOK, EmitterFields
    <2>3. agent_emitter' = [agent_emitter EXCEPT ![x] = r]
        BY <1>2, <2>1
    <2>4. AgentTables'
        BY <1>1, <1>2, <2>2, <2>3, ColumnWritten DEF AgentInv
    <2>5. AgentCallOK(call)'
        BY <1>1, <1>2, CallStays DEF AgentInv
    <2>6. QED
        BY <1>1, <2>4, <2>5 DEF AgentInv
<1>3. CASE x \in DOMAIN entity /\ entity' = [entity EXCEPT ![x].notes = v] /\ UNCHANGED agent_emitter
    <2>1. PICK r : r = [entity[x] EXCEPT !.notes = v]
        OBVIOUS
    <2>2. DOMAIN r = EntityFields /\ r.state = entity[x].state
        BY <1>3, <2>1 DEF AgentInv, AgentTables, EntityFields
    <2>3. entity' = [entity EXCEPT ![x] = r]
        BY <1>3, <2>1
    <2>4. entity' = Agent!With(entity, x, r)
        BY <1>3, <2>3, WrittenAt
    <2>5. x \in born \cap Wards /\ (x \in mine' \/ r.state = "verified")
        BY <1>1, <1>3, <2>2 DEF AgentInv, AgentTables, Agent!TypeOK
    <2>6. AgentTables'
        BY <1>1, <1>3, <2>2, <2>4, <2>5, EntityWritten DEF AgentInv
    <2>7. DOMAIN entity' = DOMAIN entity /\ \A n \in DOMAIN entity : entity'[n].state = entity[n].state
        BY <1>3, <2>2, <2>3
    <2>8. AgentCallOK(call)'
        BY <1>1, <2>7, CallStays DEF AgentInv
    <2>9. QED
        BY <1>1, <2>6, <2>8 DEF AgentInv
<1>4. QED
    BY <1>2, <1>3 DEF Agent!OtherWrites

LEMMA AgentStutters == AgentInv /\ UNCHANGED agentVars => AgentInv'
BY DEF AgentInv, AgentTables, Agent!TypeOK, AgentCallOK, LogOK, CreationOK, OthersOK, agentVars

LEMMA AgentNext == AgentInv /\ Agent!Next => AgentInv'
BY BeginSteps, AgentInserts, AgentLists, AgentQuietSteps, AgentUpdatesRule, AgentClaims, AgentUpdates,
   AgentSetsAttributes, AgentDeletes, AgentAudits, OthersDelete, OthersWrite DEF Agent!Next

LEMMA AgentStep == AgentInv /\ [RecordsNext]_suiteVars => AgentInv'
<1> SUFFICES ASSUME AgentInv, [RecordsNext]_suiteVars PROVE AgentInv'
    OBVIOUS
<1>1. CASE part = "agent" /\ Agent!Next
    BY <1>1, AgentNext
<1>2. CASE UNCHANGED agentVars
    BY <1>2, AgentStutters
<1>3. QED
    BY <1>1, <1>2 DEF RecordsNext, suiteVars

\* What the log says of the agent's calls that succeed, and of the creation of an emitter wherever
\* it stops, is what they did: every row they have written is named, and of a list nothing but
\* what was done (mcp/audit.rs, mcp/tools/writes.rs, subtractions.rs).
THEOREM AgentStaysAudited == RecordsSpec => []AgentIsAudited
<1>1. RecordsInit => AgentInv
    BY AgentInitially
<1>2. AgentInv /\ [RecordsNext]_suiteVars => AgentInv'
    BY AgentStep
<1>3. AgentInv => AgentIsAudited
    <2> SUFFICES ASSUME AgentInv, Agent!Speaks
                 PROVE  /\ call.changed \subseteq call.named
                        /\ call.tool \in Agent!Loops => call.named \subseteq {call.on} \cup (call.list \ call.left)
        BY DEF AgentIsAudited, Agent!LogIsTrue
    <2>1. CreationOK(call) /\ OthersOK(call) /\ call.stage = "ended" /\ call.tool # "delete_emissions_where"
        BY DEF AgentInv, AgentCallOK, LogOK, Agent!Speaks, Agent!Ended
    <2>2. CASE call.tool = Creation
        BY <2>1, <2>2 DEF CreationOK
    <2>3. CASE call.tool # Creation /\ call.status = "ok"
        BY <2>1, <2>3 DEF OthersOK
    <2>4. QED
        BY <2>2, <2>3 DEF Agent!Speaks, Creation
<1>4. QED
    BY <1>1, <1>2, <1>3, PTL DEF RecordsSpec

LEMMA DeleteIsAsRead ==
    ASSUME AgentInv, Agent!Delete
    PROVE  Agent!DeletesAsRead
<1> SUFFICES ASSUME call.tool = "delete_emissions_where", ~call.filter.all,
                    NEW e \in DOMAIN agent_owner \ DOMAIN agent_owner'
             PROVE  LET f == Agent!Parsed(call.filter.sent) IN
                    /\ f.sent # {}
                    /\ "unassigned" \in f.sent => (f.unassigned <=> agent_owner[e] = Agent!None)
                    /\ "emitter_id" \in f.sent => agent_owner[e] = f.emitter_id
                    /\ "kind" \in f.sent => KindOf[e] = f.kind
                    /\ {"time_from", "time_to"} \subseteq f.sent => SentAt[e] \in f.time_from .. f.time_to
    BY DEF Agent!DeletesAsRead
<1> DEFINE f == Agent!Parsed(call.filter.sent)
           S == {d \in DOMAIN agent_owner : call.filter.all \/ Agent!Selects(f, d)}
<1>1. agent_owner' = Agent!Without(agent_owner, S)
    BY DEF Agent!Delete, Agent!RemoveEmissions
<1>2. Agent!Selects(f, e)
    BY <1>1 DEF Agent!Without
<1>3. f.sent # {}
    BY DEF AgentInv, AgentCallOK, Agent!HasFilter, Agent!Delete
<1> HIDE DEF f
<1>4. e \in Emissions
    BY DEF AgentInv, AgentTables, Agent!TypeOK
<1>5. SentAt[e] \in Nat
    BY <1>4, ToolsAreSound DEF Agent!ToolsAssumption
<1>6. {"time_from", "time_to"} \subseteq f.sent => SentAt[e] \in f.time_from .. f.time_to
    BY <1>2, <1>5 DEF Agent!Selects
<1>7. QED
    BY <1>2, <1>3, <1>6 DEF f, Agent!Selects

\* What each of the agent's steps leaves of the emissions and the entities.
LEMMA OthersKeepThem ==
    ASSUME AgentInv, Agent!Next, ~Agent!Delete, call.stage = "delete"
    PROVE  \/ UNCHANGED <<agent_owner, entity>>
           \/ UNCHANGED call /\ others' # others
<1>1. CASE Agent!Fail
    BY <1>1 DEF Agent!Fail, Agent!tables
<1>2. CASE \E x \in Agent!Ids : Agent!OtherDeletes(x)
    BY <1>2 DEF Agent!OtherDeletes, Agent!Other, AgentInv
<1>3. CASE \E x \in Agent!Ids, v \in Words : Agent!OtherWrites(x, v)
    BY <1>3 DEF Agent!OtherWrites, Agent!Other, AgentInv
<1>4. ~Agent!Insert /\ ~Agent!List /\ ~Agent!EndList /\ ~Agent!Get /\ ~Agent!UpdateRule /\ ~Agent!Claim
      /\ ~Agent!Update /\ ~Agent!SetAttributes /\ ~Agent!Audit /\ call.stage # "idle"
    BY DEF Agent!Insert, Agent!List, Agent!EndList, Agent!Get, Agent!UpdateRule, Agent!Claim,
           Agent!Update, Agent!SetAttributes, Agent!Audit
<1>5. QED
    BY <1>1, <1>2, <1>3, <1>4 DEF Agent!Next

LEMMA FilterStands ==
    ASSUME AgentInv, [RecordsNext]_suiteVars
    PROVE  Agent!DeletesAsRead
<1>1. CASE Agent!Delete
    BY <1>1, DeleteIsAsRead
<1>2. CASE call.stage = "delete" /\ Agent!Next /\ ~Agent!Delete
    <2>1. agent_owner' = agent_owner \/ call' = call
        BY <1>2, OthersKeepThem
    <2>2. QED
        BY <1>2, <2>1 DEF Agent!DeletesAsRead
<1>3. CASE call.stage # "delete"
    BY <1>3 DEF Agent!DeletesAsRead
<1>4. CASE UNCHANGED agentVars
    BY <1>4 DEF Agent!DeletesAsRead, agentVars
<1>5. QED
    BY <1>1, <1>2, <1>3, <1>4 DEF RecordsNext, suiteVars

LEMMA OwnersEntitiesStand ==
    ASSUME AgentInv, [RecordsNext]_suiteVars
    PROVE  Agent!OnlyItsOwnEntities
<1> SUFFICES ASSUME call.tool = "delete_entity", call.stage = "delete", others' = others,
                    NEW n \in DOMAIN entity \ DOMAIN entity'
             PROVE  n \in mine
    BY DEF Agent!OnlyItsOwnEntities
<1>1. CASE Agent!Delete
    <2>1. entity' = Agent!Without(entity, {call.on})
        BY <1>1 DEF Agent!Delete, Agent!RemoveEntity
    <2>2. n = call.on
        BY <2>1 DEF Agent!Without
    <2>3. QED
        BY <2>2 DEF AgentInv, AgentCallOK, AgentTables
<1>2. CASE Agent!Next /\ ~Agent!Delete
    BY <1>2, OthersKeepThem
<1>3. CASE UNCHANGED agentVars
    BY <1>3 DEF agentVars
<1>4. QED
    BY <1>1, <1>2, <1>3 DEF RecordsNext, suiteVars

\* Only the end of a sweep discards an emission.
LEMMA SweepsAsk ==
    ASSUME [RecordsNext]_suiteVars
    PROVE  Records!ConsentHolds
<1>1. CASE Records!SweepEnd
    <2>1. PICK dead : /\ dead = {e \in sweep.saw \cap Records!Stored : owner[e] \in sweep.hit}
                      /\ discarded' = discarded \cup dead
        BY <1>1 DEF Records!SweepEnd
    <2>2. QED
        BY <2>1 DEF Records!ConsentHolds
<1>2. CASE discarded' = discarded
    BY <1>2 DEF Records!ConsentHolds
<1>3. CASE Records!Next /\ ~Records!SweepEnd
    <2> USE DEF Records!history
    <2>1. ASSUME NEW c, NEW m, NEW n, NEW rule,
                 Records!CreateEmitter(c, m, n, rule) \/ Records!CreateWithEntity(c, m, n, rule) \/ Records!SetRule(c, m, rule)
          PROVE  discarded' = discarded
        BY <2>1 DEF Records!CreateEmitter, Records!CreateWithEntity, Records!SetRule
    <2>2. ASSUME NEW c, NEW m, NEW fields, NEW n, NEW class, Records!Patch(c, m, fields, n, class)
          PROVE  discarded' = discarded
        BY <2>2 DEF Records!Patch
    <2>3. ASSUME NEW c, \/ Records!InsertEmitter(c) \/ Records!UpdateRule(c) \/ Records!Attach(c) \/ Records!ReadWindow(c)
                        \/ Records!CommitAttach(c) \/ Records!PatchField(c) \/ Records!Fail(c)
          PROVE  discarded' = discarded
        BY <2>3 DEF Records!InsertEmitter, Records!UpdateRule, Records!Attach, Records!ReadWindow,
                    Records!CommitAttach, Records!PatchField, Records!Fail
    <2>4. ASSUME NEW S, \/ Records!DeleteEmitters(S) \/ Records!DeleteEntities(S) \/ Records!Consent(S)
                        \/ Records!DeleteEmissions(S) \/ Records!AgentDetach(S) \/ \E m : Records!AgentAttach(S, m)
          PROVE  discarded' = discarded
        BY <2>4 DEF Records!DeleteEmitters, Records!DeleteEntities, Records!Consent, Records!DeleteEmissions,
                    Records!AgentDetach, Records!AgentAttach
    <2>5. ASSUME NEW e, NEW m, \/ Records!Store(e) \/ Records!FirstMatch(e) \/ Records!SetEmitter(e) \/ Records!Touch(e)
                               \/ Records!TouchFails(e) \/ Records!Enrich(e) \/ Records!GetOrCreate(e, m)
          PROVE  discarded' = discarded
        BY <2>5 DEF Records!Store, Records!FirstMatch, Records!SetEmitter, Records!Touch, Records!TouchFails,
                    Records!Enrich, Records!GetOrCreate
    <2>6. Records!SweepBegin => discarded' = discarded
        BY DEF Records!SweepBegin
    <2>7. QED
        BY <1>2, <1>3, <2>1, <2>2, <2>3, <2>4, <2>5, <2>6 DEF Records!Next
<1>4. QED
    BY <1>1, <1>2, <1>3 DEF RecordsNext, suiteVars, recordsVars

\* Whatever the steps between a check and what was decided on it: a link that an operator has
\* confirmed falls to him, to a cascade, or to an agent who found it unconfirmed; the sweep
\* deletes what it has seen; the agent's tools delete by the filter that was read, and no entity
\* that an operator has made (emitter_association.rs, ageout.rs, mcp/tools/).
THEOREM NothingIsDestroyed == RecordsSpec => NothingGoesUnasked
<1> DEFINE Asked == /\ Links!OperatorsWordStands /\ Records!ConsentHolds
                    /\ Agent!DeletesAsRead /\ Agent!OnlyItsOwnEntities
<1>1. RecordsInit => LinksInv /\ AgentInv
    BY LinksInitially, AgentInitially
<1>2. LinksInv /\ AgentInv /\ [RecordsNext]_suiteVars => (LinksInv /\ AgentInv)'
    BY LinksStep, AgentStep
<1>3. LinksInv /\ AgentInv /\ [RecordsNext]_suiteVars => Asked
    BY WordStands, FilterStands, OwnersEntitiesStand, SweepsAsk
<1>4. RecordsSpec => [][Asked]_suiteVars
    <2> HIDE DEF Asked
    <2>1. LinksInv /\ AgentInv /\ [RecordsNext]_suiteVars => [Asked]_suiteVars
        BY <1>3
    <2>2. QED
        BY <1>1, <1>2, <2>1, PTL DEF RecordsSpec
<1>5. QED
    BY <1>4, PTL DEF NothingGoesUnasked

-----------------------------------------------------------------------------
(* Emitters and entities.                                                    *)

RowFields == {"there", "entity", "rule", "match_enabled", "attributes", "identity_key", "first", "last"}
RequestFields == {"stage", "m", "entity", "rule", "left", "attributes", "claims", "first", "last", "fresh"}
PatchFields == {"entity_id", "match_enabled", "attributes"}

IsWindow(first, last) == first \in Nat /\ last \in Nat /\ (first = Records!Unseen => last = Records!Unseen)
Within(t, first, last) == first # Records!Unseen /\ first <= t /\ t <= last

IsRow(r) ==
    DOMAIN r = RowFields /\ r.there /\ IsWindow(r.first, r.last)

RecordTypes ==
    /\ DOMAIN emitter = EmitterIds /\ DOMAIN op = Askers
    /\ DOMAIN stage = Emissions /\ DOMAIN pick = Emissions /\ DOMAIN owner \subseteq Emissions
    /\ \A m \in EmitterIds : emitter[m] = Records!NoRow \/ emitter[m] = Records!Gone \/ IsRow(emitter[m])

\* Strengthening: what is stored has come, and an emission's emitter is a row.
Owners ==
    \A e \in DOMAIN owner : stage[e] # "new" /\ owner[e] \in Records!Rows \cup {Records!None}

\* The ingest has given e its emitter and has yet to widen the window.
Untouched(e) == stage[e] = "owned" /\ owner[e] = pick[e]

\* Strengthening: an emission whose ingest has not come to the window may have gone to another
\* emitter meanwhile, and is in the window of that.
Covered ==
    \A e \in DOMAIN owner \ missed : owner[e] # Records!None /\ ~Untouched(e) =>
        Within(ObservedAt[e], emitter[owner[e]].first, emitter[owner[e]].last)

\* The emitter of a request that is going to insert it.
Reserves(r) == r.stage = "insert" \/ r.fresh

\* Strengthening: a request has the emitter it will insert to itself, keeps the row that it
\* has attached to, and what it has read of the window covers what it will own.
RequestOK(c) ==
    LET r == op[c] IN
    /\ DOMAIN r = RequestFields
    /\ r.stage # "idle" \/ r.fresh => r.m \in EmitterIds
    /\ r.claims \subseteq DOMAIN owner
    /\ r.claims # {} /\ ~r.fresh => r.m \in Records!Rows
    /\ r.stage \in {"insert", "rule", "patch"} => ~r.fresh
    /\ Reserves(r) => emitter[r.m] = Records!NoRow /\ \A d \in Askers \ {c} : op[d].m # r.m
    /\ r.stage = "patch" => /\ r.left # {} /\ r.left \subseteq PatchFields
    /\ r.stage = "commit" =>
           /\ IsWindow(r.first, r.last)
           /\ \A e \in r.claims : Within(ObservedAt[e], r.first, r.last)
           /\ \A e \in DOMAIN owner \ missed : owner[e] = r.m /\ ~Untouched(e) =>
                  Within(ObservedAt[e], r.first, r.last)

RecordsInv ==
    /\ RecordTypes /\ Owners /\ Covered /\ (\A c \in Askers : RequestOK(c))

LEMMA NoRows ==
    /\ Records!NoRow # Records!Gone
    /\ ~Records!NoRow.there /\ ~Records!Gone.there
    /\ \A r : IsRow(r) => r # Records!NoRow /\ r # Records!Gone
<1>1. DOMAIN Records!NoRow = {"there"} /\ DOMAIN Records!Gone = {"there", "gone"}
    BY DEF Records!NoRow, Records!Gone
<1>2. ~Records!NoRow.there /\ ~Records!Gone.there
    BY DEF Records!NoRow, Records!Gone
<1>3. QED
    BY <1>1, <1>2 DEF IsRow, RowFields

LEMMA RowsAre ==
    ASSUME RecordTypes
    PROVE  /\ Records!Rows \subseteq EmitterIds
           /\ \A m \in EmitterIds : m \in Records!Rows <=> IsRow(emitter[m])
           /\ \A m \in EmitterIds : m \notin Records!Rows <=> emitter[m] = Records!NoRow \/ emitter[m] = Records!Gone
BY NoRows DEF RecordTypes, Records!Rows, IsRow

LEMMA NoneIsNoId ==
    /\ Records!None \notin EmitterIds /\ Records!None \notin Persons /\ Records!None \notin Emissions
    /\ \A e \in Emissions : ObservedAt[e] \in Nat /\ ObservedAt[e] # 0
<1>1. Records!RecordsAssumption
    BY RecordsAreSound
<1>2. ObservedAt \in [Emissions -> Nat \ {0}] /\ Records!None \notin EmitterIds \cup Persons \cup Emissions
    BY <1>1 DEF Records!RecordsAssumption
<1>3. QED
    BY <1>2

LEMMA IdleAsk ==
    LET k == Records!Idle IN
    /\ DOMAIN k = RequestFields /\ k.stage = "idle" /\ k.m = Records!None /\ k.claims = {} /\ ~k.fresh
<1>1. DOMAIN Records!Idle = RequestFields
    BY DEF Records!Idle, RequestFields
<1>2. QED
    BY <1>1 DEF Records!Idle

LEMMA RecordsInitially == RecordsInit => RecordsInv
<1> SUFFICES ASSUME RecordsInit PROVE RecordsInv
    OBVIOUS
<1>1. Records!Init
    BY DEF RecordsInit
<1>2. /\ emitter = [m \in EmitterIds |-> Records!NoRow] /\ owner = <<>>
      /\ stage = [e \in Emissions |-> "new"] /\ pick = [e \in Emissions |-> Records!None]
      /\ op = [c \in Askers |-> Records!Idle]
    BY <1>1 DEF Records!Init
<1>3. DOMAIN owner = {}
    BY <1>2
<1>4. RecordTypes /\ Owners /\ Covered
    BY <1>2, <1>3 DEF RecordTypes, Owners, Covered
<1>5. ASSUME NEW c \in Askers PROVE RequestOK(c)
    <2>1. op[c] = Records!Idle
        BY <1>2
    <2>2. QED
        BY <2>1, IdleAsk DEF RequestOK, Reserves
<1>6. QED
    BY <1>4, <1>5 DEF RecordsInv

LEMMA RecordsStutter == RecordsInv /\ UNCHANGED recordsVars => RecordsInv'
BY DEF RecordsInv, recordsVars, RecordTypes, Owners, Covered, RequestOK,
       Records!Rows, Untouched, Reserves

\* A request that waits while others' steps change the rows.
LEMMA RequestWaits ==
    ASSUME NEW d \in Askers, RequestOK(d), op'[d] = op[d],
           op[d].claims \subseteq DOMAIN owner',
           op[d].claims # {} /\ ~op[d].fresh => op[d].m \in Records!Rows',
           Reserves(op[d]) => emitter'[op[d].m] = Records!NoRow /\ \A x \in Askers \ {d} : op'[x].m # op[d].m,
           op[d].stage = "commit" => \A e \in DOMAIN owner' \ missed' : owner'[e] = op[d].m /\ ~Untouched(e)' =>
                                         Within(ObservedAt[e], op[d].first, op[d].last)
    PROVE  RequestOK(d)'
BY DEF RequestOK, Reserves

\* A request moves on and touches no row.
LEMMA RequestSteps ==
    ASSUME RecordsInv, NEW c \in Askers, NEW k, op' = [op EXCEPT ![c] = k],
           UNCHANGED <<emitter, owner, missed, stage, pick>>, RequestOK(c)',
           \A d \in Askers \ {c} : Reserves(op[d]) => op[d].m # k.m
    PROVE  RecordsInv'
<1>1. DOMAIN op' = Askers /\ op'[c] = k /\ \A d \in Askers \ {c} : op'[d] = op[d]
    BY DEF RecordsInv, RecordTypes
<1>2. RecordTypes' /\ Owners' /\ Covered'
    BY <1>1 DEF RecordsInv, RecordTypes, Owners, Covered, Records!Rows,
                Untouched
<1>3. ASSUME NEW d \in Askers \ {c} PROVE RequestOK(d)'
    <2>1. RequestOK(d)
        BY DEF RecordsInv
    <2>2. \A x \in Askers \ {d} : Reserves(op[d]) => op'[x].m # op[d].m
        BY <1>1, <2>1 DEF RequestOK
    <2>3. QED
        BY <1>1, <2>1, <2>2 DEF RequestOK, Records!Rows, Untouched, Reserves
<1>4. QED
    BY <1>2, <1>3 DEF RecordsInv

LEMMA RequestEndsThere ==
    ASSUME RecordsInv, NEW c \in Askers, Records!Answer(c),
           UNCHANGED <<emitter, owner, missed, stage, pick>>
    PROVE  RecordsInv'
<1>1. PICK k : k = Records!Idle /\ op' = [op EXCEPT ![c] = k]
    BY DEF Records!Answer
<1>2. op'[c] = k
    BY <1>1 DEF RecordsInv, RecordTypes
<1>3. RequestOK(c)'
    BY <1>1, <1>2, IdleAsk DEF RequestOK, Reserves
<1>4. \A d \in Askers \ {c} : Reserves(op[d]) => op[d].m # k.m
    BY <1>1, IdleAsk, NoneIsNoId DEF RecordsInv, RequestOK, Reserves
<1>5. QED
    BY <1>1, <1>3, <1>4, RequestSteps

LEMMA BeginRequests ==
    ASSUME RecordsInv, NEW c \in Askers, NEW m \in EmitterIds, NEW n, NEW rule,
           \/ Records!CreateEmitter(c, m, n, rule)
           \/ Records!CreateWithEntity(c, m, n, rule)
           \/ Records!SetRule(c, m, rule)
    PROVE  RecordsInv'
<1>1. UNCHANGED <<emitter, owner, missed, stage, pick>>
    BY DEF Records!CreateEmitter, Records!CreateWithEntity, Records!SetRule, Records!tables, Records!ingest,
           Records!history
<1>2. PICK k : /\ op' = [op EXCEPT ![c] = k] /\ DOMAIN k = RequestFields /\ k.m = m /\ k.claims = {}
               /\ \/ k.stage = "insert" /\ ~k.fresh /\ Records!CreateEmitter(c, m, n, rule)
                  \/ k.stage = "attach" /\ k.fresh /\ Records!CreateWithEntity(c, m, n, rule)
                  \/ k.stage = "rule" /\ ~k.fresh /\ Records!SetRule(c, m, rule)
    <2>1. CASE Records!CreateEmitter(c, m, n, rule)
        <3>1. PICK k : k = [Records!Idle EXCEPT !.stage = "insert", !.m = m, !.entity = n, !.rule = rule]
            OBVIOUS
        <3>2. op' = [op EXCEPT ![c] = k]
            BY <2>1, <3>1 DEF Records!CreateEmitter, Records!Begin
        <3>3. DOMAIN k = RequestFields /\ k.m = m /\ k.claims = {} /\ k.stage = "insert" /\ ~k.fresh
            BY <3>1, IdleAsk DEF RequestFields
        <3>4. QED
            BY <2>1, <3>2, <3>3
    <2>2. CASE Records!CreateWithEntity(c, m, n, rule)
        <3>1. PICK k : k = [Records!Idle EXCEPT !.stage = "attach", !.m = m, !.entity = n, !.rule = rule, !.fresh = TRUE]
            OBVIOUS
        <3>2. op' = [op EXCEPT ![c] = k]
            BY <2>2, <3>1 DEF Records!CreateWithEntity, Records!Begin
        <3>3. DOMAIN k = RequestFields /\ k.m = m /\ k.claims = {} /\ k.stage = "attach" /\ k.fresh
            BY <3>1, IdleAsk DEF RequestFields
        <3>4. QED
            BY <2>2, <3>2, <3>3
    <2>3. CASE Records!SetRule(c, m, rule)
        <3>1. PICK k : k = [Records!Idle EXCEPT !.stage = "rule", !.m = m, !.rule = rule]
            OBVIOUS
        <3>2. op' = [op EXCEPT ![c] = k]
            BY <2>3, <3>1 DEF Records!SetRule, Records!Begin
        <3>3. DOMAIN k = RequestFields /\ k.m = m /\ k.claims = {} /\ k.stage = "rule" /\ ~k.fresh
            BY <3>1, IdleAsk DEF RequestFields
        <3>4. QED
            BY <2>3, <3>2, <3>3
    <2>4. QED
        BY <2>1, <2>2, <2>3
<1>3. op'[c] = k /\ \A d \in Askers \ {c} : op'[d] = op[d]
    BY <1>2 DEF RecordsInv, RecordTypes
<1>4. Reserves(k) => emitter[m] = Records!NoRow /\ \A d \in Askers \ {c} : op[d].m # m
    <2>1. CASE Records!CreateEmitter(c, m, n, rule)
        <3>1. emitter[m] = Records!NoRow /\ \A d \in Askers : op[d].m # m
            BY <2>1 DEF Records!CreateEmitter, Records!Begin
        <3>2. QED
            BY <3>1
    <2>2. CASE Records!CreateWithEntity(c, m, n, rule)
        BY <2>2 DEF Records!CreateWithEntity
    <2>3. CASE k.stage = "rule" /\ ~k.fresh
        BY <2>3 DEF Reserves
    <2>4. QED
        BY <1>2, <2>1, <2>2, <2>3
<1>5. RequestOK(c)'
    BY <1>1, <1>2, <1>3, <1>4 DEF RequestOK, Reserves
<1>6. \A d \in Askers \ {c} : Reserves(op[d]) => op[d].m # k.m
    <2>1. CASE Reserves(k)
        BY <1>2, <1>4, <2>1
    <2>2. CASE ~Reserves(k)
        <3>1. m \in Records!Rows
            BY <1>2, <2>2 DEF Reserves, Records!SetRule
        <3>2. emitter[m] # Records!NoRow
            BY <3>1, RowsAre, NoRows DEF RecordsInv
        <3>3. QED
            BY <1>2, <3>2 DEF RecordsInv, RequestOK
    <2>3. QED
        BY <2>1, <2>2
<1>7. QED
    BY <1>1, <1>2, <1>5, <1>6, RequestSteps

LEMMA BeginPatches ==
    ASSUME RecordsInv, NEW c \in Askers, NEW m \in EmitterIds, NEW fields \in SUBSET PatchFields, NEW n, NEW class,
           Records!Patch(c, m, fields, n, class)
    PROVE  RecordsInv'
<1>1. UNCHANGED <<emitter, owner, missed, stage, pick>> /\ m \in Records!Rows /\ fields # {}
    BY DEF Records!Patch, Records!tables, Records!ingest, Records!history
<1>2. PICK k : k = [Records!Idle EXCEPT !.stage = "patch", !.m = m, !.left = fields,
                             !.entity = IF "entity_id" \in fields THEN n ELSE Records!None,
                             !.attributes = IF "attributes" \in fields
                                            THEN Records!Attributes(class, emitter[m].attributes.ap)
                                            ELSE Records!None]
    OBVIOUS
<1>3. op' = [op EXCEPT ![c] = k]
    BY <1>2 DEF Records!Patch, Records!Begin
<1>4. /\ DOMAIN k = RequestFields /\ k.m = m /\ k.claims = {} /\ k.stage = "patch" /\ ~k.fresh /\ k.left = fields
      /\ k.attributes = IF "attributes" \in fields
                        THEN Records!Attributes(class, emitter[m].attributes.ap) ELSE Records!None
    BY <1>2, IdleAsk DEF RequestFields
<1>6. op'[c] = k
    BY <1>3 DEF RecordsInv, RecordTypes
<1>7. RequestOK(c)'
    BY <1>1, <1>4, <1>6 DEF RequestOK, Reserves
<1>8. \A d \in Askers \ {c} : Reserves(op[d]) => op[d].m # k.m
    <2>1. emitter[m] # Records!NoRow
        BY <1>1, RowsAre, NoRows DEF RecordsInv
    <2>2. QED
        BY <1>4, <2>1 DEF RecordsInv, RequestOK
<1>9. QED
    BY <1>1, <1>3, <1>7, <1>8, RequestSteps

\* A request that keeps its emitter.
LEMMA OwnEmitterKept ==
    ASSUME RecordsInv, NEW c \in Askers, NEW k, k.m = op[c].m
    PROVE  \A d \in Askers \ {c} : Reserves(op[d]) => op[d].m # k.m
BY DEF RecordsInv, RequestOK, Reserves

LEMMA AttachSteps ==
    ASSUME RecordsInv, NEW c \in Askers, Records!Attach(c)
    PROVE  RecordsInv'
<1>1. UNCHANGED <<emitter, owner, missed, stage, pick>> /\ op[c].stage = "attach"
    BY DEF Records!Attach, Records!tables, Records!ingest, Records!history
<1> DEFINE hits == op[c].rule \cap Records!Stored
<1>2. CASE op[c].m \in Records!Rows \/ op[c].fresh \/ hits = {}
    <2>1. PICK k : k = [op[c] EXCEPT !.stage = "window", !.claims = hits]
        OBVIOUS
    <2>2. op' = [op EXCEPT ![c] = k]
        BY <1>2, <2>1 DEF Records!Attach, RecordsInv, RecordTypes
    <2>3. RequestOK(c)
        BY DEF RecordsInv
    <2>4. /\ DOMAIN k = RequestFields /\ k.m = op[c].m /\ k.claims = hits /\ k.stage = "window" /\ k.fresh = op[c].fresh
        BY <2>1, <2>3 DEF RequestOK, RequestFields
    <2>5. op'[c] = k /\ \A d \in Askers \ {c} : op'[d] = op[d]
        BY <2>2 DEF RecordsInv, RecordTypes
    <2>6. hits \subseteq DOMAIN owner
        BY DEF Records!Stored
    <2> HIDE DEF hits
    <2>7. RequestOK(c)'
        BY <1>1, <1>2, <2>3, <2>4, <2>5, <2>6 DEF RequestOK, Reserves, Records!Rows
    <2>8. QED
        BY <1>1, <2>2, <2>4, <2>7, OwnEmitterKept, RequestSteps
<1>3. CASE ~(op[c].m \in Records!Rows \/ op[c].fresh \/ hits = {})
    BY <1>1, <1>3, RequestEndsThere DEF Records!Attach
<1>4. QED
    BY <1>2, <1>3

LEMMA ReadWindowSteps ==
    ASSUME RecordsInv, NEW c \in Askers, Records!ReadWindow(c)
    PROVE  RecordsInv'
<1>1. UNCHANGED <<emitter, owner, missed, stage, pick>> /\ op[c].stage = "window"
    BY DEF Records!ReadWindow, Records!tables, Records!ingest, Records!history
<1>2. PICK S : S = {ObservedAt[e] : e \in {x \in Records!Stored : owner[x] = op[c].m \/ x \in op[c].claims}}
    OBVIOUS
<1>3. PICK first, last \in (IF S = {} THEN {Records!Unseen} ELSE S) :
          /\ \A t \in S : first <= t /\ t <= last
          /\ op' = [op EXCEPT ![c].stage = "commit", ![c].first = first, ![c].last = last]
    BY <1>2 DEF Records!ReadWindow
<1>4. \A t \in S : t \in Nat /\ t # 0
    BY <1>2, NoneIsNoId DEF RecordsInv, RecordTypes, Records!Stored
<1>5. IsWindow(first, last) /\ \A t \in S : Within(t, first, last)
    BY <1>3, <1>4 DEF IsWindow, Within, Records!Unseen
<1>6. /\ \A e \in op[c].claims : Within(ObservedAt[e], first, last)
      /\ \A e \in DOMAIN owner : owner[e] = op[c].m => Within(ObservedAt[e], first, last)
    BY <1>2, <1>5 DEF RecordsInv, RequestOK, Records!Stored
<1>7. PICK k : k = [op[c] EXCEPT !.stage = "commit", !.first = first, !.last = last]
    OBVIOUS
<1>8. op' = [op EXCEPT ![c] = k]
    BY <1>3, <1>7 DEF RecordsInv, RecordTypes
<1>9. RequestOK(c)
    BY DEF RecordsInv
<1>10. /\ DOMAIN k = RequestFields /\ k.m = op[c].m /\ k.claims = op[c].claims /\ k.stage = "commit"
       /\ k.fresh = op[c].fresh /\ k.first = first /\ k.last = last
    BY <1>7, <1>9 DEF RequestOK, RequestFields
<1>11. op'[c] = k /\ \A d \in Askers \ {c} : op'[d] = op[d]
    BY <1>8 DEF RecordsInv, RecordTypes
<1>12. RequestOK(c)'
    BY <1>1, <1>5, <1>6, <1>9, <1>10, <1>11 DEF RequestOK, Reserves, Records!Rows, Untouched
<1>13. QED
    BY <1>1, <1>8, <1>10, <1>12, OwnEmitterKept, RequestSteps

LEMMA FailedRequestSteps ==
    ASSUME RecordsInv, NEW c \in Askers, Records!Fail(c)
    PROVE  RecordsInv'
BY RequestEndsThere DEF Records!Fail, Records!Answer, Records!tables, Records!ingest, Records!history

\* Of what is stored, the ingest of no emission that has yet to widen a window gets past that.
IngestHolds ==
    /\ DOMAIN stage' = Emissions /\ DOMAIN pick' = Emissions
    /\ \A e \in DOMAIN owner : stage'[e] # "new" /\ (Untouched(e) => Untouched(e)')

LEMMA IngestIsStill ==
    ASSUME RecordsInv, UNCHANGED <<owner, stage, pick>>
    PROVE  IngestHolds
BY DEF RecordsInv, RecordTypes, Owners, IngestHolds, Untouched

\* A row is inserted, or keeps its window.
LEMMA RowWritten ==
    ASSUME RecordsInv, NEW m \in EmitterIds, NEW r, IsRow(r), emitter' = [emitter EXCEPT ![m] = r],
           UNCHANGED <<owner, missed>>, IngestHolds, DOMAIN op' = Askers,
           \/ emitter[m] = Records!NoRow
           \/ IsRow(emitter[m]) /\ r.first = emitter[m].first /\ r.last = emitter[m].last
    PROVE  /\ RecordTypes' /\ Owners' /\ Covered'
           /\ Records!Rows' = Records!Rows \cup {m}
           /\ \A x \in EmitterIds \ {m} : emitter'[x] = emitter[x]
<1>1. emitter'[m] = r /\ \A x \in EmitterIds \ {m} : emitter'[x] = emitter[x]
    BY DEF RecordsInv, RecordTypes
<1>3. RecordTypes'
    <2>1. DOMAIN emitter' = EmitterIds
        BY DEF RecordsInv, RecordTypes
    <2>2. QED
        BY <1>1, <2>1 DEF RecordsInv, RecordTypes, IngestHolds
<1>4. Records!Rows' = Records!Rows \cup {m}
    BY <1>1 DEF Records!Rows, IsRow
<1>5. Owners'
    BY <1>4 DEF RecordsInv, Owners, IngestHolds
<1>9. Covered'
    <2> SUFFICES ASSUME NEW e \in DOMAIN owner \ missed, owner[e] # Records!None, ~Untouched(e)
                 PROVE  Within(ObservedAt[e], emitter'[owner[e]].first, emitter'[owner[e]].last)
        BY DEF Covered, IngestHolds
    <2>1. Within(ObservedAt[e], emitter[owner[e]].first, emitter[owner[e]].last) /\ owner[e] \in Records!Rows
        BY DEF RecordsInv, Covered, Owners
    <2>2. CASE owner[e] = m
        <3>1. emitter[m] # Records!NoRow
            BY <2>1, <2>2, RowsAre, NoRows DEF RecordsInv
        <3>2. QED
            BY <1>1, <2>1, <2>2, <3>1
    <2>3. CASE owner[e] # m
        BY <1>1, <2>1, <2>3, RowsAre DEF RecordsInv
    <2>4. QED
        BY <2>2, <2>3
<1>10. QED
    BY <1>1, <1>3, <1>4, <1>5, <1>9

\* The requests that wait while it is.
LEMMA WaitForRow ==
    ASSUME RecordsInv, NEW m \in EmitterIds, UNCHANGED <<owner, missed>>, IngestHolds,
           Records!Rows \subseteq Records!Rows', \A x \in EmitterIds \ {m} : emitter'[x] = emitter[x],
           NEW d \in Askers, op'[d] = op[d], Reserves(op[d]) => op[d].m # m,
           \A x \in Askers : op'[x].m \in {op[x].m, Records!None}
    PROVE  RequestOK(d)'
<1>1. RequestOK(d)
    BY DEF RecordsInv
<1>2. Reserves(op[d]) => emitter'[op[d].m] = Records!NoRow /\ \A x \in Askers \ {d} : op'[x].m # op[d].m
    BY <1>1, NoneIsNoId DEF RequestOK, Reserves
<1>3. QED
    BY <1>1, <1>2, RequestWaits DEF RequestOK, IngestHolds

\* A request that writes its row and goes on with k.
LEMMA RequestWrites ==
    ASSUME RecordsInv, NEW c \in Askers, NEW k, op' = [op EXCEPT ![c] = k], DOMAIN k = RequestFields,
           k.m = op[c].m \/ k = Records!Idle, NEW r, IsRow(r), op[c].m \in EmitterIds,
           emitter' = [emitter EXCEPT ![op[c].m] = r],
           UNCHANGED <<owner, stage, pick, missed>>,
           \/ emitter[op[c].m] = Records!NoRow /\ Reserves(op[c])
           \/ IsRow(emitter[op[c].m]) /\ r.first = emitter[op[c].m].first /\ r.last = emitter[op[c].m].last,
           k.claims = {}, ~k.fresh, k.stage \notin {"insert", "commit"},
           k.stage = "patch" => k.left # {} /\ k.left \subseteq PatchFields
    PROVE  RecordsInv'
<1>1. /\ DOMAIN op' = Askers /\ op'[c] = k /\ \A d \in Askers \ {c} : op'[d] = op[d]
    BY DEF RecordsInv, RecordTypes
<1>2. /\ RecordTypes' /\ Owners' /\ Covered'
      /\ Records!Rows' = Records!Rows \cup {op[c].m}
      /\ \A x \in EmitterIds \ {op[c].m} : emitter'[x] = emitter[x]
    BY <1>1, IngestIsStill, RowWritten
<1>3. \A x \in Askers : op'[x].m \in {op[x].m, Records!None}
    BY <1>1, IdleAsk
<1>4. ASSUME NEW d \in Askers \ {c} PROVE RequestOK(d)'
    <2>1. Reserves(op[d]) => op[d].m # op[c].m
        BY DEF RecordsInv, RequestOK
    <2>2. QED
        BY <1>1, <1>2, <1>3, <2>1, IngestIsStill, WaitForRow
<1>5. RequestOK(c)'
    BY <1>1, IdleAsk DEF RequestOK, Reserves
<1>6. QED
    BY <1>2, <1>4, <1>5 DEF RecordsInv

LEMMA NewRowIs ==
    ASSUME NEW entity_, NEW rule, NEW attributes, NEW id
    PROVE  IsRow(Records!NewRow(entity_, rule, attributes, id))
<1> DEFINE r == Records!NewRow(entity_, rule, attributes, id)
<1>1. DOMAIN r = RowFields /\ r.there /\ r.first = Records!Unseen /\ r.last = Records!Unseen
    BY DEF Records!NewRow, RowFields
<1>2. QED
    BY <1>1 DEF IsRow, IsWindow, Records!Unseen

LEMMA InsertEmitterSteps ==
    ASSUME RecordsInv, NEW c \in Askers, Records!InsertEmitter(c)
    PROVE  RecordsInv'
<1>1. UNCHANGED <<owner, missed, stage, pick>> /\ op[c].stage = "insert"
    BY DEF Records!InsertEmitter, Records!ingest, Records!history
<1>2. CASE op[c].entity \in entities \cup {Records!None}
    <2>1. PICK r : r = Records!NewRow(op[c].entity, op[c].rule,
                                      Records!Attributes(Records!None, Records!None), Records!None)
        OBVIOUS
    <2>2. IsRow(r)
        BY <2>1, NewRowIs
    <2>3. emitter' = [emitter EXCEPT ![op[c].m] = r]
        BY <1>2, <2>1 DEF Records!InsertEmitter
    <2>4. /\ RequestOK(c) /\ Reserves(op[c]) /\ op[c].m \in EmitterIds /\ emitter[op[c].m] = Records!NoRow /\ ~op[c].fresh
        BY <1>1 DEF RecordsInv, RequestOK, Reserves
    <2>5. op[c].claims = {}
        BY <2>4, RowsAre DEF RecordsInv, RequestOK
    <2>6. PICK k : /\ op' = [op EXCEPT ![c] = k]
                   /\ k = Records!Idle \/ k = [op[c] EXCEPT !.stage = "attach"]
        <3>1. op' = [op EXCEPT ![c] = Records!Idle] \/ op' = [op EXCEPT ![c].stage = "attach"]
            BY <1>2 DEF Records!InsertEmitter, Records!Answer, Records!Go
        <3>2. [op EXCEPT ![c].stage = "attach"] = [op EXCEPT ![c] = [op[c] EXCEPT !.stage = "attach"]]
            OBVIOUS
        <3>3. QED
            BY <3>1, <3>2
    <2>7. /\ (DOMAIN k = RequestFields /\ k.m = op[c].m) \/ k = Records!Idle
          /\ k.claims = {} /\ ~k.fresh /\ k.stage \in {"idle", "attach"}
        BY <2>4, <2>5, <2>6, IdleAsk DEF RequestOK, RequestFields
    <2>10. DOMAIN k = RequestFields
        BY <2>4, <2>6, IdleAsk DEF RequestOK, RequestFields
    <2>11. QED
        BY <1>1, <2>2, <2>3, <2>4, <2>6, <2>7, <2>10, RequestWrites
<1>3. CASE op[c].entity \notin entities \cup {Records!None}
    BY <1>1, <1>3, RequestEndsThere DEF Records!InsertEmitter
<1>4. QED
    BY <1>2, <1>3

LEMMA UpdateRuleRowSteps ==
    ASSUME RecordsInv, NEW c \in Askers, Records!UpdateRule(c)
    PROVE  RecordsInv'
<1>1. UNCHANGED <<owner, missed, stage, pick>> /\ op[c].stage = "rule"
    BY DEF Records!UpdateRule, Records!ingest, Records!history
<1>2. RequestOK(c) /\ ~op[c].fresh /\ op[c].m \in EmitterIds /\ op[c].claims \subseteq DOMAIN owner
    BY <1>1 DEF RecordsInv, RequestOK
<1>3. CASE op[c].m \in Records!Rows
    <2>1. PICK r : r = [emitter[op[c].m] EXCEPT !.rule = op[c].rule]
        OBVIOUS
    <2>2. IsRow(emitter[op[c].m])
        BY <1>2, <1>3, RowsAre DEF RecordsInv
    <2>3. IsRow(r) /\ r.first = emitter[op[c].m].first /\ r.last = emitter[op[c].m].last
        BY <2>1, <2>2 DEF IsRow, RowFields
    <2>4. emitter' = [emitter EXCEPT ![op[c].m] = r]
        BY <1>2, <1>3, <2>1 DEF Records!UpdateRule, RecordsInv, RecordTypes
    <2>5. PICK k : k = [op[c] EXCEPT !.stage = "attach"]
        OBVIOUS
    <2>6. op' = [op EXCEPT ![c] = k]
        BY <1>3, <2>5 DEF Records!UpdateRule, Records!Go
    <2>7. DOMAIN k = RequestFields /\ k.m = op[c].m /\ k.claims = op[c].claims /\ ~k.fresh /\ k.stage = "attach"
        BY <1>2, <2>5 DEF RequestOK, RequestFields
    <2>9. /\ DOMAIN op' = Askers /\ op'[c] = k /\ \A d \in Askers \ {c} : op'[d] = op[d]
        BY <2>6 DEF RecordsInv, RecordTypes
    <2>10. /\ RecordTypes' /\ Owners' /\ Covered'
           /\ Records!Rows' = Records!Rows \cup {op[c].m}
           /\ \A x \in EmitterIds \ {op[c].m} : emitter'[x] = emitter[x]
        BY <1>1, <1>2, <2>2, <2>3, <2>4, <2>9, IngestIsStill, RowWritten
    <2>11. ASSUME NEW d \in Askers \ {c} PROVE RequestOK(d)'
        <3>1. Reserves(op[d]) => op[d].m # op[c].m
            BY DEF RecordsInv, RequestOK
        <3>2. \A x \in Askers : op'[x].m \in {op[x].m, Records!None}
            BY <2>7, <2>9
        <3>3. QED
            BY <1>1, <1>2, <2>9, <2>10, <3>1, <3>2, IngestIsStill, WaitForRow
    <2>12. RequestOK(c)'
        BY <1>1, <1>2, <2>7, <2>9, <2>10 DEF RequestOK, Reserves
    <2>13. QED
        BY <2>10, <2>11, <2>12 DEF RecordsInv
<1>4. CASE op[c].m \notin Records!Rows
    BY <1>1, <1>4, RequestEndsThere DEF Records!UpdateRule
<1>5. QED
    BY <1>3, <1>4

LEMMA NextFieldOf ==
    ASSUME NEW fields \in SUBSET PatchFields, fields # {}
    PROVE  Records!NextField(fields) \in fields
<1> DEFINE First(f) == \A g \in fields :
              g # f => <<f, g>> \in {<<"entity_id", "match_enabled">>, <<"entity_id", "attributes">>,
                                     <<"match_enabled", "attributes">>}
<1>1. \E f \in fields : First(f)
    <2>1. CASE "entity_id" \in fields
        <3>1. First("entity_id")
            BY DEF PatchFields
        <3>2. QED
            BY <2>1, <3>1
    <2>2. CASE "entity_id" \notin fields /\ "match_enabled" \in fields
        <3>1. First("match_enabled")
            BY <2>2 DEF PatchFields
        <3>2. QED
            BY <2>2, <3>1
    <2>3. CASE "entity_id" \notin fields /\ "match_enabled" \notin fields
        <3>1. "attributes" \in fields /\ First("attributes")
            BY <2>3 DEF PatchFields
        <3>2. QED
            BY <3>1
    <2>4. QED
        BY <2>1, <2>2, <2>3
<1>2. Records!NextField(fields) = CHOOSE f \in fields : First(f)
    BY DEF Records!NextField
<1> HIDE DEF First
<1>3. QED
    BY <1>1, <1>2

LEMMA FieldIsSet ==
    ASSUME NEW row, IsRow(row), NEW r, NEW f \in PatchFields
    PROVE  LET new == Records!FieldSet(row, r, f) IN
           IsRow(new) /\ new.first = row.first /\ new.last = row.last
<1>1. CASE f = "entity_id"
    <2>1. Records!FieldSet(row, r, f) = [row EXCEPT !.entity = r.entity]
        BY <1>1 DEF Records!FieldSet
    <2>2. QED
        BY <1>1, <2>1 DEF IsRow, RowFields
<1>2. CASE f = "match_enabled"
    <2>1. PICK b : Records!FieldSet(row, r, f) = [row EXCEPT !.match_enabled = b]
        BY <1>2 DEF Records!FieldSet
    <2>2. QED
        BY <1>2, <2>1 DEF IsRow, RowFields
<1>3. CASE f = "attributes"
    <2>1. Records!FieldSet(row, r, f) = [row EXCEPT !.attributes = r.attributes]
        BY <1>3 DEF Records!FieldSet
    <2>2. QED
        BY <1>3, <2>1 DEF IsRow, RowFields
<1>4. QED
    BY <1>1, <1>2, <1>3 DEF PatchFields

LEMMA PatchFieldSteps ==
    ASSUME RecordsInv, NEW c \in Askers, Records!PatchField(c)
    PROVE  RecordsInv'
<1>1. UNCHANGED <<owner, missed, stage, pick>> /\ op[c].stage = "patch"
    BY DEF Records!PatchField, Records!ingest
<1>2. RequestOK(c) /\ ~op[c].fresh /\ op[c].m \in EmitterIds /\ op[c].left # {} /\ op[c].left \subseteq PatchFields
    BY <1>1 DEF RecordsInv, RequestOK
<1>3. PICK f : f = Records!NextField(op[c].left)
    OBVIOUS
<1>4. f \in op[c].left /\ f \in PatchFields
    BY <1>2, <1>3, NextFieldOf
<1>5. CASE op[c].m \in Records!Rows /\ (f = "entity_id" => op[c].entity \in entities \cup {Records!None})
    <2>1. PICK r : r = Records!FieldSet(emitter[op[c].m], op[c], f)
        OBVIOUS
    <2>2. IsRow(emitter[op[c].m])
        BY <1>2, <1>5, RowsAre DEF RecordsInv
    <2>3. IsRow(r) /\ r.first = emitter[op[c].m].first /\ r.last = emitter[op[c].m].last
        BY <1>2, <1>4, <2>1, <2>2, FieldIsSet
    <2>4. emitter' = [emitter EXCEPT ![op[c].m] = r]
        BY <1>2, <1>3, <1>5, <2>1 DEF Records!PatchField, RecordsInv, RecordTypes
    <2>5. PICK k : /\ op' = [op EXCEPT ![c] = k]
                   /\ \/ k = Records!Idle
                      \/ k = [op[c] EXCEPT !.left = op[c].left \ {f}] /\ op[c].left \ {f} # {}
        <3>1. CASE op[c].left \ {f} = {}
            BY <1>3, <1>5, <3>1 DEF Records!PatchField, Records!Answer
        <3>2. CASE op[c].left \ {f} # {}
            BY <1>3, <1>5, <3>2 DEF Records!PatchField, RecordsInv, RecordTypes
        <3>3. QED
            BY <3>1, <3>2
    <2>6. /\ DOMAIN op' = Askers /\ op'[c] = k /\ \A d \in Askers \ {c} : op'[d] = op[d]
        BY <2>5 DEF RecordsInv, RecordTypes
    <2>8. /\ RecordTypes' /\ Owners' /\ Covered'
          /\ Records!Rows' = Records!Rows \cup {op[c].m}
          /\ \A x \in EmitterIds \ {op[c].m} : emitter'[x] = emitter[x]
        BY <1>1, <1>2, <2>2, <2>3, <2>4, <2>6, IngestIsStill, RowWritten
    <2>9. /\ k.m \in {op[c].m, Records!None}
          /\ k = Records!Idle \/ (DOMAIN k = RequestFields /\ k.stage = "patch" /\ k.m = op[c].m /\ k.claims = op[c].claims
                                  /\ ~k.fresh /\ k.left = op[c].left \ {f} /\ k.left # {})
        BY <1>1, <1>2, <2>5, IdleAsk DEF RequestOK, RequestFields
    <2>10. ASSUME NEW d \in Askers \ {c} PROVE RequestOK(d)'
        <3>1. Reserves(op[d]) => op[d].m # op[c].m
            BY DEF RecordsInv, RequestOK
        <3>2. \A x \in Askers : op'[x].m \in {op[x].m, Records!None}
            BY <2>6, <2>9
        <3>3. QED
            BY <1>1, <1>2, <2>6, <2>8, <3>1, <3>2, IngestIsStill, WaitForRow
    <2>11. RequestOK(c)'
        <3>1. CASE k = Records!Idle
            BY <2>6, <3>1, IdleAsk DEF RequestOK, Reserves
        <3>2. CASE k # Records!Idle
            BY <1>1, <1>2, <2>6, <2>8, <2>9, <3>2 DEF RequestOK, Reserves
        <3>3. QED
            BY <3>1, <3>2
    <2>12. QED
        BY <2>8, <2>10, <2>11 DEF RecordsInv
<1>6. CASE ~(op[c].m \in Records!Rows /\ (f = "entity_id" => op[c].entity \in entities \cup {Records!None}))
    <2>1. Records!Answer(c) /\ UNCHANGED <<emitter>>
        BY <1>3, <1>6 DEF Records!PatchField
    <2>2. QED
        BY <1>1, <2>1, RequestEndsThere
<1>7. QED
    BY <1>5, <1>6

\* A row that no request writes.
LEMMA RowWrittenAside ==
    ASSUME RecordsInv, NEW m \in EmitterIds, NEW r, IsRow(r), emitter' = [emitter EXCEPT ![m] = r],
           UNCHANGED <<owner, missed, op>>,
           \/ emitter[m] = Records!NoRow /\ \A c \in Askers : op[c].m # m
           \/ IsRow(emitter[m]) /\ r.first = emitter[m].first /\ r.last = emitter[m].last,
           IngestHolds
    PROVE  RecordsInv'
<1>1. DOMAIN op' = Askers
    BY DEF RecordsInv, RecordTypes
<1>3. /\ RecordTypes' /\ Owners' /\ Covered'
      /\ Records!Rows' = Records!Rows \cup {m}
      /\ \A x \in EmitterIds \ {m} : emitter'[x] = emitter[x]
    BY <1>1, RowWritten
<1>4. ASSUME NEW d \in Askers PROVE RequestOK(d)'
    <2>1. Reserves(op[d]) => op[d].m # m
        BY NoRows DEF RecordsInv, RequestOK
    <2>2. QED
        BY <1>3, <2>1, IngestIsStill, WaitForRow
<1>5. QED
    BY <1>3, <1>4 DEF RecordsInv

\* The ingest moves on and touches no row.
LEMMA EmissionSteps ==
    ASSUME RecordsInv, UNCHANGED <<emitter, op>>,
           DOMAIN stage' = Emissions, DOMAIN pick' = Emissions, DOMAIN owner' \subseteq Emissions,
           \A c \in Askers : op[c].claims \subseteq DOMAIN owner',
           \A x \in DOMAIN owner' : stage'[x] # "new" /\ owner'[x] \in Records!Rows \cup {Records!None},
           \A x \in DOMAIN owner' \ missed' : owner'[x] # Records!None /\ ~Untouched(x)' =>
               x \in DOMAIN owner \ missed /\ owner[x] = owner'[x] /\ ~Untouched(x)
    PROVE  RecordsInv'
<1>1. RecordTypes' /\ Owners'
    BY DEF RecordsInv, RecordTypes, Owners, Records!Rows
<1>2. Covered'
    BY DEF RecordsInv, Covered
<1>3. ASSUME NEW d \in Askers PROVE RequestOK(d)'
    <2>1. RequestOK(d)
        BY DEF RecordsInv
    <2>2. op[d].claims # {} /\ ~op[d].fresh => op[d].m \in Records!Rows'
        BY <2>1 DEF RequestOK, Records!Rows
    <2>3. Reserves(op[d]) => emitter'[op[d].m] = Records!NoRow /\ \A x \in Askers \ {d} : op'[x].m # op[d].m
        BY <2>1 DEF RequestOK
    <2>4. op[d].stage = "commit" => \A e \in DOMAIN owner' \ missed' : owner'[e] = op[d].m /\ ~Untouched(e)' =>
                                        Within(ObservedAt[e], op[d].first, op[d].last)
        <3>1. op[d].stage = "commit" => op[d].m # Records!None
            BY <2>1, NoneIsNoId DEF RequestOK
        <3>2. QED
            BY <2>1, <3>1 DEF RequestOK
    <2>5. QED
        BY <2>1, <2>2, <2>3, <2>4, RequestWaits
<1>4. QED
    BY <1>1, <1>2, <1>3 DEF RecordsInv

LEMMA IngestSteps ==
    ASSUME RecordsInv, NEW e \in Emissions,
           Records!Store(e) \/ Records!FirstMatch(e) \/ Records!SetEmitter(e) \/ Records!TouchFails(e)
    PROVE  RecordsInv'
<1>1. UNCHANGED <<emitter, op>>
    BY DEF Records!Store, Records!FirstMatch, Records!SetEmitter, Records!TouchFails, Records!history, Records!tables
<1>2. /\ RecordTypes /\ Owners /\ \A c \in Askers : op[c].claims \subseteq DOMAIN owner
    BY DEF RecordsInv, RequestOK
<1>3. CASE Records!Store(e)
    <2>1. /\ stage[e] = "new" /\ stage' = [stage EXCEPT ![e] = "stored"] /\ UNCHANGED <<pick, missed>>
          /\ owner' = [x \in DOMAIN owner \cup {e} |-> IF x = e THEN Records!None ELSE owner[x]]
        BY <1>3 DEF Records!Store, Records!Stored
    <2>2. e \notin DOMAIN owner
        BY <1>2, <2>1 DEF Owners
    <2>3. \A x \in DOMAIN owner : owner'[x] = owner[x] /\ stage'[x] = stage[x]
        BY <1>2, <2>1, <2>2 DEF RecordTypes
    <2>4. DOMAIN owner' = DOMAIN owner \cup {e} /\ owner'[e] = Records!None /\ stage'[e] = "stored"
          /\ DOMAIN stage' = Emissions
        BY <1>2, <2>1 DEF RecordTypes
    <2>5. \A x \in DOMAIN owner' : stage'[x] # "new" /\ owner'[x] \in Records!Rows \cup {Records!None}
        BY <1>2, <2>3, <2>4 DEF Owners
    <2>6. \A x \in DOMAIN owner' \ missed' : owner'[x] # Records!None /\ ~Untouched(x)' =>
               x \in DOMAIN owner \ missed /\ owner[x] = owner'[x] /\ ~Untouched(x)
        BY <2>1, <2>3, <2>4 DEF Untouched
    <2>7. QED
        BY <1>1, <1>2, <2>1, <2>4, <2>5, <2>6, EmissionSteps DEF RecordTypes
<1>4. CASE Records!FirstMatch(e)
    <2>1. PICK m : pick' = [pick EXCEPT ![e] = m]
        BY <1>4 DEF Records!FirstMatch
    <2>2. stage[e] = "stored" /\ stage' = [stage EXCEPT ![e] = "picked"] /\ UNCHANGED <<owner, missed>>
        BY <1>4 DEF Records!FirstMatch, Records!tables
    <2>3. /\ DOMAIN stage' = Emissions /\ DOMAIN pick' = Emissions
          /\ \A x \in Emissions \ {e} : stage'[x] = stage[x] /\ pick'[x] = pick[x]
          /\ stage'[e] = "picked"
        BY <1>2, <2>1, <2>2 DEF RecordTypes
    <2>4. \A x \in DOMAIN owner' : stage'[x] # "new" /\ owner'[x] \in Records!Rows \cup {Records!None}
        BY <1>2, <2>2, <2>3 DEF Owners, RecordTypes
    <2>5. \A x \in DOMAIN owner' \ missed' : owner'[x] # Records!None /\ ~Untouched(x)' =>
               x \in DOMAIN owner \ missed /\ owner[x] = owner'[x] /\ ~Untouched(x)
        BY <1>2, <2>2, <2>3 DEF Untouched, RecordTypes
    <2>6. QED
        BY <1>1, <1>2, <2>2, <2>3, <2>4, <2>5, EmissionSteps DEF RecordTypes
<1>5. CASE Records!SetEmitter(e)
    <2>1. stage[e] = "picked" /\ UNCHANGED pick
        BY <1>5 DEF Records!SetEmitter
    <2>2. CASE pick[e] \in Records!Rows /\ e \in Records!Stored
        <3>1. owner' = [owner EXCEPT ![e] = pick[e]] /\ stage' = [stage EXCEPT ![e] = "owned"] /\ e \in DOMAIN owner
              /\ missed' = missed \ {e}
            BY <1>5, <2>2 DEF Records!SetEmitter, Records!Stored
        <3>2. /\ DOMAIN stage' = Emissions /\ DOMAIN owner' = DOMAIN owner
              /\ \A x \in Emissions \ {e} : stage'[x] = stage[x]
              /\ \A x \in DOMAIN owner \ {e} : owner'[x] = owner[x]
              /\ stage'[e] = "owned" /\ owner'[e] = pick[e]
            BY <1>2, <3>1 DEF RecordTypes
        <3>3. \A x \in DOMAIN owner' : stage'[x] # "new" /\ owner'[x] \in Records!Rows \cup {Records!None}
            BY <1>2, <2>2, <3>2 DEF Owners, RecordTypes
        <3>4. \A x \in DOMAIN owner' \ missed' : owner'[x] # Records!None /\ ~Untouched(x)' =>
                   x \in DOMAIN owner \ missed /\ owner[x] = owner'[x] /\ ~Untouched(x)
            BY <1>2, <2>1, <3>1, <3>2 DEF Untouched, RecordTypes
        <3>5. QED
            BY <1>1, <1>2, <2>1, <3>2, <3>3, <3>4, EmissionSteps DEF RecordTypes
    <2>3. CASE ~(pick[e] \in Records!Rows /\ e \in Records!Stored)
        <3>1. owner' = owner /\ missed' = missed /\ stage' = [stage EXCEPT ![e] = "done"]
            BY <1>5, <2>3 DEF Records!SetEmitter
        <3>2. /\ DOMAIN stage' = Emissions /\ \A x \in Emissions \ {e} : stage'[x] = stage[x]
              /\ stage'[e] = "done"
            BY <1>2, <3>1 DEF RecordTypes
        <3>3. \A x \in DOMAIN owner' : stage'[x] # "new" /\ owner'[x] \in Records!Rows \cup {Records!None}
            BY <1>2, <3>1, <3>2 DEF Owners, RecordTypes
        <3>4. \A x \in DOMAIN owner' \ missed' : owner'[x] # Records!None /\ ~Untouched(x)' =>
                   x \in DOMAIN owner \ missed /\ owner[x] = owner'[x] /\ ~Untouched(x)
            BY <1>2, <2>1, <3>1, <3>2 DEF Untouched, RecordTypes
        <3>5. QED
            BY <1>1, <1>2, <2>1, <3>1, <3>2, <3>3, <3>4, EmissionSteps DEF RecordTypes
    <2>4. QED
        BY <2>2, <2>3
<1>6. CASE Records!TouchFails(e)
    <2>1. PICK s \in {"touched", "done"} : stage' = [stage EXCEPT ![e] = s]
        BY <1>6 DEF Records!TouchFails
    <2>2. UNCHANGED <<owner, pick>> /\ missed' = missed \cup {e}
        BY <1>6 DEF Records!TouchFails, Records!tables
    <2>3. /\ DOMAIN stage' = Emissions /\ \A x \in Emissions \ {e} : stage'[x] = stage[x]
          /\ stage'[e] = s
        BY <1>2, <2>1 DEF RecordTypes
    <2>4. \A x \in DOMAIN owner' : stage'[x] # "new" /\ owner'[x] \in Records!Rows \cup {Records!None}
        BY <1>2, <2>2, <2>3 DEF Owners, RecordTypes
    <2>5. \A x \in DOMAIN owner' \ missed' : owner'[x] # Records!None /\ ~Untouched(x)' =>
               x \in DOMAIN owner \ missed /\ owner[x] = owner'[x] /\ ~Untouched(x)
        BY <1>2, <2>2, <2>3 DEF Untouched, RecordTypes
    <2>6. QED
        BY <1>1, <1>2, <2>2, <2>3, <2>4, <2>5, EmissionSteps DEF RecordTypes
<1>7. QED
    BY <1>3, <1>4, <1>5, <1>6

LEMMA EnrichSteps ==
    ASSUME RecordsInv, NEW e \in Emissions, Records!Enrich(e)
    PROVE  RecordsInv'
<1>1. /\ stage[e] = "touched" /\ stage' = [stage EXCEPT ![e] = "done"]
      /\ UNCHANGED <<owner, pick, missed, op>>
    BY DEF Records!Enrich, Records!history
<1>2. DOMAIN stage' = Emissions /\ stage'[e] = "done" /\ \A x \in Emissions \ {e} : stage'[x] = stage[x]
    BY <1>1 DEF RecordsInv, RecordTypes
<1>3. IngestHolds
    BY <1>1, <1>2 DEF IngestHolds, RecordsInv, RecordTypes, Owners, Untouched
<1>4. CASE pick[e] \in Records!Rows
    <2>1. PICK m \in EmitterIds : m = pick[e] /\ m \in Records!Rows
        BY <1>4, RowsAre DEF RecordsInv
    <2>2. IsRow(emitter[m])
        BY <2>1, RowsAre DEF RecordsInv
    <2>3. PICK a : a = [emitter[m].attributes EXCEPT !.ap = e]
        OBVIOUS
    <2>5. PICK r : r = [emitter[m] EXCEPT !.attributes = a]
        OBVIOUS
    <2>6. IsRow(r) /\ r.first = emitter[m].first /\ r.last = emitter[m].last
        BY <2>2, <2>5 DEF IsRow, RowFields
    <2>7. emitter' = [emitter EXCEPT ![m].attributes = Records!Merged(emitter[m].attributes, e)]
        BY <1>4, <2>1 DEF Records!Enrich
    <2>8. emitter' = [emitter EXCEPT ![m] = r]
        BY <2>3, <2>5, <2>7 DEF Records!Merged
    <2>9. QED
        BY <1>1, <1>3, <2>2, <2>6, <2>8, RowWrittenAside
<1>5. CASE pick[e] \notin Records!Rows
    <2>1. emitter' = emitter
        BY <1>5 DEF Records!Enrich
    <2>2. DOMAIN pick' = Emissions /\ DOMAIN owner' \subseteq Emissions /\ \A c \in Askers : op[c].claims \subseteq DOMAIN owner'
        BY <1>1 DEF RecordsInv, RecordTypes, RequestOK
    <2>3. \A x \in DOMAIN owner' : stage'[x] # "new" /\ owner'[x] \in Records!Rows \cup {Records!None}
        BY <1>1, <1>2 DEF RecordsInv, Owners, RecordTypes
    <2>4. \A x \in DOMAIN owner' \ missed' : owner'[x] # Records!None /\ ~Untouched(x)' =>
               x \in DOMAIN owner \ missed /\ owner[x] = owner'[x] /\ ~Untouched(x)
        BY <1>1, <1>2 DEF Untouched, RecordsInv, RecordTypes
    <2>5. QED
        BY <1>1, <1>2, <2>1, <2>2, <2>3, <2>4, EmissionSteps
<1>6. QED
    BY <1>4, <1>5

LEMMA GetOrCreateSteps ==
    ASSUME RecordsInv, NEW e \in Emissions, NEW m \in EmitterIds, Records!GetOrCreate(e, m)
    PROVE  RecordsInv'
<1>1. /\ stage[e] = "stored" /\ pick' = [pick EXCEPT ![e] = m]
      /\ UNCHANGED <<owner, missed, op>>
    BY DEF Records!GetOrCreate, Records!history
<1>2. PICK s \in {"picked", "done"} : stage' = [stage EXCEPT ![e] = s]
    BY DEF Records!GetOrCreate
<1>3. /\ DOMAIN stage' = Emissions /\ DOMAIN pick' = Emissions /\ stage'[e] = s
      /\ \A x \in Emissions \ {e} : stage'[x] = stage[x] /\ pick'[x] = pick[x]
    BY <1>1, <1>2 DEF RecordsInv, RecordTypes
<1>4. CASE emitter' = emitter
    <2>1. DOMAIN owner' \subseteq Emissions /\ \A c \in Askers : op[c].claims \subseteq DOMAIN owner'
        BY <1>1 DEF RecordsInv, RecordTypes, RequestOK
    <2>2. \A x \in DOMAIN owner' : stage'[x] # "new" /\ owner'[x] \in Records!Rows \cup {Records!None}
        BY <1>1, <1>3 DEF RecordsInv, Owners, RecordTypes
    <2>3. \A x \in DOMAIN owner' \ missed' : owner'[x] # Records!None /\ ~Untouched(x)' =>
               x \in DOMAIN owner \ missed /\ owner[x] = owner'[x] /\ ~Untouched(x)
        BY <1>1, <1>3 DEF Untouched, RecordsInv, RecordTypes
    <2>4. QED
        BY <1>1, <1>3, <1>4, <2>1, <2>2, <2>3, EmissionSteps
<1>5. CASE emitter[m] = Records!NoRow /\ emitter' # emitter
    <2>1. PICK r : r = Records!NewRow(Records!None, {x \in Emissions : KeyOf[x] = KeyOf[e]},
                                      Records!Attributes("ephemeral", Records!None), KeyOf[e])
        OBVIOUS
    <2>2. IsRow(r)
        BY <2>1, NewRowIs
    <2>3. emitter' = [emitter EXCEPT ![m] = r] /\ \A c \in Askers : op[c].m # m
        BY <1>5, <2>1 DEF Records!GetOrCreate
    <2>4. IngestHolds
        BY <1>1, <1>3 DEF IngestHolds, RecordsInv, RecordTypes, Owners, Untouched
    <2>5. QED
        BY <1>1, <1>5, <2>2, <2>3, <2>4, RowWrittenAside
<1>6. QED
    BY <1>4, <1>5 DEF Records!GetOrCreate

LEMMA WindowWidens ==
    ASSUME NEW t \in Nat, t # 0, NEW first, NEW last, IsWindow(first, last)
    PROVE  LET f == IF first = Records!Unseen THEN t ELSE Records!Min({first, t})
               l == Records!Max({last, t}) IN
           /\ IsWindow(f, l) /\ Within(t, f, l)
           /\ \A x : Within(x, first, last) /\ x \in Nat => Within(x, f, l)
<1>1. Records!Max({last, t}) = IF last >= t THEN last ELSE t
    BY DEF Records!Max, IsWindow
<1>2. Records!Min({first, t}) = IF first <= t THEN first ELSE t
    BY DEF Records!Min, IsWindow
<1>3. QED
    BY <1>1, <1>2 DEF IsWindow, Within, Records!Unseen

LEMMA TouchSteps ==
    ASSUME RecordsInv, NEW e \in Emissions, Records!Touch(e)
    PROVE  RecordsInv'
<1> DEFINE m == pick[e]
<1>1. /\ stage[e] = "owned" /\ stage' = [stage EXCEPT ![e] = "touched"]
      /\ UNCHANGED <<owner, pick, op>>
      /\ missed' = IF Records!Overtaken(e, m, Askers) THEN missed \cup {e} ELSE missed
    BY DEF Records!Touch, Records!history
<1>2. DOMAIN stage' = Emissions /\ stage'[e] = "touched" /\ \A x \in Emissions \ {e} : stage'[x] = stage[x]
    BY <1>1 DEF RecordsInv, RecordTypes
<1>3. ObservedAt[e] \in Nat /\ ObservedAt[e] # 0
    BY NoneIsNoId
<1>4. CASE m \notin Records!Rows
    <2>1. emitter' = emitter
        BY <1>4 DEF Records!Touch
    <2>2. /\ DOMAIN pick' = Emissions /\ DOMAIN owner' \subseteq Emissions /\ missed \subseteq missed'
          /\ \A c \in Askers : op[c].claims \subseteq DOMAIN owner'
        BY <1>1 DEF RecordsInv, RecordTypes, RequestOK
    <2>3. \A x \in DOMAIN owner' : stage'[x] # "new" /\ owner'[x] \in Records!Rows \cup {Records!None}
        BY <1>1, <1>2 DEF RecordsInv, Owners, RecordTypes
    <2>4. \A x \in DOMAIN owner' \ missed' : owner'[x] # Records!None /\ ~Untouched(x)' =>
               x \in DOMAIN owner \ missed /\ owner[x] = owner'[x] /\ ~Untouched(x)
        BY <1>1, <1>2, <1>4 DEF Untouched, RecordsInv, RecordTypes, Owners
    <2>5. QED
        BY <1>1, <1>2, <2>1, <2>2, <2>3, <2>4, EmissionSteps
<1>5. CASE m \in Records!Rows
    <2> DEFINE f == IF emitter[m].first = Records!Unseen THEN ObservedAt[e]
                    ELSE Records!Min({emitter[m].first, ObservedAt[e]})
               l == Records!Max({emitter[m].last, ObservedAt[e]})
    <2>1. IsRow(emitter[m]) /\ m \in EmitterIds
        BY <1>5, RowsAre DEF RecordsInv
    <2>2. /\ IsWindow(f, l) /\ Within(ObservedAt[e], f, l)
          /\ \A t : Within(t, emitter[m].first, emitter[m].last) /\ t \in Nat => Within(t, f, l)
        BY <1>3, <2>1, WindowWidens DEF IsRow
    <2>3. emitter' = [emitter EXCEPT ![m].last = l, ![m].first = f]
        BY <1>5 DEF Records!Touch
    <2> HIDE DEF f, l
    <2>4. PICK r : r = [emitter[m] EXCEPT !.last = l, !.first = f]
        OBVIOUS
    <2>5. IsRow(r) /\ r.first = f /\ r.last = l
        BY <2>1, <2>2, <2>4 DEF IsRow, RowFields
    <2>6. emitter'[m] = r /\ DOMAIN emitter' = EmitterIds /\ \A x \in EmitterIds \ {m} : emitter'[x] = emitter[x]
        BY <2>1, <2>3, <2>4 DEF RecordsInv, RecordTypes
    <2>7. Records!Rows' = Records!Rows
        BY <1>5, <2>5, <2>6, RowsAre DEF Records!Rows, IsRow, RecordsInv
    <2>8. /\ RecordTypes'
        BY <1>1, <1>2, <2>1, <2>5, <2>6, NoRows DEF RecordsInv, RecordTypes
    <2>9. Owners'
        BY <1>1, <1>2, <2>7 DEF RecordsInv, Owners, RecordTypes
    <2>11. \A x \in DOMAIN owner \ {e} : Untouched(x)' <=> Untouched(x)
        BY <1>1, <1>2 DEF Untouched, RecordsInv, RecordTypes
    <2>12. missed \subseteq missed'
        BY <1>1
    <2>13. Covered'
        <3> SUFFICES ASSUME NEW x \in DOMAIN owner \ missed', owner[x] # Records!None, ~Untouched(x)'
                     PROVE  Within(ObservedAt[x], emitter'[owner[x]].first, emitter'[owner[x]].last)
            BY <1>1 DEF Covered
        <3>1. CASE owner[x] = m
            <4>1. CASE x = e
                BY <2>2, <2>5, <2>6, <3>1, <4>1
            <4>2. CASE x # e
                <5>1. Within(ObservedAt[x], emitter[m].first, emitter[m].last)
                    BY <2>11, <2>12, <3>1, <4>2 DEF RecordsInv, Covered
                <5>2. ObservedAt[x] \in Nat
                    BY NoneIsNoId DEF RecordsInv, RecordTypes
                <5>3. QED
                    BY <2>2, <2>5, <2>6, <3>1, <5>1, <5>2
            <4>3. QED
                BY <4>1, <4>2
        <3>2. CASE owner[x] # m
            <4>1. ~Untouched(x)
                BY <2>11, <3>2 DEF Untouched
            <4>2. Within(ObservedAt[x], emitter[owner[x]].first, emitter[owner[x]].last) /\ owner[x] \in EmitterIds
                BY <2>12, <4>1, RowsAre DEF RecordsInv, Covered, Owners
            <4>3. QED
                BY <2>6, <3>2, <4>2
        <3>3. QED
            BY <3>1, <3>2
    <2>14. ASSUME NEW d \in Askers PROVE RequestOK(d)'
        <3>1. RequestOK(d)
            BY DEF RecordsInv
        <3>2. Reserves(op[d]) => emitter'[op[d].m] = Records!NoRow /\ \A x \in Askers \ {d} : op'[x].m # op[d].m
            BY <1>1, <2>1, <2>6, <3>1, NoRows DEF RequestOK, Reserves
        <3>3. ASSUME op[d].stage = "commit", NEW x \in DOMAIN owner \ missed', owner[x] = op[d].m, ~Untouched(x)'
              PROVE  Within(ObservedAt[x], op[d].first, op[d].last)
            <4>1. CASE ~Untouched(x)
                BY <2>12, <3>1, <3>3, <4>1 DEF RequestOK
            <4>2. CASE Untouched(x)
                <5>1. x = e /\ op[d].m = m
                    BY <2>11, <3>3, <4>2 DEF Untouched
                <5>2. ~Records!Overtaken(e, m, Askers)
                    BY <1>1, <3>3, <5>1
                <5>3. QED
                    BY <3>3, <5>1, <5>2 DEF Records!Overtaken, Records!Holds, Within
            <4>3. QED
                BY <4>1, <4>2
        <3>4. QED
            BY <1>1, <2>7, <3>1, <3>2, <3>3, RequestWaits DEF RequestOK
    <2>15. QED
        BY <2>8, <2>9, <2>13, <2>14 DEF RecordsInv
<1>6. QED
    BY <1>4, <1>5

\* The agent attaches an emission, and its window is passed by unless it spans it already.
LEMMA AgentAttachSteps ==
    ASSUME RecordsInv, NEW e \in Emissions, NEW m \in EmitterIds, Records!AgentAttach(e, m)
    PROVE  RecordsInv'
<1>1. /\ e \in DOMAIN owner /\ m \in Records!Rows /\ owner' = [owner EXCEPT ![e] = m]
      /\ missed' = IF Records!Holds(emitter[m], e) /\ ~Records!Overtaken(e, m, Askers)
                   THEN missed \ {e} ELSE missed \cup {e}
      /\ UNCHANGED <<emitter, stage, pick, op>>
    BY DEF Records!AgentAttach, Records!Stored
<1>2. DOMAIN owner' = DOMAIN owner /\ owner'[e] = m /\ \A x \in DOMAIN owner \ {e} : owner'[x] = owner[x]
    BY <1>1
<1>3. RecordTypes' /\ Records!Rows' = Records!Rows
    BY <1>1, <1>2 DEF RecordsInv, RecordTypes, Records!Rows
<1>4. Owners'
    BY <1>1, <1>2, <1>3 DEF RecordsInv, Owners
<1>5. e \notin missed' => /\ Within(ObservedAt[e], emitter[m].first, emitter[m].last)
                           /\ ~Records!Overtaken(e, m, Askers)
    BY <1>1 DEF Records!Holds, Within
<1>6. \A x \in DOMAIN owner \ {e} : (x \in missed' <=> x \in missed) /\ (Untouched(x)' <=> Untouched(x))
    BY <1>1, <1>2 DEF Untouched
<1>7. Covered'
    BY <1>1, <1>2, <1>5, <1>6 DEF RecordsInv, Covered
<1>8. ASSUME NEW d \in Askers PROVE RequestOK(d)'
    <2>1. RequestOK(d)
        BY DEF RecordsInv
    <2>2. ASSUME op[d].stage = "commit", NEW x \in DOMAIN owner' \ missed', owner'[x] = op[d].m, ~Untouched(x)'
          PROVE  Within(ObservedAt[x], op[d].first, op[d].last)
        <3>1. CASE x = e
            BY <1>2, <1>5, <2>2, <3>1 DEF Records!Overtaken, Records!Holds, Within
        <3>2. CASE x # e
            BY <1>2, <1>6, <2>1, <2>2, <3>2 DEF RequestOK
        <3>3. QED
            BY <3>1, <3>2
    <2>3. QED
        BY <1>1, <1>2, <1>3, <2>1, <2>2, RequestWaits DEF RequestOK
<1>9. QED
    BY <1>3, <1>4, <1>7, <1>8 DEF RecordsInv

LEMMA AgentDetachSteps ==
    ASSUME RecordsInv, NEW e \in Emissions, Records!AgentDetach(e)
    PROVE  RecordsInv'
<1>1. /\ e \in DOMAIN owner /\ owner' = [owner EXCEPT ![e] = Records!None]
      /\ UNCHANGED <<emitter, stage, pick, missed, op>>
    BY DEF Records!AgentDetach, Records!Stored, Records!ingest
<1>2. DOMAIN owner' = DOMAIN owner /\ owner'[e] = Records!None /\ \A x \in DOMAIN owner \ {e} : owner'[x] = owner[x]
    BY <1>1
<1>3. DOMAIN stage' = Emissions /\ DOMAIN pick' = Emissions /\ DOMAIN owner' \subseteq Emissions
      /\ \A c \in Askers : op[c].claims \subseteq DOMAIN owner'
    BY <1>1, <1>2 DEF RecordsInv, RecordTypes, RequestOK
<1>4. \A x \in DOMAIN owner' : stage'[x] # "new" /\ owner'[x] \in Records!Rows \cup {Records!None}
    BY <1>1, <1>2 DEF RecordsInv, Owners
<1>5. \A x \in DOMAIN owner' \ missed' : owner'[x] # Records!None /\ ~Untouched(x)' =>
          x \in DOMAIN owner \ missed /\ owner[x] = owner'[x] /\ ~Untouched(x)
    BY <1>1, <1>2 DEF Untouched
<1>6. QED
    BY <1>1, <1>3, <1>4, <1>5, EmissionSteps

LEMMA DeleteEmissionsSteps ==
    ASSUME RecordsInv, NEW S, Records!DeleteEmissions(S)
    PROVE  RecordsInv'
<1>1. /\ S \cap Records!Claimed = {} /\ owner' = [e \in DOMAIN owner \ S |-> owner[e]]
      /\ UNCHANGED <<emitter, stage, pick, missed, op>>
    BY DEF Records!DeleteEmissions, Records!Stored, Records!ingest
<1>2. DOMAIN owner' = DOMAIN owner \ S /\ \A x \in DOMAIN owner' : owner'[x] = owner[x]
    BY <1>1
<1>3. \A c \in Askers : op[c].claims \subseteq DOMAIN owner'
    BY <1>1, <1>2 DEF RecordsInv, RequestOK, Records!Claimed
<1>4. DOMAIN stage' = Emissions /\ DOMAIN pick' = Emissions /\ DOMAIN owner' \subseteq Emissions
    BY <1>1, <1>2 DEF RecordsInv, RecordTypes
<1>5. \A x \in DOMAIN owner' : stage'[x] # "new" /\ owner'[x] \in Records!Rows \cup {Records!None}
    BY <1>1, <1>2 DEF RecordsInv, Owners
<1>6. \A x \in DOMAIN owner' \ missed' : owner'[x] # Records!None /\ ~Untouched(x)' =>
          x \in DOMAIN owner \ missed /\ owner[x] = owner'[x] /\ ~Untouched(x)
    BY <1>1, <1>2 DEF Untouched
<1>7. QED
    BY <1>1, <1>3, <1>4, <1>5, <1>6, EmissionSteps

\* Emitters go, and with them some of their emissions.
LEMMA RowsGo ==
    ASSUME RecordsInv, NEW S, \A x \in S : ~Records!Pinned(x),
           emitter' = [x \in EmitterIds |-> IF x \in S /\ x \in Records!Rows THEN Records!Gone ELSE emitter[x]],
           DOMAIN owner' \subseteq DOMAIN owner, \A c \in Askers : op[c].claims \subseteq DOMAIN owner',
           \A e \in DOMAIN owner' : owner'[e] = IF owner[e] \in S THEN Records!None ELSE owner[e],
           UNCHANGED <<stage, pick, missed, op>>
    PROVE  RecordsInv'
<1>1. \A x \in EmitterIds : IF x \in S /\ x \in Records!Rows THEN emitter'[x] = Records!Gone ELSE emitter'[x] = emitter[x]
    OBVIOUS
<1>2. RecordTypes'
    BY <1>1 DEF RecordsInv, RecordTypes
<1>3. Records!Rows' = Records!Rows \ S
    BY <1>1, NoRows, RowsAre DEF Records!Rows, RecordsInv
<1>4. Owners'
    BY <1>3 DEF RecordsInv, Owners
<1>7. Covered'
    BY <1>1, RowsAre DEF RecordsInv, Covered, Owners, Untouched
<1>8. ASSUME NEW d \in Askers PROVE RequestOK(d)'
    <2>1. RequestOK(d)
        BY DEF RecordsInv
    <2>2. op[d].claims # {} /\ ~op[d].fresh => op[d].m \in Records!Rows'
        BY <1>3, <2>1 DEF RequestOK, Records!Pinned
    <2>3. Reserves(op[d]) => emitter'[op[d].m] = Records!NoRow /\ \A x \in Askers \ {d} : op'[x].m # op[d].m
        <3>1. Reserves(op[d]) => op[d].m \in EmitterIds /\ op[d].m \notin Records!Rows
            BY <2>1, RowsAre DEF RequestOK, Reserves, RecordsInv
        <3>2. QED
            BY <1>1, <2>1, <3>1 DEF RequestOK
    <2>4. op[d].stage = "commit" => \A e \in DOMAIN owner' \ missed' : owner'[e] = op[d].m /\ ~Untouched(e)' =>
                                        Within(ObservedAt[e], op[d].first, op[d].last)
        <3>1. op[d].stage = "commit" => op[d].m # Records!None
            BY <2>1, NoneIsNoId DEF RequestOK
        <3>2. QED
            BY <2>1, <3>1 DEF RequestOK, Untouched
    <2>5. QED
        BY <2>1, <2>2, <2>3, <2>4, RequestWaits
<1>9. QED
    BY <1>2, <1>4, <1>7, <1>8 DEF RecordsInv

LEMMA DeleteEmittersSteps ==
    ASSUME RecordsInv, NEW S, Records!DeleteEmitters(S)
    PROVE  RecordsInv'
<1>1. /\ \A x \in S : ~Records!Pinned(x)
      /\ S \subseteq Records!Rows
      /\ emitter' = [x \in EmitterIds |-> IF x \in S THEN Records!Gone ELSE emitter[x]]
      /\ owner' = [e \in DOMAIN owner |-> IF owner[e] \in S THEN Records!None ELSE owner[e]]
      /\ UNCHANGED <<stage, pick, missed, op>>
    BY DEF Records!DeleteEmitters, Records!ingest, Records!history, Records!Stored
<1>2. emitter' = [x \in EmitterIds |-> IF x \in S /\ x \in Records!Rows THEN Records!Gone ELSE emitter[x]]
    BY <1>1
<1>3. DOMAIN owner' = DOMAIN owner
      /\ \A e \in DOMAIN owner' : owner'[e] = IF owner[e] \in S THEN Records!None ELSE owner[e]
    BY <1>1
<1>4. \A c \in Askers : op[c].claims \subseteq DOMAIN owner'
    BY <1>3 DEF RecordsInv, RequestOK
<1>5. QED
    BY <1>1, <1>2, <1>3, <1>4, RowsGo

LEMMA SweepEndSteps ==
    ASSUME RecordsInv, Records!SweepEnd
    PROVE  RecordsInv'
<1>1. PICK dead : /\ dead = {e \in sweep.saw \cap DOMAIN owner : owner[e] \in sweep.hit}
                  /\ {e \in DOMAIN owner : owner[e] \in sweep.hit} \cap Records!Claimed = {}
                  /\ owner' = [e \in DOMAIN owner \ dead |-> IF owner[e] \in sweep.hit THEN Records!None ELSE owner[e]]
    BY DEF Records!SweepEnd, Records!Stored
<1>2. /\ \A x \in sweep.hit : ~Records!Pinned(x)
      /\ emitter' = [x \in EmitterIds |-> IF x \in sweep.hit /\ x \in Records!Rows THEN Records!Gone ELSE emitter[x]]
      /\ UNCHANGED <<stage, pick, missed, op>>
    BY DEF Records!SweepEnd, Records!ingest
<1>3. \A c \in Askers : op[c].claims \subseteq Records!Claimed
    BY DEF Records!Claimed
<1>4. \A c \in Askers : op[c].claims \subseteq DOMAIN owner'
    BY <1>1, <1>3 DEF RecordsInv, RequestOK
<1>5. /\ DOMAIN owner' \subseteq DOMAIN owner
      /\ \A e \in DOMAIN owner' : owner'[e] = IF owner[e] \in sweep.hit THEN Records!None ELSE owner[e]
    BY <1>1
<1>6. QED
    BY <1>2, <1>4, <1>5, RowsGo

LEMMA NoRowChangesSteps ==
    ASSUME RecordsInv, Records!SweepBegin \/ \E s \in Sources : Records!Consent(s)
    PROVE  RecordsInv'
<1>1. UNCHANGED <<emitter, owner, stage, pick, missed, op>>
    BY DEF Records!SweepBegin, Records!Consent, Records!ingest, Records!history, Records!tables
<1>2. QED
    BY <1>1 DEF RecordsInv, RecordTypes, Owners, Covered, RequestOK,
                Records!Rows, Untouched, Reserves

LEMMA DeleteEntitiesSteps ==
    ASSUME RecordsInv, NEW S, Records!DeleteEntities(S)
    PROVE  RecordsInv'
<1>1. /\ emitter' = [x \in EmitterIds |-> IF x \in Records!Rows /\ emitter[x].entity \in S
                                          THEN [emitter[x] EXCEPT !.entity = Records!None] ELSE emitter[x]]
      /\ UNCHANGED <<owner, stage, pick, missed, op>>
    BY DEF Records!DeleteEntities, Records!ingest, Records!history
<1>2. ASSUME NEW x \in EmitterIds
      PROVE  \/ emitter'[x] = emitter[x]
             \/ /\ IsRow(emitter[x]) /\ IsRow(emitter'[x])
                /\ emitter'[x].first = emitter[x].first /\ emitter'[x].last = emitter[x].last
    <2>1. CASE x \in Records!Rows /\ emitter[x].entity \in S
        <3>1. IsRow(emitter[x])
            BY <2>1, RowsAre DEF RecordsInv
        <3>2. emitter'[x] = [emitter[x] EXCEPT !.entity = Records!None]
            BY <1>1, <2>1
        <3>3. QED
            BY <3>1, <3>2 DEF IsRow, RowFields
    <2>2. CASE ~(x \in Records!Rows /\ emitter[x].entity \in S)
        BY <1>1, <2>2
    <2>3. QED
        BY <2>1, <2>2
<1>3. DOMAIN emitter' = EmitterIds
    BY <1>1
<1>4. Records!Rows' = Records!Rows
    BY <1>2 DEF Records!Rows, IsRow
<1>5. RecordTypes' /\ Owners'
    BY <1>1, <1>2, <1>3, <1>4 DEF RecordsInv, RecordTypes, Owners
<1>6. \A x \in EmitterIds : (emitter'[x] = Records!NoRow <=> emitter[x] = Records!NoRow)
    BY <1>2, NoRows
<1>9. Covered'
    BY <1>1, <1>2, RowsAre DEF RecordsInv, Covered, Owners, Untouched
<1>10. ASSUME NEW d \in Askers PROVE RequestOK(d)'
    <2>1. RequestOK(d)
        BY DEF RecordsInv
    <2>2. Reserves(op[d]) => emitter'[op[d].m] = Records!NoRow /\ \A x \in Askers \ {d} : op'[x].m # op[d].m
        BY <1>1, <1>6, <2>1 DEF RequestOK, Reserves
    <2>3. QED
        BY <1>1, <1>4, <2>1, <2>2, RequestWaits DEF RequestOK, Untouched
<1>11. QED
    BY <1>5, <1>9, <1>10 DEF RecordsInv

LEMMA CommitAttachSteps ==
    ASSUME RecordsInv, NEW c \in Askers, Records!CommitAttach(c)
    PROVE  RecordsInv'
<1> DEFINE r == op[c]
           m == r.m
           written == m \in Records!Rows \/ r.fresh
<1>1. /\ r.stage = "commit" /\ UNCHANGED <<stage, pick>>
      /\ owner' = [e \in DOMAIN owner |-> IF e \in r.claims THEN m ELSE owner[e]]
      /\ missed' = (missed \cup r.claims) \ {e \in DOMAIN owner : /\ owner'[e] = m /\ Records!Holds(r, e)
                                                                  /\ ~Records!Overtaken(e, m, Askers \ {c})}
      /\ op' = [op EXCEPT ![c] = Records!Idle]
    BY DEF Records!CommitAttach, Records!Stored, Records!Answer, Records!Others
<1>2. /\ RequestOK(c) /\ m \in EmitterIds /\ IsWindow(r.first, r.last) /\ r.claims \subseteq DOMAIN owner
      /\ \A e \in r.claims : Within(ObservedAt[e], r.first, r.last)
      /\ \A e \in DOMAIN owner \ missed : owner[e] = m /\ ~Untouched(e) => Within(ObservedAt[e], r.first, r.last)
      /\ r.claims # {} => written
    BY <1>1 DEF RecordsInv, RequestOK
<1>3. /\ DOMAIN owner' = DOMAIN owner /\ \A e \in r.claims : owner'[e] = m
      /\ \A e \in DOMAIN owner \ r.claims : owner'[e] = owner[e] /\ (Untouched(e)' <=> Untouched(e))
    BY <1>1, <1>2 DEF Untouched
<1>4. DOMAIN op' = Askers /\ op'[c] = Records!Idle /\ \A d \in Askers \ {c} : op'[d] = op[d]
    BY <1>1 DEF RecordsInv, RecordTypes
<1>5. PICK row : row = IF r.fresh THEN Records!NewRow(r.entity, r.rule,
                                          Records!Attributes(Records!None, Records!None), Records!None)
                       ELSE emitter[m]
    OBVIOUS
<1>6. written => IsRow(row)
    BY <1>2, <1>5, RowsAre, NewRowIs DEF RecordsInv
<1>7. PICK new : new = [row EXCEPT !.first = r.first, !.last = r.last]
    OBVIOUS
<1>8. written => IsRow(new) /\ new.first = r.first /\ new.last = r.last
    BY <1>2, <1>6, <1>7 DEF IsRow, RowFields
<1>9. /\ DOMAIN emitter' = EmitterIds /\ \A x \in EmitterIds \ {m} : emitter'[x] = emitter[x]
      /\ emitter'[m] = IF written THEN new ELSE emitter[m]
    <2>1. CASE written
        <3>1. emitter' = [emitter EXCEPT ![m] = [row EXCEPT !.first = r.first, !.last = r.last]]
            <4>1. CASE r.fresh
                BY <1>5, <4>1 DEF Records!CommitAttach
            <4>2. CASE ~r.fresh
                BY <1>5, <2>1, <4>2 DEF Records!CommitAttach
            <4>3. QED
                BY <4>1, <4>2
        <3> HIDE DEF written
        <3>2. QED
            BY <1>2, <1>7, <2>1, <3>1 DEF RecordsInv, RecordTypes
    <2>2. CASE ~written
        BY <2>2 DEF Records!CommitAttach, RecordsInv, RecordTypes
    <2>3. QED
        BY <2>1, <2>2
<1>12. m \in Records!Rows => written
    OBVIOUS
<1> HIDE DEF written
<1>13. Records!Rows' = IF written THEN Records!Rows \cup {m} ELSE Records!Rows
    BY <1>2, <1>8, <1>9 DEF Records!Rows, IsRow
<1>14. RecordTypes'
    BY <1>1, <1>2, <1>3, <1>4, <1>8, <1>9 DEF RecordsInv, RecordTypes
<1>15. Owners'
    BY <1>1, <1>2, <1>3, <1>13 DEF RecordsInv, Owners
<1>16. ASSUME NEW e \in DOMAIN owner \ missed'
       PROVE  \/ /\ owner'[e] = m /\ Within(ObservedAt[e], r.first, r.last)
                 /\ ~Records!Overtaken(e, m, Askers \ {c})
              \/ e \notin missed \cup r.claims
    BY <1>1, <1>16 DEF Records!Holds, Within
<1>18. Covered'
    <2> SUFFICES ASSUME NEW e \in DOMAIN owner' \ missed', owner'[e] # Records!None, ~Untouched(e)'
                 PROVE  Within(ObservedAt[e], emitter'[owner'[e]].first, emitter'[owner'[e]].last)
        BY DEF Covered
    <2>1. CASE owner'[e] = m /\ Within(ObservedAt[e], r.first, r.last)
        <3>1. m \in Records!Rows'
            BY <1>15, <2>1 DEF Owners
        <3>2. written
            BY <1>12, <1>13, <3>1
        <3>3. QED
            BY <1>8, <1>9, <2>1, <3>2
    <2>2. CASE e \notin missed \cup r.claims /\ owner[e] = m
        <3>1. m \in Records!Rows /\ owner'[e] = m
            BY <1>3, <2>2 DEF RecordsInv, Owners
        <3>2. Within(ObservedAt[e], r.first, r.last)
            BY <1>2, <1>3, <2>2
        <3>3. QED
            BY <1>2, <1>8, <1>9, <1>12, <3>1, <3>2
    <2>3. CASE e \notin missed \cup r.claims /\ owner[e] # m
        <3>1. owner'[e] = owner[e] /\ owner[e] \in EmitterIds
            BY <1>3, <2>3, RowsAre DEF RecordsInv, Owners
        <3>2. Within(ObservedAt[e], emitter[owner[e]].first, emitter[owner[e]].last)
            BY <1>3, <2>3 DEF RecordsInv, Covered
        <3>3. QED
            BY <1>9, <2>3, <3>1, <3>2
    <2>4. QED
        BY <1>3, <1>16, <2>1, <2>2, <2>3
<1>19. ASSUME NEW d \in Askers \ {c} PROVE RequestOK(d)'
    <2>1. RequestOK(d)
        BY DEF RecordsInv
    <2>2. Reserves(op[d]) => emitter'[op[d].m] = Records!NoRow /\ \A x \in Askers \ {d} : op'[x].m # op[d].m
        BY <1>4, <1>9, <2>1, IdleAsk, NoneIsNoId DEF RequestOK, Reserves
    <2>3. ASSUME op[d].stage = "commit", NEW e \in DOMAIN owner' \ missed', owner'[e] = op[d].m, ~Untouched(e)'
          PROVE  Within(ObservedAt[e], op[d].first, op[d].last)
        <3>1. CASE owner'[e] = m /\ ~Records!Overtaken(e, m, Askers \ {c})
            BY <2>3, <3>1 DEF Records!Overtaken, Records!Holds, Within
        <3>2. CASE e \notin missed \cup r.claims
            BY <1>3, <2>1, <2>3, <3>2 DEF RequestOK
        <3>3. QED
            BY <1>3, <1>16, <2>3, <3>1, <3>2
    <2>4. op[d].claims # {} /\ ~op[d].fresh => op[d].m \in Records!Rows'
        BY <1>13, <2>1 DEF RequestOK
    <2>5. QED
        BY <1>3, <1>4, <2>1, <2>2, <2>3, <2>4, RequestWaits DEF RequestOK
<1>20. RequestOK(c)'
    BY <1>4, IdleAsk DEF RequestOK, Reserves
<1>21. QED
    BY <1>14, <1>15, <1>18, <1>19, <1>20 DEF RecordsInv

LEMMA RecordsMove == RecordsInv /\ Records!Next => RecordsInv'
<1> SUFFICES ASSUME RecordsInv, Records!Next PROVE RecordsInv'
    OBVIOUS
<1>1. {"entity_id", "match_enabled", "attributes"} = PatchFields
    BY DEF PatchFields
<1>2. QED
    BY <1>1, BeginRequests, BeginPatches, InsertEmitterSteps, UpdateRuleRowSteps, AttachSteps, ReadWindowSteps,
       CommitAttachSteps, PatchFieldSteps, FailedRequestSteps, DeleteEmittersSteps, DeleteEntitiesSteps,
       DeleteEmissionsSteps, AgentAttachSteps, AgentDetachSteps, NoRowChangesSteps, IngestSteps, TouchSteps, EnrichSteps, GetOrCreateSteps, SweepEndSteps
       DEF Records!Next

LEMMA RecordsStep == RecordsInv /\ [RecordsNext]_suiteVars => RecordsInv'
<1> SUFFICES ASSUME RecordsInv, [RecordsNext]_suiteVars PROVE RecordsInv'
    OBVIOUS
<1>1. CASE part = "records" /\ Records!Next
    BY <1>1, RecordsMove
<1>2. CASE UNCHANGED recordsVars
    BY <1>2, RecordsStutter
<1>3. QED
    BY <1>1, <1>2 DEF RecordsNext, suiteVars

\* The seen window of every emitter covers its emissions, in whatever order they came, were
\* claimed, moved by the agent and reassigned, however many requests, passes and sweeps meet;
\* but for those whose window a failure, a refresh or the agent has passed by and no backfill
\* has read since (repo/emitter.rs, repo/emission.rs).
THEOREM RecordsStayTrue == RecordsSpec => []RecordsFollowTheirSource
<1>1. RecordsInv => RecordsFollowTheirSource
    BY DEF RecordsInv, Covered, Untouched, Within, RecordsFollowTheirSource, Records!WindowCovers, Records!Stored,
           Records!Holds
<1>2. QED
    BY <1>1, RecordsInitially, RecordsStep, PTL DEF RecordsSpec
=============================================================================
