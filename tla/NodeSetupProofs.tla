-------------------------- MODULE NodeSetupProofs --------------------------
(***************************************************************************)
(* Theorems about NodeSetup, for every number of clients, passwords and     *)
(* field values, every limit and every number of requests and faults.       *)
(***************************************************************************)
EXTENDS NodeSetup, FiniteSetTheorems, TLAPS

\* What a request carries once it has been checked may be stored: a setup a password and
\* a valid configuration, a patch a valid configuration in place of another.
RequestIsSound(o, cfg) ==
    /\ o.call = "setup" =>
          /\ o.pw \in Passwords /\ o.node \in Config
          /\ o.stage \in {"permit", "hash", "write"} => Valid(o.node)
    /\ o.call = "patch" =>
          /\ o.patch \in Patch /\ cfg # None
          /\ o.stage = "write" => o.node \in Config /\ Valid(o.node)

RequestsAreSound == \A c \in Clients : RequestIsSound(op[c], config)

\* The inductive invariant behind the theorems about what is stored.
SetupInv == TypeOK /\ ConfigIsValid /\ RequestsAreSound

-----------------------------------------------------------------------------
(* What the helpers return. *)

LEMMA IdleType == Idle \in Op /\ Idle.stage = "idle" /\ Idle.call = "none"
    BY DEF Idle, Op

\* A patch of a configuration is a configuration, valid or not.
LEMMA MergedType ==
    ASSUME NEW c \in Config, NEW p \in Patch
    PROVE  Merged(c, p) \in Config
    <1> DEFINE cur == IF c.sensor = None THEN [host |-> Empty, key |-> Empty] ELSE c.sensor
               role == Over(p.role, c.role)
               block == [host |-> Over(p.host, cur.host), key |-> Over(p.key, cur.key)]
    <1>1. role \in Roles
        BY DEF Over, Config, Patch
    <1>2. cur \in Block
        BY DEF Config, Block, Fields
    <1>3. Over(p.host, cur.host) \in Fields /\ Over(p.key, cur.key) \in Fields
        BY <1>2 DEF Over, Patch, Block
    <1>4. block \in Block
        BY <1>3 DEF Block
    <1>5. c.sensor \in Block \cup {None}
        BY DEF Config
    <1>6. QED
        BY <1>1, <1>4, <1>5 DEF Merged, Config

\* Replacing one request by another, with its permit, keeps the requests well-typed.
LEMMA RequestUpdate ==
    ASSUME TypeOK, NEW c \in Clients, NEW o \in Op, op' = [op EXCEPT ![c] = o],
           permits' \subseteq Clients,
           o.stage = "hash" <=> c \in permits',
           \A d \in Clients \ {c} : d \in permits' <=> d \in permits
    PROVE  /\ op' \in [Clients -> Op]
           /\ \A d \in Clients : op'[d].stage = "hash" <=> d \in permits'
    BY DEF TypeOK

\* The other requests stay sound as long as a configuration does not go.
LEMMA SoundUpdate ==
    ASSUME SetupInv, NEW c \in Clients, NEW o, op' = [op EXCEPT ![c] = o],
           config # None => config' # None, RequestIsSound(o, config')
    PROVE  RequestsAreSound'
    <1> SUFFICES ASSUME NEW d \in Clients PROVE RequestIsSound(op'[d], config')
        BY DEF RequestsAreSound
    <1>1. CASE d = c
        BY <1>1 DEF SetupInv, TypeOK
    <1>2. CASE d # c
        BY <1>2 DEF SetupInv, TypeOK, RequestsAreSound, RequestIsSound
    <1>3. QED
        BY <1>1, <1>2

\* A step of one request that stores nothing.
LEMMA RequestStep ==
    ASSUME SetupInv, NEW c \in Clients, NEW o \in Op, op' = [op EXCEPT ![c] = o],
           RequestIsSound(o, config'), UNCHANGED <<stored, token, mode>>,
           o.stage = "hash" <=> c \in permits',
           \A d \in Clients \ {c} : d \in permits' <=> d \in permits,
           permits' \subseteq hashing', hashing' \subseteq Clients, failures' \in Nat,
           cancelled' \in BOOLEAN, requests' \in 0..MaxRequests, faults' \in 0..MaxFaults
    PROVE  SetupInv'
    <1>1. /\ op' \in [Clients -> Op]
          /\ \A d \in Clients : op'[d].stage = "hash" <=> d \in permits'
        BY RequestUpdate DEF SetupInv
    <1>2. RequestsAreSound'
        BY SoundUpdate DEF stored
    <1>3. ConfigIsValid'
        BY DEF SetupInv, ConfigIsValid, stored
    <1>4. TypeOK'
        BY <1>1 DEF SetupInv, TypeOK, stored
    <1>5. QED
        BY <1>2, <1>3, <1>4 DEF SetupInv

\* A request that is made.
LEMMA RequestMade ==
    ASSUME SetupInv, NEW c \in Clients, NEW o \in Op, Request(c, o), o.stage # "hash",
           RequestIsSound(o, config'), UNCHANGED <<stored, token, mode, failures, hash, faults, cancelled>>
    PROVE  SetupInv'
    <1>1. /\ c \notin permits /\ UNCHANGED <<permits, hashing>>
          /\ permits \subseteq hashing /\ hashing \subseteq Clients
          /\ failures \in Nat /\ cancelled \in BOOLEAN /\ faults \in 0..MaxFaults
        BY DEF Request, SetupInv, TypeOK, hash
    <1>2. requests' \in 0..MaxRequests
        BY NodeAssumption DEF Request, SetupInv, TypeOK
    <1>3. op' = [op EXCEPT ![c] = o]
        BY DEF Request
    <1>4. QED
        BY <1>1, <1>2, <1>3, RequestStep

\* A step of a request that holds no permit, before and after.
LEMMA RequestMoves ==
    ASSUME SetupInv, NEW c \in Clients, NEW o \in Op, op' = [op EXCEPT ![c] = o],
           op[c].stage # "hash", o.stage # "hash", RequestIsSound(o, config'),
           failures' \in Nat, UNCHANGED <<stored, token, mode, hash, requests, faults, cancelled>>
    PROVE  SetupInv'
    <1>1. /\ c \notin permits /\ UNCHANGED <<permits, hashing>>
          /\ permits \subseteq hashing /\ hashing \subseteq Clients
          /\ cancelled \in BOOLEAN /\ faults \in 0..MaxFaults /\ requests \in 0..MaxRequests
        BY DEF SetupInv, TypeOK, hash
    <1>2. QED
        BY <1>1, RequestStep

-----------------------------------------------------------------------------
(* The invariant is inductive. *)

LEMMA InitSetup == Init => SetupInv
    <1> SUFFICES ASSUME Init PROVE SetupInv
        OBVIOUS
    <1>0. \A c \in Clients : op[c] = Idle
        BY DEF Init
    <1>a. op \in [Clients -> Op]
        BY IdleType DEF Init
    <1>b. \A c \in Clients : op[c].stage = "hash" <=> c \in permits
        BY <1>0, IdleType DEF Init
    <1>c. 0 \in 0..MaxRequests /\ 0 \in 0..MaxFaults
        BY NodeAssumption
    <1>1. TypeOK
        BY <1>a, <1>b, <1>c DEF Init, TypeOK
    <1>2. RequestsAreSound
        BY IdleType DEF Init, RequestsAreSound, RequestIsSound
    <1>3. QED
        BY <1>1, <1>2 DEF Init, SetupInv, ConfigIsValid

\* Requests come in.
LEMMA SetupMade ==
    ASSUME SetupInv, NEW c \in Clients, NEW pw \in Passwords, NEW node \in Payloads,
           NEW knows \in BOOLEAN, Setup(c, pw, node, knows)
    PROVE  SetupInv'
    <1> DEFINE o == [Idle EXCEPT !.call = "setup", !.stage = "check", !.pw = pw, !.node = node]
    <1>1. node \in Config
        BY DEF Payloads, Config, Roles
    <1>2. o \in Op /\ o.call = "setup" /\ o.stage = "check" /\ o.pw = pw /\ o.node = node
        BY <1>1 DEF Idle, Op
    <1>3. RequestIsSound(o, config')
        BY <1>1, <1>2 DEF RequestIsSound
    <1>4. QED
        BY <1>2, <1>3, RequestMade DEF Setup, hash

LEMMA LoginMade ==
    ASSUME SetupInv, NEW c \in Clients, NEW right \in BOOLEAN, Login(c, right)
    PROVE  SetupInv'
    <1> DEFINE o == [Idle EXCEPT !.call = "login", !.stage = "check", !.right = right]
    <1>1. o \in Op /\ o.call = "login" /\ o.stage = "check"
        BY DEF Idle, Op
    <1>2. RequestIsSound(o, config')
        BY <1>1 DEF RequestIsSound
    <1>3. QED
        BY <1>1, <1>2, RequestMade DEF Login

LEMMA PatchMade ==
    ASSUME SetupInv, NEW c \in Clients, NEW p \in Patch, PatchConfig(c, p)
    PROVE  SetupInv'
    <1> DEFINE o == [Idle EXCEPT !.call = "patch", !.stage = "check", !.patch = p]
    <1>1. o \in Op /\ o.call = "patch" /\ o.stage = "check" /\ o.patch = p
        BY DEF Idle, Op
    <1>2. RequestIsSound(o, config')
        BY <1>1 DEF RequestIsSound, PatchConfig, stored
    <1>3. QED
        BY <1>1, <1>2, RequestMade DEF PatchConfig

\* A request moves on.

\* A request in another stage.
LEMMA StageMoves ==
    ASSUME NEW o \in Op,
           NEW s \in {"idle", "check", "permit", "hash", "write", "verdict"}
    PROVE  LET m == [o EXCEPT !.stage = s]
           IN  /\ m \in Op /\ m.stage = s /\ m.call = o.call /\ m.pw = o.pw /\ m.node = o.node
               /\ m.patch = o.patch
    BY DEF Op

\* What is known of a client's request.
LEMMA RequestType ==
    ASSUME SetupInv, NEW c \in Clients
    PROVE  /\ op[c] \in Op /\ RequestIsSound(op[c], config)
           /\ op[c].stage = "hash" <=> c \in permits
    BY DEF SetupInv, TypeOK, RequestsAreSound

LEMMA GoUpdates ==
    ASSUME NEW c, NEW s, Go(c, s)
    PROVE  op' = [op EXCEPT ![c] = [op[c] EXCEPT !.stage = s]]
    BY DEF Go

\* A request that is answered is sound.
LEMMA IdleIsSound == RequestIsSound(Idle, config')
    BY IdleType DEF RequestIsSound

LEMMA UnsetChecked ==
    ASSUME SetupInv, NEW c \in Clients, CheckUnset(c)
    PROVE  SetupInv'
    <1>1. op[c] \in Op /\ op[c].call = "setup" /\ op[c].stage = "check" /\ RequestIsSound(op[c], config)
        BY RequestType DEF CheckUnset, At
    <1>2. UNCHANGED <<stored, token, mode, hash, requests, faults, cancelled, failures>>
        BY DEF CheckUnset
    <1>2a. failures' \in Nat
        BY <1>2 DEF SetupInv, TypeOK
    <1>3. CASE password # None \/ ~Valid(op[c].node)
        <2>1. op' = [op EXCEPT ![c] = Idle]
            BY <1>3 DEF CheckUnset, Answer
        <2>2. QED
            BY <1>1, <1>2, <1>2a, <2>1, IdleType, IdleIsSound, RequestMoves
    <1>4. CASE password = None /\ Valid(op[c].node)
        <2> DEFINE o == [op[c] EXCEPT !.stage = "permit"]
        <2>1. op' = [op EXCEPT ![c] = o]
            BY <1>4, GoUpdates DEF CheckUnset
        <2>2. o \in Op /\ o.call = "setup" /\ o.stage = "permit" /\ o.pw = op[c].pw /\ o.node = op[c].node
            BY <1>1, StageMoves
        <2>3. RequestIsSound(o, config')
            BY <1>1, <1>4, <2>2 DEF RequestIsSound
        <2>4. QED
            BY <1>1, <1>2, <1>2a, <2>1, <2>2, <2>3, RequestMoves
    <1>5. QED
        BY <1>3, <1>4

\* Only a first setup stores anything, and what it stores is valid.
LEMMA SetupCompleted ==
    ASSUME SetupInv, NEW c \in Clients, CompleteSetup(c)
    PROVE  SetupInv'
    <1>1. /\ op[c] \in Op /\ op[c].call = "setup" /\ op[c].stage = "write" /\ RequestIsSound(op[c], config)
          /\ c \notin permits
        BY RequestType DEF CompleteSetup, At
    <1>2. op' = [op EXCEPT ![c] = Idle]
        BY DEF CompleteSetup, Answer
    <1>3. UNCHANGED <<permits, hashing, failures, mode, requests, faults, cancelled>>
        BY DEF CompleteSetup, hash
    <1>4. /\ op' \in [Clients -> Op]
          /\ \A d \in Clients : op'[d].stage = "hash" <=> d \in permits'
        BY <1>1, <1>2, <1>3, IdleType, RequestUpdate DEF SetupInv, TypeOK
    <1>5. CASE password = None
        <2>1. password' = op[c].pw /\ config' = op[c].node /\ token' = FALSE
            BY <1>5 DEF CompleteSetup
        <2>2. password' \in Passwords /\ config' \in Config /\ Valid(config')
            BY <1>1, <2>1 DEF RequestIsSound
        <2>3. password' # None /\ config' # None
            BY <2>2, NodeAssumption
        <2>4. TypeOK'
            BY <1>3, <1>4, <2>1, <2>2 DEF SetupInv, TypeOK
        <2>5. RequestsAreSound'
            BY <1>2, <2>3, IdleIsSound, SoundUpdate
        <2>6. QED
            BY <2>2, <2>3, <2>4, <2>5 DEF SetupInv, ConfigIsValid
    <1>6. CASE password # None
        <2>1. UNCHANGED <<password, config, token>>
            BY <1>6 DEF CompleteSetup
        <2>2. TypeOK'
            BY <1>3, <1>4, <2>1 DEF SetupInv, TypeOK
        <2>3. RequestsAreSound'
            BY <1>2, <2>1, IdleIsSound, SoundUpdate
        <2>4. QED
            BY <2>1, <2>2, <2>3 DEF SetupInv, ConfigIsValid
    <1>7. QED
        BY <1>5, <1>6

LEMMA HashRead ==
    ASSUME SetupInv, NEW c \in Clients, ReadHash(c)
    PROVE  SetupInv'
    <1>1. op[c] \in Op /\ op[c].call = "login" /\ op[c].stage = "check"
        BY RequestType DEF ReadHash, At
    <1>2. UNCHANGED <<stored, token, mode, hash, requests, faults, cancelled, failures>>
        BY DEF ReadHash
    <1>3. failures' \in Nat
        BY <1>2 DEF SetupInv, TypeOK
    <1>4. PICK o \in Op : /\ op' = [op EXCEPT ![c] = o]
                          /\ o.call = "login" /\ o.stage # "hash"
        <2>1. CASE op' = [op EXCEPT ![c].stage = "verdict", ![c].right = FALSE]
            <3> DEFINE o == [op[c] EXCEPT !.stage = "verdict", !.right = FALSE]
            <3>1. o \in Op /\ o.call = "login" /\ o.stage = "verdict"
                BY <1>1 DEF Op
            <3>2. op' = [op EXCEPT ![c] = o]
                BY <2>1, <1>1 DEF SetupInv, TypeOK
            <3>3. QED
                BY <3>1, <3>2
        <2>2. ASSUME NEW s \in {"permit", "verdict"}, Go(c, s)
              PROVE  \E o \in Op : /\ op' = [op EXCEPT ![c] = o]
                                   /\ o.call = "login" /\ o.stage # "hash"
            <3> DEFINE m == [op[c] EXCEPT !.stage = s]
            <3>1. m \in Op /\ m.stage = s /\ m.call = "login"
                BY <1>1 DEF Op
            <3>2. op' = [op EXCEPT ![c] = m]
                BY <2>2, GoUpdates
            <3>3. QED
                BY <3>1, <3>2
        <2>3. QED
            BY <2>1, <2>2 DEF ReadHash
    <1>5. RequestIsSound(o, config')
        BY <1>4 DEF RequestIsSound
    <1>6. QED
        BY <1>1, <1>2, <1>3, <1>4, <1>5, RequestMoves

LEMMA VerdictGiven ==
    ASSUME SetupInv, NEW c \in Clients, Verdict(c)
    PROVE  SetupInv'
    <1>1. op[c].stage = "verdict" /\ op' = [op EXCEPT ![c] = Idle]
        BY DEF Verdict, At, Answer
    <1>2. failures' \in Nat
        BY DEF Verdict, SetupInv, TypeOK
    <1>3. UNCHANGED <<stored, token, mode, hash, requests, faults, cancelled>>
        BY DEF Verdict
    <1>4. QED
        BY <1>1, <1>2, <1>3, IdleType, IdleIsSound, RequestMoves

LEMMA PermitAcquired ==
    ASSUME SetupInv, NEW c \in Clients, AcquirePermit(c)
    PROVE  SetupInv'
    <1> DEFINE o == [op[c] EXCEPT !.stage = "hash"]
    <1>1. op[c] \in Op /\ op[c].stage = "permit" /\ RequestIsSound(op[c], config)
        BY RequestType DEF AcquirePermit
    <1>2. /\ o \in Op /\ o.stage = "hash" /\ o.call = op[c].call /\ o.pw = op[c].pw
          /\ o.node = op[c].node /\ o.patch = op[c].patch
        BY <1>1, StageMoves
    <1>3. op' = [op EXCEPT ![c] = o]
        BY GoUpdates DEF AcquirePermit
    <1>4. UNCHANGED <<stored, token, mode, failures, requests, faults, cancelled>>
        BY DEF AcquirePermit
    <1>5. RequestIsSound(o, config')
        BY <1>1, <1>2, <1>4 DEF RequestIsSound, stored
    <1>6. /\ permits' = permits \cup {c} /\ hashing' = hashing \cup {c}
          /\ permits' \subseteq hashing' /\ hashing' \subseteq Clients
        BY DEF AcquirePermit, SetupInv, TypeOK
    <1>7. /\ failures' \in Nat /\ cancelled' \in BOOLEAN /\ requests' \in 0..MaxRequests
          /\ faults' \in 0..MaxFaults
        BY <1>4 DEF SetupInv, TypeOK
    <1>8. QED
        BY <1>2, <1>3, <1>4, <1>5, <1>6, <1>7, RequestStep

LEMMA HashComputed ==
    ASSUME SetupInv, NEW c \in Clients, HashDone(c)
    PROVE  SetupInv'
    <1>1. /\ op[c] \in Op /\ RequestIsSound(op[c], config)
          /\ op[c].stage = "hash" <=> c \in permits
        BY RequestType
    <1>2. UNCHANGED <<stored, token, mode, failures, requests, faults, cancelled>>
        BY DEF HashDone
    <1>3. /\ permits' = permits \ {c} /\ hashing' = hashing \ {c}
          /\ permits' \subseteq hashing' /\ hashing' \subseteq Clients
        BY DEF HashDone, SetupInv, TypeOK
    <1>4. /\ failures' \in Nat /\ cancelled' \in BOOLEAN /\ requests' \in 0..MaxRequests
          /\ faults' \in 0..MaxFaults
        BY <1>2 DEF SetupInv, TypeOK
    <1>5. CASE op[c].stage = "hash"
        <2> DEFINE s == IF op[c].call = "setup" THEN "write" ELSE "verdict"
                   o == [op[c] EXCEPT !.stage = s]
        <2>1. op' = [op EXCEPT ![c] = o]
            BY <1>5, GoUpdates DEF HashDone
        <2>2. /\ o \in Op /\ o.stage = s /\ o.call = op[c].call /\ o.pw = op[c].pw
              /\ o.node = op[c].node /\ o.patch = op[c].patch
            BY <1>1 DEF Op
        <2>3. o.stage # "hash" /\ (o.call # "setup" => o.stage # "write")
            BY <2>2
        <2>4. RequestIsSound(o, config')
            BY <1>1, <1>2, <1>5, <2>2, <2>3 DEF RequestIsSound, stored
        <2> HIDE DEF s, o
        <2>5. QED
            BY <1>2, <1>3, <1>4, <2>1, <2>2, <2>3, <2>4, RequestStep
    <1>6. CASE op[c].stage # "hash"
        <2>1. UNCHANGED op /\ permits' = permits
            BY <1>1, <1>3, <1>6 DEF HashDone
        <2>2. TypeOK'
            BY <1>2, <1>3, <1>4, <2>1 DEF SetupInv, TypeOK, stored
        <2>3. RequestsAreSound'
            BY <1>2, <2>1 DEF SetupInv, RequestsAreSound, RequestIsSound, stored
        <2>4. QED
            BY <1>2, <2>2, <2>3 DEF SetupInv, ConfigIsValid, stored
    <1>7. QED
        BY <1>5, <1>6

LEMMA ConfigMerged ==
    ASSUME SetupInv, NEW c \in Clients, MergeConfig(c)
    PROVE  SetupInv'
    <1> DEFINE new == Merged(config, op[c].patch)
    <1>1. /\ op[c] \in Op /\ op[c].call = "patch" /\ op[c].stage = "check"
          /\ op[c].patch \in Patch /\ config # None
        BY RequestType DEF MergeConfig, At, RequestIsSound
    <1>2. UNCHANGED <<stored, token, mode, hash, requests, faults, cancelled, failures>>
        BY DEF MergeConfig
    <1>3. failures' \in Nat
        BY <1>2 DEF SetupInv, TypeOK
    <1>4. new \in Config
        BY <1>1, MergedType DEF SetupInv, TypeOK
    <1>5. CASE Valid(new)
        <2> DEFINE o == [op[c] EXCEPT !.stage = "write", !.node = new]
        <2>1. op' = [op EXCEPT ![c] = o]
            BY <1>5 DEF MergeConfig
        <2>2. /\ o \in Op /\ o.stage = "write" /\ o.call = "patch" /\ o.node = new
              /\ o.patch = op[c].patch
            BY <1>1, <1>4 DEF Op
        <2>3. RequestIsSound(o, config')
            BY <1>1, <1>2, <1>4, <1>5, <2>2 DEF RequestIsSound, stored
        <2>4. QED
            BY <1>1, <1>2, <1>3, <2>1, <2>2, <2>3, RequestMoves
    <1>6. CASE ~Valid(new)
        <2>1. op' = [op EXCEPT ![c] = Idle]
            BY <1>6 DEF MergeConfig, Answer
        <2>2. QED
            BY <1>1, <1>2, <1>3, <2>1, IdleType, IdleIsSound, RequestMoves
    <1>7. QED
        BY <1>5, <1>6

\* A patch replaces one configuration by another: setup is not undone.
LEMMA ConfigStored ==
    ASSUME SetupInv, NEW c \in Clients, StoreConfig(c)
    PROVE  SetupInv'
    <1>1. /\ op[c] \in Op /\ op[c].call = "patch" /\ op[c].stage = "write" /\ c \notin permits
          /\ op[c].node \in Config /\ Valid(op[c].node) /\ config # None
        BY RequestType DEF StoreConfig, At, RequestIsSound
    <1>2. op' = [op EXCEPT ![c] = Idle] /\ config' = op[c].node
        BY DEF StoreConfig, Answer
    <1>3. UNCHANGED <<password, token, permits, hashing, failures, mode, requests, faults, cancelled>>
        BY DEF StoreConfig, hash
    <1>4. /\ op' \in [Clients -> Op]
          /\ \A d \in Clients : op'[d].stage = "hash" <=> d \in permits'
        BY <1>1, <1>2, <1>3, IdleType, RequestUpdate DEF SetupInv, TypeOK
    <1>5. config' \in Config /\ config' # None /\ Valid(config')
        BY <1>1, <1>2, NodeAssumption
    <1>6. TypeOK'
        BY <1>3, <1>4, <1>5 DEF SetupInv, TypeOK
    <1>7. RequestsAreSound'
        BY <1>2, <1>5, IdleIsSound, SoundUpdate
    <1>8. ConfigIsValid'
        BY <1>1, <1>3, <1>5 DEF SetupInv, ConfigIsValid
    <1>9. QED
        BY <1>6, <1>7, <1>8 DEF SetupInv

LEMMA RequestCancelled ==
    ASSUME SetupInv, NEW c \in Clients, Cancel(c)
    PROVE  SetupInv'
    <1>1. /\ op' = [op EXCEPT ![c] = Idle] /\ permits' = permits \ {c} /\ hashing' = hashing
          /\ permits' \subseteq hashing' /\ hashing' \subseteq Clients
        BY DEF Cancel, Answer, SetupInv, TypeOK
    <1>2. UNCHANGED <<stored, token, mode>>
        BY DEF Cancel
    <1>3. /\ failures' \in Nat /\ cancelled' \in BOOLEAN /\ requests' \in 0..MaxRequests
          /\ faults' \in 0..MaxFaults
        BY NodeAssumption DEF Cancel, Fault, SetupInv, TypeOK
    <1>4. QED
        BY <1>1, <1>2, <1>3, IdleType, IdleIsSound, RequestStep

LEMMA NodeRestarted ==
    ASSUME SetupInv, Restart
    PROVE  SetupInv'
    <1>1. \A c \in Clients : op'[c] = Idle
        BY DEF Restart
    <1>2. op' \in [Clients -> Op]
        BY IdleType DEF Restart
    <1>3. permits' = {} /\ hashing' = {}
        BY DEF Restart
    <1>4. \A c \in Clients : op'[c].stage = "hash" <=> c \in permits'
        BY <1>1, <1>3, IdleType
    <1>5. /\ failures' \in Nat /\ cancelled' \in BOOLEAN /\ requests' \in 0..MaxRequests
          /\ faults' \in 0..MaxFaults /\ token' \in BOOLEAN /\ mode' \in BOOLEAN
        BY NodeAssumption DEF Restart, Fault, IsSensor, SetupInv, TypeOK
    <1>6. TypeOK'
        BY <1>2, <1>3, <1>4, <1>5 DEF Restart, stored, SetupInv, TypeOK
    <1>7. RequestsAreSound'
        BY <1>1, IdleType DEF RequestsAreSound, RequestIsSound
    <1>8. QED
        BY <1>6, <1>7 DEF Restart, stored, SetupInv, ConfigIsValid

LEMMA FailureExpired ==
    ASSUME SetupInv, Expire
    PROVE  SetupInv'
    <1>1. failures' \in Nat
        BY DEF Expire, SetupInv, TypeOK
    <1>2. UNCHANGED <<password, config, token, hashing, permits, mode, op, requests, faults, cancelled>>
        BY DEF Expire, stored, hash
    <1>3. QED
        BY <1>1, <1>2 DEF SetupInv, TypeOK, ConfigIsValid, RequestsAreSound, RequestIsSound

LEMMA RolePolled ==
    ASSUME SetupInv, PollRole
    PROVE  SetupInv'
    <1>1. mode' \in BOOLEAN
        BY DEF PollRole, IsSensor
    <1>2. UNCHANGED <<password, config, token, hashing, permits, failures, op, requests, faults, cancelled>>
        BY DEF PollRole, stored, hash
    <1>3. QED
        BY <1>1, <1>2 DEF SetupInv, TypeOK, ConfigIsValid, RequestsAreSound, RequestIsSound

LEMMA NextSetup == SetupInv /\ [Next]_vars => SetupInv'
    <1> SUFFICES ASSUME SetupInv, [Next]_vars PROVE SetupInv'
        OBVIOUS
    <1>1. ASSUME NEW c \in Clients, NEW pw \in Passwords, NEW node \in Payloads, NEW knows \in BOOLEAN,
                 Setup(c, pw, node, knows)
          PROVE  SetupInv'
        BY <1>1, SetupMade
    <1>2. ASSUME NEW c \in Clients, NEW right \in BOOLEAN, Login(c, right)
          PROVE  SetupInv'
        BY <1>2, LoginMade
    <1>3. ASSUME NEW c \in Clients, NEW p \in Patch, PatchConfig(c, p)
          PROVE  SetupInv'
        BY <1>3, PatchMade
    <1>4. ASSUME NEW c \in Clients, Step(c)
          PROVE  SetupInv'
        BY <1>4, UnsetChecked, SetupCompleted, HashRead, VerdictGiven, PermitAcquired, HashComputed,
           ConfigMerged, ConfigStored DEF Step
    <1>5. ASSUME NEW c \in Clients, Cancel(c)
          PROVE  SetupInv'
        BY <1>5, RequestCancelled
    <1>6. CASE Expire \/ PollRole \/ Restart
        BY <1>6, FailureExpired, RolePolled, NodeRestarted
    <1>7. CASE UNCHANGED vars
        BY <1>7 DEF vars, SetupInv, TypeOK, ConfigIsValid, RequestsAreSound, RequestIsSound
    <1>8. QED
        BY <1>1, <1>2, <1>3, <1>4, <1>5, <1>6, <1>7 DEF Next, Finished

-----------------------------------------------------------------------------
LEMMA SetupInvariant == Spec => []SetupInv
    BY InitSetup, NextSetup, PTL DEF Spec

\* Every variable keeps its type, and a permit belongs to a request that hashes, whatever
\* is cancelled or restarted.
THEOREM SetupTypeOK == Spec => []TypeOK
    <1>1. SetupInv => TypeOK
        BY DEF SetupInv
    <1>2. QED
        BY <1>1, SetupInvariant, PTL

\* However many setups and patches race, what is stored is valid, and there is a
\* configuration exactly when there is a password (patch_config, complete_setup).
THEOREM ConfigStaysValid == Spec => []ConfigIsValid
    <1>1. SetupInv => ConfigIsValid
        BY DEF SetupInv
    <1>2. QED
        BY <1>1, SetupInvariant, PTL

\* Of any number of concurrent setups one wins; its password is never replaced, and its
\* configuration comes with it (complete_setup).
THEOREM PasswordSetOnce == Spec => SetOnce
    <1> DEFINE Once == password' # password =>
                          /\ password = None /\ config = None
                          /\ \E c \in Clients : op[c].call = "setup" /\ op[c].pw = password'
                                                /\ op[c].node = config'
    <1>1. SetupInv /\ [Next]_vars => [Once]_vars
        <2> SUFFICES ASSUME SetupInv, Next, password' # password PROVE Once
            OBVIOUS
        <2>1. PICK c \in Clients : CompleteSetup(c)
            BY DEF Next, Step, Setup, Login, PatchConfig, CheckUnset, ReadHash, Verdict, AcquirePermit,
                   HashDone, MergeConfig, StoreConfig, Cancel, Expire, PollRole, Restart, Finished,
                   vars, stored
        <2>2. password = None /\ password' = op[c].pw /\ config' = op[c].node /\ op[c].call = "setup"
            BY <2>1 DEF CompleteSetup, At
        <2>3. config = None
            BY <2>2 DEF SetupInv, ConfigIsValid
        <2>4. QED
            BY <2>2, <2>3
    <1>2. QED
        BY <1>1, SetupInvariant, PTL DEF Spec, SetOnce

-----------------------------------------------------------------------------
(* The limits. *)

Logins == {c \in Clients : op[c].call = "login"}

\* Every login under way was let in below the limit and will count at most once: what is
\* counted and what is under way are bounded together.  Without cancelled requests the
\* hashes computed are those that hold a permit.
LimitInv ==
    /\ failures + Cardinality(Logins) < MaxAttempts + Cardinality(Clients)
    /\ Cardinality(permits) <= HashConcurrency
    /\ ~cancelled => hashing = permits

\* The sets that are counted are finite.
LEMMA LimitTypes ==
    ASSUME TypeOK
    PROVE  /\ IsFiniteSet(Clients) /\ IsFiniteSet(Logins) /\ IsFiniteSet(permits)
           /\ Cardinality(Clients) \in Nat /\ Cardinality(Logins) \in Nat
           /\ Cardinality(permits) \in Nat /\ Cardinality(Logins) <= Cardinality(Clients)
    <1>1. IsFiniteSet(Clients)
        BY NodeAssumption
    <1>2. Logins \subseteq Clients /\ permits \subseteq Clients
        BY DEF Logins, TypeOK
    <1>3. QED
        BY <1>1, <1>2, FS_Subset, FS_CardinalityType

LEMMA InitLimits == Init => LimitInv
    <1> SUFFICES ASSUME Init PROVE LimitInv
        OBVIOUS
    <1>1. Logins = {} /\ permits = {} /\ hashing = {} /\ failures = 0
        BY IdleType DEF Init, Logins
    <1>2. Cardinality(Logins) = 0 /\ Cardinality(permits) = 0
        BY <1>1, FS_EmptySet
    <1>3. Cardinality(Clients) \in Nat
        BY NodeAssumption, FS_CardinalityType
    <1>4. QED
        BY <1>1, <1>2, <1>3, NodeAssumption DEF LimitInv

\* Nobody logs in, and no permit is taken.
LEMMA LimitsKept ==
    ASSUME TypeOK, TypeOK', LimitInv, Logins' \subseteq Logins, failures' <= failures,
           permits' \subseteq permits, ~cancelled' => ~cancelled /\ hashing' = permits'
    PROVE  LimitInv'
    <1>1. Cardinality(Logins') <= Cardinality(Logins) /\ Cardinality(permits') <= Cardinality(permits)
        BY LimitTypes, FS_Subset
    <1>2. Cardinality(Logins') \in Nat /\ Cardinality(permits') \in Nat
        BY LimitTypes, FS_Subset, FS_CardinalityType
    <1>3. failures \in Nat /\ failures' \in Nat
        BY DEF TypeOK
    <1>4. failures' + Cardinality(Logins') < MaxAttempts + Cardinality(Clients)
        BY <1>1, <1>2, <1>3, LimitTypes, NodeAssumption DEF LimitInv
    <1>5. Cardinality(permits') <= HashConcurrency
        BY <1>1, <1>2, LimitTypes, NodeAssumption DEF LimitInv
    <1>6. QED
        BY <1>4, <1>5 DEF LimitInv

LEMMA NextLimits == SetupInv /\ SetupInv' /\ LimitInv /\ [Next]_vars => LimitInv'
    <1> SUFFICES ASSUME SetupInv, SetupInv', LimitInv, [Next]_vars PROVE LimitInv'
        OBVIOUS
    <1>1. TypeOK /\ TypeOK' /\ failures \in Nat
        BY DEF SetupInv, TypeOK
    <1>2. ASSUME NEW c \in Clients, NEW o, op' = [op EXCEPT ![c] = o], o.call = "login" => op[c].call = "login"
          PROVE  Logins' \subseteq Logins
        BY <1>1, <1>2 DEF Logins, TypeOK
    <1>3. ASSUME NEW c \in Clients, NEW right \in BOOLEAN, Login(c, right)
          PROVE  LimitInv'
        <2>1. failures < MaxAttempts /\ UNCHANGED <<failures, permits, hashing, cancelled>>
            BY <1>3 DEF Login, hash
        <2>2. Cardinality(Logins') <= Cardinality(Clients) /\ Cardinality(Logins') \in Nat
            BY <1>1, LimitTypes, NodeAssumption, FS_Subset, FS_CardinalityType DEF Logins
        <2>3. failures' + Cardinality(Logins') < MaxAttempts + Cardinality(Clients)
            BY <1>1, <2>1, <2>2, LimitTypes, NodeAssumption
        <2>4. QED
            BY <2>1, <2>3 DEF LimitInv
    <1>4. ASSUME NEW c \in Clients, NEW pw \in Passwords, NEW node \in Payloads, NEW knows \in BOOLEAN,
                 Setup(c, pw, node, knows)
          PROVE  LimitInv'
        <2>1. Logins' \subseteq Logins
            BY <1>4, <1>2 DEF Setup, Request, Idle
        <2>2. QED
            BY <1>1, <1>4, <2>1, LimitsKept DEF Setup, hash, LimitInv
    <1>5. ASSUME NEW c \in Clients, NEW p \in Patch, PatchConfig(c, p)
          PROVE  LimitInv'
        <2>1. Logins' \subseteq Logins
            BY <1>5, <1>2 DEF PatchConfig, Request, Idle
        <2>2. QED
            BY <1>1, <1>5, <2>1, LimitsKept DEF PatchConfig, hash, LimitInv
    <1>6. ASSUME NEW c \in Clients,
                 CheckUnset(c) \/ CompleteSetup(c) \/ ReadHash(c) \/ MergeConfig(c) \/ StoreConfig(c)
          PROVE  LimitInv'
        <2>1. op[c] \in Op
            BY RequestType
        <2>2. \E o \in Op : op' = [op EXCEPT ![c] = o] /\ (o.call = "login" => op[c].call = "login")
            <3>1. op'[c] \in Op /\ op' = [op EXCEPT ![c] = op'[c]]
                BY <1>1, <1>6 DEF TypeOK, CheckUnset, CompleteSetup, ReadHash, MergeConfig, StoreConfig,
                       Go, Answer
            <3>2. op'[c].call = "login" => op[c].call = "login"
                <4>1. CASE Answer(c)
                    BY <1>1, <4>1, IdleType DEF Answer, TypeOK
                <4>2. ASSUME NEW s, Go(c, s)
                      PROVE  op'[c].call = op[c].call
                    BY <1>1, <2>1, <4>2 DEF Go, TypeOK, Op
                <4>3. CASE op' = [op EXCEPT ![c].stage = "verdict", ![c].right = FALSE]
                    BY <1>1, <2>1, <4>3 DEF TypeOK, Op
                <4>4. CASE op' = [op EXCEPT ![c].stage = "write", ![c].node = Merged(config, op[c].patch)]
                    BY <1>1, <2>1, <4>4 DEF TypeOK, Op
                <4>5. QED
                    BY <1>6, <4>1, <4>2, <4>3, <4>4 DEF CheckUnset, CompleteSetup, ReadHash,
                       MergeConfig, StoreConfig
            <3>3. QED
                BY <3>1, <3>2
        <2>3. Logins' \subseteq Logins
            BY <2>2, <1>2
        <2>4. UNCHANGED <<failures, permits, hashing, cancelled>>
            BY <1>6 DEF CheckUnset, CompleteSetup, ReadHash, MergeConfig, StoreConfig, hash
        <2>5. QED
            BY <1>1, <2>3, <2>4, LimitsKept DEF LimitInv
    <1>7. ASSUME NEW c \in Clients, Verdict(c)
          PROVE  LimitInv'
        <2>1. c \in Logins /\ op' = [op EXCEPT ![c] = Idle]
            BY <1>7 DEF Verdict, At, Answer, Logins
        <2>2. Logins' = Logins \ {c}
            BY <1>1, <2>1, IdleType DEF Logins, TypeOK
        <2>3. Cardinality(Logins') = Cardinality(Logins) - 1
            BY <1>1, <2>1, <2>2, LimitTypes, FS_RemoveElement
        <2>4. failures' \in Nat /\ failures' <= failures + 1 /\ UNCHANGED <<permits, hashing, cancelled>>
            BY <1>1, <1>7 DEF Verdict, hash
        <2>5. failures' + Cardinality(Logins') < MaxAttempts + Cardinality(Clients)
            BY <1>1, <2>3, <2>4, LimitTypes, NodeAssumption DEF LimitInv
        <2>6. QED
            BY <2>4, <2>5 DEF LimitInv
    <1>8. ASSUME NEW c \in Clients, AcquirePermit(c)
          PROVE  LimitInv'
        <2>1. /\ permits' = permits \cup {c} /\ hashing' = hashing \cup {c}
              /\ Cardinality(permits) < HashConcurrency /\ UNCHANGED <<failures, cancelled>>
            BY <1>8 DEF AcquirePermit
        <2>2. Logins' = Logins
            BY <1>1, <1>8 DEF AcquirePermit, Go, Logins, TypeOK
        <2>3. Cardinality(permits') <= Cardinality(permits) + 1 /\ Cardinality(permits') \in Nat
            <3>1. Cardinality(permits \cup {c}) =
                      IF c \in permits THEN Cardinality(permits) ELSE Cardinality(permits) + 1
                BY <1>1, LimitTypes, FS_AddElement
            <3>2. Cardinality(permits) \in Nat
                BY <1>1, LimitTypes
            <3>3. QED
                BY <2>1, <3>1, <3>2
        <2>4. Cardinality(permits') <= HashConcurrency
            BY <1>1, <2>1, <2>3, LimitTypes, NodeAssumption
        <2>5. QED
            BY <2>1, <2>2, <2>4 DEF LimitInv
    <1>9. ASSUME NEW c \in Clients, HashDone(c)
          PROVE  LimitInv'
        <2>1. permits' = permits \ {c} /\ hashing' = hashing \ {c} /\ UNCHANGED <<failures, cancelled>>
            BY <1>9 DEF HashDone
        <2>2. Logins' = Logins
            <3>1. ASSUME NEW s, Go(c, s)
                  PROVE  Logins' = Logins
                BY <1>1, <3>1 DEF Go, Logins, TypeOK, Op
            <3>2. CASE UNCHANGED op
                BY <3>2 DEF Logins
            <3>3. QED
                BY <1>9, <3>1, <3>2 DEF HashDone
        <2>3. QED
            BY <1>1, <2>1, <2>2, LimitsKept DEF LimitInv
    <1>10. ASSUME NEW c \in Clients, Cancel(c)
           PROVE  LimitInv'
        <2>1. permits' = permits \ {c} /\ cancelled' = TRUE /\ failures' = failures
            BY <1>10 DEF Cancel
        <2>2. Logins' \subseteq Logins
            BY <1>10, <1>2, IdleType DEF Cancel, Answer
        <2>3. QED
            BY <1>1, <2>1, <2>2, LimitsKept
    <1>11. CASE Expire \/ PollRole \/ UNCHANGED vars
        <2>1. Logins' = Logins /\ failures' <= failures /\ UNCHANGED <<permits, hashing, cancelled>>
            BY <1>1, <1>11 DEF Expire, PollRole, vars, hash, Logins
        <2>2. QED
            BY <1>1, <2>1, LimitsKept DEF LimitInv
    <1>12. CASE Restart
        <2>1. Logins' = {} /\ failures' = 0 /\ permits' = {} /\ hashing' = {} /\ UNCHANGED cancelled
            BY <1>12, IdleType DEF Restart, Logins
        <2>2. QED
            BY <1>1, <2>1, LimitsKept DEF LimitInv
    <1>13. QED
        BY <1>3, <1>4, <1>5, <1>6, <1>7, <1>8, <1>9, <1>10, <1>11, <1>12 DEF Next, Step, Finished

\* Whatever comes at once, the limiter's window never takes more failures than its limit
\* and the requests under way allow, no more permits are out than there are, and without
\* a cancelled request no more hashes are computed than that (auth_routes.rs, is_limited;
\* state.rs, HASH_CONCURRENCY).
THEOREM LimitsAreKept == Spec => []LimitsHold
    <1>1. SetupInv /\ LimitInv => LimitsHold
        <2> SUFFICES ASSUME SetupInv, LimitInv PROVE LimitsHold
            OBVIOUS
        <2>1. TypeOK /\ failures \in Nat
            BY DEF SetupInv, TypeOK
        <2>2. AttemptsBounded
            BY <2>1, LimitTypes, NodeAssumption DEF AttemptsBounded, LimitInv
        <2>3. HashesCapped
            BY DEF HashesCapped, LimitInv
        <2>4. QED
            BY <2>2, <2>3 DEF LimitsHold
    <1>2. QED
        BY <1>1, InitSetup, NextSetup, InitLimits, NextLimits, PTL DEF Spec
=============================================================================
