------------------------------ MODULE NodeSetup ------------------------------
(***************************************************************************)
(* First-run setup, login and the configuration of a node                  *)
(* (fluxfang-api/src/auth_routes.rs, config_routes.rs, state.rs, main.rs,   *)
(* repo/app_config.rs).  HTTP requests run concurrently, each one statement *)
(* of the database at a time, and share a limiter of failed logins and the  *)
(* permits for hashing; a poller keeps the capture pipeline in step with    *)
(* the role that is stored.                                                 *)
(*                                                                         *)
(* A sensor's connection has two fields, host and key, which stand for all  *)
(* of them.                                                                 *)
(***************************************************************************)
EXTENDS Naturals, FiniteSets

CONSTANTS Clients,     \* HTTP requests under way at once
          Passwords,   \* what setups choose; logins guess right or wrong
          Values,      \* what a field of the connection can hold
          None, Empty, Keep,
          HashConcurrency, \* HASH_CONCURRENCY
          MaxAttempts,     \* LOGIN_RATE_LIMIT_MAX_ATTEMPTS
          MaxRequests,     \* bound: requests made
          MaxFaults        \* bound: cancelled requests, restarts

VARIABLES
    password,  \* app_config.password_hash
    config,    \* app_config.settings
    token,     \* a bootstrap token is in memory
    failures,  \* the limiter: failed logins within the window
    hashing,   \* requests, alive or not, whose Argon2 work is on a blocking thread
    permits,   \* the requests that hold a permit for it
    mode,      \* the capture pipeline's sensor-mode flag
    op,        \* the request each client waits for
    requests, faults, cancelled

stored == <<password, config>>
hash == <<hashing, permits>>
vars == <<password, config, token, failures, hashing, permits, mode, op, requests, faults,
          cancelled>>

Roles == {"standalone", "sensor"}
Fields == Values \cup {Empty}
Block == [host : Fields, key : Fields]
Config == [role : Roles, sensor : Block \cup {None}]
Patch == [role : Roles \cup {Keep}, host : Fields \cup {Keep}, key : Fields \cup {Keep}]

\* None stands for no password, no configuration and no block, and is none of them.
ASSUME NodeAssumption ==
    /\ {None, Empty, Keep} \cap (Clients \cup Passwords \cup Values) = {}
    /\ Cardinality({None, Empty, Keep}) = 3 /\ None \notin Config
    /\ IsFiniteSet(Clients)
    /\ HashConcurrency \in Nat \ {0} /\ MaxAttempts \in Nat \ {0}
    /\ MaxRequests \in Nat /\ MaxFaults \in Nat

\* Both setup and PATCH insist on it.
Valid(c) == IF c.role = "sensor" THEN c.sensor # None /\ Empty \notin {c.sensor.host, c.sensor.key}
                                 ELSE c.sensor = None

\* patch_config: onto the stored block, or an empty one; a standalone drops it.
Over(new, old) == IF new = Keep THEN old ELSE new
Merged(c, p) ==
    LET cur == IF c.sensor = None THEN [host |-> Empty, key |-> Empty] ELSE c.sensor
        role == Over(p.role, c.role)
    IN  [role |-> role,
         sensor |-> IF role = "standalone" THEN None
                    ELSE IF p.host = Keep /\ p.key = Keep THEN c.sensor
                    ELSE [host |-> Over(p.host, cur.host), key |-> Over(p.key, cur.key)]]

Op == [call : {"none", "setup", "login", "patch"},
       stage : {"idle", "check", "permit", "hash", "write", "verdict"},
       pw : Passwords \cup {None},      \* what a setup chooses
       right : BOOLEAN,                 \* whether a login's guess is right
       node : Config \cup {None},       \* what a setup or a patch is about to store
       patch : Patch \cup {None}]
Idle == [call |-> "none", stage |-> "idle", pw |-> None, right |-> FALSE, node |-> None,
         patch |-> None]

Init ==
    /\ password = None /\ config = None /\ token = TRUE
    /\ failures = 0 /\ hashing = {} /\ permits = {}
    /\ mode = FALSE
    /\ op = [c \in Clients |-> Idle]
    /\ requests = 0 /\ faults = 0 /\ cancelled = FALSE

At(c, call, stage) == op[c].call = call /\ op[c].stage = stage
Go(c, stage) == op' = [op EXCEPT ![c].stage = stage]
Answer(c) == op' = [op EXCEPT ![c] = Idle]

\* A client whose former request still hashes is another one.
Request(c, o) ==
    /\ op[c] = Idle /\ c \notin hashing
    /\ requests < MaxRequests /\ requests' = requests + 1
    /\ op' = [op EXCEPT ![c] = o]

-----------------------------------------------------------------------------
(* Setup.                                                                    *)

\* What setups ask for: a payload without its connection stands for all that is refused.
Payloads == {c \in Config : Valid(c)} \cup {[role |-> "sensor", sensor |-> None]}

\* The token is compared at the door, if there is one; what is not valid goes no further.
Setup(c, pw, node, knows) ==
    /\ Request(c, [Idle EXCEPT !.call = "setup", !.stage = "check", !.pw = pw, !.node = node])
    /\ token => knows
    /\ UNCHANGED <<stored, token, failures, hash, mode, faults, cancelled>>

\* A cheap look at the database before any hashing.
CheckUnset(c) ==
    /\ At(c, "setup", "check")
    /\ IF password # None \/ ~Valid(op[c].node) THEN Answer(c) ELSE Go(c, "permit")
    /\ UNCHANGED <<stored, token, failures, hash, mode, requests, faults, cancelled>>

\* Mutant: the hash is written whether or not there is one.
CompleteAnySetup(c) ==
    /\ At(c, "setup", "write")
    /\ password' = op[c].pw /\ config' = op[c].node /\ token' = FALSE
    /\ Answer(c)
    /\ UNCHANGED <<failures, hash, mode, requests, faults, cancelled>>

\* complete_setup: one statement, of which only the first finds no hash.  The winner's
\* token is cleared and its session opened.
CompleteSetup(c) ==
    /\ At(c, "setup", "write")
    /\ IF password = None
       THEN password' = op[c].pw /\ config' = op[c].node /\ token' = FALSE
       ELSE UNCHANGED <<password, config, token>>
    /\ Answer(c)
    /\ UNCHANGED <<failures, hash, mode, requests, faults, cancelled>>

-----------------------------------------------------------------------------
(* Login.                                                                    *)

\* is_limited, at the door.
Login(c, right) ==
    /\ failures < MaxAttempts
    /\ Request(c, [Idle EXCEPT !.call = "login", !.stage = "check", !.right = right])
    /\ UNCHANGED <<stored, token, failures, hash, mode, faults, cancelled>>

\* The hash is read; without one, or for an overlong guess, there is nothing to verify.
ReadHash(c) ==
    /\ At(c, "login", "check")
    /\ \/ password = None /\ op' = [op EXCEPT ![c].stage = "verdict", ![c].right = FALSE]
       \/ password # None /\ Go(c, "permit")
       \/ ~op[c].right /\ Go(c, "verdict")
    /\ UNCHANGED <<stored, token, failures, hash, mode, requests, faults, cancelled>>

\* record_success or record_failure.
Verdict(c) ==
    /\ At(c, "login", "verdict")
    /\ failures' = IF op[c].right THEN 0 ELSE failures + 1
    /\ Answer(c)
    /\ UNCHANGED <<stored, token, hash, mode, requests, faults, cancelled>>

\* The oldest failure falls out of the window; whoever looks next prunes it.
Expire ==
    /\ failures > 0 /\ failures' = failures - 1
    /\ UNCHANGED <<stored, token, hash, mode, op, requests, faults, cancelled>>

-----------------------------------------------------------------------------
(* Hashing, for both.                                                        *)

\* Mutant: a setup does not wait for a permit.
AcquireForLogin(c) ==
    /\ op[c].stage = "permit"
    /\ op[c].call = "login" => Cardinality(permits) < HashConcurrency
    /\ permits' = permits \cup {c} /\ hashing' = hashing \cup {c}
    /\ Go(c, "hash")
    /\ UNCHANGED <<stored, token, failures, mode, requests, faults, cancelled>>

AcquirePermit(c) ==
    /\ op[c].stage = "permit" /\ Cardinality(permits) < HashConcurrency
    /\ permits' = permits \cup {c} /\ hashing' = hashing \cup {c}
    /\ Go(c, "hash")
    /\ UNCHANGED <<stored, token, failures, mode, requests, faults, cancelled>>

\* The blocking task is through; its request, if there still is one, goes on.
HashDone(c) ==
    /\ c \in hashing
    /\ hashing' = hashing \ {c} /\ permits' = permits \ {c}
    /\ IF op[c].stage = "hash"
       THEN Go(c, IF op[c].call = "setup" THEN "write" ELSE "verdict")
       ELSE UNCHANGED op
    /\ UNCHANGED <<stored, token, failures, mode, requests, faults, cancelled>>

-----------------------------------------------------------------------------
(* Configuration.                                                            *)

PatchConfig(c, p) ==
    /\ config # None
    /\ Request(c, [Idle EXCEPT !.call = "patch", !.stage = "check", !.patch = p])
    /\ UNCHANGED <<stored, token, failures, hash, mode, faults, cancelled>>

\* Mutant: the patch is validated, not what comes of it.
MergeThenTrust(c) ==
    /\ At(c, "patch", "check")
    /\ IF Empty \notin {op[c].patch.host, op[c].patch.key}
       THEN op' = [op EXCEPT ![c].stage = "write", ![c].node = Merged(config, op[c].patch)]
       ELSE Answer(c)
    /\ UNCHANGED <<stored, token, failures, hash, mode, requests, faults, cancelled>>

\* The stored configuration is read and merged; the result must be valid.
MergeConfig(c) ==
    /\ At(c, "patch", "check")
    /\ LET new == Merged(config, op[c].patch)
       IN  IF Valid(new) THEN op' = [op EXCEPT ![c].stage = "write", ![c].node = new]
                         ELSE Answer(c)
    /\ UNCHANGED <<stored, token, failures, hash, mode, requests, faults, cancelled>>

\* set_node_config writes all of it, whatever is stored by now.
StoreConfig(c) ==
    /\ At(c, "patch", "write")
    /\ config' = op[c].node
    /\ Answer(c)
    /\ UNCHANGED <<password, token, failures, hash, mode, requests, faults, cancelled>>

IsSensor == config # None /\ config.role = "sensor"

\* Mutant: the poller only looks for the node becoming a sensor.
PollOnce ==
    /\ ~mode /\ IsSensor /\ mode' = TRUE
    /\ UNCHANGED <<stored, token, failures, hash, op, requests, faults, cancelled>>

\* Every three seconds.
PollRole ==
    /\ mode # IsSensor /\ mode' = IsSensor
    /\ UNCHANGED <<stored, token, failures, hash, op, requests, faults, cancelled>>

-----------------------------------------------------------------------------
(* Faults.                                                                   *)

Fault == faults < MaxFaults /\ faults' = faults + 1

\* The client is gone and its handler is dropped, with its permit; what hashes goes on
\* hashing.  A statement that fails ends a request like this, too.
Cancel(c) ==
    /\ Fault /\ op[c] # Idle
    /\ permits' = permits \ {c} /\ cancelled' = TRUE
    /\ Answer(c)
    /\ UNCHANGED <<stored, token, failures, hashing, mode, requests>>

\* A fresh token is made as long as there is no setup.
Restart ==
    /\ Fault
    /\ token' = (config = None) /\ failures' = 0 /\ hashing' = {} /\ permits' = {}
    /\ mode' = IsSensor
    /\ op' = [c \in Clients |-> Idle]
    /\ UNCHANGED <<stored, requests, cancelled>>

-----------------------------------------------------------------------------
Step(c) ==
    \/ CheckUnset(c) \/ CompleteSetup(c) \/ ReadHash(c) \/ Verdict(c)
    \/ AcquirePermit(c) \/ HashDone(c) \/ MergeConfig(c) \/ StoreConfig(c)

\* The bounds are reached.
Finished == requests = MaxRequests /\ (\A c \in Clients : op[c] = Idle) /\ UNCHANGED vars

Next ==
    \/ \E c \in Clients :
          \/ \E pw \in Passwords, node \in Payloads, knows \in BOOLEAN : Setup(c, pw, node, knows)
          \/ \E right \in BOOLEAN : Login(c, right)
          \/ \E p \in Patch : PatchConfig(c, p)
          \/ Step(c) \/ Cancel(c)
    \/ Expire \/ PollRole \/ Restart \/ Finished

Spec == Init /\ [][Next]_vars

\* The poller ticks for ever.
FairSpec == Spec /\ WF_vars(PollRole)

-----------------------------------------------------------------------------
\* Every variable has its type, and a permit belongs to a request that hashes.
TypeOK ==
    /\ password \in Passwords \cup {None} /\ config \in Config \cup {None}
    /\ token \in BOOLEAN /\ mode \in BOOLEAN /\ cancelled \in BOOLEAN
    /\ failures \in Nat /\ permits \subseteq hashing /\ hashing \subseteq Clients
    /\ op \in [Clients -> Op]
    /\ \A c \in Clients : op[c].stage = "hash" <=> c \in permits
    /\ requests \in 0..MaxRequests /\ faults \in 0..MaxFaults

\* However many setups run at once, the password is set once and for all, together with
\* the configuration of the same request (repo/app_config.rs, complete_setup).
SetOnce ==
    [][password' # password =>
          /\ password = None /\ config = None
          /\ \E c \in Clients : op[c].call = "setup" /\ op[c].pw = password'
                                /\ op[c].node = config']_vars

\* No sequence or race of setups and patches stores a configuration that is not valid,
\* and none is stored before setup (config_routes.rs, "never leave the stored config in
\* an invalid state").
ConfigIsValid == IF config = None THEN password = None ELSE password # None /\ Valid(config)

\* Attempts under way are not counted when the limiter is asked: the window takes as many
\* failures beyond its limit as requests can be under way, and no more.
AttemptsBounded == failures < MaxAttempts + Cardinality(Clients)

\* As long as no request was cancelled, no more than the permitted number of hashes are
\* computed at once; nobody's permit is lost on the way (state.rs, HASH_CONCURRENCY).
HashesCapped ==
    /\ ~cancelled => Cardinality(hashing) <= HashConcurrency
    /\ Cardinality(permits) <= HashConcurrency

\* The two limits on what unauthenticated requests may cost, together.
LimitsHold == AttemptsBounded /\ HashesCapped

\* Whatever changed the role, setup or Settings, capture follows it without a restart
\* (main.rs, the role poller).
ModeFollowsRole == \A b \in BOOLEAN : <>[](IsSensor = b) => <>[](mode = b)
=============================================================================
