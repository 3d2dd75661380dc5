---------------------------- MODULE AlertMethods ----------------------------
(* The delivery channels of alerts (alert_methods.rs, notify/, secrets.rs,   *)
(* repo/alert_method.rs): what the routes seal, show and change, and what a  *)
(* dispatch makes of it.  A config is the set of its keys; a sealed one is   *)
(* readable under its own key only.                                          *)
EXTENDS Naturals, FiniteSets

CONSTANTS
    Methods,      \* ids
    Clients,
    Configs,      \* what a client sends: each is the set of its keys
    Keys,         \* values of FLUXFANG_SECRET_KEY
    NoMethod, Deleted,
    MaxPatches,   \* bound: PATCH requests
    MaxRestarts   \* bound: restarts of the process

Types == {"email", "webhook", "in_app"}

\* The fields of a config, those a channel cannot do without (EmailConfig, WebhookConfig),
\* and those a response may show.
Fields == {"host", "password", "url", "secret"}
Required(type) ==
    CASE type = "email" -> {"host", "password"} [] type = "webhook" -> {"url"} [] OTHER -> {}
Public(type) ==
    CASE type = "email" -> {"host"} [] type = "webhook" -> {"url"} [] OTHER -> {}

MethodRows == [type : Types, enabled : BOOLEAN, sealed : [key : Keys, config : Configs]]

MethodsAssumption ==
    /\ Configs \subseteq SUBSET Fields
    /\ {NoMethod, Deleted} \cap MethodRows = {} /\ NoMethod # Deleted
    /\ {MaxPatches, MaxRestarts} \subseteq Nat

VARIABLES
    rows,     \* alert_method
    key,      \* secret_key of the process
    op,       \* the PATCH each client has begun
    patches, restarts,
    answer,   \* what the last request was told
    given,    \* history: the config that a client has given each method last,
    passed,   \* the PATCHes that had read the row before that,
    undone    \* and the methods where one of these, itself without a config, has written since

vars == <<rows, key, op, patches, restarts, answer, given, passed, undone>>
history == <<given, passed, undone>>

None == [at |-> "none"]
Exists(id) == rows[id] \notin {NoMethod, Deleted}

Told(status, shown) == answer' = [status |-> status, shown |-> shown]

Init ==
    /\ rows = [id \in Methods |-> NoMethod]
    /\ key \in Keys
    /\ op = [c \in Clients |-> None]
    /\ patches = 0 /\ restarts = 0
    /\ answer = [status |-> "none", shown |-> {}]
    /\ given = [id \in Methods |-> NoMethod] /\ passed = {} /\ undone = {}

-----------------------------------------------------------------------------
(* Sealing, showing and sending.                                             *)

Encrypt(k, config) == [key |-> k, config |-> config]
Decrypts(k, row) == row.sealed.key = k

\* The config has the shape its channel deserializes; an in_app method has none.
Parses(type, config) == Required(type) \subseteq config

\* safe_config.
SafeConfig(row) ==
    IF row.type = "in_app" \/ ~Decrypts(key, row) THEN {}
    ELSE row.sealed.config \cap Public(row.type)

\* A dispatch: decrypt_config, the channel's own config, and whatever the receiver does.
SendsAtAll(row) == Decrypts(key, row) /\ Parses(row.type, row.sealed.config)

Dispatch(row) ==
    \/ (row.type = "in_app" \/ SendsAtAll(row)) /\ Told("sent", {})
    \/ row.type # "in_app" /\ Told("failed", {})

-----------------------------------------------------------------------------
(* The routes.                                                               *)

Create ==
    \E id \in Methods, type \in Types, enabled \in BOOLEAN, config \in Configs :
       /\ rows[id] = NoMethod
       /\ IF Parses(type, config)
          THEN LET row == [type |-> type, enabled |-> enabled, sealed |-> Encrypt(key, config)]
               IN  /\ rows' = [rows EXCEPT ![id] = row]
                   /\ given' = [given EXCEPT ![id] = config]
                   /\ Told("201", SafeConfig(row))
          ELSE Told("400", {}) /\ UNCHANGED <<rows, given>>
       /\ UNCHANGED <<key, op, patches, restarts, passed, undone>>

List ==
    /\ \E id \in Methods : Exists(id) /\ Told("200", SafeConfig(rows[id]))
    /\ UNCHANGED <<rows, key, op, patches, restarts, history>>

\* validate_config_for_type of a PATCH: the type of the row, whatever the client says.
ValidFor(row, said, config) == Parses(row.type, config)

\* Mutant: a PATCH without a config seals again what the client can see.
SealedAgain(row, config) ==
    IF config = {} THEN Encrypt(key, SafeConfig(row))
    ELSE Encrypt(key, CHOOSE x \in config : TRUE)

\* What a PATCH writes for the config: the new one, or the bytes it has read.
Sealed(row, config) ==
    IF config = {} THEN row.sealed ELSE Encrypt(key, CHOOSE x \in config : TRUE)

\* A PATCH reads the row, and merges what the client names: enabled, a config, or only a name.
PatchRead(c) ==
    /\ op[c] = None /\ patches < MaxPatches /\ patches' = patches + 1
    /\ \E id \in Methods, said \in Types,
          switch \in {{}, {TRUE}, {FALSE}}, config \in {{}} \cup {{x} : x \in Configs} :
          IF ~Exists(id)
          THEN rows[id] = Deleted /\ Told("404", {}) /\ UNCHANGED op
          ELSE LET row == rows[id] IN
               IF \E x \in config : ~ValidFor(row, said, x)
               THEN Told("400", {}) /\ UNCHANGED op
               ELSE /\ op' = [op EXCEPT ![c] =
                         [at |-> "write", id |-> id, config |-> config,
                          row |-> [row EXCEPT
                                     !.enabled = IF switch = {} THEN @ ELSE switch = {TRUE},
                                     !.sealed = Sealed(row, config)]]]
                    /\ UNCHANGED answer
    /\ UNCHANGED <<rows, key, restarts, history>>

\* Those that have read the row of id and are still to write it.
Begun(id) == {d \in Clients : op[d].at = "write" /\ op[d].id = id}

\* It writes the whole row (AlertMethodRepo::update); RETURNING finds none if it is gone.
PatchWrite(c) ==
    /\ op[c].at = "write" /\ op' = [op EXCEPT ![c] = None]
    /\ LET id == op[c].id IN
       \/ /\ ~Exists(id) /\ Told("500", {})
          /\ passed' = passed \ {c} /\ UNCHANGED <<rows, given, undone>>
       \/ /\ Exists(id) /\ rows' = [rows EXCEPT ![id] = op[c].row]
          /\ Told("200", SafeConfig(op[c].row))
          /\ IF op[c].config = {}
             THEN /\ undone' = IF c \in passed THEN undone \cup {id} ELSE undone
                  /\ passed' = passed \ {c} /\ UNCHANGED given
             ELSE /\ given' = [given EXCEPT ![id] = CHOOSE x \in op[c].config : TRUE]
                  /\ passed' = (passed \cup Begun(id)) \ {c} /\ undone' = undone \ {id}
    /\ UNCHANGED <<key, patches, restarts>>

Delete ==
    /\ \E id \in Methods :
          \/ Exists(id) /\ rows' = [rows EXCEPT ![id] = Deleted] /\ Told("204", {})
          \/ rows[id] = Deleted /\ UNCHANGED rows /\ Told("404", {})
    /\ UNCHANGED <<key, op, patches, restarts, history>>

\* "Send test" goes through the channel, enabled or not.
Test ==
    /\ \E id \in Methods : IF Exists(id) THEN Dispatch(rows[id])
                           ELSE rows[id] = Deleted /\ Told("404", {})
    /\ UNCHANGED <<rows, key, op, patches, restarts, history>>

\* An alert fires: a disabled method is passed over (fire_rule).
Fire(id) ==
    /\ Exists(id) /\ rows[id].enabled /\ Dispatch(rows[id])
    /\ UNCHANGED <<rows, key, op, patches, restarts, history>>

\* The process starts again, perhaps with another key.
Restart ==
    /\ restarts < MaxRestarts /\ restarts' = restarts + 1
    /\ key' \in Keys /\ op' = [c \in Clients |-> None]
    /\ Told("none", {}) /\ passed' = {}
    /\ UNCHANGED <<rows, patches, given, undone>>

Next ==
    \/ Create \/ List \/ Delete \/ Test \/ Restart
    \/ \E c \in Clients : PatchRead(c) \/ PatchWrite(c)
    \/ \E id \in Methods : Fire(id)

Spec == Init /\ [][Next]_vars

-----------------------------------------------------------------------------
\* What the routes have accepted a dispatch can use: whatever patches and changes of the key came
\* between, a config that was sealed under the key of the process has the shape of its channel
\* ("can never drift out of sync with what notify::dispatch will actually require",
\* alert_methods.rs:54).
AcceptedCanBeSent ==
    \A id \in Methods : Exists(id) /\ Decrypts(key, rows[id]) =>
        Parses(rows[id].type, rows[id].sealed.config)

\* A method keeps, whole, the config a client has given it last: a rename or a switch loses no
\* secret that its client could not see, under whatever key.  The exception is the code's own: a
\* PATCH without a config that has read the row before another stored one writes the old bytes
\* back with the other columns (alert_methods.rs:266-270).
LastConfigStands ==
    \A id \in Methods \ undone : Exists(id) => rows[id].sealed.config = given[id]

=============================================================================
