---------------------------- MODULE SourceConfig ----------------------------
(* The configuration of a data source (data_sources.rs, capture.rs,          *)
(* retention.rs): what the routes accept, what the database accepts, and     *)
(* what a start makes of a row that the routes, or a hand, have written.     *)
EXTENDS Integers

CONSTANTS
    Kinds,         \* the kinds under study
    U16, U32,      \* how many numbers a port and a baud rate may hold
    AllowedBaud,   \* ALLOWED_BAUD_RATES
    MaxLat, MaxLon,
    Numbers,       \* numbers a client sends
    Nothing        \* no row, capturer or mode

WidthsAssumption ==
    /\ {U16, U32, MaxLat, MaxLon} \cup AllowedBaud \subseteq Nat /\ Numbers \subseteq Int
    /\ U16 < U32 /\ \A b \in AllowedBaud : 0 < b /\ b < U32

\* What the value of a text key may be: null (or a value of another type), blank (or a
\* word the program does not know), or one it does know.
Missing == "missing"
Texts == {"null", "blank", "good"}
NotANumber == -1000

\* What the two CHECK constraints of the table (0024) let in.
StoredKinds == {"wifi", "gps", "bluetooth", "rtl_sdr", "sensor", "external"}

StoredModes ==
    {<<"wifi", "monitor">>, <<"wifi", "scan">>, <<"gps", "gpsd">>, <<"gps", "serial">>,
     <<"gps", "manual">>, <<"bluetooth", "scan">>, <<"rtl_sdr", "tpms">>,
     <<"sensor", "listener">>, <<"external", "push">>}

Checked(kind, mode) == kind \in StoredKinds /\ <<kind, mode>> \in StoredModes

\* The modes a client sends, one of no kind among them.
Modes == {"monitor", "scan", "gpsd", "serial", "manual", "tpms", "listener", "push", "other"}

NumberKeys == {"port", "baud", "lat", "lon", "bind_port"}

Text(config, key) == IF key \in DOMAIN config THEN config[key] ELSE Missing
Number(config, key) == IF key \in DOMAIN config THEN config[key] ELSE NotANumber

\* The keys a client sends with a mode.
KeysFor(mode) ==
    CASE mode = "gpsd" -> {"host", "port"}
      [] mode = "serial" -> {"device", "baud"}
      [] mode = "manual" -> {"lat", "lon"}
      [] mode = "tpms" -> {"frequency", "device_serial"}
      [] mode = "listener" -> {"bind_ip", "bind_port"}
      [] OTHER -> {"level", "age_out"}

\* Every configuration made of some of those keys.
Mixed(keys, n, t) == [k \in keys |-> IF k \in NumberKeys THEN n[k] ELSE t[k]]

ConfigsOf(keys) ==
    {Mixed(keys, n, t) : n \in [keys \cap NumberKeys -> Numbers], t \in [keys \ NumberKeys -> Texts]}

ConfigsFor(mode) == UNION {ConfigsOf(keys) : keys \in SUBSET KeysFor(mode)}

\* The other kinds do not look at the interface.
InterfacesFor(kind) ==
    IF kind \in {"wifi", "bluetooth"} THEN {Missing, "blank", "good"} ELSE {Missing}

VARIABLES
    row,       \* the data_source row, and whether a hand has edited it since
    capturer,  \* what the running capturer was built from
    patch,     \* a PATCH has found the row stopped, and not yet written
    starting,  \* the row a start has read
    outcome    \* of the last call

vars == <<row, capturer, patch, starting, outcome>>

Init ==
    /\ row = Nothing /\ capturer = Nothing
    /\ patch = FALSE /\ starting = Nothing /\ outcome = "none"

-----------------------------------------------------------------------------
(* Validation.                                                               *)

\* retention::validate_config.
RetentionValid(kind, config) ==
    LET level == Text(config, "level")
        ageOut == Text(config, "age_out")
    IN  IF kind \in {"wifi", "bluetooth"}
        THEN level \in {Missing, "null", "good"} /\ ageOut \in {Missing, "null", "good"}
        ELSE level \in {Missing, "null"} /\ ageOut \in {Missing, "null"}

Within(n, low, high) == n # NotANumber /\ low <= n /\ n <= high

\* The match on kind and mode of validate_data_source.
ModeValid(kind, mode, iface, config) ==
    CASE kind = "wifi" -> mode \in {"monitor", "scan"} /\ iface = "good"
      [] kind = "bluetooth" -> mode = "scan" /\ iface = "good"
      [] kind = "gps" /\ mode = "gpsd" -> Text(config, "host") = "good"
                                          /\ Within(Number(config, "port"), 1, U16 - 1)
      [] kind = "gps" /\ mode = "serial" -> /\ Text(config, "device") = "good"
                                            /\ Number(config, "baud") >= 0
                                            /\ Number(config, "baud") % U32 \in AllowedBaud
      [] kind = "gps" /\ mode = "manual" -> Within(Number(config, "lat"), -MaxLat, MaxLat)
                                            /\ Within(Number(config, "lon"), -MaxLon, MaxLon)
      [] kind = "rtl_sdr" -> /\ mode = "tpms" /\ Text(config, "frequency") = "good"
                             /\ Text(config, "device_serial") \in {Missing, "good"}
      [] kind = "sensor" -> /\ mode = "listener" /\ Text(config, "bind_ip") = "good"
                            /\ Within(Number(config, "bind_port"), 1, U16 - 1)
      [] kind = "external" -> mode = "push"
      [] OTHER -> FALSE

\* validate_data_source.
Valid(kind, mode, iface, config) ==
    RetentionValid(kind, config) /\ ModeValid(kind, mode, iface, config)

-----------------------------------------------------------------------------
(* The routes.                                                               *)

\* A create, with its validation and the row it inserts.
Create ==
    /\ row = Nothing
    /\ \E kind \in Kinds, mode \in Modes :
       \E iface \in InterfacesFor(kind), config \in ConfigsFor(mode) :
          IF ~Valid(kind, mode, iface, config)
          THEN outcome' = "400" /\ UNCHANGED row
          ELSE IF ~Checked(kind, mode)
          THEN outcome' = "500" /\ UNCHANGED row
          ELSE /\ row' = [kind |-> kind, mode |-> mode, iface |-> iface, config |-> config,
                          status |-> "stopped", edited |-> FALSE]
               /\ outcome' = "ok"
    /\ UNCHANGED <<capturer, patch, starting>>

\* A PATCH reads the row and refuses one that is running.
PatchRead ==
    /\ row # Nothing /\ ~patch
    /\ IF row.status = "running"
       THEN outcome' = "400" /\ UNCHANGED patch
       ELSE patch' = TRUE /\ UNCHANGED outcome
    /\ UNCHANGED <<row, capturer, starting>>

\* Mode, interface and configuration are replaced, for the kind of the row.
PatchWrite ==
    /\ patch /\ patch' = FALSE
    /\ \E mode \in Modes, iface \in InterfacesFor(row.kind) : \E config \in ConfigsFor(mode) :
          IF ~Valid(row.kind, mode, iface, config)
          THEN outcome' = "400" /\ UNCHANGED row
          ELSE IF ~Checked(row.kind, mode)
          THEN outcome' = "500" /\ UNCHANGED row
          ELSE /\ row' = [row EXCEPT !.mode = mode, !.iface = iface, !.config = config,
                                  !.edited = FALSE]
               /\ outcome' = "ok"
    /\ UNCHANGED <<capturer, starting>>

\* A hand at the database: any configuration, in a mode the constraints allow.
HandEdit ==
    /\ row # Nothing /\ ~patch /\ starting = Nothing /\ capturer = Nothing
    /\ \E mode \in {m \in Modes : Checked(row.kind, m)}, iface \in InterfacesFor(row.kind) :
       \E config \in ConfigsFor(mode) :
          row' = [row EXCEPT !.mode = mode, !.iface = iface, !.config = config,
                             !.edited = TRUE]
    /\ UNCHANGED <<capturer, patch, starting, outcome>>

-----------------------------------------------------------------------------
(* start and stop.                                                           *)

\* What build refuses, and what it makes of the row.
Builds(r) ==
    CASE r.kind = "wifi" -> r.iface # Missing /\ r.mode \in {"monitor", "scan"}
      [] r.kind = "bluetooth" -> r.iface # Missing
      [] r.kind = "gps" /\ r.mode = "gpsd" -> Text(r.config, "host") \in {"blank", "good"}
                                              /\ Number(r.config, "port") >= 0
      [] r.kind = "gps" /\ r.mode = "serial" -> /\ Text(r.config, "device") \in {"blank", "good"}
                                                /\ Number(r.config, "baud") >= 0
                                                /\ Number(r.config, "baud") % U32 \in AllowedBaud
      [] r.kind = "gps" /\ r.mode = "manual" -> Number(r.config, "lat") # NotANumber
                                                /\ Number(r.config, "lon") # NotANumber
      [] r.kind = "rtl_sdr" -> Text(r.config, "frequency") \in {"blank", "good"}
      [] r.kind = "external" -> TRUE
      [] OTHER -> FALSE

Build(r) ==
    [k \in DOMAIN r.config |->
        CASE k = "port" /\ r.mode = "gpsd" -> r.config[k] % U16
          [] k = "baud" /\ r.mode = "serial" -> r.config[k] % U32
          [] OTHER -> r.config[k]]

StartRead ==
    /\ row # Nothing /\ capturer = Nothing /\ starting = Nothing
    /\ row.kind # "sensor"
    /\ starting' = row
    /\ UNCHANGED <<row, capturer, patch, outcome>>

\* Mutant: a row that is in the table has been validated.
StartTrusting ==
    /\ starting # Nothing /\ starting' = Nothing
    /\ IF ~Builds(starting)
       THEN /\ row' = [row EXCEPT !.status = "error"] /\ outcome' = "no build"
            /\ UNCHANGED capturer
       ELSE /\ capturer' = [from |-> starting, config |-> Build(starting)]
            /\ row' = [row EXCEPT !.status = "running"] /\ outcome' = "ok"
    /\ UNCHANGED <<patch>>

\* The row is validated again, the capturer built, and the status written.
StartDone ==
    /\ starting # Nothing /\ starting' = Nothing
    /\ IF ~Valid(starting.kind, starting.mode, starting.iface, starting.config)
       THEN /\ row' = [row EXCEPT !.status = "error"] /\ outcome' = "not valid"
            /\ UNCHANGED capturer
       ELSE IF ~Builds(starting)
       THEN /\ row' = [row EXCEPT !.status = "error"] /\ outcome' = "no build"
            /\ UNCHANGED capturer
       ELSE /\ capturer' = [from |-> starting, config |-> Build(starting)]
            /\ row' = [row EXCEPT !.status = "running"] /\ outcome' = "ok"
    /\ UNCHANGED <<patch>>

Stop ==
    /\ capturer # Nothing /\ starting = Nothing
    /\ capturer' = Nothing /\ row' = [row EXCEPT !.status = "stopped"] /\ outcome' = "ok"
    /\ UNCHANGED <<patch, starting>>

Remove ==
    /\ row # Nothing /\ ~patch /\ starting = Nothing /\ capturer = Nothing
    /\ row' = Nothing /\ outcome' = "ok"
    /\ UNCHANGED <<capturer, patch, starting>>

Next ==
    \/ Create \/ PatchRead \/ PatchWrite \/ HandEdit \/ Remove
    \/ StartRead \/ StartDone \/ Stop

Spec == Init /\ [][Next]_vars

-----------------------------------------------------------------------------
(* Properties.                                                               *)

\* What the routes accept, the constraints of the table accept (a 400, never a 500).
CheckNeverFires == outcome # "500"

\* What a start has validated, it can build (capture.rs: the "defensive re-check of a
\* row that might have been hand-edited").
HandEditsAreCaught == outcome # "no build"

\* The capturer runs with the numbers of the row it was built from: a port is not
\* another port, a place not another place.
PortIsTheRows ==
    capturer # Nothing =>
        \A k \in DOMAIN capturer.config \ {"baud"} :
            capturer.config[k] = capturer.from.config[k]

=============================================================================
