--------------------------- MODULE DeviceIdentity ---------------------------
(***************************************************************************)
(* What device a captured frame is taken for, and how long it is kept        *)
(* (fluxfang-core/src/classify.rs and retention.rs, with their use in        *)
(* fluxfang-api/src/ingest/mod.rs and ageout.rs).  A frame is dropped if its  *)
(* address is less lasting than its source keeps; else it goes to the first  *)
(* emitter whose rule matches its payload, or to the emitter of its identity, *)
(* made for it if need be.                                                   *)
(*                                                                         *)
(* An ingest is one step here (EmitterMatching has them interleaved), every   *)
(* source creates emitters, and an hour may have passed at any moment.        *)
(***************************************************************************)
EXTENDS Naturals, Sequences, FiniteSets

CONSTANTS Frames,         \* captured: [kind, payload], a payload giving a value to some fields
          Octet,          \* the first octet of every address
          MaxEmissions, MaxConfigures   \* bounds

None == "none"
Unknown == [type |-> None]   \* in place of what a frame is taken for
Gone == [gone |-> TRUE]      \* in place of an emission
Classes == {"stable", "per_network", "session", "ephemeral", "unlinkable"}
Kinds == {"wifi", "bluetooth", "tpms", "subghz"}

\* The fields that tell one device from another, and those of them a capturer fills in
\* (WifiObservation, DeviceProps, the decoders of rtl_433).
Identifying == {"bssid", "src_mac", "address", "name", "id"}
FieldsOf(f) ==
    CASE f.kind = "wifi" -> IF f.payload.frame_type = "beacon" THEN {"bssid"} ELSE {"src_mac"}
      [] f.kind = "bluetooth" -> {"address", "name"}
      [] f.kind \in {"tpms", "subghz"} -> {"id"}

\* A device named after the address of another would share its identity_key.
IdentityAssumption ==
    /\ \A f \in Frames : f.kind \in Kinds /\ DOMAIN f.payload \cap Identifying \subseteq FieldsOf(f)
    /\ \A f \in Frames : \A field \in DOMAIN f.payload :
          field \in {"bssid", "src_mac", "address"} => f.payload[field] \in DOMAIN Octet
    /\ \A f, g \in Frames : "name" \in DOMAIN f.payload /\ "address" \in DOMAIN g.payload =>
          f.payload.name # g.payload.address
    /\ Octet \in [DOMAIN Octet -> 0..255] /\ {MaxEmissions, MaxConfigures} \subseteq Nat

VARIABLES
    level,     \* mac_retention_level of the source of each kind
    aging,     \* age_out_ephemeral of the source of each kind
    emitters,  \* rows of emitter, in created_at order; a deleted one is Unknown
    emissions, \* rows of emission, in the order captured; a deleted one is Gone
    kept,      \* history: what was stored and what was dropped, each with the level in force
    configures

vars == <<level, aging, emitters, emissions, kept, configures>>

-----------------------------------------------------------------------------
\* The class of an address.

Rank(class) == CASE class = "stable" -> 4 [] class = "per_network" -> 3 [] class = "session" -> 2
                 [] class = "ephemeral" -> 1 [] class = "unlinkable" -> 0

\* The locally-administered bit.
IsRandomizedMac(address) == (Octet[address] \div 2) % 2 = 1

WifiPersistence(frame_type, address) ==
    IF frame_type = "beacon" \/ ~IsRandomizedMac(address) THEN "stable"
    ELSE IF frame_type \in {"association_request", "reassociation_request"} THEN "per_network"
    ELSE "ephemeral"

\* The two top bits of a random address; 10 is reserved.
BleRandomSubtype(address) ==
    CASE Octet[address] \div 64 = 3 -> "session"
      [] Octet[address] \div 64 \in {1, 2} -> "ephemeral"
      [] Octet[address] \div 64 = 0 -> "unlinkable"

BluetoothPersistence(payload) ==
    IF "address_type" \in DOMAIN payload
    THEN IF payload.address_type = "random" THEN BleRandomSubtype(payload.address) ELSE "stable"
    ELSE IF IsRandomizedMac(payload.address) THEN "ephemeral" ELSE "stable"

-----------------------------------------------------------------------------
\* What a frame is taken for: Unknown, or a type, an identity, the conditions of which any
\* makes a rule, and the class of its address.

Taken(type, field, payload, class) ==
    [type |-> type, identity |-> payload[field], rule |-> {<<field, payload[field]>>}, class |-> class]

ClassifyBeacon(payload) ==
    IF "bssid" \in DOMAIN payload
    THEN Taken("wifi_access_point", "bssid", payload, WifiPersistence("beacon", payload.bssid)) ELSE Unknown

ClassifyProbeRequest(payload) ==
    IF "src_mac" \in DOMAIN payload
    THEN Taken("wifi_client", "src_mac", payload, WifiPersistence("probe_request", payload.src_mac)) ELSE Unknown

ClassifyAssociation(payload) ==
    IF "src_mac" \in DOMAIN payload
    THEN Taken("wifi_client", "src_mac", payload, WifiPersistence("association_request", payload.src_mac)) ELSE Unknown

ClassifyWifi(payload) ==
    CASE payload.frame_type = "beacon" -> ClassifyBeacon(payload)
      [] payload.frame_type = "probe_request" -> ClassifyProbeRequest(payload)
      [] payload.frame_type \in {"association_request", "reassociation_request"} -> ClassifyAssociation(payload)
      [] OTHER -> Unknown

\* A randomized device with a name is known by it: its rule is the name or this address.
ClassifyBluetooth(payload) ==
    LET class == BluetoothPersistence(payload) IN
    IF payload.frame_type # "advertisement" \/ "address" \notin DOMAIN payload THEN Unknown
    ELSE IF class # "stable" /\ "name" \in DOMAIN payload
    THEN [Taken("bluetooth_device", "name", payload, class) EXCEPT !.rule = @ \cup {<<"address", payload.address>>}]
    ELSE Taken("bluetooth_device", "address", payload, class)

\* Their ids are no addresses.
ClassifyTpms(payload) ==
    IF "id" \in DOMAIN payload THEN Taken("tpms_sensor", "id", payload, None) ELSE Unknown

ClassifySubghz(payload) ==
    IF "id" \in DOMAIN payload THEN Taken("subghz_device", "id", payload, None) ELSE Unknown

Classify(f) ==
    CASE f.kind = "wifi" -> ClassifyWifi(f.payload)
      [] f.kind = "bluetooth" -> ClassifyBluetooth(f.payload)
      [] f.kind = "tpms" -> ClassifyTpms(f.payload)
      [] f.kind = "subghz" -> ClassifySubghz(f.payload)

Class(f) == IF Classify(f) = Unknown THEN None ELSE Classify(f).class

-----------------------------------------------------------------------------
Init ==
    /\ level = [k \in Kinds |-> None] /\ aging = [k \in Kinds |-> FALSE]
    /\ emitters = <<>> /\ emissions = <<>>
    /\ kept = {} /\ configures = 0

\* validate_config: only sources whose addresses are ever randomized have the settings.
SupportsRetention(kind) == kind \in {"wifi", "bluetooth"}

Configure(kind, l, age) ==
    /\ configures < MaxConfigures /\ configures' = configures + 1
    /\ SupportsRetention(kind)
    /\ level' = [level EXCEPT ![kind] = l] /\ aging' = [aging EXCEPT ![kind] = age]
    /\ UNCHANGED <<emitters, emissions, kept>>

\* A level keeps its own class and the more lasting ones; what has no class is kept.
ShouldStore(l, class) == l = None \/ class = None \/ Rank(class) >= Rank(l)

Matches(rule, payload) == \E c \in rule : c[1] \in DOMAIN payload /\ payload[c[1]] = c[2]

Matching(f) == {i \in DOMAIN emitters : emitters[i] # Unknown /\ Matches(emitters[i].rule, f.payload)}
SameKey(c) == {i \in DOMAIN emitters : emitters[i] # Unknown /\ emitters[i].type = c.type
                                       /\ emitters[i].identity = c.identity}

\* Mutant: of the rules that match, the last.
LastMatch(S) == CHOOSE i \in S : \A j \in S : j =< i

\* Of the rules that match, the first.
FirstOf(S) == CHOOSE i \in S : \A j \in S : i =< j

\* ingest_if_retained.  The rules of all emitters are looked through, whatever their kind.
Capture(f) ==
    LET c == Classify(f)
        goes(i) == emissions' = Append(emissions, [frame |-> f, emitter |-> i]) IN
    /\ Len(emissions) < MaxEmissions
    /\ IF ~ShouldStore(level[f.kind], Class(f))
       THEN kept' = kept \cup {<<"dropped", f, level[f.kind]>>} /\ UNCHANGED <<emitters, emissions>>
       ELSE /\ kept' = kept \cup {<<"stored", f, level[f.kind]>>}
            /\ IF Matching(f) # {} THEN goes(FirstOf(Matching(f))) /\ UNCHANGED emitters
               ELSE IF c = Unknown THEN goes(0) /\ UNCHANGED emitters
               ELSE IF SameKey(c) # {} THEN goes(FirstOf(SameKey(c))) /\ UNCHANGED emitters
               ELSE emitters' = Append(emitters, c) /\ goes(Len(emitters) + 1)
    /\ UNCHANGED <<level, aging, configures>>

Of(i) == {n \in DOMAIN emissions : emissions[n] # Gone /\ emissions[n].emitter = i}

\* age_out_ephemeral: emitters of the class that were made for an ephemeral address, all of
\* whose emissions are of sources that have opted in, go with their emissions.
AgeOut(i) ==
    /\ emitters[i] # Unknown /\ emitters[i].class = "ephemeral"
    /\ Of(i) # {} /\ \A n \in Of(i) : aging[emissions[n].frame.kind]
    /\ emitters' = [emitters EXCEPT ![i] = Unknown]
    /\ emissions' = [n \in DOMAIN emissions |-> IF n \in Of(i) THEN Gone ELSE emissions[n]]
    /\ UNCHANGED <<level, aging, kept, configures>>

Next ==
    \/ \E f \in Frames : Capture(f)
    \/ \E kind \in Kinds, l \in Classes \cup {None}, age \in BOOLEAN : Configure(kind, l, age)
    \/ \E i \in DOMAIN emitters : AgeOut(i)

Spec == Init /\ [][Next]_vars

-----------------------------------------------------------------------------
Standing == {n \in DOMAIN emissions : emissions[n] # Gone /\ emissions[n].emitter # 0}

\* What was dropped under a level is at most as lasting as what was stored under that level:
\* retention never drops the longer-lived of two addresses and keeps the other.
RetentionKeepsTheLasting ==
    \A a, b \in kept : a[1] = "dropped" /\ b[1] = "stored" /\ a[3] = b[3] /\ Class(b[2]) # None =>
        /\ Class(a[2]) # None /\ Rank(Class(a[2])) < Rank(Class(b[2]))

\* The same payload goes to the same emitter, whatever emitters have been made in between,
\* and those of one wifi client go to one whether it probes or associates.
SameDeviceSameEmitter ==
    \A m, n \in Standing : emissions[m].frame = emissions[n].frame => emissions[m].emitter = emissions[n].emitter

ClientsCollapse ==
    \A m, n \in Standing : LET p == emissions[m].frame.payload  q == emissions[n].frame.payload IN
        "src_mac" \in DOMAIN p /\ "src_mac" \in DOMAIN q /\ p.src_mac = q.src_mac =>
            emissions[m].emitter = emissions[n].emitter

=============================================================================
