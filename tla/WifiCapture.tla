---------------------------- MODULE WifiCapture ----------------------------
(* What the two Wi-Fi capture paths make of what is on the air, and what    *)
(* ingest then keeps of it on the emitters (capture/wifi/security.rs,       *)
(* parse.rs, scan.rs; the enrichments at the end of finalize).  A monitor   *)
(* reads the selectors in a beacon's RSN and WPA elements; a scan reads the *)
(* names `iw` prints for them.  Both end in one normalization.              *)
EXTENDS Naturals, Sequences, SequencesExt, FiniteSets

CONSTANTS
    Configs,    \* what an access point may broadcast: [privacy, rsn, wpa]
    Names,      \* the SSID of each access point, by its BSSID
    Home,       \* the access point there is an emitter of
    Client,     \* the station that joins access points
    HomeRule,   \* what the emitter of Home matches on: "bssid" or "ssid"
    MaxAir      \* bound: observations under way on one path

None == "none"

\* An element that a beacon lacks lists nothing; the absent address and name are not those
\* of any access point.
WifiAssumption ==
    /\ HomeRule \in {"bssid", "ssid"} /\ Home \in DOMAIN Names /\ Client # None
    /\ None \notin DOMAIN Names /\ \A b \in DOMAIN Names : Names[b] # None
    /\ \A c \in Configs : \A e \in {c.rsn, c.wpa} :
          e.there \in BOOLEAN /\ (~e.there => e.pairwise \o e.akm = <<>>)

VARIABLES
    config,     \* what Home broadcasts now
    air,        \* observations each path has made and ingest has not seen
    home,       \* security attributes of Home's emitter
    client,     \* connection attributes of the client's emitter
    last        \* history: the observation ingested last and where it went

vars == <<config, air, home, client, last>>

-----------------------------------------------------------------------------
(* The two readings of a suite. *)

Unknown == "Unknown"

AkmSuite ==
    [t \in {1, 2, 3, 4, 5, 6, 8, 9, 18} |->
        CASE t = 1 -> "802.1X" [] t = 2 -> "PSK" [] t = 3 -> "FT-802.1X" [] t = 4 -> "FT-PSK"
          [] t = 5 -> "802.1X-SHA256" [] t = 6 -> "PSK-SHA256" [] t = 8 -> "SAE"
          [] t = 9 -> "FT-SAE" [] t = 18 -> "OWE"]

WpaAkmSuite == [t \in {1, 2} |-> IF t = 1 THEN "802.1X" ELSE "PSK"]

CipherSuite ==
    [t \in {1, 2, 4, 5, 8, 9, 10} |->
        CASE t = 1 -> "WEP-40" [] t = 2 -> "TKIP" [] t = 4 -> "CCMP" [] t = 5 -> "WEP-104"
          [] t = 8 -> "GCMP-128" [] t = 9 -> "GCMP-256" [] t = 10 -> "CCMP-256"]

\* A selector under another OUI is decoded as type 0xff.
ParseSelectors(sels, oui, suite) ==
    [i \in DOMAIN sels |->
        IF sels[i].oui = oui /\ sels[i].type \in DOMAIN suite
        THEN suite[sels[i].type] ELSE Unknown]

ParseRsn(e) ==
    [there |-> e.there,
     pairwise |-> ParseSelectors(e.pairwise, "rsn", CipherSuite),
     akm |-> ParseSelectors(e.akm, "rsn", AkmSuite)]

ParseWpa(e) ==
    [there |-> e.there,
     pairwise |-> ParseSelectors(e.pairwise, "wpa", CipherSuite),
     akm |-> ParseSelectors(e.akm, "wpa", WpaAkmSuite)]

(* `iw` names the suites of both elements; other suites it prints as       *)
(* numbers.                                                                *)
IwAkm ==
    [t \in {1, 2, 3, 4, 5, 6, 8, 9, 18} |->
        CASE t = 1 -> "802.1X" [] t = 2 -> "PSK" [] t = 3 -> "FT/802.1X" [] t = 4 -> "FT/PSK"
          [] t = 5 -> "802.1X/SHA-256" [] t = 6 -> "PSK/SHA-256" [] t = 8 -> "SAE"
          [] t = 9 -> "FT/SAE" [] t = 18 -> "OWE"]

IwPrints(sels, oui, name) ==
    [i \in DOMAIN sels |->
        IF sels[i].oui = oui /\ sels[i].type \in DOMAIN name
        THEN name[sels[i].type] ELSE "number"]

AkmFromIw ==
    [n \in {"802.1X", "PSK", "FT/802.1X", "FT/PSK", "802.1X/SHA-256", "PSK/SHA-256", "SAE", "FT/SAE", "OWE"} |->
        CASE n = "FT/PSK" -> "FT-PSK" [] n = "FT/802.1X" -> "FT-802.1X"
          [] n = "PSK/SHA-256" -> "PSK-SHA256" [] n = "802.1X/SHA-256" -> "802.1X-SHA256"
          [] n = "FT/SAE" -> "FT-SAE" [] n \in {"802.1X", "PSK", "SAE", "OWE"} -> n]

CipherFromIw ==
    [n \in {"CCMP", "TKIP", "GCMP-128", "GCMP-256", "CCMP-256", "WEP-40", "WEP-104"}
        |-> n]

FromIw(names, suite) ==
    [i \in DOMAIN names |->
        IF names[i] \in DOMAIN suite THEN suite[names[i]] ELSE Unknown]

\* The walker keeps lists, not elements: empty lists are no element.
ScanElement(e, oui, akms) ==
    [there |-> e.pairwise \o e.akm /= <<>>,
     pairwise |-> FromIw(IwPrints(e.pairwise, oui, CipherSuite), CipherFromIw),
     akm |-> FromIw(IwPrints(e.akm, oui, akms), AkmFromIw)]

-----------------------------------------------------------------------------
(* Normalization. *)

Wpa3 == {"SAE", "FT-SAE", "OWE"}

PushUnique(out, name) ==
    IF name = Unknown \/ name \in ToSet(out) THEN out ELSE Append(out, name)

Generations(privacy, rsn, wpa) ==
    LET wpas == IF wpa.there THEN {"WPA"} ELSE {}
        rsns == IF ~rsn.there THEN {}
                ELSE (IF rsn.akm = <<>> \/ ToSet(rsn.akm) \ Wpa3 /= {}
                      THEN {"WPA2"} ELSE {})
                     \union (IF ToSet(rsn.akm) \intersect Wpa3 /= {}
                             THEN {"WPA3"} ELSE {})
    IN IF wpas \union rsns /= {} THEN wpas \union rsns
       ELSE IF privacy THEN {"WEP"} ELSE {"Open"}

AuthLabel(auth) ==
    IF ToSet(auth) \intersect {"SAE", "FT-SAE"} /= {} THEN "SAE"
    ELSE IF ToSet(auth) \intersect {"802.1X", "802.1X-SHA256", "FT-802.1X"} /= {}
    THEN "Enterprise"
    ELSE IF ToSet(auth) \intersect {"PSK", "PSK-SHA256", "FT-PSK"} /= {} THEN "PSK"
    ELSE IF auth = <<>> THEN Unknown ELSE Head(auth)

\* A label is the generations, the method and the cipher that it shows.
DeriveLabel(security, auth, cipher) ==
    LET shown == IF cipher = <<>> THEN None ELSE Head(cipher)
    IN IF security \in {{"Open"}, {"WEP"}}
       THEN [gens |-> security, auth |-> None, cipher |-> None]
       ELSE IF "OWE" \in ToSet(auth) /\ ToSet(auth) \intersect {"PSK", "SAE"} = {}
       THEN [gens |-> {}, auth |-> "OWE", cipher |-> None]
       ELSE IF Cardinality(security) > 1
       THEN [gens |-> security, auth |-> "Transition", cipher |-> shown]
       ELSE [gens |-> security, auth |-> AuthLabel(auth), cipher |-> shown]

Normalize(privacy, rsn, wpa) ==
    LET security == Generations(privacy, rsn, wpa)
        auth == FoldLeft(PushUnique, <<>>, wpa.akm \o rsn.akm)
        cipher == FoldLeft(PushUnique, <<>>, wpa.pairwise \o rsn.pairwise)
    IN [security |-> security, auth |-> auth, cipher |-> cipher,
        transition_mode |-> Cardinality(security) > 1,
        security_label |-> DeriveLabel(security, auth, cipher)]

ParseBeaconSecurity(c) ==
    Normalize(c.privacy, ParseRsn(c.rsn), ParseWpa(c.wpa))

ScanSecurity(c) ==
    Normalize(c.privacy, ScanElement(c.rsn, "rsn", IwAkm),
              ScanElement(c.wpa, "wpa", WpaAkmSuite))

-----------------------------------------------------------------------------
(* Frames and their payloads. *)

NoLabel == [gens |-> {}, auth |-> None, cipher |-> None]

\* What frames without security carry, and an emitter from before there was any.
NoSecurity == [security |-> {}, auth |-> <<>>, cipher |-> <<>>,
               transition_mode |-> FALSE, security_label |-> NoLabel]

Beacon(security) ==
    [frame_type |-> "beacon", bssid |-> Home, src_mac |-> None,
     ssid |-> Names[Home], target_bssid |-> None, target_ssid |-> None,
     security |-> security]

Probe(ssid) ==
    [frame_type |-> "probe_request", bssid |-> None, src_mac |-> Client,
     ssid |-> ssid, target_bssid |-> None, target_ssid |-> None,
     security |-> NoSecurity]

\* The access point is a target: it stands in fields no emitter's rule reads.
Association(target, ssid) ==
    [frame_type |-> "association_request", bssid |-> None, src_mac |-> Client,
     ssid |-> None, target_bssid |-> target, target_ssid |-> ssid,
     security |-> NoSecurity]

NoProbe == Probe(None)

Paths == {"monitor", "scan"}

Init ==
    /\ config \in Configs
    /\ air = [p \in Paths |-> <<>>]
    /\ home = NoSecurity
    /\ client = [connected_bssid |-> None, connected_ssid |-> None]
    /\ last = [obs |-> NoProbe, to |-> "nobody"]

\* Whoever runs the access point sets it up anew.
Reconfigure ==
    /\ config' \in Configs \ {config}
    /\ UNCHANGED <<air, home, client, last>>

Send(p, obs) ==
    /\ Len(air[p]) < MaxAir
    /\ air' = [air EXCEPT ![p] = Append(@, obs)]
    /\ UNCHANGED <<config, home, client, last>>

\* The monitor hears a beacon, a probe, or a client joining a network, whose
\* frame need not carry the SSID.
Monitor ==
    \/ Send("monitor", Beacon(ParseBeaconSecurity(config)))
    \/ \E b \in DOMAIN Names : Send("monitor", Probe(Names[b]))
    \/ \E b \in DOMAIN Names, hidden \in BOOLEAN :
          Send("monitor", Association(b, IF hidden THEN None ELSE Names[b]))

\* A scan lists the access points only.
Scan == Send("scan", Beacon(ScanSecurity(config)))

-----------------------------------------------------------------------------
(* Ingest: the emitter a payload matches, and its enrichments. *)

\* The older emitter is Home's; the client's matches the station's address.
MatchedBy(obs) ==
    IF obs[HomeRule] = (IF HomeRule = "bssid" THEN Home ELSE Names[Home]) THEN "home"
    ELSE IF obs.src_mac = Client THEN "client"
    ELSE "nobody"

ConnectedAp(obs) ==
    [connected_bssid |-> obs.target_bssid, connected_ssid |-> obs.target_ssid]

\* Mutant: the label is compared and written, the rest only filled in once.
MergeApLabelOnly(security) ==
    IF home = NoSecurity THEN security
    ELSE [home EXCEPT !.security_label = security.security_label]

\* One conditional statement: all five keys, or none where the label is there.
MergeAp(security) ==
    IF home.security_label = security.security_label THEN home ELSE security

Ingest(p) ==
    /\ air[p] /= <<>>
    /\ LET obs == Head(air[p])
           to == MatchedBy(obs)
       IN /\ client' = IF to = "client" /\ obs.target_bssid /= None
                       THEN ConnectedAp(obs) ELSE client
          /\ home' = IF to = "home" /\ obs.frame_type = "beacon"
                     THEN MergeAp(obs.security) ELSE home
          /\ last' = [obs |-> obs, to |-> to]
    /\ air' = [air EXCEPT ![p] = Tail(@)]
    /\ UNCHANGED config

Next == Reconfigure \/ Monitor \/ Scan \/ \E p \in Paths : Ingest(p)

Spec == Init /\ [][Next]_vars

-----------------------------------------------------------------------------
(* Properties. *)

\* Whatever an access point broadcasts, the monitor and the scan tell the
\* same of it, as long as each of its elements names a suite
\* (security.rs:1-3).
NormalizesAlike ==
    (\A e \in {config.rsn, config.wpa} : e.there => e.pairwise \o e.akm /= <<>>)
        => ParseBeaconSecurity(config) = ScanSecurity(config)

\* An association is a client's: it never ends up on the emitter of the
\* access point it names, whichever field that one matches on, and the
\* emitter's connection is to one network, never the address of one with the
\* name of another (parse.rs:141-145, merge_client_attributes).
ClientsAreTold ==
    /\ last.obs.frame_type = "association_request" => last.to = "client"
    /\ client.connected_ssid /= None =>
         client.connected_ssid = Names[client.connected_bssid]

\* The attributes of an emitter are those of one beacon: the list of methods
\* never belongs to another configuration than the label beside it.
OneBeaconsAttributes ==
    home /= NoSecurity =>
        \E c \in Configs : home \in {ParseBeaconSecurity(c), ScanSecurity(c)}

=============================================================================
