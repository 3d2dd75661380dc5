----------------------------- MODULE DevicesSuite -----------------------------
(*****************************************************************************)
(* The components that drive one device or one source each (SensorListener,  *)
(* a Wi-Fi interface, a Bluetooth scan, what both make of what they hear,     *)
(* the configuration of a source), and what device a frame is taken for.      *)
(* They share no variable; the state graph is the disjoint union of theirs.  *)
(*****************************************************************************)
EXTENDS SensorListener, Integers, TLC

CONSTANTS
    Parts,                                                            \* the components that may move
    Capturers, NoCapturer, ChannelSize,                               \* Radio
    ScanStarts, StartupTicks, ActivateTicks, BusAnswers,              \* Bluetooth
    Objects, DeviceOf(_), Labels, SignalLevels, Unset, ThrottleTicks, \* Scan
    Broadcasts, Ssids, HomeAp, Station, HomeMatchesOn,                \* Wifi
    SourceKinds, PortLimit, BaudLimit, BaudRates, LatLimit, LonLimit, SentNumbers,   \* SourceConfigs
    DeviceFrames, FirstOctet,                                         \* Identity
    RadioFaults, RadioDeaths, ScanSignals, AirCapacity, FramesCaptured, LevelChanges \* bounds

VARIABLES
    part,
    mode, up, plugged, radio_call, radio_lock, handle, running, capture, hopper, queue, rx, stopped,
    radio_faults, deaths,
    active, caller, reason, bluetooth_running, thread, ready, scanning, scanned, failedAt,
    busTime, waited, starts,
    known, device, scan_stage, added, changed, cache, lastEmit, answer, open, credit, events,
    config, air, home, client, last,
    row, capturer, patch, starting, outcome,
    level, aging, emitters, emissions, kept, configures

Radio == INSTANCE MonitorRadio WITH
    Nobody <- NoCapturer, Channel <- ChannelSize, MaxFaults <- RadioFaults, MaxDeaths <- RadioDeaths,
    call <- radio_call, lock <- radio_lock, faults <- radio_faults

Bluetooth == INSTANCE BluetoothStart WITH
    MaxStarts <- ScanStarts, StartupTimeout <- StartupTicks, ActivateTimeout <- ActivateTicks,
    running <- bluetooth_running

Scan == INSTANCE BluetoothScan WITH
    Paths <- Objects, Address <- DeviceOf, Names <- Labels, Levels <- SignalLevels, None <- Unset,
    EmitThrottle <- ThrottleTicks, MaxSignals <- ScanSignals,
    stage <- scan_stage

Wifi == INSTANCE WifiCapture WITH
    Configs <- Broadcasts, Names <- Ssids, Home <- HomeAp, Client <- Station,
    HomeRule <- HomeMatchesOn, MaxAir <- AirCapacity

SourceConfigs == INSTANCE SourceConfig WITH
    Kinds <- SourceKinds, U16 <- PortLimit, U32 <- BaudLimit, AllowedBaud <- BaudRates,
    MaxLat <- LatLimit, MaxLon <- LonLimit, Numbers <- SentNumbers

Identity == INSTANCE DeviceIdentity WITH
    Frames <- DeviceFrames, Octet <- FirstOctet, MaxEmissions <- FramesCaptured,
    MaxConfigures <- LevelChanges

ASSUME RadioIsSound == Radio!RadioAssumption

ASSUME TimeoutsAreSound == Bluetooth!TimeoutsAssumption

ASSUME ThrottleIsSound == Scan!ThrottleAssumption

ASSUME AirIsSound == Wifi!WifiAssumption

ASSUME WidthsAreSound == SourceConfigs!WidthsAssumption

ASSUME FramesAreSound == Identity!IdentityAssumption

ASSUME ListenersAreSound == ListenerAssumption

radioVars ==
    <<mode, up, plugged, radio_call, radio_lock, handle, running, capture, hopper, queue, rx, stopped,
      radio_faults, deaths>>

bluetoothVars ==
    <<active, caller, reason, bluetooth_running, thread, ready, scanning, scanned, failedAt,
      busTime, waited, starts>>

scanVars ==
    <<known, device, scan_stage, added, changed, cache, lastEmit, answer, open, credit, events>>

wifiVars ==
    <<config, air, home, client, last>>

configVars ==
    <<row, capturer, patch, starting, outcome>>

identityVars ==
    <<level, aging, emitters, emissions, kept, configures>>

deviceVars == <<part, radioVars, bluetoothVars, scanVars, wifiVars, configVars, identityVars>>

\* One component moves; the others stay where one of their initial states has them.
DevicesInit ==
    /\ part \in Parts
    /\ Radio!Init
    /\ Bluetooth!Init /\ (part # "bluetooth" => active)
    /\ Scan!Init /\ (part # "scan" => known = {} /\ \A p \in Objects : device[p].name = Unset)
    /\ Wifi!Init /\ (part # "wifi" => config = CHOOSE c \in Broadcasts : TRUE)
    /\ SourceConfigs!Init
    /\ Identity!Init
    /\ Init /\ (part # "listener" => \A s \in Sources : rows[s].addr = CHOOSE a \in Addresses : TRUE)

DevicesNext ==
    /\ UNCHANGED part
    /\ \/ /\ part = "radio" /\ Radio!Next
          /\ UNCHANGED <<bluetoothVars, scanVars, wifiVars, configVars, identityVars, vars>>
       \/ /\ part = "bluetooth" /\ Bluetooth!Next
          /\ UNCHANGED <<radioVars, scanVars, wifiVars, configVars, identityVars, vars>>
       \/ /\ part = "scan" /\ Scan!Next
          /\ UNCHANGED <<radioVars, bluetoothVars, wifiVars, configVars, identityVars, vars>>
       \/ /\ part = "wifi" /\ Wifi!Next
          /\ UNCHANGED <<radioVars, bluetoothVars, scanVars, configVars, identityVars, vars>>
       \/ /\ part = "config" /\ SourceConfigs!Next
          /\ UNCHANGED <<radioVars, bluetoothVars, scanVars, wifiVars, identityVars, vars>>
       \/ /\ part = "identity" /\ Identity!Next
          /\ UNCHANGED <<radioVars, bluetoothVars, scanVars, wifiVars, configVars, vars>>
       \/ /\ part = "listener" /\ Next
          /\ UNCHANGED <<radioVars, bluetoothVars, scanVars, wifiVars, configVars, identityVars>>

DevicesSpec == DevicesInit /\ [][DevicesNext]_<<deviceVars, vars>>

-----------------------------------------------------------------------------
(* Properties. *)

\* The radio of a monitor capturer: one that was stopped has no thread left, and an
\* interface nothing is started on is back as it was found.
RadioIsLeftTidy == Radio!StoppedIsQuiet /\ Radio!TidyWithoutFaults

\* Bluetooth: a start tells the truth of its scan, whichever of report, timeout and
\* failure comes first, a failed one leaves none behind, and the throttle of a scan holds
\* back chatter and nothing else.
BluetoothIsHonest ==
    /\ Bluetooth!StartedMeansScanned
    /\ Bluetooth!NoOrphanedScan
    /\ Bluetooth!PassiveFailsByName
    /\ Scan!FieldsAreTold
    /\ Scan!EarlyAnswersAChange

\* The security an access point is shown with is one it broadcast, whichever path
\* heard it, and a client's association is told of the client.
ApsAreDescribed ==
    Wifi!NormalizesAlike /\ Wifi!ClientsAreTold /\ Wifi!OneBeaconsAttributes

\* Validation, the constraints of the table (a list of their own) and build agree on a
\* configuration, also on one a hand has edited; a baud rate is excepted.
ConfigJudgesAgree ==
    SourceConfigs!CheckNeverFires /\ SourceConfigs!HandEditsAreCaught /\ SourceConfigs!PortIsTheRows

\* Frames of the same payload go to the same emitter, and so do all of one wifi client; and
\* the retention gate never drops a class that lasts longer than one it keeps.
DevicesAreTellable ==
    Identity!RetentionKeepsTheLasting /\ Identity!SameDeviceSameEmitter /\ Identity!ClientsCollapse
=============================================================================
