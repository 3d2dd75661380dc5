SPECIFICATION DevicesSpec
CONSTANTS
    Parts = {"radio", "bluetooth", "scan", "wifi", "config", "identity", "listener"}
    Capturers = {c1, c2}
    NoCapturer = NoCapturer
    ChannelSize = 2
    ScanStarts = 3
    StartupTicks = 5
    ActivateTicks = 2
    BusAnswers = TRUE
    Objects = {path}
    DeviceOf <- Own
    Labels = {n1, n2}
    SignalLevels = {1, 2}
    Unset = Unset
    ThrottleTicks = 2
    Broadcasts <- WifiConfigs
    Ssids <- TwoSsids
    HomeAp = "a1"
    Station = "c1"
    HomeMatchesOn = "ssid"
    SourceKinds = {"wifi", "gps", "bluetooth", "rtl_sdr", "sensor", "external", "other"}
    PortLimit = 4
    BaudLimit = 16
    BaudRates = {4}
    LatLimit = 2
    LonLimit = 3
    SentNumbers <- SourceNumbers
    DeviceFrames <- AllFrames
    FirstOctet <- Octets
    RadioFaults = 2
    RadioDeaths = 1
    ScanSignals = 3
    AirCapacity = 1
    FramesCaptured = 3
    LevelChanges = 1
    Sources = {s1}
    Addresses = {a1, a2}
    Clients = {o1, o2}
    Slots = {1, 2}
    Nothing = Nothing
    MaxRequests = 3
    MaxFaults = 1
    MaxTaken = 1
    MaxRestarts = 1
CHECK_DEADLOCK FALSE
INVARIANTS
    RadioIsLeftTidy
    BluetoothIsHonest
    ApsAreDescribed
    ConfigJudgesAgree
    DevicesAreTellable
    ListenersAreKnown
