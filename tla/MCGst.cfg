SPECIFICATION Spec
CONSTANTS
    Formats = {"bayer8", "mono8", "mono16", "bgr", "jpeg"}
    MaxSize = 4
    MaxRate = 2
    Binnings = {1, 2}
    StandardSizes <- MCStandardSizes
    Descriptions <- MCDescriptions
    PeerCaps <- MCPeerCaps
    CameraOrder <- MCCameraOrder
    CameraFormats <- MCCameraFormats
    Settings = {"camera-buffers"}
    CameraSettings <- MCCameraSettings
    MaxTsOpens = 3
    MaxTsFaults = 1
    MaxTsSets = 3
    Converters = {"tcamconvert", "tcamdutils"}
    UserCaps = {{"none"}, {"bayer8", "mono8"}}
    MaxBnOpens = 3
    MaxBnFaults = 1
    MaxBnSets = 2
    DpDevices = {d1, d2}
    MaxDpStarts = 2
    MaxDpPlugs = 3
    Sources = {"s1", "s2"}
    MaxCvOpens = 3
    MaxCvLinks = 3
INVARIANTS SourceHolds BinHolds NegotiationHolds
PROPERTIES ConvertHolds ProviderHolds
