SPECIFICATION Spec
CONSTANTS
    Daemons = {"d1", "d2", "d3"}
    Readers = {"r1"}
    Lists = {"a", "b", "too many"}
    ScanOrder <- MCScanOrder
    Usb3 = {"u"}
    lost_count_max = 3
    MaxPolls = 10
INVARIANTS DaemonHolds TrackingHolds
PROPERTY StopEnds
CHECK_DEADLOCK FALSE
