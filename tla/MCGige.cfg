SPECIFICATION Spec
CONSTANTS
    Retries = 2
    IdSpace = 32
    MaxFaults = 1
    Upgrades <- MCUpgrades
    BlockSize = 4
    Align = 2
    CfgPages = 2
    MaxFwFaults = 2
    Interfaces = {1, 2, 3}
    Bits = 3
INVARIANTS CallsHold UploadsHold CommandsHold
PROPERTY CallsEnd
