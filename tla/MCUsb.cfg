SPECIFICATION Spec
CONSTANTS
    AfBuffers = 2
    AfTransfers = 2
    FullUnits = 2
    HeadUnits = 1
    ImageUnits = 3
    LostCountdown = 1
    MaxAfStarts = 2
    MaxAfPackets = 4
    JBuffers = 2
    TRANSFER_COUNT = 2
    JPEGBUF_SIZE = 5
    JBufferSize = 4
    JFeeds <- MCFeeds
    MaxJStarts = 2
    AcFormats <- MCFormats
    AcOffsets = {0, 5004}
    AcExposures = {100, 500000}
    MaxAcFaults = 1
    FoRuns <- MCFoRuns
    FoSharp = {1, 2, 3}
    FoRegions = {1, 2}
    FoMoves = 2
INVARIANTS StreamHolds JpegStreamHolds RegionsHold FocusStaysInRange
PROPERTIES RunsEnd
