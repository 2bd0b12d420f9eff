\* The request's body, its parts and one scan of one file.
CONSTANTS
    Bodies <- MCBodies
    MaxBatch = 2
    MaxBytesPerFile = 4
    SniffWindow = 2
    MaxPreamble = 5
    MaxHeader = 8
    MaxChunk = 3
    LengthBytes <- MCLengthBytes
SPECIFICATION JourneySpec
INVARIANTS
    PartsAreWhole
    VerdictIsOfTheWholeFile
CHECK_DEADLOCK FALSE
