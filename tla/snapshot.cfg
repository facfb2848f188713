SPECIFICATION Spec
CONSTANTS
    Base = 16
    Width = 2
    HashLen = 2
    UuidLen = 2
    Prefix <- MCPrefix
    Names <- MCNames
    SnapName <- MCSnapName
    UseName <- MCUseName
    SnapshotsName <- MCSnapshotsName
    OpenedName <- MCOpenedName
    Dot = 9
    HashEnd = 3
    HashesEnd = 4
    ScanLimit = 3
    MaxPage = 2
    Spans <- MCSpans
    MaxCalls = 2
    MaxBeside = 1
    MaxHalf = 0
    MaxFaults = 1
    MaxIno = 60
INVARIANTS
    ScansExact
    ListingExact
    
    CopiesOwnInodes
    SnapshotIsTree
    SnapshotDescribed
CHECK_DEADLOCK FALSE
