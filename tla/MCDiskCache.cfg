CONSTANTS
    FileNames = {1, 2}
    Times = {7}
    BodySizes = {1}
    HeaderSize = 2
    FileRotateSize = 6
    MaxBucketID = 3
SPECIFICATION Spec
INVARIANTS
    RefCountsMatchHolders
    KnownBucketsReadable
    NoBucketKnownTwice
    AckedBucketsKept
    NoOrphanFiles
    
PROPERTY ImplementsStore
