CONSTANTS
    short = short
    long = long
    NoValue = NoValue
    Nibbles = {0, 1}
    Values = {short, long}
    SizeOf <- MCSizeOf
    Keys <- MCKeys
    Longest = 4
    MaxUnpurged = 2
SPECIFICATION Spec
INVARIANTS
    ReadsContents
    CountsAreExact
    RootIsHash256
    SnapshotIsRead
    IteratorKeepsSnapshot
    LowerBoundIsFirst
