SPECIFICATION FairSpec
CONSTANTS
    Ifaces = {1, 2}
    Macs = {1, 2}
    Silent = {2}
    Upstream = 9
    Unprintable = "control"
    MaxJumps = 1
    MaxName = 2
    Patience = 1
    MaxEntries = 2
    Entries <- SomeEntries
    Packets <- SomePackets
INVARIANTS TypeOK ReadingIsTrue
PROPERTIES OrderKept DecorationsAreTrue SnapshotEnds
