\* What a caller that writes an item in place was told of its length.
SPECIFICATION Spec
CONSTANTS
    Junk = 1
    Granule = 8
    Memory = 64
    IntMax = 1000
    GroupBits = 2
    WordBits = 5
    LongBits = 8
    QuadBytes = 3
    Count = 5
    Feeds <- SampleFeeds
    Asks <- SampleAsks
    Rates <- SampleRates
    Calls = 2
    MaxItemsNum = 2
    Feed <- SampleCommands
    Creators = {"one", "two"}
    Builds <- SampleBuilds
    HeadLengths = {0, 96}
    Heads <- SampleHeads
    Timeouts = {0, 1}
    MaxClock = 3
    HeadCalls = 5
    MaxEnds = 2
    WrapCalls = 3
    NodeHandles = {"a", "b"}
    Capacities = {0, 1, 2}
    NodeCalls = 6
INVARIANT
    AppliedIsReal
CHECK_DEADLOCK FALSE
