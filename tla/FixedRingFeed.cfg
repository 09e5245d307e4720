CONSTANTS
    Count = 3
    IndexMod = 8
    MaxPublish = 6
    Readers = {r1}
SPECIFICATION LiveSpec
PROPERTIES
    ImplementsFeed
    MovesOn
