CONSTANTS
    Count = 3
    IndexMod = 12
    MaxPublish = 5
    Readers = {r1}
SPECIFICATION Spec
INVARIANT
    ReadableMeansData
