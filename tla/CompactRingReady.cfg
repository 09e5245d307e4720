CONSTANTS
    MaxItemsNum = 2
    PayloadOffset = 2
    PayloadSize = 7
    Align = 2
    Sizes = {1, 3}
    MaxPublish = 3
    MaxRestarts = 0
    Readers = {r1}
SPECIFICATION Spec
INVARIANT
    ReadyMeansData
