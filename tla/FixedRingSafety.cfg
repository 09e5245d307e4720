CONSTANTS
    Count = 3
    IndexMod = 12
    MaxPublish = 14
    Readers = {r1}
SPECIFICATION Spec
INVARIANTS
    TypeOK
    WindowIntact
    WholeUnlessOverrun
PROPERTIES
    PollAvoidsWriterSlot
    NoSpuriousError
