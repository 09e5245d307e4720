\* One creator at a time, restarted after every fault; a reader; a remover.
SPECIFICATION LiveSpec
CONSTANTS
    Creators = {c1, c2}
    Loner = c1
    Readers = {r1}
    Removers = {d1}
    Segments = {s1, s2, s3}
    NoSegment = NoSegment
    Geometries = {1, 2}
    MaxItemsNum = 2
    MaxFrames = 3
    MaxFaults = 2
INVARIANTS TypeOK NotStranded AloneInitialisesOnce
PROPERTIES Rejoins
