\* One creator, restarted after every fault, a reader and a remover; or two
\* creators that overlap in every way, and a reader.
SPECIFICATION LiveSpec
CONSTANTS
    Creators = {c1, c2}
    Loner = c1
    Readers = {r1}
    Removers = {d1}
    Segments = {s1, s2, s3}
    NoSegment = NoSegment
    Geometries = {1, 2}
    MaxFrames = 2
    MaxFaults = 2
INVARIANTS TypeOK NotStranded AloneInitialisesOnce
PROPERTIES NothingLostAtClose Rejoins
