\* A creator that may be killed at any step, and a remover.
SPECIFICATION MCSpec
CONSTANTS
    Creators = {c1}
    Loner = c1
    Readers = {}
    Removers = {d1}
    Segments = {s1, s2, s3}
    NoSegment = NoSegment
    Geometries = {1}
    MaxItemsNum = 2
    MaxFrames = 1
    MaxFaults = 2
PROPERTIES RemovedMeansGone
