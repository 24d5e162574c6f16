\* The round trip of the unit test, in programs compiled with a wide header, as the one in use.
CONSTANTS
    K = 1
    Base = 4
    Half = 2
    Builds = {"wide"}
    Indexes <- SmallIndexes
    Garbage <- SomeGarbage
    Addr = {0, 1, 2, 3, 4, 5, 6, 7, 8}
    Null = Null
    Uninit = Uninit

SPECIFICATION Spec

INVARIANT StoredLoads
