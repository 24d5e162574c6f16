\* Programs compiled with headers of either kind construct, store and load an index, and die
\* at any place.
CONSTANTS
    K = 1
    Base = 4
    Half = 2
    Builds = {"wide", "narrow"}
    Indexes <- SmallIndexes
    Garbage <- SomeGarbage
    Addr = {0, 1, 2, 3, 4, 5, 6, 7, 8}
    Null = Null
    Uninit = Uninit

SPECIFICATION Spec

INVARIANTS
    IndexFileTypeOK
    NoLeak
    FreeSafe
    ConstructReturned
    LoadedIsStored
    NarrowStoredLoads
    FailedLoadEmpty

