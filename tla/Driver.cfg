\* Two processes use one store, with a timeout of two polling intervals.
SPECIFICATION FairSpec
CONSTANTS
    Procs = {p1, p2}
    Timeout = 2
INVARIANTS
    TypeOK
    CallBounded
    DaemonThere
    AbortTruthful
PROPERTIES
    LateDaemonFound
    AbortRepeats
