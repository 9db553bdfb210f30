SPECIFICATION FairSpec
CONSTANTS
    Procs = {p1}
    NRoots = 2
    Changes = {"work1", "outside2", "gone2", "noise1"}
    RootOf <- MCRootOf
    Flagged <- MCFlagged
    Ignored <- MCIgnored
    Deltaless <- MCDeltaless
    Dangling <- MCDangling
    Modes = {"workspace-auto", "manual", "throwaway"}
    PatchRoots = {1}
    Overlapping = {}
    Crashes = TRUE
INVARIANTS
    TypeOK
    NoWorkLost
    ClosedMeansDone
PROPERTIES
    RecordFollowsTable
    SupervisorSettles
    AbortCloses
    KeepsLedger
