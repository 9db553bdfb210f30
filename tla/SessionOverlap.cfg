SPECIFICATION Spec
CONSTANTS
    Procs = {p1, p2}
    NRoots = 2
    Changes = {"work1", "outside2"}
    RootOf <- MCRootOf
    Flagged <- MCFlagged
    Ignored <- MCIgnored
    Deltaless <- MCDeltaless
    Dangling <- MCDangling
    Modes = {"workspace-auto"}
    PatchRoots = {1}
    Overlapping <- MCClosing
    Crashes = TRUE
SYMMETRY MCSymmetry
INVARIANTS
    OnlyReviewedInBase
    NoWorkLost
