SPECIFICATION Spec
CONSTANTS
    Procs = {p1}
    NRoots = 2
    Changes = {"work1", "link1"}
    RootOf <- MCRootOf
    Flagged <- MCFlagged
    Ignored <- MCIgnored
    Deltaless <- MCDeltaless
    Dangling <- MCDangling
    Modes = {"workspace-auto"}
    PatchRoots = {1}
    Overlapping = {}
    Crashes = TRUE
INVARIANTS
    AutoCommitAppliesAll
