\* Two agents, and clients that give up.
SPECIFICATION Spec
CONSTANTS
    Paths = {"ws", "ws/key", "lib/f"}
    Below <- MCBelow
    Dirs <- MCDirs
    Scopes <- MCScopes
    DenyMatched <- MCDenyMatched
    Ignored <- MCIgnored
    Aliased = {}
    Modes = {"workspace-auto"}
    Agents = {a1, a2}
    Conns = {c1, c2}
    Tokens = {t1, t2}
    MaxEdit = 1
    Timeouts = TRUE
    NoConn = NoConn
SYMMETRY MCSymmetry
INVARIANT OnlyGrantedInBase
PROPERTIES
    YesIsRemembered
    KeepsGrants
CHECK_DEADLOCK FALSE
