\* A manual session, one agent, one turn.
SPECIFICATION Spec
CONSTANTS
    Paths = {"ws", "lib", "lib/f"}
    Below <- MCBelow
    Dirs <- MCDirs
    Scopes <- MCScopes
    DenyMatched <- MCDenyMatched
    Ignored <- MCIgnored
    Aliased = {}
    Modes = {"manual"}
    Agents = {a1}
    Conns = {c1}
    Tokens = {t1, t2}
    MaxEdit = 2
    Timeouts = FALSE
    NoConn = NoConn
INVARIANT ModeRespected
CHECK_DEADLOCK FALSE
