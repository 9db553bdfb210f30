\* One agent whose client may give up, so that an abandoned handler competes.
SPECIFICATION FairSpec
CONSTANTS
    Paths = {"ws", "lib/f"}
    Below <- MCBelow
    Dirs <- MCDirs
    Scopes <- MCScopes
    DenyMatched <- MCDenyMatched
    Ignored <- MCIgnored
    Aliased = {}
    Modes = {"workspace-auto", "manual"}
    Agents = {a1}
    Conns = {c1, c2}
    Tokens = {t1, t2}
    MaxEdit = 1
    Timeouts = TRUE
    NoConn = NoConn
PROPERTY HookReturns
CHECK_DEADLOCK FALSE
