\* One agent, a file outside of the workspace in a home that has an alias.
SPECIFICATION Spec
CONSTANTS
    Paths = {"ws", "ws/f", "lib/f"}
    Below <- MCBelow
    Dirs <- MCDirs
    Scopes <- MCScopes
    DenyMatched <- MCDenyMatched
    Ignored <- MCIgnored
    Aliased = {"ws", "ws/f", "lib/f"}
    Modes = {"workspace-auto"}
    Agents = {a1}
    Conns = {c1}
    Tokens = {t1, t2}
    MaxEdit = 1
    Timeouts = FALSE
    NoConn = NoConn
INVARIANT OnlyGrantedInBase
CHECK_DEADLOCK FALSE
