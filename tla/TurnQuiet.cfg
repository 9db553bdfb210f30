\* One agent that always waits for its answers.
SPECIFICATION Spec
CONSTANTS
    Paths = {"ws", "lib", "lib/f"}
    Below <- MCBelow
    Dirs <- MCDirs
    Scopes <- MCScopes
    DenyMatched <- MCDenyMatched
    Ignored <- MCIgnored
    Aliased = {}
    Modes = {"workspace-auto", "manual"}
    Agents = {a1}
    Conns = {c1}
    Tokens = {t1, t2}
    MaxEdit = 2
    Timeouts = FALSE
    NoConn = NoConn
INVARIANTS TypeOK TurnComplete EndDelivers
PROPERTY EndAgrees
CHECK_DEADLOCK FALSE
