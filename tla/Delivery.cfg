SPECIFICATION Spec
CONSTANTS
    Tree <- MCTree
    Start <- MCStart
    Edited <- MCEdited
    LinkTargets <- MCLinkTargets
    MaxVersion = 1
    Aliases <- MCAliases
    Visible <- MCVisible
    Scopes <- MCScopes
    Deny <- MCDeny
    Ignore <- MCIgnore
    Workspace <- MCWorkspace
    Names <- MCNames
    Respelled <- MCRespelled
INVARIANTS
    TypeOK
    Delivers
    OnlyAllowedTouched
    ChosenDelivered
    DiffShowsChosen
    SpellingIrrelevant
    NothingOverlooked
CHECK_DEADLOCK FALSE
