SPECIFICATION Spec
CONSTANTS
    Paths <- MCPaths
    Configs <- MCConfigs
    Aliases <- MCAliases
    Visible <- MCVisible
    Home <- MCHome
    HomeSubdir <- MCHomeSubdir
    SystemDirs <- MCSystemDirs
    StateBinds <- MCStateBinds
    StateNames <- MCStateNames
    StateFiles <- MCStateFiles
    RuntimeState <- MCRuntimeState
    RuntimeBinds <- MCRuntimeBinds
    Masks <- MCMasks
    Plugin <- MCPlugin
    Fickle <- MCFickle
    MaxChanges = 1
    MaxResumes = 1
INVARIANTS
    TypeOK
    PlumbingIgnored
    LaunchSucceeds
    StateShared
    OnlyStateBypasses
    PluginTrusted
CHECK_DEADLOCK FALSE
