SPECIFICATION FairSpec
CONSTANTS
    Agents = {a1, a2}
    Main = a1
    Supervisor = sup
    MaxRepairs = 1
    Files = {f1, f2, f3, f4}
    NoFile = NoFile
INVARIANTS
    TypeOK
    RecordReadable
    RepairsBounded
PROPERTIES
    LetGo
