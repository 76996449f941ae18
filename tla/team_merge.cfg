SPECIFICATION Spec
CONSTANTS
    Engine = "postgres"
    Developers = {1, 2}
    SetUp = {1}
    FileOrder <- MCFileOrder
    Versions <- MCVersions
    Gates <- MCGates
    Clock = {2, 3}
    MaxEdits = 2
INVARIANT TypeOK TrunkAddsUp TrunkBuilds NoSilentLoss
PROPERTY OwnChanges
CHECK_DEADLOCK FALSE
