SPECIFICATION RaceSpec
CONSTANTS
    Writers = {"app"}
    Process <- OneProcess
    Overwrites = {TRUE, FALSE}
    Migration = "migration"
    MaxVersion = 2
    MaxCalls = 2
    NoInode = NoInode
    Garbled = Garbled
PROPERTIES NeverLost
CHECK_DEADLOCK FALSE
