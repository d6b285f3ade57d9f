SPECIFICATION RaceSpec
CONSTANTS
    Writers = {"app", "backfill"}
    Process <- OwnProcess
    Overwrites = {TRUE, FALSE}
    Migration = NoInode
    MaxVersion = 2
    MaxCalls = 3
    NoInode = NoInode
    Garbled = Garbled
INVARIANTS NoPartialFile
CHECK_DEADLOCK FALSE
