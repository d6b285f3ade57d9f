SPECIFICATION Spec
CONSTANTS
    Threads = {"t1"}
    Tier = "paid"
    TRIAL_RULE_LIMIT = 3
    DEFAULT_COOLDOWN = 2
    MAX_TRIGGERS_PER_RUN = 2
    Outcomes = {"trigger"}
    Edits = FALSE
    DeletesIn = {"running"}
    CommitsFail = FALSE
    MaxRules = 2
    MaxCreated = 2
    MaxEdits = 1
    MaxTime = 2
PROPERTIES TriggersLand
CHECK_DEADLOCK FALSE
