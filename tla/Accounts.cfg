SPECIFICATION AccountsSpec
CONSTANTS
    Threads = {"t1"}
    Tier = "paid"
    TRIAL_RULE_LIMIT = 3
    DEFAULT_COOLDOWN = 2
    MAX_TRIGGERS_PER_RUN = 1
    Outcomes = {"none", "raises", "trigger"}
    Edits = TRUE
    DeletesIn = {"idle", "running"}
    CommitsFail = TRUE
    MaxRules = 2
    MaxCreated = 3
    MaxEdits = 2
    MaxTime = 3
    NoRequest = NoRequest
    Unset = Unset
    Absent = Absent
    Emails = {e1}
    Ips = {i1}
    PoolThreads = {p1, p2}
    MINUTE = 1
    HOUR = 3
    HourCap = 2
    IpCap = 3
    SignupCap = 1
    LinkLife = 2
    LoginTime = 3
    LoginCalls = 3
    Subs = {1, 2}
    MaxEvents = 3
    Zones = {z1}
    MIN_FRESH_ZONES = 20
    Figures = {0, 4, 15, 20, 80}
    FRESH_DAYS = 0
    Live = TRUE
    Runners = {"job", "shell"}
    MaxDay = 1
    MaxRuns = 3
    MaxMailFaults = 1
    MaxShopFaults = 1
    MaxPostFaults = 1
INVARIANTS CooldownSpacing InboxMatchesRules MailsLimited LinkUsedOnce LastEventDecides PostedOnce
CHECK_DEADLOCK FALSE
