----------------------------- MODULE AlertRules -----------------------------
(***************************************************************************)
(* User alert rules of one email: the CRUD endpoints and the inbox of      *)
(* backend/routes/alert_rules.py and the runner of                         *)
(* backend/notifications/alert_runner.py, scheduled every 30 minutes.      *)
(*                                                                         *)
(* The endpoints run in pool threads and the runner in the scheduler's     *)
(* executor, each on a session of its own.  The runner's session does not  *)
(* autoflush: everything a run does to rules and inbox is staged and lands *)
(* in one commit, whose UPDATEs match rows by id.  One unit of time is one *)
(* period of the runner.                                                   *)
(***************************************************************************)
EXTENDS Integers, FiniteSets

CONSTANTS
    Threads,               \* pool threads serving the endpoints
    Tier,                  \* _effective_tier: "paid", "trial" or "free"
    TRIAL_RULE_LIMIT,
    DEFAULT_COOLDOWN,      \* in periods of the runner
    MAX_TRIGGERS_PER_RUN,
    Outcomes,              \* what an evaluator may do: "none", "raises", "trigger"
    Edits,                 \* whether the user patches rules
    DeletesIn,             \* states of the runner in which the user deletes rules
    CommitsFail,           \* whether the runner's commit may fail on its own
    MaxRules,              \* bound: rules at a time
    MaxCreated,            \* bound: rules ever created
    MaxEdits,              \* bound: patches, deletions, notifications read
    MaxTime                \* bound on time

Ids == 1 .. MaxRules
Never == -1
NoRule == [state |-> "none", uid |-> 0, created |-> Never, cooldown |-> Never,
           evaluated |-> Never, triggered |-> Never]

ASSUME AlertAssumption ==
    /\ Tier \in {"paid", "trial", "free"}
    /\ TRIAL_RULE_LIMIT \in Nat
    /\ DEFAULT_COOLDOWN \in Nat \ {0}
    /\ MAX_TRIGGERS_PER_RUN \in Nat \ {0}
    /\ Outcomes \subseteq {"none", "raises", "trigger"}
    /\ DeletesIn \subseteq {"idle", "running"}
    /\ MaxRules \in Nat /\ MaxCreated \in Nat /\ MaxEdits \in Nat /\ MaxTime \in Nat

VARIABLES
    rules,     \* alert_rules: rules[i].state is "none", "active" or "paused"
    events,    \* user_alert_events: [rule, uid, at, seen]
    created,   \* rules created so far; a rule's uid says which one it was
    now,       \* time
    pc,        \* per thread: "idle", or "insert" inside create_rule
    rpc,       \* the runner: "idle" or "running"
    lastRun,   \* when the last run started
    queue,     \* the ids the run still has to look at, in their order
    loaded,    \* the rows the run's SELECT returned
    touched,   \* the ids whose last_evaluated_at is staged
    staged,    \* the ids whose trigger is staged
    edits

db    == <<rules, events, created>>
run   == <<rpc, lastRun, queue, loaded, touched, staged>>
vars  == <<db, now, pc, run, edits>>

Active == {i \in Ids : rules[i].state = "active"}
Existing == {i \in Ids : rules[i].state # "none"}

\* The rowid SQLite gives an INTEGER PRIMARY KEY declared without the
\* AUTOINCREMENT keyword: one more than the largest in the table.
NextId(i) == (\A j \in Existing : j < i) /\ i - 1 \in {0} \cup Existing

Init ==
    /\ rules = [i \in Ids |-> NoRule]
    /\ events = {}
    /\ created = 0
    /\ now = 0
    /\ pc = [t \in Threads |-> "idle"]
    /\ rpc = "idle"
    /\ lastRun = Never
    /\ queue = {}
    /\ loaded = [i \in Ids |-> NoRule]
    /\ touched = {}
    /\ staged = {}
    /\ edits = 0

\* Time passes; a run starts in its period and ends in it.
Tick ==
    /\ now < MaxTime
    /\ lastRun = now
    /\ rpc = "idle"
    /\ now' = now + 1
    /\ UNCHANGED <<db, pc, run, edits>>

-----------------------------------------------------------------------------
(* The endpoints *)

\* create_rule: the tier and, in a trial, the count of active rules.
CountRules(t) ==
    /\ pc[t] = "idle"
    /\ Tier = "trial" => Cardinality(Active) < TRIAL_RULE_LIMIT
    /\ pc' = [pc EXCEPT ![t] = "insert"]
    /\ UNCHANGED <<db, now, run, edits>>

\* create_rule: the INSERT.
InsertRule(t) ==
    /\ pc[t] = "insert"
    /\ created < MaxCreated
    /\ created' = created + 1
    /\ \E i \in Ids :
         /\ NextId(i)
         /\ rules' = [rules EXCEPT ![i] =
                [NoRule EXCEPT !.state = "active", !.uid = created + 1, !.created = now]]
    /\ pc' = [pc EXCEPT ![t] = "idle"]
    /\ UNCHANGED <<events, now, run, edits>>

Edit == edits < MaxEdits /\ edits' = edits + 1

\* patch_rule with is_active; the UPDATE carries the changed column alone.
PatchRule(i) ==
    /\ Edits /\ Edit
    /\ i \in Existing
    /\ \E s \in {"active", "paused"} \ {rules[i].state} :
         rules' = [rules EXCEPT ![i].state = s]
    /\ UNCHANGED <<events, created, now, pc, run>>

\* delete_rule; the rule's events stay in the inbox.
DeleteRule(i) ==
    /\ rpc \in DeletesIn
    /\ Edit
    /\ i \in Existing
    /\ rules' = [rules EXCEPT ![i] = NoRule]
    /\ UNCHANGED <<events, created, now, pc, run>>

\* mark_seen
MarkSeen ==
    /\ Edit
    /\ \E e \in events :
         /\ ~e.seen
         /\ events' = (events \ {e}) \cup {[e EXCEPT !.seen = TRUE]}
    /\ UNCHANGED <<rules, created, now, pc, run>>

-----------------------------------------------------------------------------
(* process_alert_rules *)

\* The session is closed: what was not committed is gone.
RunEnds ==
    /\ rpc' = "idle"
    /\ queue' = {}
    /\ loaded' = [i \in Ids |-> NoRule]
    /\ touched' = {}
    /\ staged' = {}
    /\ UNCHANGED lastRun

\* The SELECT of the active rules, ordered by id.
StartRun ==
    /\ rpc = "idle"
    /\ lastRun # now
    /\ lastRun' = now
    /\ rpc' = "running"
    /\ queue' = Active
    /\ loaded' = [i \in Ids |-> IF i \in Active THEN rules[i] ELSE NoRule]
    /\ UNCHANGED <<db, now, pc, touched, staged, edits>>

\* There is a rule left and the cap on triggers is not reached.
Running ==
    /\ rpc = "running"
    /\ queue # {}
    /\ Cardinality(staged) < MAX_TRIGGERS_PER_RUN

\* Mutation: the boundary of the cooldown is off by one.
CoolingShort(i) == loaded[i].cooldown > lastRun + 1

\* The loaded row's cooldown has not passed at the run's now.
Cooling(i) == loaded[i].cooldown > lastRun

\* The rules are taken in the order of their ids.
Takes(i) ==
    /\ Running
    /\ i \in queue /\ \A j \in queue : i <= j
    /\ queue' = queue \ {i}

SkipRule ==
    /\ \E i \in Ids : Takes(i) /\ Cooling(i)
    /\ UNCHANGED <<db, now, pc, rpc, lastRun, loaded, touched, staged, edits>>

\* One rule is evaluated; an exception of its evaluator counts as no trigger.
EvaluateRule ==
    /\ \E i \in Ids, o \in Outcomes :
         /\ Takes(i) /\ ~Cooling(i)
         /\ touched' = touched \cup {i}
         /\ staged' = IF o = "trigger" THEN staged \cup {i} ELSE staged
    /\ UNCHANGED <<db, now, pc, rpc, lastRun, loaded, edits>>

\* The loop is over: no rule left, or the cap reached.
LoopDone == rpc = "running" /\ ~Running

\* A staged UPDATE finds no row when its rule has been deleted meanwhile:
\* StaleDataError.
Stale == touched \ Existing

\* Mutation: the trigger does not start a cooldown.
AfterRunUncooled(i) ==
    IF i \in staged
    THEN [rules[i] EXCEPT !.evaluated = lastRun, !.triggered = lastRun]
    ELSE IF i \in touched THEN [rules[i] EXCEPT !.evaluated = lastRun] ELSE rules[i]

\* What the commit leaves of a rule.
AfterRun(i) ==
    IF i \in staged
    THEN [rules[i] EXCEPT !.evaluated = lastRun, !.triggered = lastRun,
                          !.cooldown = lastRun + DEFAULT_COOLDOWN]
    ELSE IF i \in touched THEN [rules[i] EXCEPT !.evaluated = lastRun] ELSE rules[i]

\* The commit: the inbox rows and the updates of the rules land together.
CommitRun ==
    /\ LoopDone
    /\ Stale = {}
    /\ rules' = [i \in Ids |-> AfterRun(i)]
    /\ events' = events \cup
         {[rule |-> i, uid |-> loaded[i].uid, at |-> lastRun, seen |-> FALSE] : i \in staged}
    /\ RunEnds
    /\ UNCHANGED <<created, now, pc, edits>>

\* The commit raises; nothing of the run lands.
CommitFails ==
    /\ LoopDone
    /\ CommitsFail \/ Stale # {}
    /\ RunEnds
    /\ UNCHANGED <<db, now, pc, edits>>

-----------------------------------------------------------------------------
Next ==
    \/ Tick
    \/ \E t \in Threads : CountRules(t) \/ InsertRule(t)
    \/ \E i \in Ids : PatchRule(i) \/ DeleteRule(i)
    \/ MarkSeen
    \/ StartRun \/ SkipRule \/ EvaluateRule \/ CommitRun \/ CommitFails

Spec == Init /\ [][Next]_vars

-----------------------------------------------------------------------------
(* Properties *)

\* When the rule created as the u-th fired.
Fired(u) == {e.at : e \in {x \in events : x.uid = u}}

\* `6h cooldown per rule`: two notifications of one rule are at least a cooldown
\* apart, also across pauses, failed commits, runs cut short by the cap and
\* deletions during a run.
CooldownSpacing ==
    \A u \in 1 .. created : \A a, b \in Fired(u) : a < b => b - a >= DEFAULT_COOLDOWN

\* One row per fire: a rule's last_triggered_at stands for a notification under
\* its id, its cooldown counts from there, and no notification of the rule is
\* newer, whatever was deleted, created under a used id, or failed to commit.
InboxMatchesRules ==
    \A i \in Existing :
        /\ rules[i].triggered # Never =>
             /\ \E e \in events : e.rule = i /\ e.at = rules[i].triggered
             /\ rules[i].cooldown = rules[i].triggered + DEFAULT_COOLDOWN
        /\ \A at \in Fired(rules[i].uid) : at <= rules[i].triggered

\* The triggers a run staged for rules that still exist, once it is over.
Landed == \A i \in staged \cap Existing :
              \E e \in events' : e.uid = loaded[i].uid /\ e.at = lastRun
RunOver == rpc = "running" /\ rpc' = "idle"

\* alert_runner.py:16-17, `one rule failing doesn't abort the run`: when a run
\* is over, every trigger it staged for a rule that still exists is in the inbox.
TriggersLand == [][RunOver => Landed]_vars

\* routes/alert_rules.py:4-5, `Trial users are capped at TRIAL_RULE_LIMIT active
\* rules`.
TrialCap == Tier = "trial" => Cardinality(Active) <= TRIAL_RULE_LIMIT
=============================================================================
