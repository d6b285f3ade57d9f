--------------------------- MODULE AccountsProofs ---------------------------
(***************************************************************************)
(* Proofs about the parts of the app that keep promises to people.         *)
(*                                                                         *)
(* Alert rules: what the inbox and the rules say of each other, and how    *)
(* far apart two notifications of a rule are, with deletions during a run. *)
(* Login: a mailed link is used once, and the mails to an address and for  *)
(* an IP address stay within their limits.                                 *)
(* Billing: one row per subscription, which says what the last event       *)
(* handled of it said.                                                     *)
(* Social: how often a key can be posted.                                  *)
(*                                                                         *)
(* The four share no state; each part has an inductive invariant of its    *)
(* own, named after it, for any value of its constants.                    *)
(***************************************************************************)
EXTENDS AlertRules, Login, Billing, Social, FiniteSetTheorems, TLAPS

-----------------------------------------------------------------------------
(* ALERT RULES *)
(* The inductive invariant *)

RuleType == [state : {"none", "active", "paused"}, uid : Int, created : Int,
             cooldown : Int, evaluated : Int, triggered : Int]
EventType == [rule : Ids, uid : Int, at : Nat, seen : BOOLEAN]

AlertTypes ==
    /\ rules \in [Ids -> RuleType] /\ loaded \in [Ids -> RuleType]
    /\ events \in SUBSET EventType
    /\ created \in Nat /\ now \in Nat
    /\ rpc \in {"idle", "running"}
    /\ queue \in SUBSET Ids /\ touched \in SUBSET Ids /\ staged \in SUBSET touched

\* A uid is given once, and an id without a rule has nothing.
UidsOnce ==
    /\ \A i \in Ids : rules[i].state = "none" => rules[i] = NoRule
    /\ \A i \in Existing : rules[i].uid <= created
    /\ \A i, j \in Existing : rules[i].uid = rules[j].uid => i = j
    /\ \A e \in events : e.uid <= created

\* A run has a period of its own: what the inbox holds is from earlier runs, and
\* nothing is staged between two runs.
RunsApart ==
    /\ lastRun \in Int /\ Never <= lastRun /\ lastRun <= now
    /\ rpc = "running" => lastRun = now
    /\ rpc = "idle" => touched = {}
    /\ \A e \in events : e.at <= lastRun /\ (rpc = "running" => e.at < lastRun)

\* What a row says of the rule's notifications: none is newer than its trigger,
\* and its cooldown counts from there.
RowKnows(r) ==
    /\ r.triggered # Never => r.cooldown = r.triggered + DEFAULT_COOLDOWN
    /\ \A e \in events : e.uid = r.uid => e.at <= r.triggered
RowsKnow ==
    \A i \in Existing :
        /\ RowKnows(rules[i])
        /\ rules[i].triggered # Never =>
             \E e \in events : e.rule = i /\ e.at = rules[i].triggered

\* The rows a run has loaded, however the table has changed since.
Loaded == {i \in Ids : loaded[i].state = "active"}
LoadedKnows ==
    rpc = "running" =>
        /\ queue \subseteq Loaded /\ touched \subseteq Loaded
        /\ \A i \in Loaded : /\ loaded[i].uid <= created
                             /\ RowKnows(loaded[i])
        /\ \A i \in Loaded, j \in Existing : loaded[i].uid = rules[j].uid => i = j
        /\ \A i \in touched : loaded[i].cooldown <= lastRun

\* Two notifications of a rule are a cooldown apart.
Spaced ==
    \A e, f \in events : (e.uid = f.uid /\ e.at < f.at) => f.at - e.at >= DEFAULT_COOLDOWN

AlertInv == AlertTypes /\ UidsOnce /\ RunsApart /\ RowsKnow /\ LoadedKnows /\ Spaced

-----------------------------------------------------------------------------
(* Steps *)

\* A row without a rule is a row.
LEMMA NoRuleType == NoRule \in RuleType /\ NoRule.state = "none"
BY DEF NoRule, RuleType, Never

\* What the constants are.
LEMMA Constants ==
    DEFAULT_COOLDOWN \in Nat /\ DEFAULT_COOLDOWN > 0 /\ Ids \subseteq Int /\ Never = -1
BY AlertAssumption DEF Ids, Never

\* create_rule's INSERT takes an id that has no rule, and a new uid.
LEMMA InsertStep ==
    ASSUME AlertInv, NEW t \in Threads, InsertRule(t)
    PROVE  AlertInv'
<1>1. PICK new : new = [NoRule EXCEPT !.state = "active", !.uid = created + 1, !.created = now]
  OBVIOUS
<1>2. PICK i \in Ids : NextId(i) /\ rules' = [rules EXCEPT ![i] = new]
  BY <1>1 DEF InsertRule
<1>3. /\ created' = created + 1 /\ created \in Nat /\ now \in Nat
      /\ UNCHANGED <<events, now, rpc, lastRun, queue, loaded, touched, staged>>
      /\ i \notin Existing
  BY <1>2, Constants DEF InsertRule, run, AlertInv, AlertTypes, NextId
<1>4. /\ new \in RuleType /\ new.state = "active" /\ new.uid = created + 1
      /\ new.triggered = Never
  <2>1. new = [state |-> "active", uid |-> created + 1, created |-> now, cooldown |-> Never,
               evaluated |-> Never, triggered |-> Never]
    BY <1>1 DEF NoRule
  <2> QED
    BY <1>3, <2>1, Constants DEF RuleType
<1>5. /\ rules' \in [Ids -> RuleType] /\ rules'[i] = new
      /\ \A j \in Ids \ {i} : rules'[j] = rules[j]
      /\ Existing' = Existing \cup {i}
  BY <1>2, <1>4 DEF AlertInv, AlertTypes, Existing
<1>6. AlertTypes'
  BY <1>3, <1>5 DEF AlertInv, AlertTypes
<1>7. UidsOnce'
  <2>1. \A j \in Existing : j # i /\ rules'[j] = rules[j] /\ rules[j].uid \in Int
    BY <1>3, <1>5 DEF Existing, AlertInv, AlertTypes, RuleType
  <2>2. \A e \in events : e.uid \in Int
    BY DEF AlertInv, AlertTypes, EventType
  <2> QED
    BY <1>3, <1>4, <1>5, <2>1, <2>2 DEF AlertInv, UidsOnce
<1>8. RunsApart' /\ Spaced'
  BY <1>3 DEF AlertInv, RunsApart, Spaced
<1>9. RowsKnow'
  <2>1. \A e \in events : e.uid \in Int /\ e.uid <= created
    BY DEF AlertInv, AlertTypes, EventType, UidsOnce
  <2>2. RowKnows(new)'
    BY <1>3, <1>4, <2>1 DEF RowKnows
  <2> QED
    BY <1>3, <1>4, <1>5, <2>2 DEF AlertInv, RowsKnow, RowKnows, Existing
<1>10. LoadedKnows'
  <2>1. \A j \in Loaded : loaded[j].uid \in Int
    BY DEF Loaded, AlertInv, AlertTypes, RuleType
  <2>2. Loaded' = Loaded
    BY <1>3 DEF Loaded
  <2>3. \A j \in Existing : rules'[j] = rules[j]
    BY <1>3, <1>5 DEF Existing
  <2> QED
    BY <1>3, <1>4, <1>5, <2>1, <2>2, <2>3 DEF AlertInv, LoadedKnows, RowKnows
<1> QED
  BY <1>6, <1>7, <1>8, <1>9, <1>10 DEF AlertInv
\* patch_rule and delete_rule leave the other rules alone, and what they leave of
\* this one keeps its uid, trigger and cooldown, or is nothing.
LEMMA EditStep ==
    ASSUME AlertInv, NEW i \in Ids, PatchRule(i) \/ DeleteRule(i)
    PROVE  AlertInv'
<1>1. /\ i \in Existing
      /\ UNCHANGED <<events, created, now, rpc, lastRun, queue, loaded, touched, staged>>
  BY DEF PatchRule, DeleteRule, run
<1>2. /\ rules' \in [Ids -> RuleType]
      /\ \A j \in Ids \ {i} : rules'[j] = rules[j]
      /\ \/ rules'[i] = NoRule
         \/ /\ rules'[i].state # "none" /\ rules'[i].uid = rules[i].uid
            /\ rules'[i].triggered = rules[i].triggered
            /\ rules'[i].cooldown = rules[i].cooldown
  <2>1. CASE PatchRule(i)
    <3>1. PICK st \in {"active", "paused"} : rules' = [rules EXCEPT ![i].state = st]
      BY <2>1 DEF PatchRule
    <3> QED
      BY <3>1 DEF AlertInv, AlertTypes, RuleType
  <2>2. CASE DeleteRule(i)
    BY <2>2, NoRuleType DEF DeleteRule, AlertInv, AlertTypes
  <2> QED
    BY <2>1, <2>2
<1>3. /\ Existing' \subseteq Existing
      /\ \A j \in Existing' : /\ rules'[j].uid = rules[j].uid
                              /\ rules'[j].triggered = rules[j].triggered
                              /\ rules'[j].cooldown = rules[j].cooldown
  BY <1>1, <1>2, NoRuleType DEF Existing
<1>4. AlertTypes'
  BY <1>1, <1>2 DEF AlertInv, AlertTypes
<1>5. UidsOnce'
  BY <1>1, <1>2, <1>3 DEF AlertInv, UidsOnce
<1>6. RunsApart' /\ Spaced'
  BY <1>1 DEF AlertInv, RunsApart, Spaced
<1>7. RowsKnow'
  BY <1>1, <1>3 DEF AlertInv, RowsKnow, RowKnows
<1>8. LoadedKnows'
  <2>1. Loaded' = Loaded
    BY <1>1 DEF Loaded
  <2> QED
    BY <1>1, <1>3, <2>1 DEF AlertInv, LoadedKnows, RowKnows
<1> QED
  BY <1>4, <1>5, <1>6, <1>7, <1>8 DEF AlertInv

\* mark_seen changes nothing that the invariant is about.
LEMMA SeenStep ==
    ASSUME AlertInv, MarkSeen
    PROVE  AlertInv'
<1>1. PICK e \in events : events' = (events \ {e}) \cup {[e EXCEPT !.seen = TRUE]}
  BY DEF MarkSeen
<1>2. UNCHANGED <<rules, created, now, rpc, lastRun, queue, loaded, touched, staged>>
  BY DEF MarkSeen, run
<1>3. LET f == [e EXCEPT !.seen = TRUE] IN
      f \in EventType /\ f.rule = e.rule /\ f.uid = e.uid /\ f.at = e.at
  BY DEF AlertInv, AlertTypes, EventType
<1>4. /\ events' \in SUBSET EventType
      /\ \A f \in events' : \E g \in events : f.rule = g.rule /\ f.uid = g.uid /\ f.at = g.at
      /\ \A g \in events : \E f \in events' : f.rule = g.rule /\ f.uid = g.uid /\ f.at = g.at
  BY <1>1, <1>3 DEF AlertInv, AlertTypes
<1>5. Existing' = Existing /\ Loaded' = Loaded
  BY <1>2 DEF Existing, Loaded
<1>6. \A r : RowKnows(r) => RowKnows(r)'
  BY <1>4 DEF RowKnows
<1>7. AlertTypes' /\ UidsOnce'
  BY <1>2, <1>4, <1>5 DEF AlertInv, AlertTypes, UidsOnce
<1>8. RunsApart' /\ Spaced'
  BY <1>2, <1>4 DEF AlertInv, RunsApart, Spaced
<1>9. RowsKnow'
  <2>1. ASSUME NEW i \in Existing, rules[i].triggered # Never
        PROVE  \E f \in events' : f.rule = i /\ f.at = rules[i].triggered
    <3>1. PICK g \in events : g.rule = i /\ g.at = rules[i].triggered
      BY <2>1 DEF AlertInv, RowsKnow
    <3> QED
      BY <1>4, <3>1
  <2> QED
    BY <1>2, <1>5, <1>6, <2>1 DEF AlertInv, RowsKnow
<1>10. LoadedKnows'
  BY <1>2, <1>5, <1>6 DEF AlertInv, LoadedKnows
<1> QED
  BY <1>7, <1>8, <1>9, <1>10 DEF AlertInv

\* A run starts: what it loads is what the rows say now.
LEMMA StartStep ==
    ASSUME AlertInv, StartRun
    PROVE  AlertInv'
<1>1. /\ rpc = "idle" /\ lastRun # now /\ lastRun' = now /\ rpc' = "running"
      /\ queue' = Active /\ loaded' = [i \in Ids |-> IF i \in Active THEN rules[i] ELSE NoRule]
      /\ UNCHANGED <<rules, events, created, now, touched, staged>>
  BY DEF StartRun, db
<1>2. /\ Existing' = Existing /\ Active \subseteq Existing /\ Active \subseteq Ids
      /\ touched = {} /\ lastRun \in Int /\ now \in Nat /\ lastRun < now
  BY <1>1 DEF Existing, Active, AlertInv, RunsApart, AlertTypes
<1>3. Loaded' = Active /\ \A i \in Active : loaded'[i] = rules[i]
  BY <1>1, NoRuleType DEF Loaded, Active
<1>4. \A r : RowKnows(r) => RowKnows(r)'
  BY <1>1 DEF RowKnows
<1>5. AlertTypes'
  BY <1>1, <1>2, NoRuleType DEF AlertInv, AlertTypes
<1>6. UidsOnce' /\ Spaced'
  BY <1>1, <1>2 DEF AlertInv, UidsOnce, Spaced
<1>7. RunsApart'
  <2>1. \A e \in events : e.at \in Nat /\ e.at <= lastRun
    BY DEF AlertInv, AlertTypes, EventType, RunsApart
  <2> QED
    BY <1>1, <1>2, <2>1, Constants DEF AlertInv, RunsApart
<1>8. RowsKnow'
  BY <1>1, <1>2, <1>4 DEF AlertInv, RowsKnow
<1>9. LoadedKnows'
  BY <1>1, <1>2, <1>3, <1>4 DEF AlertInv, LoadedKnows, RowsKnow, UidsOnce
<1> QED
  BY <1>5, <1>6, <1>7, <1>8, <1>9 DEF AlertInv

\* The run looks at a rule.
LEMMA LookStep ==
    ASSUME AlertInv, SkipRule \/ EvaluateRule
    PROVE  AlertInv'
<1>1. /\ rpc = "running" /\ queue' \subseteq queue
      /\ UNCHANGED <<rules, events, created, now, rpc, lastRun, loaded>>
  BY DEF SkipRule, EvaluateRule, Takes, Running, db
<1>2. \/ touched' = touched /\ staged' = staged
      \/ \E i \in queue : /\ loaded[i].cooldown <= lastRun
                           /\ touched' = touched \cup {i}
                           /\ staged' \in {staged, staged \cup {i}}
  <2>1. CASE SkipRule
    BY <2>1 DEF SkipRule
  <2>2. CASE EvaluateRule
    <3>1. PICK i \in Ids, o \in Outcomes :
            /\ Takes(i) /\ ~Cooling(i) /\ touched' = touched \cup {i}
            /\ staged' = IF o = "trigger" THEN staged \cup {i} ELSE staged
      BY <2>2 DEF EvaluateRule
    <3>2. loaded[i].cooldown \in Int /\ lastRun \in Int
      BY DEF AlertInv, AlertTypes, RuleType, RunsApart
    <3> QED
      BY <3>1, <3>2 DEF Takes, Cooling
  <2> QED
    BY <2>1, <2>2
<1>3. Existing' = Existing /\ Loaded' = Loaded
  BY <1>1 DEF Existing, Loaded
<1>4. AlertTypes'
  BY <1>1, <1>2 DEF AlertInv, AlertTypes
<1>5. UidsOnce' /\ Spaced' /\ RowsKnow'
  BY <1>1, <1>3 DEF AlertInv, UidsOnce, Spaced, RowsKnow, RowKnows
<1>6. RunsApart'
  BY <1>1 DEF AlertInv, RunsApart
<1>7. LoadedKnows'
  BY <1>1, <1>2, <1>3 DEF AlertInv, LoadedKnows, RowKnows
<1> QED
  BY <1>4, <1>5, <1>6, <1>7 DEF AlertInv
\* The run's one commit.  Every staged id still has a rule, but perhaps another one
\* than was loaded; its notification is about the one that was.
LEMMA CommitStep ==
    ASSUME AlertInv, CommitRun
    PROVE  AlertInv'
<1> DEFINE fire(i) == [rule |-> i, uid |-> loaded[i].uid, at |-> lastRun, seen |-> FALSE]
<1>1. /\ rpc = "running" /\ rpc' = "idle" /\ touched' = {} /\ staged' = {} /\ queue' = {}
      /\ loaded' = [i \in Ids |-> NoRule]
      /\ rules' = [i \in Ids |-> AfterRun(i)]
      /\ events' = events \cup {fire(i) : i \in staged}
      /\ UNCHANGED <<created, now, lastRun>>
  BY DEF CommitRun, LoopDone, RunEnds
<1>2. staged \subseteq touched /\ touched \subseteq Existing /\ touched \subseteq Loaded
  BY <1>1 DEF CommitRun, Stale, AlertInv, AlertTypes, LoadedKnows
<1>3. lastRun \in Nat /\ lastRun + DEFAULT_COOLDOWN \in Int
  BY <1>1, Constants DEF AlertInv, AlertTypes, RunsApart
<1>4. ASSUME NEW i \in Ids
      PROVE  /\ rules'[i] \in RuleType /\ rules'[i].state = rules[i].state
             /\ rules'[i].uid = rules[i].uid
             /\ i \in staged => /\ rules'[i].triggered = lastRun
                                /\ rules'[i].cooldown = lastRun + DEFAULT_COOLDOWN
             /\ i \notin staged => /\ rules'[i].triggered = rules[i].triggered
                                   /\ rules'[i].cooldown = rules[i].cooldown
             /\ i \notin touched => rules'[i] = rules[i]
  <2>1. rules'[i] = AfterRun(i) /\ rules[i] \in RuleType
    BY <1>1 DEF AlertInv, AlertTypes
  <2>2. CASE i \in staged
    <3>1. rules'[i] = [rules[i] EXCEPT !.evaluated = lastRun, !.triggered = lastRun,
                                       !.cooldown = lastRun + DEFAULT_COOLDOWN]
      BY <2>1, <2>2 DEF AfterRun
    <3>2. rules'[i] = [state |-> rules[i].state, uid |-> rules[i].uid,
                       created |-> rules[i].created, cooldown |-> lastRun + DEFAULT_COOLDOWN,
                       evaluated |-> lastRun, triggered |-> lastRun]
      BY <2>1, <3>1 DEF RuleType
    <3>3. /\ rules[i].state \in {"none", "active", "paused"}
          /\ rules[i].uid \in Int /\ rules[i].created \in Int
      BY <2>1 DEF RuleType
    <3>4. rules'[i] \in RuleType
      BY <1>3, <3>2, <3>3 DEF RuleType
    <3> QED
      BY <1>2, <2>2, <3>2, <3>4
  <2>3. CASE i \in touched \ staged
    <3>1. rules'[i] = [rules[i] EXCEPT !.evaluated = lastRun]
      BY <2>1, <2>3 DEF AfterRun
    <3> QED
      BY <1>3, <2>1, <2>3, <3>1 DEF RuleType
  <2>4. CASE i \notin touched
    BY <1>2, <2>1, <2>4 DEF AfterRun
  <2> QED
    BY <2>2, <2>3, <2>4
<1>5. ASSUME NEW i \in staged
      PROVE  /\ fire(i) \in EventType /\ fire(i).rule = i /\ fire(i).uid = loaded[i].uid
             /\ fire(i).at = lastRun
             /\ loaded[i].uid \in Int /\ loaded[i].uid <= created
  <2>1. i \in Ids /\ i \in Loaded /\ loaded[i] \in RuleType
    BY <1>2 DEF Loaded, AlertInv, AlertTypes
  <2>2. loaded[i].uid \in Int /\ loaded[i].uid <= created
    BY <1>1, <2>1 DEF RuleType, AlertInv, LoadedKnows
  <2> QED
    BY <1>3, <2>1, <2>2 DEF EventType
<1>6. \A e \in events : e.at \in Nat /\ e.at < lastRun /\ e.uid \in Int /\ e.uid <= created
  BY <1>1 DEF AlertInv, AlertTypes, EventType, RunsApart, UidsOnce
<1>7. Existing' = Existing
  BY <1>4 DEF Existing
<1>8. AlertTypes'
  <2>1. rules' \in [Ids -> RuleType] /\ loaded' \in [Ids -> RuleType]
    BY <1>1, <1>4, NoRuleType
  <2>2. events' \in SUBSET EventType
    BY <1>1, <1>5 DEF AlertInv, AlertTypes
  <2> QED
    BY <1>1, <2>1, <2>2 DEF AlertInv, AlertTypes
<1>9. UidsOnce'
  <2>1. \A i \in Ids : rules'[i].state = "none" => rules'[i] = NoRule
    BY <1>2, <1>4 DEF AlertInv, UidsOnce, Existing
  <2>2. \A e \in events' : e.uid <= created
    BY <1>1, <1>5, <1>6
  <2> QED
    BY <1>1, <1>4, <1>7, <2>1, <2>2 DEF AlertInv, UidsOnce, Existing
<1>10. RunsApart'
  <2>1. \A e \in events' : e.at <= lastRun
    BY <1>1, <1>3, <1>5, <1>6
  <2> QED
    BY <1>1, <2>1 DEF AlertInv, RunsApart
<1>11. RowsKnow'
  <2> SUFFICES ASSUME NEW i \in Existing
               PROVE  /\ RowKnows(rules[i])'
                      /\ rules'[i].triggered # Never =>
                           \E e \in events' : e.rule = i /\ e.at = rules'[i].triggered
    BY <1>7 DEF RowsKnow
  <2>0. i \in Ids /\ RowKnows(rules[i])
    BY DEF Existing, AlertInv, RowsKnow
  <2>1. CASE i \in staged
    <3>1. \A e \in events' : e.at <= lastRun
      BY <1>1, <1>3, <1>5, <1>6
    <3>2. fire(i) \in events' /\ fire(i).rule = i /\ fire(i).at = lastRun
      BY <1>1, <1>5, <2>1
    <3> HIDE DEF fire
    <3> QED
      BY <1>4, <2>0, <2>1, <3>1, <3>2 DEF RowKnows
  <2>2. CASE i \notin staged
    <3>1. \A k \in staged : loaded[k].uid # rules[i].uid
      BY <1>1, <1>2, <2>2 DEF AlertInv, LoadedKnows
    <3>2. \A e \in events' : e.uid = rules[i].uid => e \in events
      BY <1>1, <1>5, <3>1
    <3>3. RowKnows(rules[i])'
      BY <1>4, <2>0, <2>2, <3>2 DEF RowKnows
    <3>4. rules[i].triggered # Never =>
            \E e \in events' : e.rule = i /\ e.at = rules[i].triggered
      BY <1>1 DEF AlertInv, RowsKnow
    <3> QED
      BY <1>4, <2>0, <2>2, <3>3, <3>4
  <2> QED
    BY <2>1, <2>2
<1>12. LoadedKnows'
  BY <1>1 DEF LoadedKnows
<1>13. Spaced'
  <2>1. ASSUME NEW e \in events, NEW i \in staged, e.uid = loaded[i].uid
        PROVE  lastRun - e.at >= DEFAULT_COOLDOWN
    <3>1. /\ i \in Ids /\ RowKnows(loaded[i]) /\ loaded[i].cooldown <= lastRun
          /\ loaded[i] \in RuleType
      BY <1>1, <1>2 DEF AlertInv, AlertTypes, LoadedKnows, Loaded
    <3>2. e.at <= loaded[i].triggered
      BY <2>1, <3>1 DEF RowKnows
    <3>3. loaded[i].triggered \in Int /\ loaded[i].cooldown \in Int /\ e.at \in Nat
      BY <1>6, <3>1 DEF RuleType
    <3>4. loaded[i].cooldown = loaded[i].triggered + DEFAULT_COOLDOWN
      BY <3>1, <3>2, <3>3, Constants DEF RowKnows
    <3> QED
      BY <1>3, <3>1, <3>2, <3>3, <3>4, Constants
  <2>2. ASSUME NEW e \in events', NEW f \in events', e.uid = f.uid, e.at < f.at
        PROVE  f.at - e.at >= DEFAULT_COOLDOWN
    <3>1. CASE e \in events /\ f \in events
      BY <2>2, <3>1 DEF AlertInv, Spaced
    <3>2. CASE e \in events /\ f \notin events
      <4>1. PICK i \in staged : f = fire(i)
        BY <1>1, <3>2
      <4>2. f.uid = loaded[i].uid /\ f.at = lastRun
        BY <1>5, <4>1
      <4> QED
        BY <2>1, <2>2, <3>2, <4>2
    <3>3. CASE e \notin events
      <4>1. PICK i \in staged : e = fire(i)
        BY <1>1, <3>3
      <4>2. e.at = lastRun /\ \A g \in events' : g.at <= lastRun
        BY <1>1, <1>3, <1>5, <1>6, <4>1
      <4>3. f.at \in Int
        BY <1>8 DEF AlertTypes, EventType
      <4> QED
        BY <1>3, <2>2, <4>2, <4>3
    <3> QED
      BY <3>1, <3>2, <3>3
  <2> QED
    BY <2>2 DEF Spaced
<1> QED
  BY <1>8, <1>9, <1>10, <1>11, <1>12, <1>13 DEF AlertInv

\* The commit raises: the rows and the inbox are as they were.
LEMMA FailStep ==
    ASSUME AlertInv, CommitFails
    PROVE  AlertInv'
<1>1. /\ rpc' = "idle" /\ queue' = {} /\ touched' = {} /\ staged' = {}
      /\ loaded' = [i \in Ids |-> NoRule]
      /\ UNCHANGED <<rules, events, created, now, lastRun>>
  BY DEF CommitFails, RunEnds, db
<1>2. Existing' = Existing
  BY <1>1 DEF Existing
<1>3. AlertTypes'
  BY <1>1, NoRuleType DEF AlertInv, AlertTypes
<1>4. UidsOnce' /\ Spaced' /\ RowsKnow' /\ LoadedKnows'
  BY <1>1, <1>2 DEF AlertInv, UidsOnce, Spaced, RowsKnow, RowKnows, LoadedKnows
<1>5. RunsApart'
  BY <1>1 DEF AlertInv, RunsApart
<1> QED
  BY <1>3, <1>4, <1>5 DEF AlertInv

\* Time passes only between runs; a count of the rules changes none.
LEMMA QuietStep ==
    ASSUME AlertInv, UNCHANGED <<db, run>>,
           \/ now' = now
           \/ now' = now + 1 /\ rpc = "idle"
    PROVE  AlertInv'
<1>1. UNCHANGED <<rules, events, created, rpc, lastRun, queue, loaded, touched, staged>>
  BY DEF db, run
<1>2. Existing' = Existing /\ Loaded' = Loaded
  BY <1>1 DEF Existing, Loaded
<1>3. AlertTypes' /\ RunsApart'
  BY <1>1 DEF AlertInv, AlertTypes, RunsApart
<1>4. UidsOnce' /\ Spaced' /\ RowsKnow' /\ LoadedKnows'
  BY <1>1, <1>2 DEF AlertInv, UidsOnce, Spaced, RowsKnow, RowKnows, LoadedKnows
<1> QED
  BY <1>3, <1>4 DEF AlertInv

\* Every action preserves the invariant.
LEMMA AlertStep == AlertInv /\ [Next]_vars => AlertInv'
<1> SUFFICES ASSUME AlertInv, [Next]_vars PROVE AlertInv'
  OBVIOUS
<1>1. CASE Tick
  BY <1>1, QuietStep DEF Tick
<1>2. ASSUME NEW t \in Threads, CountRules(t) PROVE AlertInv'
  BY <1>2, QuietStep DEF CountRules
<1>3. ASSUME NEW t \in Threads, InsertRule(t) PROVE AlertInv'
  BY <1>3, InsertStep
<1>4. ASSUME NEW i \in Ids, PatchRule(i) \/ DeleteRule(i) PROVE AlertInv'
  BY <1>4, EditStep
<1>5. CASE MarkSeen
  BY <1>5, SeenStep
<1>6. CASE StartRun
  BY <1>6, StartStep
<1>7. CASE SkipRule \/ EvaluateRule
  BY <1>7, LookStep
<1>8. CASE CommitRun
  BY <1>8, CommitStep
<1>9. CASE CommitFails
  BY <1>9, FailStep
<1>10. CASE UNCHANGED vars
  BY <1>10, QuietStep DEF vars
<1> QED
  BY <1>1, <1>2, <1>3, <1>4, <1>5, <1>6, <1>7, <1>8, <1>9, <1>10 DEF Next

\* The first state has no rule and no notification.
LEMMA AlertStart == Init => AlertInv
<1> SUFFICES ASSUME Init PROVE AlertInv
  OBVIOUS
<1>1. AlertTypes
  BY NoRuleType DEF Init, AlertTypes
<1>2. Existing = {}
  BY NoRuleType DEF Init, Existing
<1> QED
  BY <1>1, <1>2, Constants
  DEF Init, AlertInv, UidsOnce, RunsApart, RowsKnow, LoadedKnows, Spaced

-----------------------------------------------------------------------------
(* What follows *)

\* Two notifications of one rule are at least a cooldown apart (CooldownSpacing;
\* alert_runner.py:34-121), across pauses, failed commits, runs cut short by the cap
\* and rules deleted during a run, for any number of rules, runs and edits.
THEOREM CooldownKept == Spec => []CooldownSpacing
<1>1. AlertInv => CooldownSpacing
  BY DEF AlertInv, Spaced, CooldownSpacing, Fired
<1> QED
  BY <1>1, AlertStart, AlertStep, PTL DEF Spec

\* A rule's last trigger stands for a notification under its id, its cooldown counts
\* from there, and no notification of the rule is newer (InboxMatchesRules), also
\* when its id belonged to a rule that a running run had loaded.
THEOREM InboxAndRulesAgree == Spec => []InboxMatchesRules
<1>1. AlertInv => InboxMatchesRules
  BY DEF AlertInv, RowsKnow, RowKnows, InboxMatchesRules, Fired
<1> QED
  BY <1>1, AlertStart, AlertStep, PTL DEF Spec

-----------------------------------------------------------------------------
(* LOGIN BY MAIL *)

Link == [email : Emails, exp : Nat]

\* Clocks, links and what the threads are at.
LoginTypes ==
    /\ clock \in Nat /\ epoch \in Nat
    /\ links \in Seq(Link)
    /\ requests \in [PoolThreads -> Requests \cup {NoRequest}]
    /\ \A t \in PoolThreads : requests[t] # NoRequest /\ requests[t].do = "consume" =>
          requests[t].jti \in DOMAIN links

\* The sessions in the order in which they were given.
Numbered ==
    /\ IsFiniteSet(sessions)
    /\ \A s \in sessions : /\ s.n \in Nat /\ s.n < Cardinality(sessions)
                           /\ s.jti \in DOMAIN links
                           /\ s.epoch \in Nat /\ s.epoch <= epoch

\* A link that gave a session of this process is in the set until it expires.
Remembered ==
    \A s \in sessions : s.epoch = epoch /\ clock < links[s.jti].exp =>
        s.jti \in DOMAIN consumed /\ consumed[s.jti] = links[s.jti].exp

LoginInv == LoginTypes /\ Numbered /\ Remembered /\ LinkUsedOnce

\* A link has a life.
LEMMA LinkLives == ASSUME LoginTypes, NEW j \in DOMAIN links PROVE links[j].exp \in Nat
<1>1. links \in Seq(Link) /\ j \in 1 .. Len(links)
  BY DEF LoginTypes
<1>2. links[j] \in Link
  BY <1>1
<1> QED
  BY <1>2 DEF Link

\* A link keeps its life.
LEMMA LinksGrow ==
    ASSUME LoginAssumption, LoginTypes, NEW email \in Emails,
           links' = links \/ links' = Append(links, create_magic_token(email))
    PROVE  /\ links' \in Seq(Link) /\ DOMAIN links \subseteq DOMAIN links'
           /\ \A j \in DOMAIN links : links'[j] = links[j]
<1>1. PICK k : k = create_magic_token(email)
  OBVIOUS
<1>2. k \in Link
  BY <1>1 DEF create_magic_token, Link, LoginTypes, LoginAssumption
<1>3. CASE links' = links
  BY <1>3 DEF LoginTypes
<1>4. CASE links' = Append(links, k)
  BY <1>2, <1>4 DEF LoginTypes
<1> QED
  BY <1>1, <1>3, <1>4

\* A step that gives no session and forgets no link.
LEMMA LoginKept ==
    ASSUME LoginAssumption, LoginInv, LoginTypes', UNCHANGED <<sessions, consumed>>,
           clock' \in {clock, clock + 1}, epoch' = epoch, DOMAIN links \subseteq DOMAIN links',
           \A j \in DOMAIN links : links'[j] = links[j]
    PROVE  LoginInv'
<1>1. Numbered'
  BY DEF LoginInv, Numbered
<1>2. \A s \in sessions : links'[s.jti] = links[s.jti] /\ links[s.jti].exp \in Nat
  BY LinkLives DEF LoginInv, Numbered
<1>3. Remembered'
  <2>1. clock \in Nat
    BY DEF LoginInv, LoginTypes
  <2>2. \A e \in Nat : clock' < e => clock < e
    BY <2>1
  <2> QED
    BY <1>2, <2>2 DEF LoginInv, Remembered
<1>4. LinkUsedOnce'
  BY <1>2 DEF LoginInv, LinkUsedOnce
<1> QED
  BY <1>1, <1>3, <1>4 DEF LoginInv

\* The mail.
LEMMA MailStep ==
    ASSUME LoginAssumption, LoginInv, NEW email \in Emails, NEW ip \in Ips,
           request_magic_link(email, ip)
    PROVE  LoginInv'
<1>1. /\ links' = links \/ links' = Append(links, create_magic_token(email))
      /\ UNCHANGED <<clock, consumed, requests, epoch, sessions>>
  BY DEF request_magic_link
<1>2. /\ links' \in Seq(Link) /\ DOMAIN links \subseteq DOMAIN links'
      /\ \A j \in DOMAIN links : links'[j] = links[j]
  BY <1>1, LinksGrow DEF LoginInv
<1>3. LoginTypes'
  BY <1>1, <1>2 DEF LoginInv, LoginTypes
<1> QED
  BY <1>1, <1>2, <1>3, LoginKept

\* A thread begins or leaves a request.
LEMMA ThreadStep ==
    ASSUME LoginAssumption, LoginInv, NEW t \in PoolThreads, NEW r \in Requests \cup {NoRequest},
           r # NoRequest /\ r.do = "consume" => r.jti \in DOMAIN links,
           requests' = [requests EXCEPT ![t] = r],
           UNCHANGED <<clock, links, consumed, epoch, sessions>>
    PROVE  LoginInv'
<1>1. LoginTypes'
  BY DEF LoginInv, LoginTypes
<1> QED
  BY <1>1, LoginKept

\* A sign-up goes on or leaves.
LEMMA SignupStep ==
    ASSUME LoginAssumption, LoginInv, NEW t \in PoolThreads, AllowStep(t)
    PROVE  LoginInv'
<1>1. requests[t] # NoRequest /\ requests[t].do # "consume"
      /\ UNCHANGED <<clock, links, consumed, epoch, sessions>>
  BY DEF AllowStep
<1>2. PICK r \in [do : {"look", "pop", "record"}, ip : Ips, email : Emails, at : Nat] :
         r = requests[t]
  BY <1>1 DEF LoginInv, LoginTypes, Requests
<1>3. \/ requests' = [requests EXCEPT ![t] = NoRequest]
      \/ \E do \in {"look", "pop", "record"} : requests' = [requests EXCEPT ![t].do = do]
  BY DEF AllowStep
<1>4. CASE requests' = [requests EXCEPT ![t] = NoRequest]
  BY <1>1, <1>4, ThreadStep
<1>5. ASSUME NEW do \in {"look", "pop", "record"}, requests' = [requests EXCEPT ![t].do = do]
      PROVE  LoginInv'
  <2>1. PICK q : q = [r EXCEPT !.do = do]
    OBVIOUS
  <2>2. q \in Requests /\ q.do # "consume"
    BY <2>1 DEF Requests
  <2>3. requests' = [requests EXCEPT ![t] = q]
    BY <1>2, <1>5, <2>1
  <2> QED
    BY <1>1, <2>2, <2>3, ThreadStep
<1> QED
  BY <1>3, <1>4, <1>5

\* The use of a link, under the lock.
LEMMA ConsumeStep ==
    ASSUME LoginAssumption, LoginInv, NEW t \in PoolThreads, consume(t)
    PROVE  LoginInv'
<1>0. /\ LoginTypes /\ Numbered /\ Remembered /\ LinkUsedOnce
      /\ requests' = [requests EXCEPT ![t] = NoRequest] /\ UNCHANGED <<clock, links, epoch>>
  BY DEF LoginInv, consume
<1>1. PICK j \in DOMAIN links : j = requests[t].jti
  BY <1>0 DEF consume, LoginTypes
<1>2. PICK c : c = _prune(consumed)
  OBVIOUS
<1>3. PICK e \in Nat : e = links[j].exp
  BY <1>0, LinkLives
<1>4. LoginTypes'
  BY <1>0 DEF LoginTypes
<1>5. \A k : k \in DOMAIN consumed /\ consumed[k] > clock => k \in DOMAIN c /\ c[k] = consumed[k]
  BY <1>2 DEF _prune
<1>6. \A s \in sessions : s.epoch = epoch /\ clock < links[s.jti].exp =>
         s.jti \in DOMAIN c /\ c[s.jti] = links[s.jti].exp
  <2> SUFFICES ASSUME NEW s \in sessions, s.epoch = epoch, clock < links[s.jti].exp
               PROVE  s.jti \in DOMAIN c /\ c[s.jti] = links[s.jti].exp
    OBVIOUS
  <2>1. links[s.jti].exp \in Nat /\ clock \in Nat
    <3>1. s.jti \in DOMAIN links
      BY <1>0 DEF Numbered
    <3> QED
      BY <1>0, <3>1, LinkLives DEF LoginTypes
  <2>2. s.jti \in DOMAIN consumed /\ consumed[s.jti] = links[s.jti].exp
    BY <1>0 DEF Remembered
  <2> QED
    BY <1>5, <2>1, <2>2
<1>7. CASE j \in DOMAIN c
  <2>1. consumed' = c /\ UNCHANGED sessions
    BY <1>1, <1>2, <1>7 DEF consume
  <2> QED
    BY <1>0, <1>4, <1>6, <2>1 DEF LoginInv, Numbered, Remembered, LinkUsedOnce
<1>8. CASE j \notin DOMAIN c
  <2>1. PICK b : b = [jti |-> j, at |-> clock, epoch |-> epoch, n |-> Cardinality(sessions)]
    OBVIOUS
  <2>2. consumed' = Put(c, j, e) /\ sessions' = sessions \cup {b}
    BY <1>1, <1>2, <1>3, <1>8, <2>1 DEF consume
  <2>3. b.jti = j /\ b.at = clock /\ b.epoch = epoch /\ b.n = Cardinality(sessions)
    BY <2>1
  <2>4. Cardinality(sessions) \in Nat
    BY <1>0, FS_CardinalityType DEF Numbered
  <2>5. b \notin sessions
    BY <1>0, <2>3, <2>4 DEF Numbered
  <2>6. IsFiniteSet(sessions') /\ Cardinality(sessions') = Cardinality(sessions) + 1
    BY <1>0, <2>2, <2>5, FS_AddElement DEF Numbered
  <2>7. Numbered'
    <3>1. \A s \in sessions : s.n \in Nat /\ s.n < Cardinality(sessions')
      BY <1>0, <2>4, <2>6 DEF Numbered
    <3>2. b.n \in Nat /\ b.n < Cardinality(sessions')
      BY <2>3, <2>4, <2>6
    <3>3. b.epoch \in Nat /\ b.epoch <= epoch /\ b.jti \in DOMAIN links
      BY <1>0, <2>3 DEF LoginTypes
    <3> QED
      BY <1>0, <2>2, <2>6, <3>1, <3>2, <3>3 DEF Numbered
  <2>8. /\ j \in DOMAIN consumed' /\ consumed'[j] = e
        /\ \A k \in DOMAIN c : k \in DOMAIN consumed' /\ consumed'[k] = c[k]
    BY <1>8, <2>2 DEF Put
  <2>9. Remembered'
    BY <1>0, <1>3, <1>6, <2>2, <2>3, <2>8 DEF Remembered
  <2>10. \A a \in sessions : a.jti = j /\ a.epoch = epoch => b.at >= links[j].exp
    BY <1>0, <1>3, <1>6, <1>8, <2>3 DEF LoginTypes
  <2>11. \A a \in sessions : ~(b.n < a.n)
    BY <1>0, <2>3, <2>4 DEF Numbered
  <2>12. LinkUsedOnce'
    <3> SUFFICES ASSUME NEW x \in sessions', NEW y \in sessions', x.n < y.n, x.jti = y.jti
                 PROVE  x.epoch # y.epoch \/ y.at >= links[y.jti].exp
      BY <1>0 DEF LinkUsedOnce
    <3>1. CASE x \in sessions /\ y \in sessions
      BY <1>0, <3>1 DEF LinkUsedOnce
    <3>2. CASE x \in sessions /\ y = b
      BY <2>3, <2>10, <3>2
    <3>3. CASE x = b
      BY <2>2, <2>3, <2>4, <2>11, <3>3
    <3> QED
      BY <2>2, <3>1, <3>2, <3>3
  <2> QED
    BY <1>4, <2>7, <2>9, <2>12 DEF LoginInv
<1> QED
  BY <1>7, <1>8

\* A restart forgets the used links with the epoch they belong to.
LEMMA RestartStep == ASSUME LoginAssumption, LoginInv, Restart PROVE LoginInv'
<1>0. /\ LoginTypes /\ Numbered /\ Remembered /\ LinkUsedOnce
      /\ epoch' = epoch + 1 /\ requests' = [t \in PoolThreads |-> NoRequest]
      /\ UNCHANGED <<clock, links, sessions>>
  BY DEF LoginInv, Restart
<1>1. LoginTypes'
  BY <1>0 DEF LoginTypes
<1>2. \A s \in sessions : s.epoch \in Nat /\ s.epoch <= epoch' /\ s.epoch # epoch'
  BY <1>0 DEF LoginTypes, Numbered
<1> QED
  BY <1>0, <1>1, <1>2 DEF LoginInv, Numbered, Remembered, LinkUsedOnce

\* Every action preserves the invariant.
LEMMA LoginStep == ASSUME LoginAssumption, LoginInv, [LoginOrSignup]_loginVars PROVE LoginInv'
<1>1. ASSUME NEW t \in PoolThreads, NEW jti \in DOMAIN links, verify_magic_link(t, jti)
      PROVE  LoginInv'
  <2>1. PICK r : r = [do |-> "consume", jti |-> jti]
    OBVIOUS
  <2>2. r \in Requests /\ r.jti \in DOMAIN links
    BY <2>1 DEF Requests, LoginInv, LoginTypes
  <2> QED
    BY <1>1, <2>1, <2>2, ThreadStep DEF verify_magic_link
<1>2. ASSUME NEW t \in PoolThreads, NEW email \in Emails, NEW ip \in Ips, signup(t, email, ip)
      PROVE  LoginInv'
  <2>1. PICK r : r = [do |-> "look", ip |-> ip, email |-> email, at |-> clock]
    OBVIOUS
  <2>2. r \in Requests /\ r.do = "look"
    BY <2>1 DEF Requests, LoginInv, LoginTypes
  <2> QED
    BY <1>2, <2>1, <2>2, ThreadStep DEF signup
<1>3. CASE ClockTick
  <2>1. clock' = clock + 1 /\ UNCHANGED <<links, consumed, requests, epoch, sessions>>
    BY <1>3 DEF ClockTick
  <2>2. LoginTypes'
    BY <2>1 DEF LoginInv, LoginTypes
  <2> QED
    BY <2>1, <2>2, LoginKept
<1>4. CASE UNCHANGED <<clock, links, consumed, requests, epoch, sessions>>
  <2>1. LoginTypes'
    BY <1>4 DEF LoginInv, LoginTypes
  <2> QED
    BY <1>4, <2>1, LoginKept
<1>5. ASSUME NEW email \in Emails, unsubscribe(email) \/ test_briefing(email) PROVE LoginInv'
  BY <1>4, <1>5 DEF unsubscribe, test_briefing
<1> QED
  BY <1>1, <1>2, <1>3, <1>4, <1>5, MailStep, ConsumeStep, RestartStep, SignupStep
  DEF LoginOrSignup, LoginNext, SignupNext, loginVars

\* A mailed link gives a second session only after a restart of the process or to a
\* request that was checked in the link's life and came to the lock after it
\* (LinkUsedOnce; single_use.py:25-34, auth.py:111-131).
THEOREM LinksUsedOnce == ASSUME LoginAssumption PROVE LoginSpec => []LinkUsedOnce
<1>1. LoginInit => LoginInv
  BY FS_EmptySet DEF LoginInit, LoginInv, LoginTypes, Numbered, Remembered, LinkUsedOnce
<1>2. LoginInv /\ [LoginOrSignup]_loginVars => LoginInv'
  BY LoginStep
<1>3. LoginInv => LinkUsedOnce
  BY DEF LoginInv
<1> QED
  BY <1>1, <1>2, <1>3, PTL DEF LoginSpec

-----------------------------------------------------------------------------
(* The rate limits *)

\* The limits: the key of a window, whom it counts, its cap and its length.
Limits ==
    {[key |-> <<"1m", e>>, of |-> e, cap |-> 1, window |-> MINUTE] : e \in Emails}
    \cup {[key |-> <<"1h", e>>, of |-> e, cap |-> HourCap, window |-> HOUR] : e \in Emails}
    \cup {[key |-> <<"ip", i>>, of |-> i, cap |-> IpCap, window |-> HOUR] : i \in Ips}

HitOf(p) == [at |-> p.at, n |-> p.n]

\* What was let through is numbered in its order, and a deque is finite.
Counted ==
    /\ clock \in Nat /\ epoch \in Nat
    /\ IsFiniteSet(passed)
    /\ \A p \in passed : /\ p.n \in Nat /\ p.n < Cardinality(passed) /\ p.at \in Nat
                         /\ p.epoch \in Nat /\ p.epoch <= epoch
    /\ \A p, q \in passed : p.n = q.n => p = q
    /\ \A k \in DOMAIN hits : IsFiniteSet(hits[k])

\* A window still has the hit of everything that counts in it.
Covered ==
    \A l \in Limits : \A p \in Within(l.of, l.window) : HitOf(p) \in HitsOf(hits, l.key)

WithinLimits == \A l \in Limits : Cardinality(Within(l.of, l.window)) <= l.cap

LimitInv == Counted /\ Covered /\ WithinLimits

\* The limits are what MailsLimited speaks of.
LEMMA LimitsSuffice == WithinLimits => MailsLimited
<1> SUFFICES ASSUME WithinLimits PROVE MailsLimited
  OBVIOUS
<1>1. ASSUME NEW e \in Emails
      PROVE  Cardinality(Within(e, MINUTE)) <= 1 /\ Cardinality(Within(e, HOUR)) <= HourCap
  <2>1. PICK l : l = [key |-> <<"1m", e>>, of |-> e, cap |-> 1, window |-> MINUTE]
    OBVIOUS
  <2>2. PICK m : m = [key |-> <<"1h", e>>, of |-> e, cap |-> HourCap, window |-> HOUR]
    OBVIOUS
  <2>3. l \in Limits /\ m \in Limits
    BY <2>1, <2>2 DEF Limits
  <2> QED
    BY <2>1, <2>2, <2>3 DEF WithinLimits
<1>2. ASSUME NEW i \in Ips PROVE Cardinality(Within(i, HOUR)) <= IpCap
  <2>1. PICK l : l = [key |-> <<"ip", i>>, of |-> i, cap |-> IpCap, window |-> HOUR]
    OBVIOUS
  <2>2. l \in Limits
    BY <2>1 DEF Limits
  <2> QED
    BY <2>1, <2>2 DEF WithinLimits
<1> QED
  BY <1>1, <1>2 DEF MailsLimited

\* A limit counts an address or an IP address.
LEMMA LimitTypes ==
    ASSUME LoginAssumption, NEW l \in Limits
    PROVE  l.window \in Nat /\ l.cap \in Nat /\ l.of \in Emails \cup Ips
BY DEF Limits, LoginAssumption

\* The rules of a request are the limits that count it, each with its own key.
LEMMA RulesMatch ==
    ASSUME LoginAssumption, NEW email \in Emails, NEW ip \in Ips, NEW l \in Limits,
           NEW caps, caps = magic_link_rules(email, ip)
    PROVE  /\ \A i \in DOMAIN caps :
                 caps[i][1] = l.key => caps[i][2] = l.cap /\ caps[i][3] = l.window
           /\ l.of \in {email, ip} => \E i \in DOMAIN caps : caps[i][1] = l.key
<1>1. /\ DOMAIN caps = {1, 2, 3}
      /\ caps[1][1] = <<"1m", email>> /\ caps[1][2] = 1 /\ caps[1][3] = MINUTE
      /\ caps[2][1] = <<"1h", email>> /\ caps[2][2] = HourCap /\ caps[2][3] = HOUR
      /\ caps[3][1] = <<"ip", ip>> /\ caps[3][2] = IpCap /\ caps[3][3] = HOUR
  BY DEF magic_link_rules
<1>2. CASE \E e \in Emails : l = [key |-> <<"1m", e>>, of |-> e, cap |-> 1, window |-> MINUTE]
  BY <1>1, <1>2 DEF LoginAssumption
<1>3. CASE \E e \in Emails :
              l = [key |-> <<"1h", e>>, of |-> e, cap |-> HourCap, window |-> HOUR]
  BY <1>1, <1>3 DEF LoginAssumption
<1>4. CASE \E i \in Ips : l = [key |-> <<"ip", i>>, of |-> i, cap |-> IpCap, window |-> HOUR]
  BY <1>1, <1>4 DEF LoginAssumption
<1> QED
  BY <1>2, <1>3, <1>4 DEF Limits

\* Neither the answer of allow loses a hit that is still in the window of its key, nor
\* does it leave a deque infinite.
LEMMA AllowKeeps ==
    ASSUME NEW h, NEW caps, NEW k, NEW w,
           \A i \in DOMAIN caps : caps[i][1] = k => caps[i][3] = w,
           NEW x \in HitsOf(h, k), x.at > clock - w
    PROVE  x \in HitsOf(allow(h, caps).h, k)
<1>1. PICK p : p = Pruned(h, caps)
  OBVIOUS
<1>2. k \in DOMAIN p /\ x \in p[k]
  BY <1>1 DEF Pruned, Reached, HitsOf
<1>3. PICK q : q = Recorded(p, caps)
  OBVIOUS
<1>4. k \in DOMAIN q /\ x \in q[k]
  BY <1>2, <1>3 DEF Recorded
<1>5. allow(h, caps).h = p \/ allow(h, caps).h = q
  BY <1>1, <1>3 DEF allow
<1> QED
  BY <1>2, <1>4, <1>5 DEF HitsOf

LEMMA AllowFinite ==
    ASSUME NEW h, NEW caps, \A k \in DOMAIN h : IsFiniteSet(h[k]),
           NEW g, g = allow(h, caps).h, NEW k \in DOMAIN g
    PROVE  IsFiniteSet(g[k])
<1>1. PICK p : p = Pruned(h, caps)
  OBVIOUS
<1>2. IsFiniteSet(HitsOf(h, k))
  BY FS_EmptySet DEF HitsOf
<1>3. k \in DOMAIN p => p[k] \subseteq HitsOf(h, k)
  BY <1>1 DEF Pruned
<1>4. k \in DOMAIN p => IsFiniteSet(p[k]) /\ IsFiniteSet(p[k] \cup {Hit(clock)})
  BY <1>2, <1>3, FS_Subset, FS_AddElement
<1>5. g = p \/ g = Recorded(p, caps)
  BY <1>1 DEF allow
<1> QED
  BY <1>4, <1>5 DEF Recorded

\* A request that is let through found every window below its cap, and is in it.
LEMMA AllowRecords ==
    ASSUME NEW h, NEW caps, NEW n \in Nat, DOMAIN caps = 1 .. n, allow(h, caps).ok,
           NEW i \in DOMAIN caps
    PROVE  ~Full(h, caps, i) /\ Hit(clock) \in HitsOf(allow(h, caps).h, caps[i][1])
<1>1. \A j \in DOMAIN caps : ~Full(h, caps, j)
  BY DEF allow
<1>2. PICK p : p = Pruned(h, caps)
  OBVIOUS
<1>3. allow(h, caps).h = Recorded(p, caps)
  BY <1>1, <1>2 DEF allow
<1>4. Reached(h, caps) = DOMAIN caps
  BY <1>1 DEF Reached
<1>5. caps[i][1] \in DOMAIN p
  BY <1>2, <1>4 DEF Pruned
<1> QED
  BY <1>1, <1>3, <1>5 DEF Recorded, HitsOf

\* What counts in a window was let through before.
LEMMA WindowFinite == ASSUME Counted, NEW c, NEW w PROVE IsFiniteSet(Within(c, w))
<1>1. Within(c, w) \subseteq passed
  BY DEF Within
<1> QED
  BY <1>1, FS_Subset DEF Counted

\* A step that lets nothing through and keeps what is in a window.
LEMMA LimitKept ==
    ASSUME LoginAssumption, LimitInv, UNCHANGED <<passed, epoch>>, clock' \in {clock, clock + 1},
           \A k \in DOMAIN hits' : IsFiniteSet(hits'[k]),
           \A l \in Limits : \A x \in HitsOf(hits, l.key) :
               x.at > clock - l.window => x \in HitsOf(hits', l.key)
    PROVE  LimitInv'
<1>0. Counted /\ Covered /\ WithinLimits
  BY DEF LimitInv
<1>1. Counted'
  BY <1>0 DEF Counted
<1>2. \A p \in passed : p.at \in Nat /\ clock \in Nat
  BY <1>0 DEF Counted
<1>3. ASSUME NEW l \in Limits
      PROVE  /\ Within(l.of, l.window)' \subseteq Within(l.of, l.window)
             /\ \A p \in Within(l.of, l.window) : p.at > clock - l.window
  BY <1>2, LimitTypes DEF Within
<1>4. Covered'
  <2> SUFFICES ASSUME NEW l \in Limits, NEW p \in Within(l.of, l.window)'
               PROVE  HitOf(p) \in HitsOf(hits', l.key)
    BY Zenon DEF Covered, HitOf, HitsOf
  <2>1. HitOf(p) \in HitsOf(hits, l.key) /\ p.at > clock - l.window
    BY <1>0, <1>3 DEF Covered
  <2> QED
    BY <2>1 DEF HitOf
<1>5. ASSUME NEW l \in Limits PROVE Cardinality(Within(l.of, l.window)') <= l.cap
  <2>1. PICK S : S = Within(l.of, l.window)
    OBVIOUS
  <2>2. PICK T : T = Within(l.of, l.window)'
    OBVIOUS
  <2>3. IsFiniteSet(S) /\ T \subseteq S /\ Cardinality(S) <= l.cap /\ l.cap \in Nat
    BY <1>0, <1>3, <2>1, <2>2, WindowFinite, LimitTypes DEF WithinLimits
  <2> QED
    BY <2>2, <2>3, FS_Subset, FS_CardinalityType
<1>6. WithinLimits'
  BY <1>5 DEF WithinLimits
<1> QED
  BY <1>1, <1>4, <1>6 DEF LimitInv

\* A request is let through.
LEMMA CountedGrows ==
    ASSUME Counted, NEW b, passed' = passed \cup {b}, b.n = Cardinality(passed), b.at \in Nat,
           b.epoch = epoch, UNCHANGED <<clock, epoch>>,
           \A k \in DOMAIN hits' : IsFiniteSet(hits'[k])
    PROVE  Counted'
<1>1. Cardinality(passed) \in Nat
  BY FS_CardinalityType DEF Counted
<1>2. b \notin passed
  BY <1>1 DEF Counted
<1>3. IsFiniteSet(passed') /\ Cardinality(passed') = Cardinality(passed) + 1
  BY <1>2, FS_AddElement DEF Counted
<1>4. \A p \in passed : p.n \in Nat /\ p.n < Cardinality(passed') /\ p.n # b.n
  BY <1>1, <1>3 DEF Counted
<1>5. b.n \in Nat /\ b.n < Cardinality(passed') /\ b.epoch \in Nat /\ b.epoch <= epoch
  BY <1>1, <1>3 DEF Counted
<1> QED
  BY <1>3, <1>4, <1>5 DEF Counted

\* A window has as many hits as requests that count in it, at the least.
LEMMA HitsBound ==
    ASSUME Counted, NEW S \in SUBSET passed, NEW H, IsFiniteSet(H),
           \A p \in S : HitOf(p) \in H
    PROVE  Cardinality(S) <= Cardinality(H)
<1>1. PICK f : f = [p \in S |-> HitOf(p)]
  OBVIOUS
<1>2. \A p, q \in S : f[p] = f[q] => p = q
  BY <1>1 DEF HitOf, Counted
<1>3. f \in Injection(S, H)
  BY <1>1, <1>2 DEF Injection, IsInjective
<1> QED
  BY <1>3, FS_Injection

\* A mail that is let through: it counts in the windows of its address and its IP
\* address, and each of them had room.
LEMMA MailPasses ==
    ASSUME LoginAssumption, LimitInv, NEW email \in Emails, NEW ip \in Ips,
           NEW caps, caps = magic_link_rules(email, ip), allow(hits, caps).ok,
           hits' = allow(hits, caps).h, passed' = Passed({email, ip}, clock),
           UNCHANGED <<clock, epoch>>
    PROVE  LimitInv'
<1>0. Counted /\ Covered /\ WithinLimits
  BY DEF LimitInv
<1>1. PICK b : b = [keys |-> {email, ip}, at |-> clock, epoch |-> epoch, n |-> Cardinality(passed)]
  OBVIOUS
<1>2. /\ passed' = passed \cup {b} /\ b.keys = {email, ip} /\ b.at = clock /\ b.epoch = epoch
      /\ b.n = Cardinality(passed) /\ HitOf(b) = Hit(clock)
  BY <1>1 DEF Passed, HitOf, Hit
<1>3. Counted'
  <2>1. \A k \in DOMAIN hits' : IsFiniteSet(hits'[k])
    BY <1>0, AllowFinite DEF Counted
  <2> QED
    BY <1>0, <1>2, <2>1, CountedGrows DEF Counted
<1>4. DOMAIN caps = 1 .. 3
  BY DEF magic_link_rules
<1>5. ASSUME NEW l \in Limits
      PROVE  /\ Within(l.of, l.window)' \subseteq Within(l.of, l.window) \cup {b}
             /\ l.of \notin {email, ip} => Within(l.of, l.window)' = Within(l.of, l.window)
             /\ \A p \in Within(l.of, l.window) : p.at > clock - l.window
  BY <1>2 DEF Within
<1>6. Covered'
  <2> SUFFICES ASSUME NEW l \in Limits, NEW p \in Within(l.of, l.window)'
               PROVE  HitOf(p) \in HitsOf(hits', l.key)
    BY Zenon DEF Covered, HitOf, HitsOf
  <2>1. CASE p \in Within(l.of, l.window)
    <3>1. PICK x \in HitsOf(hits, l.key) : x = HitOf(p) /\ x.at > clock - l.window
      BY <1>0, <1>5, <2>1 DEF Covered, HitOf
    <3>2. \A i \in DOMAIN caps : caps[i][1] = l.key => caps[i][3] = l.window
      BY RulesMatch
    <3> QED
      BY <3>1, <3>2, AllowKeeps
  <2>2. CASE p = b /\ l.of \in {email, ip}
    <3>1. PICK i \in DOMAIN caps : caps[i][1] = l.key
      BY <2>2, RulesMatch
    <3>2. Hit(clock) \in HitsOf(allow(hits, caps).h, caps[i][1])
      BY <1>4, AllowRecords
    <3> QED
      BY <1>2, <2>2, <3>1, <3>2
  <2> QED
    BY <1>5, <2>1, <2>2
<1>7. ASSUME NEW l \in Limits PROVE Cardinality(Within(l.of, l.window)') <= l.cap
  <2>1. PICK S : S = Within(l.of, l.window)
    OBVIOUS
  <2>2. PICK T : T = Within(l.of, l.window)'
    OBVIOUS
  <2>3. IsFiniteSet(S) /\ S \subseteq passed /\ Cardinality(S) \in Nat
    BY <1>0, <2>1, WindowFinite, FS_CardinalityType DEF Within
  <2>4. CASE l.of \notin {email, ip}
    BY <1>0, <1>5, <2>2, <2>4 DEF WithinLimits
  <2>5. CASE l.of \in {email, ip}
    <3>1. PICK i \in DOMAIN caps :
             caps[i][1] = l.key /\ caps[i][2] = l.cap /\ caps[i][3] = l.window
      BY <2>5, RulesMatch
    <3>2. PICK H : H = Left(hits, caps, i)
      OBVIOUS
    <3>3. IsFiniteSet(H) /\ Cardinality(H) \in Nat
      <4>1. IsFiniteSet(HitsOf(hits, l.key))
        BY <1>0, FS_EmptySet DEF HitsOf, Counted
      <4>2. H \subseteq HitsOf(hits, l.key)
        BY <3>1, <3>2 DEF Left
      <4> QED
        BY <4>1, <4>2, FS_Subset, FS_CardinalityType
    <3>4. \A p \in S : HitOf(p) \in H
      <4>1. \A j \in DOMAIN caps : caps[j][1] = l.key => caps[j][3] = l.window
        BY RulesMatch
      <4>2. 1 .. i \subseteq DOMAIN caps
        BY <1>4
      <4>3. \A p \in S : HitOf(p) \in HitsOf(hits, l.key) /\ HitOf(p).at > clock - l.window
        BY <1>0, <1>5, <2>1, Zenon DEF Covered, HitOf
      <4> QED
        BY <3>1, <3>2, <4>1, <4>2, <4>3 DEF Left
    <3>5. Cardinality(S) <= Cardinality(H)
      BY <1>0, <2>3, <3>3, <3>4, HitsBound
    <3>6. ~(Cardinality(H) >= l.cap)
      BY <1>4, <3>1, <3>2, AllowRecords DEF Full
    <3>7. T \subseteq S \cup {b}
      BY <1>5, <2>1, <2>2
    <3>8. IsFiniteSet(S \cup {b}) /\ Cardinality(S \cup {b}) <= Cardinality(S) + 1
      <4>1. PICK c : c = Cardinality(S)
        OBVIOUS
      <4>2. /\ IsFiniteSet(S \cup {b})
            /\ Cardinality(S \cup {b}) = IF b \in S THEN c ELSE c + 1
        BY <2>3, <4>1, FS_AddElement, Zenon
      <4> QED
        BY <2>3, <4>1, <4>2
    <3>9. Cardinality(T) <= Cardinality(S \cup {b}) /\ Cardinality(T) \in Nat
      BY <3>7, <3>8, FS_Subset, FS_CardinalityType
    <3>10. l.cap \in Nat /\ Cardinality(S \cup {b}) \in Nat
      BY <3>8, LimitTypes, FS_CardinalityType
    <3> QED
      BY <2>2, <2>3, <3>3, <3>5, <3>6, <3>8, <3>9, <3>10
  <2> QED
    BY <2>4, <2>5
<1>8. WithinLimits'
  BY <1>7 DEF WithinLimits
<1> QED
  BY <1>3, <1>6, <1>8 DEF LimitInv

\* A request for a mail, let through or not.
LEMMA MailLimitStep ==
    ASSUME LoginAssumption, LimitInv, NEW email \in Emails, NEW ip \in Ips,
           request_magic_link(email, ip)
    PROVE  LimitInv'
<1>1. PICK caps : caps = magic_link_rules(email, ip)
  OBVIOUS
<1>2. /\ hits' = allow(hits, caps).h /\ UNCHANGED <<clock, epoch>>
      /\ \/ passed' = passed
         \/ allow(hits, caps).ok /\ passed' = Passed({email, ip}, clock)
  BY <1>1 DEF request_magic_link
<1>3. CASE passed' = passed
  <2>1. \A k \in DOMAIN hits' : IsFiniteSet(hits'[k])
    BY <1>2, AllowFinite DEF LimitInv, Counted
  <2>2. ASSUME NEW l \in Limits, NEW x \in HitsOf(hits, l.key), x.at > clock - l.window
        PROVE  x \in HitsOf(hits', l.key)
    <3>1. \A i \in DOMAIN caps : caps[i][1] = l.key => caps[i][3] = l.window
      BY <1>1, RulesMatch
    <3> QED
      BY <1>2, <2>2, <3>1, AllowKeeps
  <2> QED
    BY <1>2, <1>3, <2>1, <2>2, LimitKept
<1> QED
  BY <1>1, <1>2, <1>3, MailPasses

\* A deque of the sign-ups changes: no window of the limits is touched.
LEMMA SignupHits ==
    ASSUME Counted, NEW ip \in Ips, NEW g, IsFiniteSet(g), hits' = Put(hits, SignupKey(ip), g)
    PROVE  /\ \A k \in DOMAIN hits' : IsFiniteSet(hits'[k])
           /\ \A l \in Limits : HitsOf(hits', l.key) = HitsOf(hits, l.key)
<1>1. \A k \in DOMAIN hits' : IsFiniteSet(hits'[k])
  BY DEF Put, Counted
<1>2. \A l \in Limits : l.key # SignupKey(ip)
  BY DEF Limits, SignupKey
<1> QED
  BY <1>1, <1>2 DEF HitsOf, Put

LEMMA SignupLimitStep ==
    ASSUME LoginAssumption, LoginTypes, LimitInv, NEW t \in PoolThreads, AllowStep(t)
    PROVE  LimitInv'
<1>0. /\ Counted /\ Covered /\ WithinLimits
      /\ requests[t] # NoRequest /\ requests[t].do # "consume" /\ UNCHANGED <<clock, epoch>>
  BY DEF LimitInv, AllowStep
<1>1. PICK r \in [do : {"look", "pop", "record"}, ip : Ips, email : Emails, at : Nat] :
         r = requests[t]
  BY <1>0 DEF LoginTypes, Requests
<1>2. PICK h : h = HitsOf(hits, SignupKey(r.ip))
  OBVIOUS
<1>3. IsFiniteSet(h)
  BY <1>0, <1>2, FS_EmptySet DEF HitsOf, Counted
<1>4. CASE UNCHANGED <<hits, passed>>
  BY <1>0, <1>4, LimitKept DEF Counted
<1>5. CASE hits' = Put(hits, SignupKey(r.ip), h \ {Oldest(h)}) /\ UNCHANGED passed
  <2>1. IsFiniteSet(h \ {Oldest(h)})
    BY <1>3, FS_Subset
  <2> QED
    BY <1>0, <1>1, <1>5, <2>1, SignupHits, LimitKept
<1>6. CASE /\ hits' = Put(hits, SignupKey(r.ip), h \cup {Hit(r.at)})
           /\ passed' = Passed({SignupKey(r.ip)}, r.at)
  <2>1. IsFiniteSet(h \cup {Hit(r.at)})
    BY <1>3, FS_AddElement
  <2>2. /\ \A k \in DOMAIN hits' : IsFiniteSet(hits'[k])
        /\ \A l \in Limits : HitsOf(hits', l.key) = HitsOf(hits, l.key)
    BY <1>0, <1>1, <1>6, <2>1, SignupHits
  <2>3. PICK b : b = [keys |-> {SignupKey(r.ip)}, at |-> r.at, epoch |-> epoch,
                      n |-> Cardinality(passed)]
    OBVIOUS
  <2>4. /\ passed' = passed \cup {b} /\ b.keys = {SignupKey(r.ip)} /\ b.at \in Nat
        /\ b.epoch = epoch /\ b.n = Cardinality(passed)
    BY <1>1, <1>6, <2>3 DEF Passed
  <2>5. Counted'
    BY <1>0, <2>2, <2>4, CountedGrows
  <2>6. \A l \in Limits : Within(l.of, l.window)' = Within(l.of, l.window)
    <3>1. \A l \in Limits : l.of # SignupKey(r.ip)
      BY <1>1, LimitTypes DEF LoginAssumption
    <3> QED
      BY <1>0, <2>4, <3>1 DEF Within
  <2>7. Covered' /\ WithinLimits'
    BY <1>0, <2>2, <2>6 DEF Covered, WithinLimits, HitOf
  <2> QED
    BY <2>5, <2>7 DEF LimitInv
<1> QED
  BY <1>1, <1>2, <1>4, <1>5, <1>6 DEF AllowStep

\* Every action preserves the limits.
LEMMA LimitStep ==
    ASSUME LoginAssumption, LoginInv, LimitInv, [LoginOrSignup]_loginVars PROVE LimitInv'
<1>0. LoginTypes
  BY DEF LoginInv
<1>1. CASE UNCHANGED <<passed, epoch, hits>> /\ clock' \in {clock, clock + 1}
  BY <1>1, LimitKept DEF LimitInv, Counted
<1>2. CASE Restart
  <2>1. /\ Counted /\ epoch' = epoch + 1 /\ hits' = <<>> /\ UNCHANGED <<clock, passed>>
    BY <1>2 DEF LimitInv, Restart
  <2>2. Counted'
    BY <2>1 DEF Counted
  <2>3. \A p \in passed : p.epoch # epoch'
    BY <2>1 DEF Counted
  <2>4. \A c, w : Within(c, w)' = {}
    BY <2>1, <2>3 DEF Within
  <2>5. Covered' /\ WithinLimits'
    BY <2>4, FS_EmptySet, LimitTypes DEF Covered, WithinLimits
  <2> QED
    BY <2>2, <2>5 DEF LimitInv
<1>3. ASSUME NEW t \in PoolThreads, consume(t) PROVE LimitInv'
  BY <1>1, <1>3 DEF consume
<1>4. ASSUME NEW t \in PoolThreads, NEW jti \in DOMAIN links, verify_magic_link(t, jti)
      PROVE  LimitInv'
  BY <1>1, <1>4 DEF verify_magic_link
<1>5. ASSUME NEW t \in PoolThreads, NEW email \in Emails, NEW ip \in Ips, signup(t, email, ip)
      PROVE  LimitInv'
  BY <1>1, <1>5 DEF signup
<1>6. ASSUME NEW email \in Emails, unsubscribe(email) \/ test_briefing(email) PROVE LimitInv'
  BY <1>1, <1>6 DEF unsubscribe, test_briefing
<1>7. CASE ClockTick \/ UNCHANGED loginVars
  BY <1>1, <1>7 DEF ClockTick, loginVars
<1> QED
  BY <1>0, <1>2, <1>3, <1>4, <1>5, <1>6, <1>7, MailLimitStep, SignupLimitStep
  DEF LoginOrSignup, LoginNext, SignupNext

\* Since the process started no address was mailed more than its limits in a minute
\* and in an hour and no IP address asked for more than its cap (MailsLimited;
\* ratelimit.py:22-39, 60-68), for any windows and caps, whatever requests were refused,
\* mails failed and sign-ups used the limiter from pool threads meanwhile.
THEOREM LimitsHold == ASSUME LoginAssumption PROVE LoginSpec => []MailsLimited
<1>1. LoginInit => LoginInv /\ LimitInv
  <2> SUFFICES ASSUME LoginInit PROVE LoginInv /\ LimitInv
    OBVIOUS
  <2>1. LoginInv
    BY FS_EmptySet DEF LoginInit, LoginInv, LoginTypes, Numbered, Remembered, LinkUsedOnce
  <2>2. Counted
    BY FS_EmptySet DEF LoginInit, Counted
  <2>3. \A c, w : Within(c, w) = {}
    BY DEF LoginInit, Within
  <2>4. Covered /\ WithinLimits
    BY <2>3, FS_EmptySet, LimitTypes DEF Covered, WithinLimits
  <2> QED
    BY <2>1, <2>2, <2>4 DEF LimitInv
<1>2. LoginInv /\ LimitInv /\ [LoginOrSignup]_loginVars => (LoginInv /\ LimitInv)'
  BY LoginStep, LimitStep
<1>3. LimitInv => MailsLimited
  BY LimitsSuffice DEF LimitInv
<1> QED
  BY <1>1, <1>2, <1>3, PTL DEF LoginSpec

-----------------------------------------------------------------------------
(* BILLING *)

Statuses == {"active", "past_due", "cancelled", "paused", "expired"}
Names == {"subscription_created", "subscription_updated", "subscription_resumed",
          "subscription_cancelled", "subscription_expired",
          "subscription_payment_success", "subscription_payment_failed"}
Events == [sub : Subs, n : Int, name : Names, status : Statuses]
RowType == [ls : Subs \cup {Unset}, status : Statuses \cup {"trialing"}, trial : BOOLEAN]

-----------------------------------------------------------------------------
(* Events *)

\* The name of an event fits the status it carries.
Fits(name, status) ==
    /\ name = "subscription_created" => status = "active"
    /\ name = "subscription_cancelled" => status = "cancelled"
    /\ name = "subscription_expired" => status = "expired"
    /\ name = "subscription_payment_success" => status = "active"
    /\ name = "subscription_payment_failed" => status = "past_due"

\* An event that fits leaves its status in the row, whatever was there.
LEMMA StatusLeft ==
    ASSUME NEW name \in Names, NEW status, NEW old, Fits(name, status),
           name # "subscription_created"
    PROVE  StatusAfter(name, status, old) = status
BY DEF StatusAfter, StatusSet, Fits, Names

\* What the shop may do next.
LEMMA ShopStatuses == DOMAIN Moves = Statuses
BY DEF Statuses, Moves

LEMMA ShopMovesTo ==
    ASSUME NEW from \in Statuses, NEW to \in Moves[from]
    PROVE  /\ to \in Statuses
           /\ from = "past_due" => to \in {"active", "expired"}
           /\ from = "cancelled" => to \in {"active", "expired"}
BY DEF Statuses, Moves

\* The events of a change fit it.
LEMMA ShopEventsFit ==
    ASSUME BillingAssumption, NEW s \in Subs, NEW to \in Statuses, MayMove(s, to),
           shop[s].status \in Statuses \cup {Unset},
           NEW names \in EventsOf(shop[s].status, to)
    PROVE  /\ Len(names) \in {1, 2} /\ DOMAIN names = 1 .. Len(names)
           /\ \A i \in DOMAIN names : names[i] \in Names /\ Fits(names[i], to)
<1> DEFINE from == shop[s].status
           first == EventOf(from, to)
<1>1. /\ from = Unset => to = "active"
      /\ from = "past_due" => to \in {"active", "expired"}
      /\ from = "cancelled" => to \in {"active", "expired"}
  BY ShopMovesTo, ShopStatuses DEF MayMove, BillingAssumption, Statuses
<1>2. first \in Names /\ Fits(first, to)
  <2> HIDE DEF from
  <2>1. CASE from = Unset
    BY <1>1, <2>1 DEF EventOf, Names, Fits
  <2>2. CASE from # Unset /\ to \in {"past_due", "cancelled", "expired"}
    BY <2>2 DEF EventOf, Names, Fits
  <2>3. CASE from # Unset /\ to \notin {"past_due", "cancelled", "expired"}
    BY <1>1, <2>3 DEF EventOf, Names, Fits
  <2> QED
    BY <2>1, <2>2, <2>3
<1>3. names = <<first>> \/ names = <<first, "subscription_updated">>
  BY DEF EventsOf
<1> HIDE DEF first
<1> QED
  BY <1>2, <1>3 DEF Fits, Names
-----------------------------------------------------------------------------
(* Rows *)

TypeInv ==
    /\ shop \in [Subs -> [status : Statuses \cup {Unset}, n : Int]]
    /\ mail \in SUBSET Events
    /\ rows \in Seq(RowType)
    /\ handled \in [Subs -> Events \cup {Unset}]

\* A subscription has one row, and so has the trial.
OneRow == \A i, j \in DOMAIN rows : rows[i].ls = rows[j].ls => i = j

\* An event fits, and the one with the last number has the shop's status.
Current(e) ==
    /\ Fits(e.name, e.status)
    /\ e.n <= shop[e.sub].n
    /\ e.n = shop[e.sub].n => e.status = shop[e.sub].status
MailCurrent == \A e \in mail : Current(e)

\* A row has the status that the last event handled of its subscription carried.
RowFollows(i) ==
    rows[i].ls \in Subs =>
        LET e == handled[rows[i].ls] IN
        e \in Events /\ e.sub = rows[i].ls /\ Current(e) /\ rows[i].status = e.status
RowsFollow == \A i \in DOMAIN rows : RowFollows(i)

BillingInv == TypeInv /\ OneRow /\ MailCurrent /\ RowsFollow

\* With one row at most, the oldest and the newest are that row.
LEMMA TheRow ==
    ASSUME TypeInv, OneRow, NEW ls, Rows(ls) # {}
    PROVE  \E i \in DOMAIN rows :
              /\ rows[i].ls = ls /\ Rows(ls) = {i} /\ Min(Rows(ls)) = i /\ Max(Rows(ls)) = i
<1>1. PICK i \in DOMAIN rows : rows[i].ls = ls
  BY DEF Rows
<1>2. Rows(ls) = {i}
  BY <1>1 DEF Rows, OneRow
<1>3. i \in Int
  BY <1>1 DEF TypeInv
<1>4. \A x, y \in {i} : x <= y
  BY <1>3
<1>5. Min({i}) = i /\ Max({i}) = i
  BY <1>3 DEF Min, Max
<1> QED
  BY <1>1, <1>2, <1>5

\* What a webhook does to the rows: nothing, when the subscription has none and the
\* event is not its creation; else one row is the subscription's and follows the
\* event, and the others stay.
LEMMA WebhookRows ==
    ASSUME BillingAssumption, BillingInv, NEW e \in mail
    PROVE  LET new == lemonsqueezy_webhook(e) IN
           \/ new = rows /\ Rows(e.sub) = {}
           \/ /\ new \in Seq(RowType)
              /\ Rows(e.sub) # {} \/ new # rows
              /\ \E i \in DOMAIN new :
                    /\ new[i].ls = e.sub /\ new[i].status = e.status
                    /\ \A j \in DOMAIN new \ {i} : j \in DOMAIN rows /\ new[j] = rows[j]
                                                   /\ new[j].ls # e.sub
<1> DEFINE new == lemonsqueezy_webhook(e)
           s == e.sub
<1>1. /\ e \in Events /\ s \in Subs /\ s # Unset /\ Fits(e.name, e.status)
      /\ Len(rows) \in Nat /\ DOMAIN rows = 1 .. Len(rows) /\ rows \in Seq(RowType)
  BY DEF BillingInv, TypeInv, MailCurrent, Current, BillingAssumption, Events
<1>2. /\ e.name \in Names /\ e.status \in Statuses
      /\ Paid(s) \in RowType /\ Paid(s).ls = s /\ Paid(s).status = "active"
  BY <1>1 DEF Events, Paid, RowType, Statuses
<1>3. CASE e.name = "subscription_created"
  <2>0. e.status = "active" /\ new = subscription_created(s)
    BY <1>1, <1>3 DEF Fits, lemonsqueezy_webhook
  <2>1. CASE Rows(s) # {}
    <3>1. PICK i \in DOMAIN rows : rows[i].ls = s /\ Rows(s) = {i} /\ Min(Rows(s)) = i
      BY <2>1, TheRow DEF BillingInv
    <3>2. new = [rows EXCEPT ![i] = Paid(s)]
      BY <2>0, <2>1, <3>1 DEF subscription_created
    <3> HIDE DEF new
    <3>3. /\ new \in Seq(RowType) /\ DOMAIN new = DOMAIN rows /\ new[i] = Paid(s)
          /\ \A j \in DOMAIN rows \ {i} : new[j] = rows[j]
      BY <1>1, <1>2, <3>1, <3>2
    <3>4. \A j \in DOMAIN rows \ {i} : rows[j].ls # s
      BY <3>1 DEF Rows
    <3> QED
      BY <1>2, <2>0, <2>1, <3>1, <3>3, <3>4 DEF new
  <2>2. CASE Rows(s) = {} /\ Rows(Unset) # {}
    <3>1. PICK i \in DOMAIN rows : rows[i].ls = Unset /\ Rows(Unset) = {i} /\ Max(Rows(Unset)) = i
      BY <2>2, TheRow DEF BillingInv
    <3>2. new = [rows EXCEPT ![i] = Paid(s)]
      BY <2>0, <2>2, <3>1 DEF subscription_created
    <3> HIDE DEF new
    <3>3. /\ new \in Seq(RowType) /\ DOMAIN new = DOMAIN rows /\ new[i] = Paid(s)
          /\ \A j \in DOMAIN rows \ {i} : new[j] = rows[j]
      BY <1>1, <1>2, <3>1, <3>2
    <3>4. (\A j \in DOMAIN rows : rows[j].ls # s) /\ new # rows
      BY <1>1, <1>2, <2>2, <3>1, <3>3 DEF Rows
    <3> QED
      BY <1>2, <2>0, <3>1, <3>3, <3>4 DEF new
  <2>3. CASE Rows(s) = {} /\ Rows(Unset) = {}
    <3>1. new = Append(rows, Paid(s))
      BY <2>0, <2>3 DEF subscription_created
    <3> HIDE DEF new
    <3>2. /\ new \in Seq(RowType) /\ DOMAIN new = 1 .. Len(rows) + 1
          /\ new[Len(rows) + 1] = Paid(s) /\ \A j \in DOMAIN rows : new[j] = rows[j]
      BY <1>1, <1>2, <3>1
    <3>3. (\A j \in DOMAIN rows : rows[j].ls # s) /\ new # rows
      BY <1>1, <2>3, <3>2 DEF Rows
    <3>4. Len(rows) + 1 \in DOMAIN new /\ \A j \in DOMAIN new \ {Len(rows) + 1} : j \in DOMAIN rows
      BY <1>1, <3>2
    <3> QED
      BY <1>2, <2>0, <3>2, <3>3, <3>4 DEF new
  <2> QED
    BY <2>1, <2>2, <2>3
<1>4. CASE e.name # "subscription_created" /\ Rows(s) = {}
  BY <1>4 DEF lemonsqueezy_webhook
<1>5. CASE e.name # "subscription_created" /\ Rows(s) # {}
  <2>1. PICK i \in DOMAIN rows : rows[i].ls = s /\ Rows(s) = {i} /\ Min(Rows(s)) = i
    BY <1>5, TheRow DEF BillingInv
  <2>2. new = [rows EXCEPT ![i].status = StatusAfter(e.name, e.status, @)]
    BY <1>5, <2>1 DEF lemonsqueezy_webhook
  <2>3. StatusAfter(e.name, e.status, rows[i].status) = e.status
    BY <1>1, <1>2, <1>5, StatusLeft
  <2> DEFINE row == [rows[i] EXCEPT !.status = e.status]
  <2>4. rows[i] \in RowType
    BY <1>1
  <2>5. row \in RowType /\ row.ls = s /\ row.status = e.status
    BY <1>2, <2>1, <2>4 DEF RowType
  <2>6. new = [rows EXCEPT ![i] = row]
    BY <2>2, <2>3
  <2> HIDE DEF new, row
  <2>7. /\ new \in Seq(RowType) /\ DOMAIN new = DOMAIN rows /\ new[i] = row
        /\ \A j \in DOMAIN rows \ {i} : new[j] = rows[j]
    BY <1>1, <2>1, <2>5, <2>6
  <2>8. \A j \in DOMAIN rows \ {i} : rows[j].ls # s
    BY <2>1 DEF Rows
  <2> QED
    BY <1>5, <2>1, <2>5, <2>7, <2>8 DEF new
<1> QED
  BY <1>3, <1>4, <1>5
-----------------------------------------------------------------------------
(* Steps *)

\* An event that fits stays current when its subscription moves on.
LEMMA StaysCurrent ==
    ASSUME TypeInv, NEW s \in Subs, NEW to, NEW k \in {1, 2},
           shop' = [shop EXCEPT ![s] = [status |-> to, n |-> shop[s].n + k]],
           NEW e \in Events, Current(e)
    PROVE  Current(e)'
<1>1. e.n \in Int /\ e.sub \in Subs /\ shop[e.sub].n \in Int /\ shop[s].n \in Int
  BY DEF TypeInv, Events
<1>2. CASE e.sub = s
  <2>1. shop'[e.sub].n = shop[e.sub].n + k
    BY <1>2 DEF TypeInv
  <2> QED
    BY <1>1, <2>1 DEF Current
<1>3. CASE e.sub # s
  <2>1. shop'[e.sub] = shop[e.sub]
    BY <1>1, <1>3 DEF TypeInv
  <2> QED
    BY <2>1 DEF Current
<1> QED
  BY <1>2, <1>3

\* The shop moves a subscription and sends its events.
LEMMA ShopStep ==
    ASSUME BillingAssumption, BillingInv, NEW s \in Subs, NEW to \in Statuses, ShopMoves(s, to)
    PROVE  BillingInv'
<1>0. PICK n : n = shop[s].n
  OBVIOUS
<1>1. PICK names \in EventsOf(shop[s].status, to) :
        /\ shop' = [shop EXCEPT ![s] = [status |-> to, n |-> n + Len(names)]]
        /\ mail' = mail \cup {[sub |-> s, n |-> n + i, name |-> names[i], status |-> to] :
                              i \in DOMAIN names}
  BY <1>0, ZenonT(60) DEF ShopMoves
<1>2. /\ n \in Int /\ Len(names) \in {1, 2} /\ DOMAIN names = 1 .. Len(names)
      /\ \A i \in DOMAIN names : names[i] \in Names /\ Fits(names[i], to)
  BY <1>0, <1>1, ShopEventsFit DEF ShopMoves, BillingInv, TypeInv
<1>3. UNCHANGED <<rows, handled>>
  BY DEF ShopMoves
<1>4. /\ shop'[s].n = n + Len(names) /\ shop'[s].status = to
      /\ shop' \in [Subs -> [status : Statuses \cup {Unset}, n : Int]]
  BY <1>1, <1>2 DEF BillingInv, TypeInv
<1>5. ASSUME NEW i \in DOMAIN names
      PROVE  LET e == [sub |-> s, n |-> n + i, name |-> names[i], status |-> to] IN
             e \in Events /\ Current(e)'
  BY <1>2, <1>4 DEF Events, Current
<1>6. \A e \in Events : Current(e) => Current(e)'
  BY <1>0, <1>1, <1>2, StaysCurrent DEF BillingInv
<1>7. TypeInv'
  BY <1>1, <1>3, <1>4, <1>5 DEF BillingInv, TypeInv
<1>8. MailCurrent'
  BY <1>1, <1>5, <1>6 DEF BillingInv, TypeInv, MailCurrent
<1>9. RowsFollow' /\ OneRow'
  BY <1>3, <1>6 DEF BillingInv, RowsFollow, RowFollows, OneRow
<1> QED
  BY <1>7, <1>8, <1>9 DEF BillingInv

\* An event arrives.
LEMMA DeliverStep ==
    ASSUME BillingAssumption, BillingInv, NEW e \in mail, Deliver(e)
    PROVE  BillingInv'
<1>1. /\ rows' = lemonsqueezy_webhook(e) /\ shop' = shop /\ mail' \in SUBSET mail
      /\ handled' = IF Rows(e.sub) # {} \/ rows' # rows THEN [handled EXCEPT ![e.sub] = e]
                    ELSE handled
  BY DEF Deliver
<1>2. e \in Events /\ e.sub \in Subs /\ Current(e)
  BY DEF BillingInv, TypeInv, MailCurrent, Events
<1>3. \A x : Current(x)' <=> Current(x)
  BY <1>1 DEF Current
<1>4. MailCurrent'
  BY <1>1, <1>3 DEF BillingInv, MailCurrent
<1>5. CASE rows' = rows /\ Rows(e.sub) = {}
  <2>1. handled' = handled
    BY <1>1, <1>5
  <2> QED
    BY <1>1, <1>3, <1>4, <1>5, <2>1
    DEF BillingInv, TypeInv, OneRow, RowsFollow, RowFollows
<1>6. CASE ~(rows' = rows /\ Rows(e.sub) = {})
  <2>1. rows' \in Seq(RowType)
    BY <1>1, <1>6, WebhookRows
  <2>2. PICK i \in DOMAIN rows' :
          /\ rows'[i].ls = e.sub /\ rows'[i].status = e.status
          /\ \A j \in DOMAIN rows' \ {i} : j \in DOMAIN rows /\ rows'[j] = rows[j]
                                            /\ rows'[j].ls # e.sub
    BY <1>1, <1>6, WebhookRows
  <2>3. /\ handled' = [handled EXCEPT ![e.sub] = e] /\ handled'[e.sub] = e
        /\ handled' \in [Subs -> Events \cup {Unset}]
        /\ \A s \in Subs \ {e.sub} : handled'[s] = handled[s]
    BY <1>1, <1>2, <1>6 DEF BillingInv, TypeInv
  <2>4. TypeInv'
    BY <1>1, <2>1, <2>3 DEF BillingInv, TypeInv
  <2>5. OneRow'
    BY <2>2 DEF BillingInv, OneRow
  <2>6. RowFollows(i)'
    BY <1>2, <1>3, <2>2, <2>3 DEF RowFollows
  <2>7. ASSUME NEW j \in DOMAIN rows' \ {i} PROVE RowFollows(j)'
    <3>1. j \in DOMAIN rows /\ rows'[j] = rows[j] /\ rows[j].ls # e.sub /\ RowFollows(j)
      BY <2>2 DEF BillingInv, RowsFollow
    <3> QED
      BY <1>3, <2>3, <3>1 DEF RowFollows
  <2> QED
    BY <1>4, <2>4, <2>5, <2>6, <2>7 DEF BillingInv, RowsFollow
<1> QED
  BY <1>5, <1>6

\* A trial ends.
LEMMA TrialStep ==
    ASSUME BillingInv, NEW i \in DOMAIN rows, TrialEnds(i)
    PROVE  BillingInv'
<1> DEFINE row == [rows[i] EXCEPT !.trial = FALSE]
<1>1. /\ rows \in Seq(RowType) /\ DOMAIN rows = 1 .. Len(rows) /\ rows[i] \in RowType
      /\ rows' = [rows EXCEPT ![i] = row] /\ UNCHANGED <<shop, mail, handled>>
  BY DEF TrialEnds, BillingInv, TypeInv
<1>2. row \in RowType /\ row.ls = rows[i].ls /\ row.status = rows[i].status
  BY <1>1 DEF RowType
<1> HIDE DEF row
<1>3. /\ rows' \in Seq(RowType) /\ DOMAIN rows' = DOMAIN rows
      /\ \A j \in DOMAIN rows : rows'[j].ls = rows[j].ls /\ rows'[j].status = rows[j].status
  BY <1>1, <1>2
<1>4. \A x : Current(x)' <=> Current(x)
  BY <1>1 DEF Current
<1> QED
  BY <1>1, <1>3, <1>4 DEF BillingInv, TypeInv, OneRow, MailCurrent, RowsFollow, RowFollows

\* Every action preserves the invariant.
LEMMA BillingStep == ASSUME BillingAssumption, BillingInv, [BillingNext]_billingVars PROVE BillingInv'
<1>1. ASSUME NEW s \in Subs, NEW to \in DOMAIN Moves, ShopMoves(s, to) PROVE BillingInv'
  BY <1>1, ShopStatuses, ShopStep
<1>2. ASSUME NEW e \in mail, Deliver(e) PROVE BillingInv'
  BY <1>2, DeliverStep
<1>3. ASSUME NEW e \in mail, Lost(e) PROVE BillingInv'
  BY <1>3 DEF Lost, BillingInv, TypeInv, OneRow, MailCurrent, Current, RowsFollow, RowFollows
<1>4. ASSUME NEW i \in DOMAIN rows, TrialEnds(i) PROVE BillingInv'
  BY <1>4, TrialStep
<1>5. CASE UNCHANGED billingVars
  BY <1>5 DEF billingVars, BillingInv, TypeInv, OneRow, MailCurrent, Current, RowsFollow, RowFollows
<1> QED
  BY <1>1, <1>2, <1>3, <1>4, <1>5 DEF BillingNext

\* The first state: no row, or that of a trial.
LEMMA BillingStart == ASSUME BillingAssumption, BillingInit PROVE BillingInv
<1> DEFINE row == [ls |-> Unset, status |-> "trialing", trial |-> TRUE]
<1>1. row \in RowType /\ <<row>> \in Seq(RowType) /\ <<>> \in Seq(RowType)
  BY DEF RowType
<1>2. TypeInv
  <2>1. rows \in Seq(RowType)
    BY <1>1 DEF BillingInit
  <2> QED
    BY <2>1 DEF BillingInit, TypeInv
<1>3. OneRow /\ \A i \in DOMAIN rows : rows[i].ls = Unset
  BY DEF BillingInit, OneRow
<1> QED
  BY <1>2, <1>3 DEF BillingInit, BillingInv, MailCurrent, RowsFollow, RowFollows, BillingAssumption

\* The invariant gives both halves of LastEventDecides.
LEMMA InvDecides == ASSUME BillingAssumption, BillingInv PROVE LastEventDecides
<1>1. ASSUME NEW s \in Subs PROVE Cardinality(Rows(s)) <= 1
  <2>1. CASE Rows(s) = {}
    BY <2>1, FS_EmptySet
  <2>2. CASE Rows(s) # {}
    <3>1. PICK i : Rows(s) = {i}
      BY <2>2, TheRow DEF BillingInv
    <3>2. Cardinality({i}) = 1
      BY FS_Singleton
    <3> QED
      BY <3>1, <3>2
  <2> QED
    BY <2>1, <2>2
<1>2. ASSUME NEW s \in Subs, rows # <<>>, rows[Len(rows)].ls = s, handled[s].n = shop[s].n
      PROVE  require_pro <=> shop[s].status \in InPaidPeriod
  <2>1. Len(rows) \in DOMAIN rows
    BY <1>2 DEF BillingInv, TypeInv
  <2>2. /\ handled[s] \in Events /\ handled[s].sub = s /\ Current(handled[s])
        /\ rows[Len(rows)].status = handled[s].status
    BY <1>2, <2>1 DEF BillingInv, RowsFollow, RowFollows
  <2>3. rows[Len(rows)].status = shop[s].status /\ shop[s].status \in Statuses
    BY <1>2, <2>2 DEF Current, Events
  <2> QED
    BY <1>2, <2>3 DEF require_pro, is_pro, InPaidPeriod, Statuses
<1> QED
  BY <1>1, <1>2 DEF LastEventDecides, Started

\* One row per subscription, and the last event settles whether the customer is Pro
\* (LastEventDecides; webhooks.py:70-150), for any number of subscriptions, events,
\* replays and losses.
THEOREM EventsDecide == ASSUME BillingAssumption PROVE BillingSpec => []LastEventDecides
<1>1. BillingInit => BillingInv
  BY BillingStart
<1>2. BillingInv /\ [BillingNext]_billingVars => BillingInv'
  BY BillingStep
<1>3. BillingInv => LastEventDecides
  BY InvDecides
<1> QED
  BY <1>1, <1>2, <1>3, PTL DEF BillingSpec

-----------------------------------------------------------------------------
(* THE SOCIAL ACCOUNT *)
(* What a run composes *)

\* Every post a run may compose is one of Posts.
LEMMA ComposedType ==
    ASSUME TypeOK, NEW fresh, NEW spike \in Zones \cup {Absent}, NEW n,
           NEW post \in compose(fresh, spike, n)
    PROVE  post \in Posts
<1>1. ASSUME NEW kind \in Kinds \cup {"spike"} \cup Builders,
             NEW zone \in Zones \cup {Absent}, NEW about \in Subjects
      PROVE  Post(kind, zone, about) \in Posts
  BY <1>1 DEF Post, Posts, Keys, TypeOK
<1>2. CASE post \in event_post(fresh, spike)
  <2>1. ASSUME NEW k \in fresh_price_records
        PROVE  Post(k, Absent, <<"record", records[k]>>) \in Posts
    <3>1. records \in [Kinds -> Records \cup {Absent}]
      BY DEF TypeOK
    <3>2. k \in Kinds /\ records[k] # Absent
      BY DEF fresh_price_records
    <3>3. records[k] \in Records
      BY <3>1, <3>2
    <3>4. <<"record", records[k]>> \in Subjects
      BY <3>3 DEF Subjects
    <3> QED
      BY <1>1, <3>2, <3>4
  <2>2. ASSUME spike # Absent PROVE Post("spike", spike, <<"spike", spike, today>>) \in Posts
    <3>1. spike \in Zones /\ today \in Int
      BY <2>2 DEF TypeOK
    <3>2. <<"spike", spike, today>> \in Subjects
      BY <3>1 DEF Subjects
    <3> QED
      BY <1>1, <3>2
  <2>3. \/ \E k \in fresh_price_records : post = Post(k, Absent, <<"record", records[k]>>)
        \/ spike # Absent /\ post = Post("spike", spike, <<"spike", spike, today>>)
    BY <1>2 DEF event_post
  <2> QED
    BY <2>1, <2>2, <2>3
<1>3. CASE post \in for_weekday(n)
  <2> DEFINE builder == WEEKDAY[(today % 7) + 1]
  <2>1. builder \in Builders
    <3>1. (today % 7) + 1 \in 1..7
      BY DEF TypeOK
    <3> QED
      BY <3>1 DEF Builders
  <2>2. post = Post(builder, Absent, <<builder, today>>)
    BY <1>3 DEF for_weekday
  <2> HIDE DEF builder
  <2> QED
    BY <1>1, <2>1, <2>2 DEF Subjects, TypeOK
<1> QED
  BY <1>2, <1>3 DEF compose

-----------------------------------------------------------------------------
(* Types *)

\* What a run holds while it is under way.
LEMMA UnderwayType ==
    ASSUME SocialAssumption, TypeOK, NEW r \in Underway
    PROVE  /\ r \in Runners /\ posting[r] \in Runs
           /\ posting[r].post \in Posts /\ posting[r].post.key \in Keys /\ posting[r].step \in Steps
BY DEF Underway, TypeOK, Runs, Posts

\* What a run's advance leaves it with.
LEMMA AdvanceType ==
    ASSUME SocialAssumption, TypeOK, NEW r \in Runners, NEW from, NEW to \in Steps, Advances(r, from, to)
    PROVE  /\ r \in Underway /\ posting[r].step = from
           /\ posting' \in [Runners -> Runs \cup {Absent}]
           /\ posting'[r].post = posting[r].post /\ posting'[r].step = to
           /\ \A q \in Runners : q # r => posting'[q] = posting[q]
           /\ Underway' = Underway
<1>1. r \in Underway /\ posting[r].step = from /\ posting' = [posting EXCEPT ![r] = [posting[r] EXCEPT !.step = to]]
  BY DEF Advances, Goes
<1>2. posting \in [Runners -> Runs \cup {Absent}]
  BY DEF TypeOK
<1> DEFINE next == [posting[r] EXCEPT !.step = to]
<1>3. next \in Runs /\ next.post = posting[r].post /\ next.step = to
  BY <1>1, UnderwayType DEF Runs
<1> HIDE DEF next
<1>4. posting' = [posting EXCEPT ![r] = next]
  BY <1>1 DEF next
<1>5. Underway' = Underway
  BY <1>1, <1>2, <1>3, <1>4 DEF Underway, SocialAssumption
<1> QED
  BY <1>1, <1>2, <1>3, <1>4, <1>5

\* What a run that starts to post does.
LEMMA RunStarts ==
    ASSUME TypeOK, NEW r \in Runners, NEW fresh, NEW spike \in Zones \cup {Absent}, NEW n,
           NEW long \in BOOLEAN, run_once(r, fresh, spike, n, long)
    PROVE  /\ posting[r] = Absent /\ UNCHANGED <<today, postFaults, records, feed, ledger, cut>>
           /\ runs' = runs + 1
           /\ \/ UNCHANGED <<posting, raced>>
              \/ \E post \in Posts :
                   /\ ~_already_posted(post.key)
                   /\ posting' = [posting EXCEPT ![r] = [post |-> post, step |-> "upload"]]
                   /\ raced' = raced \cup {k \in {post.key} : \E q \in Underway : posting[q].post.key = k}
BY ComposedType DEF run_once, Goes

\* Every action preserves the types.
LEMMA TypeStep == ASSUME SocialAssumption, TypeOK, [SocialNext]_socialVars PROVE TypeOK'
<1>0. posting \in [Runners -> Runs \cup {Absent}]
  BY DEF TypeOK
<1>1. ASSUME NEW r \in Runners, NEW fresh, NEW spike \in Zones \cup {Absent}, NEW n, NEW long \in BOOLEAN,
             run_once(r, fresh, spike, n, long)
      PROVE  TypeOK'
  <2>1. CASE UNCHANGED <<posting, raced>>
    BY <1>1, <2>1, RunStarts DEF TypeOK
  <2>2. ASSUME NEW post \in Posts,
               posting' = [posting EXCEPT ![r] = [post |-> post, step |-> "upload"]],
               raced' = raced \cup {k \in {post.key} : \E q \in Underway : posting[q].post.key = k}
        PROVE  TypeOK'
    <3>1. posting' \in [Runners -> Runs \cup {Absent}]
      BY <1>0, <2>2 DEF Runs, Steps
    <3>2. raced' \subseteq Keys
      BY <2>2 DEF TypeOK, Posts
    <3> QED
      BY <1>1, <3>1, <3>2, RunStarts DEF TypeOK
  <2>3. \/ UNCHANGED <<posting, raced>>
        \/ \E post \in Posts :
             /\ posting' = [posting EXCEPT ![r] = [post |-> post, step |-> "upload"]]
             /\ raced' = raced \cup {k \in {post.key} : \E q \in Underway : posting[q].post.key = k}
    BY <1>1, ComposedType DEF run_once, Goes
  <2> QED
    BY <2>1, <2>2, <2>3
<1>2. ASSUME NEW r \in Runners, upload(r) \/ reply(r) PROVE TypeOK'
  <2>1. \E from, to \in Steps : Advances(r, from, to)
    BY <1>2 DEF upload, reply, Steps
  <2> QED
    BY <1>2, <2>1, AdvanceType DEF upload, reply, TypeOK
<1>3. ASSUME NEW r \in Runners, tweet(r) PROVE TypeOK'
  <2>1. \E to \in Steps : Advances(r, "tweet", to)
    BY <1>3 DEF tweet, Steps
  <2>2. r \in Underway /\ posting' \in [Runners -> Runs \cup {Absent}]
    BY <2>1, AdvanceType
  <2>3. Append(feed, posting[r].post) \in Seq(Posts)
    BY <2>2, UnderwayType DEF TypeOK
  <2> QED
    BY <1>3, <2>2, <2>3 DEF tweet, TypeOK
<1>4. ASSUME NEW r \in Runners, _record(r) PROVE TypeOK'
  <2>1. posting[r].post.key \in Keys
    BY <1>4, UnderwayType DEF _record
  <2> QED
    BY <1>0, <1>4, <2>1 DEF _record, Goes, TypeOK
<1>5. ASSUME NEW r \in Runners, Fails(r) PROVE TypeOK'
  <2>1. posting[r].post.key \in Keys
    BY <1>5, UnderwayType DEF Fails
  <2> QED
    BY <1>0, <1>5, <2>1 DEF Fails, Goes, TypeOK
<1>6. ASSUME NEW k \in Kinds, NEW z \in Zones, NewRecord(k, z) PROVE TypeOK'
  BY <1>6 DEF NewRecord, Records, TypeOK
<1>7. CASE Midnight
  BY <1>7 DEF Midnight, TypeOK
<1>8. CASE UNCHANGED socialVars
  BY <1>8 DEF socialVars, TypeOK
<1> QED
  BY <1>1, <1>2, <1>3, <1>4, <1>5, <1>6, <1>7, <1>8 DEF SocialNext

-----------------------------------------------------------------------------
(* A key is posted once *)

\* Which run has its post out and has not written it down.
PostOut(r) == r \in Underway /\ posting[r].step \in {"reply", "record"}

\* What is out is in the ledger, or its run is still to write it down or was cut.
PostsRemembered ==
    \A i \in DOMAIN feed : \/ _already_posted(feed[i].key)
                           \/ feed[i].key \in cut
                           \/ \E r \in Runners : PostOut(r) /\ posting[r].post.key = feed[i].key
\* A run that has not posted yet is about a key that is not in the ledger, or raced.
NotYetPosted ==
    \A r \in Underway : posting[r].step \in {"upload", "tweet"} =>
        ~_already_posted(posting[r].post.key) \/ posting[r].post.key \in raced
\* Two runs under way about one key have raced for it.
OverlapsSeen ==
    \A r, q \in Underway : r # q /\ posting[r].post.key = posting[q].post.key => posting[r].post.key \in raced
\* Two posts under one key only after a run that was cut, or two that raced.
TwiceOnlyCut ==
    \A i, j \in DOMAIN feed : i # j /\ feed[i].key = feed[j].key => feed[i].key \in cut \cup raced

SocialInv == TypeOK /\ PostsRemembered /\ NotYetPosted /\ OverlapsSeen /\ TwiceOnlyCut

\* The ledger only grows, at its end.
LEMMA LedgerGrows ==
    ASSUME TypeOK, NEW k \in Keys
    PROVE  LET longer == Append(ledger, k) IN
           \A key : (\E i \in DOMAIN longer : longer[i] = key) <=> _already_posted(key) \/ key = k
<1> DEFINE longer == Append(ledger, k)
<1>1. /\ Len(ledger) \in Nat /\ DOMAIN ledger = 1 .. Len(ledger)
      /\ DOMAIN longer = 1 .. Len(ledger) + 1
      /\ \A i \in 1 .. Len(ledger) : longer[i] = ledger[i]
      /\ longer[Len(ledger) + 1] = k
  BY DEF TypeOK
<1> HIDE DEF longer
<1> QED
  BY <1>1 DEF _already_posted

\* Every action preserves the invariant.
LEMMA SocialStep == ASSUME SocialAssumption, SocialInv, [SocialNext]_socialVars PROVE SocialInv'
<1> DEFINE Kept == PostsRemembered /\ NotYetPosted /\ OverlapsSeen /\ TwiceOnlyCut
           Written(key) == \E i \in DOMAIN ledger : ledger[i] = key
<1>0. TypeOK' /\ TypeOK /\ posting \in [Runners -> Runs \cup {Absent}] /\ Underway \subseteq Runners
  BY TypeStep DEF SocialInv, TypeOK, Underway
<1>1. ASSUME NEW r \in Runners, NEW fresh, NEW spike \in Zones \cup {Absent}, NEW n, NEW long \in BOOLEAN,
             run_once(r, fresh, spike, n, long)
      PROVE  Kept'
  <2>0. posting[r] = Absent /\ UNCHANGED <<feed, ledger, cut>> /\ r \notin Underway
    BY <1>0, <1>1, RunStarts DEF Underway
  <2>1. CASE UNCHANGED <<posting, raced>>
    BY <2>0, <2>1 DEF SocialInv, PostsRemembered, NotYetPosted, OverlapsSeen, TwiceOnlyCut,
                      PostOut, Underway, _already_posted
  <2>2. ASSUME NEW post \in Posts, ~_already_posted(post.key),
               posting' = [posting EXCEPT ![r] = [post |-> post, step |-> "upload"]],
               raced' = raced \cup {k \in {post.key} : \E q \in Underway : posting[q].post.key = k}
        PROVE  Kept'
    <3> DEFINE begun == [post |-> post, step |-> "upload"]
    <3>1. begun \in Runs /\ begun.post = post /\ begun.step = "upload"
      BY DEF Runs, Steps
    <3> HIDE DEF begun
    <3>2. posting' = [posting EXCEPT ![r] = begun]
      BY <2>2 DEF begun
    <3>3. /\ Underway' = Underway \cup {r} /\ posting'[r] = begun
          /\ \A q \in Underway : posting'[q] = posting[q] /\ q # r
      BY <1>0, <2>0, <3>1, <3>2 DEF Underway, SocialAssumption
    <3>4. raced \subseteq raced' /\ \A q \in Underway : posting[q].post.key = post.key => post.key \in raced'
      BY <2>2
    <3>5. PostsRemembered'
      BY <1>0, <2>0, <3>3 DEF SocialInv, PostsRemembered, PostOut, _already_posted
    <3>6. NotYetPosted'
      BY <2>0, <2>2, <3>1, <3>3, <3>4 DEF SocialInv, NotYetPosted, _already_posted
    <3>7. OverlapsSeen'
      BY <3>1, <3>3, <3>4 DEF SocialInv, OverlapsSeen
    <3>8. TwiceOnlyCut'
      BY <2>0, <3>4 DEF SocialInv, TwiceOnlyCut
    <3> QED
      BY <3>5, <3>6, <3>7, <3>8
  <2>3. \/ UNCHANGED <<posting, raced>>
        \/ \E post \in Posts :
             /\ ~_already_posted(post.key)
             /\ posting' = [posting EXCEPT ![r] = [post |-> post, step |-> "upload"]]
             /\ raced' = raced \cup {k \in {post.key} : \E q \in Underway : posting[q].post.key = k}
    BY <1>0, <1>1, RunStarts
  <2> HIDE DEF Kept
  <2> QED
    BY <2>1, <2>2, <2>3
<1>2. ASSUME NEW r \in Runners, NEW from \in Steps, NEW to \in Steps, Advances(r, from, to),
             from \in {"reply", "record"} <=> to \in {"reply", "record"},
             UNCHANGED <<feed, ledger, cut, raced>>
      PROVE  Kept'
  <2>1. /\ r \in Underway /\ posting[r].step = from /\ Underway' = Underway
        /\ posting'[r].post = posting[r].post /\ posting'[r].step = to
        /\ \A q \in Runners : q # r => posting'[q] = posting[q]
    BY <1>0, <1>2, AdvanceType
  <2>2. \A q \in Underway : /\ posting'[q].post = posting[q].post
                            /\ posting'[q].step \in {"reply", "record"} <=> posting[q].step \in {"reply", "record"}
                            /\ posting'[q].step \in {"upload", "tweet"} => posting[q].step \in {"upload", "tweet"}
    BY <1>0, <1>2, <2>1 DEF Steps
  <2>3. PostsRemembered'
    BY <1>0, <1>2, <2>1, <2>2 DEF SocialInv, PostsRemembered, PostOut, _already_posted
  <2>4. NotYetPosted'
    BY <1>2, <2>1, <2>2 DEF SocialInv, NotYetPosted, _already_posted
  <2> QED
    BY <1>2, <2>1, <2>2, <2>3, <2>4 DEF SocialInv, OverlapsSeen, TwiceOnlyCut
<1>3. ASSUME NEW r \in Runners, tweet(r) PROVE Kept'
  <2>0. PICK to \in {"reply", "record"} : Advances(r, "tweet", to)
    BY <1>3 DEF tweet
  <2>1. /\ r \in Underway /\ posting[r].step = "tweet" /\ Underway' = Underway
        /\ posting'[r].post = posting[r].post /\ posting'[r].step = to
        /\ \A q \in Runners : q # r => posting'[q] = posting[q]
        /\ posting[r].post \in Posts
    BY <1>0, <2>0, AdvanceType, UnderwayType DEF Steps
  <2>2. /\ Len(feed) \in Nat /\ DOMAIN feed = 1 .. Len(feed)
        /\ DOMAIN feed' = 1 .. Len(feed) + 1
        /\ \A i \in 1 .. Len(feed) : feed'[i] = feed[i]
        /\ feed'[Len(feed) + 1] = posting[r].post
        /\ UNCHANGED <<ledger, cut, raced>>
    BY <1>0, <1>3, <2>1 DEF tweet, TypeOK
  <2>3. \A i \in DOMAIN feed : feed[i].key = posting[r].post.key => feed[i].key \in cut \cup raced
    <3> SUFFICES ASSUME NEW i \in DOMAIN feed, feed[i].key = posting[r].post.key
                 PROVE  feed[i].key \in cut \cup raced
      OBVIOUS
    <3>1. CASE _already_posted(feed[i].key)
      BY <2>1, <3>1 DEF SocialInv, NotYetPosted
    <3>2. ASSUME NEW q \in Runners, PostOut(q), posting[q].post.key = feed[i].key
          PROVE  feed[i].key \in raced
      <4>1. q \in Underway /\ q # r
        BY <2>1, <3>2 DEF PostOut
      <4> QED
        BY <2>1, <3>2, <4>1 DEF SocialInv, OverlapsSeen
    <3> QED
      BY <3>1, <3>2 DEF SocialInv, PostsRemembered
  <2>4. \A q \in Underway : posting'[q].post = posting[q].post /\ (q # r => posting'[q] = posting[q])
    BY <1>0, <2>1
  <2>5. PostsRemembered'
    <3>1. \A q \in Runners : PostOut(q) => PostOut(q)'
      BY <2>1, <2>4 DEF PostOut
    <3>2. PostOut(r)'
      BY <2>1 DEF PostOut
    <3>3. \A q \in Runners : PostOut(q) => posting'[q].post = posting[q].post
      BY <2>4 DEF PostOut
    <3>4. ASSUME NEW i \in DOMAIN feed'
          PROVE  (\/ _already_posted(feed[i].key) \/ feed[i].key \in cut
                  \/ \E q \in Runners : PostOut(q) /\ posting[q].post.key = feed[i].key)'
      <4>1. CASE i = Len(feed) + 1
        BY <1>0, <2>1, <2>2, <3>2, <4>1
      <4>2. CASE i \in DOMAIN feed
        <5>1. feed'[i] = feed[i]
          BY <2>2, <4>2
        <5>2. CASE _already_posted(feed[i].key) \/ feed[i].key \in cut
          BY <2>2, <5>1, <5>2 DEF _already_posted
        <5>3. ASSUME NEW q \in Runners, PostOut(q), posting[q].post.key = feed[i].key
              PROVE  PostOut(q)' /\ posting'[q].post.key = feed'[i].key
          BY <3>1, <3>3, <5>1, <5>3
        <5> QED
          BY <4>2, <5>2, <5>3 DEF SocialInv, PostsRemembered
      <4> QED
        BY <2>2, <4>1, <4>2
    <3> QED
      BY <3>4 DEF PostsRemembered
  <2>6. NotYetPosted'
    BY <2>1, <2>2, <2>4 DEF SocialInv, NotYetPosted, _already_posted
  <2>7. OverlapsSeen'
    BY <2>1, <2>2, <2>4 DEF SocialInv, OverlapsSeen
  <2>8. TwiceOnlyCut'
    BY <2>2, <2>3 DEF SocialInv, TwiceOnlyCut
  <2> QED
    BY <2>5, <2>6, <2>7, <2>8
<1>4. ASSUME NEW r \in Underway, posting' = [posting EXCEPT ![r] = Absent], UNCHANGED <<feed, raced>>,
             cut \subseteq cut', \A key : Written(key) => Written(key)',
             \A key : Written(key)' => Written(key) \/ key = posting[r].post.key,
             PostOut(r) => (\E i \in DOMAIN ledger' : ledger'[i] = posting[r].post.key)
                           \/ posting[r].post.key \in cut'
      PROVE  Kept'
  <2>1. Underway' = Underway \ {r} /\ \A q \in Underway' : posting'[q] = posting[q]
    BY <1>0, <1>4 DEF Underway
  <2>2. PostsRemembered'
    <3>1. \A q \in Runners : PostOut(q) /\ q # r => PostOut(q)' /\ posting'[q] = posting[q]
      BY <2>1 DEF PostOut
    <3>2. ASSUME NEW i \in DOMAIN feed
          PROVE  (\/ _already_posted(feed[i].key) \/ feed[i].key \in cut
                  \/ \E q \in Runners : PostOut(q) /\ posting[q].post.key = feed[i].key)'
      <4>0. \/ Written(feed[i].key) \/ feed[i].key \in cut
            \/ \E q \in Runners : PostOut(q) /\ posting[q].post.key = feed[i].key
        BY DEF SocialInv, PostsRemembered, _already_posted
      <4>1. CASE Written(feed[i].key) \/ feed[i].key \in cut
        BY <1>4, <4>1 DEF _already_posted
      <4>2. ASSUME NEW q \in Runners, PostOut(q), posting[q].post.key = feed[i].key, q # r
            PROVE  PostOut(q)' /\ posting'[q].post.key = feed'[i].key
        BY <1>4, <3>1, <4>2
      <4>3. CASE PostOut(r) /\ posting[r].post.key = feed[i].key
        BY <1>4, <4>3 DEF _already_posted
      <4> QED
        BY <4>0, <4>1, <4>2, <4>3
    <3> QED
      BY <1>4, <3>2 DEF PostsRemembered
  <2>3. NotYetPosted'
    <3>1. ASSUME NEW q \in Underway', posting'[q].step \in {"upload", "tweet"}, Written(posting[q].post.key)'
          PROVE  posting'[q].post.key \in raced'
      <4>1. q \in Underway /\ q # r /\ posting'[q] = posting[q] /\ raced' = raced
        BY <1>4, <2>1
      <4>2. Written(posting[q].post.key) \/ posting[q].post.key = posting[r].post.key
        BY <1>4, <3>1, <4>1
      <4> QED
        BY <3>1, <4>1, <4>2 DEF SocialInv, NotYetPosted, OverlapsSeen, _already_posted
    <3> QED
      BY <3>1 DEF NotYetPosted, _already_posted
  <2> QED
    BY <1>4, <2>1, <2>2, <2>3 DEF SocialInv, OverlapsSeen, TwiceOnlyCut
<1>5. ASSUME NEW r \in Runners, _record(r) PROVE Kept'
  <2>1. /\ r \in Underway /\ posting' = [posting EXCEPT ![r] = Absent] /\ posting[r].post.key \in Keys
        /\ ledger' = Append(ledger, posting[r].post.key) /\ UNCHANGED <<feed, cut, raced>>
    BY <1>0, <1>5, UnderwayType DEF _record, Goes
  <2>2. \A key : Written(key)' <=> Written(key) \/ key = posting[r].post.key
    BY <1>0, <2>1, LedgerGrows DEF _already_posted
  <2> QED
    BY <1>4, <2>1, <2>2
<1>6. ASSUME NEW r \in Runners, Fails(r) PROVE Kept'
  <2>1. /\ r \in Underway /\ posting' = [posting EXCEPT ![r] = Absent] /\ UNCHANGED <<feed, ledger, raced>>
        /\ cut' = IF posting[r].step \in {"reply", "record"} THEN cut \cup {posting[r].post.key} ELSE cut
    BY <1>6 DEF Fails, Goes
  <2>2. \A key : Written(key)' <=> Written(key)
    BY <2>1
  <2>3. PostOut(r) => posting[r].post.key \in cut'
    BY <2>1 DEF PostOut
  <2> QED
    BY <1>4, <2>1, <2>2, <2>3
<1>7. ASSUME UNCHANGED <<posting, feed, ledger, cut, raced>> PROVE Kept'
  BY <1>7 DEF SocialInv, PostsRemembered, NotYetPosted, OverlapsSeen, TwiceOnlyCut, PostOut,
              Underway, _already_posted
<1> HIDE DEF Kept
<1>8. ASSUME NEW r \in Runners, upload(r) \/ reply(r) PROVE Kept'
  BY <1>2, <1>8 DEF upload, reply, Steps
<1>9. ASSUME (\E k \in Kinds, z \in Zones : NewRecord(k, z)) \/ Midnight \/ UNCHANGED socialVars
      PROVE  Kept'
  BY <1>7, <1>9 DEF NewRecord, Midnight, socialVars
<1>10. Kept'
  BY <1>1, <1>3, <1>5, <1>6, <1>8, <1>9 DEF SocialNext
<1> QED
  BY <1>0, <1>10 DEF SocialInv, Kept

\* The invariant says what PostedOnce says, which counts the posts of a key.
LEMMA OnceByCount == ASSUME SocialInv PROVE PostedOnce
<1> SUFFICES ASSUME NEW i \in DOMAIN feed, feed[i].key \notin cut \cup raced
             PROVE  ~(Cardinality(Posted(feed[i].key)) > 1)
  BY DEF PostedOnce
<1>1. Posted(feed[i].key) = {i}
  BY DEF Posted, SocialInv, TwiceOnlyCut
<1> QED
  BY <1>1, FS_Singleton

\* runner.py:1-4, `a re-fire never double-posts`: a key is posted more than once only if
\* a run of it was cut between the post and the ledger line, or two runs of it, the job's
\* and one by hand, overlapped between the lookup and the ledger line; for any runners,
\* zones and figures and any number of days, runs and faults.
THEOREM PostsOnce == ASSUME SocialAssumption PROVE SocialSpec => []PostedOnce
<1>1. SocialInit => SocialInv
  BY DEF SocialInit, SocialInv, TypeOK, PostsRemembered, NotYetPosted, OverlapsSeen, TwiceOnlyCut, Underway
<1>2. SocialInv /\ [SocialNext]_socialVars => SocialInv'
  BY SocialStep
<1>3. SocialInv => PostedOnce
  BY OnceByCount
<1> QED
  BY <1>1, <1>2, <1>3, PTL DEF SocialSpec
=============================================================================
