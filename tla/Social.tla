------------------------------- MODULE Social ------------------------------
(***************************************************************************)
(* social/: one run composes the day's post (an event, else the weekday's  *)
(* franchise, else silence), looks its key up in the ledger, posts through *)
(* an API that may fail after the post is out, and writes the key down.    *)
(* The job fires once a day, and may fire again; by hand a run is started  *)
(* in a process of its own, also while the job's is under way.             *)
(***************************************************************************)
EXTENDS Integers, Sequences, FiniteSets, SequencesExt

CONSTANTS Absent,
          Zones,
          MIN_FRESH_ZONES, \* zones with a sane fresh price before an event (20)
          Figures,         \* what a franchise may count: zones, hours, years, a share
          FRESH_DAYS,      \* days a record counts as fresh (7)
          Runners,         \* who runs it: the scheduler's job, a shell
          Live,            \* is_live: the keys are there and dry-run is off
          MaxDay, MaxRuns, MaxPostFaults

VARIABLES
    today, runs, postFaults,
    records,   \* kind of price record -> [zone, day] of the record, or Absent
    posting,   \* runner -> Absent, or [post, step] of its run under way
    feed,      \* the posts on the account: [key, about]
    ledger,    \* posted.log: the keys, oldest first
    cut,       \* history: the keys of posts that went out in a run that did not end well
    raced      \* history: the keys a run looked up while another run was about to post it

socialVars == <<today, runs, postFaults, records, posting, feed, ledger, cut, raced>>
Kinds == {"max", "min"}

-----------------------------------------------------------------------------
(* composer.py, records.py, franchises.py.  A post is what its key says.     *)

\* Day-ahead records of the last days.
fresh_price_records == {k \in Kinds : records[k] # Absent /\ today - records[k].day <= FRESH_DAYS}
Post(kind, zone, about) == [key |-> <<today, kind, zone>>, about |-> about]

\* A fresh record, else the zone with the highest spike; neither without
\* enough fresh zones.  The key of a record has its kind and not its zone.
event_post(fresh, spike) ==
    IF fresh < MIN_FRESH_ZONES THEN {}
    ELSE IF fresh_price_records # {}
         THEN {Post(k, Absent, <<"record", records[k]>>) : k \in fresh_price_records}
         ELSE IF spike # Absent THEN {Post("spike", spike, <<"spike", spike, today>>)} ELSE {}

\* The builders: what each counts before it speaks.
price_leaderboard(zones) == zones >= 20
negative_hours(hours) == hours > 0
battery_tb2(zones) == zones >= 15
co2_clean_dirty(zones) == zones >= 15
renewable_peak(percent) == percent >= 80
trend_callback(years) == years >= 4
europe_now(zones) == zones >= 20
WEEKDAY == <<"price_leaderboard", "negative_hours", "battery_tb2", "co2_clean_dirty",
             "renewable_peak", "trend_callback", "europe_now">>
for_weekday(n) ==
    LET builder == WEEKDAY[(today % 7) + 1]
        speaks == \/ builder = "price_leaderboard" /\ price_leaderboard(n)
                  \/ builder = "negative_hours" /\ negative_hours(n)
                  \/ builder = "battery_tb2" /\ battery_tb2(n)
                  \/ builder = "co2_clean_dirty" /\ co2_clean_dirty(n)
                  \/ builder = "renewable_peak" /\ renewable_peak(n)
                  \/ builder = "trend_callback" /\ trend_callback(n)
                  \/ builder = "europe_now" /\ europe_now(n)
    IN  IF speaks THEN {Post(builder, Absent, <<builder, today>>)} ELSE {}
compose(fresh, spike, n) ==
    IF event_post(fresh, spike) # {} THEN event_post(fresh, spike) ELSE for_weekday(n)

-----------------------------------------------------------------------------
(* runner.py, poster.py                                                      *)

\* A variant that looks at the last line only.
LastLineIs(key) == ledger # <<>> /\ ledger[Len(ledger)] = key
_already_posted(key) == \E i \in DOMAIN ledger : ledger[i] = key

Underway == {q \in Runners : posting[q] # Absent}
Goes(r, run) == posting' = [posting EXCEPT ![r] = run]
Advances(r, from, to) == r \in Underway /\ posting[r].step = from /\ Goes(r, [posting[r] EXCEPT !.step = to])

\* One run up to its first call; long is a text of over 280 characters.  Between the
\* lookup and _record nothing keeps another run out.
run_once(r, fresh, spike, n, long) ==
    /\ posting[r] = Absent /\ runs < MaxRuns /\ runs' = runs + 1
    /\ \/ /\ \/ compose(fresh, spike, n) = {} \/ long \/ ~Live
             \/ \E post \in compose(fresh, spike, n) : _already_posted(post.key)
          /\ UNCHANGED <<posting, raced>>
       \/ /\ ~long /\ Live
          /\ \E post \in compose(fresh, spike, n) :
                /\ ~_already_posted(post.key)
                /\ Goes(r, [post |-> post, step |-> "upload"])
                /\ raced' = raced \cup {k \in {post.key} : \E q \in Underway : posting[q].post.key = k}
    /\ UNCHANGED <<today, postFaults, records, feed, ledger, cut>>

\* The image and its text go up, then the post, then the reply if there is one.
upload(r) ==
    /\ Advances(r, "upload", "tweet")
    /\ UNCHANGED <<today, runs, postFaults, records, feed, ledger, cut, raced>>
tweet(r) ==
    /\ \E next \in {"reply", "record"} : Advances(r, "tweet", next)
    /\ feed' = Append(feed, posting[r].post)
    /\ UNCHANGED <<today, runs, postFaults, records, ledger, cut, raced>>
reply(r) ==
    /\ Advances(r, "reply", "record")
    /\ UNCHANGED <<today, runs, postFaults, records, feed, ledger, cut, raced>>
_record(r) ==
    /\ r \in Underway /\ posting[r].step = "record"
    /\ ledger' = Append(ledger, posting[r].post.key) /\ Goes(r, Absent)
    /\ UNCHANGED <<today, runs, postFaults, records, feed, cut, raced>>
\* A call fails, or the process dies, at any step.
Fails(r) ==
    /\ r \in Underway /\ postFaults < MaxPostFaults /\ postFaults' = postFaults + 1
    /\ cut' = IF posting[r].step \in {"reply", "record"} THEN cut \cup {posting[r].post.key} ELSE cut
    /\ Goes(r, Absent)
    /\ UNCHANGED <<today, runs, records, feed, ledger, raced>>

\* The nightly job finds a record.
NewRecord(k, z) ==
    /\ records[k] = Absent /\ records' = [records EXCEPT ![k] = [zone |-> z, day |-> today]]
    /\ UNCHANGED <<today, runs, postFaults, posting, feed, ledger, cut, raced>>
Midnight ==
    /\ today < MaxDay /\ today' = today + 1
    /\ UNCHANGED <<runs, postFaults, records, posting, feed, ledger, cut, raced>>

-----------------------------------------------------------------------------
SocialInit ==
    /\ today \in 0..6 /\ runs = 0 /\ postFaults = 0
    /\ records = [k \in Kinds |-> Absent]
    /\ posting = [r \in Runners |-> Absent]
    /\ feed = <<>> /\ ledger = <<>> /\ cut = {} /\ raced = {}
SocialNext ==
    \/ \E r \in Runners, fresh \in {0, MIN_FRESH_ZONES}, spike \in Zones \cup {Absent}, n \in Figures,
         long \in BOOLEAN : run_once(r, fresh, spike, n, long)
    \/ \E r \in Runners : upload(r) \/ tweet(r) \/ reply(r) \/ _record(r) \/ Fails(r)
    \/ \E k \in Kinds, z \in Zones : NewRecord(k, z)
    \/ Midnight
SocialSpec == SocialInit /\ [][SocialNext]_socialVars

-----------------------------------------------------------------------------
(* The types of the state. *)

Records == [zone : Zones, day : Int]
Builders == {WEEKDAY[d] : d \in 1..7}
Keys == Int \X (Kinds \cup {"spike"} \cup Builders) \X (Zones \cup {Absent})
Subjects == ({"record"} \X Records) \cup ({"spike"} \X Zones \X Int) \cup (Builders \X Int)
Posts == [key : Keys, about : Subjects]
Steps == {"upload", "tweet", "reply", "record"}
Runs == [post : Posts, step : Steps]

\* What is assumed of the constants: Absent is no run.
SocialAssumption == Absent \notin Runs

\* Every variable has its type.
TypeOK ==
    /\ today \in Int /\ runs \in Int /\ postFaults \in Int
    /\ records \in [Kinds -> Records \cup {Absent}]
    /\ posting \in [Runners -> Runs \cup {Absent}]
    /\ feed \in Seq(Posts) /\ ledger \in Seq(Keys)
    /\ cut \subseteq Keys /\ raced \subseteq Keys

Posted(key) == {i \in DOMAIN feed : feed[i].key = key}

(* However often the job fires again, whatever other post the day gets in     *)
(* between and whoever else runs it, a key is posted more than once only if   *)
(* a run of it was cut after its post was out, or two runs of it overlapped   *)
(* between the lookup and the ledger line (runner.py:49-59).                  *)
PostedOnce ==
    \A i \in DOMAIN feed : Cardinality(Posted(feed[i].key)) > 1 => feed[i].key \in cut \cup raced

(* What the docstring of the runner (runner.py:1-4) says of every re-fire.    *)
NeverTwice == \A i, j \in DOMAIN feed : feed[i].key = feed[j].key => i = j

=============================================================================
