------------------------------- MODULE Login -------------------------------
(***************************************************************************)
(* Login by a mailed link, its rate limits and single use (auth/,          *)
(* routes/auth.py), and the sign-up list and mail subscribers beside it    *)
(* (routes/waitlist.py, routes/email.py).  request_magic_link runs on the  *)
(* event loop, so its critical section is one step; verify_magic_link and  *)
(* signup run on pool threads, whose steps interleave.  The limiter, the   *)
(* used links and the requests live in the process and die with it.        *)
(***************************************************************************)
EXTENDS Integers, Sequences, FiniteSets

CONSTANTS NoRequest,
          Emails, Ips, PoolThreads,
          MINUTE, HOUR,     \* the windows of the rate limits
          HourCap,          \* mails to an address in an hour (5)
          IpCap,            \* mails for an IP address in an hour (10)
          SignupCap,        \* sign-ups of an IP address in an hour (5)
          LinkLife,         \* life of a mailed link (15 minutes)
          LoginTime,        \* bound on the clock
          LoginCalls,       \* bound: requests let through
          MaxMailFaults     \* bound: failed mails and restarts

VARIABLES
    clock, mailFaults,
    hits,        \* _HITS: key -> its hits [at, n], in the order of n
    links,       \* the tokens mailed: jti -> [email, exp]
    consumed,    \* _consumed: jti -> exp
    requests,    \* thread -> the request it handles, or NoRequest
    waitlist,    \* the sign-up list: email -> subscribed
    subscribers, \* EmailSubscriber: email -> active
    epoch,       \* restarts of the process
    passed,      \* what the limiter let through: [keys, at, epoch, n]
    sessions     \* the sessions given: [jti, at, epoch, n]

loginVars == <<clock, mailFaults, hits, links, consumed, requests, waitlist, subscribers, epoch,
               passed, sessions>>

Fault == mailFaults < MaxMailFaults /\ mailFaults' = mailFaults + 1
Put(f, x, v) == [y \in DOMAIN f \cup {x} |-> IF y = x THEN v ELSE f[y]]
ClockTick ==
    /\ clock < LoginTime /\ clock' = clock + 1
    /\ UNCHANGED <<mailFaults, hits, links, consumed, requests, waitlist, subscribers, epoch, passed, sessions>>

-----------------------------------------------------------------------------
(* auth/ratelimit.py: a rule is <<key, limit, window>>.                      *)

\* A variant with one key per address: the rules share a window.
SharedKeyRules(email, ip) ==
    <<<<<<"email", email>>, 1, MINUTE>>, <<<<"email", email>>, HourCap, HOUR>>,
      <<<<"ip", ip>>, IpCap, HOUR>>>>
magic_link_rules(email, ip) ==
    <<<<<<"1m", email>>, 1, MINUTE>>, <<<<"1h", email>>, HourCap, HOUR>>,
      <<<<"ip", ip>>, IpCap, HOUR>>>>

HitsOf(h, key) == IF key \in DOMAIN h THEN h[key] ELSE {}
\* What the windows of the rules up to the i-th leave of its key's hits.
Left(h, rules, i) ==
    {x \in HitsOf(h, rules[i][1]) :
        \A j \in 1 .. i : rules[j][1] = rules[i][1] => x.at > clock - rules[j][3]}
Full(h, rules, i) == Cardinality(Left(h, rules, i)) >= rules[i][2]
\* Every rule prunes its key until one is full.
Reached(h, rules) == {i \in DOMAIN rules : \A j \in 1 .. i - 1 : ~Full(h, rules, j)}
Pruned(h, rules) ==
    LET reached == Reached(h, rules)
    IN  [k \in DOMAIN h \cup {rules[i][1] : i \in reached} |->
            {x \in HitsOf(h, k) :
                \A i \in reached : rules[i][1] = k => x.at > clock - rules[i][3]}]
\* A hit of the request that is let through next.
Hit(at) == [at |-> at, n |-> Cardinality(passed)]
Recorded(h, rules) ==
    [k \in DOMAIN h |->
        IF \E i \in DOMAIN rules : rules[i][1] = k THEN h[k] \cup {Hit(clock)} ELSE h[k]]
allow(h, rules) ==
    IF \E i \in DOMAIN rules : Full(h, rules, i)
    THEN [ok |-> FALSE, h |-> Pruned(h, rules)]
    ELSE [ok |-> TRUE, h |-> Recorded(Pruned(h, rules), rules)]
Passed(keys, at) ==
    passed \cup {[keys |-> keys, at |-> at, epoch |-> epoch, n |-> Cardinality(passed)]}

-----------------------------------------------------------------------------
(* routes/auth.py, auth/single_use.py                                        *)

create_magic_token(email) == [email |-> email, exp |-> clock + LinkLife]
\* The mail is sent and the address joins the list, or it fails.
request_magic_link(email, ip) ==
    /\ Cardinality(passed) < LoginCalls
    /\ LET a == allow(hits, magic_link_rules(email, ip))
       IN  /\ hits' = a.h
           /\ \/ ~a.ok /\ UNCHANGED <<links, waitlist, passed, mailFaults>>
              \/ /\ a.ok /\ passed' = Passed({email, ip}, clock)
                 /\ \/ /\ links' = Append(links, create_magic_token(email))
                       /\ waitlist' = IF email \in DOMAIN waitlist THEN waitlist ELSE Put(waitlist, email, TRUE)
                       /\ UNCHANGED mailFaults
                    \/ Fault /\ UNCHANGED <<links, waitlist>>
    /\ UNCHANGED <<clock, consumed, requests, subscribers, epoch, sessions>>

\* The token is checked first, its jti after.
verify_token(jti) == clock < links[jti].exp
verify_magic_link(t, jti) ==
    /\ requests[t] = NoRequest /\ verify_token(jti)
    /\ requests' = [requests EXCEPT ![t] = [do |-> "consume", jti |-> jti]]
    /\ UNCHANGED <<clock, mailFaults, hits, links, consumed, waitlist, subscribers, epoch, passed, sessions>>

\* A variant that empties the set once something in it has expired.
PruneAll(c) == IF \E j \in DOMAIN c : c[j] <= clock THEN <<>> ELSE c
_prune(c) == [j \in {k \in DOMAIN c : c[k] > clock} |-> c[j]]
\* Under the lock; the first to come gets the session.
consume(t) ==
    /\ requests[t] # NoRequest /\ requests[t].do = "consume"
    /\ LET jti == requests[t].jti
           c == _prune(consumed)
       IN  IF jti \in DOMAIN c
           THEN consumed' = c /\ UNCHANGED sessions
           ELSE /\ consumed' = Put(c, jti, links[jti].exp)
                /\ sessions' = sessions \cup {[jti |-> jti, at |-> clock, epoch |-> epoch,
                                               n |-> Cardinality(sessions)]}
    /\ requests' = [requests EXCEPT ![t] = NoRequest]
    /\ UNCHANGED <<clock, mailFaults, hits, links, waitlist, subscribers, epoch, passed>>

Restart ==
    /\ Fault /\ epoch' = epoch + 1
    /\ hits' = <<>> /\ consumed' = <<>> /\ requests' = [t \in PoolThreads |-> NoRequest]
    /\ UNCHANGED <<clock, links, waitlist, subscribers, passed, sessions>>

-----------------------------------------------------------------------------
(* routes/waitlist.py: allow on a thread, step by step.                      *)

SignupKey(ip) == <<"waitlist", ip>>
Oldest(h) == CHOOSE x \in h : \A y \in h : x.n <= y.n
signup(t, email, ip) ==
    /\ Cardinality(passed) < LoginCalls /\ requests[t] = NoRequest
    /\ requests' = [requests EXCEPT ![t] = [do |-> "look", ip |-> ip, email |-> email, at |-> clock]]
    /\ UNCHANGED <<clock, mailFaults, hits, links, consumed, waitlist, subscribers, epoch, passed, sessions>>

\* A look at the oldest hit; the removal of what is then the oldest (of an
\* empty deque it raises); the count; the record and the row.
AllowStep(t) ==
    /\ requests[t] # NoRequest /\ requests[t].do # "consume"
    /\ LET r == requests[t]
           h == HitsOf(hits, SignupKey(r.ip))
           old == h # {} /\ Oldest(h).at <= r.at - HOUR
           Goto(do) == requests' = [requests EXCEPT ![t].do = do]
           Leave == requests' = [requests EXCEPT ![t] = NoRequest]
       IN  \/ /\ r.do = "look"
              /\ CASE old -> Goto("pop")
                   [] ~old /\ Cardinality(h) < SignupCap -> Goto("record")
                   [] OTHER -> Leave
              /\ UNCHANGED <<hits, passed, waitlist>>
           \/ /\ r.do = "pop" /\ h = {} /\ Leave
              /\ UNCHANGED <<hits, passed, waitlist>>
           \/ /\ r.do = "pop" /\ h # {} /\ Goto("look")
              /\ hits' = Put(hits, SignupKey(r.ip), h \ {Oldest(h)})
              /\ UNCHANGED <<passed, waitlist>>
           \/ /\ r.do = "record" /\ Leave
              /\ hits' = Put(hits, SignupKey(r.ip), h \cup {Hit(r.at)})
              /\ passed' = Passed({SignupKey(r.ip)}, r.at)
              /\ waitlist' = IF r.email \in DOMAIN waitlist THEN waitlist ELSE Put(waitlist, r.email, TRUE)
    /\ UNCHANGED <<clock, mailFaults, links, consumed, subscribers, epoch, sessions>>

\* Each list has its own way out; the test mail makes a subscriber.
unsubscribe(email) ==
    /\ \/ email \in DOMAIN waitlist /\ waitlist' = Put(waitlist, email, FALSE) /\ UNCHANGED subscribers
       \/ /\ email \in DOMAIN subscribers /\ subscribers[email]
          /\ subscribers' = Put(subscribers, email, FALSE) /\ UNCHANGED waitlist
    /\ UNCHANGED <<clock, mailFaults, hits, links, consumed, requests, epoch, passed, sessions>>
test_briefing(email) ==
    /\ email \notin DOMAIN subscribers /\ subscribers' = Put(subscribers, email, TRUE)
    /\ UNCHANGED <<clock, mailFaults, hits, links, consumed, requests, waitlist, epoch, passed, sessions>>

-----------------------------------------------------------------------------
LoginInit ==
    /\ clock = 0 /\ mailFaults = 0 /\ epoch = 0
    /\ hits = <<>> /\ links = <<>> /\ consumed = <<>>
    /\ requests = [t \in PoolThreads |-> NoRequest]
    /\ waitlist = <<>> /\ subscribers = <<>>
    /\ passed = {} /\ sessions = {}

LoginNext ==
    \/ \E email \in Emails, ip \in Ips : request_magic_link(email, ip)
    \/ \E t \in PoolThreads : \E jti \in DOMAIN links : verify_magic_link(t, jti)
    \/ \E t \in PoolThreads : consume(t)
    \/ Restart
    \/ ClockTick
SignupNext ==
    \/ \E t \in PoolThreads, email \in Emails, ip \in Ips : signup(t, email, ip)
    \/ \E t \in PoolThreads : AllowStep(t)
    \/ \E email \in Emails : unsubscribe(email) \/ test_briefing(email)
    \/ ClockTick
LoginOrSignup == LoginNext \/ SignupNext
LoginSpec == LoginInit /\ [][LoginOrSignup]_loginVars
SignupSpec == LoginInit /\ [][SignupNext]_loginVars

-----------------------------------------------------------------------------
\* What a pool thread may be at: the use of a link, or a sign-up.
Requests == [do : {"consume"}, jti : Nat]
            \cup [do : {"look", "pop", "record"}, ip : Ips, email : Emails, at : Nat]
\* What is assumed of the constants.  Addresses, IP addresses and keys of sign-ups
\* are told apart.
LoginAssumption ==
    /\ LinkLife \in Nat /\ MINUTE \in Nat /\ HOUR \in Nat
    /\ HourCap \in Nat /\ IpCap \in Nat
    /\ NoRequest \notin Requests
    /\ \A ip \in Ips : ip \notin Emails /\ SignupKey(ip) \notin Emails \cup Ips

Within(key, window) ==
    {p \in passed : key \in p.keys /\ p.epoch = epoch /\ p.at > clock - window}

(* Since the process started, no address was mailed twice in a minute or     *)
(* more than the cap in an hour, and no IP address asked for more than its    *)
(* cap (ratelimit.py:22-39, 60-68): a refused or failed request in between    *)
(* must not make room, and one window must not shorten another.               *)
MailsLimited ==
    /\ \A email \in Emails : /\ Cardinality(Within(email, MINUTE)) <= 1
                             /\ Cardinality(Within(email, HOUR)) <= HourCap
    /\ \A ip \in Ips : Cardinality(Within(ip, HOUR)) <= IpCap

(* A link gives a second session only after a restart, or to a request that  *)
(* was checked in its life and came to the lock after it                      *)
(* (single_use.py:25-34, auth.py:111-131).                                    *)
LinkUsedOnce ==
    \A a, b \in sessions :
        (a.n < b.n /\ a.jti = b.jti) => a.epoch # b.epoch \/ b.at >= links[b.jti].exp

(* The limiter's claim that it needs no lock (ratelimit.py:3-6), of the       *)
(* sign-ups, which call it from pool threads: no IP address passes its cap.   *)
SignupsLimited ==
    \A ip \in Ips : Cardinality(Within(SignupKey(ip), HOUR)) <= SignupCap
=============================================================================
