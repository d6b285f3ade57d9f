------------------------------ MODULE Billing ------------------------------
(***************************************************************************)
(* routes/webhooks.py and the Pro decision of auth/: the shop sends the    *)
(* events of its subscriptions, which arrive in any order, twice or not at *)
(* all; every request reads the newest row.  One customer, whose           *)
(* subscriptions follow each other.                                        *)
(***************************************************************************)
EXTENDS Integers, Sequences, FiniteSetsExt

CONSTANTS Unset,
          Subs,            \* 1..n, the subscriptions the customer may start in turn
          MaxEvents,       \* bound: events of a subscription
          MaxShopFaults    \* bound: repeated and lost events

VARIABLES
    shop,      \* subscription -> [status, n]: its state and its events so far
    mail,      \* the events under way: [sub, n, name, status]
    rows,      \* the subscriptions table, oldest first: [ls, status, trial]
    handled,   \* subscription -> the last event handled with a row of it, or Unset
    shopFaults

billingVars == <<shop, mail, rows, handled, shopFaults>>

-----------------------------------------------------------------------------
(* The shop.  external                                                       *)

\* Paid for, in grace, or cancelled `but still within paid period`: a cancelled
\* subscription runs until the shop expires it (subscription_check.py:16-22).
InPaidPeriod == {"active", "past_due", "cancelled"}
\* A change has an event of its own, and an update may follow it.
EventOf(from, to) ==
    IF from = Unset THEN "subscription_created"
    ELSE IF to = "past_due" THEN "subscription_payment_failed"
    ELSE IF to = "cancelled" THEN "subscription_cancelled"
    ELSE IF to = "expired" THEN "subscription_expired"
    ELSE IF from = "past_due" THEN "subscription_payment_success"
    ELSE IF from = "cancelled" THEN "subscription_resumed"
    ELSE "subscription_updated"
EventsOf(from, to) ==
    {<<EventOf(from, to)>>, <<EventOf(from, to), "subscription_updated">>}
Moves == [active |-> {"past_due", "cancelled", "paused"}, past_due |-> {"active", "expired"},
          cancelled |-> {"active", "expired"}, paused |-> {"active", "expired"}, expired |-> {}]
\* What is assumed of the constants.
BillingAssumption == Unset \notin Subs /\ Unset \notin DOMAIN Moves
MayMove(s, to) ==
    IF shop[s].status = Unset
    THEN to = "active" /\ \A r \in Subs : r < s => shop[r].status = "expired"
    ELSE to \in Moves[shop[s].status]
ShopMoves(s, to) ==
    /\ MayMove(s, to)
    /\ \E names \in EventsOf(shop[s].status, to) :
          LET n == shop[s].n
          IN  /\ n + Len(names) <= MaxEvents
              /\ shop' = [shop EXCEPT ![s] = [status |-> to, n |-> n + Len(names)]]
              /\ mail' = mail \cup {[sub |-> s, n |-> n + i, name |-> names[i], status |-> to] :
                                    i \in DOMAIN names}
    /\ UNCHANGED <<rows, handled, shopFaults>>

-----------------------------------------------------------------------------
(* lemonsqueezy_webhook: one transaction on the event loop.                  *)

Rows(ls) == {i \in DOMAIN rows : rows[i].ls = ls}
Paid(ls) == [ls |-> ls, status |-> "active", trial |-> FALSE]

\* A row of this subscription is set active; else the newest row without one
\* (an in-app trial) is taken over; else a row is added.
subscription_created(s) ==
    IF Rows(s) # {} THEN [rows EXCEPT ![Min(Rows(s))] = Paid(s)]
    ELSE IF Rows(Unset) # {} THEN [rows EXCEPT ![Max(Rows(Unset))] = Paid(s)]
    ELSE Append(rows, Paid(s))
\* A variant that only ever restores access.
OnlyRestores(name, status, old) ==
    IF name \in {"subscription_updated", "subscription_resumed"}
    THEN IF status = "active" THEN "active" ELSE old
    ELSE IF name = "subscription_payment_success" THEN "active" ELSE old
StatusSet == [subscription_cancelled |-> "cancelled", subscription_expired |-> "expired",
              subscription_payment_success |-> "active", subscription_payment_failed |-> "past_due"]
StatusAfter(name, status, old) ==
    IF name \in {"subscription_updated", "subscription_resumed"} THEN status
    ELSE IF name \in DOMAIN StatusSet THEN StatusSet[name] ELSE old
lemonsqueezy_webhook(e) ==
    IF e.name = "subscription_created" THEN subscription_created(e.sub)
    ELSE IF Rows(e.sub) = {} THEN rows
    ELSE [rows EXCEPT ![Min(Rows(e.sub))].status = StatusAfter(e.name, e.status, @)]

\* An event arrives; the shop may send it again.
Deliver(e) ==
    /\ e \in mail
    /\ rows' = lemonsqueezy_webhook(e)
    /\ handled' = IF Rows(e.sub) # {} \/ rows' # rows THEN [handled EXCEPT ![e.sub] = e] ELSE handled
    /\ \/ mail' = mail \ {e} /\ UNCHANGED shopFaults
       \/ shopFaults < MaxShopFaults /\ shopFaults' = shopFaults + 1 /\ UNCHANGED mail
    /\ UNCHANGED shop
\* The transaction fails and the answer is 200 all the same: it is not resent.
Lost(e) ==
    /\ e \in mail /\ shopFaults < MaxShopFaults /\ shopFaults' = shopFaults + 1
    /\ mail' = mail \ {e}
    /\ UNCHANGED <<shop, rows, handled>>

-----------------------------------------------------------------------------
(* auth/subscription_check.py, auth/dependencies.py: the newest row decides, *)
(* a trial for as long as it runs.                                           *)

is_pro(row) == row.status \in {"active", "past_due", "cancelled"} \/ (row.status = "trialing" /\ row.trial)
require_pro == rows # <<>> /\ is_pro(rows[Len(rows)])
TrialEnds(i) ==
    /\ rows[i].trial /\ rows' = [rows EXCEPT ![i].trial = FALSE]
    /\ UNCHANGED <<shop, mail, handled, shopFaults>>

-----------------------------------------------------------------------------
BillingInit ==
    /\ shop = [s \in Subs |-> [status |-> Unset, n |-> 0]]
    /\ mail = {} /\ handled = [s \in Subs |-> Unset] /\ shopFaults = 0
    /\ rows \in {<<>>, <<[ls |-> Unset, status |-> "trialing", trial |-> TRUE]>>}

BillingNext ==
    \/ \E s \in Subs, to \in DOMAIN Moves : ShopMoves(s, to)
    \/ \E e \in mail : Deliver(e) \/ Lost(e)
    \/ \E i \in DOMAIN rows : TrialEnds(i)
BillingSpec == BillingInit /\ [][BillingNext]_billingVars

-----------------------------------------------------------------------------
Started == {s \in Subs : shop[s].status # Unset}

(* Replays and reordering make no second row of a subscription               *)
(* (webhooks.py:70-113), and the events before the last one do not matter:    *)
(* when the running subscription has the newest row and the last event        *)
(* handled of it is the last one sent, the customer is Pro exactly when it is *)
(* in a paid period, in grace or cancelled and not yet expired, whatever was  *)
(* lost, repeated or late before.                                             *)
LastEventDecides ==
    /\ \A s \in Subs : Cardinality(Rows(s)) <= 1
    /\ \A s \in Started :
          (/\ s = Max(Started) /\ rows # <<>> /\ rows[Len(rows)].ls = s
           /\ handled[s].n = shop[s].n)
              => (require_pro <=> shop[s].status \in InPaidPeriod)

(* What the module's docstring (webhooks.py:4-8) says of an expiry, whatever  *)
(* the order: once every event has come, an ended customer is not Pro.        *)
ExpiredIsNotPro ==
    (Started # {} /\ mail = {} /\ shop[Max(Started)].status = "expired" /\ shopFaults = 0) => ~require_pro

(* What the same docstring (webhooks.py:7) says of a cancellation: it         *)
(* deactivates Pro.                                                           *)
CancelledIsNotPro ==
    \A s \in Started :
        (s = Max(Started) /\ handled[s] # Unset /\ handled[s].name = "subscription_cancelled") => ~require_pro
=============================================================================
