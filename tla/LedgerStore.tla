---------------------------- MODULE LedgerStore ----------------------------
(***************************************************************************)
(* What the hourly store promises its readers, without sessions, locks and *)
(* transactions: a batch lands in one step, all of it, and with it exactly *)
(* the revisions of the stored values it replaces (the docstrings of       *)
(* backend/power/hourly_store.py and backend/models/power_revision.py).    *)
(***************************************************************************)
EXTENDS Integers

CONSTANTS Series, Zones, Excluded, Hours, Values, NoRow,
          Moved(_, _)   \* the new value counts as a revision of the old one

VARIABLES table,   \* power_hourly
          ledger,  \* power_revision
          clock    \* commits of anybody so far

ledgerVars == <<table, ledger, clock>>

LedgerInit ==
    /\ table = [s \in Series |-> [z \in Zones |-> [h \in Hours |-> NoRow]]]
    /\ ledger = {}
    /\ clock = 0

\* The hours of the points whose stored value they revise.
Revised(s, z, points) ==
    {h \in DOMAIN points : table[s][z][h] # NoRow /\ Moved(table[s][z][h], points[h])}

Put(s, z, points) ==
    /\ table' = [table EXCEPT ![s][z] =
                    [h \in Hours |-> IF h \in DOMAIN points THEN points[h] ELSE @[h]]]
    /\ ledger' = ledger \cup
         (IF s \in Excluded THEN {}
          ELSE {[series |-> s, zone |-> z, hour |-> h, old |-> table[s][z][h],
                 new |-> points[h], at |-> clock] : h \in Revised(s, z, points)})
    /\ clock' = clock + 1

\* Somebody commits to another table.
Elsewhere == clock' = clock + 1 /\ UNCHANGED <<table, ledger>>

LedgerNext ==
    \/ \E s \in Series, z \in Zones, H \in (SUBSET Hours) \ {{}} :
          \E points \in [H -> Values] : Put(s, z, points)
    \/ Elsewhere

LedgerSpec == LedgerInit /\ [][LedgerNext]_ledgerVars
=============================================================================
