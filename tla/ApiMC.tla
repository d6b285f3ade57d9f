------------------------------- MODULE ApiMC -------------------------------
(***************************************************************************)
(* The public API's process: keys and metering (ApiUsage) and the guards   *)
(* of its heavy queries (ApiGuard).  The two share neither a lock nor a    *)
(* row, so a behaviour moves one and leaves the other in its first state.  *)
(***************************************************************************)
EXTENDS ApiUsage, ApiGuard

\* The job warms the key that requests ask for.
WarmOne == <<"coverage">>

ASSUME GuardConstants == GuardAssumption /\ WarmAssumption

VARIABLE part
allVars == <<part, vars, guardVars>>

ApiInit == part \in {"usage", "keys", "guard"} /\ Init /\ GuardInit

\* Bounds of the instance: what is metered is metered for one key, and where keys
\* overrun the cap nothing is metered.
Within ==
    /\ part = "usage" => Cardinality(Issued') <= 1
    /\ part = "keys" => \A t \in Threads : pc'[t] \in {"idle", "mint"}

OfUsage(A) == part \in {"usage", "keys"} /\ A /\ UNCHANGED <<part, guardVars>>
OfGuard(A) == part = "guard" /\ A /\ UNCHANGED <<part, vars>>

ApiNext == OfUsage(Next /\ Within) \/ OfGuard(GuardNext)

\* The fairness of ApiUsage and of ApiGuard; the two steps of a flush follow each
\* other, so they go on as one action.
ApiFairness ==
    /\ WF_allVars(OfUsage(FlushDrains \/ FlushCommits))
    /\ WF_allVars(OfGuard(\E t \in Serving : Serves(t)))

ApiSpec == ApiInit /\ [][ApiNext]_allVars /\ ApiFairness
=============================================================================
