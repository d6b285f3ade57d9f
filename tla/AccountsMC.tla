----------------------------- MODULE AccountsMC -----------------------------
(***************************************************************************)
(* The parts of the app that keep promises to people: alert rules, login   *)
(* by mail, billing and the social account.  They share no row, so a       *)
(* behaviour moves one of them and leaves the others in their first state. *)
(***************************************************************************)
EXTENDS AlertRules, Login, Billing, Social

ASSUME AccountConstants == LoginAssumption /\ BillingAssumption /\ SocialAssumption

VARIABLE part
allVars == <<part, vars, loginVars, billingVars, socialVars>>

\* The parts that do not move start in one state.
Still ==
    /\ part # "billing" => rows = <<>>
    /\ part # "social" => today = 0
AccountsInit ==
    /\ part \in {"alerts", "login", "billing", "social"}
    /\ Init /\ LoginInit /\ BillingInit /\ SocialInit
    /\ Still

AccountsNext ==
    /\ part' = part
    /\ \/ part = "alerts" /\ Next /\ UNCHANGED <<loginVars, billingVars, socialVars>>
       \/ part = "login" /\ LoginNext /\ UNCHANGED <<vars, billingVars, socialVars>>
       \/ part = "billing" /\ BillingNext /\ UNCHANGED <<vars, loginVars, socialVars>>
       \/ part = "social" /\ SocialNext /\ UNCHANGED <<vars, loginVars, billingVars>>
AccountsSpec == AccountsInit /\ [][AccountsNext]_allVars
=============================================================================
