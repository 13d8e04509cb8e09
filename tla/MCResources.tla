----------------------------- MODULE MCResources ----------------------------
(* The scarce resources, which share no state: the AI slots with five clients, *)
(* the clips with three (one slot less than clients, one waiting place, room   *)
(* for one more clip than the one in use, a lock registry of one) and the      *)
(* quota of one user.  A behaviour steps one of them, chosen at the start.     *)
EXTENDS Pronunciation, DailyQuota, TLC

CONSTANTS c1, c2, c3, c4, c5, k1, k2

Asked == c1 :> k1 @@ c2 :> k1 @@ c3 :> k2 @@ c4 :> k2 @@ c5 :> k2
Listeners == {c1, c2, c3}

VARIABLE part

Start ==
    /\ part \in {"slots", "clips", "quota"}
    /\ TtsInit
    /\ Init

Move ==
    /\ UNCHANGED part
    /\ \/ part = "slots" /\ SlotNext /\ UNCHANGED <<ttsVars, vars>>
       \/ part = "clips" /\ TtsNextOf(Listeners) /\ UNCHANGED vars
       \/ part = "quota" /\ Next /\ UNCHANGED allVars

ResourcesSpec ==
    /\ Start
    /\ [][Move]_<<part, allVars, vars>>
    /\ \A c \in Listeners : WF_allVars(Endpoint(c) \/ Worker(c) \/ Pruning(c))
    /\ \A t \in Tx : WF_vars(Step(t)) /\ SF_vars(LockRow(t))

=============================================================================
