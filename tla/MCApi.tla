-------------------------------- MODULE MCApi --------------------------------
(***************************************************************************)
(* Instances of Accounts, Admission and Placement for TLC.  `part` says    *)
(* which of them moves; the others stay in an initial state.               *)
(*   accounts    two requests and as many permits                          *)
(*   admission   three keys, two of which fit into the map                 *)
(*   orders      two requests for two orders, of which one may be open     *)
(***************************************************************************)
EXTENDS Accounts, Admission, Placement, TLC

CONSTANTS r1, r2, a, b, c1, c2

VARIABLE part

GroupTable == [signin |-> "login", other |-> "api"]
LimitTable == [login |-> 2, api |-> 1]
Costs == c1 :> 1 @@ c2 :> 2

Parts == {"accounts", "admission", "orders"}

Resting ==
    /\ users = [e \in Emails |-> None]
    /\ \A r \in Requests : call[r] = call[r1] /\ call[r].kind = "login" /\ call[r].password = "p"

PartInit ==
    /\ part \in Parts
    /\ AdmissionInit /\ Init /\ PlacementInit
    /\ part # "accounts" => Resting
    /\ part # "orders" => \A r \in Connections : want[r] = c1

PartNext ==
    \/ part = "accounts" /\ Next /\ UNCHANGED <<part, admissionVars, placementVars>>
    \/ part = "admission" /\ AdmissionNext /\ UNCHANGED <<part, vars, placementVars>>
    \/ part = "orders" /\ PlacementNext /\ UNCHANGED <<part, vars, admissionVars>>

\* Nothing of the two fairness conditions is enabled in a part that rests.
PartSpec ==
    /\ PartInit /\ [][PartNext]_<<part, vars, admissionVars, placementVars>>
    /\ Fairness /\ PlacementFairness
==============================================================================
