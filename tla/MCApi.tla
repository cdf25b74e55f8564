-------------------------------- MODULE MCApi --------------------------------
(***************************************************************************)
(* What the API does with a request, for TLC: the token check (Login), the *)
(* role check (Roles), and the handlers of targets, grants and             *)
(* configurations with the rotations beside them (Rotation).  They share   *)
(* no state, so a behaviour exercises one of them, chosen at the start,    *)
(* and the others stay as they are.                                        *)
(***************************************************************************)
EXTENDS MCCustody, Login, Roles
CONSTANTS k1, k2, a1, a2, p1, p2
VARIABLE part
LongAgo == -99
Tokens == {[key |-> k1, exp |-> 9, good |-> TRUE], [key |-> k2, exp |-> 1, good |-> TRUE]}
ApiSymmetry == Symmetry \cup Permutations(Call)

\* Where they are not exercised, the handlers have one store to begin with.
ApiInit ==
    /\ Init /\ LoginInit /\ RolesInit
    /\ part \in {"login", "roles", "custody"}
    /\ part # "login" => published = {k1}
    /\ part # "custody" => minted = {}
ApiNext ==
    /\ \/ part = "login" /\ LoginNext /\ UNCHANGED <<roleVars, custodyVars>>
       \/ part = "roles" /\ RolesNext /\ UNCHANGED <<loginVars, custodyVars>>
       \/ part = "custody" /\ CustodyNext /\ UNCHANGED <<loginVars, roleVars>>
    /\ UNCHANGED part
ApiSpec == ApiInit /\ [][ApiNext]_<<part, loginVars, roleVars, custodyVars>>
=============================================================================
