------------------------------ MODULE MCCustody ------------------------------
(* Small instances of Rotation, and of Targets with it, for TLC.            *)
EXTENDS Rotation, TLC
CONSTANTS t1, t2, s1, u1, q1, q2, c1
Lists == { {}, {[scope |-> "space", user |-> None, space |-> s1]},
           {[scope |-> "user", user |-> None, space |-> s1]} }
Symmetry == Permutations(Request)
\* One envelope for each Space, in the old layout where a target is there from the
\* beginning and in the new one where there is none; a rotation makes it both.
Init ==
    /\ CustodyInit
    /\ \A s \in Space : IF minted = {} THEN srw[s] # None /\ legacy[s] = None
                        ELSE srw[s] = None /\ legacy[s] # None
Spec == Init /\ [][CustodyNext]_custodyVars
=============================================================================
