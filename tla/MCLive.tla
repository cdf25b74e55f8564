------------------------------ MODULE MCLive ------------------------------
(***************************************************************************)
(* What has to end, for TLC: a process that starts after another one died, *)
(* until it exits (Service), and the calls it makes of OpenCloud           *)
(* (SpaceClient).  They share no state, so a behaviour exercises one of    *)
(* them: no call is made, or every process is dead, and the fairness of    *)
(* the other part then asks for nothing.                                   *)
(***************************************************************************)
EXTENDS Service, SpaceClient

CONSTANTS i1, i2
VARIABLE part

liveVars == <<part, serviceVars, clientVars>>

LiveInit ==
    /\ ServiceInit /\ ClientInit
    /\ part \in {"process", "client"}
    /\ part = "client" <=> \A i \in Instance : At(i, "exit")
    /\ part = "client" => overwrites

LiveNext ==
    /\ \/ part = "process" /\ ServiceNext /\ UNCHANGED clientVars
       \/ part = "client" /\ ClientNext /\ UNCHANGED serviceVars
    /\ UNCHANGED part

LiveSpec == LiveInit /\ [][LiveNext]_liveVars /\ ServiceFairness /\ ClientFairness
=============================================================================
