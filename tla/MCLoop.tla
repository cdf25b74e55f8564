------------------------------- MODULE MCLoop -------------------------------
(***************************************************************************)
(* The service at work, for TLC: the scheduler of one process (Scheduler), *)
(* the monitor's sweep, which its loop drives (Notify), and the processes  *)
(* that start, serve and stop one after another, or beside each other      *)
(* (Service).  The histories that the first two read are a part of each,   *)
(* and they share no state here, so a behaviour exercises one of the       *)
(* three, chosen at the start, and the others stay as they are.            *)
(***************************************************************************)
EXTENDS MCScheduler, Notify, Service, TLC

CONSTANTS s1, i1, i2
VARIABLE part

OneWatched == {s1}

\* Processes are interchangeable.
Symmetry == Permutations(Instance)

LoopInit ==
    /\ Init /\ NotifyInit /\ ServiceInit
    /\ part \in {"scheduler", "monitor", "processes"}
    /\ part # "processes" => overwrites

LoopNext ==
    /\ \/ part = "scheduler" /\ Next /\ UNCHANGED <<notifyVars, serviceVars>>
       \/ part = "monitor" /\ NotifyNext /\ UNCHANGED <<vars, serviceVars>>
       \/ part = "processes" /\ ServiceNext /\ UNCHANGED <<vars, notifyVars>>
    /\ UNCHANGED part

LoopSpec == LoopInit /\ [][LoopNext]_<<part, vars, notifyVars, serviceVars>>
=============================================================================
