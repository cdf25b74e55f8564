------------------------------ MODULE SpaceRuns ------------------------------
(***************************************************************************)
(* What the run lock, the runners and recovery promise together, without   *)
(* leases, retries or goroutines: at most one run holds a Space, a run     *)
(* opens one job record and writes its outcome there while it holds the    *)
(* Space, and it gives the Space back only once that outcome is recorded.  *)
(* Recovery may close out any record that was opened, a record may be lost *)
(* when it is replaced, and a dying process lets go of everything.         *)
(***************************************************************************)
EXTENDS Naturals

CONSTANTS Space, Run, SpaceOf, NoRun

VARIABLES
    holder,     \* the run holding each Space
    record,     \* each run's job record
    outcome,    \* what each run's work came to
    deaths      \* how often the process has died

absVars == <<holder, record, outcome, deaths>>

Terminal == {"succeeded", "failed"}
Holds(r) == holder[SpaceOf[r]] = r

Init ==
    /\ holder = [s \in Space |-> NoRun]
    /\ record = [r \in Run |-> "none"]
    /\ outcome = [r \in Run |-> "none"]
    /\ deaths = 0

\* A free Space is taken.
Take(r) ==
    /\ holder[SpaceOf[r]] = NoRun
    /\ holder' = [holder EXCEPT ![SpaceOf[r]] = r]
    /\ UNCHANGED <<record, outcome, deaths>>

\* The holder opens its record.
Open(r) ==
    /\ Holds(r)
    /\ record[r] = "none"
    /\ record' = [record EXCEPT ![r] = "running"]
    /\ UNCHANGED <<holder, outcome, deaths>>

\* The holder's work comes to an end, once.
Conclude(r) ==
    /\ Holds(r)
    /\ outcome[r] = "none"
    /\ \E o \in Terminal : outcome' = [outcome EXCEPT ![r] = o]
    /\ UNCHANGED <<holder, record, deaths>>

\* The holder writes its outcome to its record.
Record(r) ==
    /\ Holds(r)
    /\ outcome[r] # "none"
    /\ record[r] # "lost"
    /\ record' = [record EXCEPT ![r] = outcome[r]]
    /\ UNCHANGED <<holder, outcome, deaths>>

\* The holder lets go: never with work done and the record unfinished.
GiveBack(r) ==
    /\ Holds(r)
    /\ outcome[r] # "none" => record[r] \notin {"none", "running"}
    /\ holder' = [holder EXCEPT ![SpaceOf[r]] = NoRun]
    /\ UNCHANGED <<record, outcome, deaths>>

\* Recovery closes out an opened record.
CloseOut(r) ==
    /\ record[r] \notin {"none", "lost"}
    /\ record' = [record EXCEPT ![r] = "failed"]
    /\ UNCHANGED <<holder, outcome, deaths>>

\* A record is lost while it is replaced; nobody opens it again.
Lose(r) ==
    /\ record[r] \notin {"none", "lost"}
    /\ record' = [record EXCEPT ![r] = "lost"]
    /\ UNCHANGED <<holder, outcome, deaths>>

\* The process dies.
Die ==
    /\ deaths' = deaths + 1
    /\ holder' = [s \in Space |-> NoRun]
    /\ UNCHANGED <<record, outcome>>

Next ==
    \/ \E r \in Run :
          \/ Take(r) \/ Open(r) \/ Conclude(r) \/ Record(r)
          \/ GiveBack(r) \/ CloseOut(r) \/ Lose(r)
    \/ Die

Spec == Init /\ [][Next]_absVars
=============================================================================
