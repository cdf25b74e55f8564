-------------------------- MODULE RunLifecycleProofs --------------------------
(* Proofs about RunLifecycle, for any Spaces, runs, timings and bounds.     *)
EXTENDS RunLifecycle, TLAPS

\* A clock reading a locker call works from is at most Slack ticks old, and a
\* run renews nothing before it wrote its lease.  Attempts are left until the
\* lock is kept.
AgeInv ==
    \A r \in Run :
        /\ (pc[r] \in {"read", "write"} \/ renew[r] = "write") => age[r] <= Slack
        /\ pc[r] \in {"new", "read", "write"} => renew[r] = "off"
        /\ pc[r] \notin {"kept", "done"} => tries[r] < Attempts

\* The process-local hold and the runs' own idea of holding agree.
HoldInv == \A r \in Run : pc[r] \in Holding <=> local[SpaceOf[r]] = r

\* A run has a record only once it got to create one, and works only with one;
\* it has a result only once its work is over.
ProgressInv ==
    \A r \in Run :
        /\ pc[r] \in {"new", "read", "write", "resolve", "create"} => job[r] = "none"
        /\ pc[r] \in {"new", "read", "write", "resolve", "create", "work"} => result[r] = "none"
        /\ pc[r] \in {"work", "record"} => job[r] # "none"
        /\ pc[r] = "record" => result[r] # "none"

\* A record of a run that is over, or never got to work, is unfinished only
\* after a failure.
OrphanInv ==
    \A r \in Run :
        (job[r] = "running" /\ pc[r] \notin {"work", "record", "kept"})
            => (crashes > 0 \/ faults > 0)

\* What a recovery pass looks at exists, and the job it is about to close out
\* belongs to a run that is over.
PassInv ==
    /\ pass.at \in {"held", "list", "close", "drop"} => pass.space \in Space
    /\ \A r \in pass.jobs : job[r] # "none"
    /\ pass.at \in {"probe", "finish"} =>
          /\ pass.job \in Run
          /\ job[pass.job] # "none"
          /\ pc[pass.job] \in {"unlease", "done"}

IInv ==
    /\ TypeOK
    /\ AgeInv
    /\ HoldInv
    /\ ProgressInv
    /\ SucceededMeansDone
    /\ RecordedBeforeRelease
    /\ OrphanInv
    /\ PassInv

\* All that recovery does to the records: an opened one is marked failed, or
\* lost on the way.
OnlyCloses ==
    \/ UNCHANGED job
    \/ \E r \in Run : /\ job[r] \notin {"none", "lost"}
                      /\ SetJob(r, "failed") \/ SetJob(r, "lost")

-----------------------------------------------------------------------------

\* The initial states satisfy the inductive invariant.
LEMMA InitIInv == Init => IInv
  BY RunAssumption, TimeAssumption, BoundAssumption
  DEF Init, IInv, TypeOK, AgeInv, HoldInv, ProgressInv, SucceededMeansDone,
      RecordedBeforeRelease, OrphanInv, PassInv, Pass, NoPass, Absent, Outcome, Steps,
      Holding

\* The idle pass is a pass.
LEMMA NoPassTyped == NoPass \in Pass
  BY DEF NoPass, Pass

\* A step of recovery keeps the pass well-formed.
LEMMA PassTyped == ASSUME pass \in Pass, Recover PROVE pass' \in Pass
  <1>1. CASE RecoverExpired
    BY <1>1, NoPassTyped DEF RecoverExpired, Pass
  <1>2. CASE RecoverHeld
    BY <1>2 DEF RecoverHeld, Pass
  <1>3. CASE RecoverList
    BY <1>3, NoPassTyped DEF RecoverList, Unfinished, Abort, Pass
  <1>4. CASE RecoverClosed
    BY <1>4 DEF RecoverClosed, Pass
  <1>5. CASE RecoverDrop
    BY <1>5, NoPassTyped DEF RecoverDrop, Abort, Pass
  <1>6. CASE RecoverOrphans
    BY <1>6, NoPassTyped DEF RecoverOrphans, Unfinished, Abort, Pass
  <1>7. CASE RecoverProbe
    BY <1>7, NoPassTyped DEF RecoverProbe, Abort, Pass
  <1>8. CASE RecoverFinish
    BY <1>8, NoPassTyped DEF RecoverFinish, CloseFails, Abort, Pass
  <1>9. CASE RecoverEnd
    BY <1>9, NoPassTyped DEF RecoverEnd
  <1>10. ASSUME NEW s \in Space, RecoverGet(s) PROVE pass' \in Pass
    BY <1>10 DEF RecoverGet, Pass
  <1>11. ASSUME NEW r \in Run, RecoverClose(r) PROVE pass' \in Pass
    BY <1>11, NoPassTyped DEF RecoverClose, CloseFails, Abort, Pass
  <1>12. ASSUME NEW r \in Run, RecoverJob(r) PROVE pass' \in Pass
    BY <1>12 DEF RecoverJob, Pass
  <1> QED
    BY <1>1, <1>2, <1>3, <1>4, <1>5, <1>6, <1>7, <1>8, <1>9, <1>10, <1>11, <1>12 DEF Recover
\* An idle pass looks at nothing.
LEMMA IdlePassInv == ASSUME pass' = NoPass PROVE PassInv'
  BY DEF PassInv, NoPass

\* A step of recovery looks only at records that were opened, and settles on
\* closing one out only when nothing in the process holds its Space.
LEMMA PassStep ==
  ASSUME TypeOK, HoldInv, ProgressInv, PassInv, Recover
  PROVE  PassInv'
  <1> USE RunAssumption DEF TypeOK, PassInv
  <1>1. CASE RecoverExpired
    BY <1>1 DEF RecoverExpired, NoPass
  <1>2. CASE RecoverHeld
    BY <1>2 DEF RecoverHeld, runVars, Pass
  <1>3. CASE RecoverList
    <2>1. CASE Abort
      BY <2>1, IdlePassInv DEF Abort
    <2>2. CASE pass' = [pass EXCEPT !.at = "close",
                          !.jobs = {r \in Unfinished : SpaceOf[r] = pass.space}]
      BY <1>3, <2>2 DEF RecoverList, Unfinished, runVars, Pass
    <2> QED
      BY <1>3, <2>1, <2>2 DEF RecoverList
  <1>4. CASE RecoverClosed
    BY <1>4 DEF RecoverClosed, runVars, Pass
  <1>5. CASE RecoverDrop
    <2>1. CASE Abort
      BY <2>1, IdlePassInv DEF Abort
    <2>2. CASE pass' = [pass EXCEPT !.at = "keys", !.space = NoSpace]
      BY <1>5, <2>2 DEF RecoverDrop, runVars, Pass
    <2> QED
      BY <1>5, <2>1, <2>2 DEF RecoverDrop
  <1>6. CASE RecoverOrphans
    <2>1. CASE pass' = NoPass
      BY <2>1, IdlePassInv
    <2>2. CASE pass' = [pass EXCEPT !.at = "jobs", !.jobs = Unfinished]
      BY <1>6, <2>2 DEF RecoverOrphans, Unfinished, runVars, Pass
    <2> QED
      BY <1>6, <2>1, <2>2 DEF RecoverOrphans, Abort
  <1>7. CASE RecoverProbe
    <2>1. CASE Abort
      BY <2>1, IdlePassInv DEF Abort
    <2>2. CASE pass' = IF Live(SpaceOf[pass.job])
                         THEN [pass EXCEPT !.at = "jobs", !.job = NoRun]
                         ELSE [pass EXCEPT !.at = "finish"]
      BY <1>7, <2>2 DEF RecoverProbe, runVars, Pass
    <2> QED
      BY <1>7, <2>1, <2>2 DEF RecoverProbe
  <1>8. CASE RecoverFinish
    <2>1. CASE CloseFails(pass.job)
      BY <2>1, IdlePassInv DEF CloseFails, Abort
    <2>2. CASE CloseJob(pass.job) /\ pass' = [pass EXCEPT !.at = "jobs", !.job = NoRun]
      BY <1>8, <2>2 DEF RecoverFinish, CloseJob, SetJob, runVars, Pass
    <2> QED
      BY <1>8, <2>1, <2>2 DEF RecoverFinish
  <1>9. CASE RecoverEnd
    BY <1>9, IdlePassInv DEF RecoverEnd
  <1>10. ASSUME NEW s \in Space, RecoverGet(s) PROVE PassInv'
    <2>1. CASE pass' = [pass EXCEPT !.at = "held", !.keys = @ \ {s}, !.space = s]
      BY <1>10, <2>1 DEF RecoverGet, runVars, Pass
    <2>2. CASE pass' = [pass EXCEPT !.keys = @ \ {s}]
      BY <1>10, <2>2 DEF RecoverGet, runVars, Pass
    <2> QED
      BY <1>10, <2>1, <2>2 DEF RecoverGet
  <1>11. ASSUME NEW r \in Run, RecoverClose(r) PROVE PassInv'
    <2>1. CASE CloseFails(r)
      BY <2>1, IdlePassInv DEF CloseFails, Abort
    <2>2. CASE CloseJob(r) /\ pass' = [pass EXCEPT !.jobs = @ \ {r}]
      BY <1>11, <2>2 DEF RecoverClose, CloseJob, SetJob, runVars, Pass
    <2> QED
      BY <1>11, <2>1, <2>2 DEF RecoverClose
  <1>12. ASSUME NEW r \in Run, RecoverJob(r) PROVE PassInv'
    <2>1. CASE Held(SpaceOf[r])
      BY <1>12, <2>1 DEF RecoverJob, runVars, Pass
    <2>2. CASE ~Held(SpaceOf[r])
      <3>1. job[r] # "none" /\ local[SpaceOf[r]] # r
        BY <1>12, <2>2 DEF RecoverJob, Held
      <3>2. pc[r] \in {"unlease", "done"}
        BY <3>1 DEF HoldInv, ProgressInv, Holding, Steps
      <3> QED
        BY <1>12, <2>2, <3>1, <3>2 DEF RecoverJob, runVars, Pass
    <2> QED
      BY <2>1, <2>2
  <1> QED
    BY <1>1, <1>2, <1>3, <1>4, <1>5, <1>6, <1>7, <1>8, <1>9, <1>10, <1>11, <1>12 DEF Recover

\* A step of recovery touches runs, holds and results not at all, leases only
\* to drop them and records only to close opened ones.
LEMMA RecoverStep ==
  ASSUME TypeOK, PassInv, Recover
  PROVE  /\ UNCHANGED <<local, runVars, crashes>>
         /\ faults' \in 0..MaxFaults /\ faults' >= faults
         /\ sweep' \in 0..SweepEvery
         /\ lease' = lease \/ \E s \in Space : DropLease(s)
         /\ OnlyCloses
  <1> USE RunAssumption, TimeAssumption, BoundAssumption
      DEF TypeOK, PassInv, Fault, Sound, Abort, OnlyCloses
  <1>1. CASE RecoverExpired
    BY <1>1 DEF RecoverExpired
  <1>2. CASE RecoverHeld
    BY <1>2 DEF RecoverHeld
  <1>3. CASE RecoverList
    BY <1>3 DEF RecoverList
  <1>4. CASE RecoverClosed
    BY <1>4 DEF RecoverClosed
  <1>5. CASE RecoverDrop
    BY <1>5 DEF RecoverDrop
  <1>6. CASE RecoverOrphans
    BY <1>6 DEF RecoverOrphans
  <1>7. CASE RecoverProbe
    BY <1>7 DEF RecoverProbe
  <1>8. CASE RecoverFinish
    BY <1>8 DEF RecoverFinish, CloseJob, CloseFails, FinishFails
  <1>9. CASE RecoverEnd
    BY <1>9 DEF RecoverEnd
  <1>11. CASE \E s \in Space : RecoverGet(s)
    BY <1>11 DEF RecoverGet
  <1>12. CASE \E r \in Run : RecoverClose(r)
    BY <1>12 DEF RecoverClose, CloseJob, CloseFails, FinishFails, Pass
  <1>13. CASE \E r \in Run : RecoverJob(r)
    BY <1>13 DEF RecoverJob
  <1> QED
    BY <1>1, <1>2, <1>3, <1>4, <1>5, <1>6, <1>7, <1>8, <1>9, <1>11, <1>12, <1>13 DEF Recover

\* Every step keeps the inductive invariant.
LEMMA NextIInv == IInv /\ [Next]_vars => IInv'
  <1> SUFFICES ASSUME IInv, [Next]_vars
               PROVE  IInv'
    OBVIOUS
  <1> USE RunAssumption, TimeAssumption, BoundAssumption
      DEF IInv, TypeOK, AgeInv, HoldInv, ProgressInv, SucceededMeansDone,
          RecordedBeforeRelease, OrphanInv, Absent, Outcome, Steps, Holding, runVars, recVars
  <1>1. ASSUME NEW r \in Run, Reserve(r) PROVE IInv'
    BY <1>1 DEF Reserve, Held, PassInv, Pass
  <1>2. ASSUME NEW r \in Run, ReadLease(r) PROVE IInv'
    BY <1>2 DEF ReadLease, Fault, Sound, UndoReserve, PassInv, Pass
  <1>3. ASSUME NEW r \in Run, WriteLease(r) PROVE IInv'
    BY <1>3 DEF WriteLease, Fault, Sound, UndoReserve, PutLease, PutLeaseFails, DropLease, PassInv, Pass
  <1>4. ASSUME NEW r \in Run, ResolveSpace(r) PROVE IInv'
    BY <1>4 DEF ResolveSpace, PassInv, Pass
  <1>5. ASSUME NEW r \in Run, CreateJob(r) PROVE IInv'
    BY <1>5 DEF CreateJob, Fault, Sound, PassInv, Pass
  <1>6. ASSUME NEW r \in Run, Work(r) PROVE IInv'
    <2>1. PICK o \in Outcome : result' = [result EXCEPT ![r] = o]
      BY <1>6 DEF Work
    <2>2. TypeOK'
      BY <1>6, <2>1 DEF Work
    <2>3. AgeInv' /\ HoldInv'
      BY <1>6 DEF Work
    <2>4. ProgressInv' /\ SucceededMeansDone' /\ RecordedBeforeRelease' /\ OrphanInv'
      BY <1>6, <2>1 DEF Work
    <2>5. PassInv'
      BY <1>6 DEF Work, PassInv, Pass
    <2> QED
      BY <2>2, <2>3, <2>4, <2>5
  <1>7. ASSUME NEW r \in Run, RecordOutcome(r) PROVE IInv'
    BY <1>7 DEF RecordOutcome, Record, FinishFails, SetJob, Fault, Sound, PassInv, Pass
  <1>8. ASSUME NEW r \in Run, Unlock(r) PROVE IInv'
    BY <1>8 DEF Unlock, PassInv, Pass
  <1>9. ASSUME NEW r \in Run, Unlease(r) PROVE IInv'
    BY <1>9 DEF Unlease, Fault, Sound, DropLease, PassInv, Pass
  <1>10. ASSUME NEW r \in Run, RenewFire(r) PROVE IInv'
    BY <1>10 DEF RenewFire, PassInv, Pass
  <1>11. ASSUME NEW r \in Run, RenewWrite(r) PROVE IInv'
    BY <1>11 DEF RenewWrite, Fault, Sound, PutLease, PutLeaseFails, DropLease, PassInv, Pass
  <1>12. ASSUME NEW r \in Run, RenewStop(r) PROVE IInv'
    BY <1>12 DEF RenewStop, Stopped, PassInv, Pass
  <1>13. CASE Recover
    <2>1. pass' \in Pass /\ PassInv'
      BY <1>13, PassTyped, PassStep
    <2>2. /\ UNCHANGED <<local, runVars, crashes>>
          /\ faults' \in 0..MaxFaults /\ faults' >= faults
          /\ sweep' \in 0..SweepEvery
          /\ lease' = lease \/ \E s \in Space : DropLease(s)
          /\ OnlyCloses
      BY <1>13, RecoverStep
    <2> QED
      BY <2>1, <2>2 DEF DropLease, OnlyCloses, SetJob
  <1>14. CASE Tick
    BY <1>14 DEF Tick, Timed, RenewEvery, PassInv, Pass
  <1>15. CASE Crash
    BY <1>15 DEF Crash, PassInv, Pass, NoPass
  <1>16. CASE UNCHANGED vars
    BY <1>16 DEF vars, PassInv
  <1> QED
    BY <1>1, <1>2, <1>3, <1>4, <1>5, <1>6, <1>7, <1>8,
       <1>9, <1>10, <1>11, <1>12, <1>13, <1>14, <1>15, <1>16
    DEF Next, RunStep, RenewStep

\* Every behaviour keeps the inductive invariant.
THEOREM Invariance == Spec => []IInv
  BY InitIInv, NextIInv, PTL DEF Spec

\* Type correctness of the run lock, the runners and recovery.
THEOREM TypeCorrect == Spec => []TypeOK
  <1>1. IInv => TypeOK
    BY DEF IInv
  <1> QED
    BY <1>1, Invariance, PTL

\* No two runs of one Space execute at a time, for any number of runs, Spaces,
\* store failures and crashes: two executing runs of a Space would both be the
\* one run that LeaseLocker.local names.
THEOREM MutualExclusion == Spec => []RunsNeverOverlap
  <1>1. IInv => RunsNeverOverlap
    BY DEF IInv, HoldInv, RunsNeverOverlap, Executing, Holding
  <1> QED
    BY <1>1, Invariance, PTL

\* The history never claims work that was not done.
THEOREM HistoryIsHonest == Spec => []SucceededMeansDone
  <1>1. IInv => SucceededMeansDone
    BY DEF IInv
  <1> QED
    BY <1>1, Invariance, PTL

\* settle's order: a run that did its work lets go of its Space only with its
\* outcome on record.
THEOREM RecordThenRelease == Spec => []RecordedBeforeRelease
  <1>1. IInv => RecordedBeforeRelease
    BY DEF IInv
  <1> QED
    BY <1>1, Invariance, PTL

\* Without crashes and store failures no run leaves an unfinished record.
THEOREM OrphansAreTraces == Spec => []OrphansComeFromFailures
  <1>1. IInv => OrphansComeFromFailures
    BY DEF IInv, OrphanInv, OrphansComeFromFailures, Executing
  <1> QED
    BY <1>1, Invariance, PTL

\* The orphan sweep never closes out a run that is executing.
THEOREM SweepIsSafe == Spec => []OrphanSweepSparesRuns
  <1>1. IInv => OrphanSweepSparesRuns
    BY DEF IInv, PassInv, OrphanSweepSparesRuns, Executing
  <1> QED
    BY <1>1, Invariance, PTL

\* A step of a run, of recovery or of the environment is a step of the contract
\* or leaves the contract's state alone.
LEMMA StepKeepsContract == IInv /\ [Next]_vars => [Contract!Next]_(Contract!absVars)
  <1> SUFFICES ASSUME IInv, [Next]_vars
               PROVE  Contract!Next \/ UNCHANGED Contract!absVars
    OBVIOUS
  <1> USE RunAssumption DEF IInv, TypeOK, HoldInv, ProgressInv, RecordedBeforeRelease,
          Outcome, Holding, Contract!absVars, Contract!Holds, Contract!Terminal
  <1>1. ASSUME NEW r \in Run, Reserve(r)
        PROVE  Contract!Take(r)
    BY <1>1 DEF Reserve, Held, Contract!Take
  <1>2. ASSUME NEW r \in Run, ReadLease(r)
        PROVE  Contract!GiveBack(r) \/ UNCHANGED Contract!absVars
    BY <1>2 DEF ReadLease, UndoReserve, Contract!GiveBack
  <1>3. ASSUME NEW r \in Run, WriteLease(r)
        PROVE  Contract!GiveBack(r) \/ UNCHANGED Contract!absVars
    BY <1>3 DEF WriteLease, UndoReserve, Contract!GiveBack
  <1>4. ASSUME NEW r \in Run, ResolveSpace(r)
        PROVE  UNCHANGED Contract!absVars
    BY <1>4 DEF ResolveSpace
  <1>5. ASSUME NEW r \in Run, CreateJob(r)
        PROVE  Contract!Open(r) \/ UNCHANGED Contract!absVars
    BY <1>5 DEF CreateJob, Contract!Open
  <1>6. ASSUME NEW r \in Run, Work(r)
        PROVE  Contract!Conclude(r)
    BY <1>6 DEF Work, Contract!Conclude
  <1>7. ASSUME NEW r \in Run, RecordOutcome(r)
        PROVE  Contract!Record(r) \/ Contract!Lose(r) \/ UNCHANGED Contract!absVars
    BY <1>7 DEF RecordOutcome, Record, FinishFails, SetJob, Contract!Record, Contract!Lose
  <1>8. ASSUME NEW r \in Run, Unlock(r)
        PROVE  Contract!GiveBack(r)
    BY <1>8 DEF Unlock, Contract!GiveBack
  <1>9. ASSUME NEW r \in Run, Unlease(r)
        PROVE  UNCHANGED Contract!absVars
    BY <1>9 DEF Unlease
  <1>10. ASSUME NEW r \in Run, RenewFire(r)
        PROVE  UNCHANGED Contract!absVars
    BY <1>10 DEF RenewFire
  <1>11. ASSUME NEW r \in Run, RenewWrite(r)
        PROVE  UNCHANGED Contract!absVars
    BY <1>11 DEF RenewWrite
  <1>12. ASSUME NEW r \in Run, RenewStop(r)
        PROVE  UNCHANGED Contract!absVars
    BY <1>12 DEF RenewStop
  <1>13. CASE Recover
    <2>1. UNCHANGED <<local, result, crashes>> /\ OnlyCloses
      BY <1>13, RecoverStep DEF runVars
    <2> QED
      BY <2>1 DEF OnlyCloses, SetJob, Contract!Next, Contract!CloseOut, Contract!Lose
  <1>14. CASE Tick
    BY <1>14 DEF Tick
  <1>15. CASE Crash
    BY <1>15 DEF Crash, Contract!Next, Contract!Die
  <1>16. CASE UNCHANGED vars
    BY <1>16 DEF vars, runVars
  <1> QED
    BY <1>1, <1>2, <1>3, <1>4, <1>5, <1>6, <1>7, <1>8,
       <1>9, <1>10, <1>11, <1>12, <1>13, <1>14, <1>15, <1>16
    DEF Next, RunStep, RenewStep, Contract!Next

\* The detailed lock, runners and recovery implement SpaceRuns.
THEOREM Refinement == Spec => KeepsContract
  <1>1. Init => Contract!Init
    BY DEF Init, Contract!Init
  <1> QED
    BY <1>1, Invariance, StepKeepsContract, PTL DEF Spec, KeepsContract, Contract!Spec

=============================================================================
