---------------------------- MODULE RunLifecycle ----------------------------
(***************************************************************************)
(* One run of a Space, from taking the run lock to giving it back, and the *)
(* recovery pass that cleans up after runs nothing executes any more.      *)
(*                                                                         *)
(*   internal/jobs/lease.go      the run lock: a process-local hold plus a *)
(*                               durable lease that expires                *)
(*   internal/jobs/outcome.go    recording a run's outcome, with retries   *)
(*   internal/backup, restore    begin / finish / settle around the work   *)
(*                                                                         *)
(* A Run is one call of RunScheduled, StartBackup, RunPrune or             *)
(* StartRestore: all four share begin, settle and the lock, and differ     *)
(* only in the work between them.  Every call that reaches the state store *)
(* is a step of its own, so runs, renewals and recovery interleave at the  *)
(* granularity of store calls.  A failing store call may or may not have   *)
(* taken effect; a crash loses everything but the leases and the records.  *)
(* Leases and records are replaced in place.  On a server that refuses to  *)
(* overwrite that is a delete and an upload (cs3state.Replace), and a      *)
(* failure between the two leaves nothing; the moment between them is not  *)
(* a step of its own.                                                      *)
(***************************************************************************)
EXTENDS Integers

CONSTANTS
    Space,          \* the Spaces
    Run,            \* the runs attempted; each opens at most one job record
    SpaceOf,        \* the Space a run is for
    NoRun,          \* "nobody holds the Space"
    NoSpace,        \* "recovery is looking at no Space"
    TTL,            \* lease duration, in ticks (DefaultLeaseTTL)
    Slack,          \* ticks one locker call or recovery pass may span
    SweepEvery,     \* ticks between orphan sweeps (DefaultOrphanSweep)
    Refuses,        \* whether the server refuses to overwrite a document
    Attempts,       \* tries at recording an outcome (DefaultOutcomeAttempts)
    MaxFaults,      \* bound: failing store calls in a behaviour
    MaxCrashes      \* bound: process deaths in a behaviour

ASSUME RunAssumption ==
    /\ SpaceOf \in [Run -> Space]
    /\ NoRun \notin Run
    /\ NoSpace \notin Space
    /\ Refuses \in BOOLEAN
ASSUME TimeAssumption ==
    /\ TTL \in Nat \ {0}
    /\ Slack \in Nat /\ Slack < TTL
    /\ SweepEvery \in Nat \ {0}
ASSUME BoundAssumption ==
    /\ Attempts \in Nat \ {0}
    /\ MaxFaults \in Nat
    /\ MaxCrashes \in Nat

VARIABLES
    lease,      \* durable: ticks each Space's lease has left, or Absent
    job,        \* durable: each run's job record
    local,      \* LeaseLocker.local: the run holding each Space in the process
    pc,         \* where each run is
    result,     \* what a run's work came to, once it is over
    tries,      \* failed attempts at recording that
    renew,      \* each run's renewal goroutine
    age,        \* ticks since the clock reading a run's locker call works from
    pass,       \* the recovery pass under way
    sweep,      \* ticks until the orphan sweep is due
    faults, crashes

runVars == <<pc, result, tries, renew, age>>
recVars == <<pass, sweep>>
vars == <<lease, job, local, runVars, recVars, faults, crashes>>

Absent == -Slack - 1
RenewEvery == IF TTL \div 3 > 0 THEN TTL \div 3 ELSE TTL

Steps == {"new", "read", "write", "resolve", "create", "work", "record",
          "unlock", "unlease", "kept", "done"}
\* The run holds its Space in this process.
Holding == {"read", "write", "resolve", "create", "work", "record", "unlock", "kept"}
\* The run is executing on the strength of that hold.
Executing == {"resolve", "create", "work", "record", "unlock", "kept"}
Outcome == {"succeeded", "failed"}

\* The locals of a recovery pass: where it is, the lease keys it has still to
\* look at, the Space whose expired lease it is acting on, the job records it
\* has still to look at, the one it is acting on, and the ticks since it read
\* the clock.
Pass == [at : {"idle", "keys", "held", "list", "close", "drop", "jobs", "probe", "finish"},
         keys : SUBSET Space, space : Space \cup {NoSpace},
         jobs : SUBSET Run, job : Run \cup {NoRun}, age : Nat]
NoPass == [at |-> "idle", keys |-> {}, space |-> NoSpace,
           jobs |-> {}, job |-> NoRun, age |-> 0]

TypeOK ==
    /\ lease \in [Space -> Absent..TTL]
    /\ job \in [Run -> {"none", "running", "lost"} \cup Outcome]
    /\ local \in [Space -> Run \cup {NoRun}]
    /\ pc \in [Run -> Steps]
    /\ result \in [Run -> {"none"} \cup Outcome]
    /\ tries \in [Run -> 0..Attempts]
    /\ renew \in [Run -> {"off", "wait", "write"}]
    /\ age \in [Run -> Nat]
    /\ pass \in Pass
    /\ sweep \in 0..SweepEvery
    /\ faults \in 0..MaxFaults
    /\ crashes \in 0..MaxCrashes

Init ==
    /\ lease = [s \in Space |-> Absent]
    /\ job = [r \in Run |-> "none"]
    /\ local = [s \in Space |-> NoRun]
    /\ pc = [r \in Run |-> "new"]
    /\ result = [r \in Run |-> "none"]
    /\ tries = [r \in Run |-> 0]
    /\ renew = [r \in Run |-> "off"]
    /\ age = [r \in Run |-> 0]
    /\ pass = NoPass
    /\ sweep = SweepEvery
    /\ faults = 0
    /\ crashes = 0

-----------------------------------------------------------------------------
(* The state store.  A lease is live until its ticks run out; judging it by *)
(* a clock reading n ticks old asks whether it was live back then.          *)

Exists(s) == lease[s] # Absent
LiveAt(s, n) == Exists(s) /\ lease[s] + n > 0
Live(s) == LiveAt(s, 0)
Held(s) == local[s] # NoRun

\* A store call fails: one of the failures the behaviour is allowed.
Fault == faults < MaxFaults /\ faults' = faults + 1
Sound == UNCHANGED faults

DropLease(s) == lease' = [lease EXCEPT ![s] = Absent]
SetJob(r, state) == job' = [job EXCEPT ![r] = state]

\* ListRunning: what it has seen terminal it does not read again.
Unfinished == {r \in Run : job[r] = "running"}

\* Finish fails: a lost record is not found, and any other is as it was, has
\* been replaced all the same, or is lost.
FinishFails(r, state) ==
    \/ UNCHANGED job
    \/ job[r] # "lost" /\ SetJob(r, state)
    \/ job[r] # "lost" /\ Refuses /\ SetJob(r, "lost")

-----------------------------------------------------------------------------
(* Acquire.                                                                 *)

\* Mutant: the hold of another run is not looked at.
ReserveUnchecked(r) ==
    /\ pc[r] = "new"
    /\ local' = [local EXCEPT ![SpaceOf[r]] = r]
    /\ pc' = [pc EXCEPT ![r] = "read"]
    /\ age' = [age EXCEPT ![r] = 0]
    /\ UNCHANGED <<lease, job, result, tries, renew, recVars, faults, crashes>>

\* reserve claims the Space in the process and Acquire reads the clock.
Reserve(r) ==
    /\ pc[r] = "new"
    /\ ~Held(SpaceOf[r])
    /\ local' = [local EXCEPT ![SpaceOf[r]] = r]
    /\ pc' = [pc EXCEPT ![r] = "read"]
    /\ age' = [age EXCEPT ![r] = 0]
    /\ UNCHANGED <<lease, job, result, tries, renew, recVars, faults, crashes>>

\* undoReserve: the caller is refused and may ask again later.
UndoReserve(r) ==
    /\ local' = [local EXCEPT ![SpaceOf[r]] = NoRun]
    /\ pc' = [pc EXCEPT ![r] = "new"]
    /\ age' = [age EXCEPT ![r] = 0]

\* The lease is read: a live one, or an error, refuses the caller.
ReadLease(r) ==
    /\ pc[r] = "read"
    /\ \/ /\ Sound
          /\ ~LiveAt(SpaceOf[r], age[r])
          /\ pc' = [pc EXCEPT ![r] = "write"]
          /\ UNCHANGED <<local, age>>
       \/ /\ Sound
          /\ LiveAt(SpaceOf[r], age[r])
          /\ UndoReserve(r)
       \/ /\ Fault
          /\ UndoReserve(r)
    /\ UNCHANGED <<lease, job, result, tries, renew, recVars, crashes>>

\* write stores a lease valid from the clock reading.
PutLease(r) == lease' = [lease EXCEPT ![SpaceOf[r]] = TTL - age[r]]

\* A write that fails: the lease is stored, left alone, or lost.
PutLeaseFails(r) ==
    \/ PutLease(r)
    \/ UNCHANGED lease
    \/ Refuses /\ DropLease(SpaceOf[r])

\* The lease is written, and on success the renewal goroutine starts.
WriteLease(r) ==
    /\ pc[r] = "write"
    /\ \/ /\ Sound
          /\ PutLease(r)
          /\ pc' = [pc EXCEPT ![r] = "resolve"]
          /\ renew' = [renew EXCEPT ![r] = "wait"]
          /\ age' = [age EXCEPT ![r] = 0]
          /\ UNCHANGED local
       \/ /\ Fault
          /\ PutLeaseFails(r)
          /\ UndoReserve(r)
          /\ UNCHANGED renew
    /\ UNCHANGED <<job, result, tries, recVars, crashes>>

-----------------------------------------------------------------------------
(* begin, finish and settle.                                                *)

\* begin resolves the Space; a Space that cannot be resolved ends the run.
ResolveSpace(r) ==
    /\ pc[r] = "resolve"
    /\ pc' \in {[pc EXCEPT ![r] = "create"], [pc EXCEPT ![r] = "unlock"]}
    /\ UNCHANGED <<lease, job, local, result, tries, renew, age, recVars, faults, crashes>>

\* begin opens the job record.  A failed create may have stored it all the same.
CreateJob(r) ==
    /\ pc[r] = "create"
    /\ \/ /\ Sound
          /\ job' = [job EXCEPT ![r] = "running"]
          /\ pc' = [pc EXCEPT ![r] = "work"]
       \/ /\ Fault
          /\ job' \in {job, [job EXCEPT ![r] = "running"]}
          /\ pc' = [pc EXCEPT ![r] = "unlock"]
    /\ UNCHANGED <<lease, local, result, tries, renew, age, recVars, crashes>>

\* Mutant: failed work goes straight to the release.
WorkUnsettled(r) ==
    /\ pc[r] = "work"
    /\ \E o \in Outcome :
          /\ result' = [result EXCEPT ![r] = o]
          /\ pc' = [pc EXCEPT ![r] = IF o = "failed" THEN "unlock" ELSE "record"]
    /\ UNCHANGED <<lease, job, local, tries, renew, age, recVars, faults, crashes>>

\* The snapshot, prune or restore ends: it succeeds, or it fails, panics, runs
\* into its timeout or is refused by a background that is shutting down.
Work(r) ==
    /\ pc[r] = "work"
    /\ \E o \in Outcome : result' = [result EXCEPT ![r] = o]
    /\ pc' = [pc EXCEPT ![r] = "record"]
    /\ UNCHANGED <<lease, job, local, tries, renew, age, recVars, faults, crashes>>

\* The body of RecordOutcome: what is stored, how often it is tried, and where
\* the run goes when the attempts are used up, or the record is gone.
Record(r, outcome, attempts, otherwise) ==
    /\ pc[r] = "record"
    /\ \/ /\ Sound
          /\ job[r] # "lost"
          /\ SetJob(r, outcome)
          /\ pc' = [pc EXCEPT ![r] = "unlock"]
          /\ tries' = [tries EXCEPT ![r] = 0]
       \/ /\ Sound
          /\ job[r] = "lost"
          /\ pc' = [pc EXCEPT ![r] = otherwise]
          /\ UNCHANGED <<job, tries>>
       \/ /\ Fault
          /\ FinishFails(r, outcome)
          /\ tries' = [tries EXCEPT ![r] = @ + 1]
          /\ pc' = [pc EXCEPT ![r] = IF tries'[r] < attempts THEN "record" ELSE otherwise]
    /\ UNCHANGED <<lease, local, result, renew, age, recVars, crashes>>

\* Mutants: failures are recorded as successes; the lock is released although
\* nothing was recorded; the first failure is final.
RecordOutcomeRosy(r) == Record(r, "succeeded", Attempts, "kept")
RecordOutcomeLetGo(r) == Record(r, result[r], Attempts, "unlock")
RecordOutcomeOnce(r) == Record(r, result[r], 1, "kept")

\* settle: RecordOutcome calls Finish until it succeeds or the attempts are
\* used up; only a recorded outcome lets the lock go.
RecordOutcome(r) == Record(r, result[r], Attempts, "kept")

-----------------------------------------------------------------------------
(* release: stop the renewals and drop the local hold, then the lease.      *)

Unlock(r) ==
    /\ pc[r] = "unlock"
    /\ local' = [local EXCEPT ![SpaceOf[r]] = NoRun]
    /\ pc' = [pc EXCEPT ![r] = "unlease"]
    /\ UNCHANGED <<lease, job, result, tries, renew, age, recVars, faults, crashes>>

Unlease(r) ==
    /\ pc[r] = "unlease"
    /\ \/ Sound /\ DropLease(SpaceOf[r])
       \/ Fault /\ (DropLease(SpaceOf[r]) \/ UNCHANGED lease)
    /\ pc' = [pc EXCEPT ![r] = "done"]
    /\ UNCHANGED <<job, local, result, tries, renew, age, recVars, crashes>>

-----------------------------------------------------------------------------
(* renewUntil.  The stop channel is closed by release and by nothing else.  *)

Stopped(r) == pc[r] \in {"unlease", "done"}

\* The timer fires.  With stop closed as well, select may pick either.
RenewFire(r) ==
    /\ renew[r] = "wait"
    /\ age[r] = RenewEvery
    /\ renew' = [renew EXCEPT ![r] = "write"]
    /\ age' = [age EXCEPT ![r] = 0]
    /\ UNCHANGED <<lease, job, local, pc, result, tries, recVars, faults, crashes>>

\* The renewal writes the lease; a failure is logged, and the timer rearmed.
RenewWrite(r) ==
    /\ renew[r] = "write"
    /\ \/ Sound /\ PutLease(r)
       \/ Fault /\ PutLeaseFails(r)
    /\ renew' = [renew EXCEPT ![r] = "wait"]
    /\ age' = [age EXCEPT ![r] = 0]
    /\ UNCHANGED <<job, local, pc, result, tries, recVars, crashes>>

RenewStop(r) ==
    /\ renew[r] = "wait"
    /\ Stopped(r)
    /\ renew' = [renew EXCEPT ![r] = "off"]
    /\ age' = [age EXCEPT ![r] = 0]
    /\ UNCHANGED <<lease, job, local, pc, result, tries, recVars, faults, crashes>>

-----------------------------------------------------------------------------
(* Recover: the expired-lease pass, then the orphan sweep when it is due.   *)

\* A store call of the pass fails, and the pass ends with its error.
Abort == Fault /\ pass' = NoPass

\* recoverExpired lists the leases and reads the clock.
RecoverExpired ==
    /\ pass.at = "idle"
    /\ pass' = [NoPass EXCEPT !.at = "keys", !.keys = {s \in Space : Exists(s)}]
    /\ UNCHANGED <<lease, job, local, runVars, sweep, faults, crashes>>

\* The next lease is read; one that is unreadable, gone or live is passed over.
RecoverGet(s) ==
    /\ pass.at = "keys"
    /\ s \in pass.keys
    /\ \/ /\ Sound
          /\ Exists(s) /\ ~LiveAt(s, pass.age)
          /\ pass' = [pass EXCEPT !.at = "held", !.keys = @ \ {s}, !.space = s]
       \/ /\ \/ Sound /\ (~Exists(s) \/ LiveAt(s, pass.age))
             \/ Fault
          /\ pass' = [pass EXCEPT !.keys = @ \ {s}]
    /\ UNCHANGED <<lease, job, local, runVars, sweep, crashes>>

\* holdsLocally: a Space this process holds is passed over.
RecoverHeld ==
    /\ pass.at = "held"
    /\ pass' = IF Held(pass.space)
                 THEN [pass EXCEPT !.at = "keys", !.space = NoSpace]
                 ELSE [pass EXCEPT !.at = "list"]
    /\ UNCHANGED <<lease, job, local, runVars, sweep, faults, crashes>>

\* failAbandoned lists the Space's unfinished jobs.
RecoverList ==
    /\ pass.at = "list"
    /\ \/ /\ Sound
          /\ pass' = [pass EXCEPT !.at = "close",
                        !.jobs = {r \in Unfinished : SpaceOf[r] = pass.space}]
       \/ Abort
    /\ UNCHANGED <<lease, job, local, runVars, sweep, crashes>>

\* Finish with MessageInterrupted: whatever the record says by now, it is
\* overwritten.
CloseJob(r) == job[r] # "lost" /\ SetJob(r, "failed")

\* Finish fails, or finds no record; the pass ends with its error.
CloseFails(r) ==
    \/ Sound /\ job[r] = "lost" /\ pass' = NoPass /\ UNCHANGED job
    \/ Abort /\ FinishFails(r, "failed")

\* failAbandoned closes the listed jobs one by one.
RecoverClose(r) ==
    /\ pass.at = "close"
    /\ r \in pass.jobs
    /\ \/ Sound /\ CloseJob(r) /\ pass' = [pass EXCEPT !.jobs = @ \ {r}]
       \/ CloseFails(r)
    /\ UNCHANGED <<lease, local, runVars, sweep, crashes>>

RecoverClosed ==
    /\ pass.at = "close"
    /\ pass.jobs = {}
    /\ pass' = [pass EXCEPT !.at = "drop"]
    /\ UNCHANGED <<lease, job, local, runVars, sweep, faults, crashes>>

\* Mutant: the expired lease is left where it is.
RecoverDropNothing ==
    /\ pass.at = "drop"
    /\ pass' = [pass EXCEPT !.at = "keys", !.space = NoSpace]
    /\ UNCHANGED <<lease, job, local, runVars, sweep, faults, crashes>>

\* The expired lease is deleted by its key, whatever is stored there by now.
RecoverDrop ==
    /\ pass.at = "drop"
    /\ \/ Sound /\ DropLease(pass.space)
                /\ pass' = [pass EXCEPT !.at = "keys", !.space = NoSpace]
       \/ Abort /\ (DropLease(pass.space) \/ UNCHANGED lease)
    /\ UNCHANGED <<job, local, runVars, sweep, crashes>>

\* Mutant: only leases are recovered.
RecoverOrphansNever ==
    /\ pass.at = "keys"
    /\ pass.keys = {}
    /\ pass' = NoPass
    /\ UNCHANGED <<lease, job, local, runVars, sweep, faults, crashes>>

\* recoverOrphans: orphanSweepDue claims the slot before ListRunning is asked,
\* so a failing list costs the whole interval.
RecoverOrphans ==
    /\ pass.at = "keys"
    /\ pass.keys = {}
    /\ \/ /\ sweep > 0
          /\ pass' = NoPass
          /\ UNCHANGED <<sweep, faults>>
       \/ /\ sweep = 0
          /\ sweep' = SweepEvery
          /\ \/ /\ Sound
                /\ pass' = [pass EXCEPT !.at = "jobs", !.jobs = Unfinished]
             \/ Abort
    /\ UNCHANGED <<lease, job, local, runVars, crashes>>

\* Mutant: the local hold is not looked at.
RecoverJobUnchecked(r) ==
    /\ pass.at = "jobs"
    /\ r \in pass.jobs
    /\ pass' = [pass EXCEPT !.at = "probe", !.jobs = @ \ {r}, !.job = r]
    /\ UNCHANGED <<lease, job, local, runVars, sweep, faults, crashes>>

\* The next running job: one whose Space this process holds is passed over.
RecoverJob(r) ==
    /\ pass.at = "jobs"
    /\ r \in pass.jobs
    /\ pass' = IF Held(SpaceOf[r])
                 THEN [pass EXCEPT !.jobs = @ \ {r}]
                 ELSE [pass EXCEPT !.at = "probe", !.jobs = @ \ {r}, !.job = r]
    /\ UNCHANGED <<lease, job, local, runVars, sweep, faults, crashes>>

\* leaseLive: so is one whose Space has a live lease.
RecoverProbe ==
    /\ pass.at = "probe"
    /\ \/ /\ Sound
          /\ pass' = IF Live(SpaceOf[pass.job])
                       THEN [pass EXCEPT !.at = "jobs", !.job = NoRun]
                       ELSE [pass EXCEPT !.at = "finish"]
       \/ Abort
    /\ UNCHANGED <<lease, job, local, runVars, sweep, crashes>>

\* The job is closed out.
RecoverFinish ==
    /\ pass.at = "finish"
    /\ \/ Sound /\ CloseJob(pass.job) /\ pass' = [pass EXCEPT !.at = "jobs", !.job = NoRun]
       \/ CloseFails(pass.job)
    /\ UNCHANGED <<lease, local, runVars, sweep, crashes>>

RecoverEnd ==
    /\ pass.at = "jobs"
    /\ pass.jobs = {}
    /\ pass' = NoPass
    /\ UNCHANGED <<lease, job, local, runVars, sweep, faults, crashes>>

Recover ==
    \/ RecoverExpired \/ RecoverHeld \/ RecoverList \/ RecoverClosed \/ RecoverDrop
    \/ RecoverOrphans \/ RecoverProbe \/ RecoverFinish \/ RecoverEnd
    \/ \E s \in Space : RecoverGet(s)
    \/ \E r \in Run : RecoverClose(r) \/ RecoverJob(r)

-----------------------------------------------------------------------------
(* Time and crashes.                                                        *)

\* The run's age is being measured.
Timed(r) == pc[r] \in {"read", "write"} \/ renew[r] # "off"

\* A tick passes.  A timer that is due fires first, a closed stop channel is
\* noticed first, and no locker call or recovery pass spans more than Slack
\* ticks.
Tick ==
    /\ \A r \in Run :
          /\ renew[r] = "wait" => age[r] < RenewEvery /\ ~Stopped(r)
          /\ (renew[r] = "write" \/ pc[r] \in {"read", "write"}) => age[r] < Slack
    /\ pass.at # "idle" => pass.age < Slack
    /\ lease' = [s \in Space |-> IF lease[s] > -Slack THEN lease[s] - 1 ELSE lease[s]]
    /\ age' = [r \in Run |-> IF Timed(r) THEN age[r] + 1 ELSE age[r]]
    /\ pass' = IF pass.at = "idle" THEN pass ELSE [pass EXCEPT !.age = @ + 1]
    /\ sweep' = IF sweep > 0 THEN sweep - 1 ELSE 0
    /\ UNCHANGED <<job, local, pc, result, tries, renew, faults, crashes>>

\* The process dies and a new one starts: holds, renewals and the pass are
\* gone, leases and records are not.  NewLeaseLocker puts the first orphan
\* sweep one interval away.
Crash ==
    /\ crashes < MaxCrashes
    /\ crashes' = crashes + 1
    /\ local' = [s \in Space |-> NoRun]
    /\ pc' = [r \in Run |-> IF pc[r] = "new" THEN "new" ELSE "done"]
    /\ renew' = [r \in Run |-> "off"]
    /\ age' = [r \in Run |-> 0]
    /\ pass' = NoPass
    /\ sweep' = SweepEvery
    /\ UNCHANGED <<lease, job, result, tries, faults>>

RunStep(r) ==
    \/ ReadLease(r) \/ WriteLease(r) \/ ResolveSpace(r) \/ CreateJob(r)
    \/ Work(r) \/ RecordOutcome(r) \/ Unlock(r) \/ Unlease(r)

RenewStep(r) == RenewFire(r) \/ RenewWrite(r) \/ RenewStop(r)

Next ==
    \/ \E r \in Run : Reserve(r) \/ RunStep(r) \/ RenewStep(r)
    \/ Recover
    \/ Tick
    \/ Crash

Spec == Init /\ [][Next]_vars

(* Goroutines make progress, a run is bounded by its timeout, the scheduler *)
(* calls Recover on every tick and time passes.  Nothing makes a user ask   *)
(* for a run, and nothing makes a store fail or a process die.              *)
FairSpec ==
    /\ Spec
    /\ \A r \in Run : WF_vars(RunStep(r)) /\ WF_vars(RenewStep(r))
    /\ WF_vars(Recover)
    /\ WF_vars(Tick)

-----------------------------------------------------------------------------
(* Properties.                                                              *)

\* The point of the run lock (begin: "the two must never overlap even though
\* they are different work"): no two runs of one Space execute at a time, not
\* even when leases expire under a run, recovery drops one that is in use, or
\* a store call fails half-way through Acquire.
RunsNeverOverlap ==
    \A r, q \in Run :
        (SpaceOf[r] = SpaceOf[q] /\ pc[r] \in Executing /\ pc[q] \in Executing) => r = q

\* The history does not claim a backup that was not made: a record says
\* "succeeded" only when that run's own work succeeded, whatever retries,
\* recovery and crashes wrote over it.
SucceededMeansDone ==
    \A r \in Run : job[r] = "succeeded" => result[r] = "succeeded"

\* settle: "records the run's terminal outcome and then, and only then, drops
\* the run lock".  Once a run that did its work has let go of its Space,
\* nothing can find its record unfinished.
RecordedBeforeRelease ==
    \A r \in Run :
        (result[r] # "none" /\ pc[r] \in {"unlock", "unlease"})
            => job[r] \notin {"none", "running"}

\* A record left at "running" by a run that is over is the trace of a crash or
\* of a failed store call, never of the code's own ordering.
OrphansComeFromFailures ==
    \A r \in Run :
        (job[r] = "running" /\ pc[r] \notin Executing) => (crashes > 0 \/ faults > 0)

\* recoverOrphans: "a job whose run is genuinely under way is either held in
\* this process or covered by a live lease".  The sweep never closes out the
\* record of a run that is executing, although it judges the Space from a list
\* of jobs, a local hold and a lease read at three different moments.
OrphanSweepSparesRuns ==
    pass.at \in {"probe", "finish"} => pc[pass.job] \notin Executing

\* A Space is never blocked for good by a lease nobody holds: the lease of a
\* dead process, one a failed release left behind, or one a late renewal
\* wrote after the release, is dropped or taken over.
DeadLeaseGoesAway ==
    \A s \in Space : (Exists(s) /\ ~Held(s)) ~> (~Exists(s) \/ Held(s))

\* Recover closes out what nothing executes: no record stays at "running" for
\* good.
RunningRecordsClose ==
    \A r \in Run : job[r] = "running" ~> job[r] # "running"

\* A run that got hold of its Space gives it back.
SpacesComeFree ==
    \A s \in Space : Held(s) ~> ~Held(s)

\* The lock, the runners and recovery together keep the contract of SpaceRuns:
\* one holder per Space, outcomes recorded by the holder and before the Space
\* is given back, and records reopened by nobody, which is what ListRunning
\* relies on when it caches ("a terminal job stays terminal").
Contract == INSTANCE SpaceRuns
    WITH holder <- local, record <- job, outcome <- result, deaths <- crashes
KeepsContract == Contract!Spec

-----------------------------------------------------------------------------
(* What comments of the code claim and the code does not do.                *)

\* settle: "Keeping the lease instead is not a leak - it expires on its own,
\* and recovery then closes the run out and frees the Space."
KeptLockIsRecovered ==
    \A r \in Run : pc[r] = "kept" ~> (pc[r] # "kept" /\ ~Held(SpaceOf[r]))

\* recoverOrphans: "there is no window in which a legitimate run looks
\* orphaned".  A run that recorded its success keeps that record.
SuccessIsNotOverwritten ==
    [][\A r \in Run : job[r] = "succeeded" => job'[r] = "succeeded"]_vars

=============================================================================
