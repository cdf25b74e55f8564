------------------------------ MODULE Scheduler ------------------------------
(***************************************************************************)
(* The scheduler: internal/scheduler/scheduler.go, with what it drives and *)
(* reads of internal/backup/runner.go (begin, finish) and internal/jobs.   *)
(*                                                                         *)
(* A loop wakes on a ticker and makes a pass over the Spaces in id order.  *)
(* For each it reads the run lock, then the history, decides between a     *)
(* backup, a prune and nothing, and dispatches a goroutine if one of       *)
(* MaxConcurrent slots is free.  Nothing is remembered between passes: the *)
(* next occurrence is computed from the creation time of the newest backup *)
(* record that can be read, or from the configuration when there is none.  *)
(*                                                                         *)
(* A unit of time is one ticker interval.  An absolute time is kept as the *)
(* time left until it, 0 once it is past, so that time is unbounded; a     *)
(* schedule is a period dividing Cycle.  A pass takes less than a unit     *)
(* (it compares with the time it began at); a run may take any time when   *)
(* LongRuns.  How a run holds its lock, and how a dead one is recovered,   *)
(* is RunLifecycle's subject and one step here.                            *)
(***************************************************************************)
EXTENDS Integers, FiniteSets, FiniteSetsExt

CONSTANTS
    N,              \* Spaces are 1..N, in the order Configs.List returns them
    Period,         \* the schedule of a Space
    Jitter,         \* jitterFor(space, opts.Jitter)
    Cycle,          \* a common multiple of the periods
    PruneEvery,     \* opts.PruneInterval and the Space's jitter on it
    HistoryWindow,  \* opts.HistoryWindow
    MaxConcurrent,  \* opts.MaxConcurrent
    Outcomes,       \* how a run may end
    LongRuns,       \* whether a run may outlast a tick, and a tick be missed
    MaxUnresolved,  \* bound: runs that fail before they have a record
    MaxErrors,      \* bound: reads of a lock or a listing that fail
    MaxSkips,       \* bound: history records that cannot be read
    MaxManual,      \* bound: runs a user starts
    MaxEdits,       \* bound: configurations a user saves
    MaxCrashes,     \* bound: deaths of the process
    MaxEvents       \* bound: all of these together

Space == 1..N

ASSUME ScheduleAssumption ==
    /\ N \in Nat \ {0}
    /\ Cycle \in Nat \ {0}
    /\ Period \in [Space -> Nat \ {0}]
    /\ \A s \in Space : Cycle % Period[s] = 0
    /\ Jitter \in [Space -> Nat]
    /\ PruneEvery \in Nat \ {0}
    /\ HistoryWindow \in Nat \ {0} /\ HistoryWindow >= PruneEvery
    /\ MaxConcurrent \in Nat \ {0}
    /\ Outcomes \subseteq {"succeeded", "failed"}
    /\ LongRuns \in BOOLEAN
ASSUME CountAssumption ==
    {MaxUnresolved, MaxErrors, MaxSkips, MaxManual, MaxEdits, MaxCrashes, MaxEvents}
        \subseteq Nat

VARIABLES
    clock,      \* the time, modulo Cycle
    loop,       \* what the loop is doing
    ticked,     \* the ticker has fired
    todo,       \* the Spaces the pass has still to evaluate
    step,       \* where it is with the first of them,
    choice,     \* ... and what it found that one due for
    inflight,   \* Scheduler.inflight
    slots,      \* tokens in Scheduler.slots
    worker,     \* the goroutine working for a Space, until it leaves inflight
    leaving,    \* goroutines that have left inflight and still hold a slot
    enabled,    \* Config.Enabled
    lock,       \* a Space's run lock
    manual,     \* the run a user started
    records,    \* the backup records of a Space in view, newest first
    fromPut,    \* time until the occurrence after Config.UpdatedAt
    pruneIn,    \* time until the next prune is due, 0 for a Space never pruned
    counts,     \* how much of each bound is used up
    attemptIn,  \* history: time until the occurrence after the last backup
    attemptAge, \* history: time since that one began
    overtaken,  \* history: a backup began since the scheduler chose one
    misread,    \* history: the scheduler chose it past a record it could not read
    restorable  \* history: a backup has succeeded

loopVars == <<loop, ticked, todo, step, choice>>
workVars == <<inflight, slots, worker, leaving>>
recVars == <<records, pruneIn, attemptIn, attemptAge, restorable>>
vars == <<clock, loopVars, workVars, enabled, lock, manual, recVars, fromPut,
          counts, overtaken, misread>>

Bound == [unresolved |-> MaxUnresolved, errors |-> MaxErrors, skips |-> MaxSkips,
          manual |-> MaxManual, edits |-> MaxEdits, crashes |-> MaxCrashes]
MayCount(c, n) ==
    /\ counts[c] + n <= Bound[c]
    /\ MapThenSumSet(LAMBDA d : counts[d], DOMAIN Bound) + n <= MaxEvents
Count(c, n) == counts' = [counts EXCEPT ![c] = @ + n]

\* The places of a Space's history that are kept: a read that skips MaxSkips
\* records sees no further.  A place is empty when its record has been trimmed.
View == 1..(MaxSkips + 1)
NoRecord == [state |-> "none", age |-> 0, next |-> 0]

MaxWait == Cycle + Max({Jitter[s] : s \in Space})

TypeOK ==
    /\ clock \in 0..(Cycle - 1)
    /\ loop \in {"wait", "pass", "down"}
    /\ ticked \in BOOLEAN
    /\ todo \subseteq Space
    /\ step \in {"look", "decide", "dispatch"}
    /\ choice \in {"none", "backup", "prune"}
    /\ inflight \subseteq Space
    /\ slots \in 0..MaxConcurrent
    /\ worker \in [Space -> [at : {"none", "begin", "locked", "run", "exit"},
                             kind : {"none", "backup", "prune"}]]
    /\ leaving \in 0..MaxConcurrent
    /\ enabled \in [Space -> BOOLEAN]
    /\ lock \in [Space -> {"free", "held", "dead"}]
    /\ manual \in [Space -> {"none", "locked", "backup", "restore"}]
    /\ records \in [Space -> [View -> [state : {"none", "running", "succeeded", "failed"},
                                        age : 0..HistoryWindow, next : 0..MaxWait]]]
    /\ fromPut \in [Space -> 0..MaxWait]
    /\ attemptIn \in [Space -> 0..MaxWait]
    /\ attemptAge \in [Space -> 0..HistoryWindow]
    /\ pruneIn \in [Space -> 0..PruneEvery]
    /\ DOMAIN counts = DOMAIN Bound /\ \A c \in DOMAIN Bound : counts[c] \in 0..Bound[c]
    /\ overtaken \in [Space -> BOOLEAN]
    /\ misread \in [Space -> BOOLEAN]
    /\ restorable \in [Space -> BOOLEAN]

NoWorker == [at |-> "none", kind |-> "none"]

-----------------------------------------------------------------------------

\* NextAfter and the jitter: time until the first occurrence after now.
NextAfter(s) == Period[s] - (clock % Period[s]) + Jitter[s]

Init ==
    /\ clock = 0
    /\ loop = "wait"
    /\ ticked = FALSE
    /\ todo = {}
    /\ step = "look"
    /\ choice = "none"
    /\ inflight = {}
    /\ slots = 0
    /\ worker = [s \in Space |-> NoWorker]
    /\ leaving = 0
    /\ enabled = [s \in Space |-> TRUE]
    /\ lock = [s \in Space |-> "free"]
    /\ manual = [s \in Space |-> "none"]
    /\ records = [s \in Space |-> [i \in View |-> NoRecord]]
    /\ fromPut = [s \in Space |-> NextAfter(s)]
    /\ pruneIn = [s \in Space |-> 0]
    /\ counts = [c \in DOMAIN Bound |-> 0]
    /\ attemptIn = [s \in Space |-> 0]
    /\ attemptAge = [s \in Space |-> HistoryWindow]
    /\ overtaken = [s \in Space |-> FALSE]
    /\ misread = [s \in Space |-> FALSE]
    /\ restorable = [s \in Space |-> FALSE]

\* What is left of a wait, and the age of something, a unit later.
Less(wait) == IF wait = 0 THEN 0 ELSE wait - 1
Older(age) == Min({age + 1, HistoryWindow})

\* The clock moves on and the ticker fires; a ticker drops what is not read.
Elapse ==
    /\ loop # "pass"
    /\ \/ LongRuns
       \/ /\ ~ticked /\ leaving = 0
          /\ \A s \in Space : lock[s] # "held" /\ worker[s].at = "none"
    /\ clock' = (clock + 1) % Cycle
    /\ ticked' = (loop = "wait")
    /\ records' = [s \in Space |-> [i \in View |->
                      IF records[s][i].state = "none" THEN NoRecord
                      ELSE [state |-> records[s][i].state, age |-> Older(records[s][i].age),
                            next |-> Less(records[s][i].next)]]]
    /\ fromPut' = [s \in Space |-> Less(fromPut[s])]
    /\ pruneIn' = [s \in Space |-> Less(pruneIn[s])]
    /\ attemptIn' = [s \in Space |-> Less(attemptIn[s])]
    /\ attemptAge' = [s \in Space |-> Older(attemptAge[s])]
    /\ UNCHANGED <<loop, todo, step, choice, workVars, enabled, lock, manual,
                   counts, overtaken, misread, restorable>>

-----------------------------------------------------------------------------
(* A pass.                                                                  *)

\* RunOnce: recoverAbandoned closes the records no run stands behind, and the
\* eligible Spaces are listed.
BeginPass ==
    /\ loop = "wait"
    /\ ticked
    /\ ticked' = FALSE
    /\ loop' = "pass"
    /\ records' = [s \in Space |-> [i \in View |->
                      IF records[s][i].state = "running" /\ lock[s] = "free"
                      THEN [records[s][i] EXCEPT !.state = "failed"] ELSE records[s][i]]]
    /\ todo' = {s \in Space : enabled[s]}
    /\ step' = "look"
    /\ choice' = "none"
    /\ UNCHANGED <<clock, workVars, enabled, lock, manual, pruneIn, attemptIn,
                   attemptAge, restorable, fromPut, counts, overtaken, misread>>

Current == Min(todo)

MoveOn ==
    /\ todo' = todo \ {Current}
    /\ step' = "look"
    /\ choice' = "none"

\* evaluate: a Space under a run of any kind is passed over.
PassLook ==
    /\ loop = "pass" /\ todo # {} /\ step = "look"
    /\ \/ lock[Current] # "free" /\ MoveOn
       \/ lock[Current] = "free" /\ step' = "decide" /\ UNCHANGED <<todo, choice>>
    /\ UNCHANGED <<clock, loop, ticked, workVars, enabled, lock, manual, recVars,
                   fromPut, counts, overtaken, misread>>

\* The records there are.
Stored(s) == {i \in View : records[s][i].state # "none"}

\* lastRunOf, listRecent: the newest record that can be read.
LastRun(s, unread) ==
    IF Stored(s) \subseteq unread THEN NoRecord ELSE records[s][Min(Stored(s) \ unread)]

\* Mutant: due-ness is measured from the configuration.
BackupDueByConfig(s, last) == fromPut[s] = 0

\* backupDue: the occurrence after the baseline has passed.
BackupDue(s, last) == IF last.state = "none" THEN fromPut[s] = 0 ELSE last.next = 0

\* Mutant: the test is inverted.
PruneDueOnFailure(s, last, skipped) == last.state = "failed" /\ pruneIn[s] = 0

\* pruneDue: the last backup succeeded and the last prune is long enough ago, or
\* its record cannot be read.
PruneDue(s, last, skipped) == last.state = "succeeded" /\ (pruneIn[s] = 0 \/ skipped)

\* evaluate: backup wins when both are due.  A record of the Space's history that
\* cannot be read is passed over for the one before it, without a word.
PassDecide ==
    /\ loop = "pass" /\ step = "decide"
    /\ \E unread \in SUBSET Stored(Current), skipped \in BOOLEAN :
          /\ \A i \in unread : \A j \in Stored(Current) : j < i => j \in unread
          /\ LET n == Cardinality(unread) + (IF skipped THEN 1 ELSE 0)
             IN MayCount("skips", n) /\ Count("skips", n)
          /\ choice' = IF BackupDue(Current, LastRun(Current, unread)) THEN "backup"
                       ELSE IF PruneDue(Current, LastRun(Current, unread), skipped)
                       THEN "prune" ELSE "none"
          /\ misread' = IF choice' = "backup" THEN [misread EXCEPT ![Current] = unread # {}]
                        ELSE misread
    /\ IF choice' = "none"
         THEN todo' = todo \ {Current} /\ step' = "look"
         ELSE step' = "dispatch" /\ UNCHANGED todo
    /\ overtaken' = IF choice' = "backup" THEN [overtaken EXCEPT ![Current] = FALSE]
                    ELSE overtaken
    /\ UNCHANGED <<clock, loop, ticked, workVars, enabled, lock, manual, recVars,
                   fromPut>>

\* The configuration, the run lock or the names of the records cannot be read:
\* the Space is left for the next pass.
PassError ==
    /\ loop = "pass" /\ todo # {} /\ step \in {"look", "decide"}
    /\ MayCount("errors", 1)
    /\ Count("errors", 1)
    /\ MoveOn
    /\ UNCHANGED <<clock, loop, ticked, workVars, enabled, lock, manual, recVars,
                   fromPut, overtaken, misread>>

\* dispatch: already in flight, at capacity, or a goroutine with a slot.
PassDispatch ==
    /\ loop = "pass" /\ step = "dispatch"
    /\ \/ /\ Current \in inflight \/ slots = MaxConcurrent
          /\ UNCHANGED workVars
       \/ /\ Current \notin inflight /\ slots < MaxConcurrent
          /\ slots' = slots + 1
          /\ inflight' = inflight \cup {Current}
          /\ worker' = [worker EXCEPT ![Current] = [at |-> "begin", kind |-> choice]]
          /\ UNCHANGED leaving
    /\ MoveOn
    /\ UNCHANGED <<clock, loop, ticked, enabled, lock, manual, recVars, fromPut,
                   counts, overtaken, misread>>

\* PruneBefore: the finished records that are past the history window.
Prunable(s) == {i \in View : /\ records[s][i].state \in {"succeeded", "failed"}
                             /\ records[s][i].age = HistoryWindow}

\* The end of RunOnce; trimHistory, when its own cadence says so, drops the
\* finished records older than the history window, but for those it cannot read.
EndPass ==
    /\ loop = "pass" /\ todo = {}
    /\ loop' = "wait"
    /\ \/ UNCHANGED <<records, counts>>
       \/ \E kept \in SUBSET {p \in Space \X View : p[2] \in Prunable(p[1])} :
             /\ MayCount("skips", Cardinality(kept)) /\ Count("skips", Cardinality(kept))
             /\ records' = [s \in Space |-> [i \in View |->
                               IF i \in Prunable(s) /\ <<s, i>> \notin kept
                               THEN NoRecord ELSE records[s][i]]]
    /\ UNCHANGED <<clock, ticked, todo, step, choice, workVars, enabled, lock,
                   manual, pruneIn, attemptIn, attemptAge, restorable, fromPut,
                   overtaken, misread>>

-----------------------------------------------------------------------------
(* Runs.                                                                    *)

\* A backup of s has begun and has its record: the new baseline.
Record(s) ==
    /\ records' = [records EXCEPT ![s] = [i \in View |->
                      IF i = 1 THEN [state |-> "running", age |-> 0, next |-> NextAfter(s)]
                      ELSE records[s][i - 1]]]
    /\ attemptIn' = [attemptIn EXCEPT ![s] = NextAfter(s)]
    /\ attemptAge' = [attemptAge EXCEPT ![s] = 0]
    /\ overtaken' = [overtaken EXCEPT ![s] = TRUE]
    /\ UNCHANGED <<pruneIn, restorable>>

\* A backup of s ends with an outcome.
Settle(s, outcome) ==
    /\ records' = [records EXCEPT ![s][1].state = outcome]
    /\ restorable' = [restorable EXCEPT ![s] = @ \/ outcome = "succeeded"]
    /\ UNCHANGED <<pruneIn, attemptIn, attemptAge>>

\* begin: the run lock, or ErrRunInProgress, which leaves no record.
WorkerLock(s) ==
    /\ worker[s].at = "begin"
    /\ \/ lock[s] # "free" /\ worker' = [worker EXCEPT ![s].at = "exit"] /\ UNCHANGED lock
       \/ /\ lock[s] = "free"
          /\ lock' = [lock EXCEPT ![s] = "held"]
          /\ worker' = [worker EXCEPT ![s].at = "locked"]
    /\ UNCHANGED <<clock, loopVars, inflight, slots, leaving, enabled, manual,
                   recVars, fromPut, counts, overtaken, misread>>

\* begin: the Space cannot be resolved, or the record not be created; the lock
\* is released and there is no record.
WorkerUnresolved(s) ==
    /\ worker[s].at = "locked"
    /\ MayCount("unresolved", 1)
    /\ Count("unresolved", 1)
    /\ lock' = [lock EXCEPT ![s] = "free"]
    /\ worker' = [worker EXCEPT ![s].at = "exit"]
    /\ UNCHANGED <<clock, loopVars, inflight, slots, leaving, enabled, manual,
                   recVars, fromPut, overtaken, misread>>

\* execute: a backup or a prune, as dispatched; begin creates its record.
WorkerRecord(s) ==
    /\ worker[s].at = "locked"
    /\ worker' = [worker EXCEPT ![s].at = "run"]
    /\ \/ worker[s].kind = "backup" /\ Record(s)
       \/ /\ worker[s].kind = "prune"
          /\ pruneIn' = [pruneIn EXCEPT ![s] = PruneEvery]
          /\ UNCHANGED <<records, attemptIn, attemptAge, restorable, overtaken>>
    /\ UNCHANGED <<clock, loopVars, inflight, slots, leaving, enabled, lock,
                   manual, fromPut, counts, misread>>

\* finish, finishPrune: the outcome is recorded and the lock released.
WorkerFinish(s) ==
    /\ worker[s].at = "run"
    /\ lock' = [lock EXCEPT ![s] = "free"]
    /\ worker' = [worker EXCEPT ![s].at = "exit"]
    /\ \/ worker[s].kind = "backup" /\ \E o \in Outcomes : Settle(s, o)
       \/ worker[s].kind = "prune" /\ UNCHANGED recVars
    /\ UNCHANGED <<clock, loopVars, inflight, slots, leaving, enabled, manual,
                   fromPut, counts, overtaken, misread>>

\* Mutant: the Space stays in flight.
WorkerLeaveStays(s) ==
    /\ worker[s].at = "exit"
    /\ worker' = [worker EXCEPT ![s] = NoWorker]
    /\ leaving' = leaving + 1
    /\ UNCHANGED <<clock, loopVars, inflight, slots, enabled, lock, manual, recVars,
                   fromPut, counts, overtaken, misread>>

\* dispatch's deferred functions: the Space leaves the in-flight set ...
WorkerLeave(s) ==
    /\ worker[s].at = "exit"
    /\ worker' = [worker EXCEPT ![s] = NoWorker]
    /\ inflight' = inflight \ {s}
    /\ leaving' = leaving + 1
    /\ UNCHANGED <<clock, loopVars, slots, enabled, lock, manual, recVars, fromPut,
                   counts, overtaken, misread>>

\* ... and the slot is given back.
SlotBack ==
    /\ leaving > 0
    /\ leaving' = leaving - 1
    /\ slots' = slots - 1
    /\ UNCHANGED <<clock, loopVars, inflight, worker, enabled, lock, manual,
                   recVars, fromPut, counts, overtaken, misread>>

-----------------------------------------------------------------------------
(* What happens beside the scheduler.                                       *)

\* A user starts a backup or a restore; it takes the run lock.
ManualLock(s) ==
    /\ manual[s] = "none" /\ lock[s] = "free" /\ loop # "down"
    /\ MayCount("manual", 1)
    /\ Count("manual", 1)
    /\ lock' = [lock EXCEPT ![s] = "held"]
    /\ manual' = [manual EXCEPT ![s] = "locked"]
    /\ UNCHANGED <<clock, loopVars, workVars, enabled, recVars, fromPut, overtaken, misread>>

ManualRecord(s) ==
    /\ manual[s] = "locked"
    /\ \/ manual' = [manual EXCEPT ![s] = "backup"] /\ Record(s)
       \/ manual' = [manual EXCEPT ![s] = "restore"] /\ UNCHANGED <<recVars, overtaken>>
    /\ UNCHANGED <<clock, loopVars, workVars, enabled, lock, fromPut, counts, misread>>

\* begin fails: the lock is released and there is no record.
ManualUnresolved(s) ==
    /\ manual[s] = "locked"
    /\ manual' = [manual EXCEPT ![s] = "none"]
    /\ lock' = [lock EXCEPT ![s] = "free"]
    /\ UNCHANGED <<clock, loopVars, workVars, enabled, recVars, fromPut, counts, overtaken, misread>>

ManualFinish(s) ==
    /\ manual[s] \in {"backup", "restore"}
    /\ manual' = [manual EXCEPT ![s] = "none"]
    /\ lock' = [lock EXCEPT ![s] = "free"]
    /\ \/ manual[s] = "backup" /\ \E o \in Outcomes : Settle(s, o)
       \/ manual[s] = "restore" /\ UNCHANGED recVars
    /\ UNCHANGED <<clock, loopVars, workVars, enabled, fromPut, counts, overtaken, misread>>

\* spacecfg Put: backups are switched on or off, or the settings just saved.
Put(s) ==
    /\ MayCount("edits", 1)
    /\ Count("edits", 1)
    /\ \E e \in BOOLEAN : enabled' = [enabled EXCEPT ![s] = e]
    /\ fromPut' = [fromPut EXCEPT ![s] = NextAfter(s)]
    /\ UNCHANGED <<clock, loopVars, workVars, lock, manual, recVars, overtaken, misread>>

\* The process dies, and comes back.
Crash ==
    /\ loop # "down"
    /\ MayCount("crashes", 1)
    /\ Count("crashes", 1)
    /\ loop' = "down" /\ ticked' = FALSE
    /\ todo' = {} /\ step' = "look" /\ choice' = "none"
    /\ inflight' = {} /\ slots' = 0 /\ leaving' = 0
    /\ worker' = [s \in Space |-> NoWorker]
    /\ manual' = [s \in Space |-> "none"]
    /\ lock' = [s \in Space |-> IF lock[s] = "held" THEN "dead" ELSE lock[s]]
    /\ UNCHANGED <<clock, enabled, recVars, fromPut, overtaken, misread>>

Boot ==
    /\ loop = "down"
    /\ loop' = "wait"
    /\ UNCHANGED <<clock, ticked, todo, step, choice, workVars, enabled, lock,
                   manual, recVars, fromPut, counts, overtaken, misread>>

\* A lease nobody renews expires.
LeaseExpires(s) ==
    /\ lock[s] = "dead"
    /\ lock' = [lock EXCEPT ![s] = "free"]
    /\ UNCHANGED <<clock, loopVars, workVars, enabled, manual, recVars, fromPut,
                   counts, overtaken, misread>>

-----------------------------------------------------------------------------

PassStep == BeginPass \/ PassLook \/ PassDecide \/ PassDispatch \/ EndPass
WorkerStep(s) ==
    \/ WorkerLock(s) \/ WorkerUnresolved(s) \/ WorkerRecord(s)
    \/ WorkerFinish(s) \/ WorkerLeave(s)
ManualStep(s) == ManualRecord(s) \/ ManualUnresolved(s) \/ ManualFinish(s)

Next ==
    \/ Elapse \/ PassStep \/ PassError \/ SlotBack \/ Crash \/ Boot
    \/ \E s \in Space :
          \/ WorkerStep(s) \/ ManualLock(s) \/ ManualStep(s)
          \/ Put(s) \/ LeaseExpires(s)

Spec == Init /\ [][Next]_vars

\* Time passes, the loop and every goroutine get to run, a run ends, the
\* process is started again, and a lease expires.
Fairness ==
    /\ WF_vars(Elapse) /\ WF_vars(PassStep) /\ WF_vars(SlotBack) /\ WF_vars(Boot)
    /\ \A s \in Space :
          /\ WF_vars(WorkerStep(s))
          /\ WF_vars(ManualStep(s))
          /\ WF_vars(LeaseExpires(s))

FairSpec == Spec /\ Fairness

-----------------------------------------------------------------------------
(* Properties.                                                              *)

\* "Due-ness is derived from the last attempt": a scheduled backup starts only
\* when an occurrence has passed since the last backup that has a record began,
\* however long the process was down ("catches up exactly once") - or when that
\* other backup began after the scheduler had made up its mind, its record could
\* not be read when it did, or it is older than the history that is kept.
OnSchedule ==
    [][\A s \in Space :
          (worker[s].at = "locked" /\ worker[s].kind = "backup"
             /\ worker'[s].at \in {"run", "exit"})
          => \/ attemptIn[s] = 0 \/ overtaken[s]
             \/ misread[s] \/ attemptAge[s] = HistoryWindow]_vars

\* A Space whose backup is due is backed up, or attempted, sooner or later:
\* deferring at capacity and passing over a busy Space lose nothing, as long as
\* the Spaces before it leave slots over.
NowDue(s) == BackupDue(s, LastRun(s, {}))
DueBackupsRun ==
    \A s \in Space : (enabled[s] /\ NowDue(s)) ~> (~enabled[s] \/ ~NowDue(s))

\* A Space with something to prune is pruned sooner or later, as long as its
\* backups go on succeeding.
DuePrunesRun ==
    \A s \in Space :
        (enabled[s] /\ restorable[s] /\ pruneIn[s] = 0) ~> (~enabled[s] \/ pruneIn[s] > 0)

=============================================================================
