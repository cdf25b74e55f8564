# A TLA+ model of the OpenCloud backup plugin

`backupd` is a single-instance service that backs up OpenCloud Spaces to object
storage. It keeps all of its own state as documents in a Space of the very
OpenCloud it backs up, reached over CS3, a store with no transactions and no
compare-and-set. Everything that is hard about the program follows from that:
locks are leases in documents, records are never overwritten but versioned, the
scheduler remembers nothing and derives what is due from the history, and every
call may fail, take effect and fail, or take effect late. The modules here model
that machinery at the granularity of store calls, TLC checks small instances, and
TLAPS proves every safety property the passing runs check, for every instance.

Line numbers and names refer to the repository's source; `PROJECT.json` maps every
definition to its lines.

## 1. The system

### Components

| Component | State | Operations | Correct when |
|---|---|---|---|
| State store (`internal/state`, `internal/cs3state`) | documents by key | Create (look, upload), Replace (upload, or delete and upload), Get, List, Delete | a write that returned is there; one that failed may be |
| Append-only records (`state/versioned.go`) | versions `<prefix>/<id>/<nanos>`, a legacy document | Append, Load, Newest, All, DeleteAll | later is newer, a reader is never set back, nothing acknowledged is lost |
| Run lock (`jobs/lease.go`) | process-local holds, durable leases | Acquire, renewUntil, release, Recover, Busy | one run of a Space at a time, no Space blocked for good |
| Job history (`jobs/state.go`) | one record per run; an id index and a cache of settled keys | Create, Finish, ListRunning, LastOf, PruneBefore | says succeeded only for what succeeded, closes what died |
| Runs (`backup/runner.go`, `backup/prune.go`, `restore/restore.go`, `jobs/outcome.go`) | none of their own | begin, finish, settle, RecordOutcome | the outcome is recorded before the lock is let go |
| Scheduler (`internal/scheduler`) | in-flight set, slots | Run, RunOnce, evaluate, dispatch, execute, trimHistory | due Spaces run, once, on schedule, within MaxConcurrent |
| Notifications (`internal/notify`) | event history per Space and for the operator | Sweep, RunFinished, Notify, List, PruneBefore | a silent failure is told, truthfully, without nagging |
| Instance guard (`internal/instance`) | one record per running process | Claim, checkAlone, awaitExpiry, renewUntil, release | a second instance is refused, a restart is not held up |
| Keys (`api/keys.go`, `internal/keystore`, `pkg/keys`; `web/src/wizard`, `web/src/recoverykey`) | recovery and server envelopes of each Space; a lock per Space; the page's step | setup, replacement, status; the ceremony pages | one Data Key for ever, and a user who knows which Recovery Key counts |
| Wrapping-key rotation (`internal/rotate`, `cmd/backupd/rotate.go`) | targets, server envelopes | rotate-srw, rotate-tw, requireIdle | interrupted and rerun, it ends with every record under the new key |
| Targets and grants (`internal/targets`, `api/admintargets.go`) | targets, the audience of each | create, update, delete, replace grants, seed | no edit undoes another, no target is deleted in use |
| Space configuration (`internal/spacecfg`, `api/backup.go`, `api/schedule.go`) | versions of a configuration | PUT, PATCH, schedule | an edit keeps what it does not name, a Space has a target |
| Snapshot engine (`internal/snapshot`) | a kopia repository | Snapshot, Prune, Walk, CopyRepo | what is inside the window, and the newest backup in any case, can be restored |
| Take-Out (`internal/takeout`, `pkg/takeout`, `cmd/takeout`, `cmd/decrypt`) | a copy of the repository and its envelope | Publish, Extract, Decrypt | what is decrypted is a whole backup |
| CS3 client (`internal/cs3`) | cached token, stall timer | calls, uploads, downloads | every call ends, a refused token goes out of use |
| Login (`api/oidc.go`, `api/users.go`) | cached key set, time of the last refresh, users | Authenticate, Validate, Key, refresh | good tokens pass, withdrawn keys fade |
| Roles (`api/access.go`, `api/admin.go`, `cs3/role.go`) | what one request has read | listSpaces, permits, role, requireRole | a decision is the one the grants demand |
| Process (`cmd/backupd/main.go`, `jobs/background.go`, `internal/retry`) | stage of start and stop, runs at work | buildService, serve, Go, Stop, shutdown | no run starts after Stop, a failed start leaves nothing, a stop ends |
| Restore page (`web/src/restore/flow.ts`) | the page's step | list, confirm, start, follow | no restore started twice by accident |

Not listed here and not modelled: object storage, sinks, configuration, version
monitor, admin and status pages, deployment files. They are pure functions, single
calls or sequential programs; `PROJECT.json` gives the reason for each.

### How they interact

* A run is started by the scheduler (`RunScheduled`, `RunPrune`) or by a handler
  (`StartBackup`, `StartRestore`). All take the run lock with `Acquire`, open a
  record in the job history, work, record the outcome and release.
* The scheduler, on each tick, calls `Recover` of the run lock, reads
  configurations and history, dispatches, trims the history and calls the
  monitor's `Sweep`. The only state it shares with the runs is the documents.
* The monitor reads the same history and its own event history.
* Key, target and configuration records are all append-only records; leases,
  instance records and job records are replaced in place.
* The single-instance guard is what makes process-local locks (the hold of the run
  lock, the lock per Space in `api/keys.go`) mean anything.
* The pages talk to the handlers over HTTP, with a wait of 30 s of their own. Every
  request passes the token check (Login) and then the gate of its route (Roles).
* A run opens its Space's repository with the credentials of its target and the data
  key in the server envelope: what admins edit, and what a rotation rewrites.
* Take-Outs and rotations are commands of their own. They take no run lock and may
  find the service at work.

### What is hard

Interleavings of store calls between runs, renewals and the recovery pass; crashes
between any two of them; writes that fail and take effect, at once or later; clocks
that jump; leases that expire under their holder; decisions on a history that
changes under the decision; bounded lookbacks; HTTP answers that are lost, late or
cut off. `PROJECT.json` lists these under `hazards`, each at its line.

## 2. The modules

| Module | Models | Code |
|---|---|---|
| `RunLifecycle` | run lock, runs, recovery | `jobs/lease.go`, `jobs/outcome.go`, `backup/runner.go`, `restore/restore.go` |
| `SpaceRuns` | what `RunLifecycle` promises, without leases or goroutines | abstract |
| `AppendOnly` | one versioned record | `state/versioned.go`, `cs3state/cs3state.go` |
| `Repository` | a Space's snapshots, the runs' work on them, Take-Outs | `snapshot/*.go`, `backup/*.go`, `restore/restore.go`, `takeout/remote`, `pkg/takeout` |
| `SpaceClient` | calls of OpenCloud, the token cache, stalls | `cs3/*.go`, `cs3state/cs3state.go` |
| `Scheduler` | the tick, the decision, dispatch, workers | `scheduler/scheduler.go` |
| `Notify` | sweep, reporter, event history | `notify/*.go` |
| `InstanceGuard` | claim, watch, renewal | `instance/instance.go` |
| `Service` | a process from start to exit; extends `InstanceGuard` | `cmd/backupd/main.go`, `jobs/background.go`, `retry/retry.go` |
| `KeyCeremony` | pages, handlers, key store | `api/keys.go`, `keystore`, `wizard/machine.ts`, `recoverykey/rotation.ts` |
| `Targets` | targets, grants, configurations, seeding | `targets/*.go`, `spacecfg/state.go`, `api/admintargets.go`, `api/backup.go`, `api/schedule.go` |
| `Rotation` | both rotations; extends `Targets` | `rotate/rotate.go`, `cmd/backupd/rotate.go`, `keystore/keystore.go` |
| `Login` | token check, key set, user cache | `api/oidc.go`, `api/users.go` |
| `Roles` | roles on a Space and the gates of the routes | `cs3/role.go`, `api/access.go`, `api/admin.go`, `api/api.go` |
| `MC*` | constants and compositions for TLC | - |
| `*Proofs` | theorems: of `RunLifecycle`, `AppendOnly`, `Repository`, `Notify`, `KeyCeremony`; of `Scheduler` and `Service` (`ProcessProofs`), `Targets` and `Rotation` (`RotationProofs`), `Login` and `Roles` (`AccessProofs`) | - |

**RunLifecycle.** `lease` and `job` are the documents, `local` is
`LeaseLocker.local`, `pc` the position of each run between two store calls, `renew`
its renewal goroutine, `pass` the locals of a recovery pass, `sweep` the time to the
next orphan sweep. Times are time left; a lease that has run out is kept negative
down to `-Slack`, because a call judges it by a clock reading up to `Slack` ticks
old. `RunStep` is one run's next store call; `Fault` marks a call that failed, with
both outcomes for what it wrote. Leases and records are replaced in place, which on a
server that refuses to overwrite (`Refuses`) is a delete and an upload: a failure
between the two loses the document, and a record that is `"lost"` is never found
again. `Crash` loses everything but the documents.
`SpaceRuns` has four variables, the holder of each Space, the record and the outcome
of each run, and how often the process has died, so that letting go of a Space and
dying with it are different steps; the refinement mapping is `holder <- local`,
`record <- job`, `outcome <- result`, `deaths <- crashes`.

**AppendOnly.** One action per store call of `Append`, `Load` and `DeleteAll`. A
clock reading is any value, in any order. `clobbers`, chosen at the start, says
whether an upload silently replaces a document or is refused: the code supports
both servers. `before` and `older` are history: the appends that had returned when a load
began, and those that were over when an append began. So "later" is an order in time, and
never the order of the names that the code is there to get right.

**Scheduler.** A unit of time is a tick of the loop. The pass keeps the Spaces
still to evaluate and what it decided for the current one, so that runs and users
act between the look at the lock, the read of the history and the dispatch. `records` are
a Space's backup records, newest first: a read of the history leaves out those it cannot
read (`unread`) and goes on to the older ones, as `jobs/state.go:190-195` does, and a trim
leaves them where they are. What really happened is history: `attemptIn` and `attemptAge`
date the last attempt, `misread` says that the scheduler chose past a record it could not
read. `PassError` is a call without which the pass goes no further with a Space: the
configuration, the lock, or the listing of the keys. The schedule is a period per Space,
with its jitter; the calendar is not modelled. The run lock is one step, `RunLifecycle`
having its detail.

**Notify.** The history of a Space is a sequence of backups and one of events,
newest first, read through bounded lookbacks as the code does. Both listings leave out,
without a word, documents they cannot read (`ListScope`, `ListRecentOfKind`); `unseen` and
`unread` remember which, and a message carries what its author could not see. A listing
of keys or an append that fails ends the work on that Space (`SweepFails`, `missed`).

**Repository.** One run at a time, because `RunsNeverOverlap` says so; a Take-Out
beside it. A manifest is a tree of entries `[file, meta, data]`: `meta` is what the walk
listed of the file, `data` the version that was read, which may be a later one. `stored`
is what the repository holds, so that an entry can outlive its content and a property
can notice. A kopia write session takes effect as a whole at `Commit`; a `Checkpoint`
flushes in the middle of one and applies kopia's own retention under the session's policy.
Restores and decryptions report what they brought back in `given`.

**SpaceClient.** Each worker carries out one operation of the state store as the list
of client calls behind it. A call takes the cached token or mints one outside the lock;
the gateway refuses tokens of an older secret. Answers are any the gateway may give.

**InstanceGuard and Service.** Each start of the service is an instance of its own. `rec`
is the time left on its record, `seen` what a watcher measured, `renewed` whether the
record it watches has been written since. `Service` gives every instance a `stage`
from boot to exit, a scheduler goroutine and one manual request at a time; whether a run
heeds its cancellation, and which timeouts fire, is left open. `landed` remembers a write
of the record that was under way when the process gave up.

**KeyCeremony.** A ceremony, its Recovery Key, its envelope and its request share
a number. `handler` is the position of the request in the handler, `step` the
page's. `world`, chosen at the start, is the set of troubles a behaviour may meet: a
handler that outlives the page's wait (`straggle`), a write that timed out and lands
later (`late`), an answer whose body is cut off (`torn`). Properties say which
they stand.

**Targets and Rotation.** A request is a list of store calls with what it has read so
far. A call that fails, is cut off by its client or dies with the process has no effect,
an effect at once, or one later: its request is answered (`gone`), but stays until the
write lands or is lost (`Lose`), and a deletion that is gone removes what it had listed.
History carries the properties: `want` is what the edits amount to when they are applied
one after another, `calm` the records of which no two edits have overlapped, writes on the
way included; `meant` is the audience last chosen for a target, which a seeding chooses
to be all users whatever list it adds them to, and `leftover` the targets that were
removed and their grants not. `Rotation` adds the server envelopes in both layouts and a
command that works record by record, next to a service that is stopped or not (`honest`).

**Login.** One step is one section under the key set's lock or one answer from outside.
A request carries how its key stood when it arrived, so that a property can tell a
refusal that is right from one that is not.

**Roles.** A request shares nothing with others, so one request over all grants a Space
can carry is the whole of it. The permissions of a grant, its expiry (`dated`) and the map
that says which grants are groups' (`marked`) are documents that may be unreadable each
for itself, and `ParseMembers` reads them as the code does. `Reaches` says what a role is
from the grants alone; the code's ladder, its shortcuts and its group lookups are compared
with that: a decision grants what the grants known for what they are demand (`Known`), and
no more than what those whose expiry cannot be told allow (`Possible`).

## 3. What is checked

| Run | Modules | Properties | Shows |
|---|---|---|---|
| `run_safety` | RunLifecycle | RunsNeverOverlap, SucceededMeansDone, RecordedBeforeRelease, OrphanSweepSparesRuns, KeepsContract | two runs of one Space, two failing calls, one crash: the lock excludes, the history is honest, the orphan sweep spares live runs, and the whole refines SpaceRuns |
| `run_live` | RunLifecycle | DeadLeaseGoesAway, RunningRecordsClose, SpacesComeFree | after a failing call and a crash, leases go away, records are closed and the Space is free again |
| `storage` | AppendOnly | AcknowledgedIsStored, LoadIsCurrent, NoOlderVersionComesBack | three appends, a load and a deletion racing, on both kinds of server |
| | Repository | LastCopySurvives, NothingInWindowIsLost, BackupsAreOfTheirRun, OnlyWholeTreesLeave | three runs of any kind over two files that change, killed anywhere, with checkpoints, collection, another kopia client and a Take-Out beside them |
| `service` | Scheduler | OnSchedule | one Space, runs of any length and outcome, a history that is trimmed, and any two of a manual run, a failing read, a record that cannot be read, a run that cannot be begun and a crash |
| | Notify | NoNagging, StaleMessageIsTrue, StaleSpacesAreTold | runs finishing and events arriving inside the sweep, at the limits of both lookbacks, with a document that cannot be read or a call that fails |
| | Service, InstanceGuard | NoRunOutlivesTheRecord, ExitsLeaveNoRecord, RunsOfOneProcess | two processes that start, serve, drain, stop, fail to start, or are killed, on both kinds of server |
| `sched_live` | Scheduler | DueBackupsRun, DuePrunesRun | due work is done, although one slot serves both Spaces, and a read fails, a record cannot be read, a run cannot be begun, a user edits or starts a run, or the process dies |
| `live` | Service, InstanceGuard | ShutdownEnds, ClaimsEnd | a process started after another died claims its record or is refused, and ends when told to, whatever it is doing |
| | SpaceClient | TransfersEnd, RefusalsEnd | two workers, a changed secret, files that are never ready, transfers that fall silent |
| `ceremony` | KeyCeremony | OneDataKey, NoSilentLoser, VoidKeysStayVoid, DataKeyIsForEver, RequestsEnd | two pages and two ceremonies racing through failing writes, restarts and every combination of troubles |
| `api` | Targets, Rotation | StrandedOnlyByARace, EditsAloneStand, AudienceStands, RotationMovesEverything | two requests at a time, with a call that fails, works and fails, or lands late, with restarts, seeding, and rotations that break off |
| | Login | WithdrawnKeysFade, GoodTokensAreNotRefused | two requests sharing the key set while the provider replaces its keys and fails to answer |
| | Roles | DecisionIsTheRoles | every route over every set of grants of two principals, readable or not |
| `run_kept` | RunLifecycle | KeptLockIsRecovered | violated: section 5 |
| `run_orphan_race` | RunLifecycle | SuccessIsNotOverwritten | violated: section 5 |
| `ceremony_torn` | KeyCeremony | DiscardedKeyIsVoid | violated: section 5 |
| `custody_leftover` | Targets, Rotation | NoAudienceNobodyChose | violated: section 5 |

`storage`, `service`, `live` and `api` put parts that share no state side by side: a
variable `part`, chosen in the initial state, says which of them a behaviour exercises,
and the others stay as they are. A property of one part holds in the composition exactly
when it holds in the part. TLC counts the next-state relation of
such a run as one action; its expression coverage (`tlc -coverage 1`) shows that every
conjunct of every part is reached, except the scheduler's `Put`, which `service` turns off
and `sched_live` takes. A `TypeOK` is not in a run: `RunLifecycle`'s and
`Notify`'s are proved (section 4), the others say what the variables are.

### Bounds

* `run_safety`: runs of different Spaces share nothing but the recovery pass, so one
  Space is the case in which they contend; two runs are the smallest number that
  can overlap. `TTL = 3` and `Slack = 1` let leases expire while they are read,
  renewed and recovered; two faults use up the `Attempts = 2` of an outcome.
  `Refuses = TRUE` adds the lost documents to what a server that overwrites can do,
  so both kinds are covered; the liveness and violation runs have a server that
  overwrites.
* `run_live` has one run, whose lease a crash leaves behind: the liveness properties
  are about a Space that nothing else asks for, which is when recovery must do it.
  It has one fault, because with two the outcome can be lost altogether: that is
  `run_kept`.
* `storage`, records: three writers are needed for a name that is taken twice; names run
  to 4, two clock readings and two more past the newest. Repository: three runs are a
  backup, what goes wrong after it, and the run that shows it; a window of 2 of 4 days
  lets backups expire; `KeepLatest = 1` makes kopia's counting bite at the second backup;
  two files make a tree that can be incomplete, one edit a file that changes under the walk.
* `service`: a Space's schedule and history are its own, so one Space is enough for
  OnSchedule; that Spaces share slots is in `sched_live`. A period of 4 with a history
  window of 2 lets a record be trimmed before the occurrence after it has passed;
  `MaxSkips = 1` keeps two records in view, so that one can be passed over for the other;
  two events of the environment (`MaxEvents`) of any kind interrupt the schedule. The
  monitor's lookbacks of 1 are at their limit after two records, as the code's 20 and 50
  are after 21 and 51; `StaleAfter = 1` and `RepeatAfter = 2` let a success grow stale and a
  message be too early to repeat within the four readings of the clock; one fault is one
  unreadable document or one failing call. Two processes are what overlap takes.
* `sched_live`: two Spaces of one period with different jitters, so that each finds the
  slot taken; periods of 4, so that the runs of both fit: with less, the first starves the
  second (section 5). One event, of any kind; what a death does to a run a user started is
  in `run_safety`.
* `live`: one process has died and left its record, `TTL = 4` with a renewal every tick,
  and two faults. The client part has two workers and two changes of secret, so that one
  worker can put back a token the other has dropped; a window of 2 pauses twice.
* `ceremony`: two ceremonies are what a race takes; two faults break both halves of
  a setup.
* `api`: two requests are what a race takes, three operations a race and what came
  before it, or a rotation, a restart and another rotation; one fault is one call that
  fails or whose write stays on the way, and a stop may leave more. Two targets are a
  seeded one and another, and the audiences are nobody, one Space, and one that does not
  validate. Two signing keys are one replacement; time runs to 3, past `TTL = 1` and
  `MinRefresh = 2`. Two principals are the caller's own grant and one of a group, or two
  groups.
* Bounds on faults, crashes, runs, edits and ceremonies are guards on the
  environment's actions, named `Max...`.
* The theorems of section 4 hold for every value of these constants: what a small bound
  could hide from a safety property, they rule out. The bounds of the liveness
  properties (`run_live`, `sched_live`, `live`, `RequestsEnd`) are not lifted.

### Deadlock and fairness

Deadlock is checked except in `storage`, `live`, `api` and `custody_leftover`, in which a part
stops when its bounds on edits, days or requests are used up and nothing is left to do. `AppendOnly`,
`Notify` and `Service` say with an explicit stuttering action when everything is over.

Fairness is weak and only on what the code makes happen. `RunLifecycle`: a run's
next call (each has a timeout), its renewal goroutine, recovery (the scheduler calls
it on every tick) and time; no user has to ask for a run, no call has to fail.
`Scheduler`: time, the loop, the goroutines it starts (runs are bounded by a
timeout), start of the process after a crash (the container is restarted), expiry.
`Service`: time, the sequential steps of a start and a stop (each wait in them has a
timeout), the claim, the renewals, and, once the process is told to stop, the return of
calls whose context is done. No run has to end, nothing says that OpenCloud answers,
and no signal has to come. `SpaceClient`: a worker goes on (calls are answered or fail,
and a timer that is set fires); no operation has to begin, no secret to change, no
time to pass. `KeyCeremony`: only the handlers, whose calls are bounded by
`storeTimeout`; no page has to do anything.

### Mutants

Every property has a mutant: a definition changed as a plausible bug would change it
(a guard dropped, a retry left out, an order swapped), kept in the module above the
definition and marked `Mutant`, and under which TLC reports the property violated.

## 4. What is proved

Every safety invariant and action property that a passing run checks is the statement of
a theorem, for every value of the constants that satisfies the modules' `ASSUME`s. In each
case TLC checked the inductive invariant on an instance first.

| Module | Theorem | States |
|---|---|---|
| `RunLifecycleProofs` | `TypeCorrect` | `Spec => []TypeOK` |
| | `MutualExclusion` | `Spec => []RunsNeverOverlap` |
| | `HistoryIsHonest` | `Spec => []SucceededMeansDone` |
| | `RecordThenRelease` | `Spec => []RecordedBeforeRelease` |
| | `OrphansAreTraces` | `Spec => []OrphansComeFromFailures` |
| | `SweepIsSafe` | `Spec => []OrphanSweepSparesRuns` |
| | `Refinement` | `Spec => KeepsContract` |
| `AppendOnlyProofs` | `AppendsStand` | `Spec => []AcknowledgedIsStored` |
| | `LoadsAreCurrent` | `Spec => []LoadIsCurrent` |
| | `DeletesInOrder` | `Spec => NoOlderVersionComesBack` |
| `RepositoryProofs` | `NewestBackupSurvives` | `RepoSpec => []LastCopySurvives` |
| | `WindowIsKept` | `RepoSpec => []NothingInWindowIsLost` |
| | `BackupsAreComplete` | `RepoSpec => []BackupsAreOfTheirRun` |
| | `WholeTreesLeave` | `RepoSpec => []OnlyWholeTreesLeave` |
| `ProcessProofs` | `WithdrawnIsIdle` | `ServiceSpec => []NoRunOutlivesTheRecord` |
| | `NoRecordIsForgotten` | `ServiceSpec => []ExitsLeaveNoRecord` |
| | `GuardKeepsRunsApart` | `ServiceSpec => []RunsOfOneProcess` |
| | `WorkersAreLimited` | `Spec => [](Cardinality({s : worker[s].at # "none"}) <= MaxConcurrent)` |
| | `BackupsAreOnSchedule` | `Spec => OnSchedule` |
| `NotifyProofs` | `NobodyIsNagged` | `NotifySpec => []NoNagging` |
| | `StaleReportsAreTrue` | `NotifySpec => []StaleMessageIsTrue` |
| | `SilenceIsReported` | `NotifySpec => StaleSpacesAreTold` |
| `KeyCeremonyProofs` | `OneKeyForAll` | `Spec => []OneDataKey` |
| | `KeysThatWereToldStand` | `Spec => []NoSilentLoser` |
| | `VoidKeysNeverOpen` | `Spec => []VoidKeysStayVoid` |
| | `KeysAreKept` | `Spec => DataKeyIsForEver` |
| `RotationProofs` | `BindingsHold` | `CustodySpec => []StrandedOnlyByARace` |
| | `NoEditIsLost` | `CustodySpec => []EditsAloneStand` |
| | `GrantsAreChosen` | `CustodySpec => []AudienceStands` |
| | `OldKeyIsNoLongerNeeded` | `CustodySpec => []RotationMovesEverything` |
| `AccessProofs` | `WithdrawnKeysAreForgotten` | `LoginSpec => []WithdrawnKeysFade` |
| | `GoodTokensComeThrough` | `LoginSpec => []GoodTokensAreNotRefused` |
| | `DecisionsAreRight` | `RolesSpec => []DecisionIsTheRoles` |

### Run lock (`IInv`)

For every set of Spaces and runs, every `TTL`, `Slack < TTL`, `SweepEvery` and
`Attempts`, both kinds of server, and any number of failing calls and crashes.
`RunsNeverOverlap` is not inductive:
nothing in it says why a run executes. `HoldInv` does: a run is at a step that
holds its Space exactly when `local` names it, and `local` names one run. That
the lease is not part of the argument is the point: leases expire under live
runs and recovery may delete them, and exclusion inside the one process rests on
the local hold alone. `AgeInv` bounds the age of clock readings, which the type of
`lease` needs, and says that attempts are left while outcomes are being recorded.
`ProgressInv` ties record and result to the run's step, which
`SucceededMeansDone` and `RecordedBeforeRelease` need at `RecordOutcome`, and the
refinement where a record is opened, written or lost. `OrphanInv`
is `OrphansComeFromFailures` strengthened to the steps at which a record is open
by right. `PassInv` says what the sweep knows between its reads: the run of the
job it is about to close out is past its release, and cannot come back, each run
being one call. `OrphansAreTraces` is proved and not in a run, being a consequence
of `OrphanInv`.

### Records (`IInv` of `AppendOnlyProofs`)

For any appends, loads, names and servers. `WriterInv` says that an append that goes on
has names left, so that it does not give up for want of one; `DocsInv` that what is under a
name was put there by the append that picked it; `UsedInv` that an acknowledged name
stays in use until a deletion begins; `OrderInv` that an append which goes on is filed past
every version that was over when it began, if that is still stored; `ReaderInv` that a
load which has settled on a name passed over no acknowledged one, and that what it
returned is the work of an append that is over. The last two give `LoadIsCurrent`: that
"later in time" is "later by name" is a step of the proof, no part of the property.
`DeleteInv` that `DeleteAll`, when no append runs beside
it, has every version that is left still before it, oldest first.

### Snapshots (`RepoInv`)

For any files, versions, window, `KeepLatest`, runs and days. `StoredInv`: what a manifest
refers to is stored, what a session enters is stored or pending; `SessionInv`: a session
works with kopia's counting off, which is why a checkpoint's retention cannot take a
backup; `TakenInv` orders the backups by day and says that they are the complete
manifests; `KeptInv`: the newest, and those in the window, still have their manifest;
`EntryInv` bounds the age of the content of an entry from below.

### Processes and the scheduler (`ServiceInv`, `CapacityInv`, `ScheduleInv`)

The guard, for any processes, pasts, lifetimes and faults: `WatchInv` says that a
watcher knows the time left on a record until it is written again, `MetInv` that an instance
which ran when another listed is one the other has still to look at or to wait for; so
nobody writes a record beside one that is live. `AloneInv` carries this from the claim to
the runs, `WorkInv` says at which stages anything can be at work.

The scheduler: a goroutine has a slot from before it starts until after it has left the
in-flight set (`SlotInv`). For `OnSchedule`, `BaselineInv` says that the newest record in
view dates the last attempt until it is old enough to be trimmed: a backup that fails before
it has a record is no attempt, and a record that cannot be read stays where it is.
`ChosenInv` carries the decision over the dispatch and the lock, with the three reasons why
the occurrence may not have passed: an attempt after the decision, a record that could not
be read for it, one that is past the window. No hypothesis on the schedules, the window or
the failures is left.

### Notifications (`NotifyInv`)

For any Spaces, thresholds and lookbacks. A sweep reads, and runs and events come in
before it acts on what it read. Logs are ordered in time (`OrderInv`), so the newest event a
bounded listing shows speaks for the older ones; `FoundInv`: what the sweep is about
to say is true of the time it was called with, and stays true because a backup that ends
later ends later, but for successes among the records it could not read; `QuietInv`:
nothing like it was said lately, but for events it could not read, and nobody but the
monitor says such things; `ToldInv`: whoever the sweep is done with has been told, as a
document that is left out can only make it say more. Documents are known by their keys,
which count up.

### Keys (`KeyInv`)

For any pages and ceremonies, with stragglers, torn answers, failing calls and restarts;
a behaviour with late writes is excluded, as in the properties. `LockInv` and `HandlerInv`
say what a handler that holds the Space's lock may rely on: a setup works on a Space the
unattended runs cannot use yet, a replacement on the envelope it names. `StoreInv`: a
server envelope never comes alone; `PageInv`: a page sends its key once.
`VoidInv` says that, without trouble, a page in doubt has no request left under way. That
the places for envelopes suffice is left to TLC.

### Targets and rotation (`CustodyInv`)

For any targets, Spaces, requests and operations. `ApartInv`: a request that is alone shares
its record with no other request and no rotation, gone ones with a write on the way included,
so that a late write is alone only if nothing came between; `CurrentInv`: what it has read is
still so; `RemovalInv` and `BindingInv`: a deletion that is past its count overlaps every
binding made to its target until it is over or its write has landed. `AudienceInv`: a target
that is not there is meant for nobody (`NobodyMeant`), which a deletion that goes on to the
grants makes true of what is stored (`UngrantInv`), and which a seeding relies on when it adds
to the list that is there (`SeedInv`); after a deletion that did not get that far the target
is a `leftover`, and nothing is claimed. `EnvelopeInv` and `SweepInv`: what is not on the new key is
still on the command's list. The proof corrected the model: `StrandedOnlyByARace` used to
count only the binding itself as overlapping, and with four operations TLC then shows an
edit that reads a stranded binding, another that binds the Space elsewhere, and the
first writing the stranded binding back. A request that writes back a binding now
inherits what that binding overlapped (`KeepsTarget`).

### Access (`LoginInv`, `RolesInv`)

Login, for any keys, requests and times with `FetchTimeout < MinRefresh`: `KeysInv` dates
the copy and says that a key that is gone is in no copy; `FetchInv` that fetches exclude one
another; `CallsInv` what a request knows of its key given how the key stood as it
came in. The proof allowed a stronger property: `GoodTokensAreNotRefused` now says that
a request is never refused after a fetch of its own. Roles, for any principals, grants,
expiries and memberships, readable or not: `RoleIsReached` shows that the ladder of
`RoleFromPermissions` and the maximum over the grants grant a role that is warranted
(`Warranted`), and exactly when one grant reaches it where everything can be read.

### Only model-checked

* Liveness under fairness (`run_live`, `sched_live`, `live`, `RequestsEnd`): `ENABLED` and
  fairness are out of reach of the provers at hand. With it all of `SpaceClient`, whose
  properties are both liveness.
* The properties of the violation runs, which are false.
* That the compositions in `MCStorage`, `MCLoop`, `MCLive` and `MCApi` say of their parts what the
  theorems say of the modules: the parts share no state.
* `TypeOK` of modules other than `RunLifecycle` and `Notify` (`NotifyTypeOK`): the proofs use the part of it
  they need, with numbers unbounded.

## 5. Where the code and its comments differ

Shown by a run:

* **A kept lock is not recovered** (`run_kept`). When the outcome cannot be recorded,
  `settle` keeps the lock and says that "it expires on its own"; the renewal goroutine
  keeps renewing it, and recovery passes over Spaces the process holds. The Space
  is blocked until a restart. (`run_kept` uses up the attempts; on a server that
  refuses to overwrite one failed `Finish` is enough, as the record may be lost, and
  the next attempt's NotFoundError is permanent.)
* **A success can be overwritten** (`run_orphan_race`). `recoverOrphans` lists, then
  looks, then calls `Finish`: a run that ends in between is marked failed.
* **A user may be told to discard the key in use** (`ceremony_torn`). An answer with a
  2xx status and an unreadable body is not `mayHaveLanded`.
* **A seeded target may take over an audience nobody chose** (`custody_leftover`). When the
  second call of a deletion fails, the grants stay; the retry is a 404, and a later start
  that finds no target seeds one under the same id and adds `all_users` to the grants
  that are there (`targets/state.go:172-182`). The comments at `targets/state.go:108` and
  `api/admintargets.go:411-412` rule such grants out.

Seen while modelling, and excluded from the properties by a condition that names
them:

* `lease.go:316`: `recoverExpired` deletes by key what a run may just have taken over, a
  live lease. The local hold still excludes other runs of this process, which is what
  RunsNeverOverlap and its proof show.
* `cs3state.go:165`: on a server that overwrites, Create may replace a document another
  append has just stored (condition `~clobbers` of AcknowledgedIsStored).
* `versioned.go:293`: DeleteAll deletes the legacy document last; stopped before,
  Load returns it (NoOlderVersionComesBack is about versions).
* `jobs/state.go:190-195`: a job record that cannot be read is left out of a listing without a
  word. The scheduler then takes an older backup for the last one, or none, and may start a
  backup off schedule (`misread` in OnSchedule; `robustness_test.go:232-235` accepts a spurious
  extra backup), and an unreadable prune record starts a prune early. The monitor may take
  an older success for the last one and call a healthy Space stale (`unseen` in
  StaleMessageIsTrue).
* `notify/state.go:92-95`: so is an event, and a member may be told again within the repeat
  interval (`unread` in NoNagging).
* `runner.go:245`: a run whose Space cannot be resolved leaves no record and is
  dispatched on every tick (OnSchedule speaks of attempts that have a record).
* `scheduler.go:545`: trimming a history shorter than the schedule drops the baseline
  (`attemptAge = HistoryWindow` in OnSchedule).
* `scheduler.go:380`: Spaces are served in id order, and early ones that are always due
  starve late ones (the bounds of `sched_live`).
* `scheduler.go:427`: no prune while the latest backup failed (DuePrunesRun).
* `monitor.go:188`: more than 20 events push the last notification out of the lookback
  (condition of NoNagging); `stale.go:53`: 50 failed records the last success.
* `instance.go:238`: on a server that refuses to overwrite, a renewal deletes the record
  first, and a claim in that window finds none (condition `overwrites` of
  RunsOfOneProcess).
* `main.go:426`: a Claim whose write fails, or is cut off by the signal, returns without a
  stand-down, although the record may have been stored: the next start waits it out
  (`landed` in ExitsLeaveNoRecord).
* `main.go:308`: a run that does not heed its cancellation goes on after the drain has
  timed out and the record is withdrawn, while a replacement may start (`cut` in
  NoRunOutlivesTheRecord and RunsOfOneProcess).
* `machine.ts:301`: a handler that outlives the page's wait may store the key the page
  called void (condition `world = {}` of VoidKeysStayVoid).
* `api/keys.go:290`: a write that timed out lands outside the lock, and two Data Keys or a
  silent loser result (condition `"late" \notin world` of OneDataKey, NoSilentLoser and
  DataKeyIsForEver, which are therefore no statement about this hazard).
* `targets/state.go:158`, `spacecfg/state.go:79`: a write of a request that was answered with an
  error, or with none, may land after later ones: a Space ends up bound to a target that was
  deleted since, an edit or an audience comes back. Until it lands or is lost such a request
  counts as overlapping (`gone`, in `across` and `calm`).
* `admintargets.go:341`: Spaces are counted and the target deleted two calls later; a Space
  bound in between is left without one (`across` in StrandedOnlyByARace).
* `targets/state.go:94`: an update that has read its target appends it again after it was
  deleted; `state.go:85`: one without credentials puts back those it read; a PATCH or a
  schedule writes back the configuration it read (`calm` in EditsAloneStand). The flag
  that says whether credentials are separated and the sealed credentials may come from
  different edits in the same way.
* `targets/bootstrap.go:127`: a process that dies between the seeded target and its grant
  leaves a target nobody may use, and the next start does not seed again. AudienceStands
  holds of it: no audience has been chosen yet.
* `rotate.go:180`: a rotation beside a service that is not stopped after all writes back
  the targets it listed, and edits between are undone (`honest` in EditsAloneStand and
  RotationMovesEverything).
* `oidc.go:437`: within `minRefreshInterval` of a refresh that failed, a request whose key
  is not cached gets 401 although the comment at `oidc.go:149-153` says that an outage is
  not the caller's fault (condition of GoodTokensAreNotRefused).
* `cs3/role.go:129-132`: an expiry that cannot be decoded is "never", so a lapsed grant may
  open a Space, which the comment at `role.go:157-159` and the test at `role_test.go:109-111`
  rule out (`Possible` in DecisionIsTheRoles: a decision never goes beyond what grants of
  unknown expiry would allow if they had none). A group's grant whose map cannot be read is a
  grant to a user of the group's id, which is nobody.
* `kopiafs.go:64`: an entry records the size and time the walk listed, and the content of
  when it was read; a later backup that finds the file unchanged since the listing
  reuses it. The content is never older than the listing (BackupsAreOfTheirRun).
* `extract.go:98`: a Take-Out copied while a backup commits may miss contents of the new
  snapshot; decrypting that one fails, and the others are whole (OnlyWholeTreesLeave).

## 6. Not modelled

* Cryptography: an envelope opens with its own key and no other, a seal with the key it
  was made with.
* Bytes: contents of files are versions, tokens are a key, an expiry and one flag for
  every other claim, permissions of a grant are the three rights a role is made of.
* HTTP status codes beyond what a caller tells apart; decoding; logging and message
  text; calendars, time zones and the granularity of time stamps (restore folders and
  modification times have seconds).
* Objects in the bucket: kopia's blobs, packs and locks are the library's. The copy of a
  Take-Out fixes what it holds when the index is listed; a blob that is collected before it
  is read makes it fail. Files are not deleted from a Space, `-allow-missing-envelope` and
  the envelope's own versions are left out.
* The job history's id index and settled-key cache: records are read as stored. In
  `RunLifecycle` the moment at which a replaced document is deleted and not yet uploaded
  is not a step of its own (`InstanceGuard` has it, for its records), and `Scheduler` and
  `Notify` know no lost records and no record stored by a failing create. An event whose append
  timed out is stored then or never in `Notify`, and not later.
* In `Targets`, the listing of a rotation is one step, and so are the read and the append
  of its `UpdateTarget`; records of a Space with a recovery envelope alone, which
  rotate-srw skips, are left out. Writes of a rotation that has ended, and of the seeding,
  have their effect when they are made or never. Which of two appends that overlap ends up
  the newest is left open (`Lose`), as is the name a late one was filed under.
* `RotationMovesEverything` is about the newest versions: superseded versions, and the
  envelopes of the old layout, stay under the old key, and rotate-srw leaves them there.
* The trim of the event history, the sinks, the version monitor, the memory limit,
  configuration parsing, provisioning, the health check and the installer: single calls,
  comparisons or files read at the start.
* The restore, status and admin pages: what they show is a function of one answer. The
  restore page's start that is not answered is listed as a hazard without a property.
* Object storage, the kopia library, OpenCloud, the identity provider and SMTP are other
  programs; they appear as actions of the environment.

## 7. Plan

Modules: `JobHistory`, the id index and settled-key cache against `PruneBefore` and
`Finish`, with an abstract history that `RunLifecycle` and `Scheduler` rely on; the restore
page against a run that ends or never began.

Theorems: the abstract specifications the other components deserve, with their
refinements. A versioned record is an atomic register for one reader at a time
(`AppendOnly`, under `AcknowledgedIsStored`'s condition); the service is a lock with one
holder (`Service`, under `RunsOfOneProcess`'s conditions), which is what justifies the
local hold in `RunLifecycle`; a rotation is one step of every record (`Rotation`, when the
service is stopped). Then the safety part of the liveness arguments: that a slot that is
taken has a goroutine that will give it back, and that a client call that waits has a timer.
