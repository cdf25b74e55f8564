----------------------------- MODULE Repository -----------------------------
(***************************************************************************)
(* What a Space has on its target: the kopia repository, as                *)
(* internal/snapshot drives it, with the backup, prune and restore runs    *)
(* above it (internal/backup, internal/restore) and the Take-Out beside it *)
(* (internal/takeout/remote, pkg/takeout, cmd/takeout, cmd/decrypt).       *)
(*                                                                         *)
(* The runs of a Space exclude one another: that is RunsNeverOverlap of    *)
(* RunLifecycle, and one variable holds the run.  A Take-Out takes no lock *)
(* and may be copying while any of them works.  kopia itself is external:  *)
(* a manifest is a tree of entries, an entry names the content it was      *)
(* stored as, and a write session takes effect as a whole.                 *)
(*                                                                         *)
(* A version stands for a file's bytes together with the size and time the *)
(* walk reports of them; files change while they are being backed up.      *)
(***************************************************************************)
EXTENDS Integers, FiniteSets

CONSTANTS
    File,
    Keep,           \* EffectiveRetentionWindow
    KeepLatest,     \* how many snapshots kopia's own policy keeps
    MaxToday,       \* bound of the clock
    MaxEdits,       \* bound: changes of files
    MaxRuns,        \* bound: runs
    MaxCopies       \* bound: Take-Outs

ASSUME RepositoryAssumption ==
    /\ Keep \in Nat \ {0} /\ KeepLatest \in Nat \ {0}
    /\ MaxToday \in Nat /\ MaxEdits \in Nat /\ MaxRuns \in Nat /\ MaxCopies \in Nat

VARIABLES
    today,
    live,       \* the version of each file in the Space, 0 before it exists
    edits,
    envelope,   \* the Space's recovery envelope is published to the target
    made,       \* the repository is initialised
    policy,     \* kopia's retention by count for this Space: "counts" or "never"
    keeper,     \* who owns the repository's maintenance
    manifests,  \* its manifests, checkpoints of unfinished runs included
    stored,     \* the contents it holds
    run,        \* the run that holds the Space's lock
    runs,
    copy,       \* the Take-Out under way or finished
    copies,
    taken,      \* history: the backups that were committed, and the Space they began on
    given       \* what the last step reported to have brought back, if it did

kept == <<envelope, made, policy, keeper, manifests, stored>>
takeOut == <<copy, copies>>
repoVars == <<today, live, edits, kept, run, runs, takeOut, taken, given>>

Idle == [kind |-> "none", pc |-> "none", start |-> 0, listed |-> [f \in File |-> 0],
         tree |-> {}, written |-> {}, unread |-> {}, policy |-> "counts"]
Nothing == [id |-> 0, files |-> {}]
NoCopy == [pc |-> "none", contents |-> {}]

Working(kind, pc) == run.kind = kind /\ run.pc = pc
Contents(tree) == {<<e.file, e.data>> : e \in tree}

-----------------------------------------------------------------------------
(* Manifests.                                                               *)

CompleteOnly(mans) == {m \in mans : m.complete}
Newest(mans) == {m \in mans : \A o \in mans : o.start <= m.start}

\* Mutant: the newest manifest of any kind is the one that is protected.
ExpiredNewestOfAll(mans, cutoff) ==
    {m \in mans : ~m.complete /\ m \notin Newest(mans)}
        \cup {m \in CompleteOnly(mans) \ Newest(mans) : m.start < cutoff}
Expired(mans, cutoff) ==
    {m \in mans : ~m.complete}
        \cup {m \in CompleteOnly(mans) \ Newest(CompleteOnly(mans)) : m.start < cutoff}

\* kopia applies its policy at every checkpoint.
ApplyRetention(mans, pol) ==
    IF pol = "never" THEN mans
    ELSE {m \in mans : m.complete
                       => Cardinality({o \in CompleteOnly(mans) : o.start > m.start}) < KeepLatest}

\* Mutant: a checkpoint can be restored from.
FindAnyManifest(mans, id) == {m \in mans : m.start = id}
\* The manifest a restore may use.
FindManifest(mans, id) == {m \in CompleteOnly(mans) : m.start = id}

-----------------------------------------------------------------------------
(* A backup run.                                                            *)

Begin(kind, pc) ==
    /\ run = Idle /\ runs < MaxRuns
    /\ runs' = runs + 1
    /\ run' = [Idle EXCEPT !.kind = kind, !.pc = pc]
    /\ UNCHANGED <<today, live, kept, takeOut, edits, taken>>

\* The envelopes are copied out before the data, and a failure is only logged.
Publish ==
    /\ Working("backup", "publish")
    /\ envelope' \in {TRUE, envelope}
    /\ run' = [run EXCEPT !.pc = "open"]
    /\ UNCHANGED <<today, live, made, policy, keeper, manifests, stored, takeOut, runs, edits, taken>>

\* A run that cannot read its configuration, open its target's credentials or
\* unwrap its key ends before it publishes anything, and one that cannot connect
\* after that; only a backup makes a repository, and may have made it by then.
CannotOpen ==
    /\ run.pc \in {"publish", "open"}
    /\ made' \in {made, made \/ Working("backup", "open")}
    /\ run' = Idle
    /\ UNCHANGED <<today, live, envelope, policy, keeper, manifests, stored, takeOut, runs, edits, taken>>

\* Mutant: kopia's policy stays as it is.
PinNothing(pol) == pol
\* The policy this session works under: disableCountBasedRetention.
Pinned(pol) == "never"

\* The walk lists the Space; what it reports of a file is what the snapshot
\* records, whenever the file is read.
Open ==
    /\ Working("backup", "open")
    /\ today < MaxToday
    /\ today' = today + 1
    /\ made' = TRUE
    /\ run' = [run EXCEPT !.pc = "upload", !.start = today', !.listed = live,
                      !.policy = Pinned(policy)]
    /\ UNCHANGED <<live, envelope, policy, keeper, manifests, stored, takeOut, runs, edits, taken>>

Listed(f) == run.listed[f] # 0 /\ f \notin run.unread \cup {e.file : e \in run.tree}
Enter(f, data) == run.tree \cup {[file |-> f, meta |-> run.listed[f], data |-> data]}

\* A file that some earlier manifest, complete or not, reports the same of.
Reuse(f) ==
    /\ Working("backup", "upload") /\ Listed(f)
    /\ \E m \in manifests : \E e \in m.tree :
        /\ e.file = f /\ e.meta = run.listed[f]
        /\ run' = [run EXCEPT !.tree = Enter(f, e.data)]
    /\ UNCHANGED <<today, live, kept, takeOut, runs, edits, taken>>

\* Any other is opened and streamed, as it is by now.
Read(f) ==
    /\ Working("backup", "upload") /\ Listed(f)
    /\ ~\E m \in manifests : \E e \in m.tree : e.file = f /\ e.meta = run.listed[f]
    /\ run' = [run EXCEPT !.tree = Enter(f, live[f]), !.written = @ \cup {<<f, live[f]>>}]
    /\ UNCHANGED <<today, live, kept, takeOut, runs, edits, taken>>

\* kopia notes an entry it could not read and goes on without it.
SkipUnreadable(f) ==
    /\ Working("backup", "upload") /\ Listed(f)
    /\ run' = [run EXCEPT !.unread = @ \cup {f}]
    /\ UNCHANGED <<today, live, kept, takeOut, runs, edits, taken>>

\* What a long upload has by now is flushed, under a manifest of its own.
Checkpoint ==
    /\ Working("backup", "upload") /\ run.tree # {}
    /\ LET sofar == [start |-> run.start, complete |-> FALSE, tree |-> run.tree]
       IN  manifests' = ApplyRetention(manifests \cup {sofar}, run.policy)
    /\ stored' = stored \cup run.written
    /\ policy' = run.policy
    /\ UNCHANGED <<today, live, envelope, made, keeper, run, takeOut, runs, edits, taken>>

\* Mutant: a manifest with unread entries is saved as well.
AssertNothing == TRUE
AssertComplete == run.unread = {}

\* Saving the manifest and dropping the checkpoints is one session.
Commit ==
    /\ Working("backup", "upload") /\ \A f \in File : ~Listed(f)
    /\ AssertComplete
    /\ LET man == [start |-> run.start, complete |-> TRUE, tree |-> run.tree]
       IN  /\ manifests' = CompleteOnly(manifests) \cup {man}
           /\ taken' = taken \cup {[man |-> man, space |-> run.listed]}
    /\ stored' = stored \cup run.written
    /\ policy' = run.policy
    /\ run' = Idle
    /\ UNCHANGED <<today, live, envelope, made, keeper, takeOut, runs, edits>>

\* The session is rolled back; discarding the checkpoints may fail as well.
BackupFails ==
    /\ Working("backup", "upload")
    /\ manifests' \in {manifests, CompleteOnly(manifests)}
    /\ run' = Idle
    /\ UNCHANGED <<today, live, envelope, made, policy, keeper, stored, takeOut, runs, edits, taken>>

-----------------------------------------------------------------------------
(* A prune run.                                                             *)

DeleteExpired ==
    /\ Working("prune", "open") /\ made
    /\ manifests' = manifests \ Expired(manifests, today - Keep)
    /\ run' = [run EXCEPT !.pc = "maintain"]
    /\ UNCHANGED <<today, live, envelope, made, policy, keeper, stored, takeOut, runs, edits, taken>>

\* Contents no manifest refers to are collected, those kopia holds to be too
\* young excepted; a repository that another client maintains is left alone.
Referenced == UNION {Contents(m.tree) : m \in manifests}

RunMaintenance ==
    /\ Working("prune", "maintain")
    /\ keeper' = IF keeper = "nobody" THEN "service" ELSE keeper
    /\ IF keeper' = "service"
       THEN stored' \in {stored, stored \cap Referenced}
       ELSE stored' = stored
    /\ run' = Idle
    /\ UNCHANGED <<today, live, envelope, made, policy, manifests, takeOut, runs, edits, taken>>

-----------------------------------------------------------------------------
(* A restore run: entry by entry into a folder of its own.                  *)

\* Nobody else changes the repository meanwhile, so the walk is one step.
Walk(id) ==
    /\ Working("restore", "open") /\ made
    /\ \E m \in FindManifest(manifests, id) :
        /\ Contents(m.tree) \subseteq stored
        /\ given' = [id |-> id, files |-> Contents(m.tree)]
    /\ run' = Idle
    /\ UNCHANGED <<today, live, kept, takeOut, runs, edits, taken>>

\* The process is killed, or a prune or a restore fails where it is.
Ends ==
    /\ run # Idle
    /\ run' = Idle
    /\ UNCHANGED <<today, live, kept, takeOut, runs, edits, taken>>

-----------------------------------------------------------------------------
(* A Take-Out.  kopia names the blobs of its index after those of its       *)
(* contents, and the listing is read page by page.  What is listed is fixed: *)
(* a blob is read before it is collected or the copy fails, so what the      *)
(* copy holds, and decrypts to, is known once the index is listed.           *)

\* Without a published envelope a Take-Out could not be opened: it is refused.
Extract ==
    /\ copy = NoCopy /\ copies < MaxCopies
    /\ envelope /\ made
    /\ copies' = copies + 1
    /\ copy' = [pc |-> "index", contents |-> stored]
    /\ UNCHANGED <<today, live, kept, run, runs, edits, taken>>

\* A blob is gone, or any other error: without its manifest.json, which is
\* written last, the directory is no Take-Out.
CopyFails ==
    /\ copy.pc = "index"
    /\ copy' = NoCopy
    /\ UNCHANGED <<today, live, kept, run, copies, runs, edits, taken>>

\* The Take-Out is complete, and the Recovery Key opens the envelope it brought
\* along or the one from the web page; a content it lacks is an error.
Decrypt(id) ==
    /\ copy.pc = "index"
    /\ \E m \in FindManifest(manifests, id) :
        /\ Contents(m.tree) \subseteq copy.contents
        /\ given' = [id |-> id, files |-> Contents(m.tree)]
    /\ copy' = NoCopy
    /\ UNCHANGED <<today, live, kept, run, copies, runs, edits, taken>>

-----------------------------------------------------------------------------
(* Around it.                                                               *)

Edit(f) ==
    /\ edits < MaxEdits
    /\ edits' = edits + 1
    /\ live' = [live EXCEPT ![f] = @ + 1]
    /\ UNCHANGED <<today, kept, run, takeOut, runs, taken>>

\* Another kopia client sets a policy, or claims the maintenance.
OtherClient ==
    /\ made /\ run = Idle /\ keeper = "nobody"
    /\ policy' = "counts"
    /\ keeper' = "other"
    /\ UNCHANGED <<today, live, envelope, made, manifests, stored, run, takeOut, runs, edits, taken>>

PassDay ==
    /\ today < MaxToday
    /\ today' = today + 1
    /\ UNCHANGED <<live, kept, run, takeOut, runs, edits, taken>>

RepoInit ==
    /\ today = 0
    /\ live \in [File -> {0, 1}] /\ edits = 0
    /\ envelope = FALSE /\ made = FALSE /\ policy = "counts" /\ keeper = "nobody"
    /\ manifests = {} /\ stored = {}
    /\ run = Idle /\ runs = 0 /\ copy = NoCopy /\ copies = 0
    /\ taken = {} /\ given = Nothing

RunStep ==
    \/ Begin("backup", "publish") \/ Begin("prune", "open") \/ Begin("restore", "open")
    \/ Publish \/ CannotOpen \/ Open \/ Checkpoint \/ Commit \/ BackupFails
    \/ \E f \in File : Reuse(f) \/ Read(f) \/ SkipUnreadable(f)
    \/ DeleteExpired \/ RunMaintenance
    \/ Ends

RepoNext ==
    \/ \E id \in 1..today : Walk(id) \/ Decrypt(id)
    \/ /\ RunStep \/ Extract \/ CopyFails \/ OtherClient \/ PassDay \/ \E f \in File : Edit(f)
       /\ given' = Nothing

RepoSpec == RepoInit /\ [][RepoNext]_repoVars

-----------------------------------------------------------------------------
(* Properties.                                                              *)

Whole(m) == m \in manifests /\ Contents(m.tree) \subseteq stored

\* The newest backup that succeeded can be restored whatever came after it:
\* killed backups and the checkpoints they left, prunes long past its window,
\* and the collection of what they let go of.
LastCopySurvives ==
    \A t \in taken : t.man \in Newest({u.man : u \in taken}) => Whole(t.man)

\* So can every backup that is inside the retention window: nothing but the
\* window expires one, kopia's own counting included.
NothingInWindowIsLost ==
    \A t \in taken : t.man.start >= today - Keep => Whole(t.man)

\* A backup has every file its Space had when it began, in a version the file
\* had from then on: neither the memory of earlier manifests nor a file that
\* changes under the walk puts an older one, or none, in its place.
BackupsAreOfTheirRun ==
    \A t \in taken : \A f \in File :
        t.space[f] # 0 => \E e \in t.man.tree : e.file = f /\ e.data >= t.space[f]

\* What a restore or a decryption reports to have brought back is the whole of
\* a backup that succeeded: not a checkpoint, not a tree with holes, although
\* the Take-Out may have been copied while runs were at work.
OnlyWholeTreesLeave ==
    given # Nothing => \E t \in taken : t.man.start = given.id /\ given.files = Contents(t.man.tree)

=============================================================================
