--------------------------- MODULE RepositoryProofs ---------------------------
(* Proofs about Repository, for any files, windows, clocks and numbers of   *)
(* edits, runs and Take-Outs.                                               *)
EXTENDS Repository, TLAPS

-----------------------------------------------------------------------------
(* The inductive invariant.                                                 *)

Content == File \X Nat
Entry == [file : File, meta : Nat, data : Nat]
Manifest == [start : Nat, complete : BOOLEAN, tree : SUBSET Entry]
Taken == [man : Manifest, space : [File -> Nat]]
Run == [kind : {"none", "backup", "prune", "restore"},
        pc : {"none", "publish", "open", "upload", "maintain"},
        start : Nat, listed : [File -> Nat], tree : SUBSET Entry,
        written : SUBSET Content, unread : SUBSET File, policy : {"counts", "never"}]

\* What the proofs need to know of the types.
RepoTypeOK ==
    /\ today \in Nat
    /\ live \in [File -> Nat]
    /\ manifests \in SUBSET Manifest
    /\ stored \in SUBSET Content
    /\ run \in Run
    /\ taken \in SUBSET Taken

Uploading == run.pc = "upload"

\* A manifest refers only to what is stored, and a session to what is stored or
\* about to be.
StoredInv ==
    /\ \A m \in manifests : Contents(m.tree) \subseteq stored
    /\ Uploading => Contents(run.tree) \subseteq stored \cup run.written

\* A session works with counting switched off, only a backup has one, and it
\* starts from nothing.
SessionInv ==
    IF Uploading THEN run.policy = "never" /\ run.kind = "backup" ELSE run.tree = {}

\* An entry holds a version no older than the one that was reported of it, and
\* what a session enters is what its walk listed.
EntryInv ==
    /\ \A m \in manifests : \A e \in m.tree : e.data >= e.meta
    /\ Uploading =>
          /\ \A e \in run.tree : e.data >= e.meta /\ e.meta = run.listed[e.file]
          /\ \A f \in File : live[f] >= run.listed[f]

\* The backups are complete manifests, of different days, all before the one a
\* session is making; and no other complete manifest is there.
TakenInv ==
    /\ \A t \in taken : t.man.complete /\ t.man.start <= today
    /\ \A t, u \in taken : t.man.start = u.man.start => t.man = u.man
    /\ Uploading => run.start <= today /\ \A t \in taken : t.man.start < run.start
    /\ \A m \in CompleteOnly(manifests) : \E t \in taken : t.man = m

\* The newest backup, and the ones in the window, still have their manifest.
KeptInv ==
    \A t \in taken :
        (t.man \in Newest({u.man : u \in taken}) \/ t.man.start >= today - Keep)
            => t.man \in manifests

RepoInv ==
    /\ RepoTypeOK
    /\ StoredInv /\ SessionInv /\ EntryInv /\ TakenInv /\ KeptInv
    /\ BackupsAreOfTheirRun

-----------------------------------------------------------------------------
(* Every step keeps it.                                                     *)

\* The idle run is one.
LEMMA IdleFacts == Idle \in Run /\ Idle.pc = "none" /\ Idle.tree = {}
  BY DEF Idle, Run

\* The newest of a set of backups, in terms of their days.
LEMMA NewestOfTaken ==
  ASSUME NEW T, NEW t \in T
  PROVE  t.man \in Newest({u.man : u \in T}) <=> \A u \in T : u.man.start <= t.man.start
  BY DEF Newest

\* One that is older than another is not among the newest.
LEMMA OlderIsNotNewest ==
  ASSUME NEW T, NEW t \in T, NEW u \in T, ~(u.man.start <= t.man.start)
  PROVE  t.man \notin Newest({v.man : v \in T})
  BY DEF Newest

\* As long as no complete manifest goes, no backup is lost.
LEMMA KeptStays ==
  ASSUME RepoInv, UNCHANGED <<taken, today>>, CompleteOnly(manifests) \subseteq manifests'
  PROVE  KeptInv'
  BY DEF RepoInv, KeptInv, TakenInv, CompleteOnly

\* A step that changes neither the repository nor the Space, and begins no
\* session, keeps it, whatever the time.
LEMMA QuietStep ==
  ASSUME RepoInv, UNCHANGED <<live, manifests, stored, taken>>,
         today' \in Nat, today <= today',
         run' = run \/ (run' \in Run /\ run'.pc # "upload" /\ run'.tree = {})
  PROVE  RepoInv'
  <1> USE DEF RepoInv, RepoTypeOK, Uploading
  <1>1. RepoTypeOK'
    OBVIOUS
  <1>2. StoredInv'
    BY DEF StoredInv
  <1>3. SessionInv'
    BY DEF SessionInv
  <1>4. EntryInv'
    BY DEF EntryInv
  <1>5. TakenInv'
    BY DEF TakenInv, CompleteOnly, Taken, Manifest, Run
  <1>6. KeptInv'
    BY RepositoryAssumption DEF KeptInv, Newest, Taken, Manifest
  <1>7. BackupsAreOfTheirRun'
    BY DEF BackupsAreOfTheirRun
  <1> QED
    BY <1>1, <1>2, <1>3, <1>4, <1>5, <1>6, <1>7

\* Opening a session keeps it.
LEMMA OpenStep ==
  ASSUME RepoInv, Open
  PROVE  RepoInv'
  <1> USE RepositoryAssumption, IdleFacts
      DEF RepoInv, RepoTypeOK, Uploading, Working, kept, takeOut, Open, Pinned
  <1>1. RepoTypeOK'
    <2>1. today' \in Nat /\ live \in [File -> Nat]
      OBVIOUS
    <2>2. /\ run'.start = today' /\ run'.listed = live /\ run'.pc = "upload"
          /\ run'.policy = "never"
      BY DEF Run
    <2>3. /\ run'.kind = run.kind /\ run'.tree = run.tree /\ run'.written = run.written
          /\ run'.unread = run.unread
      BY DEF Run
    <2>4. run' = [kind |-> run'.kind, pc |-> run'.pc, start |-> run'.start,
                  listed |-> run'.listed, tree |-> run'.tree, written |-> run'.written,
                  unread |-> run'.unread, policy |-> run'.policy]
      BY DEF Run
    <2>5. run' \in Run
      BY <2>1, <2>2, <2>3, <2>4 DEF Run
    <2> QED
      BY <2>1, <2>5
  <1>2. StoredInv'
    BY DEF StoredInv, SessionInv, Contents, Run, Manifest
  <1>3. SessionInv'
    BY DEF SessionInv, Run
  <1>4. EntryInv'
    BY DEF EntryInv, SessionInv, Run, Entry, Manifest
  <1>5. TakenInv'
    BY DEF TakenInv, CompleteOnly, Run, Manifest, Taken
  <1>6. KeptInv'
    BY DEF KeptInv, Newest, TakenInv, Run, Manifest, Taken
  <1>7. BackupsAreOfTheirRun'
    BY DEF BackupsAreOfTheirRun
  <1> QED
    BY <1>1, <1>2, <1>3, <1>4, <1>5, <1>6, <1>7

\* An entry taken over from an earlier manifest keeps it.
LEMMA ReuseStep ==
  ASSUME RepoInv, NEW f \in File, Reuse(f)
  PROVE  RepoInv'
  <1> USE RepositoryAssumption, IdleFacts
      DEF RepoInv, RepoTypeOK, Uploading, Working, kept, takeOut, Reuse, Enter
  <1>1. RepoTypeOK'
    BY DEF Run, Content, Entry, Manifest, Taken
  <1>2. StoredInv'
    BY DEF StoredInv, SessionInv, Contents, Run, Manifest
  <1>3. SessionInv'
    BY DEF SessionInv, Run
  <1>4. EntryInv'
    BY DEF EntryInv, SessionInv, Run, Entry, Manifest
  <1>5. TakenInv'
    BY DEF TakenInv, CompleteOnly, Run, Manifest, Taken
  <1>6. KeptInv'
    BY DEF KeptInv, Newest, TakenInv, Run, Manifest, Taken
  <1>7. BackupsAreOfTheirRun'
    BY DEF BackupsAreOfTheirRun
  <1> QED
    BY <1>1, <1>2, <1>3, <1>4, <1>5, <1>6, <1>7

\* An entry that is read keeps it, although the file may have changed.
LEMMA ReadStep ==
  ASSUME RepoInv, NEW f \in File, Read(f)
  PROVE  RepoInv'
  <1> USE RepositoryAssumption, IdleFacts
      DEF RepoInv, RepoTypeOK, Uploading, Working, kept, takeOut, Read, Enter
  <1>1. RepoTypeOK'
    <2>1. [file |-> f, meta |-> run.listed[f], data |-> live[f]] \in Entry
      BY DEF Run, Entry
    <2>2. <<f, live[f]>> \in Content
      BY DEF Content
    <2>3. run' \in Run
      BY <2>1, <2>2 DEF Run
    <2> QED
      BY <2>3
  <1>2. StoredInv'
    BY DEF StoredInv, SessionInv, Contents, Run, Manifest
  <1>3. SessionInv'
    BY DEF SessionInv, Run
  <1>4. EntryInv'
    BY DEF EntryInv, SessionInv, Run, Entry, Manifest
  <1>5. TakenInv'
    BY DEF TakenInv, CompleteOnly, Run, Manifest, Taken
  <1>6. KeptInv'
    BY DEF KeptInv, Newest, TakenInv, Run, Manifest, Taken
  <1>7. BackupsAreOfTheirRun'
    BY DEF BackupsAreOfTheirRun
  <1> QED
    BY <1>1, <1>2, <1>3, <1>4, <1>5, <1>6, <1>7

\* An entry that cannot be read keeps it.
LEMMA SkipStep ==
  ASSUME RepoInv, NEW f \in File, SkipUnreadable(f)
  PROVE  RepoInv'
  <1> USE RepositoryAssumption, IdleFacts
      DEF RepoInv, RepoTypeOK, Uploading, Working, kept, takeOut, SkipUnreadable
  <1>1. RepoTypeOK'
    BY DEF Run, Content, Entry, Manifest, Taken
  <1>2. StoredInv'
    BY DEF StoredInv, SessionInv, Contents, Run, Manifest
  <1>3. SessionInv'
    BY DEF SessionInv, Run
  <1>4. EntryInv'
    BY DEF EntryInv, SessionInv, Run, Entry, Manifest
  <1>5. TakenInv'
    BY DEF TakenInv, CompleteOnly, Run, Manifest, Taken
  <1>6. KeptInv'
    BY DEF KeptInv, Newest, TakenInv, Run, Manifest, Taken
  <1>7. BackupsAreOfTheirRun'
    BY DEF BackupsAreOfTheirRun
  <1> QED
    BY <1>1, <1>2, <1>3, <1>4, <1>5, <1>6, <1>7

\* A checkpoint keeps it.
LEMMA CheckpointStep ==
  ASSUME RepoInv, Checkpoint
  PROVE  RepoInv'
  <1> USE RepositoryAssumption, IdleFacts
      DEF RepoInv, RepoTypeOK, Uploading, Working, kept, takeOut, Checkpoint, ApplyRetention
  <1> DEFINE sofar == [start |-> run.start, complete |-> FALSE, tree |-> run.tree]
  <1>a. sofar \in Manifest /\ sofar.tree = run.tree /\ ~sofar.complete
    BY DEF Run, Manifest
  <1>b. manifests' = manifests \cup {sofar}
    BY DEF SessionInv
  <1> HIDE DEF sofar
  <1>1. RepoTypeOK'
    BY <1>a, <1>b DEF Run
  <1>2. StoredInv'
    BY <1>a, <1>b DEF StoredInv
  <1>3. SessionInv'
    BY DEF SessionInv, Run
  <1>4. EntryInv'
    BY <1>a, <1>b DEF EntryInv
  <1>5. TakenInv'
    BY <1>a, <1>b DEF TakenInv, CompleteOnly
  <1>6. KeptInv'
    BY <1>b, KeptStays DEF CompleteOnly
  <1>7. BackupsAreOfTheirRun'
    BY DEF BackupsAreOfTheirRun
  <1> QED
    BY <1>1, <1>2, <1>3, <1>4, <1>5, <1>6, <1>7

\* Committing the backup keeps it.
LEMMA CommitStep ==
  ASSUME RepoInv, Commit
  PROVE  RepoInv'
  <1> USE RepositoryAssumption, IdleFacts
      DEF RepoInv, RepoTypeOK, Uploading, Working, kept, takeOut, Commit
  <1> DEFINE man == [start |-> run.start, complete |-> TRUE, tree |-> run.tree]
  <1> DEFINE new == [man |-> man, space |-> run.listed]
  <1>a. /\ man \in Manifest /\ man.tree = run.tree /\ man.complete /\ man.start = run.start
        /\ new \in Taken /\ new.man = man /\ new.space = run.listed
    BY DEF Run, Manifest, Taken
  <1>b. /\ manifests' = CompleteOnly(manifests) \cup {man}
        /\ taken' = taken \cup {new}
        /\ run' = Idle /\ stored' = stored \cup run.written /\ UNCHANGED <<live, today>>
    OBVIOUS
  <1>c. CompleteOnly(manifests) \subseteq manifests
    BY DEF CompleteOnly
  <1> HIDE DEF man, new
  <1>1. RepoTypeOK'
    BY <1>a, <1>b, <1>c DEF Run
  <1>2. StoredInv'
    BY <1>a, <1>b, <1>c DEF StoredInv
  <1>3. SessionInv'
    BY DEF SessionInv, Run
  <1>4. EntryInv'
    BY <1>a, <1>b, <1>c DEF EntryInv
  <1>5. TakenInv'
    <2>1. run.start <= today /\ \A t \in taken : t.man.start < run.start
      BY DEF TakenInv
    <2>2. \A t \in taken' : t.man.complete /\ t.man.start <= today'
      BY <1>a, <1>b, <2>1 DEF TakenInv
    <2>3. \A t, u \in taken' : t.man.start = u.man.start => t.man = u.man
      BY <1>a, <1>b, <2>1 DEF TakenInv, Taken, Manifest, Run
    <2>4. \A m \in CompleteOnly(manifests') : \E t \in taken' : t.man = m
      BY <1>a, <1>b, <1>c DEF TakenInv, CompleteOnly
    <2> QED
      BY <1>b, <2>2, <2>3, <2>4 DEF TakenInv, CompleteOnly
  <1>6. KeptInv'
    <2> SUFFICES ASSUME NEW t \in taken',
                        \/ t.man \in Newest({u.man : u \in taken'})
                        \/ t.man.start >= today - Keep
                 PROVE  t.man \in manifests'
      BY <1>b DEF KeptInv
    <2>1. CASE t = new
      BY <1>a, <1>b, <2>1
    <2>2. CASE t \in taken /\ t # new
      <3>1. t.man.start < run.start /\ t.man.start \in Nat /\ run.start \in Nat
        BY <2>2 DEF TakenInv, Taken, Manifest, Run
      <3>2. t.man \notin Newest({u.man : u \in taken'})
        <4>1. new \in taken' /\ ~(new.man.start <= t.man.start)
          BY <1>a, <1>b, <3>1
        <4> QED
          BY <4>1, OlderIsNotNewest
      <3>3. t.man \in manifests
        BY <2>2, <3>2 DEF KeptInv
      <3> QED
        BY <1>b, <2>2, <3>3 DEF TakenInv, CompleteOnly
    <2> QED
      BY <1>b, <2>1, <2>2
  <1>7. BackupsAreOfTheirRun'
    <2>1. ASSUME NEW f \in File, run.listed[f] # 0
          PROVE  \E e \in run.tree : e.file = f /\ e.data >= run.listed[f]
      <3>1. PICK e \in run.tree : e.file = f
        BY <2>1 DEF Listed, AssertComplete
      <3> QED
        BY <3>1 DEF EntryInv
    <2> QED
      BY <1>a, <1>b, <2>1 DEF BackupsAreOfTheirRun
  <1> QED
    BY <1>1, <1>2, <1>3, <1>4, <1>5, <1>6, <1>7

\* A backup that fails keeps it.
LEMMA BackupFailsStep ==
  ASSUME RepoInv, BackupFails
  PROVE  RepoInv'
  <1> USE RepositoryAssumption, IdleFacts
      DEF RepoInv, RepoTypeOK, Uploading, Working, kept, takeOut, BackupFails
  <1>0. /\ manifests' \subseteq manifests
        /\ UNCHANGED <<live, stored, taken, today>>
        /\ run' = Idle
    BY DEF CompleteOnly
  <1>1. RepoTypeOK'
    BY <1>0
  <1>2. StoredInv'
    BY <1>0 DEF StoredInv
  <1>3. SessionInv'
    BY DEF SessionInv, Run
  <1>4. EntryInv'
    BY <1>0 DEF EntryInv
  <1>5. TakenInv'
    BY DEF TakenInv, CompleteOnly, Run, Manifest, Taken
  <1>6. KeptInv'
    BY KeptStays DEF CompleteOnly
  <1>7. BackupsAreOfTheirRun'
    BY DEF BackupsAreOfTheirRun
  <1> QED
    BY <1>1, <1>2, <1>3, <1>4, <1>5, <1>6, <1>7

\* Expiring manifests keeps it.
LEMMA DeleteExpiredStep ==
  ASSUME RepoInv, DeleteExpired
  PROVE  RepoInv'
  <1> USE RepositoryAssumption, IdleFacts
      DEF RepoInv, RepoTypeOK, Uploading, Working, kept, takeOut, DeleteExpired
  <1>1. RepoTypeOK'
    BY DEF Run, Content, Entry, Manifest, Taken
  <1>2. StoredInv'
    BY DEF StoredInv, SessionInv, Contents, Run, Manifest
  <1>3. SessionInv'
    BY DEF SessionInv, Run
  <1>4. EntryInv'
    BY DEF EntryInv, SessionInv, Run, Entry, Manifest
  <1>5. TakenInv'
    BY DEF TakenInv, CompleteOnly, Run, Manifest, Taken
  <1>6. KeptInv'
    <2> SUFFICES ASSUME NEW t \in taken,
                        \/ t.man \in Newest({u.man : u \in taken})
                        \/ t.man.start >= today - Keep
                 PROVE  t.man \in manifests /\ t.man \notin Expired(manifests, today - Keep)
      BY DEF KeptInv
    <2>1. t.man \in manifests /\ t.man \in CompleteOnly(manifests)
      BY DEF KeptInv, TakenInv, CompleteOnly
    <2>2. CASE t.man.start >= today - Keep
      BY <2>1, <2>2 DEF Expired, CompleteOnly, Taken, Manifest
    <2>3. CASE t.man \in Newest({u.man : u \in taken})
      <3>1. \A u \in taken : u.man.start <= t.man.start
        BY <2>3, NewestOfTaken
      <3>2. t.man \in Newest(CompleteOnly(manifests))
        BY <2>1, <3>1 DEF TakenInv, Newest
      <3> QED
        BY <2>1, <3>2 DEF Expired, CompleteOnly
    <2> QED
      BY <2>1, <2>2, <2>3
  <1>7. BackupsAreOfTheirRun'
    BY DEF BackupsAreOfTheirRun
  <1> QED
    BY <1>1, <1>2, <1>3, <1>4, <1>5, <1>6, <1>7

\* Collecting contents keeps it.
LEMMA MaintenanceStep ==
  ASSUME RepoInv, RunMaintenance
  PROVE  RepoInv'
  <1> USE RepositoryAssumption, IdleFacts
      DEF RepoInv, RepoTypeOK, Uploading, Working, kept, takeOut, RunMaintenance
  <1>1. RepoTypeOK'
    BY DEF Run, Content, Entry, Manifest, Taken
  <1>2. StoredInv'
    <2>1. \A m \in manifests : Contents(m.tree) \subseteq stored \cap Referenced
      BY DEF StoredInv, Referenced
    <2>2. \A m \in manifests : Contents(m.tree) \subseteq stored'
      BY <2>1
    <2> QED
      BY <2>2 DEF StoredInv
  <1>3. SessionInv'
    BY DEF SessionInv, Run
  <1>4. EntryInv'
    BY DEF EntryInv, SessionInv, Run, Entry, Manifest
  <1>5. TakenInv'
    BY DEF TakenInv, CompleteOnly, Run, Manifest, Taken
  <1>6. KeptInv'
    BY DEF KeptInv, Newest, TakenInv, Run, Manifest, Taken
  <1>7. BackupsAreOfTheirRun'
    BY DEF BackupsAreOfTheirRun
  <1> QED
    BY <1>1, <1>2, <1>3, <1>4, <1>5, <1>6, <1>7

\* A file that changes keeps it.
LEMMA EditStep ==
  ASSUME RepoInv, NEW f \in File, Edit(f)
  PROVE  RepoInv'
  <1> USE RepositoryAssumption, IdleFacts
      DEF RepoInv, RepoTypeOK, Uploading, Working, kept, takeOut, Edit
  <1>1. RepoTypeOK'
    BY DEF Run, Content, Entry, Manifest, Taken
  <1>2. StoredInv'
    BY DEF StoredInv, SessionInv, Contents, Run, Manifest
  <1>3. SessionInv'
    BY DEF SessionInv, Run
  <1>4. EntryInv'
    BY DEF EntryInv, SessionInv, Run, Entry, Manifest
  <1>5. TakenInv'
    BY DEF TakenInv, CompleteOnly, Run, Manifest, Taken
  <1>6. KeptInv'
    BY DEF KeptInv, Newest, TakenInv, Run, Manifest, Taken
  <1>7. BackupsAreOfTheirRun'
    BY DEF BackupsAreOfTheirRun
  <1> QED
    BY <1>1, <1>2, <1>3, <1>4, <1>5, <1>6, <1>7

\* So does every step of the system.
LEMMA RepoStep == RepoInv /\ [RepoNext]_repoVars => RepoInv'
  <1> SUFFICES ASSUME RepoInv, [RepoNext]_repoVars PROVE RepoInv'
    OBVIOUS
  <1> USE IdleFacts
  <1>1. CASE UNCHANGED repoVars
    BY <1>1, QuietStep DEF repoVars, kept, RepoInv, RepoTypeOK
  <1>2. ASSUME NEW id \in 1..today, Walk(id) \/ Decrypt(id) PROVE RepoInv'
    BY <1>2, QuietStep DEF Walk, Decrypt, kept, RepoInv, RepoTypeOK
  <1>3. CASE Begin("backup", "publish") \/ Begin("prune", "open") \/ Begin("restore", "open")
    <2>1. run' \in Run /\ run'.pc # "upload" /\ run'.tree = {}
      BY <1>3 DEF Begin, Run
    <2> QED
      BY <1>3, <2>1, QuietStep DEF Begin, kept, RepoInv, RepoTypeOK
  <1>4. CASE Publish
    <2>1. run' \in Run /\ run'.pc # "upload" /\ run'.tree = {}
      BY <1>4 DEF Publish, Working, RepoInv, RepoTypeOK, SessionInv, Uploading, Run
    <2> QED
      BY <1>4, <2>1, QuietStep DEF Publish, RepoInv, RepoTypeOK
  <1>5. CASE CannotOpen \/ Ends
    BY <1>5, QuietStep DEF CannotOpen, Ends, kept, RepoInv, RepoTypeOK
  <1>6. CASE Extract \/ CopyFails \/ OtherClient \/ PassDay
    BY <1>6, QuietStep DEF Extract, CopyFails, OtherClient, PassDay, kept, RepoInv,
       RepoTypeOK
  <1>7. ASSUME NEW f \in File, Reuse(f) \/ Read(f) \/ SkipUnreadable(f) \/ Edit(f)
        PROVE  RepoInv'
    BY <1>7, ReuseStep, ReadStep, SkipStep, EditStep
  <1>8. CASE Open \/ Checkpoint \/ Commit \/ BackupFails \/ DeleteExpired \/ RunMaintenance
    BY <1>8, OpenStep, CheckpointStep, CommitStep, BackupFailsStep, DeleteExpiredStep,
       MaintenanceStep
  <1> QED
    BY <1>1, <1>2, <1>3, <1>4, <1>5, <1>6, <1>7, <1>8 DEF RepoNext, RunStep

\* The initial states satisfy it.
LEMMA RepoInitInv == RepoInit => RepoInv
  <1> SUFFICES ASSUME RepoInit PROVE RepoInv
    OBVIOUS
  <1> USE IdleFacts DEF RepoInit
  <1>1. RepoTypeOK
    BY DEF RepoTypeOK
  <1>2. StoredInv /\ SessionInv /\ EntryInv
    BY DEF StoredInv, SessionInv, EntryInv, Uploading
  <1>3. TakenInv /\ KeptInv /\ BackupsAreOfTheirRun
    BY DEF TakenInv, KeptInv, BackupsAreOfTheirRun, CompleteOnly, Uploading
  <1> QED
    BY <1>1, <1>2, <1>3 DEF RepoInv

-----------------------------------------------------------------------------
(* The theorems.                                                            *)

\* A backup whose manifest is there is whole.
LEMMA KeptIsWhole ==
  ASSUME RepoInv, NEW t \in taken,
         t.man \in Newest({u.man : u \in taken}) \/ t.man.start >= today - Keep
  PROVE  Whole(t.man)
  BY DEF RepoInv, KeptInv, StoredInv, Whole

\* Prunes, checkpoints, killed runs and the collection of contents leave the
\* newest backup restorable, however old it is and however many files it has.
THEOREM NewestBackupSurvives == RepoSpec => []LastCopySurvives
  <1>1. RepoInv => LastCopySurvives
    BY KeptIsWhole DEF LastCopySurvives
  <1> QED
    BY <1>1, RepoInitInv, RepoStep, PTL DEF RepoSpec

\* They leave all the backups inside the retention window restorable, for any
\* window and although kopia's own policy counts.
THEOREM WindowIsKept == RepoSpec => []NothingInWindowIsLost
  <1>1. RepoInv => NothingInWindowIsLost
    BY KeptIsWhole DEF NothingInWindowIsLost
  <1> QED
    BY <1>1, RepoInitInv, RepoStep, PTL DEF RepoSpec

\* A backup has every file of its Space, as it was when the walk began or later.
THEOREM BackupsAreComplete == RepoSpec => []BackupsAreOfTheirRun
  <1>1. RepoInv => BackupsAreOfTheirRun
    BY DEF RepoInv
  <1> QED
    BY <1>1, RepoInitInv, RepoStep, PTL DEF RepoSpec

\* Restores and Take-Outs report nothing but whole backups.
THEOREM WholeTreesLeave == RepoSpec => []OnlyWholeTreesLeave
  <1>1. RepoInit => OnlyWholeTreesLeave
    BY DEF RepoInit, OnlyWholeTreesLeave
  <1>2. RepoInv /\ OnlyWholeTreesLeave /\ [RepoNext]_repoVars => OnlyWholeTreesLeave'
    <2> SUFFICES ASSUME RepoInv, OnlyWholeTreesLeave, [RepoNext]_repoVars
                 PROVE  OnlyWholeTreesLeave'
      OBVIOUS
    <2>1. CASE UNCHANGED repoVars
      BY <2>1 DEF repoVars, OnlyWholeTreesLeave, Nothing
    <2>2. CASE given' = Nothing
      BY <2>2 DEF OnlyWholeTreesLeave
    <2>3. ASSUME NEW id \in 1..today, Walk(id) \/ Decrypt(id) PROVE OnlyWholeTreesLeave'
      <3>1. PICK m \in FindManifest(manifests, id) :
               given' = [id |-> id, files |-> Contents(m.tree)] /\ taken' = taken
        BY <2>3 DEF Walk, Decrypt
      <3>2. PICK t \in taken : t.man = m
        BY <3>1 DEF FindManifest, RepoInv, TakenInv
      <3>3. t.man.start = id
        BY <3>1, <3>2 DEF FindManifest
      <3> QED
        BY <3>1, <3>2, <3>3 DEF OnlyWholeTreesLeave
    <2> QED
      BY <2>1, <2>2, <2>3 DEF RepoNext
  <1> QED
    BY <1>1, <1>2, RepoInitInv, RepoStep, PTL DEF RepoSpec

=============================================================================
