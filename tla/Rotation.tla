------------------------------ MODULE Rotation ------------------------------
(***************************************************************************)
(* Replacing a wrapping key: internal/rotate, cmd/backupd/rotate.go and    *)
(* the key store's side of it (internal/keystore), next to the service     *)
(* whose targets it rewrites (Targets).                                    *)
(*                                                                         *)
(* rotate-srw re-wraps the server envelope of every Space, rotate-tw the   *)
(* credentials of every target, record by record.  A command may fail or   *)
(* be killed after any call and be run again; what keeps the service       *)
(* stopped meanwhile is the operator's word and a check for leases.        *)
(***************************************************************************)
EXTENDS Targets

VARIABLES
    srw,        \* the versioned server envelope of each Space
    legacy,     \* the one in a record from before versioning
    rot,        \* the command under way
    honest,     \* history: the service has been down since the command began, and
                \* no write of its requests was on the way then
    moved       \* history: the commands that ended well since a start

rotVars == <<srw, legacy, rot, honest, moved>>
custodyVars == <<targetVars, rotVars>>

NoCommand == [cmd |-> "none"]

\* The data key of a Space is its own: what it is wrapped with changes.
Envelope == [dk : Space, key : Keys]
Wrapped(s, key) == [dk |-> s, key |-> key]

ASSUME EnvelopeAssumption == None \notin Envelope

-----------------------------------------------------------------------------
(* The key store's reads.                                                   *)

\* GetSRW falls back to the record from before versioning.
GetSRW(s) == IF srw[s] # None THEN srw[s] ELSE legacy[s]

\* Mutant: the ids of the versioned envelopes alone.
VersionedSpaces == {s \in Space : srw[s] # None}

\* Spaces lists the ids of both layouts; those with a recovery envelope alone,
\* which SRW skips, are left out here.
EnvelopeSpaces == {s \in Space : srw[s] # None \/ legacy[s] # None}

-----------------------------------------------------------------------------
(* A command.                                                               *)

\* -service-stopped was passed, truly or not, and requireIdle found no lease,
\* which says little: a service between two runs holds none either.
RotateBegin(cmd, todo) ==
    /\ rot = NoCommand /\ ops < MaxOps
    /\ ops' = ops + 1
    /\ rot' = [cmd |-> cmd, todo |-> todo, list |-> target, item |-> None, got |-> None]
    /\ honest' = (~up /\ InFlight = {})
    /\ UNCHANGED <<target, grants, config, minted, up, twKey, seed, faults, want,
                   across, meant, leftover, srw, legacy, moved>>

RotateSRW == RotateBegin("srw", EnvelopeSpaces) /\ UNCHANGED <<sweeping, req, calm>>

\* ListTargets: the records are rewritten as they are now.
RotateTW ==
    /\ RotateBegin("tw", {t \in Target : target[t] # None})
    /\ sweeping' = TRUE
    /\ req' = [q \in Request |-> IF req[q] = Idle THEN Idle ELSE [req[q] EXCEPT !.alone = FALSE]]
    /\ UNCHANGED calm

\* SRW reads an envelope; one on the new key already is left alone.
ReadEnvelope ==
    /\ rot # NoCommand /\ rot.cmd = "srw" /\ rot.item = None
    /\ \E s \in rot.todo :
         rot' = IF GetSRW(s).key = "new" THEN [rot EXCEPT !.todo = @ \ {s}]
                ELSE [rot EXCEPT !.item = s, !.got = GetSRW(s)]
    /\ UNCHANGED <<targetVars, srw, legacy, honest, moved>>

PutSRW ==
    /\ rot # NoCommand /\ rot.cmd = "srw" /\ rot.item # None
    /\ srw' = [srw EXCEPT ![rot.item] = [rot.got EXCEPT !.key = "new"]]
    /\ rot' = [rot EXCEPT !.todo = @ \ {rot.item}, !.item = None]
    /\ UNCHANGED <<targetVars, legacy, honest, moved>>

\* The new seal of a record's credentials, unless they are on the new key.
Resealed(rec) == [rec EXCEPT !.sealed.key = "new"]

\* TW re-seals the listed record and stores it; UpdateTarget, whose read and
\* append are one step here, refuses one that is gone, which ends the command.
ResealTarget ==
    /\ rot # NoCommand /\ rot.cmd = "tw"
    /\ \E t \in rot.todo :
         LET rec == rot.list[t] IN
         \/ /\ rec.sealed.key = "new"
            /\ rot' = [rot EXCEPT !.todo = @ \ {t}]
            /\ UNCHANGED targetVars
         \/ /\ rec.sealed.key = "old" /\ target[t] # None
            /\ target' = [target EXCEPT ![t] = Resealed(rec)]
            /\ want' = [want EXCEPT ![t] = IF @ = None THEN @ ELSE Resealed(@)]
            /\ calm' = IF Others(None, t) # {} \/ ~honest THEN calm \ {t} ELSE calm
            /\ rot' = [rot EXCEPT !.todo = @ \ {t}]
            /\ UNCHANGED <<grants, config, minted, up, twKey, seed, req, sweeping, ops,
                           faults, across, meant, leftover>>
    /\ UNCHANGED <<srw, legacy, honest, moved>>

RotateEnd ==
    /\ rot # NoCommand /\ rot.todo = {}
    /\ rot' = NoCommand /\ sweeping' = FALSE
    /\ moved' = IF honest THEN moved \cup {rot.cmd} ELSE moved
    /\ UNCHANGED <<target, grants, config, minted, up, twKey, seed, req, ops, faults, want,
                   calm, across, meant, leftover, srw, legacy, honest>>

\* A call fails, the timeout passes, the operator interrupts it, or a listed
\* target is gone.
RotateAborts ==
    /\ rot # NoCommand /\ rot.todo # {}
    /\ rot' = NoCommand /\ sweeping' = FALSE
    /\ UNCHANGED <<target, grants, config, minted, up, twKey, seed, req, ops, faults, want,
                   calm, across, meant, leftover, srw, legacy, honest, moved>>

-----------------------------------------------------------------------------
\* The service's steps; starting it ends what an honest operator promised.
ServiceStep ==
    /\ TargetNext
    /\ honest' = (honest /\ ~up')
    /\ moved' = IF up' /\ ~up THEN {} ELSE moved
    /\ UNCHANGED <<srw, legacy, rot>>

CustodyInit ==
    /\ TargetInit
    /\ srw \in [Space -> {None} \cup {Wrapped(s, "old") : s \in Space}]
    /\ legacy \in [Space -> {None} \cup {Wrapped(s, "old") : s \in Space}]
    /\ \A s \in Space : \A e \in {srw[s], legacy[s]} : e # None => e.dk = s
    /\ rot = NoCommand /\ honest = FALSE /\ moved = {}

CustodyNext ==
    \/ ServiceStep
    \/ RotateSRW \/ RotateTW \/ ReadEnvelope \/ PutSRW \/ ResealTarget
    \/ RotateEnd \/ RotateAborts

CustodySpec == CustodyInit /\ [][CustodyNext]_custodyVars

-----------------------------------------------------------------------------
(* Properties.                                                              *)

\* A Space is bound to a target that is gone only if the deletion of the
\* target overlapped the request that bound it, or the one whose binding an
\* edit of something else has read and written back: countSpacesUsingTarget
\* stops a deletion that would strand a Space, and MayUse a binding to a target
\* that is gone, whatever grants a half-failed deletion left behind.  A request
\* whose store call timed out overlaps what happens until its write has landed.
StrandedOnlyByARace ==
    \A s \in Space : config[s] # None =>
        target[config[s].target] # None \/ config[s].target \in across[s]

\* As long as no two edits of a record overlap, writes still on the way included,
\* it holds what those that took effect say, one after another: an update without
\* credentials keeps them and the flag that tells whether they are separated, PUT
\* keeps the schedule, PATCH keeps what it does not name, and a rotation changes
\* the key alone.
EditsAloneStand ==
    \A x \in calm : want[x] = IF x \in Target THEN target[x] ELSE config[x]

\* As long as no two of a target's edits overlap, its audience is the one last
\* chosen for it, and nobody's once it is deleted, through restarts and seedings
\* under the same id - but for a deletion that took the target and did not get
\* to the grants.
AudienceStands == \A t \in (calm \cap Target) \ leftover : grants[t] = meant[t]

\* "A grant that outlived its target would be a dangling permission"
\* (targets/state.go), and there is "no way for a crash to leave an audience
\* nobody chose" (admintargets.go): a service that serves has no target with
\* grants other than those last chosen for it - all users, whom a seeding that
\* broke off may have meant, apart.
NoAudienceNobodyChose ==
    (up /\ seed = "off") =>
        \A t \in calm \cap Target : target[t] # None => grants[t] \subseteq meant[t] \cup {AllUsers}

\* When a rotation says it is done and the service was stopped throughout,
\* no current record is left under the old key, however many earlier attempts broke
\* off half-way; and an envelope holds its Space's own data key at all times.
RotationMovesEverything ==
    /\ \A s \in Space : GetSRW(s) # None =>
         GetSRW(s).dk = s /\ ("srw" \in moved => GetSRW(s).key = "new")
    /\ "tw" \in moved =>
         \A t \in Target : target[t] # None => target[t].sealed.key = "new"

=============================================================================
