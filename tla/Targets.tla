------------------------------- MODULE Targets -------------------------------
(***************************************************************************)
(* Backup targets, who may use them, and the Spaces bound to them:         *)
(* internal/targets, internal/spacecfg and their handlers in internal/api  *)
(* (admintargets.go, backup.go, schedule.go).                              *)
(*                                                                         *)
(* Handlers run concurrently and the store has neither transactions nor    *)
(* compare-and-set: a step is one call of the store, on the newest version *)
(* of one record (AppendOnly says how a record is kept).  Input a handler  *)
(* refuses is a guard here and not a step.  A call that fails, or whose    *)
(* client or process goes away, may have done its work all the same, at    *)
(* once or much later: its request is then answered but not over.          *)
(***************************************************************************)
EXTENDS Integers, FiniteSets

CONSTANTS
    Target, Space, User,
    Request,        \* slots for requests in flight
    None,
    Creds,          \* backup key pairs an admin may enter
    Names,          \* what else a target's form holds
    Audiences,      \* grant lists an admin may send
    Days, MinDays,  \* retention windows in days, and the floor under them
    Schedules,
    Seeded,         \* the id of the target seeded at the first start
    SeedMaint,      \* whether it is configured with a maintenance pair
    MaxOps,         \* bound: requests, restarts and rotations
    MaxFaults       \* bound: store calls that fail

ASSUME TargetsAssumption ==
    /\ Seeded \in Target /\ SeedMaint \in {"absent", "full"}
    /\ None \notin Target \cup Space \cup User \cup Creds \cup Request
    /\ None \notin Names /\ None \notin Days /\ None \notin Schedules /\ None \notin BOOLEAN
    /\ Target \cap Space = {}
    /\ Days \subseteq Int /\ MinDays \in Nat \ {0}
    /\ MaxOps \in Nat /\ MaxFaults \in Nat

\* What is stored of a target and of a Space; no record is taken for none.
Keys == {"old", "new"}
Sealed == [creds : Creds, sep : BOOLEAN, key : Keys]
Record == [name : Names, sealed : Sealed, says : BOOLEAN]
Config == [target : Target, days : Days, enabled : BOOLEAN, schedule : Schedules \cup {""}]

ASSUME RecordAssumption == None \notin Record /\ None \notin Config

VARIABLES
    target,     \* the newest version of each target, None when there is none
    grants,     \* the audience of each target
    config,     \* the configuration of each Space
    minted,     \* the target ids used so far
    up,         \* the service is running
    twKey,      \* the target-wrap key it was started with
    seed,       \* where the seeding of a start is
    req,        \* the requests in flight
    sweeping,   \* a rotation is rewriting the targets (Rotation)
    ops, faults,
    want,       \* history: what the edits so far amount to, one after another
    calm,       \* history: the records and audiences no two edits of which have overlapped
    across,     \* history: the deletions each Space's binding, or one it was
                \* copied from, overlapped
    meant,      \* history: the audience last chosen for each target
    leftover    \* history: the targets removed whose grants were neither removed nor
                \* replaced since

targetVars == <<target, grants, config, minted, up, twKey, seed, req, sweeping,
                ops, faults, want, calm, across, meant, leftover>>

-----------------------------------------------------------------------------
(* Grants, credentials and retention windows.                               *)

Idle == [op |-> "none"]
AllUsers == [scope |-> "all_users", user |-> None, space |-> None]

\* Exactly the field its scope defines.
Validate(g) ==
    \/ g.scope = "all_users" /\ g.user = None /\ g.space = None
    \/ g.scope = "user" /\ g.user \in User /\ g.space = None
    \/ g.scope = "space" /\ g.space \in Space /\ g.user = None

GrantsAllow(list, u, s) ==
    \E g \in list : \/ g.scope = "all_users"
                    \/ g.scope = "user" /\ g.user = u
                    \/ g.scope = "space" /\ g.space = s

\* A body carries both pairs, the backup pair alone or, on an update, neither.
ValidBody(in, requireCredentials) ==
    /\ in.creds = None => in.maint = "absent" /\ ~requireCredentials
    /\ in.creds # "half" /\ in.maint # "half"

\* What is sealed is the whole set; sep says that it has a maintenance pair.
Seal(in, key) == [creds |-> in.creds, sep |-> in.maint = "full", key |-> key]
Body == [name : Names, creds : Creds \cup {None, "half"}, maint : {"absent", "half", "full"}]

ValidDays(d) == d >= 0 /\ (d > 0 => d >= MinDays)

-----------------------------------------------------------------------------
(* Requests.                                                                *)

ConfigOps == {"put", "patch", "schedule"}
InFlight == {q \in Request : req[q] # Idle}
Writes == {"write", "remove", "ungrant"}
At(q, ops_, pc) == req[q] # Idle /\ req[q].op \in ops_ /\ req[q].pc = pc
Others(q, x) == {p \in InFlight \ {q} : req[p].x = x}

\* The targets whose deletion is past its count.
Deleting == {req[q].x : q \in {p \in InFlight : At(p, {"delete"}, "remove")}}

\* A request for record x starts at pc, in a process that seals with twKey.  It
\* is alone as long as no other request for x, and no rotation, is under way with
\* it: one that is gone is, until its write has landed or is lost.
Begin(q, op, pc, x, in) ==
    /\ up /\ seed = "off" /\ req[q] = Idle /\ ops < MaxOps
    /\ ops' = ops + 1
    /\ req' = [p \in Request |->
                 IF p = q THEN [op |-> op, pc |-> pc, x |-> x, in |-> in, got |-> None,
                                key |-> twKey, gone |-> FALSE,
                                alone |-> Others(q, x) = {} /\ ~(x \in Target /\ sweeping),
                                across |-> Deleting]
                 ELSE IF p \in Others(q, x) THEN [req[p] EXCEPT !.alone = FALSE]
                 ELSE req[p]]
    /\ UNCHANGED <<target, grants, config, minted, up, twKey, seed, sweeping, faults,
                   want, calm, across, meant, leftover>>

Goto(q, pc, got) == req' = [req EXCEPT ![q].pc = pc, ![q].got = got]
End(q) == req' = [req EXCEPT ![q] = Idle]

\* x now holds v as far as its editors know.
Edited(q, x, v) ==
    /\ want' = [want EXCEPT ![x] = v]
    /\ calm' = IF req[q].alone THEN calm ELSE calm \ {x}

\* History: a record after an edit that names some of its fields.
Merged(old, in) ==
    [f \in DOMAIN old |-> IF f \in DOMAIN in /\ in[f] # None THEN in[f] ELSE old[f]]

stepVars == <<minted, up, twKey, seed, sweeping, ops, faults>>

\* newTargetID: an id nobody has had.
BeginCreate(q) ==
    \E in \in Body, t \in Target \ (minted \cup {Seeded}) :
        /\ ValidBody(in, TRUE)
        /\ \A p \in InFlight : req[p].op = "create" => req[p].x # t
        /\ Begin(q, "create", "write", t, in)

BeginUpdate(q) ==
    \E in \in Body, t \in Target : ValidBody(in, FALSE) /\ Begin(q, "update", "load", t, in)

BeginDelete(q) == \E t \in Target : Begin(q, "delete", "count", t, None)

BeginGrants(q) ==
    \E list \in Audiences, t \in Target :
        (\A g \in list : Validate(g)) /\ Begin(q, "grants", "load", t, list)

BeginPut(q) ==
    \E s \in Space, t \in Target, d \in Days, e \in BOOLEAN :
        ValidDays(d) /\ Begin(q, "put", "target", s, [target |-> t, days |-> d, enabled |-> e])

BeginPatch(q) ==
    \E s \in Space, t \in Target \cup {None}, d \in Days \cup {None}, e \in BOOLEAN \cup {None} :
        /\ d # None => ValidDays(d)
        /\ Begin(q, "patch", "read", s, [target |-> t, days |-> d, enabled |-> e])

BeginSchedule(q) ==
    \E s \in Space, c \in Schedules, e \in BOOLEAN :
        Begin(q, "schedule", "read", s, [schedule |-> c, enabled |-> e])

\* loadTarget; a target that is not there is a 404.
Load(q) ==
    /\ At(q, {"update", "grants"}, "load")
    /\ LET t == req[q].x IN
         IF target[t] = None THEN End(q)
         ELSE Goto(q, IF req[q].op = "update" THEN "reread" ELSE "write",
                   [says |-> target[t].says])
    /\ UNCHANGED <<target, grants, config, want, calm, across, meant, leftover, stepVars>>

\* UpdateTarget reads the record again, for the credentials it keeps.
Reread(q) ==
    /\ At(q, {"update"}, "reread")
    /\ LET t == req[q].x IN
         IF target[t] = None THEN End(q)
         ELSE Goto(q, "write", [says |-> req[q].got.says, sealed |-> target[t].sealed])
    /\ UNCHANGED <<target, grants, config, want, calm, across, meant, leftover, stepVars>>

\* Mutant: an update without credentials stores a record without any.
ForgetsCreds(q, kept) ==
    LET in == req[q].in IN
    [name |-> in.name, sealed |-> Seal(in, req[q].key), says |-> in.maint = "full"]

\* The record an edit stores, given the credentials and the flag it keeps.
Updated(q, kept) ==
    LET in == req[q].in IN
    [name |-> in.name,
     sealed |-> IF in.creds = None THEN kept.sealed ELSE Seal(in, req[q].key),
     says |-> IF in.creds = None THEN kept.says ELSE in.maint = "full"]

\* A target deleted since it was read comes back: an append asks nothing.
WriteTarget(q) ==
    /\ At(q, {"create", "update"}, "write")
    /\ LET t == req[q].x IN
         /\ target' = [target EXCEPT ![t] = Updated(q, req[q].got)]
         /\ minted' = minted \cup {t}
         /\ Edited(q, t, IF req[q].in.creds # None \/ want[t] = None
                         THEN Updated(q, req[q].got) ELSE Merged(want[t], req[q].in))
    /\ End(q)
    /\ UNCHANGED <<grants, config, across, meant, leftover, up, twKey, seed, sweeping, ops,
                   faults>>

\* countSpacesUsingTarget: a target in use is not deleted.
CountSpaces(q) ==
    /\ At(q, {"delete"}, "count")
    /\ LET t == req[q].x IN
         IF \E s \in Space : config[s] # None /\ config[s].target = t THEN End(q)
         ELSE req' = [p \in Request |->
                        IF p = q THEN [req[p] EXCEPT !.pc = "remove"]
                        ELSE IF p \in InFlight THEN [req[p] EXCEPT !.across = @ \cup {t}]
                        ELSE req[p]]
    /\ UNCHANGED <<target, grants, config, want, calm, across, meant, leftover, stepVars>>

\* DeleteAll; one that is gone has listed what it removes, and does not go on.
RemoveTarget(q) ==
    /\ At(q, {"delete"}, "remove")
    /\ LET t == req[q].x IN
         /\ req[q].gone => target[t] = req[q].got
         /\ IF target[t] = None \/ req[q].gone THEN End(q) ELSE Goto(q, "ungrant", None)
         /\ target' = [target EXCEPT ![t] = None]
         /\ Edited(q, t, None)
         /\ IF target[t] = None THEN UNCHANGED <<meant, leftover>>
            ELSE /\ meant' = [meant EXCEPT ![t] = {}]
                 /\ leftover' = leftover \cup {t}
    /\ UNCHANGED <<grants, config, across, stepVars>>

\* The audience of t has been removed, or replaced as a whole.
Settled(q, t) ==
    /\ leftover' = leftover \ {t}
    /\ calm' = IF req[q].alone THEN calm ELSE calm \ {t}

RemoveGrants(q) ==
    /\ At(q, {"delete"}, "ungrant")
    /\ req[q].gone => grants[req[q].x] = req[q].got.list
    /\ grants' = [grants EXCEPT ![req[q].x] = {}]
    /\ Settled(q, req[q].x)
    /\ End(q)
    /\ UNCHANGED <<target, config, want, across, meant, stepVars>>

\* Mutant: the new grants are put beside the old ones.
AddGrants(q) ==
    /\ At(q, {"grants"}, "write")
    /\ grants' = [grants EXCEPT ![req[q].x] = @ \cup req[q].in]
    /\ meant' = [meant EXCEPT ![req[q].x] = req[q].in]
    /\ Settled(q, req[q].x)
    /\ End(q)
    /\ UNCHANGED <<target, config, want, across, stepVars>>

\* ReplaceGrants: the whole audience in one append.
WriteGrants(q) ==
    /\ At(q, {"grants"}, "write")
    /\ grants' = [grants EXCEPT ![req[q].x] = req[q].in]
    /\ meant' = [meant EXCEPT ![req[q].x] = req[q].in]
    /\ Settled(q, req[q].x)
    /\ End(q)
    /\ UNCHANGED <<target, config, want, across, stepVars>>

\* Mutant: MayUse asks for the grants alone.
NoTargetCheck(q) ==
    /\ At(q, {"put", "patch"}, "target")
    /\ Goto(q, "grants", req[q].got)
    /\ UNCHANGED <<target, grants, config, want, calm, across, meant, leftover, stepVars>>

\* MayUse reads the target, then its grants.
MayUseTarget(q) ==
    /\ At(q, {"put", "patch"}, "target")
    /\ IF target[req[q].in.target] = None THEN End(q) ELSE Goto(q, "grants", req[q].got)
    /\ UNCHANGED <<target, grants, config, want, calm, across, meant, leftover, stepVars>>

MayUseGrants(q) ==
    /\ At(q, {"put", "patch"}, "grants")
    /\ \E u \in User :
         IF ~GrantsAllow(grants[req[q].in.target], u, req[q].x) THEN End(q)
         ELSE Goto(q, IF req[q].op = "put" THEN "read" ELSE "write", req[q].got)
    /\ UNCHANGED <<target, grants, config, want, calm, across, meant, leftover, stepVars>>

\* A schedule, and a patch without a target, bind the Space to what they read.
KeepsTarget(r) == r.op = "schedule" \/ (r.op = "patch" /\ r.in.target = None)

\* Only PUT goes on without a configuration; PATCH checks a new target next.
\* History: what is written back was bound across the same deletions.
ReadConfig(q) ==
    /\ At(q, ConfigOps, "read")
    /\ LET r == req[q] IN
         IF r.op # "put" /\ config[r.x] = None THEN End(q)
         ELSE req' = [req EXCEPT
                ![q] = [r EXCEPT
                   !.pc = IF r.op = "patch" /\ r.in.target # None THEN "target" ELSE "write",
                   !.got = config[r.x],
                   !.across = IF KeepsTarget(r) THEN @ \cup across[r.x] ELSE @]]
    /\ UNCHANGED <<target, grants, config, want, calm, across, meant, leftover, stepVars>>

\* PUT keeps the schedule, PATCH what it does not name, a schedule the rest.
Configured(q, old) ==
    LET in == req[q].in IN
    CASE req[q].op = "put" ->
           [target |-> in.target, days |-> in.days, enabled |-> in.enabled,
            schedule |-> IF old = None THEN "" ELSE old.schedule]
      [] req[q].op = "patch" ->
           [old EXCEPT !.target = IF in.target = None THEN @ ELSE in.target,
                       !.days = IF in.days = None THEN @ ELSE in.days,
                       !.enabled = IF in.enabled = None THEN @ ELSE in.enabled]
      [] req[q].op = "schedule" ->
           [old EXCEPT !.schedule = in.schedule, !.enabled = in.enabled]

WriteConfig(q) ==
    /\ At(q, ConfigOps, "write")
    /\ LET s == req[q].x
           c == Configured(q, req[q].got)
       IN  /\ config' = [config EXCEPT ![s] = c]
           /\ across' = IF config[s] # None /\ config[s].target = c.target THEN across
                        ELSE [across EXCEPT ![s] = req[q].across]
           /\ Edited(q, s, IF want[s] = None THEN c ELSE Merged(want[s], req[q].in))
    /\ End(q)
    /\ UNCHANGED <<target, grants, meant, leftover, stepVars>>

\* A request that has been answered, or whose process is no more, with its write
\* still on the way; a deletion goes by what it has listed.
Left(q) ==
    [req[q] EXCEPT !.gone = TRUE,
                   !.got = IF req[q].op # "delete" \/ req[q].gone THEN @
                           ELSE IF req[q].pc = "remove" THEN target[req[q].x]
                           ELSE [list |-> grants[req[q].x]]]

\* The store call a request is at fails, or its client goes away.
Abandon(q) ==
    /\ req[q] # Idle /\ ~req[q].gone /\ faults < MaxFaults
    /\ faults' = faults + 1
    /\ \/ End(q)
       \/ req[q].pc \in Writes /\ req' = [req EXCEPT ![q] = Left(q)]
    /\ UNCHANGED <<target, grants, config, minted, up, twKey, seed, sweeping, ops,
                   want, calm, across, meant, leftover>>

\* A write on the way is lost, or lands under a name that is no longer the newest.
Lose(q) ==
    /\ req[q] # Idle /\ req[q].gone
    /\ End(q)
    /\ UNCHANGED <<target, grants, config, want, calm, across, meant, leftover, stepVars>>

-----------------------------------------------------------------------------
(* Stopping and starting the service, and the seeding of an empty store.    *)

Stop ==
    /\ up
    /\ up' = FALSE /\ seed' = "off"
    /\ \E late \in SUBSET {q \in InFlight : req[q].pc \in Writes} :
          req' = [q \in Request |-> IF q \in late THEN Left(q) ELSE Idle]
    /\ UNCHANGED <<target, grants, config, minted, twKey, sweeping, ops, faults,
                   want, calm, across, meant, leftover>>

Start ==
    /\ ~up /\ ops < MaxOps
    /\ ops' = ops + 1
    /\ up' = TRUE /\ twKey' \in Keys
    /\ seed' = "list"
    /\ UNCHANGED <<target, grants, config, minted, req, sweeping, faults,
                   want, calm, across, meant, leftover>>

\* Bootstrap: only when it is enabled and the store holds no target.
SeedList ==
    /\ up /\ seed = "list"
    /\ seed' \in {"off"} \cup (IF \A t \in Target : target[t] = None THEN {"create"} ELSE {})
    /\ UNCHANGED <<target, grants, config, minted, up, twKey, req, sweeping, ops, faults,
                   want, calm, across, meant, leftover>>

SeedCreate ==
    /\ up /\ seed = "create"
    /\ \E n \in Names, c \in Creds :
         LET t == [name |-> n, sealed |-> Seal([creds |-> c, maint |-> SeedMaint], twKey),
                   says |-> SeedMaint = "full"]
         IN  /\ target' = [target EXCEPT ![Seeded] = t]
             /\ want' = [want EXCEPT ![Seeded] = t]
    /\ minted' = minted \cup {Seeded}
    /\ calm' = IF sweeping \/ Others(None, Seeded) # {} THEN calm \ {Seeded} ELSE calm
    /\ req' = [q \in Request |->
                 IF q \in Others(None, Seeded) THEN [req[q] EXCEPT !.alone = FALSE] ELSE req[q]]
    /\ seed' = "grant"
    /\ UNCHANGED <<grants, config, up, twKey, sweeping, ops, faults, across, meant, leftover>>

\* PutGrant, whose read and append are one step here, adds to the list that is
\* there, whoever left it; what is meant is that the target is for all users.
SeedGrant ==
    /\ up /\ seed = "grant"
    /\ grants' = [grants EXCEPT ![Seeded] = @ \cup {AllUsers}]
    /\ meant' = [meant EXCEPT ![Seeded] = {AllUsers}]
    /\ seed' = "off"
    /\ UNCHANGED <<target, config, minted, up, twKey, req, sweeping, ops, faults,
                   want, calm, across, leftover>>

-----------------------------------------------------------------------------
TargetInit ==
    /\ \E c \in Creds, n \in Names :
         target \in {[t \in Target |-> None],
                     [t \in Target |-> IF t = Seeded
                        THEN [name |-> n, sealed |-> [creds |-> c, sep |-> FALSE, key |-> "old"],
                              says |-> FALSE]
                        ELSE None]}
    /\ minted = {t \in Target : target[t] # None}
    /\ grants = [t \in Target |-> IF target[t] = None THEN {} ELSE {AllUsers}]
    /\ config = [s \in Space |-> None]
    /\ up = TRUE /\ twKey = "old" /\ seed = "list"
    /\ req = [q \in Request |-> Idle]
    /\ sweeping = FALSE /\ ops = 0 /\ faults = 0
    /\ want = [x \in Target \cup Space |-> IF x \in Target THEN target[x] ELSE None]
    /\ calm = Target \cup Space
    /\ across = [s \in Space |-> {}]
    /\ meant = grants
    /\ leftover = {}

BeginRequest(q) ==
    \/ BeginCreate(q) \/ BeginUpdate(q) \/ BeginDelete(q) \/ BeginGrants(q)
    \/ BeginPut(q) \/ BeginPatch(q) \/ BeginSchedule(q)

RequestStep(q) ==
    \/ Load(q) \/ Reread(q) \/ WriteTarget(q)
    \/ CountSpaces(q) \/ RemoveTarget(q) \/ RemoveGrants(q) \/ WriteGrants(q)
    \/ MayUseTarget(q) \/ MayUseGrants(q) \/ ReadConfig(q) \/ WriteConfig(q)
    \/ Abandon(q) \/ Lose(q)

TargetNext ==
    \/ \E q \in Request : BeginRequest(q) \/ RequestStep(q)
    \/ Stop \/ Start \/ SeedList \/ SeedCreate \/ SeedGrant

=============================================================================
