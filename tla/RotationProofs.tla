---------------------------- MODULE RotationProofs ----------------------------
(* Proofs about Targets and Rotation, for any targets, Spaces, users,       *)
(* requests, audiences, windows and bounds.                                 *)
EXTENDS Rotation, TLAPS

-----------------------------------------------------------------------------
(* The inductive invariant: the requests in flight.                         *)

TargetOps == {"create", "update", "delete", "grants"}
Pcs == {"write", "load", "reread", "count", "remove", "ungrant", "target", "grants", "read"}
PutInput == [target : Target, days : Days, enabled : BOOLEAN]
PatchInput == [target : Target \cup {None}, days : Days \cup {None}, enabled : BOOLEAN \cup {None}]
ScheduleInput == [schedule : Schedules, enabled : BOOLEAN]
Says == [says : BOOLEAN]
Kept == [says : BOOLEAN, sealed : Sealed]

\* What a request has been asked, and what it has read by the time it is there.
Shaped(r) ==
    /\ r \in [op : TargetOps \cup ConfigOps, pc : Pcs, x : Target \cup Space, in : {r.in},
              got : {r.got}, key : Keys, gone : BOOLEAN, alone : BOOLEAN,
              across : SUBSET Target]
    /\ r.gone => r.pc \in Writes
    /\ r.op \in TargetOps => r.x \in Target
    /\ r.op \in ConfigOps => r.x \in Space
    /\ r.op \in {"create", "update"} => r.in \in Body /\ r.in.creds \in Creds \cup {None}
    /\ r.op = "create" => r.in.creds # None /\ r.pc = "write" /\ r.x # Seeded
    /\ r.op = "grants" => r.in \in Audiences
    /\ r.op = "put" => r.in \in PutInput
    /\ r.op = "patch" => r.in \in PatchInput
    /\ r.op = "schedule" => r.in \in ScheduleInput
    /\ (r.op = "update" /\ r.pc = "reread") => r.got \in Says
    /\ (r.op = "update" /\ r.pc = "write") => r.got \in Kept
    /\ (r.op \in ConfigOps /\ r.pc = "write") => r.got \in Config \cup {None}
    /\ (r.op \in {"patch", "schedule"} /\ r.pc # "read") => r.got \in Config
    /\ (r.op = "patch" /\ r.pc \in {"target", "grants"}) => r.in.target # None

RequestsTyped ==
    /\ req = [q \in Request |-> req[q]]
    /\ \A q \in Request : req[q] = Idle \/ Shaped(req[q])

\* A request that is alone shares its record with no other one and no rotation.
ApartInv ==
    \A q \in Request : (req[q] # Idle /\ req[q].alone) =>
        /\ \A p \in Request \ {q} : req[p] # Idle => req[p].x # req[q].x
        /\ sweeping => req[q].x \notin Target

\* While the service is down, or seeds its first target, it serves nobody; the
\* writes of requests that are gone may still be on the way.
QuietInv ==
    /\ up \in BOOLEAN
    /\ (~up \/ seed # "off") => \A q \in Request : req[q] = Idle \/ req[q].gone

-----------------------------------------------------------------------------
(* ... what is stored, and who has read it.                                 *)

StoredTyped ==
    /\ target \in [Target -> Record \cup {None}]
    /\ config \in [Space -> Config \cup {None}]
    /\ twKey \in Keys
    /\ across \in [Space -> SUBSET Target]

\* The deletion of a target that is past its count overlaps every binding to it.
RemovalInv ==
    \A q \in Request : At(q, {"delete"}, "remove") =>
        /\ \A s \in Space :
              (config[s] # None /\ config[s].target = req[q].x) => req[q].x \in across[s]
        /\ \A p \in Request : (req[p] # Idle /\ req[p].op \in ConfigOps)
                                => req[q].x \in req[p].across

\* The target a request is about to bind a Space to.
Chooses(r) ==
    \/ r.op = "put" /\ r.pc \in {"grants", "read", "write"}
    \/ r.op = "patch" /\ r.pc \in {"grants", "write"} /\ r.in.target # None
Keeps(r) == r.pc = "write" /\ KeepsTarget(r)

\* It is there, or its deletion overlaps the request.
BindingInv ==
    \A q \in Request : req[q] # Idle =>
        /\ Chooses(req[q]) => (target[req[q].in.target] # None \/ req[q].in.target \in req[q].across)
        /\ Keeps(req[q]) => (target[req[q].got.target] # None \/ req[q].got.target \in req[q].across)

\* What a request that is alone has read still is so: tg and cf are the targets
\* and the configurations.
ReadFrom(r, tg, cf) ==
    /\ (r.op = "update" /\ r.pc \in {"reread", "write"}) =>
          tg[r.x] # None /\ r.got.says = tg[r.x].says
    /\ (r.op = "update" /\ r.pc = "write") => r.got.sealed = tg[r.x].sealed
    /\ (r.op = "grants" /\ r.pc = "write") => tg[r.x] # None
    /\ (r.op \in ConfigOps /\ r.pc = "write") => r.got = cf[r.x]
    /\ (r.op = "patch" /\ r.pc \in {"target", "grants"}) => r.got = cf[r.x]

Current(r) == ReadFrom(r, target, config)

CurrentInv == \A q \in Request : (req[q] # Idle /\ req[q].alone) => Current(req[q])

EditsTyped ==
    /\ want = [x \in Target \cup Space |-> want[x]]
    /\ calm \subseteq Target \cup Space

Granted == {AllUsers} \cup UNION Audiences
AudienceTyped ==
    /\ grants \in [Target -> SUBSET Granted]
    /\ meant \in [Target -> SUBSET Granted]

\* A target that is not there is meant for nobody, and neither is one whose
\* deletion has its grants still to remove.
NobodyMeant == \A t \in calm \cap Target : target[t] = None => meant[t] = {}

UngrantInv ==
    \A q \in Request : (At(q, {"delete"}, "ungrant") /\ req[q].alone) => meant[req[q].x] = {}

\* The seeding finds nothing under its id, unless a write on the way gets there
\* first.
SeedInv ==
    /\ Seeded \in calm =>
          /\ seed = "create" => target[Seeded] = None
          /\ seed = "grant" => target[Seeded] # None /\ meant[Seeded] = {}
    /\ seed = "grant" => \A q \in Request : (req[q] # Idle /\ req[q].x = Seeded) => ~req[q].alone

AudienceInv == AudienceTyped /\ NobodyMeant /\ UngrantInv /\ SeedInv /\ AudienceStands

-----------------------------------------------------------------------------
(* ... and the command under way.                                           *)

EnvelopesTyped ==
    /\ srw \in [Space -> Envelope \cup {None}] /\ legacy \in [Space -> Envelope \cup {None}]
    /\ \A s \in Space : GetSRW(s) # None => GetSRW(s).dk = s
    /\ honest \in BOOLEAN /\ sweeping \in BOOLEAN

Command == [cmd : {"srw", "tw"}, todo : SUBSET (Space \cup Target),
            list : [Target -> Record \cup {None}], item : Space \cup {None},
            got : Envelope \cup {None}]

\* An envelope that is not on the new key is still to be done.
EnvelopeInv ==
    rot.cmd = "srw" =>
        /\ rot.todo \subseteq EnvelopeSpaces
        /\ rot.item # None => rot.item \in rot.todo /\ rot.got = GetSRW(rot.item)
        /\ \A s \in Space : GetSRW(s) # None => (s \in rot.todo \/ GetSRW(s).key = "new")

\* So is a target, and the list the command works from is what is stored, as
\* long as the service is down.
SweepInv ==
    rot.cmd = "tw" =>
        /\ sweeping
        /\ rot.todo \subseteq {t \in Target : rot.list[t] # None}
        /\ honest => /\ \A t \in rot.todo : target[t] = rot.list[t]
                     /\ \A t \in Target : target[t] # None
                          => (t \in rot.todo \/ target[t].sealed.key = "new")

CommandInv ==
    /\ rot = NoCommand \/ rot \in Command
    /\ honest => ~up /\ InFlight = {}
    /\ moved # {} => ~up /\ InFlight = {}
    /\ EnvelopeInv /\ SweepInv

CustodyInv ==
    /\ RequestsTyped /\ ApartInv /\ QuietInv
    /\ StoredTyped /\ RemovalInv /\ BindingInv /\ StrandedOnlyByARace
    /\ EditsTyped /\ CurrentInv /\ EditsAloneStand
    /\ AudienceInv
    /\ EnvelopesTyped /\ CommandInv /\ RotationMovesEverything

-----------------------------------------------------------------------------
(* How the requests move.                                                   *)

\* The request of another step, but for what its binding has overlapped.
Same(n, r) ==
    /\ n.op = r.op /\ n.x = r.x /\ n.in = r.in /\ n.alone = r.alone
    /\ r.across \subseteq n.across
    /\ n.pc = r.pc /\ n.got = r.got /\ n.gone = r.gone

\* Nor does its own step change what it is about.
Goes(n, r) ==
    /\ n.op = r.op /\ n.x = r.x /\ n.in = r.in /\ n.alone = r.alone
    /\ r.across \subseteq n.across /\ (r.gone => n.gone)

\* Nor does a request that is gone, but for what its deletion goes by.
Stays(n, r) ==
    /\ n.op = r.op /\ n.pc = r.pc /\ n.x = r.x /\ n.in = r.in /\ n.across = r.across
    /\ r.op # "delete" => n.got = r.got
    /\ n.alone => r.alone

StepOf(q) ==
    /\ req' = [p \in Request |-> req'[p]]
    /\ req[q] # Idle /\ Shaped(req[q])
    /\ req'[q] = Idle \/ (Shaped(req'[q]) /\ Goes(req'[q], req[q]))
    /\ \A p \in Request \ {q} : \/ req[p] = Idle /\ req'[p] = Idle
                                \/ /\ req[p] # Idle /\ Shaped(req'[p])
                                   /\ Same(req'[p], req[p])

\* A request is no idle slot.
LEMMA ShapedIsBusy == \A r : Shaped(r) => r # Idle
  BY DEF Shaped, TargetOps, ConfigOps, Idle

\* What two EXCEPTs make of a request.
LEMMA GotoMakes ==
  ASSUME NEW r, Shaped(r), NEW pc \in Pcs, NEW got
  PROVE  LET n == [r EXCEPT !.pc = pc, !.got = got] IN
         /\ n \in [op : TargetOps \cup ConfigOps, pc : Pcs, x : Target \cup Space, in : {n.in},
                   got : {n.got}, key : Keys, gone : BOOLEAN, alone : BOOLEAN,
                   across : SUBSET Target]
         /\ n.pc = pc /\ n.got = got /\ n.op = r.op /\ n.x = r.x /\ n.in = r.in
         /\ n.alone = r.alone /\ n.across = r.across /\ n.gone = r.gone
  BY DEF Shaped

\* A request that goes somewhere is there, with what it has read.
LEMMA GotoGoes ==
  ASSUME RequestsTyped, NEW q \in Request, req[q] # Idle, NEW pc \in Pcs, NEW got,
         Goto(q, pc, got)
  PROVE  req'[q].pc = pc /\ req'[q].got = got
  <1> DEFINE n == [req[q] EXCEPT !.pc = pc, !.got = got]
  <1>1. Shaped(req[q])
    BY DEF RequestsTyped
  <1>2. req' = [req EXCEPT ![q] = n]
    BY DEF Goto, RequestsTyped
  <1>3. n.pc = pc /\ n.got = got
    BY <1>1, GotoMakes
  <1> HIDE DEF n
  <1>4. req'[q] = n
    BY <1>2 DEF RequestsTyped
  <1> QED
    BY <1>3, <1>4

\* What a request that reads a configuration has read.
LEMMA ReadMakes ==
  ASSUME RequestsTyped, NEW q \in Request, Shaped(req[q]), ReadConfig(q), ~End(q)
  PROVE  LET r == req[q] IN
         /\ req'[q].pc = IF r.op = "patch" /\ r.in.target # None THEN "target" ELSE "write"
         /\ req'[q].got = config[r.x]
         /\ KeepsTarget(r) => req'[q].across = r.across \cup across[r.x]
  <1> DEFINE r == req[q]
  <1> DEFINE pc == IF r.op = "patch" /\ r.in.target # None THEN "target" ELSE "write"
  <1> DEFINE a == IF KeepsTarget(r) THEN r.across \cup across[r.x] ELSE r.across
  <1>1. req' = [req EXCEPT ![q] = [r EXCEPT !.pc = pc, !.got = config[r.x], !.across = a]]
    BY DEF ReadConfig
  <1> HIDE DEF pc, a
  <1>2. req'[q] = [r EXCEPT !.pc = pc, !.got = config[r.x], !.across = a]
    BY <1>1 DEF RequestsTyped
  <1>3. req'[q].pc = pc /\ req'[q].got = config[r.x] /\ req'[q].across = a
    BY <1>2 DEF Shaped
  <1> QED
    BY <1>3 DEF pc, a

\* A request that ends makes way for another.
LEMMA EndSteps ==
  ASSUME RequestsTyped, NEW q \in Request, req[q] # Idle, End(q)
  PROVE  StepOf(q) /\ req'[q] = Idle /\ \A p \in Request \ {q} : req'[p] = req[p]
  BY DEF RequestsTyped, End, StepOf, Same

\* A request that goes on to its next call keeps what it was asked for.
LEMMA GotoSteps ==
  ASSUME RequestsTyped, NEW q \in Request, req[q] # Idle, NEW pc \in Pcs, NEW got,
         Goto(q, pc, got),
         \A n : (/\ n \in [op : TargetOps \cup ConfigOps, pc : Pcs, x : Target \cup Space,
                           in : {n.in}, got : {n.got}, key : Keys, gone : BOOLEAN,
                           alone : BOOLEAN, across : SUBSET Target]
                 /\ n.pc = pc /\ n.got = got /\ n.op = req[q].op /\ n.x = req[q].x
                 /\ n.in = req[q].in /\ n.gone = req[q].gone) => Shaped(n)
  PROVE  /\ StepOf(q)
         /\ req'[q].pc = pc /\ req'[q].got = got /\ req'[q] # Idle
         /\ req'[q].across = req[q].across
         /\ \A p \in Request \ {q} : req'[p] = req[p]
  <1> DEFINE n == [req[q] EXCEPT !.pc = pc, !.got = got]
  <1>1. Shaped(req[q])
    BY DEF RequestsTyped
  <1>2. req' = [req EXCEPT ![q] = n]
    BY DEF Goto, RequestsTyped
  <1>3. /\ n \in [op : TargetOps \cup ConfigOps, pc : Pcs, x : Target \cup Space, in : {n.in},
                  got : {n.got}, key : Keys, gone : BOOLEAN, alone : BOOLEAN,
                  across : SUBSET Target]
        /\ n.pc = pc /\ n.got = got /\ n.op = req[q].op /\ n.x = req[q].x /\ n.in = req[q].in
        /\ n.alone = req[q].alone /\ n.across = req[q].across /\ n.gone = req[q].gone
    BY <1>1, GotoMakes
  <1> HIDE DEF n
  <1>4. Shaped(n) /\ Goes(n, req[q])
    BY <1>3 DEF Goes
  <1>5. req'[q] = n /\ \A p \in Request \ {q} : req'[p] = req[p]
    BY <1>2 DEF RequestsTyped
  <1>6. req' = [p \in Request |-> req'[p]]
    BY <1>2 DEF RequestsTyped
  <1>7. \A p \in Request \ {q} : req[p] # Idle => Shaped(req'[p]) /\ Same(req'[p], req[p])
    BY <1>5 DEF RequestsTyped, Same
  <1> QED
    BY <1>1, <1>3, <1>4, <1>5, <1>6, <1>7, ShapedIsBusy DEF StepOf

\* A Space that is counted for a deletion marks the requests under way.
LEMMA CountSteps ==
  ASSUME RequestsTyped, NEW q \in Request, CountSpaces(q)
  PROVE  /\ StepOf(q)
         /\ req'[q] # Idle =>
              /\ req'[q].pc = "remove"
              /\ \A s \in Space : ~(config[s] # None /\ config[s].target = req[q].x)
              /\ \A p \in Request : (req[p] # Idle /\ req[p].op \in ConfigOps)
                                      => req[q].x \in req'[p].across
  <1>1. req[q] # Idle /\ req[q].op = "delete" /\ req[q].pc = "count" /\ Shaped(req[q])
    BY DEF CountSpaces, At, RequestsTyped
  <1> DEFINE t == req[q].x
  <1>2. CASE \E s \in Space : config[s] # None /\ config[s].target = t
    BY <1>1, <1>2, EndSteps DEF CountSpaces
  <1>3. CASE ~\E s \in Space : config[s] # None /\ config[s].target = t
    <2>1. req' = [p \in Request |-> IF p = q THEN [req[p] EXCEPT !.pc = "remove"]
                                   ELSE IF p \in InFlight THEN [req[p] EXCEPT !.across = @ \cup {t}]
                                   ELSE req[p]]
      BY <1>3 DEF CountSpaces
    <2>2. t \in Target
      BY <1>1 DEF Shaped, TargetOps
    <2>3. req'[q] = [req[q] EXCEPT !.pc = "remove"]
      BY <2>1
    <2>4. Shaped(req'[q]) /\ Goes(req'[q], req[q]) /\ req'[q].pc = "remove"
      BY <1>1, <2>3 DEF Shaped, Goes, Pcs, Writes, ConfigOps
    <2>5. ASSUME NEW p \in Request \ {q}, req[p] # Idle
          PROVE  Shaped(req'[p]) /\ Same(req'[p], req[p]) /\ t \in req'[p].across
      <3>1. req'[p] = [req[p] EXCEPT !.across = @ \cup {t}] /\ Shaped(req[p])
        BY <2>1, <2>5 DEF InFlight, RequestsTyped
      <3> QED
        BY <2>2, <3>1 DEF Shaped, Same
    <2>6. \A p \in Request \ {q} : req[p] = Idle => req'[p] = Idle
      BY <2>1 DEF InFlight
    <2>7. StepOf(q)
      BY <1>1, <2>1, <2>4, <2>5, <2>6 DEF StepOf
    <2>8. req[q].op \notin ConfigOps
      BY <1>1 DEF ConfigOps
    <2> QED
      BY <1>3, <2>4, <2>5, <2>7, <2>8
  <1> QED
    BY <1>2, <1>3

\* What is left of a request that is gone.
LEMMA LeftMakes ==
  ASSUME RequestsTyped, NEW q \in Request, req[q] # Idle, req[q].pc \in Writes
  PROVE  /\ Shaped(Left(q)) /\ Stays(Left(q), req[q]) /\ Goes(Left(q), req[q]) /\ Left(q).gone
         /\ Left(q) # Idle
  <1> DEFINE got == IF req[q].op # "delete" \/ req[q].gone THEN req[q].got
                    ELSE IF req[q].pc = "remove" THEN target[req[q].x]
                    ELSE [list |-> grants[req[q].x]]
  <1> DEFINE n == Left(q)
  <1>1. Shaped(req[q])
    BY DEF RequestsTyped
  <1>2. n = [req[q] EXCEPT !.gone = TRUE, !.got = got]
    BY DEF Left
  <1>3. req[q].op # "delete" => got = req[q].got
    OBVIOUS
  <1> HIDE DEF got, n
  <1>4. /\ n \in [op : TargetOps \cup ConfigOps, pc : Pcs, x : Target \cup Space, in : {n.in},
                  got : {n.got}, key : Keys, gone : BOOLEAN, alone : BOOLEAN,
                  across : SUBSET Target]
        /\ n.op = req[q].op /\ n.pc = req[q].pc /\ n.x = req[q].x /\ n.in = req[q].in
        /\ n.got = got /\ n.gone /\ n.alone = req[q].alone /\ n.across = req[q].across
    BY <1>1, <1>2 DEF Shaped
  <1>5. Shaped(n)
    BY <1>1, <1>3, <1>4 DEF Shaped, ConfigOps
  <1> QED
    BY <1>3, <1>4, <1>5, ShapedIsBusy DEF n, Stays, Goes

\* One that is abandoned may be gone for good.
LEMMA LeftSteps ==
  ASSUME RequestsTyped, NEW q \in Request, Abandon(q), ~End(q)
  PROVE  /\ StepOf(q) /\ Stays(req'[q], req[q])
         /\ \A p \in Request \ {q} : req'[p] = req[p]
  <1>1. req[q] # Idle /\ req[q].pc \in Writes /\ req' = [req EXCEPT ![q] = Left(q)]
    BY DEF Abandon
  <1>2. /\ Shaped(Left(q)) /\ Stays(Left(q), req[q]) /\ Goes(Left(q), req[q])
        /\ Left(q) # Idle /\ Shaped(req[q])
    BY <1>1, LeftMakes DEF RequestsTyped
  <1>3. req'[q] = Left(q) /\ \A p \in Request \ {q} : req'[p] = req[p]
    BY <1>1 DEF RequestsTyped
  <1>4. req' = [p \in Request |-> req'[p]]
    BY <1>1 DEF RequestsTyped
  <1>5. \A p \in Request \ {q} : req[p] # Idle => Shaped(req'[p]) /\ Same(req'[p], req[p])
    BY <1>3 DEF RequestsTyped, Same
  <1> QED
    BY <1>1, <1>2, <1>3, <1>4, <1>5 DEF StepOf

\* Every step of a request is one of its own.
LEMMA RequestSteps ==
  ASSUME RequestsTyped, StoredTyped, NEW q \in Request, RequestStep(q)
  PROVE  StepOf(q)
  <1>0. req[q] # Idle
    BY DEF RequestStep, Load, Reread, WriteTarget, CountSpaces, RemoveTarget, RemoveGrants,
       WriteGrants, MayUseTarget, MayUseGrants, ReadConfig, WriteConfig, Abandon, Lose, At
  <1>1. Shaped(req[q])
    BY <1>0 DEF RequestsTyped
  <1>2. CASE End(q)
    BY <1>0, <1>2, EndSteps
  <1>3. CASE Load(q) /\ ~End(q)
    <2>1. /\ req[q].pc = "load" /\ req[q].op \in {"update", "grants"}
          /\ target[req[q].x] # None
          /\ Goto(q, IF req[q].op = "update" THEN "reread" ELSE "write",
                  [says |-> target[req[q].x].says])
      BY <1>3 DEF Load, At
    <2>2. [says |-> target[req[q].x].says] \in Says
      BY <1>1, <2>1 DEF Shaped, TargetOps, StoredTyped, Record, Says
    <2>3. CASE req[q].op = "update"
      <3>1. Goto(q, "reread", [says |-> target[req[q].x].says])
        BY <2>1, <2>3
      <3>2. /\ ~req[q].gone /\ req[q].x \in Target /\ "reread" \in Pcs
            /\ req[q].in \in Body /\ req[q].in.creds \in Creds \cup {None}
        BY <1>1, <2>1, <2>3 DEF Shaped, Pcs, Writes, TargetOps
      <3>3. ASSUME NEW n,
                   n \in [op : TargetOps \cup ConfigOps, pc : Pcs, x : Target \cup Space,
                          in : {n.in}, got : {n.got}, key : Keys, gone : BOOLEAN,
                          alone : BOOLEAN, across : SUBSET Target],
                   n.pc = "reread", n.got = [says |-> target[req[q].x].says],
                   n.op = req[q].op, n.x = req[q].x, n.in = req[q].in, n.gone = req[q].gone
            PROVE  Shaped(n)
        BY <2>2, <2>3, <3>2, <3>3 DEF Shaped, ConfigOps
      <3> QED
        BY <1>0, <3>1, <3>2, <3>3, GotoSteps
    <2>4. CASE req[q].op = "grants"
      <3>1. Goto(q, "write", [says |-> target[req[q].x].says])
        BY <2>1, <2>4
      <3> QED
        BY <1>0, <1>1, <2>2, <2>4, <3>1, GotoSteps DEF Shaped, Pcs, Writes, ConfigOps
    <2> QED
      BY <2>1, <2>3, <2>4
  <1>4. CASE Reread(q) /\ ~End(q)
    <2>1. /\ req[q].pc = "reread" /\ req[q].op = "update" /\ target[req[q].x] # None
          /\ Goto(q, "write", [says |-> req[q].got.says, sealed |-> target[req[q].x].sealed])
      BY <1>4 DEF Reread, At
    <2>2. [says |-> req[q].got.says, sealed |-> target[req[q].x].sealed] \in Kept
      BY <1>1, <2>1 DEF Shaped, TargetOps, StoredTyped, Record, Says, Kept
    <2> QED
      BY <1>0, <1>1, <2>1, <2>2, GotoSteps DEF Shaped, Pcs, Writes, ConfigOps
  <1>5. CASE CountSpaces(q)
    BY <1>5, CountSteps
  <1>6. CASE RemoveTarget(q) /\ ~End(q)
    <2>1. req[q].pc = "remove" /\ req[q].op = "delete" /\ Goto(q, "ungrant", None)
      BY <1>6 DEF RemoveTarget, At
    <2> QED
      BY <1>0, <1>1, <2>1, GotoSteps DEF Shaped, Pcs, Writes, ConfigOps
  <1>7. CASE MayUseTarget(q) /\ ~End(q)
    <2>1. req[q].pc = "target" /\ req[q].op \in {"put", "patch"} /\ Goto(q, "grants", req[q].got)
      BY <1>7 DEF MayUseTarget, At
    <2> QED
      BY <1>0, <1>1, <2>1, GotoSteps DEF Shaped, Pcs, Writes, ConfigOps
  <1>8. CASE MayUseGrants(q) /\ ~End(q)
    <2>1. /\ req[q].pc = "grants" /\ req[q].op \in {"put", "patch"}
          /\ Goto(q, IF req[q].op = "put" THEN "read" ELSE "write", req[q].got)
      BY <1>8 DEF MayUseGrants, At
    <2>2. CASE req[q].op = "put"
      <3>1. Goto(q, "read", req[q].got)
        BY <2>1, <2>2
      <3>2. ~req[q].gone /\ req[q].x \in Space /\ req[q].in \in PutInput /\ "read" \in Pcs
        BY <1>1, <2>1, <2>2 DEF Shaped, Pcs, Writes, ConfigOps
      <3>3. ASSUME NEW n,
                   n \in [op : TargetOps \cup ConfigOps, pc : Pcs, x : Target \cup Space,
                          in : {n.in}, got : {n.got}, key : Keys, gone : BOOLEAN,
                          alone : BOOLEAN, across : SUBSET Target],
                   n.pc = "read", n.op = req[q].op, n.x = req[q].x, n.in = req[q].in,
                   n.gone = req[q].gone
            PROVE  Shaped(n)
        BY <2>2, <3>2, <3>3 DEF Shaped, TargetOps
      <3> QED
        BY <1>0, <3>1, <3>2, <3>3, GotoSteps
    <2>3. CASE req[q].op = "patch"
      <3>1. Goto(q, "write", req[q].got)
        BY <2>1, <2>3
      <3>2. req[q].got \in Config
        BY <1>1, <2>1, <2>3 DEF Shaped, ConfigOps
      <3> QED
        BY <1>0, <1>1, <2>3, <3>1, <3>2, GotoSteps DEF Shaped, Pcs, Writes, ConfigOps
    <2> QED
      BY <2>1, <2>2, <2>3
  <1>9. CASE ReadConfig(q) /\ ~End(q)
    <2> DEFINE r == req[q]
    <2> DEFINE n == [r EXCEPT !.pc = IF r.op = "patch" /\ r.in.target # None THEN "target" ELSE "write",
                              !.got = config[r.x],
                              !.across = IF KeepsTarget(r) THEN @ \cup across[r.x] ELSE @]
    <2>1. /\ r.pc = "read" /\ r.op \in ConfigOps
          /\ ~(r.op # "put" /\ config[r.x] = None)
          /\ req' = [req EXCEPT ![q] = n]
      BY <1>9 DEF ReadConfig, At
    <2>2. r.x \in Space
      BY <1>1, <2>1 DEF Shaped
    <2>3. config[r.x] \in Config \cup {None} /\ (r.op # "put" => config[r.x] \in Config)
      BY <2>1, <2>2 DEF StoredTyped
    <2>4. across[r.x] \in SUBSET Target
      BY <2>2 DEF StoredTyped
    <2>5. Shaped(n)
      BY <1>1, <2>1, <2>3, <2>4 DEF Shaped, Pcs, Writes, ConfigOps, TargetOps
    <2>6. Goes(n, r)
      BY <1>1 DEF Shaped, Goes
    <2> HIDE DEF n
    <2>7. req'[q] = n /\ \A p \in Request \ {q} : req'[p] = req[p]
      BY <2>1 DEF RequestsTyped
    <2>8. req' = [p \in Request |-> req'[p]]
      BY <2>1 DEF RequestsTyped
    <2>9. \A p \in Request \ {q} : req[p] # Idle => Shaped(req'[p]) /\ Same(req'[p], req[p])
      BY <2>7 DEF RequestsTyped, Same
    <2> QED
      BY <1>0, <1>1, <2>5, <2>6, <2>7, <2>8, <2>9 DEF StepOf
  <1>10. CASE Abandon(q) /\ ~End(q)
    BY <1>10, LeftSteps
  <1> QED
    BY <1>2, <1>3, <1>4, <1>5, <1>6, <1>7, <1>8, <1>9, <1>10
    DEF RequestStep, WriteTarget, RemoveGrants, WriteGrants, WriteConfig, Lose

\* A request begins with nothing read; what was under way with its record is no
\* longer alone.
First(r) ==
    \/ r.op = "create" /\ r.pc = "write"
    \/ r.op \in {"update", "grants"} /\ r.pc = "load"
    \/ r.op = "delete" /\ r.pc = "count"
    \/ r.op = "put" /\ r.pc = "target"
    \/ r.op \in {"patch", "schedule"} /\ r.pc = "read"

Begins(q) ==
    /\ req' = [p \in Request |-> req'[p]]
    /\ up /\ seed = "off" /\ req[q] = Idle
    /\ Shaped(req'[q]) /\ First(req'[q]) /\ req'[q].across = Deleting
    /\ req'[q].alone => /\ \A p \in Request \ {q} : req[p] # Idle => req[p].x # req'[q].x
                        /\ sweeping => req'[q].x \notin Target
    /\ \A p \in Request \ {q} :
          \/ req[p] = Idle /\ req'[p] = Idle
          \/ /\ req[p] # Idle /\ Shaped(req'[p])
             /\ Stays(req'[p], req[p]) /\ req'[p].gone = req[p].gone
             /\ req'[p].alone => req[p].x # req'[q].x

\* A request that has met another is still a well-formed one.
LEMMA NotAlone ==
  ASSUME NEW r, Shaped(r)
  PROVE  LET n == [r EXCEPT !.alone = FALSE] IN
         Shaped(n) /\ Stays(n, r) /\ n.gone = r.gone /\ ~n.alone
  <1> DEFINE n == [r EXCEPT !.alone = FALSE]
  <1>1. /\ n.op = r.op /\ n.pc = r.pc /\ n.x = r.x /\ n.in = r.in /\ n.got = r.got
        /\ n.across = r.across /\ ~n.alone /\ n.gone = r.gone
    BY DEF Shaped
  <1>2. n \in [op : TargetOps \cup ConfigOps, pc : Pcs, x : Target \cup Space, in : {n.in},
               got : {n.got}, key : Keys, gone : BOOLEAN, alone : BOOLEAN, across : SUBSET Target]
    BY DEF Shaped
  <1> HIDE DEF n
  <1>3. Shaped(n)
    BY <1>1, <1>2 DEF Shaped
  <1> QED
    BY <1>1, <1>3 DEF n, Stays

\* A request that begins touches no other but those of its own record.
LEMMA BeginSteps ==
  ASSUME RequestsTyped, StoredTyped, NEW q \in Request, NEW op \in TargetOps \cup ConfigOps, NEW pc \in Pcs,
         NEW x \in Target \cup Space, NEW in, Begin(q, op, pc, x, in),
         \A alone \in BOOLEAN, a \in SUBSET Target :
            LET r == [op |-> op, pc |-> pc, x |-> x, in |-> in, got |-> None, key |-> twKey,
                      gone |-> FALSE, alone |-> alone, across |-> a]
            IN  Shaped(r) /\ First(r)
  PROVE  Begins(q)
  <1> DEFINE alone == Others(q, x) = {} /\ ~(x \in Target /\ sweeping)
  <1> DEFINE r == [op |-> op, pc |-> pc, x |-> x, in |-> in, got |-> None, key |-> twKey,
                   gone |-> FALSE, alone |-> alone, across |-> Deleting]
  <1>1. Deleting \in SUBSET Target
    <2> SUFFICES ASSUME NEW p \in InFlight, At(p, {"delete"}, "remove")
                 PROVE  req[p].x \in Target
      BY DEF Deleting
    <2> QED
      BY DEF InFlight, At, RequestsTyped, Shaped, TargetOps
  <1>2. Shaped(r) /\ First(r)
    <2>1. alone \in BOOLEAN
      OBVIOUS
    <2> HIDE DEF alone
    <2> QED
      BY <1>1, <2>1
  <1>3. req' = [p \in Request |-> IF p = q THEN r
                                  ELSE IF p \in Others(q, x) THEN [req[p] EXCEPT !.alone = FALSE]
                                  ELSE req[p]]
    BY DEF Begin
  <1>4. \A p \in Request \ {q} : p \in Others(q, x) <=> (req[p] # Idle /\ req[p].x = x)
    BY DEF Others, InFlight
  <1>5. req'[q] = r /\ r.x = x /\ r.across = Deleting /\ (r.alone <=> alone)
    BY <1>3
  <1>6. r.alone => /\ \A p \in Request \ {q} : req[p] # Idle => req[p].x # x
                   /\ sweeping => x \notin Target
    BY <1>4, <1>5
  <1> HIDE DEF r, alone
  <1>7. ASSUME NEW p \in Request \ {q}, req[p] # Idle
        PROVE  /\ Shaped(req'[p]) /\ Stays(req'[p], req[p]) /\ req'[p].gone = req[p].gone
               /\ req'[p].alone => req[p].x # x
    <2>1. Shaped(req[p])
      BY <1>7 DEF RequestsTyped
    <2>2. CASE req[p].x = x
      <3>1. req'[p] = [req[p] EXCEPT !.alone = FALSE]
        BY <1>3, <1>4, <1>7, <2>2
      <3> QED
        BY <2>1, <3>1, NotAlone
    <2>3. CASE req[p].x # x
      <3>1. req'[p] = req[p]
        BY <1>3, <1>4, <1>7, <2>3
      <3> QED
        BY <2>1, <2>3, <3>1 DEF Stays
    <2> QED
      BY <2>2, <2>3
  <1>8. \A p \in Request \ {q} : req[p] = Idle => req'[p] = Idle
    BY <1>3, <1>4
  <1>9. req' = [p \in Request |-> req'[p]] /\ up /\ seed = "off" /\ req[q] = Idle
    BY <1>3 DEF Begin
  <1> QED
    BY <1>2, <1>5, <1>6, <1>7, <1>8, <1>9 DEF Begins

\* Each request begins so.
LEMMA BeginRequestSteps ==
  ASSUME RequestsTyped, StoredTyped, NEW q \in Request, BeginRequest(q)
  PROVE  Begins(q)
  <1> USE DEF TargetOps, ConfigOps, Pcs
  <1>0. twKey \in Keys
    BY DEF StoredTyped
  <1>1. CASE BeginCreate(q)
    <2>1. PICK in \in Body, t \in Target : ValidBody(in, TRUE) /\ Begin(q, "create", "write", t, in)
                                 /\ t # Seeded
      BY <1>1 DEF BeginCreate
    <2>2. in.creds \in Creds \cup {None} /\ in.creds # None
      BY <2>1 DEF ValidBody, Body
    <2> QED
      BY <2>1, <2>2, <1>0, BeginSteps DEF Shaped, First
  <1>2. CASE BeginUpdate(q)
    <2>1. PICK in \in Body, t \in Target : ValidBody(in, FALSE) /\ Begin(q, "update", "load", t, in)
      BY <1>2 DEF BeginUpdate
    <2>2. in.creds \in Creds \cup {None}
      BY <2>1 DEF ValidBody, Body
    <2> QED
      BY <2>1, <2>2, <1>0, BeginSteps DEF Shaped, First
  <1>3. CASE BeginDelete(q)
    BY <1>0, <1>3, BeginSteps DEF BeginDelete, Shaped, First
  <1>4. CASE BeginGrants(q)
    BY <1>0, <1>4, BeginSteps DEF BeginGrants, Shaped, First
  <1>5. CASE BeginPut(q)
    <2>1. PICK s \in Space, t \in Target, d \in Days, e \in BOOLEAN :
             Begin(q, "put", "target", s, [target |-> t, days |-> d, enabled |-> e])
      BY <1>5 DEF BeginPut
    <2>2. [target |-> t, days |-> d, enabled |-> e] \in PutInput
      BY DEF PutInput
    <2> QED
      BY <2>1, <2>2, <1>0, BeginSteps DEF Shaped, First
  <1>6. CASE BeginPatch(q)
    <2>1. PICK s \in Space, t \in Target \cup {None}, d \in Days \cup {None},
               e \in BOOLEAN \cup {None} :
             Begin(q, "patch", "read", s, [target |-> t, days |-> d, enabled |-> e])
      BY <1>6 DEF BeginPatch
    <2>2. [target |-> t, days |-> d, enabled |-> e] \in PatchInput
      BY DEF PatchInput
    <2> QED
      BY <2>1, <2>2, <1>0, BeginSteps DEF Shaped, First
  <1>7. CASE BeginSchedule(q)
    <2>1. PICK s \in Space, c \in Schedules, e \in BOOLEAN :
             Begin(q, "schedule", "read", s, [schedule |-> c, enabled |-> e])
      BY <1>7 DEF BeginSchedule
    <2>2. [schedule |-> c, enabled |-> e] \in ScheduleInput
      BY DEF ScheduleInput
    <2> QED
      BY <2>1, <2>2, <1>0, BeginSteps DEF Shaped, First
  <1> QED
    BY <1>1, <1>2, <1>3, <1>4, <1>5, <1>6, <1>7 DEF BeginRequest

RequestsInv == RequestsTyped /\ ApartInv /\ QuietInv

Rotates == RotateSRW \/ ReadEnvelope \/ PutSRW \/ ResealTarget \/ RotateEnd \/ RotateAborts

\* What the steps of the other actors leave to the requests.
LEMMA OthersSteps ==
  /\ (Rotates => UNCHANGED <<req, config, across, up, seed, grants, meant, leftover>>)
  /\ ((Rotates /\ ~ResealTarget) => UNCHANGED <<target, want, calm>>)
  /\ ((SeedList \/ SeedCreate \/ SeedGrant) => UNCHANGED <<config, across, up, sweeping>> /\ up)
  /\ ((SeedList \/ SeedGrant) => UNCHANGED req)
  /\ (Start => UNCHANGED <<req, config, across, target, want, calm, sweeping, grants, meant,
                           leftover>> /\ ~up)
  /\ (Stop => UNCHANGED <<config, across, target, want, calm, sweeping, grants, meant,
                          leftover>> /\ up)
  /\ (RotateTW => UNCHANGED <<config, across, target, want, calm, up, seed, grants, meant,
                              leftover>>)
  <1>1. Rotates => UNCHANGED <<req, config, across, up, seed, grants, meant, leftover>>
    BY DEF Rotates, RotateSRW, RotateBegin, ReadEnvelope, PutSRW, ResealTarget, RotateEnd,
       RotateAborts, targetVars
  <1>2. (Rotates /\ ~ResealTarget) => UNCHANGED <<target, want, calm>>
    BY DEF Rotates, RotateSRW, RotateBegin, ReadEnvelope, PutSRW, RotateEnd, RotateAborts, targetVars
  <1>3. (SeedList \/ SeedCreate \/ SeedGrant) => UNCHANGED <<config, across, up, sweeping>> /\ up
    BY DEF SeedList, SeedCreate, SeedGrant
  <1>4. (SeedList \/ SeedGrant) => UNCHANGED req
    BY DEF SeedList, SeedGrant
  <1> QED
    BY <1>1, <1>2, <1>3, <1>4 DEF Start, Stop, RotateTW, RotateBegin

\* A command that rewrites the targets shares them with every request.
LEMMA SweepSteps ==
  ASSUME RequestsTyped, RotateTW
  PROVE  /\ req' = [p \in Request |-> req'[p]]
         /\ \A p \in Request :
              \/ req[p] = Idle /\ req'[p] = Idle
              \/ /\ req[p] # Idle /\ Shaped(req'[p]) /\ ~req'[p].alone
                 /\ Stays(req'[p], req[p]) /\ req'[p].gone = req[p].gone
  <1>1. req' = [q \in Request |-> IF req[q] = Idle THEN Idle ELSE [req[q] EXCEPT !.alone = FALSE]]
    BY DEF RotateTW
  <1>2. \A p \in Request : req[p] # Idle =>
           req'[p] = [req[p] EXCEPT !.alone = FALSE] /\ Shaped(req[p])
    BY <1>1 DEF RequestsTyped
  <1> QED
    BY <1>1, <1>2, NotAlone

\* So does the seeding share its target, with the writes on the way to it.
LEMMA SeedSteps ==
  ASSUME RequestsTyped, SeedCreate
  PROVE  /\ req' = [p \in Request |-> req'[p]]
         /\ \A p \in Request :
              \/ req[p] = Idle /\ req'[p] = Idle
              \/ /\ req[p] # Idle /\ Shaped(req'[p])
                 /\ Stays(req'[p], req[p]) /\ req'[p].gone = req[p].gone
                 /\ req[p].x = Seeded => ~req'[p].alone
  <1>1. req' = [q \in Request |->
                  IF q \in Others(None, Seeded) THEN [req[q] EXCEPT !.alone = FALSE] ELSE req[q]]
    BY DEF SeedCreate
  <1>2. ASSUME NEW p \in Request, req[p] # Idle
        PROVE  /\ Shaped(req'[p]) /\ Stays(req'[p], req[p]) /\ req'[p].gone = req[p].gone
               /\ req[p].x = Seeded => ~req'[p].alone
    <2>1. Shaped(req[p])
      BY <1>2 DEF RequestsTyped
    <2>2. CASE p \in Others(None, Seeded)
      BY <1>1, <2>1, <2>2, NotAlone
    <2>3. CASE p \notin Others(None, Seeded)
      <3>1. req'[p] = req[p]
        BY <1>1, <2>3
      <3>2. CASE p # None
        BY <1>2, <2>1, <2>3, <3>1, <3>2 DEF Others, InFlight, Stays
      <3>3. CASE p = None
        BY <3>3, TargetsAssumption
      <3> QED
        BY <3>2, <3>3
    <2> QED
      BY <2>2, <2>3
  <1>3. \A p \in Request : req[p] = Idle => req'[p] = Idle
    BY <1>1 DEF Others, InFlight
  <1> QED
    BY <1>1, <1>2, <1>3

\* What a service that stops leaves behind are requests that are gone.
LEMMA StopSteps ==
  ASSUME RequestsTyped, Stop
  PROVE  /\ req' = [p \in Request |-> req'[p]]
         /\ \A p \in Request :
              \/ req'[p] = Idle
              \/ /\ req[p] # Idle /\ Shaped(req'[p]) /\ req'[p].gone
                 /\ Stays(req'[p], req[p])
  <1>1. PICK late \in SUBSET {q \in InFlight : req[q].pc \in Writes} :
           req' = [q \in Request |-> IF q \in late THEN Left(q) ELSE Idle]
    BY DEF Stop
  <1>2. \A p \in Request : p \in late => req[p] # Idle /\ req[p].pc \in Writes /\ req'[p] = Left(p)
    BY <1>1 DEF InFlight
  <1> QED
    BY <1>1, <1>2, LeftMakes

\* The requests stay well-formed, and apart where they say so.
LEMMA RequestsKept ==
  ASSUME RequestsInv, StoredTyped, CustodyNext
  PROVE  RequestsInv'
  <1> USE DEF RequestsInv
  <1>1. CASE \E q \in Request : BeginRequest(q)
    <2>1. PICK q \in Request : BeginRequest(q) /\ Begins(q)
      BY <1>1, BeginRequestSteps
    <2>2. UNCHANGED <<up, seed, sweeping>>
      BY <2>1 DEF BeginRequest, BeginCreate, BeginUpdate, BeginDelete, BeginGrants, BeginPut,
         BeginPatch, BeginSchedule, Begin
    <2>3. RequestsTyped'
      BY <2>1 DEF RequestsTyped, Begins
    <2>4. ApartInv'
      <3> SUFFICES ASSUME NEW a \in Request, req'[a] # Idle, req'[a].alone
                   PROVE  /\ \A p \in Request \ {a} : req'[p] # Idle => req'[p].x # req'[a].x
                          /\ sweeping => req'[a].x \notin Target
        BY <2>2 DEF ApartInv
      <3>1. CASE a = q
        BY <2>1, <3>1 DEF Begins, Stays
      <3>2. CASE a # q
        <4>1. req[a] # Idle /\ req[a].alone /\ req'[a].x = req[a].x /\ req[a].x # req'[q].x
          BY <2>1, <3>2 DEF Begins, Stays
        <4>2. \A p \in Request \ {a} : req[p] # Idle => req[p].x # req[a].x
          BY <4>1 DEF ApartInv
        <4>3. \A p \in Request \ {q} : req'[p] # Idle => req[p] # Idle /\ req'[p].x = req[p].x
          BY <2>1 DEF Begins, Stays
        <4>4. sweeping => req[a].x \notin Target
          BY <4>1 DEF ApartInv
        <4> QED
          BY <4>1, <4>2, <4>3, <4>4
      <3> QED
        BY <3>1, <3>2
    <2>5. QuietInv'
      BY <2>1, <2>2 DEF QuietInv, Begins
    <2> QED
      BY <2>3, <2>4, <2>5
  <1>2. CASE \E q \in Request : RequestStep(q)
    <2>1. PICK q \in Request : RequestStep(q) /\ StepOf(q)
      BY <1>2, RequestSteps
    <2>2. UNCHANGED <<up, seed, sweeping>>
      BY <2>1 DEF RequestStep, Load, Reread, WriteTarget, CountSpaces, RemoveTarget,
         RemoveGrants, WriteGrants, MayUseTarget, MayUseGrants, ReadConfig, WriteConfig,
         Abandon, Lose, stepVars
    <2>3. RequestsTyped'
      BY <2>1 DEF RequestsTyped, StepOf
    <2>4. \A p \in Request : req'[p] # Idle => /\ req[p] # Idle /\ req'[p].x = req[p].x
                                               /\ req'[p].alone = req[p].alone
                                               /\ req[p].gone => req'[p].gone
      BY <2>1 DEF StepOf, Same, Goes
    <2>5. ApartInv'
      BY <2>2, <2>4 DEF ApartInv
    <2>6. QuietInv'
      BY <2>1, <2>2, <2>4 DEF QuietInv
    <2> QED
      BY <2>3, <2>5, <2>6
  <1>3. CASE Stop
    <2>1. RequestsTyped' /\ \A q \in Request : req'[q] = Idle \/ req'[q].gone
      BY <1>3, StopSteps DEF RequestsTyped
    <2>2. ApartInv'
      <3>1. \A p \in Request : req'[p] # Idle => /\ req[p] # Idle /\ req'[p].x = req[p].x
                                                 /\ req'[p].alone => req[p].alone
        BY <1>3, StopSteps DEF Stays
      <3>2. sweeping' = sweeping
        BY <1>3 DEF Stop
      <3> QED
        BY <3>1, <3>2 DEF ApartInv
    <2>3. QuietInv'
      BY <1>3, <2>1 DEF Stop, QuietInv
    <2> QED
      BY <2>1, <2>2, <2>3
  <1>4. CASE Start
    BY <1>4 DEF Start, RequestsTyped, ApartInv, QuietInv
  <1>5. CASE SeedList \/ SeedGrant
    BY <1>5 DEF SeedList, SeedGrant, RequestsTyped, ApartInv, QuietInv
  <1>8. CASE SeedCreate
    <2>1. RequestsTyped'
      BY <1>8, SeedSteps DEF RequestsTyped
    <2>2. /\ \A p \in Request : req'[p] # Idle => /\ req[p] # Idle /\ req'[p].x = req[p].x
                                                  /\ req'[p].alone => req[p].alone
                                                  /\ req'[p].gone = req[p].gone
          /\ UNCHANGED <<sweeping, up>> /\ seed # "off"
      BY <1>8, SeedSteps DEF Stays, SeedCreate
    <2>3. ApartInv'
      BY <2>2 DEF ApartInv
    <2>4. QuietInv'
      BY <2>2 DEF QuietInv
    <2> QED
      BY <2>1, <2>3, <2>4
  <1>6. CASE RotateTW
    <2>1. RequestsTyped'
      BY <1>6, SweepSteps DEF RequestsTyped
    <2>2. ApartInv'
      BY <1>6, SweepSteps DEF ApartInv
    <2>3. QuietInv'
      <3>1. \A p \in Request : req[p] = Idle => req'[p] = Idle
        BY <1>6, SweepSteps, ShapedIsBusy
      <3>2. \A p \in Request : req[p] # Idle => req'[p].gone = req[p].gone
        BY <1>6, SweepSteps
      <3> QED
        BY <1>6, <3>1, <3>2, OthersSteps DEF QuietInv
    <2> QED
      BY <2>1, <2>2, <2>3
  <1>7. CASE Rotates
    <2>1. UNCHANGED <<req, up, seed>> /\ (sweeping' = sweeping \/ ~sweeping')
      BY <1>7, OthersSteps
      DEF Rotates, RotateSRW, ReadEnvelope, PutSRW, ResealTarget, RotateEnd, RotateAborts, targetVars
    <2> QED
      BY <2>1 DEF RequestsTyped, ApartInv, QuietInv
  <1> QED
    BY <1>1, <1>2, <1>3, <1>4, <1>5, <1>6, <1>7, <1>8
    DEF CustodyNext, ServiceStep, TargetNext, Rotates

-----------------------------------------------------------------------------
(* The bindings of the Spaces.                                              *)

BoundInv == StoredTyped /\ RemovalInv /\ BindingInv /\ StrandedOnlyByARace

\* What a request that writes a target stores is a record.
LEMMA UpdatedFacts ==
  ASSUME RequestsTyped, StoredTyped, NEW q \in Request, At(q, {"create", "update"}, "write")
  PROVE  Updated(q, req[q].got) \in Record /\ Updated(q, req[q].got) # None /\ req[q].x \in Target
  <1>1. Shaped(req[q]) /\ req[q].op \in {"create", "update"} /\ req[q].pc = "write"
    BY DEF At, RequestsTyped
  <1>2. req[q].in \in Body /\ req[q].in.creds \in Creds \cup {None} /\ req[q].x \in Target
    BY <1>1 DEF Shaped, TargetOps
  <1>3. CASE req[q].in.creds = None
    <2>1. req[q].got \in Kept
      BY <1>1, <1>3 DEF Shaped
    <2>2. Updated(q, req[q].got)
            = [name |-> req[q].in.name, sealed |-> req[q].got.sealed, says |-> req[q].got.says]
      BY <1>3 DEF Updated
    <2> QED
      BY <1>2, <2>1, <2>2, RecordAssumption DEF Kept, Record, Body
  <1>4. CASE req[q].in.creds # None
    <2> DEFINE full == req[q].in.maint = "full"
    <2>1. Seal(req[q].in, req[q].key) \in Sealed
      BY <1>1, <1>2, <1>4 DEF Seal, Sealed, Shaped
    <2>2. Updated(q, req[q].got)
            = [name |-> req[q].in.name, sealed |-> Seal(req[q].in, req[q].key), says |-> full]
      BY <1>4 DEF Updated
    <2>3. full \in BOOLEAN /\ req[q].in.name \in Names
      BY <1>2 DEF Body
    <2> HIDE DEF full
    <2>4. Updated(q, req[q].got) \in Record
      BY <2>1, <2>2, <2>3 DEF Record
    <2> QED
      BY <1>2, <2>4, RecordAssumption
  <1> QED
    BY <1>2, <1>3, <1>4

\* Four fields make a configuration.
LEMMA ConfigMade ==
  ASSUME NEW in \in PutInput, NEW c \in Schedules \cup {""}
  PROVE  LET n == [target |-> in.target, days |-> in.days, enabled |-> in.enabled,
                   schedule |-> c]
         IN  n \in Config /\ n.target = in.target
  BY DEF Config, PutInput

\* What one that writes a configuration stores is one, for the target it has
\* chosen or read.
LEMMA ConfiguredFacts ==
  ASSUME RequestsTyped, NEW q \in Request, At(q, ConfigOps, "write")
  PROVE  LET c == Configured(q, req[q].got) IN
         /\ c \in Config /\ c # None /\ req[q].x \in Space
         /\ \/ Chooses(req[q]) /\ c.target = req[q].in.target
            \/ Keeps(req[q]) /\ c.target = req[q].got.target
  <1>1. Shaped(req[q]) /\ req[q].op \in ConfigOps /\ req[q].pc = "write" /\ req[q].x \in Space
    BY DEF At, RequestsTyped, Shaped
  <1>2. CASE req[q].op = "put"
    <2>1. req[q].in \in PutInput /\ req[q].got \in Config \cup {None}
      BY <1>1, <1>2 DEF Shaped
    <2> DEFINE kept == IF req[q].got = None THEN "" ELSE req[q].got.schedule
    <2>2. Configured(q, req[q].got)
            = [target |-> req[q].in.target, days |-> req[q].in.days, enabled |-> req[q].in.enabled,
               schedule |-> kept]
      BY <1>2 DEF Configured
    <2>3. kept \in Schedules \cup {""}
      BY <2>1 DEF Config
    <2> HIDE DEF kept
    <2>4. Configured(q, req[q].got) \in Config /\ Configured(q, req[q].got).target = req[q].in.target
      BY <2>1, <2>2, <2>3, ConfigMade
    <2> QED
      BY <1>1, <1>2, <2>4, RecordAssumption DEF Chooses
  <1>3. CASE req[q].op = "patch"
    <2>1. req[q].in \in PatchInput /\ req[q].got \in Config
      BY <1>1, <1>3 DEF Shaped
    <2>2. Configured(q, req[q].got)
            = [req[q].got EXCEPT !.target = IF req[q].in.target = None THEN @ ELSE req[q].in.target,
                                 !.days = IF req[q].in.days = None THEN @ ELSE req[q].in.days,
                                 !.enabled = IF req[q].in.enabled = None THEN @ ELSE req[q].in.enabled]
      BY <1>3 DEF Configured
    <2> QED
      BY <1>1, <1>3, <2>1, <2>2, RecordAssumption DEF Config, PatchInput, Chooses, Keeps, KeepsTarget
  <1>4. CASE req[q].op = "schedule"
    <2>1. req[q].in \in ScheduleInput /\ req[q].got \in Config
      BY <1>1, <1>4 DEF Shaped
    <2>2. Configured(q, req[q].got)
            = [req[q].got EXCEPT !.schedule = req[q].in.schedule, !.enabled = req[q].in.enabled]
      BY <1>4 DEF Configured
    <2> QED
      BY <1>1, <1>4, <2>1, <2>2, RecordAssumption DEF Config, ScheduleInput, Keeps, KeepsTarget
  <1> QED
    BY <1>1, <1>2, <1>3, <1>4 DEF ConfigOps

\* A step that takes no target away and binds no Space leaves the bindings in
\* order, if the request that makes it may go where it goes.
LEMMA QuietBound ==
  ASSUME RequestsTyped, BoundInv, NEW q \in Request, StepOf(q), StoredTyped',
         UNCHANGED <<config, across>>,
         \A t \in Target : target[t] # None => target'[t] # None,
         At(q, {"delete"}, "remove")' =>
            /\ \A s \in Space : (config[s] # None /\ config[s].target = req[q].x)
                                  => req[q].x \in across[s]
            /\ \A p \in Request : (req[p] # Idle /\ req[p].op \in ConfigOps)
                                    => req[q].x \in req'[p].across,
         req'[q] # Idle =>
            /\ Chooses(req'[q]) => (target[req[q].in.target] # None
                                     \/ req[q].in.target \in req'[q].across)
            /\ Keeps(req'[q]) => (target[req'[q].got.target] # None
                                   \/ req'[q].got.target \in req'[q].across)
  PROVE  BoundInv'
  <1>1. /\ \A p \in Request : req'[p] # Idle => /\ req[p] # Idle /\ Goes(req'[p], req[p])
                                                /\ Shaped(req'[p]) /\ Shaped(req[p])
        /\ \A p \in Request \ {q} : req'[p] # Idle => Same(req'[p], req[p])
    BY DEF StepOf, Same, Goes, RequestsTyped
  <1>2. RemovalInv'
    <2> SUFFICES ASSUME NEW d \in Request, At(d, {"delete"}, "remove")'
                 PROVE  /\ \A s \in Space : (config[s] # None /\ config[s].target = req'[d].x)
                                              => req'[d].x \in across[s]
                        /\ \A p \in Request : (req'[p] # Idle /\ req'[p].op \in ConfigOps)
                                                => req'[d].x \in req'[p].across
      BY DEF RemovalInv
    <2>1. req'[d] # Idle /\ req'[d].x = req[d].x
      BY <1>1 DEF At, Goes
    <2>2. CASE d = q
      BY <1>1, <2>1, <2>2 DEF Goes
    <2>3. CASE d # q
      <3>1. At(d, {"delete"}, "remove")
        BY <1>1, <2>1, <2>3 DEF At, Same
      <3> QED
        BY <1>1, <2>1, <3>1 DEF BoundInv, RemovalInv, Goes
    <2> QED
      BY <2>2, <2>3
  <1>3. BindingInv'
    <2> SUFFICES ASSUME NEW p \in Request, req'[p] # Idle
                 PROVE  /\ Chooses(req'[p]) => (target'[req'[p].in.target] # None
                                                 \/ req'[p].in.target \in req'[p].across)
                        /\ Keeps(req'[p]) => (target'[req'[p].got.target] # None
                                               \/ req'[p].got.target \in req'[p].across)
      BY DEF BindingInv, Chooses, Keeps, KeepsTarget
    <2>1. /\ Chooses(req'[p]) => req'[p].in.target \in Target
          /\ Keeps(req'[p]) => req'[p].got.target \in Target
      BY <1>1 DEF Chooses, Keeps, KeepsTarget, Shaped, PutInput, PatchInput, Config, ConfigOps
    <2>2. CASE p = q
      BY <1>1, <2>1, <2>2 DEF Goes
    <2>3. CASE p # q
      <3>1. /\ Chooses(req'[p]) => Chooses(req[p])
            /\ Keeps(req'[p]) => Keeps(req[p])
            /\ req'[p].in = req[p].in /\ req'[p].got = req[p].got
            /\ req[p].across \subseteq req'[p].across /\ req[p] # Idle
        BY <1>1, <2>3 DEF Same, Chooses, Keeps, KeepsTarget
      <3>2. /\ Chooses(req[p]) => (target[req[p].in.target] # None
                                     \/ req[p].in.target \in req[p].across)
            /\ Keeps(req[p]) => (target[req[p].got.target] # None
                                     \/ req[p].got.target \in req[p].across)
        BY <3>1 DEF BoundInv, BindingInv
      <3> QED
        BY <2>1, <3>1, <3>2
    <2> QED
      BY <2>2, <2>3
  <1>4. StrandedOnlyByARace'
    BY DEF BoundInv, StrandedOnlyByARace, StoredTyped, Config
  <1> QED
    BY <1>2, <1>3, <1>4 DEF BoundInv

\* A step that leaves the requests where they are does, if it takes no target
\* away.
LEMMA StillBound ==
  ASSUME RequestsTyped, BoundInv, StoredTyped', UNCHANGED <<config, across>>,
         \A t \in Target : target[t] # None => target'[t] # None,
         \A p \in Request : req'[p] # Idle =>
            req'[p] = req[p] \/ (req[p] # Idle /\ Stays(req'[p], req[p]))
  PROVE  BoundInv'
  <1>2. \A p \in Request : req'[p] # Idle =>
           /\ req[p] # Idle /\ req'[p].op = req[p].op /\ req'[p].pc = req[p].pc
           /\ req'[p].x = req[p].x /\ req'[p].in = req[p].in
           /\ req[p].op # "delete" => req'[p].got = req[p].got
           /\ req'[p].across = req[p].across /\ Shaped(req[p])
    BY DEF RequestsTyped, Stays
  <1>3. RemovalInv'
    BY <1>2 DEF BoundInv, RemovalInv, At
  <1>4. BindingInv'
    <2> SUFFICES ASSUME NEW p \in Request, req'[p] # Idle
                 PROVE  /\ Chooses(req'[p]) => (target'[req'[p].in.target] # None
                                                 \/ req'[p].in.target \in req'[p].across)
                        /\ Keeps(req'[p]) => (target'[req'[p].got.target] # None
                                               \/ req'[p].got.target \in req'[p].across)
      BY DEF BindingInv, Chooses, Keeps, KeepsTarget
    <2>1. /\ Chooses(req'[p]) => Chooses(req[p]) /\ req[p].op # "delete"
          /\ Keeps(req'[p]) => Keeps(req[p]) /\ req[p].op # "delete"
      BY <1>2 DEF Chooses, Keeps, KeepsTarget
    <2>2. /\ Chooses(req[p]) => (target[req[p].in.target] # None
                                   \/ req[p].in.target \in req[p].across)
          /\ Keeps(req[p]) => (target[req[p].got.target] # None
                                   \/ req[p].got.target \in req[p].across)
      BY <1>2 DEF BoundInv, BindingInv
    <2>3. /\ Chooses(req[p]) => req[p].in.target \in Target
          /\ Keeps(req[p]) => req[p].got.target \in Target
      BY <1>2
      DEF Chooses, Keeps, KeepsTarget, Shaped, PutInput, PatchInput, Config, ConfigOps
    <2> QED
      BY <1>2, <2>1, <2>2, <2>3
  <1>5. StrandedOnlyByARace'
    BY DEF BoundInv, StrandedOnlyByARace, StoredTyped, Config
  <1> QED
    BY <1>3, <1>4, <1>5 DEF BoundInv

\* The steps of a request keep the bindings in order.
LEMMA RequestBound ==
  ASSUME RequestsInv, BoundInv, NEW q \in Request, RequestStep(q)
  PROVE  BoundInv'
  <1>0. StepOf(q) /\ RequestsTyped /\ StoredTyped /\ Shaped(req[q]) /\ req[q] # Idle
    BY RequestSteps DEF RequestsInv, BoundInv, StepOf
  <1>7. CASE Abandon(q) /\ ~End(q)
    <2>1. UNCHANGED <<target, config, across, twKey>>
      BY <1>7 DEF Abandon
    <2>2. StoredTyped'
      BY <1>0, <2>1 DEF StoredTyped
    <2>3. /\ Stays(req'[q], req[q]) /\ \A p \in Request \ {q} : req'[p] = req[p]
      BY <1>0, <1>7, LeftSteps
    <2>4. \A p \in Request : req'[p] # Idle =>
             req'[p] = req[p] \/ (req[p] # Idle /\ Stays(req'[p], req[p]))
      BY <1>0, <2>3
    <2> QED
      BY <1>0, <2>1, <2>2, <2>4, StillBound
  <1>1. CASE Load(q) \/ Reread(q) \/ RemoveGrants(q) \/ WriteGrants(q) \/ (Abandon(q) /\ End(q)) \/ Lose(q)
    <2>1. UNCHANGED <<target, config, across, twKey>>
      BY <1>1 DEF Load, Reread, RemoveGrants, WriteGrants, Abandon, Lose, stepVars
    <2>2. req'[q] # Idle => req[q].op \notin ConfigOps /\ req[q].op # "delete"
      BY <1>0, <1>1, EndSteps
      DEF Load, Reread, RemoveGrants, WriteGrants, Lose, At, ConfigOps
    <2>3. req'[q] # Idle => /\ ~Chooses(req'[q]) /\ ~Keeps(req'[q])
                            /\ ~At(q, {"delete"}, "remove")'
      BY <1>0, <2>2 DEF StepOf, Goes, Chooses, Keeps, KeepsTarget, At, ConfigOps
    <2>4. ~At(q, {"delete"}, "remove")'
      BY <2>3 DEF At
    <2>5. StoredTyped'
      BY <1>0, <2>1 DEF StoredTyped
    <2> QED
      BY <1>0, <2>1, <2>3, <2>4, <2>5, QuietBound
  <1>2. CASE WriteTarget(q)
    <2>1. /\ target' = [target EXCEPT ![req[q].x] = Updated(q, req[q].got)]
          /\ UNCHANGED <<config, across, twKey>>
          /\ At(q, {"create", "update"}, "write") /\ End(q)
      BY <1>2 DEF WriteTarget
    <2>2. /\ Updated(q, req[q].got) \in Record /\ Updated(q, req[q].got) # None
          /\ req[q].x \in Target
      BY <1>0, <2>1, UpdatedFacts
    <2>3. StoredTyped'
      BY <1>0, <2>1, <2>2 DEF StoredTyped
    <2>4. \A t \in Target : target[t] # None => target'[t] # None
      BY <1>0, <2>1, <2>2 DEF StoredTyped
    <2>5. req'[q] = Idle
      BY <1>0, <2>1, EndSteps
    <2>6. ~At(q, {"delete"}, "remove")'
      BY <2>5 DEF At
    <2> QED
      BY <1>0, <2>1, <2>3, <2>4, <2>5, <2>6, QuietBound
  <1>3. CASE CountSpaces(q)
    <2>1. UNCHANGED <<target, config, across, twKey>> /\ req[q].op = "delete"
      BY <1>3 DEF CountSpaces, stepVars, At
    <2>2. StoredTyped'
      BY <1>0, <2>1 DEF StoredTyped
    <2>3. req'[q] # Idle => ~Chooses(req'[q]) /\ ~Keeps(req'[q])
      BY <1>0, <2>1 DEF StepOf, Goes, Chooses, Keeps, KeepsTarget
    <2>4. At(q, {"delete"}, "remove")' =>
            /\ \A s \in Space : (config[s] # None /\ config[s].target = req[q].x)
                                  => req[q].x \in across[s]
            /\ \A p \in Request : (req[p] # Idle /\ req[p].op \in ConfigOps)
                                    => req[q].x \in req'[p].across
      BY <1>0, <1>3, CountSteps DEF At
    <2> QED
      BY <1>0, <2>1, <2>2, <2>3, <2>4, QuietBound
  <1>4. CASE MayUseTarget(q) \/ MayUseGrants(q) \/ ReadConfig(q)
    <2>1. UNCHANGED <<target, config, across, twKey>> /\ req[q].op \in ConfigOps
      BY <1>4 DEF MayUseTarget, MayUseGrants, ReadConfig, stepVars, At, ConfigOps
    <2>2. StoredTyped'
      BY <1>0, <2>1 DEF StoredTyped
    <2>3. ~At(q, {"delete"}, "remove")'
      BY <1>0, <2>1 DEF StepOf, Goes, At, ConfigOps
    <2>4. (req'[q] # Idle /\ Chooses(req'[q])) =>
             (target[req[q].in.target] # None \/ req[q].in.target \in req'[q].across)
      <3> SUFFICES ASSUME req'[q] # Idle, Chooses(req'[q])
                   PROVE target[req[q].in.target] # None \/ req[q].in.target \in req'[q].across
        OBVIOUS
      <3>1. req[q].across \subseteq req'[q].across /\ req'[q].op = req[q].op /\ req'[q].in = req[q].in
        BY <1>0 DEF StepOf, Goes
      <3>2. ~End(q)
        BY <1>0, EndSteps
      <3>3. CASE MayUseTarget(q)
        BY <3>2, <3>3 DEF MayUseTarget
      <3>4. CASE MayUseGrants(q)
        <4>1. Chooses(req[q])
          BY <1>0, <3>4 DEF MayUseGrants, At, Chooses, Shaped
        <4> QED
          BY <1>0, <3>1, <4>1 DEF BoundInv, BindingInv
      <3>5. CASE ReadConfig(q)
        <4>1. CASE req[q].op = "put"
          <5>1. Chooses(req[q])
            BY <3>5, <4>1 DEF ReadConfig, At, Chooses
          <5> QED
            BY <1>0, <3>1, <5>1 DEF BoundInv, BindingInv
        <4>2. CASE req[q].op # "put"
          <5>1. req[q].op = "patch" /\ req[q].in.target # None /\ req'[q].pc # "target"
            BY <3>1, <4>2 DEF Chooses
          <5>2. req'[q].pc = "target"
            BY <1>0, <3>2, <3>5, <5>1, ReadMakes
          <5> QED
            BY <5>1, <5>2
        <4> QED
          BY <4>1, <4>2
      <3> QED
        BY <1>4, <3>3, <3>4, <3>5
    <2>5. (req'[q] # Idle /\ Keeps(req'[q])) =>
             (target[req'[q].got.target] # None \/ req'[q].got.target \in req'[q].across)
      <3> SUFFICES ASSUME req'[q] # Idle, Keeps(req'[q])
                   PROVE target[req'[q].got.target] # None \/ req'[q].got.target \in req'[q].across
        OBVIOUS
      <3>1. req'[q].op = req[q].op /\ req'[q].in = req[q].in /\ KeepsTarget(req[q])
        BY <1>0 DEF StepOf, Goes, Keeps, KeepsTarget
      <3>2. ~End(q)
        BY <1>0, EndSteps
      <3>3. ~MayUseTarget(q) /\ ~MayUseGrants(q)
        BY <1>0, <3>1 DEF MayUseTarget, MayUseGrants, At, KeepsTarget, Shaped
      <3>4. ReadConfig(q)
        BY <1>4, <3>3
      <3>5. config[req[q].x] # None /\ req[q].x \in Space
        BY <1>0, <3>1, <3>2, <3>4 DEF ReadConfig, At, KeepsTarget, Shaped
      <3>6. req'[q].got = config[req[q].x] /\ across[req[q].x] \subseteq req'[q].across
        <4>1. req'[q].got = config[req[q].x] /\ req'[q].across = req[q].across \cup across[req[q].x]
          BY <1>0, <3>1, <3>2, <3>4, ReadMakes
        <4> QED
          BY <4>1
      <3> QED
        BY <3>5, <3>6 DEF BoundInv, StrandedOnlyByARace
    <2> QED
      BY <1>0, <2>1, <2>2, <2>3, <2>4, <2>5, QuietBound
  <1>5. CASE RemoveTarget(q)
    <2> DEFINE t == req[q].x
    <2>1. /\ At(q, {"delete"}, "remove") /\ target' = [target EXCEPT ![t] = None]
          /\ UNCHANGED <<config, across, twKey>>
      BY <1>5 DEF RemoveTarget, stepVars
    <2>2. /\ t \in Target
          /\ \A s \in Space : (config[s] # None /\ config[s].target = t) => t \in across[s]
          /\ \A p \in Request : (req[p] # Idle /\ req[p].op \in ConfigOps) => t \in req[p].across
      BY <1>0, <2>1 DEF At, Shaped, BoundInv, RemovalInv, TargetOps
    <2>3. StoredTyped' /\ \A u \in Target \ {t} : target'[u] = target[u]
      BY <1>0, <2>1, <2>2 DEF StoredTyped
    <2>4. /\ \A p \in Request : req'[p] # Idle => /\ req[p] # Idle /\ Goes(req'[p], req[p])
                                                  /\ Shaped(req'[p])
          /\ \A p \in Request \ {q} : req'[p] # Idle => Same(req'[p], req[p])
          /\ req'[q] # Idle => req'[q].pc = "ungrant"
      <3>1. req'[q] # Idle => req'[q].pc = "ungrant"
        <4>1. CASE End(q)
          BY <1>0, <4>1, EndSteps
        <4>2. CASE Goto(q, "ungrant", None)
          BY <1>0, <4>2, GotoMakes DEF Goto, RequestsTyped, Pcs
        <4> QED
          BY <1>5, <4>1, <4>2 DEF RemoveTarget
      <3> QED
        BY <1>0, <3>1 DEF StepOf, Same, Goes
    <2>5. RemovalInv'
      <3> SUFFICES ASSUME NEW d \in Request, At(d, {"delete"}, "remove")'
                   PROVE  /\ \A s \in Space : (config[s] # None /\ config[s].target = req'[d].x)
                                                => req'[d].x \in across[s]
                          /\ \A p \in Request : (req'[p] # Idle /\ req'[p].op \in ConfigOps)
                                                  => req'[d].x \in req'[p].across
        BY <2>1 DEF RemovalInv
      <3>1. d # q /\ At(d, {"delete"}, "remove") /\ req'[d].x = req[d].x
        BY <2>4 DEF At, Same
      <3> QED
        BY <2>4, <3>1 DEF BoundInv, RemovalInv, Goes
    <2>6. BindingInv'
      <3> SUFFICES ASSUME NEW p \in Request, req'[p] # Idle
                   PROVE  /\ Chooses(req'[p]) => (target'[req'[p].in.target] # None
                                                   \/ req'[p].in.target \in req'[p].across)
                          /\ Keeps(req'[p]) => (target'[req'[p].got.target] # None
                                                 \/ req'[p].got.target \in req'[p].across)
        BY DEF BindingInv, Chooses, Keeps, KeepsTarget
      <3>1. CASE p = q
        BY <2>1, <2>4, <3>1 DEF Goes, At, Chooses, Keeps, KeepsTarget
      <3>2. CASE p # q
        <4>1. /\ Chooses(req'[p]) => Chooses(req[p])
              /\ Keeps(req'[p]) => Keeps(req[p])
              /\ req'[p].in = req[p].in /\ req'[p].got = req[p].got
              /\ req[p].across \subseteq req'[p].across /\ req[p] # Idle
          BY <2>4, <3>2 DEF Same, Chooses, Keeps, KeepsTarget
        <4>2. /\ Chooses(req[p]) => (target[req[p].in.target] # None
                                       \/ req[p].in.target \in req[p].across)
              /\ Keeps(req[p]) => (target[req[p].got.target] # None
                                       \/ req[p].got.target \in req[p].across)
          BY <4>1 DEF BoundInv, BindingInv
        <4>3. /\ Chooses(req'[p]) => req[p].in.target \in Target /\ req[p].op \in ConfigOps
              /\ Keeps(req'[p]) => req[p].got.target \in Target /\ req[p].op \in ConfigOps
          BY <2>4, <4>1
          DEF Chooses, Keeps, KeepsTarget, Shaped, PutInput, PatchInput, Config, ConfigOps, Goes
        <4> QED
          BY <2>2, <2>3, <4>1, <4>2, <4>3
      <3> QED
        BY <3>1, <3>2
    <2>7. StrandedOnlyByARace'
      BY <1>0, <2>1, <2>2, <2>3 DEF BoundInv, StrandedOnlyByARace, StoredTyped, Config
    <2> QED
      BY <2>3, <2>5, <2>6, <2>7 DEF BoundInv
  <1>6. CASE WriteConfig(q)
    <2> DEFINE s == req[q].x
    <2> DEFINE c == Configured(q, req[q].got)
    <2>1. /\ At(q, ConfigOps, "write") /\ config' = [config EXCEPT ![s] = c]
          /\ across' = IF config[s] # None /\ config[s].target = c.target THEN across
                       ELSE [across EXCEPT ![s] = req[q].across]
          /\ End(q) /\ UNCHANGED <<target, twKey>>
      BY <1>6 DEF WriteConfig, stepVars
    <2>2. /\ c \in Config /\ c # None /\ s \in Space
          /\ c.target \in Target
          /\ target[c.target] # None \/ c.target \in req[q].across
      <3>1. /\ c \in Config /\ c # None /\ s \in Space
            /\ \/ Chooses(req[q]) /\ c.target = req[q].in.target
               \/ Keeps(req[q]) /\ c.target = req[q].got.target
        BY <1>0, <2>1, ConfiguredFacts
      <3> QED
        BY <1>0, <3>1 DEF Config, BoundInv, BindingInv
    <2> HIDE DEF c
    <2>3. req[q].across \in SUBSET Target
      BY <1>0 DEF Shaped
    <2>4. StoredTyped'
      BY <1>0, <2>1, <2>2, <2>3 DEF StoredTyped
    <2>5. /\ req'[q] = Idle
          /\ \A p \in Request \ {q} : req'[p] = req[p]
      BY <1>0, <2>1, EndSteps
    <2>6. /\ config'[s] = c /\ \A r \in Space \ {s} : config'[r] = config[r] /\ across'[r] = across[r]
          /\ \/ config[s] # None /\ config[s].target = c.target /\ across'[s] = across[s]
             \/ across'[s] = req[q].across
      BY <1>0, <2>1, <2>2 DEF StoredTyped
    <2>7. RemovalInv'
      <3> SUFFICES ASSUME NEW d \in Request \ {q}, At(d, {"delete"}, "remove")
                   PROVE  /\ \A r \in Space : (config'[r] # None /\ config'[r].target = req[d].x)
                                                => req[d].x \in across'[r]
                          /\ \A p \in Request : (req'[p] # Idle /\ req'[p].op \in ConfigOps)
                                                  => req[d].x \in req'[p].across
        BY <2>5 DEF RemovalInv, At
      <3>1. /\ \A r \in Space : (config[r] # None /\ config[r].target = req[d].x)
                                  => req[d].x \in across[r]
            /\ \A p \in Request : (req[p] # Idle /\ req[p].op \in ConfigOps)
                                    => req[d].x \in req[p].across
        BY DEF BoundInv, RemovalInv
      <3>2. req[d].x \in req[q].across
        BY <1>0, <2>1, <3>1 DEF At
      <3> QED
        BY <2>5, <2>6, <3>1, <3>2
    <2>8. BindingInv'
      BY <2>1, <2>5 DEF BoundInv, BindingInv, Chooses, Keeps, KeepsTarget
    <2>9. StrandedOnlyByARace'
      BY <2>1, <2>2, <2>6 DEF BoundInv, StrandedOnlyByARace
    <2> QED
      BY <2>4, <2>7, <2>8, <2>9 DEF BoundInv
  <1> QED
    BY <1>1, <1>2, <1>3, <1>4, <1>5, <1>6, <1>7 DEF RequestStep

\* The new seal of a record is on the new key.
LEMMA ResealMakes ==
  ASSUME NEW rec \in Record
  PROVE  Resealed(rec) \in Record /\ Resealed(rec) # None /\ Resealed(rec).sealed.key = "new"
  <1>1. Resealed(rec) \in Record /\ Resealed(rec).sealed.key = "new"
    BY DEF Resealed, Record, Sealed, Keys
  <1> QED
    BY <1>1, RecordAssumption

\* What a command makes of a target.
LEMMA ResealSteps ==
  ASSUME CommandInv, StoredTyped, ResealTarget
  PROVE  \/ UNCHANGED targetVars
         \/ \E t \in Target :
              /\ t \in rot.todo /\ target[t] # None /\ rot.list[t] \in Record
              /\ target' = [target EXCEPT ![t] = Resealed(rot.list[t])]
              /\ want' = [want EXCEPT ![t] = IF @ = None THEN @ ELSE Resealed(@)]
              /\ calm' = IF Others(None, t) # {} \/ ~honest THEN calm \ {t} ELSE calm
              /\ UNCHANGED <<grants, config, up, twKey, seed, req, sweeping, across, meant,
                             leftover>>
  <1>1. rot \in Command /\ rot.cmd = "tw" /\ rot.todo \subseteq {t \in Target : rot.list[t] # None}
    BY DEF ResealTarget, CommandInv, SweepInv
  <1>2. \A t \in rot.todo : t \in Target /\ rot.list[t] \in Record
    BY <1>1 DEF Command
  <1> QED
    BY <1>2 DEF ResealTarget

\* Every step keeps the bindings in order.
LEMMA BoundKept ==
  ASSUME RequestsInv, BoundInv, CommandInv, CustodyNext
  PROVE  BoundInv'
  <1>0. RequestsTyped /\ StoredTyped
    BY DEF RequestsInv, BoundInv
  <1>1. CASE \E q \in Request : BeginRequest(q)
    <2>1. PICK q \in Request : BeginRequest(q) /\ Begins(q)
      BY <1>0, <1>1, BeginRequestSteps
    <2>2. UNCHANGED <<target, config, across, twKey>>
      BY <2>1 DEF BeginRequest, BeginCreate, BeginUpdate, BeginDelete, BeginGrants, BeginPut,
         BeginPatch, BeginSchedule, Begin
    <2>3. /\ ~Chooses(req'[q]) /\ ~Keeps(req'[q])
          /\ ~(req'[q].op = "delete" /\ req'[q].pc = "remove")
      BY <2>1 DEF Begins, First, Chooses, Keeps, KeepsTarget
    <2>4. \A p \in Request \ {q} : req'[p] # Idle =>
             /\ req[p] # Idle /\ req'[p].op = req[p].op /\ req'[p].pc = req[p].pc
             /\ req'[p].x = req[p].x /\ req'[p].in = req[p].in
             /\ req[p].op # "delete" => req'[p].got = req[p].got
             /\ req'[p].across = req[p].across
      BY <2>1 DEF Begins, Stays
    <2>5. RemovalInv'
      <3> SUFFICES ASSUME NEW d \in Request \ {q}, At(d, {"delete"}, "remove")'
                   PROVE  /\ \A s \in Space : (config[s] # None /\ config[s].target = req'[d].x)
                                                => req'[d].x \in across[s]
                          /\ \A p \in Request : (req'[p] # Idle /\ req'[p].op \in ConfigOps)
                                                  => req'[d].x \in req'[p].across
        BY <2>2, <2>3 DEF RemovalInv, At
      <3>1. At(d, {"delete"}, "remove") /\ req'[d].x = req[d].x
        BY <2>4 DEF At
      <3>2. req[d].x \in req'[q].across
        BY <2>1, <3>1 DEF Begins, Deleting, InFlight, At
      <3> QED
        BY <2>4, <3>1, <3>2 DEF BoundInv, RemovalInv
    <2>6. BindingInv'
      <3> SUFFICES ASSUME NEW p \in Request \ {q}, req'[p] # Idle
                   PROVE  /\ Chooses(req'[p]) => (target[req'[p].in.target] # None
                                                   \/ req'[p].in.target \in req'[p].across)
                          /\ Keeps(req'[p]) => (target[req'[p].got.target] # None
                                                 \/ req'[p].got.target \in req'[p].across)
        BY <2>2, <2>3 DEF BindingInv, Chooses, Keeps, KeepsTarget
      <3>1. /\ Chooses(req'[p]) => Chooses(req[p]) /\ req[p].op # "delete"
            /\ Keeps(req'[p]) => Keeps(req[p]) /\ req[p].op # "delete"
        BY <2>4 DEF Chooses, Keeps, KeepsTarget
      <3> QED
        BY <2>4, <3>1 DEF BoundInv, BindingInv
    <2>7. StoredTyped' /\ StrandedOnlyByARace'
      BY <2>2 DEF BoundInv, StoredTyped, StrandedOnlyByARace
    <2> QED
      BY <2>5, <2>6, <2>7 DEF BoundInv
  <1>2. CASE \E q \in Request : RequestStep(q)
    BY <1>2, RequestBound
  <1>3. CASE Stop \/ Start
    <2>1. UNCHANGED <<target, config, across>> /\ twKey' \in Keys
      BY <1>0, <1>3 DEF Stop, Start, StoredTyped
    <2>2. StoredTyped'
      BY <1>0, <2>1 DEF StoredTyped
    <2>3. \A p \in Request : req'[p] # Idle =>
             req'[p] = req[p] \/ (req[p] # Idle /\ Stays(req'[p], req[p]))
      BY <1>0, <1>3, StopSteps DEF Start
    <2> QED
      BY <1>0, <2>1, <2>2, <2>3, StillBound
  <1>4. CASE SeedList \/ SeedGrant
    <2>1. UNCHANGED <<target, config, across, twKey, req>>
      BY <1>4 DEF SeedList, SeedGrant
    <2>2. StoredTyped'
      BY <1>0, <2>1 DEF StoredTyped
    <2> QED
      BY <1>0, <2>1, <2>2, StillBound
  <1>5. CASE SeedCreate
    <2>1. PICK n \in Names, c \in Creds :
             target' = [target EXCEPT ![Seeded] =
                          [name |-> n, sealed |-> Seal([creds |-> c, maint |-> SeedMaint], twKey),
                           says |-> SeedMaint = "full"]]
      BY <1>5 DEF SeedCreate
    <2> DEFINE b == SeedMaint = "full"
    <2> DEFINE t == [name |-> n, sealed |-> [creds |-> c, sep |-> b, key |-> twKey], says |-> b]
    <2>2. target' = [target EXCEPT ![Seeded] = t]
      BY <2>1 DEF Seal
    <2>3. b \in BOOLEAN /\ twKey \in Keys
      BY <1>0 DEF StoredTyped
    <2> HIDE DEF b
    <2>4. t \in Record /\ t # None
      BY <2>3, RecordAssumption DEF Record, Sealed
    <2> HIDE DEF t
    <2>5. UNCHANGED <<config, across, twKey>>
      BY <1>5 DEF SeedCreate
    <2>6. StoredTyped' /\ \A u \in Target : target[u] # None => target'[u] # None
      BY <1>0, <2>2, <2>4, <2>5 DEF StoredTyped
    <2> QED
      BY <1>0, <1>5, <2>5, <2>6, SeedSteps, StillBound
  <1>6. CASE RotateTW
    <2>1. UNCHANGED <<target, config, across, twKey>>
      BY <1>6 DEF RotateTW, RotateBegin
    <2>2. StoredTyped'
      BY <1>0, <2>1 DEF StoredTyped
    <2> QED
      BY <1>0, <1>6, <2>1, <2>2, SweepSteps, StillBound
  <1>7. CASE Rotates
    <2>1. UNCHANGED <<config, across, req>>
      BY <1>7, OthersSteps
    <2>2. twKey' = twKey
      BY <1>7 DEF Rotates, RotateSRW, RotateBegin, ReadEnvelope, PutSRW, ResealTarget, RotateEnd,
         RotateAborts, targetVars
    <2>3. StoredTyped' /\ \A u \in Target : target[u] # None => target'[u] # None
      <3>1. CASE UNCHANGED target
        BY <1>0, <2>1, <2>2, <3>1 DEF StoredTyped
      <3>2. CASE \E t \in Target : /\ rot.list[t] \in Record
                                   /\ target' = [target EXCEPT ![t] = Resealed(rot.list[t])]
        <4>1. PICK t \in Target : /\ rot.list[t] \in Record
                                  /\ target' = [target EXCEPT ![t] = Resealed(rot.list[t])]
          BY <3>2
        <4>2. Resealed(rot.list[t]) \in Record /\ Resealed(rot.list[t]) # None
          BY <4>1, ResealMakes
        <4> QED
          BY <1>0, <2>1, <2>2, <4>1, <4>2 DEF StoredTyped
      <3> QED
        BY <1>0, <1>7, <3>1, <3>2, OthersSteps, ResealSteps DEF targetVars
    <2> QED
      BY <1>0, <2>1, <2>3, StillBound
  <1> QED
    BY <1>1, <1>2, <1>3, <1>4, <1>5, <1>6, <1>7
    DEF CustodyNext, ServiceStep, TargetNext, Rotates

-----------------------------------------------------------------------------
(* The edits.                                                               *)

EditInv == EditsTyped /\ CurrentInv /\ EditsAloneStand

\* Nothing is written, and a request that is alone reads what is there.
LEMMA QuietEdit ==
  ASSUME EditInv, UNCHANGED <<target, config, want>>, calm' \subseteq calm,
         \A p \in Request : (req'[p] # Idle /\ req'[p].alone) =>
            \/ Current(req'[p])
            \/ /\ req[p] # Idle /\ req[p].alone /\ req'[p].op = req[p].op
               /\ req'[p].x = req[p].x /\ req'[p].pc = req[p].pc
               /\ req[p].op # "delete" => req'[p].got = req[p].got
  PROVE  EditInv'
  <1>1. CurrentInv'
    <2> SUFFICES ASSUME NEW p \in Request, req'[p] # Idle, req'[p].alone
                 PROVE  Current(req'[p])
      BY DEF CurrentInv, Current
    <2> QED
      BY DEF EditInv, CurrentInv, Current, ReadFrom, ConfigOps
  <1>2. EditsTyped' /\ EditsAloneStand'
    BY DEF EditInv, EditsTyped, EditsAloneStand
  <1> QED
    BY <1>1, <1>2 DEF EditInv

\* One record is written, and no other request that is alone is about it.
LEMMA WriteEdit ==
  ASSUME EditInv, RequestsTyped, NEW x \in Target \cup Space,
         \A t \in Target \ {x} : target'[t] = target[t],
         \A s \in Space \ {x} : config'[s] = config[s],
         want' = [y \in Target \cup Space |-> want'[y]],
         \A y \in (Target \cup Space) \ {x} : want'[y] = want[y],
         calm' \subseteq calm,
         x \in calm' => want'[x] = IF x \in Target THEN target'[x] ELSE config'[x],
         \A p \in Request : (req'[p] # Idle /\ req'[p].alone) =>
            \/ req'[p].op = "delete"
            \/ /\ req[p] # Idle /\ req[p].alone /\ req[p].x # x
               /\ req'[p].op = req[p].op /\ req'[p].x = req[p].x /\ req'[p].pc = req[p].pc
               /\ req[p].op # "delete" => req'[p].got = req[p].got
  PROVE  EditInv'
  <1>1. CurrentInv'
    <2> SUFFICES ASSUME NEW p \in Request, req'[p] # Idle, req'[p].alone
                 PROVE  ReadFrom(req'[p], target', config')
      BY DEF CurrentInv, Current
    <2>1. CASE req'[p].op = "delete"
      BY <2>1 DEF ReadFrom, ConfigOps
    <2>2. CASE /\ req[p] # Idle /\ req[p].alone /\ req[p].x # x
               /\ req'[p].op = req[p].op /\ req'[p].x = req[p].x /\ req'[p].pc = req[p].pc
               /\ req[p].op # "delete" => req'[p].got = req[p].got
      <3>1. Current(req[p]) /\ Shaped(req[p])
        BY <2>2 DEF EditInv, CurrentInv, RequestsTyped
      <3>2. /\ req[p].op \in {"update", "grants"} =>
                  req[p].x \in Target /\ target'[req[p].x] = target[req[p].x]
            /\ req[p].op \in ConfigOps => req[p].x \in Space /\ config'[req[p].x] = config[req[p].x]
        BY <2>2, <3>1 DEF Shaped, TargetOps
      <3> QED
        BY <2>2, <3>1, <3>2 DEF Current, ReadFrom, ConfigOps
    <2> QED
      BY <2>1, <2>2
  <1>2. EditsTyped'
    BY DEF EditInv, EditsTyped
  <1>3. EditsAloneStand'
    BY DEF EditInv, EditsAloneStand, EditsTyped
  <1> QED
    BY <1>1, <1>2, <1>3 DEF EditInv

\* What an edit merges: the fields it names.
LEMMA MergedRecord ==
  ASSUME NEW old \in Record, NEW in \in Body
  PROVE  Merged(old, in) = [name |-> in.name, sealed |-> old.sealed, says |-> old.says]
  <1>1. DOMAIN old = {"name", "sealed", "says"} /\ DOMAIN in = {"name", "creds", "maint"}
    BY DEF Record, Body
  <1>2. in.name # None
    BY TargetsAssumption DEF Body
  <1>3. /\ Merged(old, in) = [f \in {"name", "sealed", "says"} |-> Merged(old, in)[f]]
        /\ Merged(old, in)["name"] = in.name
        /\ Merged(old, in)["sealed"] = old.sealed
        /\ Merged(old, in)["says"] = old.says
    BY <1>1, <1>2 DEF Merged
  <1> QED
    BY <1>3

\* Two configurations with the same fields are one.
LEMMA SameFields ==
  ASSUME NEW m, NEW c \in Config,
         m = [f \in {"target", "days", "enabled", "schedule"} |-> m[f]],
         m["target"] = c.target, m["days"] = c.days, m["enabled"] = c.enabled,
         m["schedule"] = c.schedule
  PROVE  m = c
  <1> DEFINE F == {"target", "days", "enabled", "schedule"}
  <1>1. c = [f \in F |-> c[f]]
    BY DEF Config
  <1>2. \A f \in F : m[f] = c[f]
    OBVIOUS
  <1> HIDE DEF F
  <1> QED
    BY <1>1, <1>2 DEF F

\* A configuration merged with an edit is what the edit stores.
LEMMA MergedConfig ==
  ASSUME RequestsTyped, NEW q \in Request, At(q, ConfigOps, "write"), req[q].got \in Config
  PROVE  Merged(req[q].got, req[q].in) = Configured(q, req[q].got)
  <1> DEFINE F == {"target", "days", "enabled", "schedule"}
  <1> DEFINE old == req[q].got
  <1> DEFINE in == req[q].in
  <1> DEFINE m == Merged(old, in)
  <1> DEFINE c == Configured(q, old)
  <1>1. Shaped(req[q]) /\ req[q].op \in ConfigOps
    BY DEF At, RequestsTyped
  <1>2. c \in Config
    BY ConfiguredFacts
  <1>3. DOMAIN old = F /\ m = [f \in F |-> m[f]]
    BY DEF Config, Merged
  <1>0. ASSUME NEW f \in F
        PROVE  m[f] = IF f \in DOMAIN in /\ in[f] # None THEN in[f] ELSE old[f]
    BY <1>3 DEF Merged
  <1>4. CASE req[q].op = "put"
    <2>1. in \in PutInput
      BY <1>1, <1>4 DEF Shaped
    <2>2. DOMAIN in = {"target", "days", "enabled"} /\ in.target # None /\ in.days # None
          /\ in.enabled # None
      BY <2>1, TargetsAssumption DEF PutInput
    <2>3. c = [target |-> in.target, days |-> in.days, enabled |-> in.enabled,
               schedule |-> old.schedule]
      BY <1>4, RecordAssumption DEF Configured
    <2>4. /\ m["target"] = in.target /\ m["days"] = in.days /\ m["enabled"] = in.enabled
          /\ m["schedule"] = old.schedule
      BY <1>0, <2>2
    <2>5. /\ c.target = in.target /\ c.days = in.days /\ c.enabled = in.enabled
          /\ c.schedule = old.schedule
      BY <2>3
    <2> HIDE DEF m, c
    <2> QED
      BY <1>2, <1>3, <2>4, <2>5, SameFields DEF m, c
  <1>5. CASE req[q].op = "patch"
    <2>1. in \in PatchInput
      BY <1>1, <1>5 DEF Shaped
    <2>2. DOMAIN in = {"target", "days", "enabled"}
      BY <2>1 DEF PatchInput
    <2>3. c = [old EXCEPT !.target = IF in.target = None THEN @ ELSE in.target,
                          !.days = IF in.days = None THEN @ ELSE in.days,
                          !.enabled = IF in.enabled = None THEN @ ELSE in.enabled]
      BY <1>5 DEF Configured
    <2>4. /\ m["target"] = IF in.target = None THEN old.target ELSE in.target
          /\ m["days"] = IF in.days = None THEN old.days ELSE in.days
          /\ m["enabled"] = IF in.enabled = None THEN old.enabled ELSE in.enabled
          /\ m["schedule"] = old.schedule
      BY <1>0, <2>2
    <2>5. /\ c.target = IF in.target = None THEN old.target ELSE in.target
          /\ c.days = IF in.days = None THEN old.days ELSE in.days
          /\ c.enabled = IF in.enabled = None THEN old.enabled ELSE in.enabled
          /\ c.schedule = old.schedule
      BY <1>3, <2>3
    <2> HIDE DEF m, c
    <2> QED
      BY <1>2, <1>3, <2>4, <2>5, SameFields DEF m, c
  <1>6. CASE req[q].op = "schedule"
    <2>1. in \in ScheduleInput
      BY <1>1, <1>6 DEF Shaped
    <2>2. DOMAIN in = {"schedule", "enabled"} /\ in.schedule # None /\ in.enabled # None
      BY <2>1, TargetsAssumption DEF ScheduleInput
    <2>3. c = [old EXCEPT !.schedule = in.schedule, !.enabled = in.enabled]
      BY <1>6 DEF Configured
    <2>4. /\ m["target"] = old.target /\ m["days"] = old.days /\ m["enabled"] = in.enabled
          /\ m["schedule"] = in.schedule
      BY <1>0, <2>2
    <2>5. /\ c.target = old.target /\ c.days = old.days /\ c.enabled = in.enabled
          /\ c.schedule = in.schedule
      BY <1>3, <2>3
    <2> HIDE DEF m, c
    <2> QED
      BY <1>2, <1>3, <2>4, <2>5, SameFields DEF m, c
  <1> QED
    BY <1>1, <1>4, <1>5, <1>6 DEF ConfigOps

\* A request that moves, or ends, leaves what the others have read alone.
LEMMA MovesEdit ==
  ASSUME RequestsTyped, EditInv, NEW q \in Request, StepOf(q),
         UNCHANGED <<target, config, want>>, calm' \subseteq calm,
         (req'[q] # Idle /\ req[q].alone) => Current(req'[q])
  PROVE  EditInv'
  <1>1. ASSUME NEW p \in Request, req'[p] # Idle, req'[p].alone
        PROVE  \/ Current(req'[p])
               \/ /\ req[p] # Idle /\ req[p].alone /\ req'[p].op = req[p].op
                  /\ req'[p].x = req[p].x /\ req'[p].pc = req[p].pc /\ req'[p].got = req[p].got
    BY <1>1 DEF StepOf, Same, Goes
  <1> QED
    BY <1>1, QuietEdit

\* A request that writes its record ends, and no other one about the record was
\* alone.
LEMMA WritesEdit ==
  ASSUME RequestsInv, EditInv, NEW q \in Request, StepOf(q),
         \A t \in Target \ {req[q].x} : target'[t] = target[t],
         \A s \in Space \ {req[q].x} : config'[s] = config[s],
         NEW v, Edited(q, req[q].x, v),
         (req[q].alone /\ req[q].x \in calm)
            => v = IF req[q].x \in Target THEN target'[req[q].x] ELSE config'[req[q].x],
         req'[q] = Idle \/ req[q].op = "delete"
  PROVE  EditInv'
  <1> DEFINE x == req[q].x
  <1>1. x \in Target \cup Space /\ RequestsTyped /\ req[q] # Idle
    BY DEF StepOf, Shaped, RequestsInv
  <1>2. want' = [want EXCEPT ![x] = v] /\ calm' = IF req[q].alone THEN calm ELSE calm \ {x}
    BY DEF Edited
  <1>3. /\ want' = [y \in Target \cup Space |-> want'[y]]
        /\ \A y \in (Target \cup Space) \ {x} : want'[y] = want[y]
        /\ want'[x] = v
    BY <1>1, <1>2 DEF EditInv, EditsTyped
  <1>4. calm' \subseteq calm /\ (x \in calm' => req[q].alone /\ x \in calm)
    BY <1>2
  <1>5. ASSUME NEW p \in Request, req'[p] # Idle, req'[p].alone
        PROVE  \/ req'[p].op = "delete"
               \/ /\ req[p] # Idle /\ req[p].alone /\ req[p].x # x
                  /\ req'[p].op = req[p].op /\ req'[p].x = req[p].x /\ req'[p].pc = req[p].pc
                  /\ req'[p].got = req[p].got
    <2>1. CASE p = q
      BY <1>5, <2>1 DEF StepOf, Goes
    <2>2. CASE p # q
      <3>1. req[p] # Idle /\ Same(req'[p], req[p])
        BY <1>5, <2>2 DEF StepOf
      <3>2. req[p].alone
        BY <1>5, <3>1 DEF Same
      <3>3. req[p].x # x
        BY <1>1, <2>2, <3>1, <3>2 DEF RequestsInv, ApartInv
      <3> QED
        BY <3>1, <3>2, <3>3 DEF Same
    <2> QED
      BY <2>1, <2>2
  <1> HIDE DEF x
  <1> QED
    BY <1>1, <1>3, <1>4, <1>5, WriteEdit DEF x

\* Every step of a request keeps the edits in order.
LEMMA RequestEdit ==
  ASSUME RequestsInv, StoredTyped, EditInv, NEW q \in Request, RequestStep(q)
  PROVE  EditInv'
  <1>0. StepOf(q) /\ RequestsTyped /\ Shaped(req[q]) /\ req[q] # Idle
    BY RequestSteps DEF RequestsInv, StepOf
  <1>00. req[q].alone => Current(req[q])
    BY <1>0 DEF EditInv, CurrentInv
  <1>7. CASE Abandon(q) /\ ~End(q)
    <2>1. UNCHANGED <<target, config, want, calm>>
      BY <1>7 DEF Abandon
    <2>2. Stays(req'[q], req[q])
      BY <1>0, <1>7, LeftSteps
    <2>3. req[q].alone => Current(req'[q])
      BY <1>00, <2>2 DEF Stays, Current, ReadFrom, ConfigOps
    <2> QED
      BY <1>0, <2>1, <2>3, MovesEdit
  <1>1. CASE RemoveGrants(q) \/ WriteGrants(q) \/ (Abandon(q) /\ End(q)) \/ Lose(q) \/ CountSpaces(q)
    <2>1. UNCHANGED <<target, config, want>> /\ calm' \subseteq calm
      BY <1>1 DEF RemoveGrants, WriteGrants, Abandon, Lose, CountSpaces, Settled
    <2>2. req'[q] # Idle => req'[q].op = "delete"
      BY <1>0, <1>1, EndSteps
      DEF RemoveGrants, WriteGrants, Lose, CountSpaces, At, StepOf, Goes
    <2>3. req'[q] # Idle => Current(req'[q])
      BY <2>2 DEF Current, ReadFrom, ConfigOps
    <2> QED
      BY <1>0, <2>1, <2>3, MovesEdit
  <1>2. CASE Load(q) \/ Reread(q)
    <2>1. UNCHANGED <<target, config, want, calm>> /\ req[q].op \in {"update", "grants"}
      BY <1>2 DEF Load, Reread, At
    <2>2. (req'[q] # Idle /\ req[q].alone) => Current(req'[q])
      <3> SUFFICES ASSUME req'[q] # Idle, req[q].alone PROVE Current(req'[q])
        OBVIOUS
      <3>1. ~End(q) /\ req'[q].op = req[q].op /\ req'[q].x = req[q].x
        BY <1>0, EndSteps DEF StepOf, Goes
      <3>2. CASE req[q].op = "grants"
        <4>1. target[req[q].x] # None
          BY <1>2, <3>1, <3>2 DEF Load, Reread, At
        <4> QED
          BY <3>1, <3>2, <4>1 DEF Current, ReadFrom, ConfigOps
      <3>3. CASE Load(q) /\ req[q].op = "update"
        <4>1. /\ target[req[q].x] # None
              /\ Goto(q, "reread", [says |-> target[req[q].x].says])
          BY <3>1, <3>3 DEF Load
        <4>2. req'[q].pc = "reread" /\ req'[q].got.says = target[req[q].x].says
          <5>1. req'[q].pc = "reread" /\ req'[q].got = [says |-> target[req[q].x].says]
            BY <1>0, <4>1, GotoGoes DEF Pcs
          <5> QED
            BY <5>1
        <4> QED
          BY <3>1, <3>3, <4>1, <4>2 DEF Current, ReadFrom, ConfigOps
      <3>4. CASE Reread(q)
        <4>1. /\ target[req[q].x] # None /\ req[q].op = "update" /\ req[q].pc = "reread"
              /\ Goto(q, "write", [says |-> req[q].got.says, sealed |-> target[req[q].x].sealed])
          BY <3>1, <3>4 DEF Reread, At
        <4>2. /\ req'[q].pc = "write" /\ req'[q].got.says = req[q].got.says
              /\ req'[q].got.sealed = target[req[q].x].sealed
          <5>1. /\ req'[q].pc = "write"
                /\ req'[q].got = [says |-> req[q].got.says, sealed |-> target[req[q].x].sealed]
            BY <1>0, <4>1, GotoGoes DEF Pcs
          <5> QED
            BY <5>1
        <4>3. req[q].got.says = target[req[q].x].says
          BY <1>00, <4>1 DEF Current, ReadFrom
        <4> QED
          BY <3>1, <4>1, <4>2, <4>3 DEF Current, ReadFrom, ConfigOps
      <3> QED
        BY <1>2, <2>1, <3>2, <3>3, <3>4
    <2> QED
      BY <1>0, <2>1, <2>2, MovesEdit
  <1>3. CASE MayUseTarget(q) \/ MayUseGrants(q) \/ ReadConfig(q)
    <2>1. UNCHANGED <<target, config, want, calm>> /\ req[q].op \in ConfigOps
      BY <1>3 DEF MayUseTarget, MayUseGrants, ReadConfig, At, ConfigOps
    <2>2. (req'[q] # Idle /\ req[q].alone) => Current(req'[q])
      <3> SUFFICES ASSUME req'[q] # Idle, req[q].alone PROVE Current(req'[q])
        OBVIOUS
      <3>1. ~End(q) /\ req'[q].op = req[q].op /\ req'[q].x = req[q].x
        BY <1>0, EndSteps DEF StepOf, Goes
      <3>2. CASE ReadConfig(q)
        <4>1. req'[q].got = config[req[q].x]
          BY <1>0, <3>1, <3>2, ReadMakes
        <4> QED
          BY <2>1, <3>1, <4>1 DEF Current, ReadFrom, ConfigOps
      <3>3. CASE MayUseTarget(q)
        <4>1. Goto(q, "grants", req[q].got) /\ req[q].pc = "target"
          BY <3>1, <3>3 DEF MayUseTarget, At
        <4>2. req'[q].pc = "grants" /\ req'[q].got = req[q].got
          BY <1>0, <4>1, GotoGoes DEF Pcs
        <4> QED
          BY <1>00, <2>1, <3>1, <4>1, <4>2 DEF Current, ReadFrom, ConfigOps
      <3>4. CASE MayUseGrants(q)
        <4>1. /\ Goto(q, IF req[q].op = "put" THEN "read" ELSE "write", req[q].got)
              /\ req[q].pc = "grants" /\ req[q].op \in {"put", "patch"}
          BY <3>1, <3>4 DEF MayUseGrants, At
        <4>2. CASE req[q].op = "put"
          <5>1. Goto(q, "read", req[q].got)
            BY <4>1, <4>2
          <5>2. req'[q].pc = "read"
            BY <1>0, <5>1, GotoGoes DEF Pcs
          <5> QED
            BY <3>1, <4>2, <5>2 DEF Current, ReadFrom, ConfigOps
        <4>3. CASE req[q].op = "patch"
          <5>1. Goto(q, "write", req[q].got)
            BY <4>1, <4>3
          <5>2. req'[q].pc = "write" /\ req'[q].got = req[q].got
            BY <1>0, <5>1, GotoGoes DEF Pcs
          <5> QED
            BY <1>00, <3>1, <4>1, <4>3, <5>2 DEF Current, ReadFrom, ConfigOps
        <4> QED
          BY <4>1, <4>2, <4>3
      <3> QED
        BY <1>3, <3>2, <3>3, <3>4
    <2> QED
      BY <1>0, <2>1, <2>2, MovesEdit
  <1>4. CASE WriteTarget(q)
    <2> DEFINE t == req[q].x
    <2> DEFINE u == Updated(q, req[q].got)
    <2> DEFINE v == IF req[q].in.creds # None \/ want[t] = None THEN u ELSE Merged(want[t], req[q].in)
    <2>1. /\ target' = [target EXCEPT ![t] = u] /\ config' = config /\ Edited(q, t, v)
          /\ At(q, {"create", "update"}, "write") /\ End(q)
      BY <1>4 DEF WriteTarget
    <2>2. u \in Record /\ t \in Target
      BY <1>0, <2>1, UpdatedFacts
    <2>3. target'[t] = u /\ \A r \in Target \ {t} : target'[r] = target[r]
      BY <2>1, <2>2 DEF StoredTyped
    <2>4. (req[q].alone /\ t \in calm) => v = u
      <3> SUFFICES ASSUME req[q].alone, t \in calm, req[q].in.creds = None, want[t] # None
                   PROVE  Merged(want[t], req[q].in) = u
        OBVIOUS
      <3>1. req[q].op = "update" /\ req[q].in \in Body /\ req[q].pc = "write"
        BY <1>0, <2>1 DEF At, Shaped
      <3>2. target[t] # None /\ req[q].got.says = target[t].says /\ req[q].got.sealed = target[t].sealed
        BY <1>00, <3>1 DEF Current, ReadFrom
      <3>3. want[t] = target[t] /\ target[t] \in Record
        BY <2>2, <3>2 DEF EditInv, EditsAloneStand, StoredTyped
      <3>4. u = [name |-> req[q].in.name, sealed |-> target[t].sealed, says |-> target[t].says]
        BY <3>2 DEF Updated
      <3> QED
        BY <3>1, <3>3, <3>4, MergedRecord
    <2>5. req'[q] = Idle
      BY <1>0, <2>1, EndSteps
    <2> HIDE DEF u, v
    <2> QED
      BY <1>0, <2>1, <2>2, <2>3, <2>4, <2>5, WritesEdit
  <1>5. CASE RemoveTarget(q)
    <2> DEFINE t == req[q].x
    <2>1. /\ target' = [target EXCEPT ![t] = None] /\ config' = config /\ Edited(q, t, None)
          /\ At(q, {"delete"}, "remove")
      BY <1>5 DEF RemoveTarget
    <2>2. t \in Target /\ req[q].op = "delete"
      BY <1>0, <2>1 DEF At, Shaped, TargetOps
    <2>3. target'[t] = None /\ \A r \in Target \ {t} : target'[r] = target[r]
      BY <2>1, <2>2 DEF StoredTyped
    <2> QED
      BY <1>0, <2>1, <2>2, <2>3, WritesEdit
  <1>6. CASE WriteConfig(q)
    <2> DEFINE s == req[q].x
    <2> DEFINE c == Configured(q, req[q].got)
    <2> DEFINE v == IF want[s] = None THEN c ELSE Merged(want[s], req[q].in)
    <2>1. /\ config' = [config EXCEPT ![s] = c] /\ target' = target /\ Edited(q, s, v)
          /\ At(q, ConfigOps, "write") /\ End(q)
      BY <1>6 DEF WriteConfig
    <2>2. c \in Config /\ s \in Space
      BY <1>0, <2>1, ConfiguredFacts
    <2>3. config'[s] = c /\ \A r \in Space \ {s} : config'[r] = config[r]
      BY <2>1, <2>2 DEF StoredTyped
    <2>4. s \notin Target
      BY <2>2, TargetsAssumption
    <2>5. (req[q].alone /\ s \in calm) => v = c
      <3> SUFFICES ASSUME req[q].alone, s \in calm, want[s] # None
                   PROVE  Merged(want[s], req[q].in) = c
        OBVIOUS
      <3>1. req[q].got = config[s]
        BY <1>00, <2>1 DEF Current, ReadFrom, At
      <3>2. want[s] = config[s] /\ config[s] \in Config
        BY <2>2, <2>4 DEF EditInv, EditsAloneStand, StoredTyped
      <3> QED
        BY <1>0, <2>1, <3>1, <3>2, MergedConfig
    <2>6. req'[q] = Idle
      BY <1>0, <2>1, EndSteps
    <2> HIDE DEF c, v
    <2> QED
      BY <1>0, <2>1, <2>2, <2>3, <2>4, <2>5, <2>6, WritesEdit
  <1> QED
    BY <1>1, <1>2, <1>3, <1>4, <1>5, <1>6, <1>7 DEF RequestStep

\* So does everything else.
LEMMA EditKept ==
  ASSUME RequestsInv, StoredTyped, EditInv, CommandInv, CustodyNext
  PROVE  EditInv'
  <1>0. RequestsTyped
    BY DEF RequestsInv
  <1>1. CASE \E q \in Request : BeginRequest(q)
    <2>1. PICK q \in Request : BeginRequest(q) /\ Begins(q)
      BY <1>0, <1>1, BeginRequestSteps
    <2>2. UNCHANGED <<target, config, want, calm>>
      BY <2>1 DEF BeginRequest, BeginCreate, BeginUpdate, BeginDelete, BeginGrants, BeginPut,
         BeginPatch, BeginSchedule, Begin
    <2>3. Current(req'[q])
      BY <2>1 DEF Begins, First, Current, ReadFrom, ConfigOps
    <2>4. \A p \in Request \ {q} : (req'[p] # Idle /\ req'[p].alone) =>
             /\ req[p] # Idle /\ req[p].alone /\ req'[p].op = req[p].op
             /\ req'[p].x = req[p].x /\ req'[p].pc = req[p].pc
             /\ req[p].op # "delete" => req'[p].got = req[p].got
      BY <2>1 DEF Begins, Stays
    <2> QED
      BY <2>2, <2>3, <2>4, QuietEdit
  <1>2. CASE \E q \in Request : RequestStep(q)
    BY <1>2, RequestEdit
  <1>3. CASE Stop \/ Start \/ SeedList \/ SeedGrant
    <2>1. UNCHANGED <<target, config, want, calm>>
      BY <1>3 DEF Stop, Start, SeedList, SeedGrant
    <2>2. \A p \in Request : req'[p] # Idle =>
             req'[p] = req[p] \/ (req[p] # Idle /\ Stays(req'[p], req[p]))
      BY <1>0, <1>3, StopSteps DEF Start, SeedList, SeedGrant
    <2> QED
      BY <2>1, <2>2, QuietEdit DEF Stays
  <1>4. CASE SeedCreate
    <2>1. PICK t : target' = [target EXCEPT ![Seeded] = t] /\ want' = [want EXCEPT ![Seeded] = t]
      BY <1>4 DEF SeedCreate
    <2>2. /\ Seeded \in Target /\ config' = config /\ calm' \subseteq calm
          /\ \A p \in Request : (req'[p] # Idle /\ req'[p].alone) =>
                /\ req[p] # Idle /\ req[p].alone /\ req[p].x # Seeded
                /\ Stays(req'[p], req[p])
      <3>1. Seeded \in Target /\ config' = config /\ calm' \subseteq calm
        BY <1>4, TargetsAssumption DEF SeedCreate
      <3>2. \A p \in Request : (req'[p] # Idle /\ req'[p].alone) =>
                /\ req[p] # Idle /\ req[p].alone /\ req[p].x # Seeded
                /\ Stays(req'[p], req[p])
        BY <1>0, <1>4, SeedSteps DEF Stays
      <3> QED
        BY <3>1, <3>2
    <2>3. /\ target'[Seeded] = t /\ \A r \in Target \ {Seeded} : target'[r] = target[r]
          /\ want'[Seeded] = t /\ want' = [y \in Target \cup Space |-> want'[y]]
          /\ \A y \in (Target \cup Space) \ {Seeded} : want'[y] = want[y]
      BY <2>1, <2>2 DEF StoredTyped, EditInv, EditsTyped
    <2> QED
      BY <1>0, <2>2, <2>3, WriteEdit DEF Stays
  <1>5. CASE RotateTW
    <2>1. UNCHANGED <<target, config, want, calm>>
      BY <1>5 DEF RotateTW, RotateBegin
    <2>2. \A p \in Request : req'[p] # Idle => ~req'[p].alone
      BY <1>0, <1>5, SweepSteps
    <2> QED
      BY <2>1, <2>2, QuietEdit
  <1>6. CASE Rotates
    <2>1. UNCHANGED <<config, req>>
      BY <1>6, OthersSteps
    <2>2. CASE UNCHANGED <<target, want, calm>>
      BY <2>1, <2>2, QuietEdit
    <2>3. CASE ResealTarget /\ ~UNCHANGED <<target, want, calm>>
      <3>1. PICK t \in Target :
              /\ t \in rot.todo /\ target[t] # None /\ rot.list[t] \in Record
              /\ target' = [target EXCEPT ![t] = Resealed(rot.list[t])]
              /\ want' = [want EXCEPT ![t] = IF @ = None THEN @ ELSE Resealed(@)]
              /\ calm' = IF Others(None, t) # {} \/ ~honest THEN calm \ {t} ELSE calm
        BY <2>3, ResealSteps DEF targetVars
      <3>2. sweeping
        BY <2>3 DEF ResealTarget, CommandInv, SweepInv
      <3>3. /\ target'[t] = Resealed(rot.list[t])
            /\ \A r \in Target \ {t} : target'[r] = target[r]
            /\ want'[t] = IF want[t] = None THEN None ELSE Resealed(want[t])
            /\ want' = [y \in Target \cup Space |-> want'[y]]
            /\ \A y \in (Target \cup Space) \ {t} : want'[y] = want[y]
            /\ calm' \subseteq calm
        BY <3>1 DEF StoredTyped, EditInv, EditsTyped
      <3>4. t \in calm' => want'[t] = target'[t]
        <4> SUFFICES ASSUME t \in calm' PROVE want'[t] = target'[t]
          OBVIOUS
        <4>1. t \in calm /\ honest
          BY <3>1
        <4>2. target[t] = rot.list[t]
          BY <2>3, <3>1, <4>1 DEF ResealTarget, CommandInv, SweepInv
        <4>3. want[t] = target[t]
          BY <4>1 DEF EditInv, EditsAloneStand
        <4> QED
          BY <3>1, <3>3, <4>2, <4>3
      <3>5. \A p \in Request : (req[p] # Idle /\ req[p].alone) => req[p].x # t
        BY <3>2 DEF RequestsInv, ApartInv
      <3> QED
        BY <1>0, <2>1, <3>3, <3>4, <3>5, WriteEdit
    <2> QED
      BY <1>6, <2>2, <2>3, OthersSteps
  <1> QED
    BY <1>1, <1>2, <1>3, <1>4, <1>5, <1>6
    DEF CustodyNext, ServiceStep, TargetNext, Rotates

-----------------------------------------------------------------------------
(* The audiences.                                                           *)

\* What does not touch the audiences leaves them in order, if no target goes and
\* the seeding does not move on.
LEMMA StillAudience ==
  ASSUME AudienceInv, UNCHANGED <<grants, meant, leftover>>, calm' \subseteq calm,
         \A t \in Target \cap calm' : target[t] # None => target'[t] # None,
         (Seeded \in calm' /\ target'[Seeded] # None) => target[Seeded] # None,
         seed' \in {"off", "list"} \/ seed' = seed,
         \A p \in Request : (req'[p] # Idle /\ req'[p].alone) =>
            /\ req[p] # Idle /\ req[p].alone /\ req'[p].x = req[p].x
            /\ At(p, {"delete"}, "ungrant")' => At(p, {"delete"}, "ungrant")
  PROVE  AudienceInv'
  <1>1. AudienceTyped' /\ AudienceStands'
    BY DEF AudienceInv, AudienceTyped, AudienceStands
  <1>2. NobodyMeant'
    BY DEF AudienceInv, NobodyMeant
  <1>3. UngrantInv'
    BY DEF AudienceInv, UngrantInv, At
  <1>4. SeedInv'
    BY TargetsAssumption DEF AudienceInv, SeedInv
  <1> QED
    BY <1>1, <1>2, <1>3, <1>4 DEF AudienceInv

\* The steps of a request.
LEMMA RequestAudience ==
  ASSUME RequestsInv, StoredTyped, EditInv, AudienceInv, NEW q \in Request, RequestStep(q)
  PROVE  AudienceInv'
  <1>0. StepOf(q) /\ RequestsTyped /\ Shaped(req[q]) /\ req[q] # Idle /\ seed' = seed
    BY RequestSteps
    DEF RequestsInv, StepOf, RequestStep, Load, Reread, WriteTarget, CountSpaces, RemoveTarget,
        RemoveGrants, WriteGrants, MayUseTarget, MayUseGrants, ReadConfig, WriteConfig, Abandon,
        Lose, stepVars
  <1>00. req[q].alone => Current(req[q])
    BY <1>0 DEF EditInv, CurrentInv
  <1> DEFINE t == req[q].x
  <1>1. /\ \A p \in Request : req'[p] # Idle =>
              req[p] # Idle /\ req'[p].alone = req[p].alone /\ req'[p].x = req[p].x
        /\ \A p \in Request \ {q} : At(p, {"delete"}, "ungrant")' => At(p, {"delete"}, "ungrant")
        /\ \A p \in Request \ {q} : (req[p] # Idle /\ req[p].alone) => req[p].x # t
    <2>1. \A p \in Request : req'[p] # Idle =>
              req[p] # Idle /\ req'[p].alone = req[p].alone /\ req'[p].x = req[p].x
      BY <1>0 DEF StepOf, Same, Goes
    <2>2. \A p \in Request \ {q} : At(p, {"delete"}, "ungrant")' => At(p, {"delete"}, "ungrant")
      BY <1>0 DEF StepOf, Same, At
    <2>3. \A p \in Request \ {q} : (req[p] # Idle /\ req[p].alone) => req[p].x # t
      BY <1>0 DEF RequestsInv, ApartInv
    <2> QED
      BY <2>1, <2>2, <2>3
  <1>2. CASE /\ ~WriteTarget(q) /\ ~RemoveTarget(q) /\ ~RemoveGrants(q) /\ ~WriteGrants(q)
    <2>1. UNCHANGED <<target, grants, meant, leftover>> /\ calm' \subseteq calm
      BY <1>2 DEF RequestStep, Load, Reread, CountSpaces, MayUseTarget, MayUseGrants, ReadConfig,
         WriteConfig, Edited, Abandon, Lose, stepVars
    <2>2. At(q, {"delete"}, "ungrant")' => At(q, {"delete"}, "ungrant")
      <3>1. CASE Abandon(q) /\ ~End(q)
        BY <1>0, <3>1, LeftSteps DEF Stays, At
      <3>2. CASE End(q)
        BY <1>0, <3>2, EndSteps DEF At
      <3>3. CASE CountSpaces(q)
        BY <1>0, <3>3, CountSteps DEF At
      <3>4. CASE req[q].op # "delete"
        BY <1>0, <3>4 DEF StepOf, Goes, At
      <3>5. req[q].op = "delete" => End(q) \/ CountSpaces(q) \/ (Abandon(q) /\ ~End(q))
        BY <1>2 DEF RequestStep, Load, Reread, MayUseTarget, MayUseGrants, ReadConfig, WriteConfig,
           Lose, At, ConfigOps
      <3> QED
        BY <3>1, <3>2, <3>3, <3>4, <3>5
    <2> QED
      BY <1>0, <1>1, <2>1, <2>2, StillAudience
  <1>3. CASE WriteTarget(q)
    <2>1. /\ target' = [target EXCEPT ![t] = Updated(q, req[q].got)]
          /\ At(q, {"create", "update"}, "write") /\ End(q)
          /\ UNCHANGED <<grants, meant, leftover>>
          /\ calm' = IF req[q].alone THEN calm ELSE calm \ {t}
      BY <1>3 DEF WriteTarget, Edited
    <2>2. Updated(q, req[q].got) # None /\ t \in Target
      BY <1>0, <2>1, UpdatedFacts
    <2>3. \A r \in Target : target[r] # None => target'[r] # None
      BY <2>1, <2>2 DEF StoredTyped
    <2>4. (Seeded \in calm' /\ target'[Seeded] # None) => target[Seeded] # None
      <3>1. CASE t # Seeded
        BY <2>1, <2>2, <3>1, TargetsAssumption DEF StoredTyped
      <3>2. CASE t = Seeded /\ req[q].alone
        <4>1. req[q].op = "update" /\ req[q].pc = "write"
          BY <1>0, <2>1, <3>2 DEF At, Shaped
        <4> QED
          BY <1>00, <3>2, <4>1 DEF Current, ReadFrom
      <3> QED
        BY <2>1, <3>1, <3>2
    <2>5. req'[q] = Idle
      BY <1>0, <2>1, EndSteps
    <2>6. calm' \subseteq calm
      BY <2>1
    <2> QED
      BY <1>0, <1>1, <2>1, <2>3, <2>4, <2>5, <2>6, StillAudience DEF At
  <1>4. CASE RemoveTarget(q)
    <2>1. /\ At(q, {"delete"}, "remove") /\ target' = [target EXCEPT ![t] = None] /\ grants' = grants
          /\ IF target[t] = None \/ req[q].gone THEN End(q) ELSE Goto(q, "ungrant", None)
          /\ calm' = IF req[q].alone THEN calm ELSE calm \ {t}
          /\ IF target[t] = None THEN UNCHANGED <<meant, leftover>>
             ELSE /\ meant' = [meant EXCEPT ![t] = {}]
                  /\ leftover' = leftover \cup {t}
      BY <1>4 DEF RemoveTarget, Edited
    <2>2. t \in Target /\ calm' \subseteq calm
      BY <1>0, <2>1 DEF Shaped, TargetOps, At
    <2>3. target'[t] = None /\ \A r \in Target \ {t} : target'[r] = target[r]
      BY <2>1, <2>2 DEF StoredTyped
    <2>4. CASE target[t] = None
      <3>1. target' = target
        BY <2>1, <2>4 DEF StoredTyped
      <3>2. req'[q] = Idle
        BY <1>0, <2>1, <2>4, EndSteps
      <3> QED
        BY <1>0, <1>1, <2>1, <2>2, <2>4, <3>1, <3>2, StillAudience DEF At
    <2>5. CASE target[t] # None
      <3>1. /\ meant' = [meant EXCEPT ![t] = {}] /\ leftover' = leftover \cup {t}
        BY <2>1, <2>5
      <3>2. meant'[t] = {} /\ \A r \in Target \ {t} : meant'[r] = meant[r]
        BY <2>2, <3>1 DEF AudienceInv, AudienceTyped
      <3>3. AudienceTyped' /\ AudienceStands' /\ NobodyMeant'
        BY <2>1, <2>2, <2>3, <3>1, <3>2 DEF AudienceInv, AudienceTyped, AudienceStands, NobodyMeant
      <3>4. UngrantInv'
        <4> SUFFICES ASSUME NEW p \in Request, At(p, {"delete"}, "ungrant")', req'[p].alone
                     PROVE  meant'[req'[p].x] = {}
          BY DEF UngrantInv
        <4>1. CASE p = q
          BY <1>1, <3>2, <4>1 DEF At
        <4>2. CASE p # q
          <5>1. At(p, {"delete"}, "ungrant") /\ req[p].alone /\ req'[p].x = req[p].x /\ req[p].x # t
            BY <1>1, <4>2 DEF At
          <5>2. req[p].x \in Target
            BY <1>0, <5>1 DEF At, RequestsTyped, Shaped, TargetOps
          <5> QED
            BY <3>2, <5>1, <5>2 DEF AudienceInv, UngrantInv
        <4> QED
          BY <4>1, <4>2
      <3>5. SeedInv'
        <4>1. seed = "grant" => \A p \in Request : (req[p] # Idle /\ req[p].x = Seeded) => ~req[p].alone
          BY DEF AudienceInv, SeedInv
        <4>2. (seed = "grant" /\ Seeded \in calm') => Seeded # t
          BY <1>0, <2>1, <4>1
        <4>3. Seeded \in Target
          BY TargetsAssumption
        <4>4. Seeded \in calm' =>
                 /\ seed = "create" => target'[Seeded] = None
                 /\ seed = "grant" => target'[Seeded] # None /\ meant'[Seeded] = {}
          BY <2>2, <2>3, <3>2, <4>2, <4>3 DEF AudienceInv, SeedInv
        <4>5. seed = "grant" =>
                 \A p \in Request : (req'[p] # Idle /\ req'[p].x = Seeded) => ~req'[p].alone
          BY <1>1, <4>1
        <4> QED
          BY <1>0, <4>4, <4>5 DEF SeedInv
      <3> QED
        BY <3>3, <3>4, <3>5 DEF AudienceInv
    <2> QED
      BY <2>4, <2>5
  <1>5. CASE RemoveGrants(q)
    <2>1. /\ At(q, {"delete"}, "ungrant") /\ grants' = [grants EXCEPT ![t] = {}] /\ End(q)
          /\ leftover' = leftover \ {t} /\ calm' = IF req[q].alone THEN calm ELSE calm \ {t}
          /\ UNCHANGED <<target, meant>>
      BY <1>5 DEF RemoveGrants, Settled
    <2>2. t \in Target /\ calm' \subseteq calm /\ req'[q] = Idle
      BY <1>0, <2>1, EndSteps DEF Shaped, TargetOps, At
    <2>3. t \in calm' => meant[t] = {}
      BY <2>1 DEF AudienceInv, UngrantInv
    <2>4. AudienceTyped' /\ AudienceStands' /\ NobodyMeant'
      BY <2>1, <2>2, <2>3 DEF AudienceInv, AudienceTyped, AudienceStands, NobodyMeant
    <2>5. UngrantInv'
      BY <1>1, <2>1, <2>2 DEF AudienceInv, UngrantInv, At
    <2>6. SeedInv'
      BY <1>0, <1>1, <2>1, <2>2 DEF AudienceInv, SeedInv
    <2> QED
      BY <2>4, <2>5, <2>6 DEF AudienceInv
  <1>6. CASE WriteGrants(q)
    <2> DEFINE list == req[q].in
    <2>1. /\ At(q, {"grants"}, "write") /\ grants' = [grants EXCEPT ![t] = list] /\ End(q)
          /\ meant' = [meant EXCEPT ![t] = list] /\ leftover' = leftover \ {t}
          /\ calm' = IF req[q].alone THEN calm ELSE calm \ {t}
          /\ target' = target
      BY <1>6 DEF WriteGrants, Settled
    <2>2. /\ t \in Target /\ calm' \subseteq calm /\ req'[q] = Idle /\ list \in SUBSET Granted
          /\ req[q].op = "grants" /\ req[q].pc = "write"
      BY <1>0, <2>1, EndSteps DEF Shaped, TargetOps, At, Granted
    <2> HIDE DEF list
    <2>3. /\ grants'[t] = list /\ \A r \in Target \ {t} : grants'[r] = grants[r]
          /\ meant'[t] = list /\ \A r \in Target \ {t} : meant'[r] = meant[r]
          /\ AudienceTyped'
      BY <2>1, <2>2 DEF AudienceInv, AudienceTyped
    <2>4. t \in calm' => target[t] # None
      BY <1>00, <2>1, <2>2 DEF Current, ReadFrom
    <2>5. AudienceStands' /\ NobodyMeant'
      BY <2>1, <2>2, <2>3, <2>4 DEF AudienceInv, AudienceStands, NobodyMeant
    <2>6. UngrantInv'
      <3> SUFFICES ASSUME NEW p \in Request \ {q}, At(p, {"delete"}, "ungrant")', req'[p].alone
                   PROVE  meant'[req'[p].x] = {}
        BY <2>2 DEF UngrantInv, At
      <3>1. At(p, {"delete"}, "ungrant") /\ req[p].alone /\ req'[p].x = req[p].x /\ req[p].x # t
        BY <1>1 DEF At
      <3>2. req[p].x \in Target
        BY <1>0, <3>1 DEF At, RequestsTyped, Shaped, TargetOps
      <3> QED
        BY <2>3, <3>1, <3>2 DEF AudienceInv, UngrantInv
    <2>7. SeedInv'
      <3>1. (seed = "grant" /\ Seeded \in calm') => Seeded # t
        BY <1>0, <2>1 DEF AudienceInv, SeedInv
      <3>2. Seeded \in Target
        BY TargetsAssumption
      <3> QED
        BY <1>0, <1>1, <2>1, <2>2, <2>3, <3>1, <3>2 DEF AudienceInv, SeedInv
    <2> QED
      BY <2>3, <2>5, <2>6, <2>7 DEF AudienceInv
  <1> QED
    BY <1>2, <1>3, <1>4, <1>5, <1>6

\* The steps of a seeding: it finds nothing under its id, and means its target for
\* everybody.
LEMMA SeedAudience ==
  ASSUME RequestsTyped, StoredTyped, AudienceInv, SeedList \/ SeedCreate \/ SeedGrant
  PROVE  AudienceInv'
  <1>0. Seeded \in Target
    BY TargetsAssumption
  <1>1. CASE SeedList
    <2>1. /\ UNCHANGED <<target, grants, meant, leftover, calm, req>>
          /\ seed' = "create" => target[Seeded] = None
          /\ seed' \in {"off", "create"}
      BY <1>0, <1>1 DEF SeedList
    <2> QED
      BY <2>1 DEF AudienceInv, AudienceTyped, NobodyMeant, UngrantInv, SeedInv, AudienceStands, At
  <1>2. CASE SeedCreate
    <2>1. /\ UNCHANGED <<grants, meant, leftover>> /\ calm' \subseteq calm /\ seed' = "grant"
          /\ seed = "create"
      BY <1>2 DEF SeedCreate
    <2>2. target'[Seeded] # None /\ \A r \in Target \ {Seeded} : target'[r] = target[r]
      <3>1. PICK n \in Names, c \in Creds :
               target' = [target EXCEPT ![Seeded] =
                            [name |-> n, sealed |-> Seal([creds |-> c, maint |-> SeedMaint], twKey),
                             says |-> SeedMaint = "full"]]
        BY <1>2 DEF SeedCreate
      <3> DEFINE b == SeedMaint = "full"
      <3> DEFINE rec == [name |-> n, sealed |-> [creds |-> c, sep |-> b, key |-> twKey], says |-> b]
      <3>2. target' = [target EXCEPT ![Seeded] = rec]
        BY <3>1 DEF Seal
      <3>3. b \in BOOLEAN /\ twKey \in Keys
        BY DEF StoredTyped
      <3> HIDE DEF b
      <3>4. rec \in Record /\ rec # None
        BY <3>3, RecordAssumption DEF Record, Sealed
      <3> HIDE DEF rec
      <3> QED
        BY <1>0, <3>2, <3>4 DEF StoredTyped
    <2>3. \A p \in Request : req'[p] # Idle =>
             /\ req[p] # Idle /\ Stays(req'[p], req[p]) /\ (req[p].x = Seeded => ~req'[p].alone)
      BY <1>2, SeedSteps
    <2>4. AudienceTyped' /\ AudienceStands' /\ NobodyMeant'
      BY <2>1, <2>2 DEF AudienceInv, AudienceTyped, AudienceStands, NobodyMeant
    <2>5. UngrantInv'
      BY <2>1, <2>3 DEF AudienceInv, UngrantInv, At, Stays
    <2>6. SeedInv'
      <3>1. Seeded \in calm' => meant[Seeded] = {}
        BY <1>0, <2>1 DEF AudienceInv, SeedInv, NobodyMeant
      <3> QED
        BY <2>1, <2>2, <2>3, <3>1 DEF SeedInv, Stays
    <2> QED
      BY <2>4, <2>5, <2>6 DEF AudienceInv
  <1>3. CASE SeedGrant
    <2> DEFINE list == grants[Seeded] \cup {AllUsers}
    <2>1. /\ grants' = [grants EXCEPT ![Seeded] = list] /\ meant' = [meant EXCEPT ![Seeded] = {AllUsers}]
          /\ seed = "grant" /\ seed' = "off"
          /\ UNCHANGED <<target, req, calm, leftover>>
      BY <1>3 DEF SeedGrant
    <2>2. list \in SUBSET Granted /\ {AllUsers} \in SUBSET Granted
      BY <1>0 DEF AudienceInv, AudienceTyped, Granted
    <2>3. Seeded \in calm \ leftover => list = {AllUsers}
      BY <1>0, <2>1 DEF AudienceInv, SeedInv, AudienceStands
    <2> HIDE DEF list
    <2>4. /\ grants'[Seeded] = list /\ \A r \in Target \ {Seeded} : grants'[r] = grants[r]
          /\ meant'[Seeded] = {AllUsers} /\ \A r \in Target \ {Seeded} : meant'[r] = meant[r]
          /\ AudienceTyped'
      BY <1>0, <2>1, <2>2 DEF AudienceInv, AudienceTyped
    <2>5. AudienceStands' /\ NobodyMeant'
      BY <1>0, <2>1, <2>3, <2>4 DEF AudienceInv, AudienceStands, NobodyMeant, SeedInv
    <2>6. UngrantInv'
      <3> SUFFICES ASSUME NEW p \in Request, At(p, {"delete"}, "ungrant"), req[p].alone
                   PROVE  meant'[req[p].x] = {}
        BY <2>1 DEF UngrantInv, At
      <3>1. req[p].x \in Target /\ req[p].x # Seeded
        BY <2>1 DEF At, RequestsTyped, Shaped, TargetOps, AudienceInv, SeedInv
      <3> QED
        BY <2>4, <3>1 DEF AudienceInv, UngrantInv
    <2>7. SeedInv'
      BY <2>1 DEF SeedInv
    <2> QED
      BY <2>4, <2>5, <2>6, <2>7 DEF AudienceInv
  <1> QED
    BY <1>1, <1>2, <1>3

\* Every step keeps the audiences in order.
LEMMA AudienceKept ==
  ASSUME RequestsInv, StoredTyped, EditInv, CommandInv, AudienceInv, CustodyNext
  PROVE  AudienceInv'
  <1>0. RequestsTyped /\ Seeded \in Target
    BY TargetsAssumption DEF RequestsInv
  <1>1. CASE \E q \in Request : BeginRequest(q)
    <2>1. PICK q \in Request : BeginRequest(q) /\ Begins(q)
      BY <1>0, <1>1, BeginRequestSteps
    <2>2. UNCHANGED <<target, grants, meant, leftover, calm, seed>> /\ seed = "off"
      BY <2>1 DEF BeginRequest, BeginCreate, BeginUpdate, BeginDelete, BeginGrants, BeginPut,
         BeginPatch, BeginSchedule, Begin
    <2>3. ~At(q, {"delete"}, "ungrant")'
      BY <2>1 DEF Begins, First, At
    <2>4. UngrantInv'
      BY <2>1, <2>2, <2>3 DEF AudienceInv, UngrantInv, At, Begins, Stays
    <2> QED
      BY <2>2, <2>4 DEF AudienceInv, AudienceTyped, AudienceStands, NobodyMeant, SeedInv
  <1>2. CASE \E q \in Request : RequestStep(q)
    BY <1>2, RequestAudience
  <1>3. CASE Stop
    <2>1. UNCHANGED <<target, grants, meant, leftover, calm>> /\ seed' = "off"
      BY <1>3 DEF Stop
    <2>2. \A p \in Request : req'[p] # Idle => req[p] # Idle /\ Stays(req'[p], req[p])
      BY <1>0, <1>3, StopSteps
    <2>3. \A p \in Request : (req'[p] # Idle /\ req'[p].alone) =>
            /\ req[p] # Idle /\ req[p].alone /\ req'[p].x = req[p].x
            /\ At(p, {"delete"}, "ungrant")' => At(p, {"delete"}, "ungrant")
      BY <2>2 DEF Stays, At
    <2> QED
      BY <2>1, <2>3, StillAudience
  <1>4. CASE Start
    <2>1. UNCHANGED <<target, grants, meant, leftover, calm, req>> /\ seed' = "list"
      BY <1>4 DEF Start
    <2> QED
      BY <2>1, StillAudience DEF At
  <1>5. CASE SeedList \/ SeedCreate \/ SeedGrant
    BY <1>0, <1>5, SeedAudience
  <1>6. CASE RotateTW
    <2>1. UNCHANGED <<target, grants, meant, leftover, calm, seed>>
      BY <1>6, OthersSteps
    <2>2. \A p \in Request : req'[p] # Idle => ~req'[p].alone
      BY <1>0, <1>6, SweepSteps
    <2> QED
      BY <2>1, <2>2, StillAudience
  <1>7. CASE Rotates
    <2>1. UNCHANGED <<req, seed, grants, meant, leftover>>
      BY <1>7, OthersSteps
    <2>2. calm' \subseteq calm /\ \A r \in Target : target[r] # None <=> target'[r] # None
      <3>1. CASE UNCHANGED <<target, calm>>
        BY <3>1
      <3>2. CASE ResealTarget /\ ~UNCHANGED <<target, calm>>
        <4>1. PICK r \in Target :
                /\ target[r] # None /\ rot.list[r] \in Record
                /\ target' = [target EXCEPT ![r] = Resealed(rot.list[r])]
                /\ calm' = IF Others(None, r) # {} \/ ~honest THEN calm \ {r} ELSE calm
          BY <3>2, ResealSteps DEF targetVars
        <4>2. Resealed(rot.list[r]) # None
          BY <4>1, ResealMakes
        <4> QED
          BY <4>1, <4>2 DEF StoredTyped
      <3> QED
        BY <1>7, <3>1, <3>2, OthersSteps
    <2> QED
      BY <1>0, <2>1, <2>2, StillAudience DEF At
  <1> QED
    BY <1>1, <1>2, <1>3, <1>4, <1>5, <1>6, <1>7
    DEF CustodyNext, ServiceStep, TargetNext, Rotates

-----------------------------------------------------------------------------
(* The command.                                                             *)

RotInv == EnvelopesTyped /\ CommandInv /\ RotationMovesEverything

\* A service that is down does nothing but start, so no step of the service
\* leaves a command's promise, or what a command has achieved, standing.
LEMMA ServiceEndsPromises ==
  ASSUME CommandInv, ServiceStep
  PROVE  ~honest' /\ moved' = {} /\ UNCHANGED <<srw, legacy, rot, sweeping>>
  <1>1. UNCHANGED sweeping
    <2>1. ASSUME NEW q \in Request, BeginRequest(q) PROVE UNCHANGED sweeping
      BY <2>1 DEF BeginRequest, BeginCreate, BeginUpdate, BeginDelete, BeginGrants, BeginPut,
         BeginPatch, BeginSchedule, Begin
    <2>2. ASSUME NEW q \in Request, RequestStep(q) PROVE UNCHANGED sweeping
      BY <2>2 DEF RequestStep, Load, Reread, WriteTarget, CountSpaces, RemoveTarget,
         RemoveGrants, WriteGrants, MayUseTarget, MayUseGrants, ReadConfig, WriteConfig,
         Abandon, Lose, stepVars
    <2> QED
      BY <2>1, <2>2, OthersSteps DEF ServiceStep, TargetNext
  <1>2. up \/ InFlight # {} => ~honest /\ moved = {}
    BY DEF CommandInv
  <1>3. CASE up \/ InFlight # {}
    BY <1>1, <1>2, <1>3 DEF ServiceStep
  <1>4. CASE ~up /\ InFlight = {}
    <2>1. \A q \in Request : req[q] = Idle
      BY <1>4 DEF InFlight
    <2>2. ASSUME NEW q \in Request, BeginRequest(q) PROVE FALSE
      BY <1>4, <2>2 DEF BeginRequest, BeginCreate, BeginUpdate, BeginDelete, BeginGrants,
         BeginPut, BeginPatch, BeginSchedule, Begin
    <2>3. ASSUME NEW q \in Request, RequestStep(q) PROVE FALSE
      <3>1. req[q] # Idle
        BY <2>3 DEF RequestStep, Load, Reread, WriteTarget, CountSpaces, RemoveTarget,
           RemoveGrants, WriteGrants, MayUseTarget, MayUseGrants, ReadConfig, WriteConfig,
           Abandon, Lose, At
      <3> QED
        BY <2>1, <3>1
    <2>4. Start
      BY <1>4, <2>2, <2>3 DEF ServiceStep, TargetNext, Stop, SeedList, SeedCreate, SeedGrant
    <2> QED
      BY <1>1, <1>4, <2>4 DEF Start, ServiceStep
  <1> QED
    BY <1>3, <1>4

\* What is read of an envelope's two places is typed, and is there for the
\* Spaces that are listed.
LEMMA Reads ==
  ASSUME EnvelopesTyped, NEW s \in Space
  PROVE  /\ GetSRW(s) \in Envelope \cup {None}
         /\ s \in EnvelopeSpaces <=> GetSRW(s) # None
  BY DEF EnvelopesTyped, GetSRW, EnvelopeSpaces

\* A command that begins has everything left to do.
LEMMA RotateBegins ==
  ASSUME StoredTyped, RotInv, RotateSRW \/ RotateTW
  PROVE  RotInv'
  <1>1. /\ UNCHANGED <<srw, legacy, moved, target, up>>
        /\ honest' = (~up /\ InFlight = {}) /\ honest' \in BOOLEAN
        /\ sweeping' \in BOOLEAN
    BY DEF RotateSRW, RotateTW, RotateBegin, RotInv, EnvelopesTyped
  <1>0. InFlight = {} => InFlight' = {}
    BY DEF RotateSRW, RotateTW, InFlight
  <1>2. EnvelopesTyped' /\ RotationMovesEverything'
    BY <1>1 DEF RotInv, EnvelopesTyped, RotationMovesEverything, GetSRW
  <1>3. CASE RotateSRW
    <2>1. rot' = [cmd |-> "srw", todo |-> EnvelopeSpaces, list |-> target, item |-> None, got |-> None]
      BY <1>3 DEF RotateSRW, RotateBegin
    <2>2. rot'.cmd = "srw" /\ rot'.todo = EnvelopeSpaces /\ rot'.item = None /\ rot' \in Command
      BY <2>1 DEF Command, EnvelopeSpaces, StoredTyped
    <2>3. EnvelopeInv' /\ SweepInv'
      BY <1>1, <2>2 DEF EnvelopeInv, SweepInv, GetSRW, EnvelopeSpaces
    <2> QED
      BY <1>0, <1>1, <1>2, <2>2, <2>3 DEF RotInv, CommandInv
  <1>4. CASE RotateTW
    <2> DEFINE all == {t \in Target : target[t] # None}
    <2>1. /\ rot' = [cmd |-> "tw", todo |-> all, list |-> target, item |-> None, got |-> None]
          /\ sweeping'
      BY <1>4 DEF RotateTW, RotateBegin
    <2>2. rot'.cmd = "tw" /\ rot'.todo = all /\ rot'.list = target /\ rot' \in Command
      BY <2>1 DEF Command, StoredTyped
    <2>3. EnvelopeInv' /\ SweepInv'
      BY <1>1, <2>1, <2>2 DEF EnvelopeInv, SweepInv
    <2> QED
      BY <1>0, <1>1, <1>2, <2>2, <2>3 DEF RotInv, CommandInv
  <1> QED
    BY <1>3, <1>4

\* One that reads an envelope passes over it only if it is on the new key.
LEMMA EnvelopeRead ==
  ASSUME RotInv, ReadEnvelope
  PROVE  RotInv'
  <1>1. /\ rot \in Command /\ rot.cmd = "srw" /\ rot.item = None
        /\ UNCHANGED <<srw, legacy, moved, honest, target, up, req, sweeping>>
    BY DEF ReadEnvelope, RotInv, CommandInv, targetVars
  <1>2. PICK s \in rot.todo :
          rot' = IF GetSRW(s).key = "new" THEN [rot EXCEPT !.todo = @ \ {s}]
                 ELSE [rot EXCEPT !.item = s, !.got = GetSRW(s)]
    BY DEF ReadEnvelope
  <1>3. s \in Space /\ GetSRW(s) \in Envelope /\ rot.todo \subseteq EnvelopeSpaces
    BY <1>1, <1>2, Reads DEF RotInv, CommandInv, EnvelopeInv, EnvelopeSpaces
  <1>4. EnvelopesTyped' /\ RotationMovesEverything'
    BY <1>1 DEF RotInv, EnvelopesTyped, RotationMovesEverything, GetSRW
  <1>5. rot' \in Command /\ rot'.cmd = "srw"
    BY <1>1, <1>2, <1>3 DEF Command
  <1>6. /\ rot'.todo \subseteq EnvelopeSpaces
        /\ rot'.item # None => rot'.item \in rot'.todo /\ rot'.got = GetSRW(rot'.item)
        /\ \A r \in Space : GetSRW(r) # None => (r \in rot'.todo \/ GetSRW(r).key = "new")
    <2>0. \A r \in Space : GetSRW(r) # None => (r \in rot.todo \/ GetSRW(r).key = "new")
      BY <1>1 DEF RotInv, CommandInv, EnvelopeInv
    <2>1. CASE GetSRW(s).key = "new"
      <3>1. rot'.todo = rot.todo \ {s} /\ rot'.item = None
        BY <1>1, <1>2, <2>1 DEF Command
      <3> QED
        BY <1>3, <2>0, <2>1, <3>1
    <2>2. CASE GetSRW(s).key # "new"
      <3>1. rot'.todo = rot.todo /\ rot'.item = s /\ rot'.got = GetSRW(s)
        BY <1>1, <1>2, <2>2 DEF Command
      <3> QED
        BY <1>2, <1>3, <2>0, <3>1
    <2> QED
      BY <2>1, <2>2
  <1>7. EnvelopeInv' /\ SweepInv'
    BY <1>1, <1>5, <1>6 DEF EnvelopeInv, SweepInv, GetSRW, EnvelopeSpaces
  <1> QED
    BY <1>1, <1>4, <1>5, <1>7 DEF RotInv, CommandInv, InFlight

\* One that puts an envelope changes its key alone.
LEMMA EnvelopePut ==
  ASSUME RotInv, PutSRW
  PROVE  RotInv'
  <1>1. /\ rot \in Command /\ rot.cmd = "srw" /\ rot.item \in Space /\ rot.item \in rot.todo
        /\ rot.got = GetSRW(rot.item) /\ rot.todo \subseteq EnvelopeSpaces
        /\ UNCHANGED <<legacy, moved, honest, target, up, req, sweeping>>
    BY DEF PutSRW, RotInv, CommandInv, EnvelopeInv, targetVars, Command
  <1>0. PICK s \in Space : s = rot.item
    BY <1>1
  <1> DEFINE e == [rot.got EXCEPT !.key = "new"]
  <1>2. rot.got \in Envelope /\ rot.got.dk = s
    BY <1>0, <1>1, Reads DEF RotInv, EnvelopesTyped, EnvelopeSpaces
  <1>3. e \in Envelope /\ e.dk = s /\ e.key = "new" /\ e # None
    <2>1. e \in Envelope /\ e.dk = s /\ e.key = "new"
      BY <1>2 DEF Envelope, Keys
    <2> QED
      BY <2>1, EnvelopeAssumption
  <1>4. srw' = [srw EXCEPT ![s] = e]
    BY <1>0 DEF PutSRW
  <1> HIDE DEF e
  <1>5. /\ srw' \in [Space -> Envelope \cup {None}] /\ srw'[s] = e
        /\ \A r \in Space \ {s} : srw'[r] = srw[r]
    BY <1>1, <1>3, <1>4 DEF RotInv, EnvelopesTyped
  <1>6. GetSRW(s)' = e /\ \A r \in Space \ {s} : GetSRW(r)' = GetSRW(r)
    BY <1>1, <1>3, <1>5 DEF GetSRW
  <1>7. EnvelopesTyped' /\ RotationMovesEverything'
    BY <1>1, <1>3, <1>5, <1>6 DEF RotInv, EnvelopesTyped, RotationMovesEverything
  <1>8. rot' = [rot EXCEPT !.todo = @ \ {s}, !.item = None]
    BY <1>0 DEF PutSRW
  <1>9. rot' \in Command /\ rot'.cmd = "srw" /\ rot'.todo = rot.todo \ {s} /\ rot'.item = None
    BY <1>1, <1>8 DEF Command
  <1>10. EnvelopeSpaces \subseteq EnvelopeSpaces'
    BY <1>1, <1>3, <1>5 DEF EnvelopeSpaces
  <1>11. EnvelopeInv'
    BY <1>0, <1>1, <1>3, <1>6, <1>9, <1>10 DEF RotInv, CommandInv, EnvelopeInv
  <1>12. SweepInv'
    BY <1>9 DEF SweepInv
  <1> QED
    BY <1>1, <1>7, <1>9, <1>11, <1>12 DEF RotInv, CommandInv, InFlight

\* One that rewrites a target leaves it on the new key.
LEMMA TargetResealed ==
  ASSUME StoredTyped, RotInv, ResealTarget
  PROVE  RotInv'
  <1>1. /\ rot \in Command /\ rot.cmd = "tw" /\ sweeping
        /\ rot.todo \subseteq {t \in Target : rot.list[t] # None}
        /\ UNCHANGED <<srw, legacy, moved, honest, up, req, sweeping>>
    BY DEF ResealTarget, RotInv, CommandInv, SweepInv, targetVars
  <1>2. PICK t \in rot.todo :
          /\ rot' = [rot EXCEPT !.todo = @ \ {t}]
          /\ \/ rot.list[t].sealed.key = "new" /\ target' = target
             \/ target[t] # None /\ target' = [target EXCEPT ![t] = Resealed(rot.list[t])]
    BY DEF ResealTarget, targetVars
  <1>3. t \in Target /\ rot.list[t] \in Record
    BY <1>1, <1>2 DEF Command
  <1>4. /\ \A r \in Target \ {t} : target'[r] = target[r]
        /\ \/ target'[t] = target[t] /\ rot.list[t].sealed.key = "new"
           \/ target[t] # None /\ target'[t].sealed.key = "new"
    BY <1>2, <1>3, ResealMakes DEF StoredTyped
  <1>5. rot' \in Command /\ rot'.cmd = "tw" /\ rot'.todo = rot.todo \ {t} /\ rot'.list = rot.list
    BY <1>1, <1>2 DEF Command
  <1>6. EnvelopesTyped' /\ RotationMovesEverything'
    <2>1. EnvelopesTyped'
      BY <1>1 DEF RotInv, EnvelopesTyped, GetSRW
    <2>2. "tw" \in moved' => \A r \in Target : target'[r] # None => target'[r].sealed.key = "new"
      BY <1>1, <1>4 DEF RotInv, RotationMovesEverything
    <2> QED
      BY <1>1, <2>1, <2>2 DEF RotInv, RotationMovesEverything, GetSRW
  <1>7. EnvelopeInv'
    BY <1>5 DEF EnvelopeInv
  <1>8. SweepInv'
    <2>1. honest => /\ \A r \in rot'.todo : target'[r] = rot'.list[r]
                    /\ \A r \in Target : target'[r] # None
                         => (r \in rot'.todo \/ target'[r].sealed.key = "new")
      <3> SUFFICES ASSUME honest
                   PROVE  /\ \A r \in rot'.todo : target'[r] = rot'.list[r]
                          /\ \A r \in Target : target'[r] # None
                               => (r \in rot'.todo \/ target'[r].sealed.key = "new")
        OBVIOUS
      <3>1. /\ \A r \in rot.todo : target[r] = rot.list[r]
            /\ \A r \in Target : target[r] # None => (r \in rot.todo \/ target[r].sealed.key = "new")
        BY <1>1 DEF RotInv, CommandInv, SweepInv
      <3>2. target'[t] # None => target'[t].sealed.key = "new"
        BY <1>2, <1>4, <3>1
      <3> QED
        BY <1>1, <1>4, <1>5, <3>1, <3>2
    <2> QED
      BY <1>1, <1>5, <2>1 DEF SweepInv
  <1> QED
    BY <1>1, <1>5, <1>6, <1>7, <1>8 DEF RotInv, CommandInv, InFlight

\* One that ends has nothing left to do; one that breaks off has promised nothing.
LEMMA RotateEnds ==
  ASSUME RotInv, RotateEnd \/ RotateAborts
  PROVE  RotInv'
  <1>1. /\ rot \in Command /\ rot' = NoCommand /\ sweeping' = FALSE
        /\ UNCHANGED <<srw, legacy, honest, target, up, req>>
    BY DEF RotateEnd, RotateAborts, RotInv, CommandInv
  <1>2. EnvelopesTyped' /\ EnvelopeInv' /\ SweepInv'
    BY <1>1 DEF RotInv, EnvelopesTyped, EnvelopeInv, SweepInv, GetSRW, NoCommand
  <1>3. CASE moved' = moved
    BY <1>1, <1>2, <1>3 DEF RotInv, CommandInv, InFlight, RotationMovesEverything, GetSRW
  <1>4. CASE RotateEnd /\ honest
    <2>1. moved' = moved \cup {rot.cmd} /\ rot.todo = {} /\ ~up /\ InFlight = {}
      BY <1>4 DEF RotateEnd, RotInv, CommandInv
    <2>2. "srw" \in moved' => \A s \in Space : GetSRW(s) # None => GetSRW(s).key = "new"
      BY <2>1 DEF RotInv, CommandInv, EnvelopeInv, RotationMovesEverything
    <2>3. "tw" \in moved' => \A t \in Target : target[t] # None => target[t].sealed.key = "new"
      BY <1>4, <2>1 DEF RotInv, CommandInv, SweepInv, RotationMovesEverything
    <2>4. RotationMovesEverything'
      BY <1>1, <2>2, <2>3 DEF RotInv, RotationMovesEverything, GetSRW
    <2> QED
      BY <1>1, <1>2, <2>1, <2>4 DEF RotInv, CommandInv, InFlight
  <1> QED
    BY <1>3, <1>4 DEF RotateEnd, RotateAborts

\* Every step keeps the command's account of what is left.
LEMMA RotationKept ==
  ASSUME StoredTyped, RotInv, CustodyNext
  PROVE  RotInv'
  <1>1. CASE ServiceStep
    <2>1. ~honest' /\ moved' = {} /\ UNCHANGED <<srw, legacy, rot, sweeping>>
      BY <1>1, ServiceEndsPromises DEF RotInv
    <2>2. EnvelopesTyped' /\ RotationMovesEverything'
      BY <1>1, <2>1 DEF RotInv, EnvelopesTyped, RotationMovesEverything, GetSRW, ServiceStep
    <2>3. EnvelopeInv' /\ SweepInv'
      BY <2>1 DEF RotInv, CommandInv, EnvelopeInv, SweepInv, GetSRW, EnvelopeSpaces
    <2> QED
      BY <2>1, <2>2, <2>3 DEF RotInv, CommandInv
  <1> QED
    BY <1>1, RotateBegins, EnvelopeRead, EnvelopePut, TargetResealed, RotateEnds DEF CustodyNext

-----------------------------------------------------------------------------
(* The theorems.                                                            *)

\* The invariant holds of a store with at most the seeded target, and of
\* envelopes that hold their Spaces' own keys.
LEMMA InitCustodyInv == CustodyInit => CustodyInv
  <1> SUFFICES ASSUME CustodyInit PROVE CustodyInv
    OBVIOUS
  <1>1. /\ req = [q \in Request |-> Idle] /\ \A q \in Request : req[q] = Idle
        /\ up = TRUE /\ sweeping = FALSE /\ twKey = "old"
        /\ config = [s \in Space |-> None] /\ across = [s \in Space |-> {}]
        /\ rot = NoCommand /\ honest = FALSE /\ moved = {} /\ calm = Target \cup Space
        /\ grants = [t \in Target |-> IF target[t] = None THEN {} ELSE {AllUsers}]
        /\ meant = grants /\ leftover = {} /\ seed = "list"
        /\ want = [x \in Target \cup Space |-> IF x \in Target THEN target[x] ELSE None]
    BY DEF CustodyInit, TargetInit
  <1>2. target \in [Target -> Record \cup {None}]
    <2>1. PICK c \in Creds, n \in Names :
            target \in {[t \in Target |-> None],
                       [t \in Target |-> IF t = Seeded
                          THEN [name |-> n, sealed |-> [creds |-> c, sep |-> FALSE, key |-> "old"],
                                says |-> FALSE]
                          ELSE None]}
      BY DEF CustodyInit, TargetInit
    <2> DEFINE rec == [name |-> n, sealed |-> [creds |-> c, sep |-> FALSE, key |-> "old"],
                       says |-> FALSE]
    <2>2. rec \in Record
      BY DEF Record, Sealed, Keys
    <2> HIDE DEF rec
    <2> QED
      BY <2>1, <2>2 DEF rec
  <1>3. RequestsTyped /\ ApartInv /\ QuietInv
    BY <1>1 DEF RequestsTyped, ApartInv, QuietInv
  <1>4. StoredTyped /\ RemovalInv /\ BindingInv /\ StrandedOnlyByARace
    BY <1>1, <1>2 DEF StoredTyped, RemovalInv, BindingInv, StrandedOnlyByARace, At, Keys
  <1>5. EditsTyped /\ CurrentInv /\ EditsAloneStand
    BY <1>1, TargetsAssumption DEF EditsTyped, CurrentInv, EditsAloneStand
  <1>6. AudienceInv
    BY <1>1 DEF AudienceInv, AudienceTyped, NobodyMeant, UngrantInv, SeedInv, AudienceStands, At,
       Granted
  <1>7. EnvelopesTyped
    <2>1. \A s \in Space : Wrapped(s, "old") \in Envelope
      BY DEF Wrapped, Envelope, Keys
    <2>2. srw \in [Space -> Envelope \cup {None}] /\ legacy \in [Space -> Envelope \cup {None}]
      BY <2>1 DEF CustodyInit
    <2>3. \A s \in Space : GetSRW(s) # None => GetSRW(s).dk = s
      BY DEF CustodyInit, GetSRW
    <2> QED
      BY <1>1, <2>2, <2>3 DEF EnvelopesTyped
  <1>8. CommandInv /\ RotationMovesEverything
    BY <1>1, <1>7 DEF CommandInv, EnvelopeInv, SweepInv, NoCommand, RotationMovesEverything,
       EnvelopesTyped
  <1> QED
    BY <1>3, <1>4, <1>5, <1>6, <1>7, <1>8 DEF CustodyInv

\* Every step keeps the invariant.
LEMMA NextCustodyInv == CustodyInv /\ [CustodyNext]_custodyVars => CustodyInv'
  <1> SUFFICES ASSUME CustodyInv, [CustodyNext]_custodyVars PROVE CustodyInv'
    OBVIOUS
  <1>1. CASE CustodyNext
    <2>1. RequestsInv /\ BoundInv /\ EditInv /\ RotInv
      BY DEF CustodyInv, RequestsInv, BoundInv, EditInv, RotInv
    <2>2. RequestsTyped /\ QuietInv /\ StoredTyped /\ CommandInv
      BY DEF CustodyInv
    <2>3. RequestsInv' /\ BoundInv' /\ EditInv' /\ RotInv'
      BY <1>1, <2>1, <2>2, RequestsKept, BoundKept, EditKept, RotationKept
    <2>4. AudienceInv'
      BY <1>1, <2>1, <2>2, AudienceKept DEF CustodyInv
    <2> QED
      BY <2>3, <2>4 DEF CustodyInv, RequestsInv, BoundInv, EditInv, RotInv
  <1>2. CASE UNCHANGED custodyVars
    <2>1. UNCHANGED <<target, grants, config, up, twKey, seed, req, sweeping, want, calm, across,
                      meant, leftover, srw, legacy, rot, honest, moved>>
      BY <1>2 DEF custodyVars, targetVars, rotVars
    <2>2. (RequestsTyped /\ ApartInv /\ QuietInv)'
      BY <2>1 DEF CustodyInv, RequestsTyped, ApartInv, QuietInv
    <2>3. (StoredTyped /\ RemovalInv /\ BindingInv /\ StrandedOnlyByARace)'
      BY <2>1 DEF CustodyInv, StoredTyped, RemovalInv, BindingInv, StrandedOnlyByARace, At, Chooses,
         Keeps
    <2>4. (EditsTyped /\ CurrentInv /\ EditsAloneStand)'
      BY <2>1 DEF CustodyInv, EditsTyped, CurrentInv, EditsAloneStand, Current
    <2>5. AudienceInv'
      BY <2>1 DEF CustodyInv, AudienceInv, AudienceTyped, NobodyMeant, UngrantInv, SeedInv,
         AudienceStands, At
    <2>6. (EnvelopesTyped /\ RotationMovesEverything)'
      BY <2>1 DEF CustodyInv, EnvelopesTyped, RotationMovesEverything, GetSRW
    <2>7. CommandInv'
      BY <2>1 DEF CustodyInv, CommandInv, EnvelopeInv, SweepInv, GetSRW, EnvelopeSpaces, InFlight
    <2> QED
      BY <2>2, <2>3, <2>4, <2>5, <2>6, <2>7 DEF CustodyInv
  <1> QED
    BY <1>1, <1>2

\* The invariant holds of every state the service and the commands reach.
LEMMA CustodyInvHolds == CustodySpec => []CustodyInv
  BY InitCustodyInv, NextCustodyInv, PTL DEF CustodySpec

\* A Space is bound to a target that is gone only if the deletion overlapped
\* the request that bound it - its write, which may land long after its answer,
\* included - or the one whose binding was written back.
THEOREM BindingsHold == CustodySpec => []StrandedOnlyByARace
  <1>1. CustodyInv => StrandedOnlyByARace
    BY DEF CustodyInv
  <1> QED
    BY <1>1, CustodyInvHolds, PTL

\* As long as no two edits of a target or of a Space's configuration overlap,
\* writes still on the way included, the record holds what those that took effect
\* say, one after another.
THEOREM NoEditIsLost == CustodySpec => []EditsAloneStand
  <1>1. CustodyInv => EditsAloneStand
    BY DEF CustodyInv
  <1> QED
    BY <1>1, CustodyInvHolds, PTL

\* As long as no two of a target's edits overlap, its grants are what was last
\* chosen, and none once it is deleted, unless the deletion did not get to them.
THEOREM GrantsAreChosen == CustodySpec => []AudienceStands
  <1>1. CustodyInv => AudienceStands
    BY DEF CustodyInv, AudienceInv
  <1> QED
    BY <1>1, CustodyInvHolds, PTL

\* A rotation that says it is done, with the service stopped throughout, has
\* left no record under the old key; an envelope holds its Space's own key.
THEOREM OldKeyIsNoLongerNeeded == CustodySpec => []RotationMovesEverything
  <1>1. CustodyInv => RotationMovesEverything
    BY DEF CustodyInv
  <1> QED
    BY <1>1, CustodyInvHolds, PTL

=============================================================================
