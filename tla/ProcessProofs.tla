---------------------------- MODULE ProcessProofs ----------------------------
(***************************************************************************)
(* Proofs about the service at work: its processes and the guard they      *)
(* claim (Service), for any processes, pasts, lifetimes of a record and    *)
(* numbers of failed calls; and its scheduler (Scheduler), for any Spaces, *)
(* schedules, slots and bounds.  The two share no state.                   *)
(***************************************************************************)
EXTENDS Scheduler, Service, FiniteSetTheorems, WellFoundedInduction, TLAPS

-----------------------------------------------------------------------------
(* The inductive invariant of the guard.                                    *)

Claiming == {"check", "watch", "clear", "write"}

\* The instances that have, or had, a record.
Began(i) == pc[i] \in {"run", "rewrite", "gone"}

GuardTypeOK ==
    /\ pc \in [Instance -> Claiming \cup {"new", "run", "rewrite", "refused", "gone"}]
    /\ rec \in [Instance -> Int] /\ \A i \in Instance : rec[i] >= -1
    /\ renewIn \in [Instance -> Nat]
    /\ left \in [Instance -> SUBSET Instance]
    /\ at \in [Instance -> Instance \cup {Nobody}]
    /\ seen \in [Instance -> Nat]
    /\ renewed \in [Instance -> BOOLEAN]
    /\ faults \in Nat
    /\ overwrites \in BOOLEAN
    /\ late \in [Instance -> BOOLEAN]
    /\ met \in [Instance -> SUBSET Instance]

\* Only an instance that got as far as writing it has a record, and a Claim
\* works only on such instances.
RecordInv ==
    \A i \in Instance :
        /\ rec[i] # -1 => Began(i)
        /\ \A k \in left[i] \cup met[i] : Began(k)
        /\ at[i] # Nobody => Began(at[i])
        /\ pc[i] \in {"watch", "clear"} => at[i] # Nobody
        /\ pc[i] = "new" => met[i] = {}

\* While an instance runs and was not late, its record is there and live.
LiveInv ==
    overwrites => \A i \in Instance : (Running(i) /\ ~late[i]) => rec[i] > 0

\* A Claim that watches a record knows the time left on it, until the record
\* is written again; it clears one only if its owner has stopped or was late.
WatchInv ==
    \A i \in Instance :
        /\ (pc[i] = "watch" /\ ~renewed[i] /\ rec[at[i]] # -1) => seen[i] = rec[at[i]]
        /\ (overwrites /\ pc[i] = "clear" /\ Running(at[i])) => late[at[i]]

\* An instance that ran when j listed, and runs and was not late, is one that j
\* has still to look at or is watching; so j does not get to write.
MetInv ==
    overwrites => \A j \in Instance : \A i \in met[j] :
        (Running(i) /\ ~late[i]) =>
            /\ pc[j] \in {"check", "clear"} => i \in left[j]
            /\ pc[j] = "watch" => (i \in left[j] \/ at[j] = i)
            /\ pc[j] \notin {"write", "run", "rewrite"}

GuardInv == GuardTypeOK /\ RecordInv /\ LiveInv /\ WatchInv /\ MetInv

-----------------------------------------------------------------------------
(* The inductive invariant of the process around it.                        *)

ServeTypeOK ==
    /\ stage \in [Instance -> {"boot", "wait", "claim", "build", "serve", "http", "drain",
                               "cleanup", "closing", "exit"}]
    /\ told \in [Instance -> BOOLEAN]
    /\ request \in [Instance -> {"none", "begun", "running"}]
    /\ ticker \in [Instance -> {"off", "idle", "running"}]
    /\ cut \in [Instance -> BOOLEAN]
    /\ landed \in [Instance -> BOOLEAN]

\* Where serve is tells where the guard is.
StageInv ==
    \A i \in Instance :
        /\ stage[i] \in {"boot", "wait"} => pc[i] = "new"
        /\ stage[i] = "claim" => pc[i] \in Claiming \cup {"new"}
        /\ stage[i] \in {"build", "serve", "http", "drain", "cleanup"} => Running(i)
        /\ stage[i] \in {"closing", "exit"} => pc[i] \in {"new", "refused", "gone"}

\* Nothing is at work before the service is built or after the process has
\* ended, nor, unless the drain timed out, once the record is withdrawn.
WorkInv ==
    \A i \in Instance :
        /\ stage[i] \in {"boot", "wait", "claim", "build", "exit"} =>
              request[i] = "none" /\ ticker[i] = "off"
        /\ stage[i] \in {"cleanup", "closing"} =>
              cut[i] \/ (request[i] # "running" /\ ticker[i] = "off")

\* A record in place is that of a running instance, or accounted for.
LandedInv == \A i \in Instance : rec[i] # -1 => landed[i] \/ Running(i)

\* An instance whose service was built has outlived, or was let in by the
\* lateness of, all those that ran when it listed, however long its runs go on.
AloneInv ==
    overwrites => \A j \in Instance :
        (request[j] = "running" \/ ticker[j] # "off") =>
            \A i \in met[j] : Running(i) => late[i]

ServiceInv ==
    /\ GuardInv
    /\ ServeTypeOK /\ StageInv /\ WorkInv /\ LandedInv /\ AloneInv

-----------------------------------------------------------------------------
(* The guard keeps its invariant.                                           *)

\* What a write of the record does, point by point.
LEMMA WrittenFacts ==
  ASSUME GuardTypeOK, NEW n \in Instance, Written(n)
  PROVE  /\ rec' \in [Instance -> Int] /\ renewIn' \in [Instance -> Nat]
         /\ renewed' \in [Instance -> BOOLEAN]
         /\ rec'[n] = TTL /\ TTL > 0
         /\ \A i \in Instance : i # n => rec'[i] = rec[i]
         /\ \A i \in Instance : ~renewed'[i] => (at[i] # n /\ ~renewed[i])
  <1>1. renewed' = [k \in Instance |-> renewed[k] \/ at[k] = n]
    BY DEF Written
  <1>2. \A i \in Instance : renewed'[i] <=> (renewed[i] \/ at[i] = n)
    BY <1>1, Zenon
  <1>3. renewed' \in [Instance -> BOOLEAN]
    BY <1>1 DEF GuardTypeOK
  <1>4. /\ rec' \in [Instance -> Int] /\ renewIn' \in [Instance -> Nat]
        /\ rec'[n] = TTL /\ TTL > 0
        /\ \A i \in Instance : i # n => rec'[i] = rec[i]
    BY InstanceAssumption DEF GuardTypeOK, Written
  <1> QED
    BY <1>2, <1>3, <1>4

\* Listing the records keeps it.
LEMMA ListGuard ==
  ASSUME GuardInv, NEW n \in Instance, List(n)
  PROVE  GuardInv'
  <1> USE InstanceAssumption DEF GuardInv, Began, Running, Claiming, claimVars, List
  <1>1. GuardTypeOK'
    BY DEF GuardTypeOK
  <1>2. RecordInv'
    BY DEF GuardTypeOK, RecordInv
  <1>3. LiveInv'
    BY DEF GuardTypeOK, RecordInv, LiveInv
  <1>4. WatchInv'
    BY DEF GuardTypeOK, RecordInv, LiveInv, WatchInv
  <1>5. MetInv'
    BY DEF GuardTypeOK, RecordInv, LiveInv, WatchInv, MetInv
  <1> QED
    BY <1>1, <1>2, <1>3, <1>4, <1>5

\* Reading the next record keeps it.
LEMMA CheckNextGuard ==
  ASSUME GuardInv, NEW n \in Instance, CheckNext(n)
  PROVE  GuardInv'
  <1> USE InstanceAssumption DEF GuardInv, Began, Running, Claiming, claimVars, CheckNext
  <1>1. GuardTypeOK'
    BY DEF GuardTypeOK
  <1>2. RecordInv'
    BY DEF GuardTypeOK, RecordInv
  <1>3. LiveInv'
    BY DEF GuardTypeOK, RecordInv, LiveInv
  <1>4. WatchInv'
    BY DEF GuardTypeOK, RecordInv, LiveInv, WatchInv
  <1>5. MetInv'
    BY DEF GuardTypeOK, RecordInv, LiveInv, WatchInv, MetInv
  <1> QED
    BY <1>1, <1>2, <1>3, <1>4, <1>5

\* Running out of records keeps it.
LEMMA CheckDoneGuard ==
  ASSUME GuardInv, NEW n \in Instance, CheckDone(n)
  PROVE  GuardInv'
  <1> USE InstanceAssumption DEF GuardInv, Began, Running, Claiming, claimVars, CheckDone
  <1>1. GuardTypeOK'
    BY DEF GuardTypeOK
  <1>2. RecordInv'
    BY DEF GuardTypeOK, RecordInv
  <1>3. LiveInv'
    BY DEF GuardTypeOK, RecordInv, LiveInv
  <1>4. WatchInv'
    BY DEF GuardTypeOK, RecordInv, LiveInv, WatchInv
  <1>5. MetInv'
    BY DEF GuardTypeOK, RecordInv, LiveInv, WatchInv, MetInv
  <1> QED
    BY <1>1, <1>2, <1>3, <1>4, <1>5

\* Reading a watched record again keeps it.
LEMMA WatchGuard ==
  ASSUME GuardInv, NEW n \in Instance, Watch(n)
  PROVE  GuardInv'
  <1> USE InstanceAssumption DEF GuardInv, Began, Running, Claiming, claimVars, Watch
  <1>1. GuardTypeOK'
    BY DEF GuardTypeOK
  <1>2. RecordInv'
    BY DEF GuardTypeOK, RecordInv
  <1>3. LiveInv'
    BY DEF GuardTypeOK, RecordInv, LiveInv
  <1>4. WatchInv'
    BY DEF GuardTypeOK, RecordInv, LiveInv, WatchInv
  <1>5. MetInv'
    BY DEF GuardTypeOK, RecordInv, LiveInv, WatchInv, MetInv
  <1> QED
    BY <1>1, <1>2, <1>3, <1>4, <1>5

\* Clearing a record keeps it.
LEMMA ClearGuard ==
  ASSUME GuardInv, NEW n \in Instance, Clear(n)
  PROVE  GuardInv'
  <1> USE InstanceAssumption DEF GuardInv, Began, Running, Claiming, claimVars, Clear
  <1>1. GuardTypeOK'
    BY DEF GuardTypeOK
  <1>2. RecordInv'
    BY DEF GuardTypeOK, RecordInv
  <1>3. LiveInv'
    BY DEF GuardTypeOK, RecordInv, LiveInv, WatchInv
  <1>4. WatchInv'
    BY DEF GuardTypeOK, RecordInv, LiveInv, WatchInv
  <1>5. MetInv'
    BY DEF GuardTypeOK, RecordInv, LiveInv, WatchInv, MetInv
  <1> QED
    BY <1>1, <1>2, <1>3, <1>4, <1>5

\* Writing the first record keeps it.
LEMMA WriteGuard ==
  ASSUME GuardInv, NEW n \in Instance, Write(n)
  PROVE  GuardInv'
  <1> USE InstanceAssumption DEF GuardInv, Began, Running, Claiming, claimVars, Written, Write
  <1>1. GuardTypeOK'
    BY DEF GuardTypeOK
  <1>2. RecordInv'
    BY DEF GuardTypeOK, RecordInv
  <1>3. LiveInv'
    BY DEF GuardTypeOK, RecordInv, LiveInv
  <1>4. WatchInv'
    BY DEF GuardTypeOK, RecordInv, LiveInv, WatchInv
  <1>5. MetInv'
    BY DEF GuardTypeOK, RecordInv, LiveInv, WatchInv, MetInv
  <1> QED
    BY <1>1, <1>2, <1>3, <1>4, <1>5

\* A renewal keeps it.
LEMMA RenewGuard ==
  ASSUME GuardInv, NEW n \in Instance, Renew(n)
  PROVE  GuardInv'
  <1> USE InstanceAssumption DEF GuardInv, Began, Running, Claiming, claimVars, Renew
  <1>1. GuardTypeOK'
    <2>1. CASE Written(n)
      BY <2>1, WrittenFacts DEF GuardTypeOK
    <2>2. CASE ~Written(n)
      BY <2>2 DEF GuardTypeOK
    <2> QED
      BY <2>1, <2>2
  <1>2. RecordInv'
    BY WrittenFacts DEF GuardTypeOK, RecordInv
  <1>3. LiveInv'
    BY WrittenFacts DEF GuardTypeOK, RecordInv, LiveInv
  <1>4. WatchInv'
    <2>1. CASE Written(n)
      BY <2>1, WrittenFacts DEF GuardTypeOK, RecordInv, WatchInv
    <2>2. CASE ~Written(n)
      BY <2>2 DEF GuardTypeOK, RecordInv, WatchInv
    <2> QED
      BY <2>1, <2>2
  <1>5. MetInv'
    BY WrittenFacts DEF GuardTypeOK, RecordInv, LiveInv, WatchInv, MetInv
  <1> QED
    BY <1>1, <1>2, <1>3, <1>4, <1>5

\* The second half of a renewal keeps it.
LEMMA RewriteGuard ==
  ASSUME GuardInv, NEW n \in Instance, Rewrite(n)
  PROVE  GuardInv'
  <1> USE InstanceAssumption DEF GuardInv, Began, Running, Claiming, claimVars, Rewrite
  <1>1. GuardTypeOK'
    BY WrittenFacts DEF GuardTypeOK
  <1>2. RecordInv'
    BY WrittenFacts DEF GuardTypeOK, RecordInv
  <1>3. LiveInv'
    BY WrittenFacts DEF GuardTypeOK, RecordInv, LiveInv
  <1>4. WatchInv'
    BY WrittenFacts DEF GuardTypeOK, RecordInv, WatchInv
  <1>5. MetInv'
    BY WrittenFacts DEF GuardTypeOK, RecordInv, LiveInv, WatchInv, MetInv
  <1> QED
    BY <1>1, <1>2, <1>3, <1>4, <1>5

\* A renewal that fails keeps it.
LEMMA RenewFailsGuard ==
  ASSUME GuardInv, NEW n \in Instance, RenewFails(n)
  PROVE  GuardInv'
  <1> USE InstanceAssumption DEF GuardInv, Began, Running, Claiming, claimVars, Written, RenewFails
  <1>1. GuardTypeOK'
    BY DEF GuardTypeOK
  <1>2. RecordInv'
    BY DEF GuardTypeOK, RecordInv
  <1>3. LiveInv'
    BY DEF GuardTypeOK, RecordInv, LiveInv
  <1>4. WatchInv'
    BY DEF GuardTypeOK, RecordInv, LiveInv, WatchInv
  <1>5. MetInv'
    BY DEF GuardTypeOK, RecordInv, LiveInv, WatchInv, MetInv
  <1> QED
    BY <1>1, <1>2, <1>3, <1>4, <1>5

\* Standing down keeps it.
LEMMA ReleaseGuard ==
  ASSUME GuardInv, NEW n \in Instance, Release(n)
  PROVE  GuardInv'
  <1> USE InstanceAssumption DEF GuardInv, Began, Running, Claiming, claimVars, Release
  <1>1. GuardTypeOK'
    <2>1. CASE Written(n)
      BY <2>1, WrittenFacts DEF GuardTypeOK
    <2>2. CASE ~Written(n)
      BY <2>2 DEF GuardTypeOK
    <2> QED
      BY <2>1, <2>2
  <1>2. RecordInv'
    BY WrittenFacts DEF GuardTypeOK, RecordInv
  <1>3. LiveInv'
    BY WrittenFacts DEF GuardTypeOK, RecordInv, LiveInv
  <1>4. WatchInv'
    <2>1. CASE Written(n)
      BY <2>1, WrittenFacts DEF GuardTypeOK, RecordInv, WatchInv
    <2>2. CASE ~Written(n)
      BY <2>2 DEF GuardTypeOK, RecordInv, WatchInv
    <2> QED
      BY <2>1, <2>2
  <1>5. MetInv'
    BY WrittenFacts DEF GuardTypeOK, RecordInv, LiveInv, WatchInv, MetInv
  <1> QED
    BY <1>1, <1>2, <1>3, <1>4, <1>5

\* Dying keeps it.
LEMMA DieGuard ==
  ASSUME GuardInv, NEW n \in Instance, Die(n)
  PROVE  GuardInv'
  <1> USE InstanceAssumption DEF GuardInv, Began, Running, Claiming, claimVars, Written, Die
  <1>1. GuardTypeOK'
    BY DEF GuardTypeOK
  <1>2. RecordInv'
    BY DEF GuardTypeOK, RecordInv
  <1>3. LiveInv'
    BY DEF GuardTypeOK, RecordInv, LiveInv
  <1>4. WatchInv'
    BY DEF GuardTypeOK, RecordInv, LiveInv, WatchInv
  <1>5. MetInv'
    BY DEF GuardTypeOK, RecordInv, LiveInv, WatchInv, MetInv
  <1> QED
    BY <1>1, <1>2, <1>3, <1>4, <1>5

\* The passing of time keeps it.
LEMMA TickGuard ==
  ASSUME GuardInv, Tick
  PROVE  GuardInv'
  <1> USE InstanceAssumption DEF GuardInv, Began, Running, Claiming, Tick
  <1>1. GuardTypeOK'
    BY DEF GuardTypeOK
  <1>2. RecordInv'
    BY DEF GuardTypeOK, RecordInv
  <1>3. LiveInv'
    <2> SUFFICES ASSUME overwrites, NEW i \in Instance, Running(i), ~late'[i]
                 PROVE  rec'[i] > 0
      BY DEF LiveInv
    <2>1. ~late[i] /\ ~(rec[i] > 0 /\ rec'[i] = 0)
      BY DEF GuardTypeOK
    <2>2. rec[i] > 0
      BY <2>1 DEF LiveInv
    <2> QED
      BY <2>1, <2>2 DEF GuardTypeOK
  <1>4. WatchInv'
    BY DEF GuardTypeOK, RecordInv, LiveInv, WatchInv
  <1>5. MetInv'
    BY DEF GuardTypeOK, RecordInv, LiveInv, WatchInv, MetInv
  <1> QED
    BY <1>1, <1>2, <1>3, <1>4, <1>5

\* A Claim that fails keeps it, whether its record got there or not.
LEMMA ClaimFailsGuard ==
  ASSUME GuardInv, NEW n \in Instance, ClaimFails(n)
  PROVE  GuardInv'
  <1> USE InstanceAssumption DEF GuardInv, Began, Running, Claiming, claimVars, ClaimFails
  <1>1. GuardTypeOK'
    BY WrittenFacts DEF GuardTypeOK
  <1>2. RecordInv'
    BY WrittenFacts DEF GuardTypeOK, RecordInv
  <1>3. LiveInv'
    BY WrittenFacts DEF GuardTypeOK, RecordInv, LiveInv
  <1>4. WatchInv'
    BY WrittenFacts DEF GuardTypeOK, RecordInv, LiveInv, WatchInv
  <1>5. MetInv'
    BY WrittenFacts DEF GuardTypeOK, RecordInv, LiveInv, WatchInv, MetInv
  <1> QED
    BY <1>1, <1>2, <1>3, <1>4, <1>5

\* Standing down and leaving the record keeps it.
LEMMA StandDownFailsGuard ==
  ASSUME GuardInv, NEW n \in Instance, StandDownFails(n)
  PROVE  GuardInv'
  <1> USE InstanceAssumption DEF GuardInv, Began, Running, Claiming, claimVars, StandDownFails
  <1>1. GuardTypeOK'
    BY DEF GuardTypeOK
  <1>2. RecordInv'
    BY DEF GuardTypeOK, RecordInv
  <1>3. LiveInv'
    BY DEF GuardTypeOK, RecordInv, LiveInv
  <1>4. WatchInv'
    BY DEF GuardTypeOK, RecordInv, LiveInv, WatchInv
  <1>5. MetInv'
    BY DEF GuardTypeOK, RecordInv, LiveInv, WatchInv, MetInv
  <1> QED
    BY <1>1, <1>2, <1>3, <1>4, <1>5

\* It is about the guard's variables only.
LEMMA GuardStutter ==
  ASSUME GuardInv, UNCHANGED guardVars
  PROVE  GuardInv'
  BY DEF GuardInv, GuardTypeOK, RecordInv, LiveInv, WatchInv, MetInv, Began, Running,
         guardVars, claimVars

\* Every step of the service keeps it.
LEMMA GuardStep ==
  ASSUME GuardInv, ServiceNext
  PROVE  GuardInv'
  <1>1. CASE Clock
    BY <1>1, TickGuard DEF Clock
  <1>2. CASE AllExited
    BY <1>2, GuardStutter DEF AllExited, serviceVars
  <1>3. ASSUME NEW i \in Instance,
               Starting(i) \/ StateSpaceAnswers(i) \/ GiveUpWaiting(i) \/ Accept(i) \/ Go(i)
                 \/ ManualEnds(i) \/ Work(i) \/ Tell(i) \/ Stop(i) \/ HandlersAnswered(i)
                 \/ Drain(i) \/ Exit(i)
        PROVE  GuardInv'
    BY <1>3, GuardStutter
    DEF Starting, Configure, Build, StateSpaceAnswers, GiveUpWaiting, Accept, Go,
        ManualEnds, Work, Tell, Stop, HandlersAnswered, Drain, Exit
  <1>4. ASSUME NEW i \in Instance, Claim(i) PROVE GuardInv'
    BY <1>4, ListGuard, CheckNextGuard, CheckDoneGuard, WatchGuard, ClearGuard, WriteGuard
    DEF Claim, ClaimStep
  <1>5. ASSUME NEW i \in Instance, Renewal(i) PROVE GuardInv'
    BY <1>5, RenewGuard, RewriteGuard, RenewFailsGuard DEF Renewal, Renewing
  <1>6. ASSUME NEW i \in Instance, StandDown(i) PROVE GuardInv'
    BY <1>6, ReleaseGuard DEF StandDown
  <1>7. ASSUME NEW i \in Instance, Kill(i) PROVE GuardInv'
    BY <1>7, DieGuard DEF Kill
  <1> QED
    BY <1>1, <1>2, <1>3, <1>4, <1>5, <1>6, <1>7, ClaimFailsGuard, StandDownFailsGuard
    DEF ServiceNext, Stopping

-----------------------------------------------------------------------------
(* The process keeps its invariant.                                         *)

ProcessInv == ServeTypeOK /\ StageInv /\ WorkInv /\ LandedInv

\* A step of a process keeps its stages, its work and the account of its record.
LEMMA ProcessStep ==
  ASSUME ServiceInv, NEW i \in Instance,
         \/ Starting(i) \/ StateSpaceAnswers(i) \/ GiveUpWaiting(i) \/ ClaimFails(i)
         \/ Accept(i) \/ Go(i) \/ ManualEnds(i) \/ Work(i)
         \/ Tell(i) \/ Stopping(i) \/ StandDownFails(i) \/ Kill(i)
  PROVE  ProcessInv'
  <1> USE InstanceAssumption
      DEF ServiceInv, GuardInv, GuardTypeOK, ProcessInv, ServeTypeOK, StageInv, WorkInv,
          LandedInv, Running, Claiming, At, Enters, guardVars, claimVars
  <1>1. CASE Configure(i)
    BY <1>1 DEF Configure
  <1>2. CASE StateSpaceAnswers(i)
    BY <1>2 DEF StateSpaceAnswers
  <1>3. CASE GiveUpWaiting(i)
    BY <1>3 DEF GiveUpWaiting
  <1>4. CASE Build(i)
    BY <1>4 DEF Build
  <1>5. CASE Accept(i)
    BY <1>5 DEF Accept
  <1>6. CASE Go(i)
    BY <1>6 DEF Go
  <1>7. CASE ManualEnds(i)
    BY <1>7 DEF ManualEnds
  <1>8. CASE Work(i)
    BY <1>8 DEF Work
  <1>9. CASE Tell(i)
    BY <1>9 DEF Tell
  <1>10. CASE Stop(i)
    BY <1>10 DEF Stop
  <1>11. CASE HandlersAnswered(i)
    BY <1>11 DEF HandlersAnswered
  <1>12. CASE Drain(i)
    <2>1. ServeTypeOK'
      BY <1>12 DEF Drain, Drained
    <2>2. StageInv'
      BY <1>12 DEF Drain, Drained
    <2>3. WorkInv'
      BY <1>12 DEF Drain, Drained
    <2>4. LandedInv'
      BY <1>12 DEF Drain, Drained
    <2> QED
      BY <2>1, <2>2, <2>3, <2>4
  <1>13. CASE Exit(i)
    BY <1>13 DEF Exit
  <1>14. CASE ClaimFails(i)
    <2>1. ServeTypeOK'
      BY <1>14 DEF ClaimFails
    <2>2. StageInv'
      BY <1>14, WrittenFacts DEF ClaimFails
    <2>3. WorkInv'
      BY <1>14, WrittenFacts DEF ClaimFails
    <2>4. LandedInv'
      BY <1>14, WrittenFacts DEF ClaimFails
    <2> QED
      BY <2>1, <2>2, <2>3, <2>4
  <1>15. CASE StandDown(i)
    <2>1. ServeTypeOK'
      BY <1>15, WrittenFacts DEF StandDown, Release
    <2>2. StageInv'
      BY <1>15, WrittenFacts DEF StandDown, Release
    <2>3. WorkInv'
      BY <1>15, WrittenFacts DEF StandDown, Release
    <2>4. LandedInv'
      <3>1. /\ landed'[i] <=> rec'[i] # -1
            /\ \A k \in Instance \ {i} : landed'[k] = landed[k]
        BY <1>15 DEF StandDown
      <3>2. \A k \in Instance \ {i} : rec'[k] = rec[k] /\ pc'[k] = pc[k]
        BY <1>15, WrittenFacts DEF StandDown, Release
      <3> QED
        BY <3>1, <3>2
    <2> QED
      BY <2>1, <2>2, <2>3, <2>4
  <1>16. CASE StandDownFails(i)
    BY <1>16 DEF StandDownFails
  <1>17. CASE Kill(i)
    BY <1>17 DEF Kill, Die
  <1> QED
    BY <1>1, <1>2, <1>3, <1>4, <1>5, <1>6, <1>7, <1>8, <1>9, <1>10, <1>11, <1>12, <1>13, <1>14, <1>15, <1>16, <1>17 DEF Starting, Stopping

\* A Claim keeps them.
LEMMA ClaimStepProcess ==
  ASSUME ServiceInv, NEW i \in Instance, Claim(i)
  PROVE  ProcessInv'
  <1> USE InstanceAssumption
      DEF ServiceInv, GuardInv, GuardTypeOK, ProcessInv, ServeTypeOK, StageInv, WorkInv,
          LandedInv, Running, Claiming, At, Enters, claimVars, Claim
  <1>1. CASE List(i)
    BY <1>1 DEF List
  <1>2. CASE CheckNext(i)
    BY <1>2 DEF CheckNext
  <1>3. CASE CheckDone(i)
    BY <1>3 DEF CheckDone
  <1>4. CASE Watch(i)
    BY <1>4 DEF Watch
  <1>5. CASE Clear(i)
    BY <1>5 DEF Clear
  <1>6. CASE Write(i)
    BY <1>6, WrittenFacts DEF Write
  <1> QED
    BY <1>1, <1>2, <1>3, <1>4, <1>5, <1>6 DEF ClaimStep

\* So do a renewal and the clock.
LEMMA RenewalStepProcess ==
  ASSUME ServiceInv, NEW i \in Instance, Renewal(i)
  PROVE  ProcessInv'
  <1> USE InstanceAssumption
      DEF ServiceInv, GuardInv, GuardTypeOK, ProcessInv, ServeTypeOK, StageInv, WorkInv,
          LandedInv, Running, Claiming, claimVars, Renewal, serveVars
  <1>1. CASE Renew(i)
    BY <1>1, WrittenFacts DEF Renew
  <1>2. CASE Rewrite(i)
    BY <1>2, WrittenFacts DEF Rewrite
  <1>3. CASE RenewFails(i)
    BY <1>3 DEF RenewFails
  <1> QED
    BY <1>1, <1>2, <1>3 DEF Renewing

\* Time passing changes nothing of where a process is.
LEMMA ClockStepProcess ==
  ASSUME ServiceInv, Clock
  PROVE  ProcessInv'
  BY DEF ServiceInv, GuardInv, GuardTypeOK, ProcessInv, ServeTypeOK, StageInv, WorkInv,
         LandedInv, Running, Claiming, Clock, Tick, serveVars

\* A step that lets no work begin, lets nobody that began before run again and
\* does not change who was met keeps AloneInv.
LEMMA AloneKept ==
  ASSUME ServiceInv,
         overwrites' = overwrites,
         \A k \in Instance : (Began(k) /\ Running(k)') => Running(k),
         \A k \in Instance : late[k] => late'[k],
         \A k \in Instance : (request'[k] = "running" \/ ticker'[k] # "off") =>
            /\ request[k] = "running" \/ ticker[k] # "off"
            /\ met'[k] = met[k]
  PROVE  AloneInv'
  BY DEF ServiceInv, GuardInv, GuardTypeOK, RecordInv, AloneInv

\* The same, for a step of the process that leaves the guard alone.
LEMMA AloneServe ==
  ASSUME ServiceInv, UNCHANGED guardVars,
         \A k \in Instance : (request'[k] = "running" \/ ticker'[k] # "off") =>
            request[k] = "running" \/ ticker[k] # "off"
  PROVE  AloneInv'
  BY AloneKept DEF guardVars, Running

\* The same, for a step of the guard that leaves the work alone; a Claim that
\* lists has none.
LEMMA AloneGuard ==
  ASSUME ServiceInv, UNCHANGED <<request, ticker, overwrites>>,
         \A k \in Instance : (Began(k) /\ Running(k)') => Running(k),
         \A k \in Instance : late[k] => late'[k],
         \A k \in Instance : met'[k] = met[k] \/ stage[k] = "claim"
  PROVE  AloneInv'
  BY AloneKept DEF ServiceInv, WorkInv

\* Nobody starts to run, or ceases to be late, among those a Claim has met.
LEMMA AloneStep ==
  ASSUME ServiceInv, ServiceNext
  PROVE  AloneInv'
  <1> USE InstanceAssumption
      DEF ServiceInv, GuardInv, GuardTypeOK, ServeTypeOK, Running, Began, At, Enters
  <1>1. CASE Clock
    <2>1. \A k \in Instance : late[k] => late'[k]
      BY <1>1 DEF Clock, Tick
    <2> QED
      BY <1>1, <2>1, AloneGuard DEF Clock, Tick, serveVars
  <1>2. CASE AllExited
    BY <1>2, AloneServe DEF AllExited, serviceVars, serveVars
  <1>3. ASSUME NEW i \in Instance, Starting(i) PROVE AloneInv'
    <2>1. CASE Configure(i)
      BY <2>1, AloneServe DEF Configure
    <2>2. CASE Build(i)
      <3>1. overwrites => \A k \in met[i] : Running(k) => late[k]
        BY <2>2 DEF Build, StageInv, MetInv
      <3>2. \A j \in Instance \ {i} : ticker'[j] = ticker[j]
        BY <2>2 DEF Build
      <3>3. UNCHANGED <<pc, late, met, overwrites, request>>
        BY <2>2 DEF Build, guardVars
      <3> QED
        BY <3>1, <3>2, <3>3 DEF AloneInv
    <2> QED
      BY <1>3, <2>1, <2>2 DEF Starting
  <1>4. ASSUME NEW i \in Instance, Go(i) PROVE AloneInv'
    <2>1. At(i, "serve") => (overwrites => \A k \in met[i] : Running(k) => late[k])
      BY <1>4 DEF StageInv, MetInv
    <2>2. request'[i] = "running" => At(i, "serve")
      BY <1>4 DEF Go
    <2>3. \A j \in Instance \ {i} : request'[j] = request[j]
      BY <1>4 DEF Go
    <2>4. UNCHANGED <<pc, late, met, overwrites, ticker>>
      BY <1>4 DEF Go, guardVars
    <2> QED
      BY <2>1, <2>2, <2>3, <2>4 DEF AloneInv
  <1>5. ASSUME NEW i \in Instance, Work(i) PROVE AloneInv'
    BY <1>5, AloneServe DEF Work
  <1>6. ASSUME NEW i \in Instance,
               StateSpaceAnswers(i) \/ GiveUpWaiting(i) \/ Accept(i) \/ ManualEnds(i)
                 \/ Tell(i) \/ Stop(i) \/ HandlersAnswered(i) \/ Drain(i) \/ Exit(i)
        PROVE  AloneInv'
    BY <1>6, AloneServe
    DEF StateSpaceAnswers, GiveUpWaiting, Accept, ManualEnds, Tell, Stop,
        HandlersAnswered, Drain, Exit
  <1>7. ASSUME NEW i \in Instance, Claim(i) PROVE AloneInv'
    BY <1>7, AloneGuard
    DEF Claim, ClaimStep, List, CheckNext, CheckDone, Watch, Clear, Write
  <1>8. ASSUME NEW i \in Instance, Renewal(i) PROVE AloneInv'
    BY <1>8, AloneGuard DEF Renewal, Renewing, Renew, Rewrite, RenewFails, serveVars
  <1>9. ASSUME NEW i \in Instance, ClaimFails(i) PROVE AloneInv'
    BY <1>9, AloneGuard DEF ClaimFails
  <1>10. ASSUME NEW i \in Instance, StandDown(i) \/ StandDownFails(i) PROVE AloneInv'
    BY <1>10, AloneGuard DEF StandDown, StandDownFails, Release
  <1>11. ASSUME NEW i \in Instance, Kill(i) PROVE AloneInv'
    BY <1>11, AloneKept DEF Kill, Die
  <1> QED
    BY <1>1, <1>2, <1>3, <1>4, <1>5, <1>6, <1>7, <1>8, <1>9, <1>10, <1>11
    DEF ServiceNext, Stopping

-----------------------------------------------------------------------------
(* The theorems.                                                            *)

\* The initial states satisfy the invariant.
LEMMA ServiceInitInv == ServiceInit => ServiceInv
  <1> SUFFICES ASSUME ServiceInit PROVE ServiceInv
    OBVIOUS
  <1> USE InstanceAssumption DEF ServiceInit, GuardInit
  <1>1. GuardTypeOK
    <2>1. PICK past \in Pasts :
             /\ pc = [i \in Instance |-> IF i \in past THEN "gone" ELSE "new"]
             /\ rec = [i \in Instance |-> IF i \in past THEN TTL ELSE -1]
      OBVIOUS
    <2>2. pc \in [Instance -> {"gone", "new"}]
      BY <2>1
    <2>3. rec \in [Instance -> Int] /\ \A i \in Instance : rec[i] >= -1
      BY <2>1
    <2>4. overwrites \in BOOLEAN
      OBVIOUS
    <2> QED
      BY <2>2, <2>3, <2>4 DEF GuardTypeOK
  <1>2. \A i \in Instance : pc[i] \in {"gone", "new"} /\ (rec[i] # -1 => pc[i] = "gone")
    OBVIOUS
  <1>3. RecordInv /\ LiveInv /\ WatchInv /\ MetInv
    BY <1>2 DEF RecordInv, LiveInv, WatchInv, MetInv, Began, Running
  <1>4. ServeTypeOK
    BY DEF ServeTypeOK
  <1>5. StageInv /\ WorkInv /\ LandedInv
    BY <1>2 DEF StageInv, WorkInv, LandedInv, Running, Claiming
  <1>6. AloneInv
    BY DEF AloneInv
  <1> QED
    BY <1>1, <1>3, <1>4, <1>5, <1>6 DEF ServiceInv, GuardInv

\* Every step keeps it.
LEMMA ServiceStepInv == ServiceInv /\ [ServiceNext]_serviceVars => ServiceInv'
  <1> SUFFICES ASSUME ServiceInv, [ServiceNext]_serviceVars PROVE ServiceInv'
    OBVIOUS
  <1>1. CASE UNCHANGED serviceVars
    BY <1>1 DEF serviceVars, guardVars, claimVars, serveVars, ServiceInv, GuardInv,
       GuardTypeOK, RecordInv, LiveInv, WatchInv, MetInv, ServeTypeOK, StageInv, WorkInv,
       LandedInv, AloneInv, Began, Running
  <1>2. CASE ServiceNext /\ ~AllExited
    <2>1. ProcessInv'
      BY <1>2, ProcessStep, ClockStepProcess, ClaimStepProcess, RenewalStepProcess
      DEF ServiceNext
    <2> QED
      BY <1>2, <2>1, GuardStep, AloneStep DEF ServiceInv, ProcessInv
  <1> QED
    BY <1>1, <1>2 DEF AllExited

\* Once its record is withdrawn a process has a run at work only if its drain
\* timed out: Background.Stop, the drain and cleanup come in an order that lets
\* no run start or go on behind the back of the guard.
THEOREM WithdrawnIsIdle == ServiceSpec => []NoRunOutlivesTheRecord
  <1>1. ServiceInv => NoRunOutlivesTheRecord
    BY DEF ServiceInv, ServeTypeOK, StageInv, WorkInv, NoRunOutlivesTheRecord, AtWork,
       Running
  <1> QED
    BY <1>1, ServiceInitInv, ServiceStepInv, PTL DEF ServiceSpec

\* Every way out of serve withdraws the record, except the ones that are
\* accounted for: a kill, a write that was given up, a withdrawal that failed.
THEOREM NoRecordIsForgotten == ServiceSpec => []ExitsLeaveNoRecord
  <1>1. ServiceInv => ExitsLeaveNoRecord
    BY DEF ServiceInv, StageInv, LandedInv, ExitsLeaveNoRecord, At, Running
  <1> QED
    BY <1>1, ServiceInitInv, ServiceStepInv, PTL DEF ServiceSpec

\* The guard does its work: on a server that overwrites, two processes have
\* runs at work at once only after a missed renewal or a drain cut short, or if
\* they started together; for any number of processes and any lifetime.
THEOREM GuardKeepsRunsApart == ServiceSpec => []RunsOfOneProcess
  <1>1. ServiceInv => RunsOfOneProcess
    <2> SUFFICES ASSUME ServiceInv, overwrites, NEW i \in Instance, NEW j \in Instance,
                        i # j, AtWork(i), AtWork(j), i \in met[j]
                 PROVE  late[i] \/ cut[i]
      BY DEF RunsOfOneProcess
    <2>1. Running(i) => late[i]
      BY DEF ServiceInv, AloneInv, AtWork
    <2>2. Running(i) \/ cut[i]
      BY DEF ServiceInv, ServeTypeOK, StageInv, WorkInv, AtWork
    <2> QED
      BY <2>1, <2>2
  <1> QED
    BY <1>1, ServiceInitInv, ServiceStepInv, PTL DEF ServiceSpec

-----------------------------------------------------------------------------
(* The inductive invariant of the scheduler.                                *)

RecordTyped == [state : {"none", "running", "succeeded", "failed"}, age : Nat, next : Nat]

SchedulerTyped ==
    /\ clock \in Nat
    /\ records \in [Space -> [View -> RecordTyped]]
    /\ attemptIn \in [Space -> Nat] /\ attemptAge \in [Space -> Nat]
    /\ overtaken \in [Space -> BOOLEAN] /\ misread \in [Space -> BOOLEAN]
    /\ worker \in [Space -> [at : {"none", "begin", "locked", "run", "exit"},
                             kind : {"none", "backup", "prune"}]]
    /\ todo \subseteq Space
    /\ choice \in {"none", "backup", "prune"}
    /\ inflight \subseteq Space /\ slots \in Nat /\ leaving \in Nat

\* The pass is at a Space of its list.
AtInv == step # "look" => todo # {}

\* Every goroutine has a slot, and one that has left gives its own back.
SlotInv ==
    /\ inflight = {s \in Space : worker[s].at # "none"}
    /\ slots = Cardinality(inflight) + leaving
    /\ slots <= MaxConcurrent

\* A backup of s may start: an occurrence has passed since the last one began, or
\* the scheduler could not know of that one when it decided.
Due(s) ==
    \/ attemptIn[s] = 0 \/ overtaken[s]
    \/ misread[s] \/ attemptAge[s] = HistoryWindow

\* The newest record dates the last backup, until it is old enough to be trimmed.
BaselineInv ==
    \A s \in Space :
        \/ attemptAge[s] = HistoryWindow
        \/ /\ records[s][1].state # "none"
           /\ records[s][1].age = attemptAge[s] /\ records[s][1].next = attemptIn[s]

\* What the scheduler has decided, and what it has started on it.
ChosenInv ==
    /\ (step = "dispatch" /\ choice = "backup") => Due(Current)
    /\ \A s \in Space :
          (worker[s].kind = "backup" /\ worker[s].at \in {"begin", "locked"}) => Due(s)

CapacityInv == SchedulerTyped /\ AtInv /\ SlotInv
ScheduleInv == CapacityInv /\ BaselineInv /\ ChosenInv

-----------------------------------------------------------------------------
(* The operators of the model.                                              *)

\* The Space a pass is at is on its list.
LEMMA CurrentIsListed ==
  ASSUME SchedulerTyped, todo # {}
  PROVE  Current \in todo /\ Current \in Space
  <1>1. IsWellFoundedOn(OpToRel(<, Nat), Nat)
    BY NatLessThanWellFounded
  <1>2. todo \subseteq Nat /\ todo \subseteq Space
    BY ScheduleAssumption DEF SchedulerTyped, Space
  <1>3. PICK x \in todo : \A y \in todo : ~(<<y, x>> \in OpToRel(<, Nat))
    BY <1>1, <1>2, WFMin
  <1>4. \A y \in todo : x <= y
    <2> SUFFICES ASSUME NEW y \in todo PROVE x <= y
      OBVIOUS
    <2>1. x \in Nat /\ y \in Nat
      BY <1>2
    <2>2. <<y, x>> \in Nat \X Nat /\ <<y, x>> \notin {ss \in Nat \X Nat : ss[1] < ss[2]}
      BY <1>3, <2>1 DEF OpToRel
    <2> QED
      BY <2>1, <2>2
  <1> QED
    BY <1>2, <1>4 DEF Current, Min

\* Less than a period until the next occurrence, and the jitter on it.
LEMMA NextIsNear ==
  ASSUME SchedulerTyped, NEW s \in Space
  PROVE  NextAfter(s) \in Nat /\ NextAfter(s) <= Period[s] + Jitter[s]
  <1>1. clock \in Nat /\ Period[s] \in Nat \ {0} /\ Jitter[s] \in Nat
    BY ScheduleAssumption DEF SchedulerTyped
  <1>2. \A a \in Nat, b \in Nat \ {0} : a % b \in 0 .. (b - 1)
    OBVIOUS
  <1>3. clock % Period[s] \in 0 .. (Period[s] - 1)
    BY <1>1, <1>2
  <1> QED
    BY <1>1, <1>3 DEF NextAfter

\* The smaller of two numbers.
LEMMA MinOfTwo ==
  ASSUME NEW a \in Nat, NEW b \in Nat
  PROVE  Min({a, b}) \in {a, b} /\ Min({a, b}) \in Nat /\ Min({a, b}) <= a /\ Min({a, b}) <= b
  <1>1. \E x \in {a, b} : \A y \in {a, b} : x <= y
    <2>1. CASE a <= b
      BY <2>1
    <2>2. CASE b <= a
      BY <2>2
    <2> QED
      BY <2>1, <2>2
  <1>2. Min({a, b}) \in {a, b} /\ \A y \in {a, b} : Min({a, b}) <= y
    BY <1>1 DEF Min
  <1> QED
    BY <1>2

\* Time passes.
LEMMA TimePasses ==
  ASSUME NEW n \in Nat
  PROVE  Less(n) \in Nat /\ (n = 0 => Less(n) = 0) /\ Older(n) \in Nat /\ Older(HistoryWindow) = HistoryWindow
  <1>1. n + 1 \in Nat /\ HistoryWindow + 1 \in Nat /\ HistoryWindow \in Nat
    BY ScheduleAssumption
  <1>2. Less(n) \in Nat /\ (n = 0 => Less(n) = 0)
    BY DEF Less
  <1>3. Older(n) \in Nat
    BY <1>1, MinOfTwo DEF Older
  <1>4. Older(HistoryWindow) \in {HistoryWindow + 1, HistoryWindow} /\ Older(HistoryWindow) <= HistoryWindow
    BY <1>1, MinOfTwo DEF Older
  <1> QED
    BY <1>1, <1>2, <1>3, <1>4

\* Of N Spaces, finitely many are in flight.
LEMMA SpacesAreFinite ==
  ASSUME NEW S \in SUBSET Space
  PROVE  IsFiniteSet(S) /\ Cardinality(S) \in Nat
  <1>1. IsFiniteSet(Space)
    BY ScheduleAssumption, FS_Interval DEF Space
  <1> QED
    BY <1>1, FS_Subset, FS_CardinalityType

-----------------------------------------------------------------------------
(* Slots.                                                                   *)

\* A goroutine gets on, or is started.
LEMMA WorkerMoves ==
  ASSUME SchedulerTyped, NEW s \in Space
  PROVE  /\ \A place \in {"locked", "run", "exit"} :
               worker' = [worker EXCEPT ![s].at = place] =>
                  worker' \in [Space -> [at : {"none", "begin", "locked", "run", "exit"},
                                         kind : {"none", "backup", "prune"}]]
         /\ worker' = [worker EXCEPT ![s] = [at |-> "begin", kind |-> choice]] =>
               worker' \in [Space -> [at : {"none", "begin", "locked", "run", "exit"},
                                      kind : {"none", "backup", "prune"}]]
  <1>1. /\ worker \in [Space -> [at : {"none", "begin", "locked", "run", "exit"},
                               kind : {"none", "backup", "prune"}]]
        /\ choice \in {"none", "backup", "prune"}
    BY DEF SchedulerTyped
  <1>2. ASSUME NEW place \in {"locked", "run", "exit"}, worker' = [worker EXCEPT ![s].at = place]
        PROVE  worker' \in [Space -> [at : {"none", "begin", "locked", "run", "exit"},
                                      kind : {"none", "backup", "prune"}]]
    BY <1>1, <1>2
  <1>3. ASSUME worker' = [worker EXCEPT ![s] = [at |-> "begin", kind |-> choice]]
        PROVE  worker' \in [Space -> [at : {"none", "begin", "locked", "run", "exit"},
                                      kind : {"none", "backup", "prune"}]]
    BY <1>1, <1>3
  <1> QED
    BY <1>2, <1>3

\* What a record looks like.
LEMMA RecordShape ==
  /\ NoRecord \in RecordTyped
  /\ \A r \in RecordTyped, o \in {"running", "succeeded", "failed"} :
        /\ [r EXCEPT !.state = o] \in RecordTyped
        /\ [r EXCEPT !.state = o].state = o
        /\ [r EXCEPT !.state = o].age = r.age /\ [r EXCEPT !.state = o].next = r.next
  BY DEF RecordTyped, NoRecord

\* The outcome of a backup is written to its record.
LEMMA SettledFacts ==
  ASSUME SchedulerTyped, NEW s \in Space, NEW o \in Outcomes, Settle(s, o)
  PROVE  /\ records' \in [Space -> [View -> RecordTyped]]
         /\ UNCHANGED <<attemptIn, attemptAge>>
         /\ \A r \in Space : /\ records'[r][1].age = records[r][1].age
                             /\ records'[r][1].next = records[r][1].next
                             /\ records[r][1].state # "none" => records'[r][1].state # "none"
  <1>1. 1 \in View /\ o \in {"running", "succeeded", "failed"}
    BY ScheduleAssumption, CountAssumption DEF View
  <1>2. records \in [Space -> [View -> RecordTyped]]
    BY DEF SchedulerTyped, RecordTyped
  <1>3. PICK settled : settled = [records[s][1] EXCEPT !.state = o]
    OBVIOUS
  <1>4. settled \in RecordTyped /\ settled.state = o
        /\ settled.age = records[s][1].age /\ settled.next = records[s][1].next
    <2>1. PICK r \in RecordTyped : r = records[s][1]
      BY <1>1, <1>2
    <2>2. settled = [r EXCEPT !.state = o]
      BY <1>3, <2>1
    <2> QED
      BY <1>1, <2>1, <2>2 DEF RecordTyped
  <1>5. records' = [records EXCEPT ![s] = [records[s] EXCEPT ![1] = settled]]
    BY <1>3 DEF Settle
  <1>6. [records[s] EXCEPT ![1] = settled] \in [View -> RecordTyped]
    BY <1>2, <1>4
  <1>7. records' \in [Space -> [View -> RecordTyped]]
    BY <1>2, <1>5, <1>6
  <1>8. records'[s][1] = settled /\ \A r \in Space \ {s} : records'[r] = records[r]
    BY <1>1, <1>2, <1>5
  <1>9. \A r \in Space : /\ records'[r][1].age = records[r][1].age
                         /\ records'[r][1].next = records[r][1].next
                         /\ records[r][1].state # "none" => records'[r][1].state # "none"
    BY <1>1, <1>4, <1>8
  <1> QED
    BY <1>7, <1>9 DEF Settle

\* A backup that begins pushes the records before it back a place.
LEMMA RecordedFacts ==
  ASSUME SchedulerTyped, NEW s \in Space, Record(s)
  PROVE  /\ NextAfter(s) \in Nat
         /\ records' \in [Space -> [View -> RecordTyped]]
         /\ attemptIn' \in [Space -> Nat] /\ attemptAge' \in [Space -> Nat]
         /\ overtaken' \in [Space -> BOOLEAN]
         /\ overtaken'[s]
         /\ records'[s][1] = [state |-> "running", age |-> 0, next |-> NextAfter(s)]
         /\ attemptIn'[s] = NextAfter(s) /\ attemptAge'[s] = 0
         /\ \A r \in Space \ {s} :
               /\ records'[r] = records[r] /\ attemptIn'[r] = attemptIn[r]
               /\ attemptAge'[r] = attemptAge[r] /\ overtaken'[r] = overtaken[r]
  <1>1. NextAfter(s) \in Nat
    BY NextIsNear
  <1> HIDE DEF NextAfter
  <1>2. DEFINE new == [i \in View |-> IF i = 1 THEN [state |-> "running", age |-> 0, next |-> NextAfter(s)]
                                       ELSE records[s][i - 1]]
  <1>3. 1 \in View /\ \A i \in View : i # 1 => i - 1 \in View
    BY CountAssumption DEF View
  <1>4. new \in [View -> RecordTyped] /\ new[1] = [state |-> "running", age |-> 0, next |-> NextAfter(s)]
    BY <1>1, <1>3 DEF SchedulerTyped, RecordTyped
  <1>5. records' = [records EXCEPT ![s] = new]
    BY DEF Record
  <1> HIDE DEF new
  <1>6. /\ records' \in [Space -> [View -> RecordTyped]] /\ records'[s] = new
        /\ \A r \in Space \ {s} : records'[r] = records[r]
    BY <1>4, <1>5 DEF SchedulerTyped
  <1> QED
    BY <1>1, <1>4, <1>6 DEF Record, SchedulerTyped

\* What the steps other than those of goroutines and passes leave alone.
LEMMA TypedKept ==
  ASSUME CapacityInv, [Next]_vars
  PROVE  SchedulerTyped'
  <1>a. /\ SchedulerTyped
        /\ \A s \in Space :
              /\ worker' = [worker EXCEPT ![s] = [at |-> "begin", kind |-> choice]] =>
                    worker' \in [Space -> [at : {"none", "begin", "locked", "run", "exit"},
                                           kind : {"none", "backup", "prune"}]]
              /\ \A place \in {"locked", "exit"} :
                    worker' = [worker EXCEPT ![s].at = place] =>
                       worker' \in [Space -> [at : {"none", "begin", "locked", "run", "exit"},
                                              kind : {"none", "backup", "prune"}]]
    BY WorkerMoves DEF CapacityInv
  <1> USE DEF CapacityInv, SchedulerTyped, loopVars, workVars, recVars
  <1>1. CASE Elapse
    <2>1. clock' = (clock + 1) % Cycle
      BY <1>1 DEF Elapse
    <2>2. /\ attemptIn' = [s \in Space |-> Less(attemptIn[s])]
          /\ attemptAge' = [s \in Space |-> Older(attemptAge[s])]
          /\ records' = [s \in Space |-> [i \in View |->
                            IF records[s][i].state = "none" THEN NoRecord
                            ELSE [state |-> records[s][i].state, age |-> Older(records[s][i].age),
                                  next |-> Less(records[s][i].next)]]]
      BY <1>1 DEF Elapse
    <2>3. clock' \in Nat
      <3>1. \A a \in Nat, b \in Nat \ {0} : a % b \in 0 .. (b - 1)
        OBVIOUS
      <3> QED
        BY <2>1, <3>1, ScheduleAssumption
    <2>4. \A n \in Nat : Less(n) \in Nat /\ Older(n) \in Nat
      BY TimePasses
    <2>5. attemptIn' \in [Space -> Nat] /\ attemptAge' \in [Space -> Nat]
      BY <2>2, <2>4
    <2>6. records' \in [Space -> [View -> RecordTyped]]
      BY <2>2, <2>4 DEF RecordTyped, NoRecord
    <2> QED
      BY <1>1, <2>3, <2>5, <2>6 DEF Elapse
  <1>2. CASE BeginPass
    <2>1. records' \in [Space -> [View -> RecordTyped]]
      <3> SUFFICES ASSUME NEW s \in Space, NEW i \in View
                   PROVE  (IF records[s][i].state = "running" /\ lock[s] = "free"
                           THEN [records[s][i] EXCEPT !.state = "failed"] ELSE records[s][i]) \in RecordTyped
        BY <1>2 DEF BeginPass
      <3>1. records[s][i] \in RecordTyped
        BY DEF RecordTyped
      <3> QED
        BY <3>1, RecordShape
    <2> QED
      BY <1>2, <2>1 DEF BeginPass
  <1>3. CASE PassLook
    BY <1>3 DEF PassLook, MoveOn
  <1>4. CASE PassDecide
    <2>1. misread' \in [Space -> BOOLEAN] /\ overtaken' \in [Space -> BOOLEAN]
      BY <1>4 DEF PassDecide
    <2>2. choice' \in {"none", "backup", "prune"} /\ todo' \subseteq Space
      BY <1>4 DEF PassDecide
    <2> QED
      BY <1>4, <2>1, <2>2 DEF PassDecide
  <1>5. CASE PassDispatch
    <2>1. todo # {} /\ Current \in Space
      BY <1>5, CurrentIsListed DEF PassDispatch, AtInv
    <2>2. worker' \in [Space -> [at : {"none", "begin", "locked", "run", "exit"},
                                 kind : {"none", "backup", "prune"}]]
      <3> HIDE DEF Current
      <3>1. worker' = worker \/ worker' = [worker EXCEPT ![Current] = [at |-> "begin", kind |-> choice]]
        BY <1>5 DEF PassDispatch
      <3> QED
        BY <1>a, <2>1, <3>1
    <2> HIDE DEF Current
    <2>3. inflight' \subseteq Space /\ slots' \in Nat /\ leaving' \in Nat
      BY <1>5, <2>1 DEF PassDispatch
    <2>4. todo' \subseteq Space /\ choice' = "none" /\ UNCHANGED <<clock, recVars, overtaken, misread>>
      BY <1>5 DEF PassDispatch, MoveOn
    <2> QED
      BY <2>2, <2>3, <2>4
  <1>6. CASE EndPass
    <2>1. records' \in [Space -> [View -> RecordTyped]]
      <3>1. CASE UNCHANGED records
        BY <3>1 DEF RecordTyped
      <3>2. CASE ~UNCHANGED records
        <4>1. PICK kept : records' = [s \in Space |-> [i \in View |->
                               IF i \in Prunable(s) /\ <<s, i>> \notin kept
                               THEN NoRecord ELSE records[s][i]]]
          BY <1>6, <3>2 DEF EndPass
        <4>2. \A s \in Space, i \in View : records[s][i] \in RecordTyped
          BY DEF RecordTyped
        <4> QED
          BY <4>1, <4>2, RecordShape
      <3> QED
        BY <3>1, <3>2
    <2> QED
      BY <1>6, <2>1 DEF EndPass
  <1>7. CASE PassError
    BY <1>7 DEF PassError, MoveOn
  <1>8. CASE SlotBack
    <2>1. Cardinality(inflight) \in Nat
      BY SpacesAreFinite
    <2>2. slots - 1 \in Nat /\ leaving - 1 \in Nat
      BY <1>8, <2>1 DEF SlotBack, SlotInv
    <2> QED
      BY <1>8, <2>2 DEF SlotBack
  <1>9. CASE Crash
    <2>1. worker' \in [Space -> [at : {"none", "begin", "locked", "run", "exit"},
                                 kind : {"none", "backup", "prune"}]]
      BY <1>9 DEF Crash, NoWorker
    <2> QED
      BY <1>9, <2>1 DEF Crash
  <1>10. CASE Boot
    BY <1>10 DEF Boot
  <1>0. ASSUME NEW s \in Space, Record(s)
        PROVE  /\ records' \in [Space -> [View -> RecordTyped]]
               /\ attemptIn' \in [Space -> Nat] /\ attemptAge' \in [Space -> Nat]
               /\ overtaken' \in [Space -> BOOLEAN]
    BY <1>0, RecordedFacts DEF RecordTyped
  <1>00. ASSUME NEW s \in Space, NEW o \in Outcomes, Settle(s, o)
         PROVE  records' \in [Space -> [View -> RecordTyped]] /\ UNCHANGED <<attemptIn, attemptAge>>
    BY <1>00, SettledFacts
  <1>11. ASSUME NEW s \in Space, WorkerStep(s) PROVE SchedulerTyped'
    <2>1. CASE WorkerLock(s)
      <3>1. worker' = [worker EXCEPT ![s].at = "exit"] \/ worker' = [worker EXCEPT ![s].at = "locked"]
        BY <2>1 DEF WorkerLock
      <3>2. worker' \in [Space -> [at : {"none", "begin", "locked", "run", "exit"},
                                   kind : {"none", "backup", "prune"}]]
        BY <1>a, <3>1
      <3> QED
        BY <2>1, <3>2 DEF WorkerLock
    <2>2. CASE WorkerUnresolved(s)
      BY <2>2 DEF WorkerUnresolved
    <2>3. CASE WorkerRecord(s)
      <3>1. worker' \in [Space -> [at : {"none", "begin", "locked", "run", "exit"},
                                   kind : {"none", "backup", "prune"}]]
        BY <2>3 DEF WorkerRecord
      <3>2. CASE Record(s)
        BY <1>0, <2>3, <3>1, <3>2 DEF WorkerRecord
      <3>3. CASE UNCHANGED <<records, attemptIn, attemptAge, restorable, overtaken>>
        BY <2>3, <3>1, <3>3 DEF WorkerRecord
      <3> QED
        BY <2>3, <3>2, <3>3 DEF WorkerRecord
    <2>4. CASE WorkerFinish(s)
      <3>1. worker' \in [Space -> [at : {"none", "begin", "locked", "run", "exit"},
                                   kind : {"none", "backup", "prune"}]]
        BY <2>4 DEF WorkerFinish
      <3>2. /\ records' \in [Space -> [View -> RecordTyped]]
            /\ UNCHANGED <<attemptIn, attemptAge>>
        BY <1>00, <2>4 DEF WorkerFinish
      <3> QED
        BY <2>4, <3>1, <3>2 DEF WorkerFinish
    <2>5. CASE WorkerLeave(s)
      BY <2>5 DEF WorkerLeave, NoWorker
    <2> QED
      BY <1>11, <2>1, <2>2, <2>3, <2>4, <2>5 DEF WorkerStep
  <1>12. ASSUME NEW s \in Space, ManualLock(s) PROVE SchedulerTyped'
    BY <1>12 DEF ManualLock
  <1>13. ASSUME NEW s \in Space, ManualStep(s) PROVE SchedulerTyped'
    <2>1. CASE ManualRecord(s)
      <3>1. CASE Record(s)
        BY <1>0, <2>1, <3>1 DEF ManualRecord
      <3>2. CASE UNCHANGED <<recVars, overtaken>>
        BY <2>1, <3>2 DEF ManualRecord
      <3> QED
        BY <2>1, <3>1, <3>2 DEF ManualRecord
    <2>2. CASE ManualUnresolved(s)
      BY <2>2 DEF ManualUnresolved
    <2>3. CASE ManualFinish(s)
      <3>1. /\ records' \in [Space -> [View -> RecordTyped]]
            /\ UNCHANGED <<attemptIn, attemptAge>>
        BY <1>00, <2>3 DEF ManualFinish
      <3> QED
        BY <2>3, <3>1 DEF ManualFinish
    <2> QED
      BY <1>13, <2>1, <2>2, <2>3 DEF ManualStep
  <1>14. ASSUME NEW s \in Space, Put(s) PROVE SchedulerTyped'
    BY <1>14 DEF Put
  <1>15. ASSUME NEW s \in Space, LeaseExpires(s) PROVE SchedulerTyped'
    BY <1>15 DEF LeaseExpires
  <1>16. CASE UNCHANGED vars
    BY <1>16 DEF vars
  <1> QED
    BY <1>1, <1>2, <1>3, <1>4, <1>5, <1>6, <1>7, <1>8, <1>9, <1>10, <1>11, <1>12, <1>13,
       <1>14, <1>15, <1>16 DEF Next, PassStep

\* The steps of passes, and those that touch no slot.
LEMMA SlotsKept ==
  ASSUME CapacityInv, [Next]_vars
  PROVE  AtInv' /\ SlotInv'
  <1>0. SchedulerTyped /\ IsFiniteSet(inflight) /\ Cardinality(inflight) \in Nat
    BY SpacesAreFinite DEF CapacityInv, SchedulerTyped
  <1>1. AtInv'
    BY <1>0 DEF CapacityInv, AtInv, Next, PassStep, WorkerStep, ManualStep, Elapse, BeginPass,
           PassLook, PassDecide, PassDispatch, EndPass, PassError, SlotBack, Crash, Boot, MoveOn,
           WorkerLock, WorkerUnresolved, WorkerRecord, WorkerFinish, WorkerLeave, ManualLock,
           ManualRecord, ManualUnresolved, ManualFinish, Put, LeaseExpires, vars, loopVars
  <1> SUFFICES SlotInv'
    BY <1>1
  <1>2. CASE UNCHANGED workVars
    <2>1. worker' = worker /\ inflight' = inflight /\ slots' = slots /\ leaving' = leaving
      BY <1>2 DEF workVars
    <2> QED
      BY <2>1 DEF CapacityInv, SlotInv
  <1>3. CASE PassDispatch
    <2>1. todo # {} /\ Current \in Space
      BY <1>0, <1>3, CurrentIsListed DEF PassDispatch, CapacityInv, AtInv
    <2> HIDE DEF Current
    <2>2. SUFFICES ASSUME Current \notin inflight, slots < MaxConcurrent, slots' = slots + 1,
                          inflight' = inflight \cup {Current}, leaving' = leaving,
                          worker' = [worker EXCEPT ![Current] = [at |-> "begin", kind |-> choice]]
                   PROVE  SlotInv'
      <3>1. CASE UNCHANGED workVars
        BY <1>2, <3>1
      <3> QED
        BY <1>3, <3>1 DEF PassDispatch
    <2>3. Cardinality(inflight') = Cardinality(inflight) + 1
      BY <1>0, <2>2, FS_AddElement
    <2>4. worker'[Current].at = "begin" /\ \A s \in Space \ {Current} : worker'[s] = worker[s]
      BY <1>0, <2>1, <2>2 DEF SchedulerTyped
    <2>5. inflight' = {s \in Space : worker'[s].at # "none"}
      BY <2>1, <2>2, <2>4 DEF CapacityInv, SlotInv
    <2>6. slots' = Cardinality(inflight') + leaving' /\ slots' <= MaxConcurrent
      <3>1. /\ slots \in Nat /\ leaving \in Nat /\ MaxConcurrent \in Nat
            /\ slots = Cardinality(inflight) + leaving
        BY ScheduleAssumption DEF CapacityInv, SlotInv, SchedulerTyped
      <3> QED
        BY <1>0, <2>2, <2>3, <3>1
    <2> QED
      BY <2>5, <2>6 DEF SlotInv
  <1>4. CASE SlotBack
    <2>1. /\ inflight' = inflight /\ worker' = worker
          /\ leaving > 0 /\ leaving' = leaving - 1 /\ slots' = slots - 1
      BY <1>4 DEF SlotBack
    <2>2. /\ slots \in Nat /\ leaving \in Nat /\ MaxConcurrent \in Nat
          /\ slots = Cardinality(inflight) + leaving /\ slots <= MaxConcurrent
      BY ScheduleAssumption DEF CapacityInv, SlotInv, SchedulerTyped
    <2>3. slots' = Cardinality(inflight') + leaving' /\ slots' <= MaxConcurrent
      BY <1>0, <2>1, <2>2
    <2> QED
      BY <2>1, <2>3 DEF CapacityInv, SlotInv
  <1>5. CASE Crash
    <2>1. \A s \in Space : worker'[s].at = "none"
      BY <1>5 DEF Crash, NoWorker
    <2>2. inflight' = {} /\ slots' = 0 /\ leaving' = 0
      BY <1>5 DEF Crash
    <2>3. Cardinality({}) = 0
      BY FS_EmptySet
    <2> QED
      <3>1. {s \in Space : worker'[s].at # "none"} = {}
        BY <2>1
      <3>2. 0 <= MaxConcurrent
        BY ScheduleAssumption
      <3> QED
        BY <2>2, <2>3, <3>1, <3>2 DEF SlotInv
  <1>6. ASSUME NEW s \in Space, WorkerLeave(s) PROVE SlotInv'
    <2>1. /\ worker[s].at = "exit" /\ worker' = [worker EXCEPT ![s] = NoWorker]
          /\ inflight' = inflight \ {s} /\ leaving' = leaving + 1 /\ slots' = slots
      BY <1>6 DEF WorkerLeave
    <2>2. worker'[s].at = "none" /\ \A r \in Space \ {s} : worker'[r] = worker[r]
      BY <1>0, <2>1 DEF SchedulerTyped, NoWorker
    <2>3. s \in inflight /\ inflight' = {r \in Space : worker'[r].at # "none"}
      BY <2>1, <2>2 DEF CapacityInv, SlotInv
    <2>4. Cardinality(inflight') = Cardinality(inflight) - 1
      BY <1>0, <2>1, <2>3, FS_RemoveElement
    <2>5. slots' = Cardinality(inflight') + leaving' /\ slots' <= MaxConcurrent
      BY <1>0, <2>1, <2>4 DEF CapacityInv, SlotInv, SchedulerTyped
    <2> QED
      BY <2>3, <2>5 DEF SlotInv
  <1>7. ASSUME NEW s \in Space, worker[s].at # "none", NEW place \in {"locked", "run", "exit"},
               worker' = [worker EXCEPT ![s].at = place], UNCHANGED <<inflight, slots, leaving>>
        PROVE  SlotInv'
    <2>1. worker'[s].at = place /\ \A r \in Space \ {s} : worker'[r] = worker[r]
      BY <1>0, <1>7 DEF SchedulerTyped
    <2>2. {r \in Space : worker'[r].at # "none"} = {r \in Space : worker[r].at # "none"}
      BY <1>7, <2>1
    <2> QED
      BY <1>7, <2>2 DEF CapacityInv, SlotInv
  <1>8. ASSUME NEW s \in Space, WorkerStep(s) PROVE SlotInv'
    BY <1>6, <1>7, <1>8 DEF WorkerStep, WorkerLock, WorkerUnresolved, WorkerRecord, WorkerFinish
  <1>9. CASE Elapse \/ BeginPass \/ PassLook \/ PassDecide \/ EndPass \/ PassError \/ Boot
    BY <1>2, <1>9 DEF Elapse, BeginPass, PassLook, PassDecide, EndPass, PassError, Boot
  <1>10. ASSUME NEW s \in Space, ManualLock(s) \/ ManualStep(s) \/ Put(s) \/ LeaseExpires(s)
         PROVE  SlotInv'
    BY <1>2, <1>10 DEF ManualLock, ManualStep, ManualRecord, ManualUnresolved, ManualFinish, Put,
                       LeaseExpires
  <1>11. CASE UNCHANGED vars
    BY <1>2, <1>11 DEF vars
  <1> QED
    BY <1>1, <1>3, <1>4, <1>5, <1>8, <1>9, <1>10, <1>11 DEF Next, PassStep

\* What is said of slots is inductive for any bounds.
LEMMA CapacityInvHolds == Spec => []CapacityInv
  <1>1. Init => CapacityInv
    <2> SUFFICES ASSUME Init PROVE CapacityInv
      OBVIOUS
    <2>1. \A s \in Space : worker[s].at = "none"
      BY DEF Init, NoWorker
    <2>2. SlotInv
      BY <2>1, FS_EmptySet, ScheduleAssumption DEF Init, SlotInv
    <2>3. SchedulerTyped
      <3>1. records \in [Space -> [View -> RecordTyped]]
        BY RecordShape DEF Init
      <3>2. worker \in [Space -> [at : {"none", "begin", "locked", "run", "exit"},
                                  kind : {"none", "backup", "prune"}]]
        BY DEF Init, NoWorker
      <3>3. attemptIn \in [Space -> Nat] /\ attemptAge \in [Space -> Nat]
        BY ScheduleAssumption DEF Init
      <3> QED
        BY <3>1, <3>2, <3>3 DEF Init, SchedulerTyped
    <2> QED
      BY <2>2, <2>3 DEF Init, CapacityInv, AtInv
  <1>2. CapacityInv /\ [Next]_vars => CapacityInv'
    BY TypedKept, SlotsKept DEF CapacityInv
  <1> QED
    BY <1>1, <1>2, PTL DEF Spec

-----------------------------------------------------------------------------
(* The schedule.                                                            *)

\* A step that leaves the newest record of each Space where it is, whatever it
\* does to its state, keeps the baseline.
LEMMA Undated ==
  ASSUME BaselineInv, UNCHANGED <<attemptIn, attemptAge>>,
         \A s \in Space : /\ records'[s][1].age = records[s][1].age
                          /\ records'[s][1].next = records[s][1].next
                          /\ records[s][1].state # "none" => records'[s][1].state # "none"
  PROVE  BaselineInv'
  BY DEF BaselineInv

\* A backup that begins is the new baseline.
LEMMA Dated ==
  ASSUME SchedulerTyped, BaselineInv, NEW s \in Space, Record(s)
  PROVE  BaselineInv'
  <1> SUFFICES ASSUME NEW r \in Space
               PROVE  \/ attemptAge'[r] = HistoryWindow
                      \/ /\ records'[r][1].state # "none"
                         /\ records'[r][1].age = attemptAge'[r] /\ records'[r][1].next = attemptIn'[r]
    BY DEF BaselineInv
  <1>0. /\ records'[s][1] = [state |-> "running", age |-> 0, next |-> NextAfter(s)]
        /\ attemptIn'[s] = NextAfter(s) /\ attemptAge'[s] = 0
        /\ \A q \in Space \ {s} : /\ records'[q] = records[q] /\ attemptIn'[q] = attemptIn[q]
                                  /\ attemptAge'[q] = attemptAge[q]
    BY RecordedFacts
  <1> HIDE DEF NextAfter
  <1>1. CASE r = s
    BY <1>0, <1>1
  <1>2. CASE r # s
    BY <1>0, <1>2 DEF BaselineInv
  <1> QED
    BY <1>1, <1>2

\* Every step keeps the baseline of every Space.
LEMMA BaselineKept ==
  ASSUME CapacityInv, BaselineInv, [Next]_vars
  PROVE  BaselineInv'
  <1>0. SchedulerTyped /\ 1 \in View
    BY CountAssumption DEF CapacityInv, View
  <1>1. CASE Elapse
    <2> SUFFICES ASSUME NEW s \in Space
                 PROVE  \/ attemptAge'[s] = HistoryWindow
                        \/ /\ records'[s][1].state # "none"
                           /\ records'[s][1].age = attemptAge'[s] /\ records'[s][1].next = attemptIn'[s]
      BY DEF BaselineInv
    <2>1. attemptAge'[s] = Older(attemptAge[s]) /\ attemptIn'[s] = Less(attemptIn[s])
      BY <1>1 DEF Elapse
    <2>2. records[s][1].state # "none" =>
             records'[s][1] = [state |-> records[s][1].state, age |-> Older(records[s][1].age),
                               next |-> Less(records[s][1].next)]
      BY <1>0, <1>1 DEF Elapse
    <2>3. Older(HistoryWindow) = HistoryWindow
      BY TimePasses, ScheduleAssumption
    <2> QED
      BY <2>1, <2>2, <2>3 DEF BaselineInv
  <1>2. CASE EndPass
    <2> SUFFICES ASSUME NEW s \in Space, attemptAge[s] # HistoryWindow
                 PROVE  /\ records'[s][1].state # "none"
                        /\ records'[s][1].age = attemptAge'[s] /\ records'[s][1].next = attemptIn'[s]
      BY <1>2 DEF BaselineInv, EndPass
    <2>1. 1 \notin Prunable(s)
      BY DEF BaselineInv, Prunable
    <2>2. records'[s][1] = records[s][1]
      <3>1. CASE UNCHANGED records
        BY <3>1
      <3>2. CASE ~UNCHANGED records
        <4>1. PICK kept : records' = [r \in Space |-> [i \in View |->
                               IF i \in Prunable(r) /\ <<r, i>> \notin kept
                               THEN NoRecord ELSE records[r][i]]]
          BY <1>2, <3>2 DEF EndPass
        <4> QED
          BY <1>0, <2>1, <4>1
      <3> QED
        BY <3>1, <3>2
    <2> QED
      BY <1>2, <2>2 DEF BaselineInv, EndPass
  <1>3. CASE BeginPass
    <2>1. \A s \in Space : /\ records'[s][1].age = records[s][1].age
                           /\ records'[s][1].next = records[s][1].next
                           /\ records[s][1].state # "none" => records'[s][1].state # "none"
      <3> SUFFICES ASSUME NEW s \in Space
                   PROVE  /\ records'[s][1].age = records[s][1].age
                          /\ records'[s][1].next = records[s][1].next
                          /\ records[s][1].state # "none" => records'[s][1].state # "none"
        OBVIOUS
      <3>1. records[s][1] \in RecordTyped
        BY <1>0 DEF SchedulerTyped, RecordTyped
      <3>2. records'[s][1] = IF records[s][1].state = "running" /\ lock[s] = "free"
                             THEN [records[s][1] EXCEPT !.state = "failed"] ELSE records[s][1]
        BY <1>0, <1>3 DEF BeginPass
      <3> QED
        BY <3>1, <3>2, RecordShape
    <2> QED
      BY <1>3, <2>1, Undated DEF BeginPass
  <1>4. CASE UNCHANGED recVars
    BY <1>4, Undated DEF recVars
  <1>5. ASSUME NEW s \in Space, NEW o \in Outcomes, Settle(s, o) PROVE BaselineInv'
    <2>1. /\ UNCHANGED <<attemptIn, attemptAge>>
          /\ \A r \in Space : /\ records'[r][1].age = records[r][1].age
                              /\ records'[r][1].next = records[r][1].next
                              /\ records[r][1].state # "none" => records'[r][1].state # "none"
      BY <1>0, <1>5, SettledFacts
    <2> QED
      BY <2>1, Undated
  <1>6. CASE \/ PassLook \/ PassDecide \/ PassDispatch \/ PassError \/ SlotBack \/ Crash \/ Boot
             \/ UNCHANGED vars
    BY <1>4, <1>6 DEF PassLook, PassDecide, PassDispatch, PassError, SlotBack, Crash, Boot, vars
  <1>7. ASSUME NEW s \in Space, WorkerStep(s) PROVE BaselineInv'
    <2>1. CASE WorkerLock(s) \/ WorkerUnresolved(s) \/ WorkerLeave(s)
      BY <1>4, <2>1 DEF WorkerLock, WorkerUnresolved, WorkerLeave
    <2>2. CASE WorkerRecord(s)
      BY <1>0, <2>2, Undated, Dated DEF WorkerRecord
    <2>3. CASE WorkerFinish(s)
      BY <1>4, <1>5, <2>3 DEF WorkerFinish
    <2> QED
      BY <1>7, <2>1, <2>2, <2>3 DEF WorkerStep
  <1>8. ASSUME NEW s \in Space, ManualLock(s) \/ ManualStep(s) \/ Put(s) \/ LeaseExpires(s)
        PROVE  BaselineInv'
    <2>1. CASE ManualRecord(s)
      BY <1>0, <1>4, <2>1, Dated DEF ManualRecord
    <2>2. CASE ManualFinish(s)
      BY <1>4, <1>5, <2>2 DEF ManualFinish
    <2>3. CASE ManualLock(s) \/ ManualUnresolved(s) \/ Put(s) \/ LeaseExpires(s)
      BY <1>4, <2>3 DEF ManualLock, ManualUnresolved, Put, LeaseExpires
    <2> QED
      BY <1>8, <2>1, <2>2, <2>3 DEF ManualStep
  <1> QED
    BY <1>1, <1>2, <1>3, <1>6, <1>7, <1>8 DEF Next, PassStep

\* The newest record is read first, if there is one and it can be read.
LEMMA NewestIsFirst ==
  ASSUME NEW s \in Space, records[s][1].state # "none"
  PROVE  LastRun(s, {}) = records[s][1]
  <1>1. 1 \in Stored(s) /\ \A i \in Stored(s) : i \in Int /\ 1 <= i
    BY CountAssumption DEF Stored, View
  <1>2. Stored(s) \ {} = Stored(s)
    OBVIOUS
  <1>3. Min(Stored(s)) = 1
    BY <1>1 DEF Min
  <1> QED
    BY <1>1, <1>2, <1>3 DEF LastRun

\* What is not due is not made due by anything but the time that passes: a new
\* attempt overtakes a decision.
LEMMA DueKept ==
  ASSUME CapacityInv, [Next]_vars, ~PassDecide
  PROVE  \A s \in Space : Due(s) => Due(s)'
  <1>0. SchedulerTyped
    BY DEF CapacityInv
  <1>1. CASE UNCHANGED <<attemptIn, attemptAge, overtaken, misread>>
    BY <1>1 DEF Due
  <1>2. CASE Elapse
    <2> SUFFICES ASSUME NEW s \in Space, Due(s)
                 PROVE  Due(s)'
      OBVIOUS
    <2>1. attemptIn'[s] = Less(attemptIn[s]) /\ attemptAge'[s] = Older(attemptAge[s])
          /\ UNCHANGED <<overtaken, misread>>
      BY <1>2 DEF Elapse
    <2>2. Less(0) = 0 /\ Older(HistoryWindow) = HistoryWindow
      BY TimePasses, ScheduleAssumption
    <2> QED
      BY <2>1, <2>2 DEF Due
  <1>3. ASSUME NEW r \in Space, Record(r), UNCHANGED misread PROVE \A s \in Space : Due(s) => Due(s)'
    BY <1>0, <1>3, RecordedFacts DEF Due
  <1>4. CASE \/ BeginPass \/ EndPass \/ PassLook \/ PassDispatch \/ PassError \/ SlotBack
             \/ Crash \/ Boot \/ UNCHANGED vars
    BY <1>1, <1>4 DEF BeginPass, EndPass, PassLook, PassDispatch, PassError, SlotBack, Crash, Boot,
                      recVars, vars
  <1>5. ASSUME NEW r \in Space, WorkerStep(r) PROVE \A s \in Space : Due(s) => Due(s)'
    <2>1. CASE WorkerLock(r) \/ WorkerUnresolved(r) \/ WorkerLeave(r) \/ WorkerFinish(r)
      BY <1>1, <2>1 DEF WorkerLock, WorkerUnresolved, WorkerLeave, WorkerFinish, Settle, recVars
    <2>2. CASE WorkerRecord(r)
      BY <1>1, <1>3, <2>2 DEF WorkerRecord
    <2> QED
      BY <1>5, <2>1, <2>2 DEF WorkerStep
  <1>6. ASSUME NEW r \in Space, ManualLock(r) \/ ManualStep(r) \/ Put(r) \/ LeaseExpires(r)
        PROVE  \A s \in Space : Due(s) => Due(s)'
    <2>1. CASE ManualRecord(r)
      BY <1>1, <1>3, <2>1 DEF ManualRecord, recVars
    <2>2. CASE \/ ManualFinish(r) \/ ManualLock(r) \/ ManualUnresolved(r) \/ Put(r)
               \/ LeaseExpires(r)
      BY <1>1, <2>2 DEF ManualFinish, ManualLock, ManualUnresolved, Put, LeaseExpires, Settle, recVars
    <2> QED
      BY <1>6, <2>1, <2>2 DEF ManualStep
  <1> QED
    BY <1>2, <1>4, <1>5, <1>6 DEF Next, PassStep

\* A decision is made on what the history says, and handed on with it.
LEMMA ChosenKept ==
  ASSUME ScheduleInv, [Next]_vars
  PROVE  ChosenInv'
  <1>0. SchedulerTyped /\ AtInv /\ CapacityInv /\ BaselineInv
    BY DEF ScheduleInv, CapacityInv
  <1>1. /\ (step = "dispatch" /\ choice = "backup") => Due(Current)
        /\ \A s \in Space :
              (worker[s].kind = "backup" /\ worker[s].at \in {"begin", "locked"}) => Due(s)
    BY DEF ScheduleInv, ChosenInv
  <1>2. CASE PassDecide
    <2>1. todo # {} /\ Current \in Space
      BY <1>0, <1>2, CurrentIsListed DEF PassDecide, AtInv
    <2>2. /\ choice' # "none" => todo' = todo
          /\ attemptIn' = attemptIn /\ attemptAge' = attemptAge /\ worker' = worker
          /\ overtaken' = (IF choice' = "backup" THEN [overtaken EXCEPT ![Current] = FALSE]
                           ELSE overtaken)
      BY <1>2 DEF PassDecide, workVars, recVars
    <2>0. PICK unread \in SUBSET Stored(Current) :
             /\ choice' = "backup" => BackupDue(Current, LastRun(Current, unread))
             /\ misread' = IF choice' = "backup" THEN [misread EXCEPT ![Current] = unread # {}]
                           ELSE misread
      BY <1>2 DEF PassDecide
    <2>3. choice' = "backup" => \/ attemptIn[Current] = 0
                                \/ misread'[Current] \/ attemptAge[Current] = HistoryWindow
      <3> SUFFICES ASSUME choice' = "backup", unread = {}, attemptAge[Current] # HistoryWindow
                   PROVE  attemptIn[Current] = 0
        BY <1>0, <2>0, <2>1 DEF SchedulerTyped
      <3> HIDE DEF Current
      <3>1. records[Current][1].state # "none" /\ records[Current][1].next = attemptIn[Current]
        BY <1>0, <2>1 DEF BaselineInv
      <3>2. LastRun(Current, {}) = records[Current][1]
        BY <2>1, <3>1, NewestIsFirst
      <3> QED
        BY <2>0, <3>1, <3>2 DEF BackupDue
    <2>4. choice' = "backup" => Current' = Current
      BY <2>2 DEF Current
    <2>5. (step' = "dispatch" /\ choice' = "backup") => Due(Current)'
      BY <2>2, <2>3, <2>4 DEF Due
    <2>6. ASSUME NEW s \in Space, Due(s) PROVE Due(s)'
      <3>1. CASE choice' = "backup" /\ s = Current
        BY <2>2, <2>3, <3>1 DEF Due
      <3>2. CASE ~(choice' = "backup" /\ s = Current)
        <4>1. overtaken'[s] = overtaken[s] /\ misread'[s] = misread[s]
          BY <1>0, <2>0, <2>2, <3>2 DEF SchedulerTyped
        <4> QED
          BY <2>2, <2>6, <4>1 DEF Due
      <3> QED
        BY <3>1, <3>2
    <2> QED
      BY <1>1, <2>2, <2>5, <2>6 DEF ChosenInv
  <1>3. ASSUME ~PassDecide PROVE ChosenInv'
    <2>1. \A s \in Space : Due(s) => Due(s)'
      BY <1>0, <1>3, DueKept
    <2>2. CASE PassDispatch
      <3>1. todo # {} /\ Current \in Space /\ step = "dispatch"
        BY <1>0, <2>2, CurrentIsListed DEF PassDispatch, AtInv
      <3> HIDE DEF Current
      <3>2. step' = "look"
        BY <2>2 DEF PassDispatch, MoveOn
      <3>3. ASSUME NEW s \in Space, worker'[s].kind = "backup", worker'[s].at \in {"begin", "locked"}
            PROVE  Due(s)
        <4>1. CASE worker' = worker
          BY <1>1, <3>3, <4>1
        <4>2. CASE worker' = [worker EXCEPT ![Current] = [at |-> "begin", kind |-> choice]]
          <5>1. CASE s = Current
            BY <1>0, <1>1, <3>1, <3>3, <4>2, <5>1 DEF SchedulerTyped
          <5>2. CASE s # Current
            BY <1>0, <1>1, <3>1, <3>3, <4>2, <5>2 DEF SchedulerTyped
          <5> QED
            BY <5>1, <5>2
        <4> QED
          BY <2>2, <4>1, <4>2 DEF PassDispatch, workVars
      <3> QED
        BY <2>1, <3>2, <3>3 DEF ChosenInv
    <2>3. ASSUME UNCHANGED worker, step' = "dispatch" => UNCHANGED <<step, choice, todo>>
          PROVE  ChosenInv'
      <3>1. (step' = "dispatch" /\ choice' = "backup") => Due(Current)'
        <4> SUFFICES ASSUME step' = "dispatch", choice' = "backup" PROVE Due(Current)'
          OBVIOUS
        <4>1. Current' = Current /\ step = "dispatch" /\ choice = "backup"
          BY <2>3 DEF Current
        <4>2. Current \in Space
          BY <1>0, <4>1, CurrentIsListed DEF AtInv
        <4>3. PICK s \in Space : s = Current
          BY <4>2
        <4>4. Due(s)'
          BY <1>1, <2>1, <4>1, <4>3
        <4> QED
          BY <4>1, <4>3, <4>4 DEF Due
      <3> QED
        BY <1>1, <2>1, <2>3, <3>1 DEF ChosenInv
    <2>4. CASE Elapse \/ BeginPass \/ PassLook \/ EndPass \/ PassError \/ SlotBack \/ Boot
               \/ UNCHANGED vars
      BY <2>3, <2>4 DEF Elapse, BeginPass, PassLook, EndPass, PassError, SlotBack, Boot, MoveOn,
                        loopVars, workVars, vars
    <2>5. CASE Crash
      BY <2>5 DEF Crash, NoWorker, ChosenInv
    <2>6. ASSUME NEW r \in Space, ManualLock(r) \/ ManualStep(r) \/ Put(r) \/ LeaseExpires(r)
          PROVE  ChosenInv'
      BY <2>3, <2>6 DEF ManualLock, ManualStep, ManualRecord, ManualUnresolved, ManualFinish, Put,
                        LeaseExpires, loopVars, workVars
    <2>7. ASSUME NEW r \in Space, UNCHANGED loopVars,
                 \A s \in Space \ {r} : worker'[s] = worker[s],
                 worker'[r].at = "locked" => worker[r].at = "begin" /\ worker'[r].kind = worker[r].kind,
                 worker'[r].at # "begin"
          PROVE  ChosenInv'
      <3>1. (step' = "dispatch" /\ choice' = "backup") => Due(Current)'
        <4> SUFFICES ASSUME step = "dispatch", choice = "backup" PROVE Due(Current)'
          BY <2>7 DEF loopVars
        <4>1. Current' = Current
          BY <2>7 DEF Current, loopVars
        <4>2. Current \in Space
          BY <1>0, CurrentIsListed DEF AtInv
        <4>3. PICK s \in Space : s = Current
          BY <4>2
        <4>4. Due(s)'
          BY <1>1, <2>1, <4>3
        <4> QED
          BY <4>1, <4>3, <4>4 DEF Due
      <3>2. ASSUME NEW s \in Space, worker'[s].kind = "backup", worker'[s].at \in {"begin", "locked"}
            PROVE  Due(s)
        BY <1>1, <2>7, <3>2
      <3> QED
        BY <2>1, <3>1, <3>2 DEF ChosenInv
    <2>8. ASSUME NEW r \in Space, WorkerStep(r) PROVE ChosenInv'
      <3>1. CASE WorkerLock(r)
        <4>1. worker[r].at = "begin" /\ UNCHANGED loopVars
          BY <3>1 DEF WorkerLock
        <4>2. PICK place \in {"locked", "exit"} : worker' = [worker EXCEPT ![r].at = place]
          BY <3>1 DEF WorkerLock
        <4>3. /\ \A s \in Space \ {r} : worker'[s] = worker[s]
              /\ worker'[r].at = place /\ worker'[r].kind = worker[r].kind
          BY <1>0, <4>2 DEF SchedulerTyped
        <4> QED
          BY <2>7, <4>1, <4>3
      <3>2. CASE WorkerRecord(r) \/ WorkerUnresolved(r) \/ WorkerFinish(r)
        <4>1. PICK place \in {"run", "exit"} : worker' = [worker EXCEPT ![r].at = place]
          BY <3>2 DEF WorkerRecord, WorkerUnresolved, WorkerFinish
        <4>2. UNCHANGED loopVars
          BY <3>2 DEF WorkerRecord, WorkerUnresolved, WorkerFinish
        <4>3. (\A s \in Space \ {r} : worker'[s] = worker[s]) /\ worker'[r].at = place
          BY <1>0, <4>1 DEF SchedulerTyped
        <4> QED
          BY <2>7, <4>2, <4>3
      <3>3. CASE WorkerLeave(r)
        <4>1. worker' = [worker EXCEPT ![r] = NoWorker] /\ UNCHANGED loopVars
          BY <3>3 DEF WorkerLeave
        <4>2. (\A s \in Space \ {r} : worker'[s] = worker[s]) /\ worker'[r].at = "none"
          BY <1>0, <4>1 DEF SchedulerTyped, NoWorker
        <4> QED
          BY <2>7, <4>1, <4>2
      <3> QED
        BY <2>8, <3>1, <3>2, <3>3 DEF WorkerStep
    <2> QED
      BY <1>3, <2>2, <2>4, <2>5, <2>6, <2>8 DEF Next, PassStep
  <1> QED
    BY <1>2, <1>3

-----------------------------------------------------------------------------
(* The theorems.                                                            *)

\* At most MaxConcurrent Spaces are worked on at a time (dispatch, slots): a
\* goroutine has a slot from before it starts until after it has left the
\* in-flight set, whatever ends its run.
THEOREM WorkersAreLimited ==
  Spec => [](Cardinality({s \in Space : worker[s].at # "none"}) <= MaxConcurrent)
  <1>1. CapacityInv => Cardinality({s \in Space : worker[s].at # "none"}) <= MaxConcurrent
    <2> SUFFICES ASSUME CapacityInv PROVE Cardinality(inflight) <= MaxConcurrent
      BY DEF CapacityInv, SlotInv
    <2>1. /\ Cardinality(inflight) \in Nat /\ leaving \in Nat /\ MaxConcurrent \in Nat
          /\ slots = Cardinality(inflight) + leaving /\ slots <= MaxConcurrent
      BY SpacesAreFinite, ScheduleAssumption DEF CapacityInv, SchedulerTyped, SlotInv
    <2> QED
      BY <2>1
  <1> QED
    BY <1>1, CapacityInvHolds, PTL

\* "Due-ness is derived from the last attempt" (backupDue): a scheduled backup
\* starts only when an occurrence has passed since the last one that has a record
\* began, or when the scheduler could not know of that one: it began after the
\* decision, its record could not be read, or it is past the history window.
THEOREM BackupsAreOnSchedule == Spec => OnSchedule
  <1>1. Init /\ CapacityInv => ScheduleInv
    <2> SUFFICES ASSUME Init, CapacityInv PROVE ScheduleInv
      OBVIOUS
    <2>1. BaselineInv
      BY DEF Init, BaselineInv
    <2>2. ChosenInv
      BY DEF Init, ChosenInv, NoWorker
    <2> QED
      BY <2>1, <2>2 DEF ScheduleInv
  <1>2. ScheduleInv /\ CapacityInv' /\ [Next]_vars => ScheduleInv'
    BY BaselineKept, ChosenKept DEF ScheduleInv
  <1>3. ScheduleInv /\ [Next]_vars =>
          [\A s \in Space :
             (worker[s].at = "locked" /\ worker[s].kind = "backup" /\ worker'[s].at \in {"run", "exit"})
             => \/ attemptIn[s] = 0 \/ overtaken[s]
                \/ misread[s] \/ attemptAge[s] = HistoryWindow]_vars
    BY DEF ScheduleInv, ChosenInv, Due
  <1> QED
    BY <1>1, <1>2, <1>3, CapacityInvHolds, PTL DEF Spec, OnSchedule

=============================================================================
