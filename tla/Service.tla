------------------------------- MODULE Service -------------------------------
(***************************************************************************)
(* The process around the runs: cmd/backupd's serve, buildService and      *)
(* shutdown, internal/retry and jobs.Background, with the single-instance  *)
(* guard (InstanceGuard) they claim and withdraw.                          *)
(*                                                                         *)
(* A process waits for OpenCloud, claims its record, builds the service,   *)
(* serves, and on a signal, or when its listener fails, cancels its runs   *)
(* and waits for them, for a while.  What a run does is RunLifecycle; here *)
(* it is at work or not, and need not heed its cancellation.  When the     *)
(* timeouts fire is left open.                                             *)
(***************************************************************************)
EXTENDS InstanceGuard

VARIABLES
    stage,      \* where serve is
    told,       \* the signal context is done
    request,    \* the request for a manual run, and then the run
    ticker,     \* the scheduler's goroutine
    cut,        \* history: the drain timed out
    landed      \* history: a write of the record was given up and may have landed

serveVars == <<stage, told, request, ticker, cut, landed>>
serviceVars == <<guardVars, serveVars>>

ServiceInit ==
    /\ GuardInit
    /\ stage = [i \in Instance |-> IF pc[i] = "gone" THEN "exit" ELSE "boot"]
    /\ told = [i \in Instance |-> FALSE]
    /\ request = [i \in Instance |-> "none"]
    /\ ticker = [i \in Instance |-> "off"]
    /\ cut = [i \in Instance |-> FALSE]
    /\ landed = [i \in Instance |-> pc[i] = "gone"]

At(i, s) == stage[i] = s
Enters(i, s) == stage' = [stage EXCEPT ![i] = s]

\* A run of i is at work.
AtWork(i) == request[i] = "running" \/ ticker[i] = "running"

-----------------------------------------------------------------------------
(* Starting.                                                                *)

\* The listener is up and answers "not ready".  The work directory, the
\* authentication and the gateway's address are configuration, and may be
\* refused.
Configure(i) ==
    /\ At(i, "boot")
    /\ Enters(i, "wait") \/ Enters(i, "closing")
    /\ UNCHANGED <<guardVars, told, request, ticker, cut, landed>>

\* waitForStateSpace: Until takes an answer, which may be that end users can
\* reach the Space or that the account is refused, and otherwise tries again
\* until told to stop or STARTUP_WAIT is over.  OpenCloud may never answer.
StateSpaceAnswers(i) ==
    /\ At(i, "wait")
    /\ Enters(i, "claim") \/ Enters(i, "closing")
    /\ UNCHANGED <<guardVars, told, request, ticker, cut, landed>>

GiveUpWaiting(i) ==
    /\ At(i, "wait")
    /\ Enters(i, "closing")
    /\ UNCHANGED <<guardVars, told, request, ticker, cut, landed>>

\* guard.Claim begins, comes to nothing or returns with the record in place.
Claim(i) ==
    /\ At(i, "claim")
    /\ List(i) \/ ClaimStep(i)
    /\ Enters(i, IF pc'[i] = "run" THEN "build" ELSE IF pc'[i] = "refused" THEN "closing" ELSE "claim")
    /\ UNCHANGED <<told, request, ticker, cut, landed>>

\* A call of Claim fails, or ends with the signal context.  Nobody stands the
\* instance down then, although the record may have got there.
ClaimFails(i) ==
    /\ At(i, "claim")
    /\ \/ told[i] /\ UNCHANGED faults
       \/ faults < MaxGuardFaults /\ faults' = faults + 1
    /\ pc' = [pc EXCEPT ![i] = "gone"]
    /\ \/ UNCHANGED <<rec, renewIn, renewed, landed>>
       \/ pc[i] = "write" /\ Written(i) /\ landed' = [landed EXCEPT ![i] = TRUE]
    /\ Enters(i, "closing")
    /\ UNCHANGED <<left, at, seen, overwrites, late, met, told, request, ticker, cut>>

\* Mutant: a failure does not undo what was acquired.
BuildKeeps(i) ==
    /\ At(i, "build")
    /\ \/ Enters(i, "serve") /\ ticker' = [ticker EXCEPT ![i] = "idle"]
       \/ Enters(i, "closing") /\ UNCHANGED ticker
    /\ UNCHANGED <<guardVars, told, request, cut, landed>>

\* The rest of buildService, and serve's hand-over to the API: custody,
\* seeding, recovery and the pipelines.  A failure runs cleanup.
Build(i) ==
    /\ At(i, "build")
    /\ \/ Enters(i, "serve") /\ ticker' = [ticker EXCEPT ![i] = "idle"]
       \/ Enters(i, "cleanup") /\ UNCHANGED ticker
    /\ UNCHANGED <<guardVars, told, request, cut, landed>>

-----------------------------------------------------------------------------
(* Serving.                                                                 *)

\* StartBackup or StartRestore: the Space is locked and the job opened.
Accept(i) ==
    /\ At(i, "serve")
    /\ request[i] = "none"
    /\ request' = [request EXCEPT ![i] = "begun"]
    /\ UNCHANGED <<guardVars, stage, told, ticker, cut, landed>>

\* Mutant: work is taken after Stop.
GoAnyway(i) ==
    /\ request[i] = "begun"
    /\ request' = [request EXCEPT ![i] = "running"]
    /\ UNCHANGED <<guardVars, stage, told, ticker, cut, landed>>

\* Background.Go, which refuses once Stop has been called: the handler then
\* records the failure and gives the lock back.
Go(i) ==
    /\ request[i] = "begun"
    /\ request' = [request EXCEPT ![i] = IF At(i, "serve") THEN "running" ELSE "none"]
    /\ UNCHANGED <<guardVars, stage, told, ticker, cut, landed>>

\* A run ends, by itself or cancelled, and the next request may come.
ManualEnds(i) ==
    /\ request[i] = "running"
    /\ request' = [request EXCEPT ![i] = "none"]
    /\ UNCHANGED <<guardVars, stage, told, ticker, cut, landed>>

\* The scheduler dispatches (its select may take a tick although it is told to
\* stop), its runs end, and it returns when told to, after them.
Work(i) ==
    /\ \/ ticker[i] = "idle" /\ ticker' = [ticker EXCEPT ![i] = "running"]
       \/ ticker[i] = "running" /\ ticker' = [ticker EXCEPT ![i] = "idle"]
       \/ ticker[i] = "idle" /\ told[i] /\ ticker' = [ticker EXCEPT ![i] = "off"]
    /\ UNCHANGED <<guardVars, stage, told, request, cut, landed>>

-----------------------------------------------------------------------------
(* Stopping.                                                                *)

\* A signal, or the listener failed.
Tell(i) ==
    /\ ~told[i] /\ ~At(i, "exit")
    /\ told' = [told EXCEPT ![i] = TRUE]
    /\ UNCHANGED <<guardVars, stage, request, ticker, cut, landed>>

\* shutdown: Background.Stop, and the listener is closed.
Stop(i) ==
    /\ At(i, "serve") /\ told[i]
    /\ Enters(i, "http")
    /\ UNCHANGED <<guardVars, told, request, ticker, cut, landed>>

\* httpSrv.Shutdown: the handlers have answered, or its timeout is over and one
\* goes on.
HandlersAnswered(i) ==
    /\ At(i, "http")
    /\ Enters(i, "drain")
    /\ UNCHANGED <<guardVars, told, request, ticker, cut, landed>>

Drained(i) == request[i] # "running" /\ ticker[i] = "off"

\* Mutant: the drain has no timeout.
DrainForEver(i) ==
    /\ At(i, "drain") /\ Drained(i)
    /\ Enters(i, "cleanup")
    /\ UNCHANGED <<guardVars, told, request, ticker, cut, landed>>

\* waitFor: the runs and the scheduler have returned, or drainTimeout is over.
Drain(i) ==
    /\ At(i, "drain")
    /\ Enters(i, "cleanup")
    /\ cut' = [cut EXCEPT ![i] = ~Drained(i)]
    /\ UNCHANGED <<guardVars, told, request, ticker, landed>>

\* cleanup: the record is withdrawn, best effort; a renewal may land after it.
StandDown(i) ==
    /\ At(i, "cleanup")
    /\ Release(i)
    /\ landed' = [landed EXCEPT ![i] = rec'[i] # -1]
    /\ Enters(i, "closing")
    /\ UNCHANGED <<told, request, ticker, cut>>

StandDownFails(i) ==
    /\ At(i, "cleanup") /\ Running(i)
    /\ faults < MaxGuardFaults
    /\ faults' = faults + 1
    /\ pc' = [pc EXCEPT ![i] = "gone"]
    /\ landed' = [landed EXCEPT ![i] = TRUE]
    /\ Enters(i, "closing")
    /\ UNCHANGED <<rec, renewIn, claimVars, overwrites, late, met, told, request, ticker, cut>>

\* serve returns and main exits, with whatever is still at work.
Exit(i) ==
    /\ At(i, "closing")
    /\ Enters(i, "exit")
    /\ request' = [request EXCEPT ![i] = "none"]
    /\ ticker' = [ticker EXCEPT ![i] = "off"]
    /\ UNCHANGED <<guardVars, told, cut, landed>>

\* The process is killed.
Kill(i) ==
    /\ ~At(i, "exit") /\ Die(i)
    /\ Enters(i, "exit")
    /\ request' = [request EXCEPT ![i] = "none"]
    /\ ticker' = [ticker EXCEPT ![i] = "off"]
    /\ landed' = [landed EXCEPT ![i] = TRUE]
    /\ UNCHANGED <<told, cut>>

-----------------------------------------------------------------------------
\* renewUntil's goroutine, and time.
Renewal(i) == Renewing(i) /\ UNCHANGED <<serveVars>>
Clock == Tick /\ UNCHANGED <<serveVars>>

AllExited == (\A i \in Instance : At(i, "exit")) /\ UNCHANGED serviceVars

Starting(i) == Configure(i) \/ Build(i)
Stopping(i) == Stop(i) \/ HandlersAnswered(i) \/ Drain(i) \/ StandDown(i) \/ Exit(i)

ServiceNext ==
    \/ Clock \/ AllExited
    \/ \E i \in Instance :
          \/ Starting(i) \/ StateSpaceAnswers(i) \/ GiveUpWaiting(i) \/ Claim(i) \/ ClaimFails(i)
          \/ Accept(i) \/ Go(i) \/ ManualEnds(i) \/ Work(i)
          \/ Tell(i) \/ Stopping(i) \/ StandDownFails(i) \/ Kill(i) \/ Renewal(i)

ServiceSpec == ServiceInit /\ [][ServiceNext]_serviceVars

\* A goroutine that can go on does, timers fire, and calls made with a
\* context that is done return.  No run has to end, and nothing says OpenCloud
\* ever comes up.
ServiceFairness ==
    /\ WF_serviceVars(Clock)
    /\ \A i \in Instance :
          /\ WF_serviceVars(Starting(i)) /\ WF_serviceVars(Claim(i))
          /\ WF_serviceVars(told[i] /\ (GiveUpWaiting(i) \/ ClaimFails(i)))
          /\ WF_serviceVars(Renewal(i)) /\ WF_serviceVars(Stopping(i))

-----------------------------------------------------------------------------
(* Properties.                                                              *)

\* "stops accepting work, cancels what is running, and waits for it": when the
\* record is gone and a replacement may start, no run is at work, unless the
\* drain timed out; a request whose handler outlived the listener starts none.
NoRunOutlivesTheRecord ==
    \A i \in Instance : (pc[i] = "gone" /\ AtWork(i)) => cut[i]

\* "Every return path, including a failed startup, has released what
\* buildService acquired": a process that was not killed leaves a record
\* behind only when a write of it was under way as it gave up or stood down.
ExitsLeaveNoRecord ==
    \A i \in Instance : (At(i, "exit") /\ rec[i] # -1) => landed[i]

\* "Two instances against one state Space can mark each other's runs failed and
\* dispatch the same Space twice": two processes have runs at work at the same
\* time only if they started together, the first one's renewals failed for as
\* long as its record lives, or its drain timed out.  It takes a server that
\* overwrites: on another, Replace deletes the record and uploads it again, and
\* a Claim that lists or watches in between finds none.
RunsOfOneProcess ==
    overwrites => \A i, j \in Instance :
        (i # j /\ AtWork(i) /\ AtWork(j) /\ i \in met[j]) => late[i] \/ cut[i]

\* A process that is told to stop ends, wherever it is: waiting for OpenCloud,
\* watching another's record, or serving with a run that does not heed its
\* cancellation.
ShutdownEnds == \A i \in Instance : told[i] ~> At(i, "exit")

=============================================================================
