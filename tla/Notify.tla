------------------------------- MODULE Notify -------------------------------
(***************************************************************************)
(* Telling people: internal/notify.  The reporter records what a failed    *)
(* run means (reporter.go), the monitor sweeps the Spaces for stale        *)
(* backups and for records that cannot be read (monitor.go, stale.go), the *)
(* event store keeps what was said, newest first (state.go).               *)
(*                                                                         *)
(* A sweep reads a Space's backup records, then its events, then appends:  *)
(* runs start and end, and events arrive, between those calls.  Both reads *)
(* are bounded, StaleLookback backups and HistoryLookback events, and both *)
(* leave out, without a word, a document that cannot be read.              *)
(***************************************************************************)
EXTENDS Integers, Sequences, FiniteSets

CONSTANTS
    Watched,            \* the Spaces there are
    MaxTime,            \* bound: the clock
    StaleAfter,         \* threshold(cfg, since)
    RepeatAfter,        \* MonitorOptions.RepeatAfter
    StaleLookback,
    HistoryLookback,
    MaxRuns,            \* bound: backups of a Space
    MaxFaults,          \* bound: documents that cannot be read, calls that fail
    MaxSaves            \* bound: configurations switched on or off, or damaged

ASSUME NotifyAssumption ==
    /\ MaxTime \in Nat /\ MaxRuns \in Nat /\ MaxFaults \in Nat /\ MaxSaves \in Nat
    /\ StaleAfter \in Nat \ {0} /\ RepeatAfter \in Nat \ {0}
    /\ StaleLookback \in Nat \ {0} /\ HistoryLookback \in Nat \ {0}

\* The events that are nobody's but the operator's have a scope of their own.
Operator == "operator"
Scope == Watched \cup {Operator}

ASSUME ScopeAssumption == Operator \notin Watched

VARIABLES
    now,
    config,     \* each Space's configuration: on, off, or unreadable
    backups,    \* its backup records, newest first
    events,     \* the events of each scope, newest first
    sweep,      \* where the sweep is: idle, operator, stale, recent, send
    asOf,       \* the time it was called with
    listed,     \* what it listed: the Spaces that are on, whether any is unreadable
    queue,      \* the Spaces it has still to look at
    current,    \* the one it is at,
    since,      \* ... and the last success it saw there
    unseen,     \* history: the backup records it could not read on the way,
    unread,     \* ... and the events
    swept,      \* whether it has swept at this time
    failures, saves,
    missed      \* history: the sweep met a failing call

sweepVars == <<sweep, asOf, listed, queue, current, since, unseen, unread, swept, missed>>
notifyVars == <<now, config, backups, events, sweepVars, failures, saves>>

Kinds == {"run_failed", "backup_stale", "target_unavailable", "state_unreadable"}
Time == 0..MaxTime

\* A document is known by its key, which counts up within a Space or scope.  With a
\* message goes, as history, what its author could not read.
Backup == [nr : Nat, at : Time, ended : Time, state : {"running", "succeeded", "failed"}]
Message == [nr : Nat, kind : Kinds, at : Time, since : Time, asOf : Time,
            unseen : SUBSET Nat, unread : SUBSET Nat]

NotifyTypeOK ==
    /\ now \in Time
    /\ config \in [Watched -> {"on", "off", "unreadable"}]
    /\ backups \in [Watched -> Seq(Backup)]
    /\ events \in [Scope -> Seq(Message)]
    /\ sweep \in {"idle", "operator", "stale", "recent", "send"}
    /\ asOf \in Time /\ since \in Time
    /\ listed \in [on : SUBSET Watched, unreadable : BOOLEAN]
    /\ queue \subseteq Watched
    /\ current \in Scope
    /\ unseen \subseteq Nat /\ unread \subseteq Nat
    /\ swept \in BOOLEAN /\ missed \in BOOLEAN
    /\ failures \in 0..MaxFaults /\ saves \in 0..MaxSaves

Nothing == [on |-> {}, unreadable |-> FALSE]

NotifyInit ==
    /\ now = 0
    /\ config = [s \in Watched |-> "on"]
    /\ backups = [s \in Watched |-> <<>>]
    /\ events = [c \in Scope |-> <<>>]
    /\ sweep = "idle"
    /\ asOf = 0
    /\ listed = Nothing
    /\ queue = {}
    /\ current = Operator
    /\ since = 0
    /\ unseen = {}
    /\ unread = {}
    /\ swept = FALSE
    /\ missed = FALSE
    /\ failures = 0
    /\ saves = 0

-----------------------------------------------------------------------------
(* The event store, and the runs that are reported to it.                   *)

Event(kind, from, seen) ==
    [nr |-> 0, kind |-> kind, at |-> now, since |-> from, asOf |-> seen,
     unseen |-> {}, unread |-> {}]
Report(kind) ==
    [nr |-> 0, kind |-> kind, at |-> now, since |-> since, asOf |-> asOf,
     unseen |-> unseen, unread |-> unread]

\* Append files an event as the newest of its scope, under a key of its own.
Append1(log, c, e) == [log EXCEPT ![c] = <<[e EXCEPT !.nr = Len(log[c]) + 1]>> \o @]

\* listScope: where the newest events of a scope are found, but for those whose
\* document cannot be read.
ListScope(c, limit, lost) == {i \in DOMAIN events[c] : i <= limit} \ lost

UnderWay(s) == backups[s] # <<>> /\ Head(backups[s]).state = "running"

StartRun(s) ==
    /\ Len(backups[s]) < MaxRuns
    /\ ~UnderWay(s)
    /\ backups' = [backups EXCEPT ![s] = <<[nr |-> Len(@) + 1, at |-> now, ended |-> now,
                                                  state |-> "running"]>> \o @]
    /\ UNCHANGED <<now, config, events, sweepVars, failures, saves>>

Finish(s, state) ==
    backups' = [backups EXCEPT ![s] = <<[Head(@) EXCEPT !.state = state, !.ended = now]>> \o Tail(@)]

\* A backup that works is not news.
RunSucceeds(s) ==
    /\ UnderWay(s)
    /\ Finish(s, "succeeded")
    /\ UNCHANGED <<now, config, events, sweepVars, failures, saves>>

\* RunFinished: silent, for the members, or for the operator as well.
RunFails(s) ==
    /\ UnderWay(s)
    /\ Finish(s, "failed")
    /\ LET member == Append1(events, s, Event("run_failed", now, now))
       IN events' \in {events, member,
                       Append1(member, Operator, Event("target_unavailable", now, now))}
    /\ UNCHANGED <<now, config, sweepVars, failures, saves>>

TimePasses ==
    /\ now < MaxTime
    /\ now' = now + 1
    /\ swept' = FALSE
    /\ UNCHANGED <<config, backups, events, sweep, asOf, listed, queue, current, since,
                   unseen, unread, missed, failures, saves>>

\* Backups are switched on or off, or the document is damaged.
Edit(s) ==
    /\ saves < MaxSaves
    /\ saves' = saves + 1
    /\ \E c \in {"on", "off", "unreadable"} : config' = [config EXCEPT ![s] = c]
    /\ UNCHANGED <<now, backups, events, sweepVars, failures>>

-----------------------------------------------------------------------------
(* The sweep.                                                               *)

\* Sweep lists the configurations; the operator comes first.
BeginSweep ==
    /\ sweep = "idle"
    /\ ~swept
    /\ swept' = TRUE
    /\ missed' = FALSE
    /\ asOf' = now
    /\ listed' = [on |-> {s \in Watched : config[s] = "on"},
                  unreadable |-> \E s \in Watched : config[s] = "unreadable"]
    /\ queue' = listed'.on
    /\ current' = Operator
    /\ sweep' = IF listed'.unreadable THEN "recent" ELSE "operator"
    /\ UNCHANGED <<now, config, backups, events, since, unseen, unread, failures, saves>>

\* On to the next Space, or done.
NextSpace ==
    /\ sweep = "operator"
    /\ \/ \E s \in queue :
             /\ current' = s
             /\ queue' = queue \ {s}
             /\ sweep' = "stale"
             /\ UNCHANGED <<asOf, listed, missed>>
       \/ /\ queue = {}
          /\ sweep' = "idle" /\ asOf' = 0 /\ listed' = Nothing /\ current' = Operator
          /\ missed' = FALSE
          /\ UNCHANGED queue
    /\ since' = 0 /\ unseen' = {} /\ unread' = {}
    /\ UNCHANGED <<now, config, backups, events, swept, failures, saves>>

Lose(documents) ==
    /\ failures + Cardinality(documents) <= MaxFaults
    /\ failures' = failures + Cardinality(documents)

\* ListRecentOfKind: where the newest backups of a Space are found that can be read.
ListRecentOfKind(s, limit, lost) ==
    LET readable == DOMAIN backups[s] \ lost
    IN {i \in readable : Cardinality({j \in readable : j < i}) < limit}

\* Assess: the newest success among the newest StaleLookback backups, or the
\* time the Space was configured.
LastSuccess(s, lost) ==
    LET seen == {i \in ListRecentOfKind(s, StaleLookback, lost) : backups[s][i].state = "succeeded"}
    IN IF seen = {} THEN 0
       ELSE backups[s][CHOOSE i \in seen : \A j \in seen : i <= j].at

\* Mutant: off by one; the threshold itself counts as stale.
SweepStaleEarly ==
    /\ sweep = "stale"
    /\ \E lost \in SUBSET DOMAIN backups[current] :
          /\ Lose(lost)
          /\ unseen' = {backups[current][k].nr : k \in lost}
          /\ since' = LastSuccess(current, lost)
    /\ sweep' = IF asOf - since' >= StaleAfter THEN "recent" ELSE "operator"
    /\ UNCHANGED <<now, config, backups, events, asOf, listed, queue, current, unread, swept,
                   missed, saves>>

\* isStale.
SweepStale ==
    /\ sweep = "stale"
    /\ \E lost \in SUBSET DOMAIN backups[current] :
          /\ Lose(lost)
          /\ unseen' = {backups[current][k].nr : k \in lost}
          /\ since' = LastSuccess(current, lost)
    /\ sweep' = IF asOf - since' > StaleAfter THEN "recent" ELSE "operator"
    /\ UNCHANGED <<now, config, backups, events, asOf, listed, queue, current, unread, swept,
                   missed, saves>>

Wanted == IF current = Operator THEN "state_unreadable" ELSE "backup_stale"

\* Mutants: any event of the scope will do; no event is too old.
NotifiedRecentlyAny(c, kind, lost) ==
    \E i \in ListScope(c, HistoryLookback, lost) : asOf - events[c][i].at < RepeatAfter
NotifiedRecentlyNever(c, kind, lost) == FALSE

\* notifiedRecently: the newest event of the kind the listing shows.
NotifiedRecently(c, kind, lost) ==
    LET seen == {i \in ListScope(c, HistoryLookback, lost) : events[c][i].kind = kind}
    IN /\ seen # {}
       /\ asOf - events[c][CHOOSE i \in seen : \A j \in seen : i <= j].at < RepeatAfter

SweepRecent ==
    /\ sweep = "recent"
    /\ \E lost \in SUBSET ListScope(current, HistoryLookback, {}) :
          /\ Lose(lost)
          /\ unread' = {events[current][k].nr : k \in lost}
          /\ sweep' = IF NotifiedRecently(current, Wanted, lost) THEN "operator" ELSE "send"
    /\ UNCHANGED <<now, config, backups, events, asOf, listed, queue, current, since, unseen,
                   swept, missed, saves>>

SweepSend ==
    /\ sweep = "send"
    /\ events' = Append1(events, current, Report(Wanted))
    /\ sweep' = "operator"
    /\ UNCHANGED <<now, config, backups, asOf, listed, queue, current, since, unseen, unread,
                   swept, missed, failures, saves>>

\* The names of a history cannot be listed, or the append fails, which may have
\* stored its event all the same: logged, and on to the next Space.
SweepFails ==
    /\ sweep \in {"stale", "recent", "send"}
    /\ failures < MaxFaults
    /\ failures' = failures + 1
    /\ missed' = TRUE
    /\ events' \in {events} \cup
          (IF sweep = "send" THEN {Append1(events, current, Report(Wanted))} ELSE {})
    /\ sweep' = "operator"
    /\ UNCHANGED <<now, config, backups, asOf, listed, queue, current, since, unseen, unread,
                   swept, saves>>

SweepStep == BeginSweep \/ NextSpace \/ SweepStale \/ SweepRecent \/ SweepSend \/ SweepFails
RunStep(s) == StartRun(s) \/ RunSucceeds(s) \/ RunFails(s)

Finished == now = MaxTime /\ sweep = "idle" /\ swept /\ UNCHANGED notifyVars

NotifyNext ==
    \/ TimePasses \/ SweepStep \/ Finished
    \/ \E s \in Watched : RunStep(s) \/ Edit(s)

NotifySpec == NotifyInit /\ [][NotifyNext]_notifyVars

-----------------------------------------------------------------------------
(* Properties.                                                              *)

IsStaleEvent(c, i) == events[c][i].kind \in {"backup_stale", "state_unreadable"}

\* The two events are repetitions, the i-th the newer.
Repeats(c, i, j) == i < j /\ IsStaleEvent(c, i) /\ events[c][i].kind = events[c][j].kind

\* "Re-notification is rate-limited": an unchanged problem is not reported
\* again within RepeatAfter, as long as the earlier report is still within the
\* HistoryLookback events the monitor lists (failed runs push it out) and its
\* document was not the very one the sweep could not read.
NoNagging ==
    \A c \in Scope : \A i, j \in DOMAIN events[c] :
        (Repeats(c, i, j) /\ j - i <= HistoryLookback)
        => \/ events[c][i].at - events[c][j].at >= RepeatAfter
           \/ events[c][j].nr \in events[c][i].unread

\* A Space is only called stale when it is: at the time of the sweep it had
\* gone more than StaleAfter without a backup that worked, and none had ended well
\* that began after the date it is told, as far as StaleLookback reaches - but for
\* those whose record the sweep could not read, and no others.
StaleMessageIsTrue ==
    \A s \in Watched : \A i \in DOMAIN events[s] :
        events[s][i].kind = "backup_stale" =>
            /\ events[s][i].asOf - events[s][i].since > StaleAfter
            /\ \A k \in DOMAIN backups[s] :
                  (k <= StaleLookback /\ backups[s][k].state = "succeeded"
                     /\ events[s][i].since < backups[s][k].at)
                  => \/ backups[s][k].ended >= events[s][i].asOf
                     \/ backups[s][k].nr \in events[s][i].unseen

\* What a scope was told about kind since the repeat window of the sweep began.
Told(c, kind) ==
    \E i \in DOMAIN events[c] : events[c][i].kind = kind /\ asOf - events[c][i].at < RepeatAfter

\* The backups of a Space are stale at the time of the sweep, all of its
\* history counted.
Stale(s) ==
    /\ asOf > StaleAfter
    /\ \A k \in DOMAIN backups[s] :
          backups[s][k].state = "succeeded" => asOf - backups[s][k].at > StaleAfter

\* The silent failure is not silent: when a sweep in which every listing and
\* append worked ends, whatever documents it could not read, every Space that is on
\* and stale has been told within RepeatAfter, and so has the operator about
\* configurations that cannot be read.
StaleSpacesAreTold ==
    [][(sweep = "operator" /\ sweep' = "idle" /\ ~missed)
          => /\ \A s \in listed.on : Stale(s) => Told(s, "backup_stale")
             /\ listed.unreadable => Told(Operator, "state_unreadable")]_notifyVars

=============================================================================
