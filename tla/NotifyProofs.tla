----------------------------- MODULE NotifyProofs -----------------------------
(* Proofs about Notify, for any Spaces, thresholds, windows and bounds.      *)
EXTENDS Notify, SequenceTheorems, FiniteSetTheorems, WellFoundedInduction, TLAPS

-----------------------------------------------------------------------------
(* The inductive invariant.                                                 *)

\* Records and events are newest first, and none is of the future.
BackupsInOrder ==
    \A s \in Watched : \A i \in DOMAIN backups[s] :
        /\ backups[s][i].at <= now
        /\ \A j \in DOMAIN backups[s] : i < j => backups[s][j].at <= backups[s][i].at

EventsInOrder ==
    \A c \in Scope : \A i \in DOMAIN events[c] :
        /\ events[c][i].at <= now /\ events[c][i].asOf <= now
        /\ \A j \in DOMAIN events[c] : i < j => events[c][j].at <= events[c][i].at

OrderInv == asOf <= now /\ BackupsInOrder /\ EventsInOrder

\* What is said of Space s, that nothing has worked since from, as of seen, by one
\* who could not read some of its records.
TrueOf(s, from, seen, lost) ==
    /\ seen - from > StaleAfter
    /\ \A k \in DOMAIN backups[s] :
          (k <= StaleLookback /\ backups[s][k].state = "succeeded" /\ from < backups[s][k].at)
          => backups[s][k].ended >= seen \/ backups[s][k].nr \in lost

\* Before it says so, the sweep has found it so.
FoundInv ==
    (sweep \in {"recent", "send"} /\ current # Operator) => TrueOf(current, since, asOf, unseen)

\* Before it says anything, it has found that nothing like it was said lately, in
\* what it could read.
QuietInv ==
    sweep = "send" => \A j \in DOMAIN events[current] :
        (j <= HistoryLookback /\ events[current][j].kind = Wanted)
        => asOf - events[current][j].at >= RepeatAfter \/ events[current][j].nr \in unread

\* The Space the sweep is at is one it has listed.
ListedInv ==
    /\ queue \subseteq listed.on
    /\ sweep = "stale" => current \in listed.on
    /\ (sweep \in {"recent", "send"} /\ current # Operator) => current \in listed.on

\* Whoever the sweep has dealt with has been told, if every call worked.
At(c) == current = c /\ sweep \in {"stale", "recent", "send"}
ToldInv ==
    (sweep # "idle" /\ ~missed) =>
        /\ \A s \in listed.on \ queue : At(s) \/ (Stale(s) => Told(s, "backup_stale"))
        /\ listed.unreadable => At(Operator) \/ Told(Operator, "state_unreadable")

NotifyInv ==
    /\ NotifyTypeOK /\ OrderInv /\ FoundInv /\ QuietInv /\ ListedInv /\ ToldInv
    /\ NoNagging /\ StaleMessageIsTrue

-----------------------------------------------------------------------------
(* Sequences, newest first.                                                 *)

\* A record put in front of others.
LEMMA Pushed ==
  ASSUME NEW S, NEW s \in Seq(S), NEW e \in S
  PROVE  /\ <<e>> \o s \in Seq(S) /\ DOMAIN (<<e>> \o s) = 1 .. (Len(s) + 1)
         /\ DOMAIN s = 1 .. Len(s) /\ Len(s) \in Nat
         /\ (<<e>> \o s)[1] = e
         /\ \A i \in 2 .. (Len(s) + 1) : (<<e>> \o s)[i] = s[i - 1]
  <1>1. <<e>> \in Seq(S) /\ Len(<<e>>) = 1 /\ <<e>>[1] = e
    OBVIOUS
  <1>2. Len(s) \in Nat /\ DOMAIN s = 1 .. Len(s)
    BY LenProperties
  <1>3. /\ <<e>> \o s \in Seq(S) /\ Len(<<e>> \o s) = 1 + Len(s)
        /\ \A i \in 1 .. (1 + Len(s)) : (<<e>> \o s)[i] = IF i <= 1 THEN <<e>>[i] ELSE s[i - 1]
    BY <1>1, ConcatProperties
  <1>4. DOMAIN (<<e>> \o s) = 1 .. (Len(s) + 1)
    BY <1>2, <1>3, LenProperties
  <1> QED
    BY <1>1, <1>2, <1>3, <1>4

\* A newest record replaced.
LEMMA Replaced ==
  ASSUME NEW S, NEW s \in Seq(S), s # <<>>, NEW e \in S
  PROVE  /\ <<e>> \o Tail(s) \in Seq(S)
         /\ Head(s) = s[1] /\ 1 \in DOMAIN s /\ s[1] \in S
         /\ DOMAIN (<<e>> \o Tail(s)) = DOMAIN s /\ DOMAIN s = 1 .. Len(s) /\ Len(s) \in Nat
         /\ (<<e>> \o Tail(s))[1] = e
         /\ \A i \in 2 .. Len(s) : (<<e>> \o Tail(s))[i] = s[i]
  <1>1. /\ Tail(s) \in Seq(S) /\ Len(Tail(s)) = Len(s) - 1
        /\ \A i \in 1 .. Len(Tail(s)) : Tail(s)[i] = s[i + 1]
    BY HeadTailProperties
  <1>2. Len(s) \in Nat \ {0} /\ DOMAIN s = 1 .. Len(s) /\ Head(s) = s[1]
    BY EmptySeq, LenProperties
  <1>3. s[1] \in S
    BY <1>2, LenProperties
  <1>4. /\ <<e>> \o Tail(s) \in Seq(S) /\ DOMAIN (<<e>> \o Tail(s)) = 1 .. (Len(Tail(s)) + 1)
        /\ (<<e>> \o Tail(s))[1] = e
        /\ \A i \in 2 .. (Len(Tail(s)) + 1) : (<<e>> \o Tail(s))[i] = Tail(s)[i - 1]
    BY <1>1, Pushed
  <1> QED
    BY <1>1, <1>2, <1>3, <1>4

-----------------------------------------------------------------------------
(* Runs.                                                                    *)

\* What a run does to the records: one is put in front, or the newest one ends.
LEMMA RunsKeep ==
  ASSUME NotifyTypeOK, BackupsInOrder, NEW s \in Watched, RunStep(s)
  PROVE  /\ backups' \in [Watched -> Seq(Backup)] /\ BackupsInOrder'
         /\ \A r \in Watched : \A k \in DOMAIN backups'[r] : backups'[r][k].state = "succeeded" =>
              \/ backups'[r][k].ended = now
              \/ \E j \in DOMAIN backups[r] : j <= k /\ backups'[r][k] = backups[r][j]
         /\ \A r \in Watched : \A j \in DOMAIN backups[r] : backups[r][j].state = "succeeded" =>
              \E k \in DOMAIN backups'[r] : backups'[r][k] = backups[r][j]
  <1>0. /\ backups \in [Watched -> Seq(Backup)] /\ backups[s] \in Seq(Backup)
        /\ now \in Time /\ now \in Int /\ now' = now
    BY DEF NotifyTypeOK, Time, RunStep, StartRun, RunSucceeds, RunFails
  <1> DEFINE old == backups[s]
  <1>1. CASE StartRun(s)
    <2> DEFINE e == [nr |-> Len(old) + 1, at |-> now, ended |-> now, state |-> "running"]
    <2> DEFINE new == <<e>> \o old
    <2>1. backups' = [backups EXCEPT ![s] = new]
      BY <1>1 DEF StartRun
    <2>2. e \in Backup /\ e.at = now /\ e.state # "succeeded"
      BY <1>0, LenProperties DEF Backup
    <2> HIDE DEF e
    <2>3. /\ new \in Seq(Backup) /\ DOMAIN new = 1 .. (Len(old) + 1) /\ new[1] = e
          /\ DOMAIN old = 1 .. Len(old) /\ Len(old) \in Nat
          /\ \A i \in 2 .. (Len(old) + 1) : new[i] = old[i - 1]
      BY <1>0, <2>2, Pushed
    <2> HIDE DEF new
    <2>4. /\ backups' \in [Watched -> Seq(Backup)] /\ backups'[s] = new
          /\ \A r \in Watched \ {s} : backups'[r] = backups[r]
      BY <1>0, <2>1, <2>3
    <2>5. /\ \A i \in DOMAIN old : old[i].at <= now
          /\ \A i, j \in DOMAIN old : i < j => old[j].at <= old[i].at
      BY DEF BackupsInOrder
    <2> HIDE DEF old
    <2>6. ASSUME NEW i \in DOMAIN new PROVE new[i].at <= now
      <3>1. CASE i = 1
        BY <1>0, <2>2, <2>3, <3>1
      <3>2. CASE i # 1
        <4>1. new[i] = old[i - 1] /\ i - 1 \in DOMAIN old
          BY <2>3, <3>2
        <4> QED
          BY <2>5, <4>1
      <3> QED
        BY <3>1, <3>2
    <2>7. \A i, j \in DOMAIN new : i < j => new[j].at <= new[i].at
      <3> SUFFICES ASSUME NEW i \in DOMAIN new, NEW j \in DOMAIN new, i < j
                   PROVE  new[j].at <= new[i].at
        OBVIOUS
      <3>1. new[j] = old[j - 1] /\ j - 1 \in DOMAIN old
        BY <2>3
      <3>2. CASE i = 1
        BY <2>2, <2>3, <2>5, <3>1, <3>2
      <3>3. CASE i # 1
        <4>1. new[i] = old[i - 1] /\ i - 1 \in DOMAIN old /\ i - 1 < j - 1
          BY <2>3, <3>3
        <4> QED
          BY <2>5, <3>1, <4>1
      <3> QED
        BY <3>2, <3>3
    <2>8. BackupsInOrder'
      BY <1>0, <2>4, <2>6, <2>7 DEF BackupsInOrder
    <2>9. \A k \in DOMAIN new : new[k].state = "succeeded" =>
             \E j \in DOMAIN old : j <= k /\ new[k] = old[j]
      <3> SUFFICES ASSUME NEW k \in DOMAIN new, new[k].state = "succeeded"
                   PROVE  \E j \in DOMAIN old : j <= k /\ new[k] = old[j]
        OBVIOUS
      <3>1. k # 1
        BY <2>2, <2>3
      <3>2. k - 1 \in DOMAIN old /\ k - 1 <= k /\ new[k] = old[k - 1]
        BY <2>3, <3>1
      <3> QED
        BY <3>2
    <2>10. \A j \in DOMAIN old : \E k \in DOMAIN new : new[k] = old[j]
      <3> SUFFICES ASSUME NEW j \in DOMAIN old PROVE \E k \in DOMAIN new : new[k] = old[j]
        OBVIOUS
      <3>1. j + 1 \in DOMAIN new /\ new[j + 1] = old[j]
        BY <2>3
      <3> QED
        BY <3>1
    <2>11. ASSUME NEW r \in Watched, NEW k \in DOMAIN backups'[r], backups'[r][k].state = "succeeded"
           PROVE  \E j \in DOMAIN backups[r] : j <= k /\ backups'[r][k] = backups[r][j]
      <3>1. CASE r = s
        BY <2>4, <2>9, <2>11, <3>1 DEF old
      <3>2. CASE r # s
        <4>1. backups'[r] = backups[r] /\ k \in Nat
          BY <1>0, <2>4, <2>11, <3>2, LenProperties
        <4> QED
          BY <2>11, <4>1
      <3> QED
        BY <3>1, <3>2
    <2>12. \A r \in Watched : \A j \in DOMAIN backups[r] :
              \E k \in DOMAIN backups'[r] : backups'[r][k] = backups[r][j]
      BY <2>4, <2>10 DEF old
    <2> QED
      BY <2>4, <2>8, <2>11, <2>12
  <1>2. ASSUME NEW state \in {"succeeded", "failed"}, UnderWay(s), Finish(s, state)
        PROVE  /\ backups' \in [Watched -> Seq(Backup)] /\ BackupsInOrder'
               /\ \A r \in Watched : \A k \in DOMAIN backups'[r] : backups'[r][k].state = "succeeded" =>
                    \/ backups'[r][k].ended = now
                    \/ \E j \in DOMAIN backups[r] : j <= k /\ backups'[r][k] = backups[r][j]
               /\ \A r \in Watched : \A j \in DOMAIN backups[r] : backups[r][j].state = "succeeded" =>
                    \E k \in DOMAIN backups'[r] : backups'[r][k] = backups[r][j]
    <2> DEFINE e == [Head(old) EXCEPT !.state = state, !.ended = now]
    <2> DEFINE new == <<e>> \o Tail(old)
    <2>1. backups' = [backups EXCEPT ![s] = new] /\ old # <<>> /\ Head(old).state = "running"
      BY <1>0, <1>2 DEF Finish, UnderWay
    <2>2. Head(old) = old[1] /\ old[1] \in Backup
      BY <1>0, <2>1, EmptySeq, LenProperties
    <2>3. e \in Backup /\ e.at = old[1].at /\ e.ended = now
      BY <1>0, <1>2, <2>2 DEF Backup
    <2> HIDE DEF e
    <2>4. /\ new \in Seq(Backup) /\ DOMAIN new = DOMAIN old /\ new[1] = e /\ 1 \in DOMAIN old
          /\ DOMAIN old = 1 .. Len(old) /\ Len(old) \in Nat
          /\ \A i \in 2 .. Len(old) : new[i] = old[i]
      BY <1>0, <2>1, <2>3, Replaced
    <2> HIDE DEF new
    <2>5. /\ backups' \in [Watched -> Seq(Backup)] /\ backups'[s] = new
          /\ \A r \in Watched \ {s} : backups'[r] = backups[r]
      BY <1>0, <2>1, <2>4
    <2>6. \A i \in DOMAIN new : new[i].at = old[i].at /\ (i = 1 \/ new[i] = old[i])
      BY <2>3, <2>4
    <2>7. BackupsInOrder'
      <3>1. /\ \A i \in DOMAIN old : old[i].at <= now
            /\ \A i, j \in DOMAIN old : i < j => old[j].at <= old[i].at
        BY DEF BackupsInOrder
      <3> HIDE DEF old
      <3>2. /\ \A i \in DOMAIN new : new[i].at <= now
            /\ \A i, j \in DOMAIN new : i < j => new[j].at <= new[i].at
        BY <2>4, <2>6, <3>1
      <3> QED
        BY <1>0, <2>5, <3>2 DEF BackupsInOrder
    <2>8. old[1].state # "succeeded" /\ new[1].ended = now
      BY <2>1, <2>2, <2>3, <2>4
    <2> HIDE DEF old
    <2>9. ASSUME NEW r \in Watched, NEW k \in DOMAIN backups'[r], backups'[r][k].ended # now
          PROVE  \E j \in DOMAIN backups[r] : j <= k /\ backups'[r][k] = backups[r][j]
      <3>1. k \in Nat
        BY <2>5, <2>9, LenProperties
      <3>2. CASE r = s
        BY <2>4, <2>5, <2>6, <2>8, <2>9, <3>1, <3>2 DEF old
      <3>3. CASE r # s
        <4>1. backups'[r] = backups[r]
          BY <2>5, <3>3
        <4> QED
          BY <2>9, <3>1, <4>1
      <3> QED
        BY <3>2, <3>3
    <2>10. ASSUME NEW r \in Watched, NEW j \in DOMAIN backups[r], backups[r][j].state = "succeeded"
           PROVE  \E k \in DOMAIN backups'[r] : backups'[r][k] = backups[r][j]
      <3>1. CASE r = s
        <4>1. j \in DOMAIN old /\ j # 1
          BY <2>8, <2>10, <3>1 DEF old
        <4>2. j \in DOMAIN new /\ new[j] = old[j]
          BY <2>4, <2>6, <4>1
        <4> QED
          BY <2>5, <3>1, <4>2 DEF old
      <3>2. CASE r # s
        BY <2>5, <3>2
      <3> QED
        BY <3>1, <3>2
    <2> QED
      BY <2>5, <2>7, <2>9, <2>10
  <1> QED
    BY <1>1, <1>2 DEF RunStep, RunSucceeds, RunFails

\* An event that is no report of the monitor's, in front of a scope's others.
Grown(c) ==
    \/ events'[c] = events[c]
    \/ \E e \in Message :
          /\ e.at = now /\ e.asOf <= now /\ e.kind \notin {"backup_stale", "state_unreadable"}
          /\ events'[c] = <<e>> \o events[c]

\* What a run does to the events.
LEMMA RunsTell ==
  ASSUME NotifyTypeOK, NEW s \in Watched, RunStep(s)
  PROVE  events' = [c \in Scope |-> events'[c]] /\ \A c \in Scope : Grown(c)
  <1>0. events = [c \in Scope |-> events[c]] /\ now \in Time /\ now \in Int
    BY DEF NotifyTypeOK, Time
  <1>1. CASE events' = events
    BY <1>0, <1>1 DEF Grown
  <1>00. \A c \in Scope : Len(events[c]) \in Nat
    BY LenProperties DEF NotifyTypeOK
  <1> DEFINE e == [Event("run_failed", now, now) EXCEPT !.nr = Len(events[s]) + 1]
  <1> DEFINE f == [Event("target_unavailable", now, now) EXCEPT !.nr = Len(events[Operator]) + 1]
  <1>2. /\ e \in Message /\ e.at = now /\ e.asOf <= now /\ e.kind = "run_failed"
        /\ f \in Message /\ f.at = now /\ f.asOf <= now /\ f.kind = "target_unavailable"
    BY <1>0, <1>00 DEF Event, Message, Kinds, Scope
  <1>3. s \in Scope /\ Operator \in Scope /\ s # Operator
    BY ScopeAssumption DEF Scope
  <1> HIDE DEF e, f
  <1>4. CASE events' = Append1(events, s, Event("run_failed", now, now))
    <2>1. events' = [events EXCEPT ![s] = <<e>> \o events[s]]
      BY <1>4 DEF Append1, e
    <2>2. events'[s] = <<e>> \o events[s] /\ \A c \in Scope \ {s} : events'[c] = events[c]
      BY <1>0, <1>3, <2>1
    <2> QED
      BY <1>0, <1>2, <2>1, <2>2 DEF Grown
  <1>5. CASE events' = Append1(Append1(events, s, Event("run_failed", now, now)), Operator,
                              Event("target_unavailable", now, now))
    <2> DEFINE log == [events EXCEPT ![s] = <<e>> \o events[s]]
    <2>2. /\ log = [c \in Scope |-> log[c]] /\ log[s] = <<e>> \o events[s]
          /\ \A c \in Scope \ {s} : log[c] = events[c]
      BY <1>0, <1>3
    <2>0. log[Operator] = events[Operator]
      BY <1>3, <2>2
    <2>1. events' = [log EXCEPT ![Operator] = <<f>> \o log[Operator]]
      BY <1>5, <2>0 DEF Append1, e, f
    <2> HIDE DEF log
    <2>3. /\ events' = [c \in Scope |-> events'[c]] /\ events'[Operator] = <<f>> \o events[Operator]
          /\ events'[s] = <<e>> \o events[s]
          /\ \A c \in Scope \ {s, Operator} : events'[c] = events[c]
      BY <1>3, <2>1, <2>2
    <2> QED
      BY <1>2, <2>3 DEF Grown
  <1> QED
    BY <1>1, <1>4, <1>5 DEF RunStep, StartRun, RunSucceeds, RunFails

-----------------------------------------------------------------------------
(* Events.                                                                  *)

\* One scope's events: newest first, and without repetitions.
Ordered(log, t) ==
    \A i \in DOMAIN log :
        /\ log[i].at <= t /\ log[i].asOf <= t
        /\ \A j \in DOMAIN log : i < j => log[j].at <= log[i].at

Spaced(log) ==
    \A i, j \in DOMAIN log :
        (/\ i < j /\ log[i].kind \in {"backup_stale", "state_unreadable"}
         /\ log[i].kind = log[j].kind /\ j - i <= HistoryLookback)
        => log[i].at - log[j].at >= RepeatAfter \/ log[j].nr \in log[i].unread

\* The invariant says this of every scope.
LEMMA LogByLog ==
  /\ EventsInOrder <=> \A c \in Scope : Ordered(events[c], now)
  /\ NoNagging <=> \A c \in Scope : Spaced(events[c])
  BY DEF EventsInOrder, Ordered, NoNagging, Spaced, Repeats, IsStaleEvent

\* An event of this moment in front of the others.
LEMMA LogGrows ==
  ASSUME NEW old \in Seq(Message), NEW e \in Message, NEW t \in Int, e.at = t, e.asOf <= t,
         Ordered(old, t), Spaced(old),
         e.kind \in {"backup_stale", "state_unreadable"} =>
            \A j \in DOMAIN old : (j <= HistoryLookback /\ old[j].kind = e.kind)
                                   => e.at - old[j].at >= RepeatAfter \/ old[j].nr \in e.unread
  PROVE  LET new == <<e>> \o old IN
         /\ new \in Seq(Message) /\ Ordered(new, t) /\ Spaced(new)
         /\ 1 \in DOMAIN new /\ new[1] = e
         /\ \A i \in DOMAIN new : i # 1 => (i - 1 \in DOMAIN old /\ new[i] = old[i - 1])
         /\ \A i \in DOMAIN old : i + 1 \in DOMAIN new /\ new[i + 1] = old[i]
         /\ DOMAIN new \subseteq Nat
  <1> DEFINE new == <<e>> \o old
  <1>1. /\ new \in Seq(Message) /\ DOMAIN new = 1 .. (Len(old) + 1) /\ new[1] = e
        /\ DOMAIN old = 1 .. Len(old) /\ Len(old) \in Nat
        /\ \A i \in 2 .. (Len(old) + 1) : new[i] = old[i - 1]
    BY Pushed
  <1> HIDE DEF new
  <1>2. \A i \in DOMAIN new : i # 1 => (i - 1 \in DOMAIN old /\ new[i] = old[i - 1])
    BY <1>1
  <1>3. \A i \in DOMAIN old : i + 1 \in DOMAIN new /\ new[i + 1] = old[i]
    BY <1>1
  <1>4. Ordered(new, t)
    <2> SUFFICES ASSUME NEW i \in DOMAIN new
                 PROVE  /\ new[i].at <= t /\ new[i].asOf <= t
                        /\ \A j \in DOMAIN new : i < j => new[j].at <= new[i].at
      BY DEF Ordered
    <2>1. CASE i = 1
      <3>1. \A j \in DOMAIN new : i < j => new[j].at <= t
        <4> SUFFICES ASSUME NEW j \in DOMAIN new, i < j PROVE new[j].at <= t
          OBVIOUS
        <4>1. j - 1 \in DOMAIN old /\ new[j] = old[j - 1]
          BY <1>1, <1>2, <2>1
        <4> QED
          BY <4>1 DEF Ordered
      <3> QED
        BY <1>1, <2>1, <3>1
    <2>2. CASE i # 1
      <3>1. i - 1 \in DOMAIN old /\ new[i] = old[i - 1]
        BY <1>2, <2>2
      <3>2. \A j \in DOMAIN new : i < j => new[j].at <= new[i].at
        <4> SUFFICES ASSUME NEW j \in DOMAIN new, i < j PROVE new[j].at <= new[i].at
          OBVIOUS
        <4>1. j - 1 \in DOMAIN old /\ new[j] = old[j - 1] /\ i - 1 < j - 1
          BY <1>1, <1>2, <2>2
        <4> QED
          BY <3>1, <4>1 DEF Ordered
      <3> QED
        BY <3>1, <3>2 DEF Ordered
    <2> QED
      BY <2>1, <2>2
  <1>5. Spaced(new)
    <2> SUFFICES ASSUME NEW i \in DOMAIN new, NEW j \in DOMAIN new, i < j,
                        new[i].kind \in {"backup_stale", "state_unreadable"},
                        new[i].kind = new[j].kind, j - i <= HistoryLookback
                 PROVE  new[i].at - new[j].at >= RepeatAfter \/ new[j].nr \in new[i].unread
      BY DEF Spaced
    <2>1. j - 1 \in DOMAIN old /\ new[j] = old[j - 1] /\ i \in Int /\ j \in Int
      BY <1>1, <1>2
    <2>2. CASE i = 1
      BY <1>1, <2>1, <2>2
    <2>3. CASE i # 1
      <3>1. /\ i - 1 \in DOMAIN old /\ new[i] = old[i - 1] /\ i - 1 < j - 1
            /\ (j - 1) - (i - 1) <= HistoryLookback
        BY <1>2, <2>1, <2>3
      <3> QED
        BY <2>1, <3>1 DEF Spaced
    <2> QED
      BY <2>2, <2>3
  <1>6. 1 \in DOMAIN new /\ DOMAIN new \subseteq Nat
    BY <1>1
  <1> QED
    BY <1>1, <1>2, <1>3, <1>4, <1>5, <1>6 DEF new

\* Events that are no reports leave what the monitor has said, and what it goes
\* by, as it was.
LEMMA GrownKeeps ==
  ASSUME NotifyInv, events' = [c \in Scope |-> events'[c]], \A c \in Scope : Grown(c),
         UNCHANGED <<now, sweepVars>>
  PROVE  /\ events' \in [Scope -> Seq(Message)] /\ EventsInOrder' /\ QuietInv' /\ NoNagging'
         /\ \A c \in Scope : \A i \in DOMAIN events'[c] : events'[c][i].kind = "backup_stale" =>
              \E j \in DOMAIN events[c] : events'[c][i] = events[c][j]
         /\ \A c \in Scope, kind \in {"backup_stale", "state_unreadable"} :
              Told(c, kind) => Told(c, kind)'
  <1>0. /\ events \in [Scope -> Seq(Message)] /\ now \in Int /\ current \in Scope
        /\ UNCHANGED <<sweep, asOf, current, unread>>
        /\ \A c \in Scope : Ordered(events[c], now) /\ Spaced(events[c])
    BY LogByLog DEF NotifyInv, NotifyTypeOK, Time, OrderInv, sweepVars
  <1>1. ASSUME NEW c \in Scope
        PROVE  /\ events'[c] \in Seq(Message) /\ Ordered(events'[c], now) /\ Spaced(events'[c])
               /\ \A i \in DOMAIN events'[c] :
                    \/ events'[c][i].kind \notin {"backup_stale", "state_unreadable"}
                    \/ \E j \in DOMAIN events[c] : j <= i /\ events'[c][i] = events[c][j]
               /\ \A j \in DOMAIN events[c] : \E i \in DOMAIN events'[c] : events'[c][i] = events[c][j]
    <2>1. CASE events'[c] = events[c]
      <3>1. DOMAIN events[c] \subseteq Int
        BY <1>0, LenProperties
      <3> QED
        BY <1>0, <2>1, <3>1
    <2>2. CASE events'[c] # events[c]
      <3>1. PICK e \in Message :
              /\ e.at = now /\ e.asOf <= now /\ e.kind \notin {"backup_stale", "state_unreadable"}
              /\ events'[c] = <<e>> \o events[c]
        BY <2>2 DEF Grown
      <3> DEFINE new == <<e>> \o events[c]
      <3>2. /\ new \in Seq(Message) /\ Ordered(new, now) /\ Spaced(new) /\ new[1] = e
            /\ \A i \in DOMAIN new : i # 1 => (i - 1 \in DOMAIN events[c] /\ new[i] = events[c][i - 1])
            /\ \A i \in DOMAIN events[c] : i + 1 \in DOMAIN new /\ new[i + 1] = events[c][i]
            /\ DOMAIN new \subseteq Nat
        BY <1>0, <3>1, LogGrows
      <3>3. events'[c] = new
        BY <3>1
      <3> HIDE DEF new
      <3>4. \A i \in DOMAIN new :
               \/ new[i].kind \notin {"backup_stale", "state_unreadable"}
               \/ \E j \in DOMAIN events[c] : j <= i /\ new[i] = events[c][j]
        <4> SUFFICES ASSUME NEW i \in DOMAIN new, i # 1
                     PROVE  \E j \in DOMAIN events[c] : j <= i /\ new[i] = events[c][j]
          BY <3>1, <3>2
        <4>1. i - 1 \in DOMAIN events[c] /\ i - 1 <= i /\ new[i] = events[c][i - 1]
          BY <3>2
        <4> QED
          BY <4>1
      <3>5. \A j \in DOMAIN events[c] : \E i \in DOMAIN new : new[i] = events[c][j]
        BY <3>2
      <3> QED
        BY <3>2, <3>3, <3>4, <3>5
    <2> QED
      BY <2>1, <2>2
  <1>2. events' \in [Scope -> Seq(Message)]
    BY <1>1
  <1>3. EventsInOrder' /\ NoNagging'
    BY <1>1 DEF EventsInOrder, Ordered, NoNagging, Spaced, Repeats, IsStaleEvent
  <1>4. QuietInv'
    <2> SUFFICES ASSUME sweep = "send", NEW i \in DOMAIN events'[current], i <= HistoryLookback,
                        events'[current][i].kind = Wanted
                 PROVE  asOf - events'[current][i].at >= RepeatAfter \/ events'[current][i].nr \in unread
      BY <1>0 DEF QuietInv, Wanted
    <2>1. PICK j \in DOMAIN events[current] : j <= i /\ events'[current][i] = events[current][j]
      BY <1>0, <1>1 DEF Wanted
    <2>2. j \in Int /\ i \in Int /\ HistoryLookback \in Int
      BY <1>0, <1>1, LenProperties, NotifyAssumption
    <2>3. j <= HistoryLookback
      BY <2>1, <2>2
    <2> QED
      BY <2>1, <2>3 DEF NotifyInv, QuietInv
  <1>5. \A c \in Scope, kind \in {"backup_stale", "state_unreadable"} : Told(c, kind) => Told(c, kind)'
    BY <1>0, <1>1 DEF Told
  <1> QED
    BY <1>1, <1>2, <1>3, <1>4, <1>5

-----------------------------------------------------------------------------
(* Runs keep the invariant.                                                 *)

\* A backup that ends well ends now: it makes nothing untrue that was said of an
\* earlier time.
LEMMA RunsKeepTruth ==
  ASSUME NotifyTypeOK, BackupsInOrder, NEW s \in Watched, RunStep(s),
         NEW r \in Watched, NEW from \in Int, NEW seen \in Int, seen <= now, NEW lost,
         TrueOf(r, from, seen, lost)
  PROVE  /\ seen - from > StaleAfter
         /\ \A k \in DOMAIN backups'[r] :
              (k <= StaleLookback /\ backups'[r][k].state = "succeeded" /\ from < backups'[r][k].at)
              => backups'[r][k].ended >= seen \/ backups'[r][k].nr \in lost
  <1>1. seen - from > StaleAfter
    BY DEF TrueOf
  <1>2. ASSUME NEW k \in DOMAIN backups'[r], k <= StaleLookback,
               backups'[r][k].state = "succeeded", from < backups'[r][k].at
        PROVE  backups'[r][k].ended >= seen \/ backups'[r][k].nr \in lost
    <2>1. \/ backups'[r][k].ended = now
          \/ \E j \in DOMAIN backups[r] : j <= k /\ backups'[r][k] = backups[r][j]
      BY <1>2, RunsKeep
    <2>2. CASE backups'[r][k].ended = now
      BY <2>2 DEF NotifyTypeOK, Time
    <2>3. CASE \E j \in DOMAIN backups[r] : j <= k /\ backups'[r][k] = backups[r][j]
      <3>1. PICK j \in DOMAIN backups[r] : j <= k /\ backups'[r][k] = backups[r][j]
        BY <2>3
      <3>2. backups[r] \in Seq(Backup) /\ backups'[r] \in Seq(Backup)
        BY RunsKeep DEF NotifyTypeOK
      <3>3. j \in Int /\ k \in Int /\ StaleLookback \in Int
        BY <3>2, LenProperties, NotifyAssumption
      <3>4. j <= StaleLookback
        BY <1>2, <3>1, <3>3
      <3> QED
        BY <1>2, <3>1, <3>4 DEF TrueOf
    <2> QED
      BY <2>1, <2>2, <2>3
  <1> QED
    BY <1>1, <1>2

\* What runs do between the calls of a sweep keeps the invariant.
LEMMA RunKept ==
  ASSUME NotifyInv, NEW s \in Watched, RunStep(s)
  PROVE  NotifyInv'
  <1>0. NotifyTypeOK /\ OrderInv /\ BackupsInOrder
    BY DEF NotifyInv, OrderInv
  <1>1. UNCHANGED <<now, config, sweepVars, failures, saves>>
    BY DEF RunStep, StartRun, RunSucceeds, RunFails
  <1>2. /\ now' = now /\ sweep' = sweep /\ asOf' = asOf /\ listed' = listed /\ queue' = queue
        /\ current' = current /\ since' = since /\ swept' = swept /\ missed' = missed
        /\ unseen' = unseen /\ unread' = unread
        /\ config' = config /\ failures' = failures /\ saves' = saves
    BY <1>1 DEF sweepVars
  <1>3. /\ events' \in [Scope -> Seq(Message)] /\ EventsInOrder' /\ QuietInv' /\ NoNagging'
        /\ \A c \in Scope : \A i \in DOMAIN events'[c] : events'[c][i].kind = "backup_stale" =>
              \E j \in DOMAIN events[c] : events'[c][i] = events[c][j]
        /\ \A c \in Scope, kind \in {"backup_stale", "state_unreadable"} :
              Told(c, kind) => Told(c, kind)'
    BY <1>0, <1>1, RunsTell, GrownKeeps
  <1>4. /\ backups' \in [Watched -> Seq(Backup)] /\ BackupsInOrder'
        /\ \A r \in Watched : \A j \in DOMAIN backups[r] : backups[r][j].state = "succeeded" =>
              \E k \in DOMAIN backups'[r] : backups'[r][k] = backups[r][j]
    BY <1>0, RunsKeep
  <1>5. NotifyTypeOK' /\ OrderInv'
    BY <1>0, <1>2, <1>3, <1>4 DEF NotifyTypeOK, OrderInv
  <1>6. now \in Int /\ asOf \in Int /\ since \in Int /\ current \in Scope /\ asOf <= now
    BY <1>0 DEF NotifyTypeOK, OrderInv, Time
  <1>7. FoundInv'
    <2> SUFFICES ASSUME sweep \in {"recent", "send"}, current # Operator
                 PROVE  TrueOf(current, since, asOf, unseen)'
      BY <1>2 DEF FoundInv
    <2>1. current \in Watched /\ TrueOf(current, since, asOf, unseen)
      BY <1>6 DEF NotifyInv, FoundInv, Scope
    <2> QED
      BY <1>0, <1>2, <1>6, <2>1, RunsKeepTruth DEF TrueOf
  <1>8. StaleMessageIsTrue'
    <2> SUFFICES ASSUME NEW r \in Watched, NEW i \in DOMAIN events'[r],
                        events'[r][i].kind = "backup_stale"
                 PROVE  /\ events'[r][i].asOf - events'[r][i].since > StaleAfter
                        /\ \A k \in DOMAIN backups'[r] :
                             (k <= StaleLookback /\ backups'[r][k].state = "succeeded"
                                /\ events'[r][i].since < backups'[r][k].at)
                             => \/ backups'[r][k].ended >= events'[r][i].asOf
                                \/ backups'[r][k].nr \in events'[r][i].unseen
      BY DEF StaleMessageIsTrue
    <2>1. r \in Scope
      BY DEF Scope
    <2>2. PICK j \in DOMAIN events[r] : events'[r][i] = events[r][j]
      BY <1>3, <2>1
    <2>3. events[r][j] \in Message /\ events[r][j].asOf <= now
      BY <1>0, <2>1, LenProperties DEF NotifyTypeOK, OrderInv, EventsInOrder
    <2>4. events[r][j].since \in Int /\ events[r][j].asOf \in Int
      BY <2>3 DEF Message, Time
    <2>5. TrueOf(r, events[r][j].since, events[r][j].asOf, events[r][j].unseen)
      BY <2>2 DEF NotifyInv, StaleMessageIsTrue, TrueOf
    <2> QED
      BY <1>0, <2>2, <2>3, <2>4, <2>5, RunsKeepTruth
  <1>9. ListedInv'
    BY <1>2 DEF NotifyInv, ListedInv
  <1>10. ToldInv'
    <2> SUFFICES ASSUME sweep # "idle", ~missed
                 PROVE  /\ \A r \in listed.on \ queue : At(r) \/ (Stale(r)' => Told(r, "backup_stale")')
                        /\ listed.unreadable => At(Operator) \/ Told(Operator, "state_unreadable")'
      BY <1>2 DEF ToldInv, At
    <2>1. /\ \A r \in listed.on \ queue : At(r) \/ (Stale(r) => Told(r, "backup_stale"))
          /\ listed.unreadable => At(Operator) \/ Told(Operator, "state_unreadable")
      BY DEF NotifyInv, ToldInv
    <2>2. ASSUME NEW r \in Watched, Stale(r)' PROVE Stale(r)
      BY <1>2, <1>4, <2>2 DEF Stale
    <2>3. \A r \in Watched : Told(r, "backup_stale") => Told(r, "backup_stale")'
      BY <1>3 DEF Scope
    <2>4. Told(Operator, "state_unreadable") => Told(Operator, "state_unreadable")'
      BY <1>3 DEF Scope
    <2>5. listed.on \subseteq Watched
      BY <1>0 DEF NotifyTypeOK
    <2> QED
      BY <2>1, <2>2, <2>3, <2>4, <2>5
  <1> QED
    BY <1>3, <1>5, <1>7, <1>8, <1>9, <1>10 DEF NotifyInv

-----------------------------------------------------------------------------
(* What the sweep reads.                                                    *)

\* The first of some positions.
LEMMA HasFirst ==
  ASSUME NEW S, S \subseteq Nat, S # {}
  PROVE  LET i == CHOOSE i \in S : \A j \in S : i <= j IN i \in S /\ \A j \in S : i <= j
  <1>1. IsWellFoundedOn(OpToRel(<, Nat), Nat)
    BY NatLessThanWellFounded
  <1>2. PICK x \in S : \A y \in S : ~(<<y, x>> \in OpToRel(<, Nat))
    BY <1>1, WFMin
  <1>3. \A y \in S : x <= y
    <2> SUFFICES ASSUME NEW y \in S PROVE x <= y
      OBVIOUS
    <2>1. x \in Nat /\ y \in Nat
      OBVIOUS
    <2>2. <<y, x>> \in Nat \X Nat /\ <<y, x>> \notin {ss \in Nat \X Nat : ss[1] < ss[2]}
      BY <1>2, <2>1 DEF OpToRel
    <2> QED
      BY <2>1, <2>2
  <1> QED
    BY <1>3

\* Not as many as n come before the k-th, if k is n at most.
LEMMA FirstOnes ==
  ASSUME NEW S, S \subseteq Nat \ {0}, NEW k \in S, NEW n \in Nat, k <= n
  PROVE  Cardinality({j \in S : j < k}) < n
  <1>1. k \in Nat \ {0} /\ {j \in S : j < k} \subseteq 1 .. (k - 1)
    <2>1. k \in Nat \ {0}
      OBVIOUS
    <2>2. ASSUME NEW j \in S, j < k PROVE j \in 1 .. (k - 1)
      <3>1. j \in Nat \ {0}
        OBVIOUS
      <3> QED
        BY <2>1, <2>2, <3>1
    <2> QED
      BY <2>1, <2>2
  <1>2. IsFiniteSet(1 .. (k - 1)) /\ Cardinality(1 .. (k - 1)) = k - 1
    BY <1>1, FS_Interval
  <1>3. Cardinality({j \in S : j < k}) <= k - 1 /\ IsFiniteSet({j \in S : j < k})
    BY <1>1, <1>2, FS_Subset
  <1>4. Cardinality({j \in S : j < k}) \in Nat
    BY <1>3, FS_CardinalityType
  <1> QED
    BY <1>1, <1>3, <1>4

\* The keys of some of a Space's records.
Keys(s, lost) == {backups[s][k].nr : k \in lost \cap DOMAIN backups[s]}

\* What the assessment of a Space says of its backups: a last success that is
\* too long ago is the last there is, of those that could be read; one that is not
\* is one.
LEMMA Assessed ==
  ASSUME NotifyTypeOK, BackupsInOrder, NEW s \in Watched, NEW lost
  PROVE  /\ LastSuccess(s, lost) \in Time
         /\ asOf - LastSuccess(s, lost) > StaleAfter => TrueOf(s, LastSuccess(s, lost), asOf, Keys(s, lost))
         /\ Stale(s) => asOf - LastSuccess(s, lost) > StaleAfter
  <1> DEFINE seen == {i \in ListRecentOfKind(s, StaleLookback, lost) : backups[s][i].state = "succeeded"}
  <1> DEFINE i == CHOOSE i \in seen : \A j \in seen : i <= j
  <1>1. /\ backups[s] \in Seq(Backup) /\ DOMAIN backups[s] \subseteq Nat \ {0}
        /\ StaleLookback \in Nat
    BY LenProperties, NotifyAssumption DEF NotifyTypeOK
  <1>2. asOf \in Int /\ StaleAfter \in Int /\ 0 \in Time /\ Time \subseteq Int
    BY NotifyAssumption DEF NotifyTypeOK, Time
  <1>3. /\ seen \subseteq DOMAIN backups[s] /\ \A k \in seen : backups[s][k].state = "succeeded"
        /\ \A k \in DOMAIN backups[s] :
              (k <= StaleLookback /\ backups[s][k].state = "succeeded")
              => k \in seen \/ backups[s][k].nr \in Keys(s, lost)
    <2>1. ASSUME NEW k \in DOMAIN backups[s] \ lost, k <= StaleLookback
          PROVE  k \in ListRecentOfKind(s, StaleLookback, lost)
      BY <1>1, <2>1, FirstOnes DEF ListRecentOfKind
    <2>2. \A k \in lost \cap DOMAIN backups[s] : backups[s][k].nr \in Keys(s, lost)
      BY DEF Keys
    <2> QED
      BY <2>1, <2>2 DEF ListRecentOfKind
  <1>4. LastSuccess(s, lost) = IF seen = {} THEN 0 ELSE backups[s][i].at
    BY DEF LastSuccess
  <1>5. seen # {} => i \in seen /\ \A j \in seen : i <= j
    <2>1. seen \subseteq Nat
      BY <1>1, <1>3
    <2> HIDE DEF seen
    <2> QED
      BY <2>1, HasFirst
  <1> HIDE DEF seen, i
  <1>6. CASE seen = {}
    <2>1. LastSuccess(s, lost) = 0
      BY <1>4, <1>6
    <2> QED
      BY <1>2, <1>3, <1>6, <2>1 DEF TrueOf, Stale
  <1>7. CASE seen # {}
    <2>1. LastSuccess(s, lost) = backups[s][i].at /\ i \in seen
      BY <1>4, <1>5, <1>7
    <2>2. i \in DOMAIN backups[s] /\ i \in Nat /\ backups[s][i].state = "succeeded"
      BY <1>1, <1>3, <2>1
    <2>3. backups[s][i] \in Backup
      BY <1>1, <2>2, LenProperties
    <2>4. LastSuccess(s, lost) \in Time
      BY <2>1, <2>3 DEF Backup
    <2>5. \A k \in seen : backups[s][k].at <= LastSuccess(s, lost)
      <3> SUFFICES ASSUME NEW k \in seen PROVE backups[s][k].at <= backups[s][i].at
        BY <2>1
      <3>1. k \in DOMAIN backups[s] /\ k \in Nat /\ i <= k
        BY <1>1, <1>3, <1>5, <1>7
      <3>2. CASE k = i
        <4>1. backups[s][k] = backups[s][i] /\ backups[s][i].at \in Int
          BY <1>2, <2>1, <2>4, <3>2
        <4> QED
          BY <4>1
      <3>3. CASE i < k
        BY <2>2, <3>1, <3>3 DEF BackupsInOrder
      <3> QED
        BY <2>2, <3>1, <3>2, <3>3
    <2>6. \A k \in seen : ~(LastSuccess(s, lost) < backups[s][k].at)
      <3> SUFFICES ASSUME NEW k \in seen PROVE ~(LastSuccess(s, lost) < backups[s][k].at)
        OBVIOUS
      <3>1. backups[s][k] \in Backup
        BY <1>1, <1>3, LenProperties
      <3>2. backups[s][k].at \in Int /\ LastSuccess(s, lost) \in Int
        BY <1>2, <2>4, <3>1 DEF Backup
      <3> QED
        BY <2>5, <3>2
    <2>7. asOf - LastSuccess(s, lost) > StaleAfter => TrueOf(s, LastSuccess(s, lost), asOf, Keys(s, lost))
      BY <1>3, <2>6 DEF TrueOf
    <2>8. Stale(s) => asOf - LastSuccess(s, lost) > StaleAfter
      BY <2>1, <2>2 DEF Stale
    <2> QED
      BY <2>4, <2>7, <2>8
  <1> QED
    BY <1>6, <1>7

\* What the newest events of a scope say of the others the sweep looks at.
LEMMA Looked ==
  ASSUME NotifyTypeOK, EventsInOrder, NEW c \in Scope, NEW kind, NEW lost
  PROVE  /\ NotifiedRecently(c, kind, lost) => Told(c, kind)
         /\ ~NotifiedRecently(c, kind, lost) =>
              \A j \in DOMAIN events[c] \ lost : (j <= HistoryLookback /\ events[c][j].kind = kind)
                                                  => asOf - events[c][j].at >= RepeatAfter
  <1> DEFINE seen == {i \in ListScope(c, HistoryLookback, lost) : events[c][i].kind = kind}
  <1> DEFINE i == CHOOSE i \in seen : \A j \in seen : i <= j
  <1>1. events[c] \in Seq(Message)
    BY DEF NotifyTypeOK
  <1>2. DOMAIN events[c] = 1 .. Len(events[c]) /\ Len(events[c]) \in Nat
    BY <1>1, LenProperties
  <1>3. HistoryLookback \in Nat \ {0} /\ RepeatAfter \in Int /\ asOf \in Int
    BY NotifyAssumption DEF NotifyTypeOK, Time
  <1>4. \A k \in DOMAIN events[c] : events[c][k].at \in Int
    <2> SUFFICES ASSUME NEW k \in DOMAIN events[c] PROVE events[c][k].at \in Int
      OBVIOUS
    <2>1. events[c][k] \in Message
      BY <1>1, LenProperties
    <2> QED
      BY <2>1 DEF Message, Time
  <1>6. \A k : k \in seen <=> /\ k \in DOMAIN events[c] /\ k <= HistoryLookback /\ k \notin lost
                              /\ events[c][k].kind = kind
    BY DEF ListScope
  <1>7. NotifiedRecently(c, kind, lost) <=> seen # {} /\ asOf - events[c][i].at < RepeatAfter
    BY DEF NotifiedRecently
  <1>8. seen # {} => i \in seen /\ \A j \in seen : i <= j
    <2>1. seen \subseteq Nat
      BY <1>2, <1>6
    <2> HIDE DEF seen
    <2> QED
      BY <2>1, HasFirst
  <1> HIDE DEF seen, i
  <1>9. NotifiedRecently(c, kind, lost) => Told(c, kind)
    BY <1>6, <1>7, <1>8 DEF Told
  <1>10. ASSUME ~NotifiedRecently(c, kind, lost), NEW j \in DOMAIN events[c] \ lost, j <= HistoryLookback,
                events[c][j].kind = kind
         PROVE  asOf - events[c][j].at >= RepeatAfter
    <2>1. j \in seen /\ i \in seen /\ i <= j
      BY <1>6, <1>8, <1>10
    <2>2. i \in DOMAIN events[c] /\ i \in Nat /\ j \in Nat
      BY <1>2, <1>6, <2>1
    <2>3. events[c][j].at <= events[c][i].at
      BY <1>4, <2>1, <2>2 DEF EventsInOrder
    <2>4. ~(asOf - events[c][i].at < RepeatAfter)
      BY <1>7, <1>10, <2>1
    <2> QED
      BY <1>3, <1>4, <2>2, <2>3, <2>4
  <1> QED
    BY <1>9, <1>10

-----------------------------------------------------------------------------
(* The steps of the sweep keep the invariant.                               *)

\* A step that changes neither records nor events leaves what is said of them.
LEMMA NothingHappens ==
  ASSUME NotifyInv, UNCHANGED <<now, backups, events>>
  PROVE  /\ BackupsInOrder' /\ EventsInOrder' /\ NoNagging' /\ StaleMessageIsTrue'
         /\ backups' \in [Watched -> Seq(Backup)] /\ events' \in [Scope -> Seq(Message)]
         /\ now' \in Time
  BY DEF NotifyInv, NotifyTypeOK, OrderInv, BackupsInOrder, EventsInOrder, NoNagging, Repeats,
         IsStaleEvent, StaleMessageIsTrue

\* A sweep begins with everything still to look at.
LEMMA BeginKept ==
  ASSUME NotifyInv, BeginSweep
  PROVE  NotifyInv'
  <1>1. /\ BackupsInOrder' /\ EventsInOrder' /\ NoNagging' /\ StaleMessageIsTrue'
        /\ backups' \in [Watched -> Seq(Backup)] /\ events' \in [Scope -> Seq(Message)]
        /\ now' \in Time
    BY NothingHappens DEF BeginSweep
  <1>2. /\ asOf' = now /\ now' = now /\ current' = Operator /\ queue' = listed'.on
        /\ sweep' = (IF listed'.unreadable THEN "recent" ELSE "operator")
        /\ since' = since /\ unseen' = unseen /\ unread' = unread /\ missed' = FALSE /\ swept' = TRUE /\ config' = config
        /\ failures' = failures /\ saves' = saves
    BY DEF BeginSweep
  <1>3. listed' \in [on : SUBSET Watched, unreadable : BOOLEAN]
    BY DEF BeginSweep
  <1>4. sweep' \in {"recent", "operator"}
    BY <1>2
  <1>5. NotifyTypeOK' /\ OrderInv'
    <2>1. now \in Int /\ now \in Time
      BY DEF NotifyInv, NotifyTypeOK, Time
    <2>2. OrderInv'
      BY <1>1, <1>2, <2>1 DEF OrderInv
    <2>3. listed'.on \subseteq Watched
      BY <1>3
    <2>4. NotifyTypeOK'
      BY <1>1, <1>2, <1>3, <1>4, <2>1, <2>3 DEF NotifyInv, NotifyTypeOK, Scope
    <2> QED
      BY <2>2, <2>4
  <1>6. FoundInv' /\ QuietInv' /\ ListedInv'
    BY <1>2, <1>4 DEF FoundInv, QuietInv, ListedInv
  <1>7. ToldInv'
    BY <1>2 DEF ToldInv, At
  <1> QED
    BY <1>1, <1>5, <1>6, <1>7 DEF NotifyInv

\* The sweep leaves a Space only when it has dealt with it.
LEMMA NextKept ==
  ASSUME NotifyInv, NextSpace
  PROVE  NotifyInv'
  <1>1. /\ BackupsInOrder' /\ EventsInOrder' /\ NoNagging' /\ StaleMessageIsTrue'
        /\ backups' \in [Watched -> Seq(Backup)] /\ events' \in [Scope -> Seq(Message)]
        /\ now' \in Time
    BY NothingHappens DEF NextSpace
  <1>2. /\ sweep = "operator" /\ since' = 0 /\ unseen' = {} /\ unread' = {} /\ now' = now /\ swept' = swept /\ config' = config
        /\ failures' = failures /\ saves' = saves /\ backups' = backups /\ events' = events
    BY DEF NextSpace
  <1>3. now \in Int /\ 0 \in Time /\ now >= 0 /\ queue \subseteq Watched
    BY NotifyAssumption DEF NotifyInv, NotifyTypeOK, Time
  <1>4. CASE queue = {} /\ sweep' = "idle" /\ asOf' = 0 /\ listed' = Nothing /\ current' = Operator
             /\ missed' = FALSE /\ UNCHANGED queue
    <2>1. NotifyTypeOK' /\ OrderInv'
      BY <1>1, <1>2, <1>3, <1>4 DEF NotifyInv, NotifyTypeOK, OrderInv, Scope, Nothing
    <2>2. FoundInv' /\ QuietInv' /\ ListedInv' /\ ToldInv'
      BY <1>4 DEF FoundInv, QuietInv, ListedInv, ToldInv
    <2> QED
      BY <1>1, <2>1, <2>2 DEF NotifyInv
  <1>5. ASSUME NEW s \in queue, current' = s, queue' = queue \ {s}, sweep' = "stale",
               UNCHANGED <<asOf, listed, missed>>
        PROVE  NotifyInv'
    <2>1. NotifyTypeOK' /\ OrderInv'
      BY <1>1, <1>2, <1>3, <1>5 DEF NotifyInv, NotifyTypeOK, OrderInv, Scope
    <2>2. FoundInv' /\ QuietInv' /\ ListedInv'
      BY <1>5 DEF NotifyInv, FoundInv, QuietInv, ListedInv
    <2>3. ToldInv'
      <3> SUFFICES ASSUME ~missed
                   PROVE  /\ \A r \in listed.on \ queue' : current' = r \/ (Stale(r)' => Told(r, "backup_stale")')
                          /\ listed.unreadable => Told(Operator, "state_unreadable")'
        BY <1>5 DEF ToldInv, At
      <3>1. /\ \A r \in listed.on \ queue : Stale(r) => Told(r, "backup_stale")
            /\ listed.unreadable => Told(Operator, "state_unreadable")
        BY <1>2 DEF NotifyInv, ToldInv, At
      <3>2. \A r : (Stale(r)' <=> Stale(r)) /\ (Told(r, "backup_stale")' <=> Told(r, "backup_stale"))
        BY <1>2, <1>5 DEF Stale, Told
      <3>3. Told(Operator, "state_unreadable")' <=> Told(Operator, "state_unreadable")
        BY <1>2, <1>5 DEF Told
      <3> QED
        BY <1>5, <3>1, <3>2, <3>3
    <2> QED
      BY <1>1, <2>1, <2>2, <2>3 DEF NotifyInv
  <1> QED
    BY <1>4, <1>5 DEF NextSpace

\* The sweep goes on at the Space it is at, or is done with it, and the records
\* and events are as they were.
Look ==
    /\ UNCHANGED <<now, config, backups, events, asOf, listed, queue, current, swept, saves>>
    /\ sweep \in {"stale", "recent", "send"} /\ sweep' \in {"operator", "recent", "send"}
    /\ unseen' \subseteq Nat /\ unread' \subseteq Nat
    /\ since' \in Time /\ missed' \in BOOLEAN /\ failures' \in 0..MaxFaults
    /\ ~missed' => ~missed

\* A step of the sweep at one Space keeps the invariant if whoever it is done with
\* has been told.
LEMMA LookKept ==
  ASSUME NotifyInv, Look, FoundInv', QuietInv',
         sweep = "stale" => current \in Watched,
         sweep' = "operator" /\ ~missed' =>
            IF current = Operator THEN Told(Operator, "state_unreadable")
                                  ELSE Stale(current) => Told(current, "backup_stale")
  PROVE  NotifyInv'
  <1>1. /\ BackupsInOrder' /\ EventsInOrder' /\ NoNagging' /\ StaleMessageIsTrue'
        /\ backups' \in [Watched -> Seq(Backup)] /\ events' \in [Scope -> Seq(Message)]
        /\ now' \in Time
    BY NothingHappens DEF Look
  <1>2. NotifyTypeOK' /\ OrderInv'
    BY <1>1 DEF NotifyInv, NotifyTypeOK, OrderInv, Look
  <1>3. ListedInv'
    BY DEF NotifyInv, ListedInv, Look
  <1>4. ToldInv'
    <2>1. /\ listed' = listed /\ queue' = queue /\ current' = current
          /\ sweep \in {"stale", "recent", "send"} /\ sweep' \in {"operator", "recent", "send"}
      BY DEF Look
    <2>2. \A r : (Stale(r)' <=> Stale(r)) /\ (Told(r, "backup_stale")' <=> Told(r, "backup_stale"))
      BY DEF Stale, Told, Look
    <2>3. Told(Operator, "state_unreadable")' <=> Told(Operator, "state_unreadable")
      BY DEF Told, Look
    <2> SUFFICES ASSUME ~missed'
                 PROVE  /\ \A r \in listed.on \ queue :
                              (current = r /\ sweep' # "operator") \/ (Stale(r)' => Told(r, "backup_stale")')
                        /\ listed.unreadable =>
                              \/ current = Operator /\ sweep' # "operator"
                              \/ Told(Operator, "state_unreadable")'
      BY <2>1 DEF ToldInv, At
    <2>4. /\ \A r \in listed.on \ queue : current = r \/ (Stale(r) => Told(r, "backup_stale"))
          /\ listed.unreadable => current = Operator \/ Told(Operator, "state_unreadable")
      BY <2>1 DEF NotifyInv, ToldInv, At, Look
    <2>5. \A r \in listed.on : r # Operator
      BY ScopeAssumption DEF NotifyInv, NotifyTypeOK
    <2>6. CASE sweep' # "operator"
      BY <2>2, <2>3, <2>4, <2>6
    <2>7. CASE sweep' = "operator"
      BY <2>2, <2>3, <2>4, <2>5, <2>7
    <2> QED
      BY <2>6, <2>7
  <1> QED
    BY <1>1, <1>2, <1>3, <1>4 DEF NotifyInv

\* Documents of a history that cannot be read count against the bound.
LEMMA LostIsCounted ==
  ASSUME NotifyTypeOK, NEW S, NEW s \in Seq(S), NEW lost \in SUBSET DOMAIN s, Lose(lost)
  PROVE  failures' \in 0..MaxFaults
  <1>1. IsFiniteSet(DOMAIN s)
    BY LenProperties, FS_Interval
  <1>2. Cardinality(lost) \in Nat
    BY <1>1, FS_Subset, FS_CardinalityType
  <1> QED
    BY <1>2, NotifyAssumption DEF NotifyTypeOK, Lose

\* A Space the sweep passes over is not stale (isStale).
LEMMA StaleKept ==
  ASSUME NotifyInv, SweepStale
  PROVE  NotifyInv'
  <1>0. PICK lost \in SUBSET DOMAIN backups[current] :
           /\ Lose(lost)
           /\ unseen' = {backups[current][k].nr : k \in lost}
           /\ since' = LastSuccess(current, lost)
    BY DEF SweepStale
  <1>1. /\ UNCHANGED <<now, config, backups, events, asOf, listed, queue, current, unread, swept,
                       missed, saves>>
        /\ since' = LastSuccess(current, lost) /\ sweep = "stale"
        /\ sweep' = (IF asOf - LastSuccess(current, lost) > StaleAfter THEN "recent" ELSE "operator")
    BY <1>0 DEF SweepStale
  <1>2. current \in Watched
    BY <1>1 DEF NotifyInv, NotifyTypeOK, ListedInv
  <1>3. /\ LastSuccess(current, lost) \in Time
        /\ asOf - LastSuccess(current, lost) > StaleAfter =>
              TrueOf(current, LastSuccess(current, lost), asOf, Keys(current, lost))
        /\ Stale(current) => asOf - LastSuccess(current, lost) > StaleAfter
    BY <1>2, Assessed DEF NotifyInv, OrderInv
  <1>4. unseen' = Keys(current, lost) /\ unseen' \subseteq Nat
    <2>1. ASSUME NEW k \in DOMAIN backups[current] PROVE backups[current][k].nr \in Nat
      <3>1. backups[current] \in Seq(Backup)
        BY <1>2 DEF NotifyInv, NotifyTypeOK
      <3>2. backups[current][k] \in Backup
        BY <2>1, <3>1, LenProperties
      <3> QED
        BY <3>2 DEF Backup
    <2> QED
      BY <1>0, <2>1 DEF Keys
  <1>9. failures' \in 0..MaxFaults
    BY <1>0, <1>2, LostIsCounted DEF NotifyInv, NotifyTypeOK
  <1>10. Look
    BY <1>1, <1>3, <1>4, <1>9 DEF Look, NotifyInv, NotifyTypeOK
  <1>5. FoundInv'
    <2> SUFFICES ASSUME sweep' = "recent" PROVE TrueOf(current, since, asOf, unseen)'
      BY <1>1 DEF FoundInv
    <2>1. TrueOf(current, LastSuccess(current, lost), asOf, Keys(current, lost))
      BY <1>1, <1>3
    <2> HIDE DEF LastSuccess
    <2> QED
      BY <1>1, <1>4, <2>1 DEF TrueOf
  <1>6. QuietInv'
    BY <1>1 DEF QuietInv
  <1>7. sweep' = "operator" => ~Stale(current)
    BY <1>1, <1>3
  <1>8. current # Operator
    BY <1>2, ScopeAssumption
  <1> QED
    BY <1>2, <1>10, <1>5, <1>6, <1>7, <1>8, LookKept

\* One it does not write to has been told (notifiedRecently).
LEMMA RecentKept ==
  ASSUME NotifyInv, SweepRecent
  PROVE  NotifyInv'
  <1>0. PICK lost \in SUBSET ListScope(current, HistoryLookback, {}) :
           /\ Lose(lost)
           /\ unread' = {events[current][k].nr : k \in lost}
           /\ sweep' = IF NotifiedRecently(current, Wanted, lost) THEN "operator" ELSE "send"
    BY DEF SweepRecent
  <1>1. /\ UNCHANGED <<now, config, backups, events, asOf, listed, queue, current, since, unseen,
                       swept, missed, saves>>
        /\ sweep = "recent"
        /\ sweep' = (IF NotifiedRecently(current, Wanted, lost) THEN "operator" ELSE "send")
    BY <1>0 DEF SweepRecent
  <1>2. NotifyTypeOK /\ EventsInOrder /\ current \in Scope /\ lost \subseteq DOMAIN events[current]
    BY <1>0 DEF NotifyInv, OrderInv, NotifyTypeOK, ListScope
  <1>3. /\ NotifiedRecently(current, Wanted, lost) => Told(current, Wanted)
        /\ ~NotifiedRecently(current, Wanted, lost) =>
             \A j \in DOMAIN events[current] \ lost :
                (j <= HistoryLookback /\ events[current][j].kind = Wanted)
                => asOf - events[current][j].at >= RepeatAfter
    BY <1>2, Looked
  <1>8. unread' \subseteq Nat
    <2>1. ASSUME NEW k \in DOMAIN events[current] PROVE events[current][k].nr \in Nat
      <3>1. events[current] \in Seq(Message)
        BY <1>2 DEF NotifyTypeOK
      <3>2. events[current][k] \in Message
        BY <2>1, <3>1, LenProperties
      <3> QED
        BY <3>2 DEF Message
    <2> QED
      BY <1>0, <1>2, <2>1
  <1>9. failures' \in 0..MaxFaults
    BY <1>0, <1>2, LostIsCounted DEF NotifyTypeOK
  <1>4. Look
    BY <1>1, <1>2, <1>8, <1>9 DEF Look, NotifyTypeOK
  <1>5. FoundInv'
    BY <1>1 DEF NotifyInv, FoundInv, TrueOf
  <1>6. QuietInv'
    <2> SUFFICES ASSUME sweep' = "send", NEW j \in DOMAIN events[current], j <= HistoryLookback,
                        events[current][j].kind = Wanted
                 PROVE  asOf - events[current][j].at >= RepeatAfter \/ events[current][j].nr \in unread'
      BY <1>1 DEF QuietInv, Wanted
    <2>1. CASE j \in lost
      BY <1>0, <2>1
    <2>2. CASE j \notin lost
      BY <1>1, <1>3, <2>2
    <2> QED
      BY <2>1, <2>2
  <1>7. sweep' = "operator" => Told(current, Wanted)
    BY <1>1, <1>3
  <1> QED
    BY <1>1, <1>4, <1>5, <1>6, <1>7, LookKept DEF Wanted

\* The message the monitor sends is true, and is no repetition, whether it learns
\* that its append has worked or not.
LEMMA SendKept ==
  ASSUME NotifyInv, SweepSend \/ (SweepFails /\ events' # events)
  PROVE  NotifyInv'
  <1> DEFINE e == [Report(Wanted) EXCEPT !.nr = Len(events[current]) + 1]
  <1>0. failures' \in 0..MaxFaults /\ missed' \in BOOLEAN /\ (~missed' => ~missed)
    <2>1. CASE SweepSend
      BY <2>1 DEF NotifyInv, NotifyTypeOK, SweepSend
    <2>2. CASE SweepFails
      <3>1. failures \in 0..MaxFaults /\ failures < MaxFaults /\ failures' = failures + 1 /\ missed' = TRUE
        BY <2>2 DEF NotifyInv, NotifyTypeOK, SweepFails
      <3> QED
        BY <3>1, NotifyAssumption
    <2> QED
      BY <2>1, <2>2
  <1>1. /\ UNCHANGED <<now, config, backups, asOf, listed, queue, current, since, unseen, unread,
                       swept, saves>>
        /\ sweep = "send" /\ sweep' = "operator"
        /\ events' = [events EXCEPT ![current] = <<e>> \o events[current]]
    BY DEF SweepSend, SweepFails, Append1
  <1>2. /\ NotifyTypeOK /\ EventsInOrder /\ BackupsInOrder /\ current \in Scope /\ asOf <= now
        /\ now \in Time /\ since \in Time /\ asOf \in Time /\ Time \subseteq Int
        /\ events \in [Scope -> Seq(Message)] /\ Len(events[current]) \in Nat
        /\ unseen \subseteq Nat /\ unread \subseteq Nat
    BY LenProperties DEF NotifyInv, OrderInv, NotifyTypeOK, Time
  <1>3. e = [nr |-> Len(events[current]) + 1, kind |-> Wanted, at |-> now, since |-> since,
             asOf |-> asOf, unseen |-> unseen, unread |-> unread]
    BY DEF Report
  <1>4. /\ e \in Message /\ e.at = now /\ e.asOf = asOf /\ e.since = since /\ e.kind = Wanted
        /\ e.unseen = unseen /\ e.unread = unread
        /\ Wanted \in {"backup_stale", "state_unreadable"}
    <2>1. Wanted \in {"backup_stale", "state_unreadable"} /\ Wanted \in Kinds
      BY DEF Wanted, Kinds
    <2>2. Len(events[current]) + 1 \in Nat /\ unseen \in SUBSET Nat /\ unread \in SUBSET Nat
      BY <1>2
    <2>3. e.at = now /\ e.asOf = asOf /\ e.since = since /\ e.kind = Wanted
          /\ e.unseen = unseen /\ e.unread = unread
      BY <1>3
    <2> HIDE DEF e
    <2>4. e \in Message
      BY <1>2, <1>3, <2>1, <2>2 DEF Message
    <2> QED
      BY <2>1, <2>3, <2>4
  <1> HIDE DEF e
  <1>5. \A c \in Scope : events[c] \in Seq(Message) /\ Ordered(events[c], now) /\ Spaced(events[c])
    BY <1>2, LogByLog DEF NotifyInv
  <1>6. \A j \in DOMAIN events[current] :
           (j <= HistoryLookback /\ events[current][j].kind = e.kind)
           => e.at - events[current][j].at >= RepeatAfter \/ events[current][j].nr \in e.unread
    <2> SUFFICES ASSUME NEW j \in DOMAIN events[current], j <= HistoryLookback,
                        events[current][j].kind = Wanted, events[current][j].nr \notin unread
                 PROVE  now - events[current][j].at >= RepeatAfter
      BY <1>4
    <2>1. asOf - events[current][j].at >= RepeatAfter
      BY <1>1 DEF NotifyInv, QuietInv
    <2>2. events[current][j] \in Message
      BY <1>2, <1>5, LenProperties
    <2>3. events[current][j].at \in Int /\ RepeatAfter \in Int
      <3>1. events[current][j].at \in Time
        BY <2>2 DEF Message
      <3> QED
        <4>1. RepeatAfter \in Int
          BY NotifyAssumption
        <4>2. Time \subseteq Int
          BY DEF Time
        <4> QED
          BY <3>1, <4>1, <4>2
    <2> QED
      BY <1>2, <2>1, <2>3
  <1> DEFINE old == events[current]
  <1> DEFINE new == <<e>> \o old
  <1>7. /\ new \in Seq(Message) /\ Ordered(new, now) /\ Spaced(new)
        /\ 1 \in DOMAIN new /\ new[1] = e
        /\ \A i \in DOMAIN new : i # 1 => (i - 1 \in DOMAIN old /\ new[i] = old[i - 1])
        /\ \A i \in DOMAIN old : i + 1 \in DOMAIN new /\ new[i + 1] = old[i]
    <2>1. now \in Int /\ e.asOf <= now
      BY <1>2, <1>4
    <2> QED
      BY <1>2, <1>4, <1>5, <1>6, <2>1, LogGrows
  <1> HIDE DEF new
  <1>8. /\ events' \in [Scope -> Seq(Message)] /\ events'[current] = new
        /\ \A c \in Scope \ {current} : events'[c] = events[c]
    BY <1>1, <1>2, <1>7 DEF new
  <1>9. \A c \in Scope : Ordered(events'[c], now) /\ Spaced(events'[c])
    BY <1>5, <1>7, <1>8
  <1>10. EventsInOrder' /\ NoNagging'
    BY <1>1, <1>9 DEF EventsInOrder, Ordered, NoNagging, Spaced, Repeats, IsStaleEvent
  <1>11. NotifyTypeOK' /\ OrderInv'
    BY <1>0, <1>1, <1>2, <1>8, <1>10 DEF NotifyTypeOK, OrderInv, BackupsInOrder
  <1>12. FoundInv' /\ QuietInv' /\ ListedInv'
    BY <1>1 DEF NotifyInv, FoundInv, QuietInv, ListedInv
  <1>13. \A c \in Scope : \A i \in DOMAIN events'[c] :
            \/ c = current /\ events'[c][i] = e
            \/ \E j \in DOMAIN events[c] : events'[c][i] = events[c][j]
    <2> SUFFICES ASSUME NEW c \in Scope, NEW i \in DOMAIN events'[c]
                 PROVE  \/ c = current /\ events'[c][i] = e
                        \/ \E j \in DOMAIN events[c] : events'[c][i] = events[c][j]
      OBVIOUS
    <2>1. CASE c # current
      BY <1>8, <2>1
    <2>2. CASE c = current
      <3>1. events'[c] = new
        BY <1>8, <2>2
      <3> QED
        BY <1>7, <2>2, <3>1
    <2> QED
      BY <2>1, <2>2
  <1>14. \A c \in Scope : \A j \in DOMAIN events[c] : \E i \in DOMAIN events'[c] : events'[c][i] = events[c][j]
    <2> SUFFICES ASSUME NEW c \in Scope, NEW j \in DOMAIN events[c]
                 PROVE  \E i \in DOMAIN events'[c] : events'[c][i] = events[c][j]
      OBVIOUS
    <2>1. CASE c # current
      BY <1>8, <2>1
    <2>2. CASE c = current
      <3>1. events'[c] = new
        BY <1>8, <2>2
      <3> QED
        BY <1>7, <2>2, <3>1
    <2> QED
      BY <2>1, <2>2
  <1>15. StaleMessageIsTrue'
    <2> SUFFICES ASSUME NEW r \in Watched, NEW i \in DOMAIN events'[r],
                        events'[r][i].kind = "backup_stale"
                 PROVE  TrueOf(r, events'[r][i].since, events'[r][i].asOf, events'[r][i].unseen)
      BY <1>1 DEF StaleMessageIsTrue, TrueOf
    <2>1. r \in Scope /\ r # Operator
      BY ScopeAssumption DEF Scope
    <2>2. CASE r = current /\ events'[r][i] = e
      BY <1>1, <1>4, <2>1, <2>2 DEF NotifyInv, FoundInv
    <2>3. CASE \E j \in DOMAIN events[r] : events'[r][i] = events[r][j]
      <3>1. PICK j \in DOMAIN events[r] : events'[r][i] = events[r][j]
        BY <2>3
      <3> QED
        BY <3>1 DEF NotifyInv, StaleMessageIsTrue, TrueOf
    <2> QED
      BY <1>13, <2>1, <2>2, <2>3
  <1>16. Told(current, Wanted)'
    <2>1. 1 \in DOMAIN events'[current] /\ events'[current][1] = e
      BY <1>7, <1>8
    <2>2. asOf - e.at < RepeatAfter
      BY <1>2, <1>4, NotifyAssumption
    <2> QED
      BY <1>1, <1>4, <2>1, <2>2 DEF Told, Wanted
  <1>17. \A c \in Scope : /\ Told(c, "backup_stale") => Told(c, "backup_stale")'
                          /\ Told(c, "state_unreadable") => Told(c, "state_unreadable")'
    <2>1. ASSUME NEW c \in Scope, NEW kind, Told(c, kind)
          PROVE  \E i \in DOMAIN events'[c] :
                    events'[c][i].kind = kind /\ asOf - events'[c][i].at < RepeatAfter
      <3>1. PICK j \in DOMAIN events[c] :
               events[c][j].kind = kind /\ asOf - events[c][j].at < RepeatAfter
        BY <2>1 DEF Told
      <3>2. PICK i \in DOMAIN events'[c] : events'[c][i] = events[c][j]
        BY <1>14
      <3> QED
        BY <3>1, <3>2
    <2>2. ASSUME NEW c \in Scope, Told(c, "backup_stale") PROVE Told(c, "backup_stale")'
      <3>1. asOf' = asOf
        BY <1>1
      <3>2. \E i \in DOMAIN events'[c] :
               events'[c][i].kind = "backup_stale" /\ asOf - events'[c][i].at < RepeatAfter
        BY <2>1, <2>2
      <3> QED
        BY <3>1, <3>2 DEF Told
    <2>3. ASSUME NEW c \in Scope, Told(c, "state_unreadable") PROVE Told(c, "state_unreadable")'
      <3>1. asOf' = asOf
        BY <1>1
      <3>2. \E i \in DOMAIN events'[c] :
               events'[c][i].kind = "state_unreadable" /\ asOf - events'[c][i].at < RepeatAfter
        BY <2>1, <2>3
      <3> QED
        BY <3>1, <3>2 DEF Told
    <2> QED
      BY <2>2, <2>3
  <1>18. ToldInv'
    <2> SUFFICES ASSUME ~missed
                 PROVE  /\ \A r \in listed.on \ queue : Stale(r)' => Told(r, "backup_stale")'
                        /\ listed.unreadable => Told(Operator, "state_unreadable")'
      BY <1>0, <1>1 DEF ToldInv, At
    <2>1. /\ \A r \in listed.on \ queue : current = r \/ (Stale(r) => Told(r, "backup_stale"))
          /\ listed.unreadable => current = Operator \/ Told(Operator, "state_unreadable")
      BY <1>1 DEF NotifyInv, ToldInv, At
    <2>2. \A r : Stale(r)' => Stale(r)
      BY <1>1 DEF Stale
    <2>3. \A r \in listed.on : r \in Watched /\ r \in Scope /\ r # Operator
      BY <1>2, ScopeAssumption DEF NotifyTypeOK, Scope
    <2>4. current = Operator => Told(Operator, "state_unreadable")'
      BY <1>1, <1>16 DEF Wanted, Told
    <2>5. current # Operator => Told(current, "backup_stale")'
      BY <1>1, <1>16 DEF Wanted, Told
    <2>6. \A r \in listed.on : current = r => Told(r, "backup_stale")'
      BY <1>1, <2>3, <2>5 DEF Told
    <2>7. Operator \in Scope
      BY DEF Scope
    <2> QED
      BY <1>17, <2>1, <2>2, <2>3, <2>4, <2>6, <2>7
  <1> QED
    BY <1>10, <1>11, <1>12, <1>15, <1>18 DEF NotifyInv

\* A failing call is remembered, so nothing is promised of its sweep.
LEMMA FailsKept ==
  ASSUME NotifyInv, SweepFails
  PROVE  NotifyInv'
  <1>0. CASE events' # events
    BY <1>0, SendKept
  <1> SUFFICES ASSUME events' = events PROVE NotifyInv'
    BY <1>0
  <1>1. /\ UNCHANGED <<now, config, backups, events, asOf, listed, queue, current, since, unseen,
                       unread, swept, saves>>
        /\ sweep \in {"stale", "recent", "send"} /\ sweep' = "operator" /\ missed' = TRUE
        /\ failures' = failures + 1 /\ failures < MaxFaults
    BY DEF SweepFails
  <1>2. Look
    BY <1>1, NotifyAssumption DEF Look, NotifyInv, NotifyTypeOK
  <1>3. FoundInv' /\ QuietInv'
    BY <1>1 DEF FoundInv, QuietInv
  <1>4. sweep = "stale" => current \in Watched
    BY DEF NotifyInv, NotifyTypeOK, ListedInv
  <1> QED
    BY <1>1, <1>2, <1>3, <1>4, LookKept

-----------------------------------------------------------------------------
(* Every step keeps the invariant.                                          *)

\* Time passes; what was said, and of when, stays.
LEMMA ElapseKept ==
  ASSUME NotifyInv, TimePasses
  PROVE  NotifyInv'
  <1>1. /\ now \in Time /\ now \in Int /\ now' = now + 1 /\ now' \in Time /\ asOf \in Int
        /\ asOf <= now /\ swept' = FALSE
        /\ UNCHANGED <<config, backups, events, sweep, asOf, listed, queue, current, since,
                       unseen, unread, missed, failures, saves>>
    BY NotifyAssumption DEF NotifyInv, OrderInv, NotifyTypeOK, Time, TimePasses
  <1>2. BackupsInOrder'
    <2>1. \A s \in Watched : \A i \in DOMAIN backups[s] : backups[s][i] \in Backup
      BY LenProperties DEF NotifyInv, NotifyTypeOK
    <2>2. \A s \in Watched : \A i \in DOMAIN backups[s] : backups[s][i].at <= now + 1
      BY <1>1, <2>1 DEF NotifyInv, OrderInv, BackupsInOrder, Backup, Time
    <2> QED
      BY <1>1, <2>2 DEF NotifyInv, OrderInv, BackupsInOrder
  <1>3. EventsInOrder'
    <2>1. \A c \in Scope : \A i \in DOMAIN events[c] : events[c][i] \in Message
      BY LenProperties DEF NotifyInv, NotifyTypeOK
    <2>2. \A c \in Scope : \A i \in DOMAIN events[c] :
             events[c][i].at <= now + 1 /\ events[c][i].asOf <= now + 1
      BY <1>1, <2>1 DEF NotifyInv, OrderInv, EventsInOrder, Message, Time
    <2> QED
      BY <1>1, <2>2 DEF NotifyInv, OrderInv, EventsInOrder
  <1>4. OrderInv' /\ NotifyTypeOK'
    <2>1. asOf' <= now'
      BY <1>1
    <2>2. NotifyTypeOK'
      BY <1>1 DEF NotifyInv, NotifyTypeOK
    <2> QED
      BY <1>2, <1>3, <2>1, <2>2 DEF OrderInv
  <1>5. FoundInv' /\ QuietInv' /\ ListedInv'
    BY <1>1 DEF NotifyInv, FoundInv, TrueOf, QuietInv, Wanted, ListedInv
  <1>6. ToldInv' /\ NoNagging' /\ StaleMessageIsTrue'
    BY <1>1 DEF NotifyInv, ToldInv, At, Stale, Told, NoNagging, Repeats, IsStaleEvent,
                StaleMessageIsTrue
  <1> QED
    BY <1>4, <1>5, <1>6 DEF NotifyInv

\* Nothing the invariant speaks of changes: a configuration does, or nothing.
LEMMA EditKept ==
  ASSUME NotifyInv,
         \/ UNCHANGED notifyVars
         \/ \E s \in Watched : Edit(s)
  PROVE  NotifyInv'
  <1>1. /\ UNCHANGED <<now, backups, events, sweep, asOf, listed, queue, current, since, unseen,
                       unread, swept, missed, failures>>
        /\ config' \in [Watched -> {"on", "off", "unreadable"}] /\ saves' \in 0..MaxSaves
    <2>1. config \in [Watched -> {"on", "off", "unreadable"}] /\ saves \in 0..MaxSaves
      BY DEF NotifyInv, NotifyTypeOK
    <2>2. CASE UNCHANGED notifyVars
      BY <2>1, <2>2 DEF notifyVars, sweepVars
    <2>3. CASE \E s \in Watched : Edit(s)
      <3>1. PICK s \in Watched : Edit(s)
        BY <2>3
      <3>2. saves' \in 0..MaxSaves
        BY <2>1, <3>1, NotifyAssumption DEF Edit
      <3>3. config' \in [Watched -> {"on", "off", "unreadable"}]
        BY <2>1, <3>1 DEF Edit
      <3> QED
        BY <3>1, <3>2, <3>3 DEF Edit, sweepVars
    <2> QED
      BY <2>2, <2>3
  <1>2. /\ BackupsInOrder' /\ EventsInOrder' /\ NoNagging' /\ StaleMessageIsTrue'
        /\ backups' \in [Watched -> Seq(Backup)] /\ events' \in [Scope -> Seq(Message)]
        /\ now' \in Time
    BY <1>1, NothingHappens
  <1>3. OrderInv' /\ NotifyTypeOK'
    BY <1>1, <1>2 DEF NotifyInv, OrderInv, NotifyTypeOK
  <1>4. FoundInv' /\ QuietInv' /\ ListedInv'
    BY <1>1 DEF NotifyInv, FoundInv, TrueOf, QuietInv, Wanted, ListedInv
  <1>5. ToldInv'
    BY <1>1 DEF NotifyInv, ToldInv, At, Stale, Told
  <1> QED
    BY <1>2, <1>3, <1>4, <1>5 DEF NotifyInv

\* The invariant is inductive.
LEMMA NotifyInvHolds == NotifySpec => []NotifyInv
  <1>1. NotifyInit => NotifyInv
    <2> SUFFICES ASSUME NotifyInit PROVE NotifyInv
      OBVIOUS
    <2>1. /\ backups = [s \in Watched |-> <<>>] /\ events = [c \in Scope |-> <<>>]
          /\ sweep = "idle" /\ asOf = 0 /\ now = 0 /\ queue = {}
      BY DEF NotifyInit
    <2>2. \A S : <<>> \in Seq(S) /\ DOMAIN <<>> = {}
      OBVIOUS
    <2>3. NotifyTypeOK
      <3>1. 0 \in Time /\ 0 \in 0..MaxFaults /\ 0 \in 0..MaxSaves /\ Operator \in Scope
        BY NotifyAssumption DEF Time, Scope
      <3>2. Nothing \in [on : SUBSET Watched, unreadable : BOOLEAN]
        BY DEF Nothing
      <3>3. config \in [Watched -> {"on", "off", "unreadable"}]
        BY DEF NotifyInit
      <3>4. backups \in [Watched -> Seq(Backup)] /\ events \in [Scope -> Seq(Message)]
        BY <2>1, <2>2
      <3> QED
        BY <3>1, <3>2, <3>3, <3>4 DEF NotifyInit, NotifyTypeOK
    <2>4. OrderInv /\ NoNagging /\ StaleMessageIsTrue
      <3>1. /\ \A s \in Watched : DOMAIN backups[s] = {}
            /\ \A c \in Scope : DOMAIN events[c] = {}
        BY <2>1, <2>2
      <3> QED
        BY <2>1, <3>1 DEF OrderInv, BackupsInOrder, EventsInOrder, NoNagging, StaleMessageIsTrue, Scope
    <2>5. FoundInv /\ QuietInv /\ ListedInv /\ ToldInv
      BY <2>1 DEF FoundInv, QuietInv, ListedInv, ToldInv
    <2> QED
      BY <2>3, <2>4, <2>5 DEF NotifyInv
  <1>2. NotifyInv /\ [NotifyNext]_notifyVars => NotifyInv'
    <2> SUFFICES ASSUME NotifyInv, [NotifyNext]_notifyVars PROVE NotifyInv'
      OBVIOUS
    <2>1. CASE TimePasses
      BY <2>1, ElapseKept
    <2>2. CASE SweepStep
      BY <2>2, BeginKept, NextKept, StaleKept, RecentKept, SendKept, FailsKept DEF SweepStep
    <2>3. CASE \E s \in Watched : RunStep(s)
      BY <2>3, RunKept
    <2>4. CASE UNCHANGED notifyVars \/ \E s \in Watched : Edit(s)
      BY <2>4, EditKept
    <2> QED
      BY <2>1, <2>2, <2>3, <2>4 DEF NotifyNext, Finished
  <1> QED
    BY <1>1, <1>2, PTL DEF NotifySpec

-----------------------------------------------------------------------------
(* The theorems.                                                            *)

\* The monitor does not report an unchanged problem again within RepeatAfter
\* (notifiedRecently), however runs and their events come in between the calls
\* of its sweep, as far as it looks back, unless the sweep that repeats it could not
\* read the very event it had been reported with.
THEOREM NobodyIsNagged == NotifySpec => []NoNagging
  <1>1. NotifyInv => NoNagging
    BY DEF NotifyInv
  <1> QED
    BY <1>1, NotifyInvHolds, PTL

\* What it reports as stale was stale when the sweep began, and nothing that
\* ended well before then is later than the date it gives (Assess, isStale),
\* although runs go on while it looks, but for the records it could not read.
THEOREM StaleReportsAreTrue == NotifySpec => []StaleMessageIsTrue
  <1>1. NotifyInv => StaleMessageIsTrue
    BY DEF NotifyInv
  <1> QED
    BY <1>1, NotifyInvHolds, PTL

\* A sweep that met no failing call (Sweep, reportUnreadable) leaves no Space that
\* is on and stale, and no damaged configuration, unreported, whatever documents it
\* could not read.
THEOREM SilenceIsReported == NotifySpec => StaleSpacesAreTold
  <1>1. NotifyInv /\ [NotifyNext]_notifyVars =>
          [(sweep = "operator" /\ sweep' = "idle" /\ ~missed)
             => /\ \A s \in listed.on : Stale(s) => Told(s, "backup_stale")
                /\ listed.unreadable => Told(Operator, "state_unreadable")]_notifyVars
    <2> SUFFICES ASSUME NotifyInv, [NotifyNext]_notifyVars, sweep = "operator", sweep' = "idle", ~missed
                 PROVE  /\ \A s \in listed.on : Stale(s) => Told(s, "backup_stale")
                        /\ listed.unreadable => Told(Operator, "state_unreadable")
      OBVIOUS
    <2>1. queue = {}
      BY DEF NotifyNext, TimePasses, SweepStep, Finished, RunStep, StartRun, RunSucceeds, RunFails, Edit,
             BeginSweep, NextSpace, SweepStale, SweepRecent, SweepSend, SweepFails, notifyVars, sweepVars
    <2> QED
      BY <2>1 DEF NotifyInv, ToldInv, At
  <1> QED
    BY <1>1, NotifyInvHolds, PTL DEF NotifySpec, StaleSpacesAreTold

=============================================================================
