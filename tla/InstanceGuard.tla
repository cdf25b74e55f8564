---------------------------- MODULE InstanceGuard ----------------------------
(***************************************************************************)
(* The single-instance guard: internal/instance/instance.go.               *)
(*                                                                         *)
(* A process that starts lists the records of the others, watches each     *)
(* live one until it expires, is withdrawn or is renewed, clears it, and   *)
(* then writes and keeps renewing its own.  The store has no compare-and-  *)
(* set, and on a server that refuses to overwrite a renewal is a delete    *)
(* followed by an upload (cs3state.Replace).                               *)
(*                                                                         *)
(* Every start of the service is an Instance of its own, as ids are        *)
(* random.  Times are kept as time left.                                   *)
(***************************************************************************)
EXTENDS Integers, FiniteSets

CONSTANTS
    Instance,
    Nobody,         \* no instance
    Pasts,          \* the sets of those that may have died earlier, leaving a record
    TTL,            \* lifetime of a record
    RenewEvery,     \* ttl / 3
    Overwriting,    \* the kinds of server: whether an upload overwrites silently
    MaxGuardFaults  \* bound: calls on the records that fail

ASSUME InstanceAssumption ==
    /\ Nobody \notin Instance /\ Pasts \subseteq SUBSET Instance
    /\ TTL \in Nat /\ RenewEvery \in Nat \ {0} /\ RenewEvery < TTL
    /\ Overwriting \subseteq BOOLEAN
    /\ MaxGuardFaults \in Nat

VARIABLES
    pc,         \* where each instance is
    rec,        \* time left on its record, -1 when there is none
    renewIn,    \* time until its next renewal is due
    left,       \* the records a Claim has still to look at
    at,         \* the one it is looking at,
    seen,       \* ... the time left on it when it was read,
    renewed,    \* ... and whether it has been written since
    faults,
    overwrites, \* the server this behaviour is on overwrites silently
    late,       \* history: an instance whose record expired while it ran
    met         \* history: the instances that ran when a Claim listed

claimVars == <<left, at, seen, renewed>>
guardVars == <<pc, rec, renewIn, claimVars, faults, overwrites, late, met>>

GuardInit ==
    /\ \E past \in Pasts :
          /\ pc = [i \in Instance |-> IF i \in past THEN "gone" ELSE "new"]
          /\ rec = [i \in Instance |-> IF i \in past THEN TTL ELSE -1]
    /\ renewIn = [i \in Instance |-> 0]
    /\ left = [i \in Instance |-> {}]
    /\ at = [i \in Instance |-> Nobody]
    /\ seen = [i \in Instance |-> 0]
    /\ renewed = [i \in Instance |-> FALSE]
    /\ faults = 0
    /\ overwrites \in Overwriting
    /\ late = [i \in Instance |-> FALSE]
    /\ met = [i \in Instance |-> {}]

Running(i) == pc[i] \in {"run", "rewrite"}

-----------------------------------------------------------------------------
(* Claim.                                                                   *)

\* checkAlone lists the records.
List(i) ==
    /\ pc[i] = "new"
    /\ pc' = [pc EXCEPT ![i] = "check"]
    /\ left' = [left EXCEPT ![i] = {k \in Instance : rec[k] # -1}]
    /\ met' = [met EXCEPT ![i] = {k \in Instance : Running(k)}]
    /\ UNCHANGED <<rec, renewIn, at, seen, renewed, faults, late, overwrites>>

\* checkAlone reads the next record: gone is refused, live is watched,
\* expired is cleared.
CheckNext(i) ==
    /\ pc[i] = "check"
    /\ \E k \in left[i] :
          /\ left' = [left EXCEPT ![i] = @ \ {k}]
          /\ at' = [at EXCEPT ![i] = k]
          /\ pc' = [pc EXCEPT ![i] = IF rec[k] = -1 THEN "refused"
                                     ELSE IF rec[k] > 0 THEN "watch" ELSE "clear"]
          /\ seen' = [seen EXCEPT ![i] = IF rec[k] = -1 THEN 0 ELSE rec[k]]
          /\ renewed' = [renewed EXCEPT ![i] = FALSE]
    /\ UNCHANGED <<rec, renewIn, faults, late, met, overwrites>>

CheckDone(i) ==
    /\ pc[i] = "check"
    /\ left[i] = {}
    /\ pc' = [pc EXCEPT ![i] = "write"]
    /\ at' = [at EXCEPT ![i] = Nobody]
    /\ UNCHANGED <<rec, renewIn, left, seen, renewed, faults, late, met, overwrites>>

\* Mutants: the record is waited out and not watched; it is taken for live
\* for ever.
WatchBlindly(i) ==
    /\ pc[i] = "watch"
    /\ rec[at[i]] = -1 \/ seen[i] = 0
    /\ pc' = [pc EXCEPT ![i] = "clear"]
    /\ UNCHANGED <<rec, renewIn, claimVars, faults, late, met, overwrites>>
WatchForEver(i) ==
    /\ pc[i] = "watch"
    /\ rec[at[i]] = -1 \/ renewed[i]
    /\ pc' = [pc EXCEPT ![i] = IF rec[at[i]] = -1 THEN "clear" ELSE "refused"]
    /\ UNCHANGED <<rec, renewIn, claimVars, faults, late, met, overwrites>>

\* awaitExpiry reads the record again: gone or out of time is taken over,
\* written since is refused.
Watch(i) ==
    /\ pc[i] = "watch"
    /\ rec[at[i]] = -1 \/ renewed[i] \/ seen[i] = 0
    /\ pc' = [pc EXCEPT ![i] = IF rec[at[i]] # -1 /\ renewed[i] THEN "refused" ELSE "clear"]
    /\ UNCHANGED <<rec, renewIn, claimVars, faults, late, met, overwrites>>

\* checkAlone clears the record of an instance that is gone, or fails to.
Clear(i) ==
    /\ pc[i] = "clear"
    /\ \/ rec' = [rec EXCEPT ![at[i]] = -1] /\ UNCHANGED faults
       \/ faults < MaxGuardFaults /\ faults' = faults + 1 /\ UNCHANGED rec
    /\ pc' = [pc EXCEPT ![i] = "check"]
    /\ UNCHANGED <<renewIn, claimVars, late, met, overwrites>>

\* The record of i is in place and live.
Written(i) ==
    /\ rec' = [rec EXCEPT ![i] = TTL]
    /\ renewIn' = [renewIn EXCEPT ![i] = RenewEvery]
    /\ renewed' = [k \in Instance |-> renewed[k] \/ at[k] = i]

\* Claim writes its own record and returns; renewUntil starts.
Write(i) ==
    /\ pc[i] = "write"
    /\ pc' = [pc EXCEPT ![i] = "run"]
    /\ Written(i)
    /\ UNCHANGED <<left, at, seen, faults, late, met, overwrites>>

-----------------------------------------------------------------------------
(* A running instance.                                                      *)

\* renewUntil: the upload replaces the record, or is refused and the record
\* deleted, to be uploaded again.
Renew(i) ==
    /\ pc[i] = "run" /\ renewIn[i] = 0
    /\ \/ /\ overwrites \/ rec[i] = -1
          /\ Written(i)
          /\ UNCHANGED pc
       \/ /\ ~overwrites /\ rec[i] # -1
          /\ rec' = [rec EXCEPT ![i] = -1]
          /\ pc' = [pc EXCEPT ![i] = "rewrite"]
          /\ UNCHANGED <<renewIn, renewed>>
    /\ UNCHANGED <<left, at, seen, faults, late, met, overwrites>>

Rewrite(i) ==
    /\ pc[i] = "rewrite"
    /\ pc' = [pc EXCEPT ![i] = "run"]
    /\ Written(i)
    /\ UNCHANGED <<left, at, seen, faults, late, met, overwrites>>

\* A renewal fails: the record is left to run on, until the next one.
RenewFails(i) ==
    /\ pc[i] = "run" /\ renewIn[i] = 0
    /\ faults < MaxGuardFaults
    /\ faults' = faults + 1
    /\ renewIn' = [renewIn EXCEPT ![i] = RenewEvery]
    /\ UNCHANGED <<pc, rec, claimVars, late, met, overwrites>>

\* release: the instance stands down and drops its record; a renewal that was
\* under way may land after that.
Release(i) ==
    /\ Running(i)
    /\ pc' = [pc EXCEPT ![i] = "gone"]
    /\ \/ rec' = [rec EXCEPT ![i] = -1] /\ UNCHANGED <<renewIn, renewed>>
       \/ (pc[i] = "rewrite" \/ renewIn[i] = 0) /\ Written(i)
    /\ UNCHANGED <<left, at, seen, faults, late, met, overwrites>>

\* The process dies, whatever it was doing; its record stays.
Die(i) ==
    /\ pc[i] \notin {"new", "gone", "refused"}
    /\ pc' = [pc EXCEPT ![i] = "gone"]
    /\ UNCHANGED <<rec, renewIn, claimVars, faults, late, met, overwrites>>

\* Time passes; a running instance renews, or fails to, when it is due.
Tick ==
    /\ \A i \in Instance : ~(pc[i] = "run" /\ renewIn[i] = 0) /\ pc[i] # "rewrite"
    /\ \E i \in Instance : pc[i] \notin {"gone", "refused"}
    /\ rec' = [i \in Instance |-> IF rec[i] > 0 THEN rec[i] - 1 ELSE rec[i]]
    /\ seen' = [i \in Instance |-> IF seen[i] > 0 THEN seen[i] - 1 ELSE 0]
    /\ renewIn' = [i \in Instance |-> IF renewIn[i] > 0 THEN renewIn[i] - 1 ELSE 0]
    /\ late' = [i \in Instance |-> late[i] \/ (Running(i) /\ rec[i] > 0 /\ rec'[i] = 0)]
    /\ UNCHANGED <<pc, left, at, renewed, faults, met, overwrites>>

-----------------------------------------------------------------------------

ClaimStep(i) == CheckNext(i) \/ CheckDone(i) \/ Watch(i) \/ Clear(i) \/ Write(i)
Renewing(i) == Renew(i) \/ Rewrite(i) \/ RenewFails(i)

-----------------------------------------------------------------------------
(* The property; what the guard is for is RunsOfOneProcess of Service.       *)

\* "A stale record delays a legitimate restart by at most this long": a Claim
\* ends, one way or the other, and does not wait for a dead instance for ever.
ClaimsEnd ==
    \A i \in Instance : pc[i] = "check" ~> pc[i] \in {"run", "rewrite", "refused", "gone"}

=============================================================================
