----------------------------- MODULE MCScheduler -----------------------------
(* Small instances of Scheduler for TLC.                                    *)
EXTENDS Scheduler

\* One Space; two on the same schedule, the second one with a jitter.
PeriodOne == <<4>>
JitterOne == <<0>>
PeriodsTwo == <<4, 4>>
JittersTwo == <<0, 1>>
Always == {"succeeded"}
Either == {"succeeded", "failed"}

=============================================================================
