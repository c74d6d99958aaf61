---------------------------- MODULE MCScheduler ----------------------------
EXTENDS Scheduler

VARIABLE cast   \* the calls made in this behaviour

OnRoute(calls) == [c \in calls |-> "route"]
ReadsBut(calls, writers) == [c \in calls |-> IF c \in writers THEN "Write" ELSE "Read"]

MC_Calls == {"w", "l", "r1", "r2"}
MC_Route == OnRoute(MC_Calls)
MC_Access == ReadsBut(MC_Calls, {"w"})
MC_Mode == [s \in {"route", "exec"} |-> IF s = "route" THEN "ReadParallel" ELSE "Parallel"]
MC_Pending == [s \in {"route", "exec"} |-> IF s = "route" THEN 2 ELSE 0]
MC_Workers == [s \in {"route", "exec"} |-> IF s = "route" THEN 2 ELSE 1]

(* A writer, a reader and an in-process reader contend for the queue; the  *)
(* liveness check takes two calls at a time: those that exclude each other *)
(* on the route, and those that compete for the one worker.                *)
SafetyInit == Init /\ cast = {"w", "l", "r1"}
LiveInit == Init /\ cast \in {{"w", "l"}, {"r1", "r2"}}

CastNext ==
    /\ Next
    /\ \A c \in Calls \ cast : pc'[c] = "idle"
    /\ UNCHANGED cast

SafetySpec == SafetyInit /\ [][CastNext]_<<vars, cast>>
LiveSpec == LiveInit /\ [][CastNext]_<<vars, cast>> /\ Fairness
=============================================================================
