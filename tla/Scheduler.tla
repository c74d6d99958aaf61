----------------------------- MODULE Scheduler -----------------------------
(* Route execution in c2-server: the per-route scheduler, the server-wide   *)
(* execution scheduler and the admission gate they share.                   *)
(*                                                                          *)
(* A remote call captures the host generation, reserves a pending permit of *)
(* its route, waits for activation, then reserves and waits for a worker of *)
(* the execution scheduler, commits inside the blocking task and runs its   *)
(* callback.  A local call (RouteConcurrencyHandle) takes the route guard   *)
(* only.  Every wait registers with the gate's Notify before it checks      *)
(* state, and every release notifies all registered waiters.  A call is its *)
(* own queue ticket.  A limit of 0 stands for None.                         *)
EXTENDS Integers, Sequences, FiniteSets

CONSTANTS Calls, LocalCalls, Routes, Exec, RouteOf, Access, Mode,
          MaxPending, MaxWorkers,
          MaxGeneration         \* bound on host generations

Schedulers == Routes \cup {Exec}

ASSUME SchedulerAssumption ==
    /\ IsFiniteSet(Calls) /\ LocalCalls \subseteq Calls /\ Exec \notin Routes
    /\ RouteOf \in [Calls -> Routes]
    /\ Access \in [Calls -> {"Read", "Write"}]
    /\ Mode \in [Schedulers -> {"Parallel", "Exclusive", "ReadParallel"}]
    /\ Mode[Exec] = "Parallel"
    /\ MaxPending \in [Schedulers -> Nat] /\ MaxWorkers \in [Schedulers -> Nat]
    /\ MaxGeneration \in Nat

VARIABLES
    \* SchedulerState of every scheduler
    route_admission, pending, active_workers, active_readers, writer_active, queue,
    \* AdmissionState
    phase, generation,
    \* each call: where it is, what it holds, the generation it was accepted in
    pc, permit, guards, admission_generation, work_cancelled, notified,
    \* wait_drained_async of each route's close
    drainer, drain_notified,
    \* history: the writers queued ahead of a reservation
    ahead

counters == <<pending, active_workers, active_readers, writer_active, queue>>
gate == <<phase, generation>>
call == <<pc, permit, guards, admission_generation, work_cancelled>>
vars == <<route_admission, counters, gate, call, notified, drainer,
          drain_notified, ahead>>

None == "none"
Places == {"idle", "lookup", "arming", "checking", "rejecting", "waiting", "granted",
           "admitted", "blocking", "running", "leaving", "done"}

Init ==
    /\ route_admission = [s \in Schedulers |-> "Opened"]
    /\ pending = [s \in Schedulers |-> 0]
    /\ active_workers = [s \in Schedulers |-> 0]
    /\ active_readers = [s \in Schedulers |-> 0]
    /\ writer_active = [s \in Schedulers |-> FALSE]
    /\ queue = [s \in Schedulers |-> <<>>]
    /\ phase = "Open" /\ generation = 0
    /\ pc = [c \in Calls |-> "idle"]
    /\ permit = [c \in Calls |-> None]
    /\ guards = [c \in Calls |-> {}]
    /\ admission_generation = [c \in Calls |-> 0]
    /\ work_cancelled = [c \in Calls |-> FALSE]
    /\ notified = [c \in Calls |-> FALSE]
    /\ drainer = [r \in Routes |-> "none"]
    /\ drain_notified = [r \in Routes |-> FALSE]
    /\ ahead = [c \in Calls |-> {}]

-----------------------------------------------------------------------------
(* The admission gate                                                      *)

(* notify_waiters: every registered waiter is woken; nothing is stored.    *)
notify_all ==
    /\ notified' = [c \in Calls |->
          notified[c] \/ pc[c] \in {"checking", "rejecting", "waiting"}]
    /\ drain_notified' = [r \in Routes |->
          drain_notified[r] \/ drainer[r] \in {"checking", "waiting"}]

quiet == UNCHANGED <<notified, drain_notified>>

(* AdmissionState::check: new work needs the open phase.                   *)
check(g) == phase = "Open" /\ generation = g

Wrong_check_accepted(g) == check(g)

(* AdmissionState::check_accepted: accepted work also runs while draining. *)
check_accepted(g) == phase # "Terminal" /\ generation = g

check_accepted_admission(s, g) == route_admission[s] = "Opened" /\ check_accepted(g)

GateUnchanged == UNCHANGED <<counters, call, drainer, ahead>>

begin_drain ==
    /\ phase = "Open"
    /\ phase' = "Draining"
    /\ notify_all
    /\ UNCHANGED <<generation, route_admission>>
    /\ GateUnchanged

terminate ==
    /\ phase # "Terminal" /\ generation < MaxGeneration
    /\ phase' = "Terminal"
    /\ generation' = generation + 1
    /\ notify_all
    /\ UNCHANGED route_admission
    /\ GateUnchanged

(* A new start attempt follows a stopped run, whose connections are idle.  *)
begin_start ==
    /\ generation < MaxGeneration
    /\ \A c \in Calls \ LocalCalls : pc[c] \in {"idle", "done"}
    /\ phase' = "Open"
    /\ generation' = generation + 1
    /\ notify_all
    /\ UNCHANGED route_admission
    /\ GateUnchanged

-----------------------------------------------------------------------------
(* One scheduler                                                           *)

held_access(s, c) == CASE Mode[s] = "Parallel"  -> "Parallel"
                       [] Mode[s] = "Exclusive" -> "Write"
                       [] OTHER                 -> Access[c]

(* worker_slots_available; None leaves room for every call there is.       *)
worker_slots_available(s) ==
    IF MaxWorkers[s] = 0 THEN Cardinality(Calls)
    ELSE IF active_workers[s] <= MaxWorkers[s] THEN MaxWorkers[s] - active_workers[s]
    ELSE 0

Wrong_earlier_writer(s, i) == TRUE

(* No queued writer stands before position i.                              *)
no_earlier_writer(s, i) ==
    \A j \in 1..(i - 1) : held_access(s, queue[s][j]) # "Write"


write_admissible(s, i) == i = 1 /\ ~writer_active[s] /\ active_readers[s] = 0

can_activate(s, c) ==
    /\ route_admission[s] = "Opened"
    /\ worker_slots_available(s) > 0
    /\ \E i \in 1..Len(queue[s]) :
         /\ queue[s][i] = c
         /\ CASE held_access(s, c) = "Parallel" -> i - 1 < worker_slots_available(s)
              [] held_access(s, c) = "Read"     ->
                   /\ ~writer_active[s]
                   /\ no_earlier_writer(s, i)
                   /\ i - 1 < worker_slots_available(s)
              [] OTHER                          -> write_admissible(s, i)

remove_queued(s, c) ==
    queue' = [queue EXCEPT ![s] = SelectSeq(queue[s], LAMBDA d : d # c)]

HasRoom(s) == MaxPending[s] = 0 \/ pending[s] < MaxPending[s]

(* reserve_pending: count, take a ticket, queue.                           *)
PushPermit(s, c) ==
    /\ pending' = [pending EXCEPT ![s] = @ + 1]
    /\ queue' = [queue EXCEPT ![s] = Append(@, c)]
    /\ permit' = [permit EXCEPT ![c] = s]
    /\ ahead' = [ahead EXCEPT ![c] =
          IF s \in Routes THEN {d \in Calls : /\ permit[d] = s
                                              /\ held_access(s, d) = "Write"}
                          ELSE @]
    /\ UNCHANGED <<active_workers, active_readers, writer_active, guards>>

(* An activated permit is completed: dropping it counts nothing.           *)
Activate(s, c) ==
    /\ remove_queued(s, c)
    /\ UNCHANGED pending
    /\ active_workers' = [active_workers EXCEPT ![s] = @ + 1]
    /\ active_readers' = IF held_access(s, c) = "Read"
                           THEN [active_readers EXCEPT ![s] = @ + 1]
                           ELSE active_readers
    /\ writer_active' = IF held_access(s, c) = "Write"
                          THEN [writer_active EXCEPT ![s] = TRUE]
                          ELSE writer_active
    /\ permit' = [permit EXCEPT ![c] = None]
    /\ guards' = [guards EXCEPT ![c] = @ \cup {s}]

Wrong_permit_wakes == quiet

permit_wakes == notify_all

(* SchedulerPendingPermit::drop of a permit that was never activated.      *)
DropPermit(c) ==
    LET s == permit[c] IN
    /\ pending' = [pending EXCEPT ![s] = @ - 1]
    /\ remove_queued(s, c)
    /\ permit' = [permit EXCEPT ![c] = None]
    /\ permit_wakes
    /\ UNCHANGED <<active_workers, active_readers, writer_active, guards>>

Wrong_guard_wakes == quiet

guard_wakes == notify_all

Wrong_readers_after(s, c) == active_readers

readers_after(s, c) == IF held_access(s, c) = "Read"
                         THEN [active_readers EXCEPT ![s] = @ - 1]
                         ELSE active_readers

(* SchedulerGuard::drop                                                    *)
DropGuard(s, c) ==
    /\ pending' = [pending EXCEPT ![s] = @ - 1]
    /\ active_workers' = [active_workers EXCEPT ![s] = @ - 1]
    /\ active_readers' = readers_after(s, c)
    /\ writer_active' = IF held_access(s, c) = "Write"
                          THEN [writer_active EXCEPT ![s] = FALSE]
                          ELSE writer_active
    /\ guards' = [guards EXCEPT ![c] = @ \ {s}]
    /\ guard_wakes
    /\ UNCHANGED <<queue, permit>>

-----------------------------------------------------------------------------
(* Calls                                                                   *)

Goto(c, place) == pc' = [pc EXCEPT ![c] = place]
Deregister(c) == /\ notified' = [notified EXCEPT ![c] = FALSE]
                 /\ UNCHANGED drain_notified
Steady == UNCHANGED <<route_admission, gate, drainer>>
Idle == UNCHANGED <<counters, permit, guards, ahead>>

(* A complete request frame: the generation is captured before any lookup. *)
receive_call(c) ==
    /\ c \notin LocalCalls /\ pc[c] = "idle"
    /\ admission_generation' = [admission_generation EXCEPT ![c] = generation]
    /\ Goto(c, "lookup")
    /\ UNCHANGED <<work_cancelled>>
    /\ Idle /\ quiet /\ Steady

(* The route or its contract does not match: no permit was taken.          *)
route_refused(c) ==
    /\ pc[c] = "lookup"
    /\ Goto(c, "done")
    /\ UNCHANGED <<admission_generation, work_cancelled>>
    /\ Idle /\ quiet /\ Steady

reserve_pending_in_generation(c) ==
    /\ pc[c] = "lookup"
    /\ LET r == RouteOf[c] IN
       IF check_accepted_admission(r, admission_generation[c]) /\ HasRoom(r)
         THEN PushPermit(r, c) /\ Goto(c, "arming")
         ELSE Idle /\ Goto(c, "done")
    /\ UNCHANGED <<admission_generation, work_cancelled>>
    /\ quiet /\ Steady

(* A local caller's reservation, which needs the open phase.               *)
blocking_acquire(c) ==
    /\ c \in LocalCalls /\ pc[c] = "idle"
    /\ LET r == RouteOf[c] IN
       IF route_admission[r] = "Opened" /\ check(generation) /\ HasRoom(r)
         THEN /\ PushPermit(r, c)
              /\ admission_generation' = [admission_generation EXCEPT ![c] = generation]
              /\ Goto(c, "arming")
         ELSE Idle /\ UNCHANGED admission_generation /\ Goto(c, "done")
    /\ UNCHANGED <<work_cancelled>>
    /\ quiet /\ Steady

(* Each turn of async_activate's loop registers before it checks.          *)
enable(c) ==
    /\ pc[c] = "arming"
    /\ Goto(c, "checking")
    /\ notified' = [notified EXCEPT ![c] = FALSE]
    /\ UNCHANGED <<drain_notified, admission_generation, work_cancelled>>
    /\ Idle /\ Steady

AfterActivation(c) == IF permit[c] = Exec THEN "admitted"
                      ELSE IF c \in LocalCalls THEN "blocking" ELSE "granted"

activate_ready(c) ==
    /\ pc[c] = "checking"
    /\ LET s == permit[c] IN
       IF ~check_accepted_admission(s, admission_generation[c])
         THEN Idle /\ Goto(c, "leaving")
       ELSE IF can_activate(s, c)
         THEN Activate(s, c) /\ Goto(c, AfterActivation(c)) /\ UNCHANGED ahead
       ELSE Idle /\ Goto(c, IF s = Exec THEN "rejecting" ELSE "waiting")
    /\ UNCHANGED <<admission_generation, work_cancelled>>
    /\ IF pc'[c] \in {"rejecting", "waiting"} THEN quiet ELSE Deregister(c)
    /\ Steady

woken(c) ==
    /\ pc[c] = "waiting" /\ notified[c]
    /\ Goto(c, "arming")
    /\ UNCHANGED <<admission_generation, work_cancelled>>
    /\ Idle /\ Deregister(c) /\ Steady

(* wait_rejected, polled beside the wait for an execution worker.          *)
wait_rejected(c) ==
    /\ pc[c] = "rejecting"
    /\ Goto(c, IF check_accepted_admission(RouteOf[c], admission_generation[c])
               THEN "waiting" ELSE "leaving")
    /\ UNCHANGED <<admission_generation, work_cancelled>>
    /\ IF pc'[c] = "waiting" THEN quiet ELSE Deregister(c)
    /\ Idle /\ Steady

(* The connection ended: its queued work is cancelled at the next wait.    *)
cancel_queued_work(c) ==
    /\ c \notin LocalCalls
    /\ pc[c] \notin {"idle", "blocking", "running", "leaving", "done"}
    /\ work_cancelled' = [work_cancelled EXCEPT ![c] = TRUE]
    /\ UNCHANGED <<pc, admission_generation>>
    /\ Idle /\ quiet /\ Steady

wait_work_cancelled(c) ==
    /\ pc[c] \in {"arming", "waiting"} /\ work_cancelled[c]
    /\ Goto(c, "leaving")
    /\ UNCHANGED <<admission_generation, work_cancelled>>
    /\ Idle /\ Deregister(c) /\ Steady

async_acquire_accepted(c) ==
    /\ pc[c] = "granted"
    /\ IF check_accepted_admission(Exec, admission_generation[c]) /\ HasRoom(Exec)
         THEN PushPermit(Exec, c) /\ Goto(c, "arming")
         ELSE Idle /\ Goto(c, "leaving")
    /\ UNCHANGED <<admission_generation, work_cancelled>>
    /\ quiet /\ Steady

(* Both guards are held: the last checks before the blocking task.         *)
check_admission(c) ==
    /\ pc[c] = "admitted"
    /\ Goto(c, IF /\ check_accepted_admission(RouteOf[c], admission_generation[c])
                  /\ ~work_cancelled[c]
               THEN "blocking" ELSE "leaving")
    /\ UNCHANGED <<admission_generation, work_cancelled>>
    /\ Idle /\ quiet /\ Steady

Wrong_commits(c) == TRUE

commits(c) == check_accepted_admission(RouteOf[c], admission_generation[c])

commit(c) ==
    /\ pc[c] = "blocking"
    /\ Goto(c, IF commits(c) THEN "running" ELSE "leaving")
    /\ UNCHANGED <<admission_generation, work_cancelled>>
    /\ Idle /\ quiet /\ Steady

(* The callback returned or panicked.                                      *)
callback_ends(c) ==
    /\ pc[c] = "running"
    /\ Goto(c, "leaving")
    /\ UNCHANGED <<admission_generation, work_cancelled>>
    /\ Idle /\ quiet /\ Steady

(* What the call still holds is dropped: a permit, the worker, the route.  *)
leave(c) ==
    /\ pc[c] = "leaving"
    /\ IF permit[c] # None THEN DropPermit(c) /\ UNCHANGED pc
       ELSE IF Exec \in guards[c] THEN DropGuard(Exec, c) /\ UNCHANGED pc
       ELSE IF guards[c] # {} THEN DropGuard(RouteOf[c], c) /\ Goto(c, "done")
       ELSE UNCHANGED <<counters, permit, guards>> /\ quiet /\ Goto(c, "done")
    /\ UNCHANGED <<admission_generation, work_cancelled, ahead>>
    /\ Steady

-----------------------------------------------------------------------------
(* Closing a route and waiting for its drain                               *)

Wrong_close_route(r) == UNCHANGED route_admission

close_route(r) == route_admission' = [route_admission EXCEPT ![r] = "Closed"]

DrainFrame == UNCHANGED <<counters, gate, call, ahead>>

(* unregister_route, or the shutdown's unregister_routes_for_shutdown.     *)
close(r) ==
    /\ drainer[r] = "none"
    /\ close_route(r)
    /\ notify_all
    /\ drainer' = [drainer EXCEPT ![r] = "arming"]
    /\ DrainFrame

(* commit_awaiting_admission and open_admission_for_registration, around   *)
(* the publication of a route that is registered closed.  No remote call   *)
(* has a permit of a route that is not yet published.                      *)
commit_awaiting_admission(r) ==
    /\ route_admission[r] = "Opened"
    /\ \A c \in Calls \ LocalCalls : RouteOf[c] = r => pc[c] \in {"idle", "lookup"}
    /\ route_admission' = [route_admission EXCEPT ![r] = "CommittedPending"]
    /\ notify_all
    /\ UNCHANGED drainer
    /\ DrainFrame

open_admission_for_registration(r) ==
    /\ route_admission[r] = "CommittedPending"
    /\ route_admission' = [route_admission EXCEPT ![r] = "Opened"]
    /\ notify_all
    /\ UNCHANGED drainer
    /\ DrainFrame

wait_drained_enable(r) ==
    /\ drainer[r] = "arming"
    /\ drainer' = [drainer EXCEPT ![r] = "checking"]
    /\ drain_notified' = [drain_notified EXCEPT ![r] = FALSE]
    /\ UNCHANGED <<notified, route_admission>>
    /\ DrainFrame

is_drained(r) == pending[r] = 0 /\ active_workers[r] = 0

wait_drained_check(r) ==
    /\ drainer[r] = "checking"
    /\ drainer' = [drainer EXCEPT ![r] = IF is_drained(r) THEN "drained" ELSE "waiting"]
    /\ UNCHANGED route_admission
    /\ quiet /\ DrainFrame

wait_drained_woken(r) ==
    /\ drainer[r] = "waiting" /\ drain_notified[r]
    /\ drainer' = [drainer EXCEPT ![r] = "arming"]
    /\ drain_notified' = [drain_notified EXCEPT ![r] = FALSE]
    /\ UNCHANGED <<notified, route_admission>>
    /\ DrainFrame

-----------------------------------------------------------------------------
Gate == begin_drain \/ terminate \/ begin_start

(* What a task does once it is polled.                                     *)
Poll(c) == \/ route_refused(c)
           \/ reserve_pending_in_generation(c)
           \/ enable(c)
           \/ activate_ready(c)
           \/ woken(c)
           \/ wait_rejected(c)
           \/ wait_work_cancelled(c)
           \/ async_acquire_accepted(c)
           \/ check_admission(c)
           \/ commit(c)
           \/ callback_ends(c)
           \/ leave(c)

Drain(r) == \/ wait_drained_enable(r)
            \/ wait_drained_check(r)
            \/ wait_drained_woken(r)

Route(r) == \/ close(r)
            \/ commit_awaiting_admission(r)
            \/ open_admission_for_registration(r)

Arrive(c) == receive_call(c) \/ blocking_acquire(c) \/ cancel_queued_work(c)

Next == \/ Gate
        \/ \E c \in Calls : Arrive(c) \/ Poll(c)
        \/ \E r \in Routes : Route(r) \/ Drain(r)

Spec == Init /\ [][Next]_vars

(* Fairness: tokio polls every runnable task and callbacks return; nothing *)
(* is assumed about arrivals, closing, or the host's phases.               *)
Fairness == /\ \A c \in Calls : WF_vars(Poll(c))
            /\ \A r \in Routes : WF_vars(Drain(r))

FairSpec == Spec /\ Fairness

-----------------------------------------------------------------------------
TypeOK ==
    /\ route_admission \in [Schedulers -> {"CommittedPending", "Opened", "Closed"}]
    /\ pending \in [Schedulers -> Nat]
    /\ active_workers \in [Schedulers -> Nat]
    /\ active_readers \in [Schedulers -> Nat]
    /\ writer_active \in [Schedulers -> BOOLEAN]
    /\ queue \in [Schedulers -> Seq(Calls)]
    /\ phase \in {"Open", "Draining", "Terminal"}
    /\ generation \in 0..MaxGeneration
    /\ pc \in [Calls -> Places]
    /\ permit \in [Calls -> Schedulers \cup {None}]
    /\ guards \in [Calls -> SUBSET Schedulers]
    /\ admission_generation \in [Calls -> 0..MaxGeneration]
    /\ work_cancelled \in [Calls -> BOOLEAN]
    /\ notified \in [Calls -> BOOLEAN]
    /\ drainer \in [Routes -> {"none", "arming", "checking", "waiting", "drained"}]
    /\ drain_notified \in [Routes -> BOOLEAN]
    /\ ahead \in [Calls -> SUBSET Calls]

Holders(s) == {c \in Calls : s \in guards[c]}
Waiters(s) == {c \in Calls : permit[c] = s}

(* Everything has its type, every counter of a scheduler equals what its   *)
(* live permits and guards hold, and its queue is exactly the waiting      *)
(* permits, each once.                                                     *)
CountersMatchHolders ==
    /\ TypeOK
    /\ \A s \in Schedulers :
        /\ active_workers[s] = Cardinality(Holders(s))
        /\ pending[s] = Cardinality(Holders(s)) + Cardinality(Waiters(s))
        /\ active_readers[s] = Cardinality({c \in Holders(s) : held_access(s, c) = "Read"})
        /\ writer_active[s] = (\E c \in Holders(s) : held_access(s, c) = "Write")
        /\ {queue[s][i] : i \in 1..Len(queue[s])} = Waiters(s)
        /\ Len(queue[s]) = Cardinality(Waiters(s))


(* A writer is not overtaken: a reader that reserved behind a queued       *)
(* writer holds no guard while that writer is still queued.                *)
NoOvertaking ==
    \A c \in Calls :
        /\ RouteOf[c] \in guards[c]
        /\ held_access(RouteOf[c], c) # "Parallel"
        => \A d \in ahead[c] : permit[d] # RouteOf[c]

(* Once a closed route has been observed drained no call holds any part of *)
(* it and no callback of it runs: the route may be removed for good.       *)
DrainedRouteIsSilent ==
    \A r \in Routes : drainer[r] = "drained" =>
        \A c \in Calls : RouteOf[c] = r =>
            /\ permit[c] = None /\ guards[c] = {}
            /\ pc[c] \notin {"blocking", "running"}

(* Draining the host does not refuse accepted work: a call that got its    *)
(* route permit gives up only for its connection, its route or a new       *)
(* generation.                                                             *)
DrainKeepsAcceptedWork ==
    [][\A c \in Calls :
          pc[c] \notin {"leaving", "running"} /\ pc'[c] = "leaving"
          => \/ work_cancelled[c]
             \/ route_admission[RouteOf[c]] # "Opened"
             \/ phase = "Terminal" \/ generation # admission_generation[c]]_vars

(* No lost wake-up and no deadlock between the two schedulers: a call that *)
(* waits for a permit stops waiting, whatever closes, drains or restarts.  *)
CallsFinish == \A c \in Calls : pc[c] # "idle" ~> pc[c] = "done"

(* A closed route is eventually observed drained.                          *)
DrainCompletes == \A r \in Routes : drainer[r] = "arming" ~> drainer[r] = "drained"
=============================================================================
