-------------------------- MODULE ServerLifecycle --------------------------
(***************************************************************************)
(* A server's life and its routes (core/transport/c2-server/src/server.rs, *)
(* admission.rs, dispatcher.rs): start attempts, the accept loop, shutdown *)
(* and restart, racing the registration and removal of routes and the      *)
(* calls of connections.  What a route's scheduler does with its calls is  *)
(* module Scheduler; here a call holds its route or does not.              *)
(*                                                                         *)
(* The sections under route_registration exclude each other, and so do     *)
(* those under the admission lock: each is one action.  Only                *)
(* request_shutdown_signal takes two, because connections and the accept   *)
(* loop do not ask for the lock it holds.                                  *)
(***************************************************************************)
EXTENDS Integers, FiniteSets

CONSTANTS
    Names, Routes, NameOf,      \* route objects and the names they carry
    Calls,                      \* each on a connection of its own
    Removals,                   \* concurrent unregister_route calls
    Scenes,                     \* which of them, and how many starts, a behaviour has
    MAX_ROUTES

ASSUME LifecycleAssumption ==
    /\ NameOf \in [Routes -> Names]
    /\ Scenes \subseteq [routes : SUBSET Routes, calls : SUBSET Calls,
                          removals : SUBSET Removals, business : BOOLEAN, starts : Nat]
    /\ MAX_ROUTES \in Nat

VARIABLES
    lifecycle, shutdown_tx, run_entered,
    signalling,         \* request_shutdown_signal holds the admission lock
    phase, generation, pending,             \* AdmissionState
    dispatcher,
    route_admission,    \* of each route's scheduler
    place,              \* of each route object
    stamp,              \* the generation its reservation or token carries
    removal             \* routes an unregister_route waits for, then removes

VARIABLES
    owner, runner,      \* who starts the server; its run()
    closer,             \* close_registered_routes_for_shutdown
    awaited,            \* connections, or routes, closer or runner waits for
    closing,            \* its snapshot of routes, then shutdown_route_outcomes
    business,           \* close_business_admission is between its two locks
    link, flagged,      \* connections; Connection::shutdown_requested
    call, identity, call_generation,
    due,                \* history: accepted calls that nothing entitles to fail
    scene, starts

None == "none"

server == <<lifecycle, shutdown_tx, run_entered, signalling>>
gate == <<phase, generation>>
routes == <<pending, dispatcher, route_admission, place, stamp, removal>>
tasks == <<owner, runner, closer, awaited, closing, business, starts, scene>>
conns == <<link, flagged, call, identity, call_generation>>
vars == <<server, gate, routes, tasks, conns, due>>

Terminal == {"Initialized", "Stopped", "Failed"}

Init ==
    /\ lifecycle = "Initialized" /\ shutdown_tx = FALSE
    /\ run_entered = FALSE /\ signalling = FALSE
    /\ phase = "Open" /\ generation = 0
    /\ pending = [n \in Names |-> None]
    /\ dispatcher = [n \in Names |-> None]
    /\ route_admission = [r \in Routes |-> "Opened"]
    /\ stamp = [r \in Routes |-> 0]
    /\ removal = [t \in Removals |-> {}]
    /\ owner = "idle" /\ runner = "none" /\ closer = "none"
    /\ awaited = {} /\ closing = {} /\ business = FALSE
    /\ flagged = [c \in Calls |-> FALSE]
    /\ call = [c \in Calls |-> "idle"]
    /\ identity = [c \in Calls |-> None]
    /\ call_generation = [c \in Calls |-> 0]
    /\ starts = 0 /\ due = {}
    /\ scene \in Scenes
    /\ place = [r \in Routes |-> IF r \in scene.routes THEN "built" ELSE "gone"]
    /\ link = [c \in Calls |-> IF c \in scene.calls THEN "none" ELSE "gone"]

-----------------------------------------------------------------------------
(* Routes                                                                  *)

unlocked == ~signalling
is_closed == phase # "Open"
Registered == {n \in Names : dispatcher[n] # None}
Pending == {n \in Names : pending[n] # None}

routes_only == UNCHANGED <<server, gate, tasks, conns>>

Wrong_has_capacity == Cardinality(Registered) < MAX_ROUTES

has_capacity == Cardinality(Registered) + Cardinality(Pending) < MAX_ROUTES

reserve_route(r) ==
    LET n == NameOf[r] IN
    /\ place[r] = "built" /\ unlocked
    /\ dispatcher[n] = None /\ pending[n] = None
    /\ has_capacity
    /\ lifecycle # "Stopping" /\ ~is_closed
    /\ pending' = [pending EXCEPT ![n] = r]
    /\ place' = [place EXCEPT ![r] = "reserved"]
    /\ stamp' = [stamp EXCEPT ![r] = generation]
    /\ UNCHANGED <<dispatcher, route_admission, removal, due>>
    /\ routes_only

Wrong_admits(r) == lifecycle # "Stopping"

(* What a commit and the opening of a committed route ask of the host.     *)
admits(r) == stamp[r] = generation /\ lifecycle # "Stopping" /\ ~is_closed

Wrong_commit_refused(r) ==
    /\ place[r] = "reserved" /\ unlocked
    /\ ~(admits(r) /\ dispatcher[NameOf[r]] = None)
    /\ route_admission' = [route_admission EXCEPT ![r] = "Closed"]
    /\ pending' = [pending EXCEPT ![NameOf[r]] = None]
    /\ place' = [place EXCEPT ![r] = "refused"]
    /\ UNCHANGED <<dispatcher, stamp, removal, due>>
    /\ routes_only

(* A refused commit closes the route's scheduler; its reservation is       *)
(* dropped when the call returns.                                          *)
commit_refused(r) ==
    /\ place[r] = "reserved" /\ unlocked
    /\ ~(admits(r) /\ dispatcher[NameOf[r]] = None)
    /\ route_admission' = [route_admission EXCEPT ![r] = "Closed"]
    /\ place' = [place EXCEPT ![r] = "refused"]
    /\ UNCHANGED <<pending, dispatcher, stamp, removal, due>>
    /\ routes_only

commit_reserved_route_with_admission(r, admission_open) ==
    LET n == NameOf[r] IN
    /\ place[r] = "reserved" /\ unlocked
    /\ admits(r) /\ dispatcher[n] = None
    /\ route_admission' = [route_admission EXCEPT
                             ![r] = IF admission_open THEN @ ELSE "CommittedPending"]
    /\ pending' = [pending EXCEPT ![n] = None]
    /\ dispatcher' = [dispatcher EXCEPT ![n] = r]
    /\ place' = [place EXCEPT ![r] = IF admission_open THEN "routed" ELSE "awaiting"]
    /\ UNCHANGED <<stamp, removal, due>>
    /\ routes_only

(* The token is consumed whether or not the route opens.                   *)
open_route_admission(r) ==
    /\ place[r] = "awaiting" /\ unlocked
    /\ place' = [place EXCEPT ![r] = "routed"]
    /\ route_admission' = [route_admission EXCEPT
          ![r] = IF admits(r) /\ dispatcher[NameOf[r]] = r /\ @ = "CommittedPending"
                   THEN "Opened" ELSE @]
    /\ UNCHANGED <<pending, dispatcher, stamp, removal, due>>
    /\ routes_only

(* abort_reserved_route, or PendingRouteReservation::drop: the entry is    *)
(* removed by name.                                                        *)
drop_reservation(r) ==
    /\ place[r] \in {"reserved", "refused"} /\ unlocked
    /\ route_admission' = [route_admission EXCEPT ![r] = "Closed"]
    /\ pending' = [pending EXCEPT ![NameOf[r]] = None]
    /\ place' = [place EXCEPT ![r] = "gone"]
    /\ UNCHANGED <<dispatcher, stamp, removal, due>>
    /\ routes_only

(* unregister_route and unregister_routes_for_shutdown: close first, under *)
(* the registration lock; remove what is still there once it has drained.  *)
Close(rs) == route_admission' =
    [r \in Routes |-> IF r \in rs THEN "Closed" ELSE route_admission[r]]

unregister_routes(t, names) ==
    LET rs == {dispatcher[n] : n \in names \cap Registered} IN
    /\ t \in scene.removals /\ removal[t] = {} /\ rs # {}
    /\ Close(rs)
    /\ removal' = [removal EXCEPT ![t] = rs]
    /\ due' = {c \in due : identity[c] \notin rs}
    /\ UNCHANGED <<pending, dispatcher, place, stamp>>
    /\ routes_only

Holders(r) == {c \in Calls : call[c] = "holding" /\ identity[c] = r}

(* The tombstones that unregister and take_all leave only choose an error. *)
Take(ns) == dispatcher' = [n \in Names |-> IF n \in ns THEN None ELSE dispatcher[n]]

Wrong_still_current(rs) == {n \in Registered : \E r \in rs : NameOf[r] = n}

(* Arc::ptr_eq: the name may have been registered anew meanwhile.          *)
still_current(rs) == {n \in Registered : dispatcher[n] \in rs}

unregister_ends(t) ==
    /\ removal[t] # {} /\ \A r \in removal[t] : Holders(r) = {}
    /\ Take(still_current(removal[t]))
    /\ removal' = [removal EXCEPT ![t] = {}]
    /\ UNCHANGED <<pending, route_admission, place, stamp, due>>
    /\ routes_only

(* close_business_admission: the gate first, then every registered route.  *)
terminate ==
    /\ scene.business /\ ~business /\ unlocked /\ phase # "Terminal"
    /\ phase' = "Terminal" /\ generation' = generation + 1
    /\ business' = TRUE
    /\ due' = {}
    /\ UNCHANGED <<server, routes, owner, runner, closer, awaited, closing,
                   starts, scene, conns>>

close_business_admission ==
    /\ business /\ business' = FALSE
    /\ Close({dispatcher[n] : n \in Registered})
    /\ due' = {c \in due : dispatcher[NameOf[identity[c]]] # identity[c]}
    /\ UNCHANGED <<server, gate, pending, dispatcher, place, stamp,
                   removal, owner, runner, closer, awaited, closing,
                   starts, scene, conns>>

-----------------------------------------------------------------------------
(* Starting and stopping                                                   *)

lifecycle_only == UNCHANGED <<routes, conns, due>>
no_gate == UNCHANGED gate

(* begin_start_attempt, by the owner or by run() itself.                   *)
CanStart == lifecycle \in Terminal /\ unlocked

StartAttempt(entered) ==
    /\ starts < scene.starts /\ starts' = starts + 1
    /\ IF lifecycle # "Initialized" \/ is_closed
         THEN generation' = generation + 1 /\ phase' = "Open"
         ELSE no_gate
    /\ shutdown_tx' = FALSE /\ run_entered' = entered
    /\ closing' = {}
    /\ lifecycle' = "Starting"
    /\ UNCHANGED <<signalling, closer, awaited, business, scene>>

(* The host starts the attempt before the thread that runs it; prewarming  *)
(* the pool may fail, which changes nothing.                               *)
begin_start_attempt ==
    /\ owner = "idle" /\ runner = "none" /\ CanStart
    /\ owner' = "begun" /\ StartAttempt(FALSE)
    /\ UNCHANGED runner
    /\ lifecycle_only

spawn_run ==
    /\ runner = "none" /\ (owner = "begun" \/ starts < scene.starts)
    /\ owner' = "idle" /\ runner' = "spawned"
    /\ UNCHANGED <<server, gate, closer, awaited, closing, business, starts, scene>>
    /\ lifecycle_only


Finalized == IF lifecycle \in Terminal THEN lifecycle ELSE "Stopped"

(* finalize_runtime_stopped, when the thread could not be spawned.         *)
spawn_fails ==
    /\ owner = "begun" /\ owner' = "idle"
    /\ lifecycle' = Finalized
    /\ UNCHANGED <<shutdown_tx, run_entered, signalling, gate, runner, closer,
                   awaited, closing, business, starts, scene>>
    /\ lifecycle_only

(* An attempt that was never run.                                          *)
reject_start_attempt ==
    /\ owner = "begun" /\ owner' = "idle"
    /\ lifecycle \in {"Starting", "Stopping"} /\ ~run_entered
    /\ lifecycle' = "Failed"
    /\ UNCHANGED <<shutdown_tx, run_entered, signalling, gate, runner, closer,
                   awaited, closing, business, starts, scene>>
    /\ lifecycle_only

(* request_shutdown_signal, under the admission lock: drain the gate, tell *)
(* every registered connection, and only then set the watch.               *)
request_shutdown_signal ==
    /\ unlocked /\ signalling' = ~shutdown_tx
    /\ phase' = IF phase = "Open" THEN "Draining" ELSE phase
    /\ flagged' = [c \in Calls |->
          flagged[c] \/ (~shutdown_tx /\ link[c] \in {"fresh", "open"})]
    /\ lifecycle' = IF lifecycle \in {"Starting", "Ready"} THEN "Stopping" ELSE lifecycle
    /\ UNCHANGED <<shutdown_tx, run_entered, generation, routes, tasks, link, call,
                   identity, call_generation, due>>

request_shutdown_sends ==
    /\ signalling /\ signalling' = FALSE
    /\ shutdown_tx' = TRUE
    /\ UNCHANGED <<lifecycle, run_entered, gate, routes, tasks, conns, due>>

-----------------------------------------------------------------------------
(* run_inner                                                               *)

runner_goes(from, to) ==
    /\ runner = from /\ runner' = to
    /\ UNCHANGED <<owner, routes, conns, due>>

runner_steps(from, to) ==
    /\ runner_goes(from, to)
    /\ UNCHANGED <<gate, closer, awaited, closing, business, starts, scene>>

(* The attempt begun before, or one of its own.                            *)
run_starts ==
    \/ /\ lifecycle = "Starting"
       /\ runner_steps("spawned", "binding")
       /\ run_entered' = TRUE
       /\ UNCHANGED <<lifecycle, shutdown_tx, signalling>>
    \/ /\ CanStart
       /\ runner_goes("spawned", "binding")
       /\ StartAttempt(TRUE)
    \/ /\ lifecycle \in {"Ready", "Stopping"}
       /\ runner_steps("spawned", "failed")
       /\ UNCHANGED server

(* publish_ready does not look at the state it replaces.                   *)
run_binds ==
    /\ \/ runner_steps("binding", "serving") /\ lifecycle' = "Ready"
       \/ runner_steps("binding", "failed") /\ lifecycle' = "Failed"
    /\ UNCHANGED <<shutdown_tx, run_entered, signalling>>

(* An accepted connection is registered before its task first runs.        *)
run_accepts(c) ==
    /\ runner \in {"serving", "closing"}
    /\ link[c] = "none" /\ link' = [link EXCEPT ![c] = "fresh"]
    /\ UNCHANGED <<server, gate, routes, tasks, flagged, call, identity,
                   call_generation, due>>

run_sees_shutdown ==
    /\ shutdown_tx
    /\ runner_goes("serving", "closing")
    /\ lifecycle' = "Stopping"
    /\ closer' = "spawned"
    /\ UNCHANGED <<shutdown_tx, run_entered, signalling, gate, awaited, closing,
                   business, starts, scene>>

is_idle(c) == call[c] \notin {"accepted", "looking", "holding"}
Connections == {c \in Calls : link[c] \in {"fresh", "open"}}

(* conn.wait_idle() for one after the other                                *)
awaits == /\ awaited # {}
          /\ \E c \in awaited : is_idle(c) /\ awaited' = awaited \ {c}

closer_goes(from, to) ==
    /\ closer = from /\ closer' = to
    /\ UNCHANGED <<server, gate, owner, runner, business, starts, scene, conns, due>>

Wrong_closer_waits == closer_goes("spawned", "idle") /\ awaited' = {}
                      /\ UNCHANGED <<closing, routes>>

closer_waits ==
    /\ \/ closer_goes("spawned", "idle") /\ awaited' = Connections
       \/ closer_goes("idle", "idle") /\ awaits
    /\ UNCHANGED <<closing, routes>>

closer_takes_snapshot ==
    /\ awaited = {}
    /\ closer_goes("idle", "draining")
    /\ closing' = {dispatcher[n] : n \in Registered}
    /\ awaited' = {dispatcher[n] : n \in Registered}
    /\ UNCHANGED routes

(* wait_routes_drained: one route after the other                          *)
closer_drains ==
    /\ closer_goes("draining", "draining")
    /\ \E r \in awaited : Holders(r) = {} /\ awaited' = awaited \ {r}
    /\ UNCHANGED <<closing, routes>>

closer_closes ==
    /\ awaited = {}
    /\ closer_goes("draining", "taking")
    /\ Close(closing)
    /\ UNCHANGED <<awaited, closing, pending, dispatcher, place, stamp, removal>>

take_all ==
    /\ closer_goes("taking", "done")
    /\ Take(Registered)
    /\ UNCHANGED <<awaited, closing, pending, route_admission, place, stamp, removal>>

Wrong_run_awaits_connections ==
    /\ closer = "done"
    /\ runner_goes("closing", "settling") /\ awaited' = {}
    /\ UNCHANGED <<server, gate, closer, closing, business, starts, scene>>

run_awaits_connections ==
    /\ closer = "done"
    /\ \/ runner_goes("closing", "settling") /\ awaited' = Connections
       \/ runner_goes("settling", "settling") /\ awaits
    /\ UNCHANGED <<server, gate, closer, closing, business, starts, scene>>

(* close_listener_for_shutdown may fail.                                   *)
run_ends ==
    /\ awaited = {}
    /\ closer' = "none"
    /\ \/ runner_goes("settling", "stopped") /\ lifecycle' = "Stopped"
       \/ runner_goes("settling", "failed") /\ lifecycle' = "Failed"
    /\ UNCHANGED <<shutdown_tx, run_entered, signalling, gate, awaited, closing, business, starts, scene>>

(* The host's thread: finalize_runtime_stopped after an error, then        *)
(* wait_connections_settled.                                               *)
run_returned ==
    \/ /\ runner_steps("failed", "stopped")
       /\ lifecycle' = Finalized
       /\ UNCHANGED <<shutdown_tx, run_entered, signalling>>
    \/ /\ runner_steps("stopped", "none")
       /\ Connections = {}
       /\ UNCHANGED server

-----------------------------------------------------------------------------
(* Connections and calls                                                   *)

conns_only == UNCHANGED <<server, gate, routes, tasks>>

handle_connection(c) ==
    /\ link[c] = "fresh"
    /\ link' = [link EXCEPT ![c] = IF shutdown_tx THEN "gone" ELSE "open"]
    /\ UNCHANGED <<flagged, call, identity, call_generation, due>>
    /\ conns_only

(* The reader's select sees the watch, or the idle connection ends.        *)
connection_told(c) ==
    /\ link[c] = "open" /\ shutdown_tx /\ ~flagged[c]
    /\ flagged' = [flagged EXCEPT ![c] = TRUE]
    /\ UNCHANGED <<link, call, identity, call_generation, due>>
    /\ conns_only

connection_ends(c) ==
    /\ link[c] = "open" /\ is_idle(c)
    /\ link' = [link EXCEPT ![c] = "gone"]
    /\ UNCHANGED <<flagged, call, identity, call_generation, due>>
    /\ conns_only

(* A complete frame of a call that names a route by its uid.  If the host  *)
(* is open and the route serves, nothing but its removal may fail it.      *)
call_accepted(c, r) ==
    /\ link[c] = "open" /\ ~flagged[c] /\ call[c] = "idle"
    /\ place[r] = "routed"
    /\ call' = [call EXCEPT ![c] = "accepted"]
    /\ identity' = [identity EXCEPT ![c] = r]
    /\ due' = IF phase = "Open" /\ dispatcher[NameOf[r]] = r /\ route_admission[r] = "Opened"
                THEN due \cup {c} ELSE due
    /\ UNCHANGED <<link, flagged, call_generation>>
    /\ conns_only

(* reserve_accepted_route_execution captures the generation before it      *)
(* looks the route up.                                                     *)
call_captures_generation(c) ==
    /\ call[c] = "accepted" /\ unlocked
    /\ call' = [call EXCEPT ![c] = "looking"]
    /\ call_generation' = [call_generation EXCEPT ![c] = generation]
    /\ UNCHANGED <<link, flagged, identity, due>>
    /\ conns_only

check_accepted(c) == phase # "Terminal" /\ generation = call_generation[c]

(* Resolved and found stale, reserved, or refused: one lookup.             *)
call_reserves(c) ==
    LET r == identity[c] IN
    /\ call[c] = "looking" /\ unlocked
    /\ call' = [call EXCEPT ![c] =
          IF dispatcher[NameOf[r]] = r /\ route_admission[r] = "Opened" /\ check_accepted(c)
            THEN "holding" ELSE "refused"]
    /\ UNCHANGED <<link, flagged, identity, call_generation, due>>
    /\ conns_only

(* The permit is still refused before the callback starts if the route or  *)
(* the host closed.                                                        *)
call_ends(c) ==
    /\ call[c] = "holding"
    /\ \/ call' = [call EXCEPT ![c] = "served"]
       \/ /\ route_admission[identity[c]] # "Opened" \/ ~check_accepted(c)
          /\ call' = [call EXCEPT ![c] = "refused"]
    /\ UNCHANGED <<link, flagged, identity, call_generation, due>>
    /\ conns_only

-----------------------------------------------------------------------------
route_step(r) ==
    \/ reserve_route(r) \/ commit_refused(r) \/ open_route_admission(r)
    \/ \E open \in BOOLEAN : commit_reserved_route_with_admission(r, open)
    \/ drop_reservation(r)

closer_step ==
    \/ closer_waits \/ closer_takes_snapshot \/ closer_drains
    \/ closer_closes \/ take_all

runner_step ==
    \/ run_starts \/ run_binds \/ run_sees_shutdown
    \/ run_awaits_connections \/ run_ends \/ run_returned

call_step(c) == call_captures_generation(c) \/ call_reserves(c) \/ call_ends(c)

connection_step(c) ==
    \/ run_accepts(c) \/ handle_connection(c) \/ connection_told(c) \/ connection_ends(c)
    \/ \E r \in Routes : call_accepted(c, r)

Next ==
    \/ \E r \in Routes : route_step(r)
    \/ \E t \in Removals : unregister_ends(t) \/ \E ns \in SUBSET Names : unregister_routes(t, ns)
    \/ terminate \/ close_business_admission
    \/ begin_start_attempt \/ spawn_run \/ spawn_fails \/ reject_start_attempt
    \/ request_shutdown_signal \/ request_shutdown_sends
    \/ closer_step \/ runner_step
    \/ \E c \in Calls : connection_step(c) \/ call_step(c)

(* The executor runs every task that can run, an owner that began a start  *)
(* goes on, and callbacks return.  Clients, registrations and shutdown     *)
(* requests owe nothing.                                                   *)
Fairness ==
    /\ WF_vars(closer_step) /\ WF_vars(runner_step)
    /\ WF_vars(spawn_run \/ spawn_fails)
    /\ WF_vars(request_shutdown_sends)
    /\ \A c \in Calls :
         /\ WF_vars(call_step(c))
         /\ WF_vars(handle_connection(c) \/ connection_told(c))
         /\ WF_vars(flagged[c] /\ connection_ends(c))

Spec == Init /\ [][Next]_vars /\ Fairness

-----------------------------------------------------------------------------
(* Every variable keeps its type, and registered and reserved routes       *)
(* together never exceed the limit reserve_route enforces.                 *)
TypeOK ==
    /\ lifecycle \in Terminal \cup {"Starting", "Ready", "Stopping"}
    /\ {shutdown_tx, run_entered, signalling, business} \subseteq BOOLEAN
    /\ phase \in {"Open", "Draining", "Terminal"} /\ generation \in Nat
    /\ {pending, dispatcher} \subseteq [Names -> Routes \cup {None}]
    /\ route_admission \in [Routes -> {"Opened", "CommittedPending", "Closed"}]
    /\ place \in [Routes -> {"built", "reserved", "refused", "awaiting", "routed", "gone"}]
    /\ stamp \in [Routes -> Nat]
    /\ removal \in [Removals -> SUBSET Routes]
    /\ closing \subseteq Routes
    /\ awaited \subseteq Routes \cup Calls
    /\ link \in [Calls -> {"none", "fresh", "open", "gone"}]
    /\ flagged \in [Calls -> BOOLEAN]
    /\ call \in [Calls -> {"idle", "accepted", "looking", "holding", "served", "refused"}]
    /\ identity \in [Calls -> Routes \cup {None}]
    /\ due \subseteq Calls
    /\ Cardinality(Registered) + Cardinality(Pending) <= MAX_ROUTES

(* A committed route that is open is the one its name resolves to:         *)
(* unregister_route closes before it removes, and neither it nor a         *)
(* shutdown removes another route registered under the name meanwhile.     *)
OpenMeansRegistered ==
    \A r \in Routes :
        place[r] \in {"awaiting", "routed"} /\ route_admission[r] # "Closed"
            => dispatcher[NameOf[r]] = r

(* AdmissionState.pending holds exactly the unresolved reservations, and   *)
(* no name is both reserved and registered, although a reservation is      *)
(* dropped by its name alone and long after its commit was refused.        *)
PendingIsExact ==
    /\ \A r \in Routes : place[r] \in {"reserved", "refused"} <=> pending[NameOf[r]] = r
    /\ Pending \cap Registered = {}

(* A route that becomes visible was reserved under the generation that is  *)
(* open: a commit that outlives a shutdown or a restart is refused.        *)
OpensUnderItsGeneration ==
    [][\A r \in Routes :
         place[r] \in {"reserved", "awaiting"} /\ place'[r] = "routed"
           /\ route_admission'[r] = "Opened"
         => phase = "Open" /\ stamp[r] = generation]_vars

(* Once run() has stopped and until the server starts again, no route is   *)
(* left and no call runs, whatever connections were accepted meanwhile.    *)
QuietWhenStopped ==
    lifecycle = "Stopped" /\ run_entered =>
        Registered = {} /\ \A c \in Calls : call[c] # "holding"

(* A call accepted for a serving route before shutdown was requested is    *)
(* served unless its route is unregistered or admission terminated; the    *)
(* shutdown waits for it although it has not looked its route up yet.      *)
AcceptedCallsServed == \A c \in due : call[c] # "refused"

=============================================================================
