---------------------------- MODULE ServerDriver ----------------------------
(***************************************************************************)
(* The tasks that drive one accepted connection of the server: the reader  *)
(* (handle_connection, core/transport/c2-server/src/server.rs), the one    *)
(* writer (writer.rs) and the tasks of the calls in flight, with the       *)
(* counters of connection.rs that decide when the stream may close.        *)
(*                                                                         *)
(* The three kinds of task share ONE Notify, writer_wake.  Here a task     *)
(* that wakes the others does so call by call (`todo`), because            *)
(* notify_waiters and notify_one are two operations, and a task that waits *)
(* creates its future, checks its condition and polls in the order of the  *)
(* code, because a wake-up between two of them may go to another task.     *)
(*                                                                         *)
(* ConnectionCore is reduced to what its try_close and begin_write read:   *)
(* the loans this end has published are outside this module, so the book   *)
(* of owners is empty and B = L = 0 means that no remote read is active.   *)
(***************************************************************************)
EXTENDS Integers, Sequences, FiniteSets, Notify

CONSTANTS
    Reads,      \* remote reads
    Calls,      \* calls the peer may send
    Scenes      \* the environments a behaviour may meet: the reads admitted
                \* when it starts, the calls, and what may befall the stream

(* DISCONNECT, an invalid frame, the end of the peer, a read error, a      *)
(* write error, a write deadline, a route that never admits its calls      *)
AllEvents == {"disconnect", "bad", "eof", "error", "write_error", "write_timeout",
              "stuck"}

ASSUME DriverAssumption ==
    /\ IsFiniteSet(Reads) /\ IsFiniteSet(Calls) /\ Reads \cap Calls = {}
    /\ {"reader", "writer", "server"} \cap (Reads \cup Calls) = {}
    /\ Scenes \subseteq [reads : SUBSET Reads, calls : SUBSET Calls,
                        events : SUBSET AllEvents]

VARIABLES
    notify,             \* Connection::writer_wake
    todo,               \* wake-ups a task has still to issue
    deactivated, peer_ended, closed, releases, core_writer,    \* ConnectionCore
    read_stopped, shutdown_requested, work_cancelled,          \* Connection
    pending_writes      \* calls whose Submission, hence WriteGuard, is alive

VARIABLES
    reader, writer, call, read,     \* where each task stands
    job,                \* what the writer writes: a call's reply, or "releases"
    queue_closed,       \* the writer saw that no sender is left
    input,              \* what the stream delivers next
    sent,               \* inputs delivered so far
    stream_ended,       \* reader.peer_ended()
    read_failed,
    shutdown,           \* how far request_shutdown_signal has come
    scene               \* the environment of this behaviour

core == <<deactivated, peer_ended, closed, releases, core_writer>>
conn == <<read_stopped, shutdown_requested, work_cancelled, pending_writes>>
stream == <<input, sent, stream_ended, read_failed, shutdown>>
tasks == <<reader, writer, call, read, job, queue_closed>>
vars == <<notify, todo, core, conn, tasks, stream, scene>>

Tasks == Calls \cup {"reader", "writer"}
Actors == Tasks \cup Reads \cup {"server"}

Wake == <<"waiters", "one">>

remote_reads == {r \in Reads : read[r] = "reading"}
inflight ==
    {c \in Calls : call[c] \notin {"new", "idle", "quiet", "notice", "noticing", "done"}}
is_idle == inflight = {} /\ pending_writes = {}

Free(a) == todo[a] = <<>>
Issue(a, wakes) == todo' = [todo EXCEPT ![a] = wakes]
-----------------------------------------------------------------------------
Init ==
    /\ notify = NewNotify(Tasks)
    /\ todo = [a \in Actors |-> <<>>]
    /\ deactivated = FALSE /\ peer_ended = FALSE /\ closed = FALSE
    /\ releases = {} /\ core_writer = "Idle"
    /\ read_stopped = FALSE /\ shutdown_requested = FALSE
    /\ work_cancelled = FALSE /\ pending_writes = {}
    /\ reader = "enter" /\ writer = "loop"
    /\ scene \in Scenes
    /\ call = [c \in Calls |-> IF c \in scene.calls THEN "new" ELSE "done"]
    /\ read = [r \in Reads |-> IF r \in scene.reads THEN "reading" ELSE "done"]
    /\ job = "releases" /\ queue_closed = FALSE
    /\ input = "none" /\ sent = {}
    /\ stream_ended = FALSE /\ read_failed = FALSE /\ shutdown = "none"

(* A task that called wake, stop_reading or notify_idle issues its next    *)
(* wake-up.                                                                *)
issue_wake(a) ==
    /\ todo[a] # <<>>
    /\ notify' = IF Head(todo[a]) = "waiters" THEN NotifyWaiters(notify)
                                              ELSE NotifyOne(notify)
    /\ todo' = [todo EXCEPT ![a] = Tail(@)]
    /\ UNCHANGED <<core, conn, tasks, stream>>

(* Connection::try_close reads the counters first (may_close), then asks   *)
(* ConnectionCore::try_close: closable is its answer, seal its effect.     *)
pending_controls ==
    pending_writes \ (IF writer \in {"reply", "guard"} THEN {job} ELSE {})

may_close == is_idle \/ read_stopped \/ peer_ended

closable ==
    \/ closed
    \/ /\ deactivated
       /\ core_writer \in {"Idle", "Broken"}
       /\ pending_controls = {}
       /\ remote_reads = {}

seal == /\ closed' = closable
        /\ releases' = IF closable THEN {} ELSE releases
        /\ UNCHANGED <<deactivated, peer_ended, core_writer>>

(* RemoteLoan::drop *)
drop_remote_loan(r) ==
    /\ read[r] = "reading" /\ Free(r)
    /\ read' = [read EXCEPT ![r] = "done"]
    /\ releases' = IF peer_ended \/ closed THEN releases ELSE releases \cup {r}
    /\ Issue(r, Wake)
    /\ UNCHANGED <<notify, deactivated, peer_ended, closed, core_writer, conn,
                   reader, writer, call, job, queue_closed,
                   stream>>
-----------------------------------------------------------------------------
(* The server and the peer                                                 *)

(* request_shutdown_signal: begin_shutdown for a registered connection,    *)
(* then the watch; a connection it did not find learns from the watch.     *)
request_shutdown ==
    /\ shutdown \in {"none", "begun"} /\ Free("server")
    /\ shutdown' = "sent"
    /\ UNCHANGED <<notify, todo, core, conn, tasks, input, sent, stream_ended,
                   read_failed>>

begin_shutdown ==
    \/ /\ shutdown = "none" /\ shutdown' = "flagged"
       /\ shutdown_requested' = TRUE
       /\ UNCHANGED <<todo, core>>
    \/ /\ shutdown = "flagged"
       /\ shutdown' = IF is_idle THEN "quiet" ELSE "begun"
       /\ UNCHANGED <<todo, core, shutdown_requested>>
    \/ /\ shutdown = "quiet" /\ shutdown' = "begun"
       /\ deactivated' = TRUE
       /\ Issue("server", Wake)
       /\ UNCHANGED <<peer_ended, closed, releases, core_writer,
                      shutdown_requested>>

server_begins_shutdown ==
    /\ begin_shutdown
    /\ UNCHANGED <<notify, read_stopped, work_cancelled, pending_writes, tasks,
                   input, sent, stream_ended, read_failed>>

deliver(k) ==
    /\ input = "none" /\ ~stream_ended /\ ~read_failed
    /\ \/ k \in (scene.events \cap {"disconnect", "bad", "eof", "error"}) \ sent
       \/ k = "call" /\ \E c \in Calls : call[c] = "new"
    /\ input' = k
    /\ sent' = sent \cup {k}
    /\ UNCHANGED <<notify, todo, core, conn, tasks, stream_ended, read_failed,
                   shutdown>>
-----------------------------------------------------------------------------
(* The calls: wait_work_cancelled, the reply, and the FlightGuard          *)

call_goes(c, from, to) ==
    /\ call[c] = from /\ Free(c)
    /\ call' = [call EXCEPT ![c] = to]
    /\ UNCHANGED <<reader, writer, read, job, queue_closed, stream>>

call_enables(c) ==
    /\ call_goes(c, "queued", "check")
    /\ notify' = Polled(Notified(notify, c), c)
    /\ UNCHANGED <<todo, core, conn>>

Wrong_call_checks(c) ==
    /\ call_goes(c, "check", "parked")
    /\ UNCHANGED <<notify, todo, core, conn>>

call_checks(c) ==
    /\ call_goes(c, "check", IF work_cancelled THEN "replied" ELSE "parked")
    /\ notify' = IF work_cancelled THEN Dropped(notify, c) ELSE notify
    /\ UNCHANGED <<todo, core, conn>>

call_rechecks(c) ==
    /\ Completed(notify, c)
    /\ call_goes(c, "parked", "queued")
    /\ notify' = Finished(notify, c)
    /\ UNCHANGED <<todo, core, conn>>

(* The route admits the call: select! drops its wait_work_cancelled.       *)
call_admitted(c) ==
    /\ call_goes(c, "parked", "running")
    /\ notify' = Dropped(notify, c)
    /\ UNCHANGED <<todo, core, conn>>

(* ConnectionWriter::submit: refused once the core or the queue is closed. *)
call_submits(c) ==
    LET refused == closed \/ peer_ended \/ core_writer = "Broken"
                   \/ writer = "exited"
    IN  /\ call_goes(c, "running", IF refused THEN "replied" ELSE "submitted")
        /\ pending_writes' = IF refused THEN pending_writes
                                        ELSE pending_writes \cup {c}
        /\ UNCHANGED <<notify, todo, core, read_stopped, shutdown_requested,
                       work_cancelled>>

(* The writer task ended with this submission still queued: its guard goes *)
(* and the caller's receipt fails.                                         *)
submission_dropped(c) ==
    /\ writer = "exited"
    /\ call_goes(c, "submitted", "replied") \/ call_goes(c, "notice", "done")
    /\ pending_writes' = pending_writes \ {c}
    /\ Issue(c, Wake)
    /\ UNCHANGED <<notify, core, read_stopped, shutdown_requested, work_cancelled>>

(* FlightGuard::drop: flight_dec, then notify_idle if this was the last.   *)
flight_dec(c) ==
    /\ call_goes(c, "replied", IF inflight = {c} THEN "idle" ELSE "done")
    /\ UNCHANGED <<notify, todo, core, conn>>

(* notify_idle: it reads both counters anew; if they are zero it goes on,  *)
(* and a shutdown requested by then deactivates before it wakes.           *)
notify_idle(a) ==
    /\ deactivated' = (deactivated \/ shutdown_requested)
    /\ Issue(a, (IF shutdown_requested THEN Wake ELSE <<>>) \o <<"one">>)
    /\ UNCHANGED <<notify, peer_ended, closed, releases, core_writer, conn>>

call_idle(c) ==
    \/ /\ call_goes(c, "idle", IF is_idle THEN "quiet" ELSE "done")
       /\ UNCHANGED <<notify, todo, core, conn>>
    \/ call_goes(c, "quiet", "done") /\ notify_idle(c)
-----------------------------------------------------------------------------
(* The writer: one pass of its loop takes the steps below in their order.  *)

writer_goes(from, to) ==
    /\ writer = from /\ Free("writer")
    /\ writer' = to
    /\ UNCHANGED <<reader, read, stream>>

queued == {c \in Calls : call[c] \in {"submitted", "notice"}}

(* Every ConnectionWriter, hence every queue sender, is gone.              *)
senders_gone == reader \in {"join", "closed"} /\ inflight = {}

writer_starts_pass ==
    /\ writer_goes("loop", IF read_stopped THEN "exited" ELSE "queue")
    /\ UNCHANGED <<notify, todo, core, conn, call, job, queue_closed>>

writer_takes(c) ==
    /\ c \in queued
    /\ ~Completed(notify, "writer")
    /\ writer \in {"queue", "asleep"} /\ writer_goes(writer, "begin")
    /\ job' = c
    /\ call' = [call EXCEPT ![c] = IF @ = "notice" THEN "noticing" ELSE "writing"]
    /\ notify' = Dropped(notify, "writer")
    /\ UNCHANGED <<todo, core, conn, queue_closed>>

writer_queue_empty ==
    /\ queued = {}
    /\ writer_goes("queue", "releases")
    /\ queue_closed' = senders_gone
    /\ UNCHANGED <<notify, todo, core, conn, call, job>>

(* begin_write for a queued frame: the queued releases go with it.         *)
writer_begins ==
    LET refused == closed \/ peer_ended \/ core_writer = "Broken"
    IN  /\ writer_goes("begin", IF refused THEN "reply" ELSE "io")
        /\ core_writer' = IF refused THEN core_writer ELSE "Active"
        /\ releases' = IF refused THEN releases ELSE {}
        /\ Issue("writer", IF refused THEN Wake ELSE <<>>)
        /\ UNCHANGED <<notify, deactivated, peer_ended, closed, conn, call, job, queue_closed>>

(* begin_write(Releases): nothing to do when there are none or the peer    *)
(* has ended; a broken writer ends the task.                               *)
writer_checks_releases ==
    LET stopped == closed \/ peer_ended
        broken  == ~stopped /\ core_writer = "Broken"
        some    == ~stopped /\ ~broken /\ releases # {}
    IN  /\ writer_goes("releases", IF broken THEN "exited"
                                   ELSE IF some THEN "io" ELSE "close")
        /\ core_writer' = IF some THEN "Active" ELSE core_writer
        /\ releases' = IF some THEN {} ELSE releases
        /\ deactivated' = (deactivated \/ broken)
        /\ job' = IF some THEN "releases" ELSE job
        /\ Issue("writer", IF broken THEN Wake ELSE <<>>)
        /\ UNCHANGED <<notify, peer_ended, closed, conn, call, queue_closed>>

(* drive_write: frame_completed, flush_completed, then the batch drops its *)
(* control frame.  Each of them wakes.                                     *)
writer_writes ==
    \/ /\ writer_goes("io", "flush")
       /\ Issue("writer", Wake)
       /\ UNCHANGED <<notify, core, conn, call, job, queue_closed>>
    \/ /\ writer_goes("flush", IF job = "releases" THEN "loop" ELSE "control")
       /\ core_writer' = "Idle"
       /\ Issue("writer", Wake)
       /\ UNCHANGED <<notify, deactivated, peer_ended, closed, releases, conn,
                      call, job, queue_closed>>
    \/ /\ writer_goes("control", "reply")
       /\ Issue("writer", Wake)
       /\ UNCHANGED <<notify, core, conn, call, job, queue_closed>>

(* end_io and write_failed.  A failed release batch ends the task.         *)
writer_fails ==
    /\ "write_error" \in scene.events
    /\ writer \in {"io", "flush"}
    /\ writer_goes(writer, IF job = "releases" THEN "exited" ELSE "reply")
    /\ core_writer' = "Broken"
    /\ deactivated' = TRUE
    /\ Issue("writer", Wake)
    /\ UNCHANGED <<notify, peer_ended, closed, releases, conn, call, job, queue_closed>>

writer_replies ==
    /\ writer_goes("reply", "guard")
    /\ call' = [call EXCEPT ![job] = CASE @ = "writing" -> "replied"
                                            [] @ = "noticing" -> "done"
                                            [] OTHER -> @]
    /\ UNCHANGED <<notify, todo, core, conn, job, queue_closed>>

(* report_timeout: the caller has its error while the write goes on.       *)
writer_times_out ==
    /\ "write_timeout" \in scene.events
    /\ writer \in {"io", "flush"} /\ writer_goes(writer, writer)
    /\ IF job = "releases"
         THEN ~deactivated /\ UNCHANGED call
         ELSE call[job] = "writing" /\ call' = [call EXCEPT ![job] = "replied"]
    /\ deactivated' = TRUE
    /\ Issue("writer", Wake)
    /\ UNCHANGED <<notify, peer_ended, closed, releases, core_writer, conn, job,
                   queue_closed>>

(* WriteGuard::drop *)
writer_drops_guard ==
    /\ writer_goes("guard", IF pending_writes = {job} THEN "idle" ELSE "loop")
    /\ pending_writes' = pending_writes \ {job}
    /\ UNCHANGED <<notify, todo, core, read_stopped, shutdown_requested,
                   work_cancelled, call, job, queue_closed>>

writer_idle ==
    /\ \/ /\ writer_goes("idle", IF is_idle THEN "quiet" ELSE "loop")
          /\ UNCHANGED <<notify, todo, core, conn>>
       \/ writer_goes("quiet", "loop") /\ notify_idle("writer")
    /\ UNCHANGED <<call, job, queue_closed>>

writer_tries_close ==
    \/ /\ writer_goes("close", IF may_close THEN "seal" ELSE "select")
       /\ UNCHANGED <<notify, todo, core, conn, call, job, queue_closed>>
    \/ /\ writer_goes("seal", IF closable THEN "exited" ELSE "select")
       /\ seal
       /\ UNCHANGED <<notify, todo, conn, call, job, queue_closed>>

(* select!: the future is created and polled only now.                     *)
writer_selects ==
    \/ /\ writer_goes("select", "poll")
       /\ notify' = Notified(notify, "writer")
       /\ UNCHANGED <<todo, core, conn, call, job, queue_closed>>
    \/ /\ writer_goes("poll", "asleep")
       /\ notify' = Polled(notify, "writer")
       /\ UNCHANGED <<todo, core, conn, call, job, queue_closed>>

writer_wakes ==
    /\ Completed(notify, "writer") \/ (senders_gone /\ ~queue_closed)
    /\ writer_goes("asleep", "loop")
    /\ notify' = IF Completed(notify, "writer") THEN Finished(notify, "writer")
                                                ELSE Dropped(notify, "writer")
    /\ queue_closed' = (queue_closed \/ ~Completed(notify, "writer"))
    /\ UNCHANGED <<todo, core, conn, call, job>>
-----------------------------------------------------------------------------
(* The reader: read_connection_exact, then the tail of handle_connection   *)

reader_goes(from, to) ==
    /\ reader = from /\ Free("reader")
    /\ reader' = to
    /\ UNCHANGED <<writer, read, job, queue_closed>>

reader_enters ==
    /\ reader_goes("enter", "check")
    /\ notify' = Notified(notify, "reader")
    /\ UNCHANGED <<todo, core, conn, call, stream>>

reader_tries_close ==
    \/ /\ \/ reader_goes("check", IF may_close THEN "seal" ELSE "poll")
          \/ reader_goes("settle_check", IF may_close THEN "settle_seal"
                                                      ELSE "await_poll")
          \/ reader_goes("discard", IF read_stopped THEN "join"
                                    ELSE IF may_close THEN "discard_seal"
                                    ELSE "discard_create")
       /\ UNCHANGED <<notify, todo, core, conn, call, stream>>
    \/ /\ \/ reader_goes("seal", IF closable THEN "cancel" ELSE "poll")
          \/ reader_goes("settle_seal", IF closable THEN "discard" ELSE "await_poll")
          \/ reader_goes("discard_seal", IF closable THEN "join"
                                                     ELSE "discard_create")
       /\ notify' = IF closable THEN Dropped(notify, "reader") ELSE notify
       /\ seal
       /\ UNCHANGED <<todo, conn, call, stream>>

reader_polls ==
    /\ \/ reader_goes("poll", "reading")
       \/ reader_goes("await_poll", "await")
       \/ reader_goes("discard_poll", "discarding")
    /\ notify' = Polled(notify, "reader")
    /\ UNCHANGED <<todo, core, conn, call, stream>>

(* select! takes another branch: the future is dropped.                    *)
leave_select == Dropped(notify, "reader")

reader_wakes ==
    /\ Completed(notify, "reader")
    /\ \/ reader_goes("reading", "enter")
       \/ reader_goes("await", "settle")
       \/ reader_goes("discarding", "discard")
    /\ notify' = Finished(notify, "reader")
    /\ UNCHANGED <<todo, core, conn, call, stream>>

(* The select of the read learns of the shutdown: begin_shutdown.          *)
reader_begins_shutdown ==
    \/ /\ shutdown = "sent" /\ ~shutdown_requested
       /\ reader_goes("reading", "flagged")
       /\ shutdown_requested' = TRUE
       /\ notify' = leave_select
       /\ UNCHANGED <<todo, core, read_stopped, work_cancelled, pending_writes,
                      call, stream>>
    \/ /\ reader_goes("flagged", IF is_idle THEN "deactivate" ELSE "enter")
       /\ UNCHANGED <<notify, todo, core, conn, call, stream>>
    \/ /\ reader_goes("deactivate", "enter")
       /\ deactivated' = TRUE
       /\ Issue("reader", Wake)
       /\ UNCHANGED <<notify, peer_ended, closed, releases, core_writer, conn,
                      call, stream>>

(* The read completes: a call takes its FlightGuard, DISCONNECT stops      *)
(* admission, anything else leaves the loop with admission stopped.        *)
reader_takes_input ==
    /\ input # "none"
    /\ reader_goes("reading", CASE input = "call" -> "admit"
                                [] input = "disconnect" -> "enter"
                                [] OTHER -> "cancel")
    /\ notify' = leave_select
    /\ input' = "none"
    /\ IF input = "call"
         THEN \E c \in Calls : /\ call[c] = "new"
                               /\ call' = [call EXCEPT ![c] = "arrived"]
         ELSE UNCHANGED call
    /\ deactivated' = (deactivated \/ input # "call")
    /\ Issue("reader", IF input = "call" THEN <<>> ELSE Wake)
    /\ stream_ended' = (input = "eof")
    /\ read_failed' = (input \in {"eof", "error"})
    /\ UNCHANGED <<peer_ended, closed, releases, core_writer, conn, sent, shutdown>>

(* The arrived call starts, or is answered "admission is closed" through   *)
(* the control queue and gives its FlightGuard back.                       *)
reader_admits(c) ==
    LET refused == deactivated \/ shutdown_requested
        mute    == closed \/ peer_ended \/ core_writer = "Broken"
    IN  /\ call[c] = "arrived"
        /\ reader_goes("admit", IF refused /\ inflight = {c} THEN "idle" ELSE "enter")
        /\ call' = [call EXCEPT ![c] = IF ~refused THEN "queued"
                                       ELSE IF mute THEN "done" ELSE "notice"]
        /\ pending_writes' = IF refused /\ ~mute THEN pending_writes \cup {c}
                                                 ELSE pending_writes
        /\ UNCHANGED <<notify, todo, core, read_stopped, shutdown_requested,
                       work_cancelled, stream>>

reader_idle ==
    /\ \/ /\ reader_goes("idle", IF is_idle THEN "quiet" ELSE "enter")
          /\ UNCHANGED <<notify, todo, core, conn>>
       \/ reader_goes("quiet", "enter") /\ notify_idle("reader")
    /\ UNCHANGED <<call, stream>>
-----------------------------------------------------------------------------
(* Core::peer_end and Core::deactivate as the tail calls them              *)

reader_peer_end ==
    /\ peer_ended' = TRUE
    /\ deactivated' = TRUE
    /\ releases' = {}
    /\ Issue("reader", Wake)
    /\ UNCHANGED <<closed, core_writer, conn>>

reader_stops ==
    /\ read_stopped' = TRUE
    /\ Issue("reader", Wake)
    /\ UNCHANGED <<core, shutdown_requested, work_cancelled, pending_writes>>

reader_cancels ==
    /\ reader_goes("cancel", "end")
    /\ work_cancelled' = TRUE
    /\ deactivated' = TRUE
    /\ Issue("reader", Wake)
    /\ UNCHANGED <<notify, peer_ended, closed, releases, core_writer, read_stopped,
                   shutdown_requested, pending_writes, call, stream>>

reader_ends ==
    /\ reader_goes("end", IF stream_ended THEN "settle" ELSE "discard")
    /\ CASE stream_ended -> reader_peer_end
         [] ~stream_ended /\ read_failed -> reader_stops
         [] OTHER -> UNCHANGED <<todo, core, conn>>
    /\ UNCHANGED <<notify, call, stream>>

(* While the peer has ended the future is created before the check; the    *)
(* discard loop creates it after.                                          *)
reader_settles ==
    /\ reader_goes("settle", "settle_check")
    /\ notify' = Notified(notify, "reader")
    /\ UNCHANGED <<todo, core, conn, call, stream>>

reader_discards ==
    /\ reader_goes("discard_create", "discard_poll")
    /\ notify' = Notified(notify, "reader")
    /\ UNCHANGED <<todo, core, conn, call, stream>>

reader_discards_input ==
    /\ input # "none" /\ ~stream_ended
    /\ reader_goes("discarding", "discard")
    /\ notify' = leave_select
    /\ input' = "none"
    /\ stream_ended' = (input = "eof")
    /\ CASE input = "eof" -> reader_peer_end
         [] input = "error" -> reader_stops
         [] OTHER -> UNCHANGED <<todo, core, conn>>
    /\ UNCHANGED <<call, sent, read_failed, shutdown>>

(* The writer task and every call have ended.                              *)
reader_joins ==
    /\ reader_goes("join", "closed")
    /\ writer = "exited" /\ is_idle
    /\ UNCHANGED <<notify, todo, core, conn, call, stream>>
-----------------------------------------------------------------------------
Reader == \/ reader_enters \/ reader_tries_close \/ reader_polls \/ reader_wakes
          \/ reader_begins_shutdown \/ reader_takes_input
          \/ (\E c \in Calls : reader_admits(c)) \/ reader_idle
          \/ reader_cancels \/ reader_ends \/ reader_settles
          \/ reader_discards \/ reader_discards_input \/ reader_joins

Writer == \/ writer_starts_pass \/ (\E c \in Calls : writer_takes(c))
          \/ writer_queue_empty \/ writer_begins \/ writer_checks_releases
          \/ writer_writes \/ writer_fails \/ writer_times_out
          \/ writer_replies \/ writer_drops_guard \/ writer_idle
          \/ writer_tries_close \/ writer_selects \/ writer_wakes

Call(c) == \/ call_enables(c) \/ call_checks(c) \/ call_rechecks(c)
           \/ call_submits(c) \/ submission_dropped(c)
           \/ flight_dec(c) \/ call_idle(c)

Server == request_shutdown \/ server_begins_shutdown

Step == \/ Reader \/ Writer \/ Server
        \/ \E k \in AllEvents \cup {"call"} : deliver(k)
        \/ \E c \in Calls : Call(c) \/ call_admitted(c)
        \/ \E r \in Reads : drop_remote_loan(r)
        \/ \E a \in Actors : issue_wake(a)

Keeps(A) == A /\ UNCHANGED scene

Next == Keeps(Step)

Spec == Init /\ [][Next]_vars

(* Every task is scheduled, a write and a remote read end, and a route     *)
(* admits the calls that wait for it unless it is stuck.  The peer owes    *)
(* nothing.                                                                *)
TaskFairness ==
    /\ WF_vars(Keeps(Reader)) /\ WF_vars(Keeps(Writer))
    /\ \A c \in Calls :
         /\ WF_vars(Keeps(Call(c)))
         /\ SF_vars(Keeps("stuck" \notin scene.events /\ call_admitted(c)))
    /\ \A r \in Reads : WF_vars(Keeps(drop_remote_loan(r)))
    /\ \A a \in Actors : WF_vars(Keeps(issue_wake(a)))
    /\ WF_vars(Keeps(shutdown # "none" /\ Server))

FairSpec == Spec /\ TaskFairness
-----------------------------------------------------------------------------
(* "Reserve before any admission await or task submission so a concurrent  *)
(* shutdown cannot miss an already accepted call" (handle_connection): an  *)
(* accepted call finds the stream open and its writer alive, unless the    *)
(* peer, the reading or the writing ended.                                 *)
AcceptedCallKeepsWriter ==
    (\E c \in Calls : call[c] \in {"queued", "check", "parked", "running",
                                   "submitted", "writing"})
    => \/ ~closed /\ writer # "exited"
       \/ stream_ended \/ read_failed \/ core_writer = "Broken"

(* "A completed remote read wakes this task even when no RPC is queued"    *)
(* (writer.rs, run): its release record is taken by the writer, or dropped *)
(* because the connection ended.                                           *)
ReleasesSubmitted == \A r \in Reads : r \in releases ~> r \notin releases

(* handle_connection ends, and with it the writer task and every call:     *)
(*  - after a shutdown, though the peer stays silent: the last accepted     *)
(*    call to finish deactivates the connection (notify_idle), and reader   *)
(*    and writer both notice, unless a route keeps a call parked or a       *)
(*    remote read is open;                                                 *)
(*  - once the read loop saw the end of the peer and the tail of           *)
(*    handle_connection settles the remote reads;                          *)
(*  - after a read error without proof of the peer's end (stop_reading),   *)
(*    which cancels even a call its route never admits.                    *)
ConnectionEnds ==
    (\/ shutdown = "sent" /\ scene.reads = {} /\ "stuck" \notin scene.events
     \/ reader = "settle"
     \/ read_stopped) ~> reader = "closed"
=============================================================================
