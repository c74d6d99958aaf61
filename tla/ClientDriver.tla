---------------------------- MODULE ClientDriver ----------------------------
(***************************************************************************)
(* The tasks that drive one connection of the IPC client: the writer (run, *)
(* process and write_batch of core/transport/c2-ipc/src/connection.rs),    *)
(* the reader (recv_loop of client.rs), the calls that submit frames to    *)
(* the writer and wait for their replies, and the owner that deactivates.  *)
(*                                                                         *)
(* Only the writer awaits `wake`, and every wake ends with notify_one, so  *)
(* the Notify is its stored permit.  A function that other tasks may run   *)
(* between two parts of is cut into these parts: `todo` holds the parts an *)
(* actor has still to run.  ConnectionCore is reduced to what try_close    *)
(* and begin_write read; the loans of requests belong to ConnectionCore.   *)
(***************************************************************************)
EXTENDS Integers, Sequences, FiniteSets, SequencesExt

CONSTANTS
    Calls,      \* calls made on this connection
    Chunked,    \* those whose request takes two frames, sent by a producer
    Loaned,     \* those whose reply is a block of the server's memory
    QueueCap,   \* slots of the submission queue (64 in the code)
    Scenes      \* the environments a behaviour may meet: which calls are made,
                \* what may happen besides them, replies and deactivation

AllEvents == {"eof", "error", "malformed", "violation", "bad_reply", "write_error",
              "write_timeout", "capacity", "policy", "exhausted", "source", "drop"}

ASSUME ClientAssumption ==
    /\ IsFiniteSet(Calls) /\ Chunked \subseteq Calls /\ Loaned \subseteq Calls
    /\ {"reader", "writer", "user", "disconnect", "releases"} \cap Calls = {}
    /\ QueueCap \in Nat \ {0}
    /\ Scenes \subseteq [calls : SUBSET Calls, events : SUBSET AllEvents]

VARIABLES
    wake,               \* ClientConnection::wake holds a permit
    todo,               \* parts of a function an actor has still to run
    deactivated, peer_ended, closed, core_writer,     \* ConnectionCore
    reads, releases,    \* replies being read, and those to be released
    controls            \* holders of a reserved control frame

VARIABLES
    pending,            \* PendingMap
    stopped,            \* ClientConnection::deactivated, the watch
    read_stopped, disconnect,
    queue,              \* submissions waiting for the writer
    started, cancelled, \* SendState
    locked,             \* who holds its mutex
    slot,               \* Submission::request is still there
    receipt, response, upload_stop

VARIABLES
    call, frame, outcome,           \* where a call stands
    orphan,             \* a producer whose caller is gone: "run" or "abort"
    writer, job, reader, user,
    written,            \* frames of a call handed to the stream
    disconnect_sent, answered,
    scene               \* the environment of this behaviour

core == <<deactivated, peer_ended, closed, core_writer, reads, releases, controls>>
conn == <<pending, stopped, read_stopped, disconnect>>
sends == <<started, cancelled, locked, slot, receipt>>
replies == <<response, upload_stop>>
callers == <<call, frame, outcome, orphan>>
drivers == <<writer, job, reader, user>>
stream == <<written, disconnect_sent, answered>>
vars == <<wake, todo, core, conn, queue, sends, replies, callers, drivers, stream,
          scene>>

Actors == Calls \cup {"reader", "writer", "user"}
Frames(c) == IF c \in Chunked THEN 2 ELSE 1

Free(a) == todo[a] = <<>>
Issue(a, parts) == todo' = [todo EXCEPT ![a] = parts]

(* stop_admission drops what core.deactivate returns, takes the calls that *)
(* have not started out of the pending map, and only then sets the watch.  *)
stop_admission == <<"deactivate", "extract", "watch">>

check_writable == ~closed /\ ~peer_ended /\ core_writer # "Broken"
-----------------------------------------------------------------------------
Init ==
    /\ wake = FALSE
    /\ todo = [a \in Actors |-> <<>>]
    /\ deactivated = FALSE /\ peer_ended = FALSE /\ closed = FALSE
    /\ core_writer = "Idle" /\ reads = {} /\ releases = {} /\ controls = {}
    /\ pending = {} /\ stopped = FALSE /\ read_stopped = FALSE
    /\ disconnect = "NotRequested" /\ queue = <<>>
    /\ started = [c \in Calls |-> FALSE]
    /\ cancelled = [c \in Calls |-> FALSE]
    /\ locked = [c \in Calls |-> "free"]
    /\ slot = [c \in Calls |-> FALSE]
    /\ receipt = [c \in Calls |-> "none"]
    /\ response = [c \in Calls |-> "none"]
    /\ upload_stop = [c \in Calls |-> FALSE]
    /\ call = [c \in Calls |-> "new"]
    /\ frame = [c \in Calls |-> 1]
    /\ outcome = [c \in Calls |-> "none"]
    /\ orphan = [c \in Calls |-> "no"]
    /\ writer = "top" /\ job = "releases" /\ reader = "reading" /\ user = "idle"
    /\ written = [c \in Calls |-> 0]
    /\ disconnect_sent = FALSE /\ answered = {}
    /\ scene \in Scenes

(* PendingResponse::complete for every call of cs                          *)
complete(cs, result) ==
    /\ response' = [c \in Calls |-> IF c \in cs THEN result ELSE response[c]]
    /\ upload_stop' = [c \in Calls |-> upload_stop[c] \/ c \in cs]
    /\ pending' = pending \ cs

(* The entries stop_admission takes: it never waits for a SendState.       *)
Wrong_Extracted == pending
Extracted == {c \in pending : locked[c] = "free" /\ ~started[c]}

part_deactivates ==
    /\ deactivated' = TRUE /\ wake' = TRUE
    /\ UNCHANGED <<peer_ended, closed, core_writer, reads, releases, controls,
                   conn, replies>>

part_extracts ==
    /\ complete(Extracted, "closed")
    /\ UNCHANGED <<wake, core, stopped, read_stopped, disconnect>>

part_sets_watch ==
    /\ stopped' = TRUE
    /\ UNCHANGED <<wake, core, pending, read_stopped, disconnect, replies>>

(* core.peer_end: the replies being read stay, the queued releases go.     *)
part_peer_ends ==
    /\ deactivated' = TRUE /\ peer_ended' = TRUE /\ releases' = {}
    /\ wake' = TRUE
    /\ UNCHANGED <<closed, core_writer, reads, controls, conn, replies>>

part_fails_pending ==
    /\ complete(pending, "closed")
    /\ UNCHANGED <<wake, core, stopped, read_stopped, disconnect>>

(* The flag of read_stopped, then abort and wake.                          *)
part_stops_reading ==
    /\ read_stopped' = TRUE /\ wake' = TRUE
    /\ UNCHANGED <<core, pending, stopped, disconnect, replies>>

run_part(a) ==
    /\ ~Free(a)
    /\ CASE Head(todo[a]) = "deactivate" -> part_deactivates
         [] Head(todo[a]) = "extract" -> part_extracts
         [] Head(todo[a]) = "watch" -> part_sets_watch
         [] Head(todo[a]) = "peer_end" -> part_peer_ends
         [] Head(todo[a]) = "fail" -> part_fails_pending
         [] Head(todo[a]) = "stop" -> part_stops_reading
    /\ todo' = [todo EXCEPT ![a] = Tail(@)]
    /\ UNCHANGED <<queue, sends, callers, drivers, stream>>
-----------------------------------------------------------------------------
(* The owner: deactivate                                                   *)

user_goes(from, to) ==
    /\ user = from /\ Free("user") /\ user' = to
    /\ UNCHANGED <<queue, sends, replies, callers, writer, job, reader, stream>>

(* Under the disconnect lock: reserve the frame, then stop admission.      *)
Wrong_deactivate ==
    /\ user_goes("idle", "done")
    /\ controls' = IF check_writable THEN controls \cup {"disconnect"} ELSE controls
    /\ disconnect' = IF check_writable THEN "Pending" ELSE "Finished"
    /\ Issue("user", stop_admission)
    /\ wake' = TRUE
    /\ UNCHANGED <<deactivated, peer_ended, closed, core_writer, reads, releases,
                   pending, stopped, read_stopped>>

deactivate ==
    /\ user_goes("idle", "reserved")
    /\ controls' = IF disconnect = "NotRequested" /\ check_writable
                     THEN controls \cup {"disconnect"} ELSE controls
    /\ Issue("user", stop_admission)
    /\ UNCHANGED <<wake, deactivated, peer_ended, closed, core_writer, reads,
                   releases, conn>>

deactivated_sets_disconnect ==
    /\ user_goes("reserved", "done")
    /\ disconnect' = IF disconnect # "NotRequested" THEN disconnect
                     ELSE IF "disconnect" \in controls THEN "Pending" ELSE "Finished"
    /\ wake' = TRUE
    /\ UNCHANGED <<todo, core, pending, stopped, read_stopped>>
-----------------------------------------------------------------------------
(* The calls: begin_pending, submit, the response, and SendGuard           *)

call_goes(c, from, to) ==
    /\ call[c] = from /\ Free(c)
    /\ call' = [call EXCEPT ![c] = to]
    /\ UNCHANGED <<drivers, stream>>

unlocked(c) == locked[c] = "free"

begin_pending(c) ==
    /\ c \in scene.calls
    /\ call_goes(c, "new", IF deactivated THEN "done" ELSE "begun")
    /\ outcome' = [outcome EXCEPT ![c] = IF deactivated THEN "pre_dispatch" ELSE @]
    /\ pending' = IF deactivated THEN pending ELSE pending \cup {c}
    /\ UNCHANGED <<wake, todo, core, stopped, read_stopped, disconnect, queue,
                   sends, replies, frame, orphan>>

(* No request ID is left: the connection ends.                             *)
begin_pending_exhausted(c) ==
    /\ c \in scene.calls /\ "exhausted" \in scene.events /\ ~deactivated
    /\ call_goes(c, "new", "done")
    /\ outcome' = [outcome EXCEPT ![c] = "pre_dispatch"]
    /\ Issue(c, stop_admission)
    /\ UNCHANGED <<wake, core, conn, queue, sends, replies, frame, orphan>>

(* The producer stops at a response; a continuation reserves its frame.    *)
(* submit reads SendState under its lock.                                  *)
submit(c) ==
    LET over    == c \in Chunked /\ upload_stop[c]
        refused == frame[c] > 1 /\ ~check_writable
        goes    == ~over /\ ~refused
    IN  /\ unlocked(c)
        /\ call_goes(c, "begun", IF over THEN "response"
                                 ELSE IF refused THEN "classify" ELSE "looking")
        /\ controls' = IF goes /\ frame[c] > 1 THEN controls \cup {c} ELSE controls
        /\ locked' = [locked EXCEPT ![c] = IF goes THEN "caller" ELSE @]
        /\ UNCHANGED <<wake, todo, deactivated, peer_ended, closed, core_writer,
                       reads, releases, conn, queue, started, cancelled, slot,
                       receipt, replies, frame, outcome, orphan>>

submit_looks(c) ==
    LET refused == stopped /\ ~started[c]
    IN  /\ call_goes(c, "looking", IF refused THEN "classify" ELSE "reserve")
        /\ locked' = [locked EXCEPT ![c] = "free"]
        /\ slot' = [slot EXCEPT ![c] = ~refused]
        /\ receipt' = [receipt EXCEPT ![c] = "none"]
        /\ UNCHANGED <<wake, todo, core, conn, queue, started, cancelled,
                       replies, frame, outcome, orphan>>

slots_taken == Len(queue) + Cardinality({c \in Calls : call[c] = "send"})

(* biased: the watch first, for a call that had not started, then a slot.  *)
submit_reserves(c) ==
    LET refused == (stopped /\ frame[c] = 1) \/ writer = "exited"
    IN  /\ refused \/ slots_taken < QueueCap
        /\ call_goes(c, "reserve", IF refused THEN "fail" ELSE "send")
        /\ UNCHANGED <<wake, todo, core, conn, queue, sends, replies, frame,
                       outcome, orphan>>

(* A frame sent into a queue whose receiver is gone stays there unread.    *)
submit_sends(c) ==
    LET refused == stopped /\ ~started[c]
    IN  /\ unlocked(c)
        /\ call_goes(c, "send", IF refused THEN "fail" ELSE "sent")
        /\ queue' = IF refused THEN queue ELSE Append(queue, c)
        /\ UNCHANGED <<wake, todo, core, conn, sends, replies, frame, outcome, orphan>>

submit_rechecks(c) ==
    /\ unlocked(c)
    /\ call_goes(c, "sent", IF stopped /\ ~started[c] THEN "fail" ELSE "await")
    /\ UNCHANGED <<wake, todo, core, conn, queue, sends, replies, frame, outcome,
                   orphan>>

submit_returns(c) ==
    /\ receipt[c] # "none"
    /\ call_goes(c, "await", IF receipt[c] = "ok" THEN "written" ELSE "fail")
    /\ UNCHANGED <<wake, todo, core, conn, queue, sends, replies, frame, outcome,
                   orphan>>

(* Deactivation reaches a call whose frame is still in the queue.          *)
submit_stops(c) ==
    /\ receipt[c] = "none" /\ stopped /\ unlocked(c) /\ ~started[c]
    /\ call_goes(c, "await", "fail")
    /\ UNCHANGED <<wake, todo, core, conn, queue, sends, replies, frame, outcome,
                   orphan>>

(* QueuedWrite::drop takes the request back unless the send has started.   *)
submit_fails(c) ==
    /\ unlocked(c)
    /\ call_goes(c, "fail", "classify")
    /\ slot' = [slot EXCEPT ![c] = @ /\ started[c]]
    /\ controls' = controls \ {c}
    /\ UNCHANGED <<wake, todo, deactivated, peer_ended, closed, core_writer,
                   reads, releases, conn, queue, started, cancelled, locked,
                   receipt, replies, frame, outcome, orphan>>


dispatch_call_error(c) ==
    IF response[c] = "failure" \/ started[c] THEN "uncertain" ELSE "pre_dispatch"

call_classifies(c) ==
    /\ unlocked(c)
    /\ call_goes(c, "classify", IF orphan[c] = "no" THEN "guard" ELSE "done")
    /\ outcome' = [outcome EXCEPT ![c] = IF orphan[c] = "no"
                                           THEN dispatch_call_error(c) ELSE @]
    /\ UNCHANGED <<wake, todo, core, conn, queue, sends, replies, frame, orphan>>

call_written(c) ==
    LET more == frame[c] < Frames(c)
    IN  /\ call_goes(c, "written", IF more THEN "begun" ELSE "response")
        /\ frame' = [frame EXCEPT ![c] = IF more THEN @ + 1 ELSE @]
        /\ UNCHANGED <<wake, todo, core, conn, queue, sends, replies, outcome, orphan>>

(* chunk_source_failure: a started upload cannot be completed any more.    *)
source_fails(c) ==
    /\ "source" \in scene.events /\ c \in Chunked /\ ~upload_stop[c] /\ unlocked(c)
    /\ call_goes(c, "begun", "classify")
    /\ Issue(c, IF started[c] THEN stop_admission ELSE <<>>)
    /\ UNCHANGED <<wake, core, conn, queue, sends, replies, frame, outcome, orphan>>

receive_response(c) ==
    /\ response[c] # "none" \/ orphan[c] # "no"
    /\ call_goes(c, "response", IF orphan[c] = "no" THEN "guard" ELSE "done")
    /\ outcome' = [outcome EXCEPT ![c] =
         IF orphan[c] # "no" THEN @
         ELSE IF response[c] = "reply" THEN "reply"
         ELSE IF c \in Chunked /\ response[c] = "closed" /\ ~started[c]
           THEN "pre_dispatch" ELSE "uncertain"]
    /\ UNCHANGED <<wake, todo, core, conn, queue, sends, replies, frame, orphan>>

Wrong_drop_guard(c) ==
    /\ cancelled' = [cancelled EXCEPT ![c] = TRUE]
    /\ pending' = pending \ {c}
    /\ UNCHANGED wake

(* SendGuard::drop *)
drop_guard(c) ==
    /\ cancelled' = [cancelled EXCEPT ![c] = TRUE]
    /\ pending' = pending \ {c}
    /\ wake' = TRUE

call_ends(c) ==
    /\ unlocked(c)
    /\ call_goes(c, "guard", "done")
    /\ drop_guard(c)
    /\ UNCHANGED <<todo, core, stopped, read_stopped, disconnect, queue, started,
                   locked, slot, receipt, replies, frame, outcome, orphan>>

(* The caller's future is dropped while it waits.  Without a producer its  *)
(* QueuedWrite goes with it; a producer is aborted if nothing was sent and *)
(* otherwise goes on.                                                      *)
caller_dropped(c) ==
    /\ "drop" \in scene.events /\ unlocked(c) /\ orphan[c] = "no"
    /\ \/ call[c] \in {"reserve", "await", "response"}
       \/ c \in Chunked /\ call[c] \in {"begun", "send", "sent", "written", "fail"}
    /\ call_goes(c, call[c], IF c \in Chunked THEN call[c] ELSE "done")
    /\ drop_guard(c)
    /\ outcome' = [outcome EXCEPT ![c] = "dropped"]
    /\ slot' = [slot EXCEPT ![c] = @ /\ c \in Chunked]
    /\ orphan' = [orphan EXCEPT ![c] = IF c \notin Chunked THEN "no"
                                       ELSE IF started[c] THEN "run" ELSE "abort"]
    /\ UNCHANGED <<todo, core, stopped, read_stopped, disconnect, queue, started,
                   locked, receipt, replies, frame>>

producer_aborted(c) ==
    /\ orphan[c] = "abort" /\ call[c] \in {"reserve", "await", "begun", "written"}
    /\ unlocked(c)
    /\ call_goes(c, call[c], "done")
    /\ slot' = [slot EXCEPT ![c] = FALSE]
    /\ controls' = IF slot[c] THEN controls \ {c} ELSE controls
    /\ UNCHANGED <<wake, todo, deactivated, peer_ended, closed, core_writer,
                   reads, releases, conn, queue, started, cancelled, locked,
                   receipt, replies, frame, outcome, orphan>>

Wrong_drop_remote_loan(c) ==
    /\ c \in reads
    /\ reads' = reads \ {c}
    /\ releases' = IF peer_ended \/ closed THEN releases ELSE releases \cup {c}
    /\ UNCHANGED <<wake, todo, deactivated, peer_ended, closed, core_writer,
                   controls, conn, queue, sends, replies, callers, drivers, stream>>

(* The application is done with a reply in the server's memory.            *)
drop_remote_loan(c) ==
    /\ c \in reads
    /\ reads' = reads \ {c}
    /\ releases' = IF peer_ended \/ closed THEN releases ELSE releases \cup {c}
    /\ wake' = TRUE
    /\ UNCHANGED <<todo, deactivated, peer_ended, closed, core_writer, controls,
                   conn, queue, sends, replies, callers, drivers, stream>>
-----------------------------------------------------------------------------
(* The writer: one pass of run takes the steps below in their order.       *)

writer_goes(from, to) ==
    /\ writer = from /\ Free("writer") /\ writer' = to
    /\ UNCHANGED <<reader, user>>

closable ==
    \/ closed
    \/ deactivated /\ core_writer # "Active" /\ controls = {} /\ reads = {}

(* close_ready: the pending calls first, then ConnectionCore::try_close.   *)
Wrong_writer_checks_pending ==
    /\ writer_goes("top", "seal")
    /\ UNCHANGED <<wake, todo, core, conn, queue, sends, replies, callers, job, stream>>

writer_checks_pending ==
    /\ writer_goes("top", IF pending = {} THEN "seal" ELSE "flag")
    /\ UNCHANGED <<wake, todo, core, conn, queue, sends, replies, callers, job, stream>>

(* The task ends: its queue and an unsent DISCONNECT go with it.           *)
Exit ==
    /\ queue' = <<>>
    /\ receipt' = [c \in Calls |-> IF c \in ToSet(queue) THEN "err" ELSE receipt[c]]
    /\ controls' = controls \ (ToSet(queue) \cup {"disconnect"})
    /\ disconnect' = "Finished"

writer_seals ==
    /\ writer_goes("seal", IF closable THEN "exited" ELSE "flag")
    /\ closed' = closable
    /\ releases' = IF closable THEN {} ELSE releases
    /\ IF closable THEN Exit ELSE UNCHANGED <<queue, receipt, controls, disconnect>>
    /\ UNCHANGED <<wake, todo, deactivated, peer_ended, core_writer, reads, pending,
                   stopped, read_stopped, started, cancelled, locked, slot, replies,
                   callers, job, stream>>

writer_checks_read_stopped ==
    /\ writer_goes("flag", IF read_stopped THEN "exited" ELSE "disconnect")
    /\ IF read_stopped THEN Exit ELSE UNCHANGED <<queue, receipt, controls, disconnect>>
    /\ UNCHANGED <<wake, todo, deactivated, peer_ended, closed, core_writer, reads,
                   releases, pending, stopped, read_stopped, started, cancelled,
                   locked, slot, replies, callers, job, stream>>

(* take_disconnect: no pending call, then the frame under its lock, which  *)
(* deactivate holds until it has stopped admission.                        *)
writer_looks_for_disconnect ==
    /\ writer_goes("disconnect", IF pending = {} THEN "take" ELSE "queue")
    /\ UNCHANGED <<wake, todo, core, conn, queue, sends, replies, callers, job, stream>>

take_disconnect ==
    LET due  == disconnect = "Pending"
        goes == due /\ check_writable
    IN  /\ user # "reserved"
        /\ writer_goes("take", IF goes THEN "io" ELSE IF due THEN "top" ELSE "queue")
        /\ disconnect' = IF due THEN "Finished" ELSE disconnect
        /\ controls' = IF due /\ ~goes THEN controls \ {"disconnect"} ELSE controls
        /\ core_writer' = IF goes THEN "Active" ELSE core_writer
        /\ releases' = IF goes THEN {} ELSE releases
        /\ disconnect_sent' = (disconnect_sent \/ goes)
        /\ job' = IF goes THEN "disconnect" ELSE job
        /\ UNCHANGED <<wake, todo, deactivated, peer_ended, closed, reads, pending,
                       stopped, read_stopped, queue, sends, replies, callers,
                       written, answered>>

writer_takes ==
    /\ queue # <<>>
    /\ writer \in {"queue", "asleep"} /\ (writer = "asleep" => ~wake)
    /\ writer_goes(writer, "process")
    /\ job' = Head(queue) /\ queue' = Tail(queue)
    /\ UNCHANGED <<wake, todo, core, conn, sends, replies, callers, stream>>

waits_receipt(c) == call[c] \in {"sent", "await"}

(* process: without a request or a waiting caller there is nothing to do.  *)
process ==
    LET c     == job
        goes  == slot[c] /\ waits_receipt(c)
        legal == started[c] \/ ~(cancelled[c] \/ deactivated)
    IN  /\ writer_goes("process", IF ~goes THEN "top" ELSE IF legal THEN "begin" ELSE "refuse")
        /\ unlocked(c)
        /\ slot' = [slot EXCEPT ![c] = FALSE]
        /\ locked' = [locked EXCEPT ![c] = IF goes /\ legal THEN "writer" ELSE @]
        /\ controls' = IF goes /\ legal THEN controls ELSE controls \ {c}
        /\ UNCHANGED <<wake, todo, deactivated, peer_ended, closed, core_writer,
                       reads, releases, conn, queue, started, cancelled, receipt,
                       replies, callers, job, stream>>

begins(c) == check_writable /\ (frame[c] = 1 => ~deactivated)

(* begin_dispatch, begin_write, prepare and begin_io under the SendState.  *)
process_begins ==
    LET c == job IN
    /\ writer_goes("begin", IF begins(c) THEN "io" ELSE "refuse")
    /\ locked' = [locked EXCEPT ![c] = "free"]
    /\ started' = [started EXCEPT ![c] = @ \/ begins(c)]
    /\ core_writer' = IF begins(c) THEN "Active" ELSE core_writer
    /\ releases' = IF begins(c) THEN {} ELSE releases
    /\ controls' = IF begins(c) THEN controls ELSE controls \ {c}
    /\ written' = [written EXCEPT ![c] = IF begins(c) THEN frame[c] ELSE @]
    /\ UNCHANGED <<wake, todo, deactivated, peer_ended, closed, reads, conn, queue,
                   cancelled, slot, receipt, replies, callers, job, disconnect_sent,
                   answered>>

(* The call-site policy refuses its first frame; or no memory is left for  *)
(* the releases before the frame, which ends the connection.               *)
process_cannot(e) ==
    LET c == job IN
    /\ e \in scene.events
    /\ writer_goes("begin", "refuse")
    /\ \/ e = "policy" /\ frame[c] = 1
       \/ e = "capacity" /\ begins(c) /\ releases # {}
    /\ Issue("writer", IF e = "capacity" THEN stop_admission ELSE <<>>)
    /\ controls' = controls \ {c}
    /\ UNCHANGED <<wake, deactivated, peer_ended, closed, core_writer, reads,
                   releases, conn, queue, sends, replies, callers, job, stream>>

process_refuses ==
    /\ writer_goes("refuse", "top")
    /\ locked' = [locked EXCEPT ![job] = "free"]
    /\ receipt' = [receipt EXCEPT ![job] = "err"]
    /\ UNCHANGED <<wake, todo, core, conn, queue, started, cancelled, slot, replies,
                   callers, job, stream>>

(* write_batch: every frame and the flush completed; the batch drops its   *)
(* control frame and the submission has its receipt.                       *)
Settled(result) ==
    /\ controls' = controls \ {job}
    /\ receipt' = [c \in Calls |-> IF c = job THEN result ELSE receipt[c]]

write_batch ==
    /\ writer \in {"io", "late"} /\ writer_goes(writer, "top")
    /\ core_writer' = "Idle"
    /\ Settled("ok")
    /\ wake' = TRUE
    /\ UNCHANGED <<todo, deactivated, peer_ended, closed, reads, releases, conn,
                   queue, started, cancelled, locked, slot, replies, callers, job,
                   stream>>

(* report_io gives the caller its error, then stops admission; then the    *)
(* batch breaks the writer.                                                *)
report_io ==
    /\ "write_error" \in scene.events
    /\ writer \in {"io", "late"} /\ writer_goes(writer, "failed")
    /\ receipt' = [c \in Calls |-> IF c = job THEN "err" ELSE receipt[c]]
    /\ Issue("writer", stop_admission)
    /\ UNCHANGED <<wake, core, conn, queue, started, cancelled, locked, slot,
                   replies, callers, job, stream>>

write_failed ==
    /\ writer_goes("failed", "top")
    /\ core_writer' = "Broken"
    /\ controls' = controls \ {job}
    /\ wake' = TRUE
    /\ UNCHANGED <<todo, deactivated, peer_ended, closed, reads, releases, conn,
                   queue, sends, replies, callers, job, stream>>

(* timeout: admission stops, the write goes on.                            *)
timeout ==
    /\ "write_timeout" \in scene.events
    /\ writer_goes("io", "late")
    /\ Issue("writer", stop_admission)
    /\ UNCHANGED <<wake, core, conn, queue, sends, replies, callers, job, stream>>

writer_queue_empty ==
    /\ queue = <<>>
    /\ writer_goes("queue", "releases")
    /\ UNCHANGED <<wake, todo, core, conn, queue, sends, replies, callers, job, stream>>

(* begin_write(Releases); without releases the writer sleeps.              *)
writer_checks_releases ==
    LET some == check_writable /\ releases # {}
    IN  /\ writer_goes("releases", IF some THEN "io" ELSE "asleep")
        /\ core_writer' = IF some THEN "Active" ELSE core_writer
        /\ releases' = IF some THEN {} ELSE releases
        /\ job' = IF some THEN "releases" ELSE job
        /\ UNCHANGED <<wake, todo, deactivated, peer_ended, closed, reads, controls,
                       conn, queue, sends, replies, callers, stream>>

(* No memory for the releases: the batch is dropped, its releases stay.    *)
prepare_fails ==
    /\ "capacity" \in scene.events /\ check_writable /\ releases # {}
    /\ \/ writer = "releases"
       \/ writer = "take" /\ disconnect = "Pending" /\ user # "reserved"
    /\ writer_goes(writer, "top")
    /\ disconnect' = IF writer = "take" THEN "Finished" ELSE disconnect
    /\ controls' = IF writer = "take" THEN controls \ {"disconnect"} ELSE controls
    /\ Issue("writer", stop_admission)
    /\ UNCHANGED <<wake, deactivated, peer_ended, closed, core_writer, reads,
                   releases, pending, stopped, read_stopped, queue, sends, replies,
                   callers, job, stream>>

writer_wakes ==
    /\ wake
    /\ writer_goes("asleep", "top")
    /\ wake' = FALSE
    /\ UNCHANGED <<todo, core, conn, queue, sends, replies, callers, job, stream>>
-----------------------------------------------------------------------------
(* The reader: recv_loop                                                   *)

reader_goes(from, to) ==
    /\ reader = from /\ Free("reader") /\ reader' = to
    /\ UNCHANGED <<queue, sends, callers, writer, job, user>>

(* The stream can be read until the local end aborts it.                   *)
aborted == closed \/ read_stopped

answerable(c) == written[c] > 0 /\ c \notin answered

(* A reply completes its call; nobody waiting, its block is released.      *)
recv_response(c) ==
    LET lends == c \in Loaned /\ ~closed
    IN  /\ answerable(c)
        /\ reader_goes("reading", "reading")
        /\ answered' = answered \cup {c}
        /\ complete({c} \cap pending, "reply")
        /\ reads' = IF lends /\ c \in pending THEN reads \cup {c} ELSE reads
        /\ releases' = IF lends /\ c \notin pending THEN releases \cup {c} ELSE releases
        /\ wake' = TRUE
        /\ UNCHANGED <<todo, deactivated, peer_ended, closed, core_writer, controls,
                       stopped, read_stopped, disconnect, written, disconnect_sent>>

(* A reply that cannot be decoded fails its own call only.                 *)
response_failed(c) ==
    /\ "bad_reply" \in scene.events /\ answerable(c)
    /\ reader_goes("reading", "reading")
    /\ answered' = answered \cup {c}
    /\ complete({c} \cap pending, "failure")
    /\ wake' = TRUE
    /\ UNCHANGED <<todo, core, stopped, read_stopped, disconnect, written,
                   disconnect_sent>>

(* disconnect_ack, or a release or signal that breaks the protocol: the    *)
(* calls already sent keep their replies.                                  *)
reader_ends ==
    /\ disconnect_sent \/ "violation" \in scene.events
    /\ ~stopped
    /\ reader_goes("reading", "reading")
    /\ Issue("reader", stop_admission)
    /\ UNCHANGED <<wake, core, conn, replies, stream>>

framing_failed ==
    /\ "malformed" \in scene.events
    /\ reader_goes("reading", "discarding")
    /\ Issue("reader", stop_admission \o <<"fail">>)
    /\ UNCHANGED <<wake, core, conn, replies, stream>>

read_stop(peer) == (IF peer THEN <<"peer_end">> ELSE <<>>) \o <<"fail", "stop">>

reader_stops(e) ==
    /\ e \in scene.events \cap {"eof", "error"} \/ (e = "error" /\ aborted)
    /\ reader \in {"reading", "discarding"} /\ reader_goes(reader, "exited")
    /\ Issue("reader", (IF reader = "discarding" /\ e = "eof" THEN <<>> ELSE stop_admission)
                       \o read_stop(e = "eof"))
    /\ UNCHANGED <<wake, core, conn, replies, stream>>
-----------------------------------------------------------------------------
CallStep(c) ==
    \/ submit(c) \/ submit_reserves(c) \/ submit_sends(c)
    \/ submit_rechecks(c) \/ submit_returns(c) \/ submit_stops(c) \/ submit_fails(c)
    \/ call_classifies(c) \/ call_written(c) \/ receive_response(c) \/ call_ends(c)
    \/ producer_aborted(c)

WriterStep ==
    \/ writer_checks_pending \/ writer_seals \/ writer_checks_read_stopped
    \/ writer_looks_for_disconnect \/ take_disconnect \/ writer_takes
    \/ process \/ process_begins \/ process_refuses \/ write_batch \/ write_failed
    \/ writer_queue_empty \/ writer_checks_releases \/ writer_wakes

WriterEvent ==
    \/ report_io \/ timeout \/ prepare_fails
    \/ \E e \in {"policy", "capacity"} : process_cannot(e)

ReaderStep ==
    \/ \E c \in Calls : recv_response(c) \/ response_failed(c)
    \/ reader_ends \/ framing_failed
    \/ \E e \in {"eof", "error"} : reader_stops(e)

Step ==
    \/ \E a \in Actors : run_part(a)
    \/ deactivate \/ deactivated_sets_disconnect
    \/ \E c \in Calls :
         \/ begin_pending(c) \/ begin_pending_exhausted(c) \/ source_fails(c)
         \/ submit_looks(c) \/ CallStep(c) \/ caller_dropped(c) \/ drop_remote_loan(c)
    \/ WriterStep \/ WriterEvent \/ ReaderStep

Next == Step /\ UNCHANGED scene

Spec == Init /\ [][Next]_vars

(* Every task is run again when it can go on; a reply is read to its end;  *)
(* the server answers a call it has completely, or its stream ends; an     *)
(* aborted stream fails.                                                   *)
AnswersDue == \E c \in Calls : written[c] = Frames(c)
                               /\ (recv_response(c) \/ response_failed(c))

Keeps(A) == A /\ UNCHANGED scene

DriverFairness ==
    /\ \A a \in Actors : WF_vars(Keeps(run_part(a)))
    /\ WF_vars(Keeps(deactivated_sets_disconnect))
    /\ WF_vars(Keeps(WriterStep))
    /\ WF_vars(Keeps(AnswersDue \/ (aborted /\ reader_stops("error"))))
    /\ \A c \in Calls : /\ WF_vars(Keeps(submit_looks(c)))
                         /\ WF_vars(Keeps(drop_remote_loan(c)))
                         /\ WF_vars(Keeps(CallStep(c)))

FairSpec == Spec /\ DriverFairness
-----------------------------------------------------------------------------

(* DISCONNECT stops the server's admission.  No call's first frame starts  *)
(* behind it, though calls, deactivation and the writer race for the order *)
(* of the two (deactivate, take_disconnect).                               *)
NothingStartsBehindDisconnect ==
    [][\A c \in Calls : disconnect_sent => (started'[c] => started[c])]_vars

(* stop_admission spares the calls whose frame is with the writer: a call  *)
(* that was sent is told Closed only when the read side ended.             *)
SentCallsKeepTheirReply ==
    \A c \in Calls : started[c] /\ response[c] = "closed"
                      => reader \in {"discarding", "exited"}

(* close_ready is not premature: it reads the pending map before it seals  *)
(* the connection, and yet no call that was sent is still waiting then.    *)
SealedWithoutWaiters == closed => \A c \in pending : ~started[c]


(* Deactivating closes the connection once the calls have been answered    *)
(* and their replies read, without a further call or a peer that ends.     *)
DeactivateCloses == (user = "reserved") ~> (writer = "exited")

(* A block of the server's memory that the application has let go is given *)
(* back (its RELEASE is written), unless the connection ends first.        *)
ReleasesSubmitted ==
    \A c \in Calls : (c \in releases)
        ~> (c \notin releases \/ core_writer = "Broken" \/ writer = "exited")

(* take_disconnect: DISCONNECT is written only after every dispatched      *)
(* request, continuation frames included, has been answered.               *)
DisconnectAfterReplies ==
    [][(~disconnect_sent /\ disconnect_sent')
        => \A c \in Calls : written[c] > 0 => c \in answered]_vars
=============================================================================
