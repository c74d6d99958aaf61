------------------------------- MODULE Notify -------------------------------
(***************************************************************************)
(* tokio::sync::Notify, as the drivers of a connection use it.  It is      *)
(* library code: the operators below are its documented wake-up rules and  *)
(* nothing more.                                                           *)
(*                                                                         *)
(* A Notify holds at most one stored permit and a queue of waiting tasks.  *)
(* Each task owns at most one Notified future, which is                    *)
(*   "none"     not created, or dropped after it completed                 *)
(*   "init"     created, never polled                                      *)
(*   "called"   created, never polled, and notify_waiters ran since        *)
(*   "waiting"  polled and queued                                          *)
(*   "one"      completed by notify_one                                    *)
(*   "all"      completed by notify_waiters, or by taking the permit       *)
(***************************************************************************)
EXTENDS Sequences, SequencesExt

NewNotify(tasks) ==
    [permit |-> FALSE, queue |-> <<>>, future |-> [t \in tasks |-> "none"]]

(* notify.notified(): it remembers the notify_waiters calls made so far.   *)
Notified(n, t) == [n EXCEPT !.future[t] = "init"]

(* The first poll, or enable(): a stored permit is taken first, even when  *)
(* an intervening notify_waiters would have completed the future anyway.   *)
Polled(n, t) ==
    IF n.permit
      THEN [n EXCEPT !.permit = FALSE, !.future[t] = "all"]
    ELSE IF n.future[t] = "called"
      THEN [n EXCEPT !.future[t] = "all"]
    ELSE [n EXCEPT !.queue = Append(@, t), !.future[t] = "waiting"]

Completed(n, t) == n.future[t] \in {"one", "all"}

(* Every queued or created future completes; nothing is stored.            *)
NotifyWaiters(n) ==
    [n EXCEPT !.queue = <<>>,
              !.future = [t \in DOMAIN @ |-> CASE @[t] = "waiting" -> "all"
                                               [] @[t] = "init" -> "called"
                                               [] OTHER -> @[t]]]

(* The oldest queued future completes, or one permit is stored.            *)
NotifyOne(n) ==
    IF n.queue = <<>>
      THEN [n EXCEPT !.permit = TRUE]
      ELSE [n EXCEPT !.queue = Tail(@), !.future[Head(n.queue)] = "one"]

(* The await returned, or nothing awaits the future any more.              *)
Finished(n, t) == [n EXCEPT !.future[t] = "none"]

(* Dropping a future notify_one completed, unobserved, passes it on.       *)
Dropped(n, t) ==
    LET gone == [n EXCEPT !.queue = SelectSeq(@, LAMBDA u : u # t),
                          !.future[t] = "none"]
    IN  IF n.future[t] = "one" THEN NotifyOne(gone) ELSE gone
=============================================================================
