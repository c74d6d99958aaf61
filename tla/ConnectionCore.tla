--------------------------- MODULE ConnectionCore ---------------------------
(***************************************************************************)
(* The control state of ONE end of one physical IPC connection             *)
(* (core/protocol/c2-wire/src/connection/mod.rs).                          *)
(*                                                                         *)
(* Every action is one critical section of the connection's mutex, or one  *)
(* step a thread takes between two of them: returning an allocation to its *)
(* pool, dropping a read guard, dropping the fields of a batch.  The       *)
(* variables of the first group are the fields of `State`; those of the    *)
(* second are the move-only tokens callers hold; those of the third are    *)
(* history, read by properties only.                                       *)
(*                                                                         *)
(* The peer and the driver are the environment.  The driver is the unique  *)
(* writer of writer.rs / c2-ipc connection.rs: at most one WriteBatch is   *)
(* alive, and its methods are called in the order the drivers call them.   *)
(***************************************************************************)
EXTENDS Integers, Sequences, FiniteSets

CONSTANTS
    MaxLoanId,      \* last id of LOAN_SEQUENCE (u64::MAX)
    RemoteIds,      \* ids the peer may lend to this end
    MaxControls,    \* bound: control frames prepared during a behaviour
    BatchCapacity   \* IPC_RELEASE_BATCH_CAPACITY

ASSUME CoreAssumption ==
    /\ MaxLoanId \in Nat
    /\ RemoteIds \subseteq Nat \ {0} /\ IsFiniteSet(RemoteIds)
    /\ MaxControls \in Nat
    /\ BatchCapacity \in Nat \ {0}

VARIABLES
    handshake_done, deactivated, peer_ended, closed,
    prepared,           \* loan ids not yet exposed to the peer
    published,          \* loan ids exposed and not settled
    settling,           \* owners taken out of the book, not yet back in a pool
    remote_reads,
    releases,           \* release records to send, oldest first
    inflight_releases,
    pending_controls,
    writer,
    releases_cap,       \* storage reserved for `releases`
    published_cap       \* storage reserved for `published`

VARIABLES
    sequence,           \* LOAN_SEQUENCE
    tokens,             \* PreparedLoan values held outside a batch
    controls,           \* ControlFrame values held outside a batch
    carriers,           \* life of each RemoteLoan
    batch,              \* the WriteBatch
    reclaims,           \* live Reclaims values, each the set of its owners
    freed,              \* owners returned to their pool
    exposed,            \* Allocation.published
    failing             \* a call has failed and has yet to run deactivate()

VARIABLES
    confirmed,          \* ids named by a release record the peer sent
    finished,           \* remote ids in the order their reads ended
    submitted,          \* remote ids in the order their records reached I/O
    made_controls

state == <<handshake_done, deactivated, peer_ended, closed, prepared, published,
           settling, remote_reads, releases, inflight_releases, pending_controls,
           writer, releases_cap, published_cap>>
owners == <<sequence, tokens, controls, carriers, batch, reclaims, freed, exposed,
            failing>>
history == <<confirmed, finished, submitted, made_controls>>
vars == <<state, owners, history>>

flags == <<handshake_done, deactivated, peer_ended, closed>>
loans == <<prepared, published, settling, published_cap, sequence, tokens,
           reclaims, freed, exposed, confirmed>>
reading == <<remote_reads, releases, inflight_releases, releases_cap, carriers,
             finished, submitted>>
control == <<pending_controls, controls, made_controls>>

LoanIds == 1..MaxLoanId

NoBatch == [stage |-> "none", loans |-> {}, prefix |-> <<>>, frames |-> 0,
            business |-> FALSE, control |-> FALSE]

Batches == [stage : {"none", "reserved", "io", "failed", "ended"},
            loans : SUBSET LoanIds, prefix : Seq(RemoteIds), frames : Nat,
            business : BOOLEAN, control : BOOLEAN]

Init ==
    /\ handshake_done = FALSE /\ deactivated = FALSE
    /\ peer_ended = FALSE /\ closed = FALSE
    /\ prepared = {} /\ published = {} /\ settling = 0
    /\ remote_reads = 0 /\ releases = <<>> /\ inflight_releases = 0
    /\ pending_controls = 0 /\ writer = "Idle"
    /\ releases_cap = 0 /\ published_cap = 0
    /\ sequence = 0 /\ tokens = {} /\ controls = 0
    /\ carriers = [id \in RemoteIds |-> "none"]
    /\ batch = NoBatch
    /\ reclaims = {} /\ freed = {} /\ exposed = {} /\ failing = FALSE
    /\ confirmed = {} /\ finished = <<>> /\ submitted = <<>>
    /\ made_controls = 0

-----------------------------------------------------------------------------
(* The checks made under the lock                                          *)

check_writable == ~closed /\ ~peer_ended /\ writer # "Broken"

check_live == ~closed /\ ~peer_ended /\ ~deactivated

check_business == check_live /\ handshake_done

(* Definitions named Wrong_... are faults a change to this code could       *)
(* introduce; they are not part of the specification.                      *)

(* Owners leaving the book become a Reclaims value; an empty one does      *)
(* nothing when it is dropped.                                             *)
Wrong_TakeOut(group) ==
    /\ settling' = settling + (IF group = {} THEN 0 ELSE 1)
    /\ reclaims' = IF group = {} THEN reclaims ELSE reclaims \cup {group}

TakeOut(group) ==
    /\ settling' = settling + Cardinality(group)
    /\ reclaims' = IF group = {} THEN reclaims ELSE reclaims \cup {group}

Wrong_stop_keeps_book(others) ==
    /\ deactivated' = TRUE
    /\ UNCHANGED prepared
    /\ TakeOut(prepared \cup others)

Wrong_stop_takes_published(others) ==
    /\ deactivated' = TRUE
    /\ prepared' = {}
    /\ TakeOut(prepared \cup published \cup others)

Wrong_stop_stays_active(others) ==
    /\ UNCHANGED deactivated
    /\ prepared' = {}
    /\ TakeOut(prepared \cup others)

(* stop_locked, together with `others`, owners the same Reclaims carries.  *)
stop_locked(others) ==
    /\ deactivated' = TRUE
    /\ prepared' = {}
    /\ TakeOut(prepared \cup others)

-----------------------------------------------------------------------------
(* Handshake and deactivation                                              *)

finish_handshake ==
    /\ IF handshake_done
         THEN failing' = TRUE /\ UNCHANGED handshake_done
         ELSE check_live /\ handshake_done' = TRUE /\ UNCHANGED failing
    /\ UNCHANGED <<deactivated, peer_ended, closed, loans, reading, control,
                   writer, batch>>

deactivate ==
    /\ stop_locked({})
    /\ failing' = FALSE
    /\ UNCHANGED <<handshake_done, peer_ended, closed, published, published_cap,
                   sequence, tokens, freed, exposed, confirmed, reading,
                   control, writer, batch>>

peer_end ==
    /\ ~peer_ended
    /\ stop_locked(published)
    /\ peer_ended' = TRUE
    /\ published' = {}
    /\ releases' = <<>>
    /\ UNCHANGED <<handshake_done, closed, published_cap, sequence, tokens,
                   freed, exposed, confirmed, failing, remote_reads,
                   inflight_releases, releases_cap, carriers, finished,
                   submitted, control, writer, batch>>

Wrong_SealIgnoresReads ==
    /\ deactivated
    /\ writer \in {"Idle", "Broken"} /\ pending_controls = 0
    /\ prepared = {} /\ published = {} /\ settling = 0

(* B = L = 0 and nothing of the writer outstanding.                        *)
Sealable ==
    /\ deactivated
    /\ writer \in {"Idle", "Broken"} /\ pending_controls = 0
    /\ remote_reads = 0
    /\ prepared = {} /\ published = {} /\ settling = 0

try_close ==
    /\ Sealable
    /\ closed' = TRUE
    /\ releases' = <<>>
    /\ UNCHANGED <<handshake_done, deactivated, peer_ended, loans, failing,
                   remote_reads, inflight_releases, releases_cap, carriers,
                   finished, submitted, control, writer, batch>>

-----------------------------------------------------------------------------
(* Lending: prepare, cancel                                                *)

Wrong_LoanIdUnchecked == TRUE

LoanIdLeft == sequence < MaxLoanId

(* `published` gets room for every prepared loan, so begin_io never        *)
(* allocates while it moves owners.                                        *)
prepare_loan ==
    /\ check_business
    /\ LoanIdLeft
    /\ sequence' = sequence + 1
    /\ prepared' = prepared \cup {sequence + 1}
    /\ tokens' = tokens \cup {sequence + 1}
    /\ LET need == Cardinality(published) + Cardinality(prepared) + 1
       IN  published_cap' = IF need > published_cap THEN need ELSE published_cap
    /\ UNCHANGED <<flags, published, settling, reclaims, freed, exposed,
                   confirmed, failing, reading, control, writer, batch>>

(* The id space is used up, or storage cannot be reserved: the allocation  *)
(* never enters the book and the connection is deactivated after unlock.   *)
prepare_loan_fails ==
    /\ check_business
    /\ failing' = TRUE
    /\ UNCHANGED <<flags, loans, reading, control, writer, batch>>

(* PreparedLoan::drop, whoever holds the token.                            *)
CancelLoan(id) ==
    /\ prepared' = prepared \ {id}
    /\ TakeOut(prepared \cap {id})
    /\ UNCHANGED <<flags, published, published_cap, sequence, freed, exposed,
                   confirmed, failing, reading, writer>>

drop_prepared_loan(id) ==
    /\ id \in tokens
    /\ tokens' = tokens \ {id}
    /\ CancelLoan(id)
    /\ UNCHANGED <<control, batch>>

(* Reclaims::drop returns the owners one by one, each under its own pool's *)
(* lock, and only then gives up its share of `settling`.                   *)
release_allocation(group, id) ==
    /\ group \in reclaims
    /\ id \in group \ freed
    /\ freed' = freed \cup {id}
    /\ UNCHANGED <<flags, prepared, published, settling, published_cap, sequence,
                   tokens, reclaims, exposed, confirmed, failing, reading,
                   control, writer, batch>>

drop_reclaims(group) ==
    /\ group \in reclaims
    /\ group \subseteq freed
    /\ reclaims' = reclaims \ {group}
    /\ settling' = settling - Cardinality(group)
    /\ UNCHANGED <<flags, prepared, published, published_cap, sequence, tokens,
                   freed, exposed, confirmed, failing, reading, control, writer,
                   batch>>

-----------------------------------------------------------------------------
(* Release records from the peer                                           *)

(* The first n ids of the record can be settled one after the other.       *)
SettlesUpTo(ids, n) ==
    \A i \in 1..n : /\ ids[i] \in published
                    /\ \A j \in 1..(i - 1) : ids[j] # ids[i]

(* `wellformed`: the frame passes decode_release_frame.                    *)
receive_release(ids, wellformed) ==
    /\ ~peer_ended /\ ~closed
    /\ \E n \in 0..Len(ids) :
         /\ IF wellformed /\ handshake_done
              THEN /\ SettlesUpTo(ids, n)
                   /\ n < Len(ids) => ~SettlesUpTo(ids, n + 1)
              ELSE n = 0
         /\ LET settled == {ids[i] : i \in 1..n} IN
              /\ published' = published \ settled
              /\ confirmed' = confirmed \cup settled
              /\ IF n = Len(ids)
                   THEN TakeOut(settled) /\ UNCHANGED <<deactivated, prepared>>
                   ELSE stop_locked(settled)
    /\ UNCHANGED <<handshake_done, peer_ended, closed, published_cap, sequence,
                   tokens, freed, exposed, failing, reading, control, writer,
                   batch>>

-----------------------------------------------------------------------------
(* Borrowing: admit a peer's loan, end the read                            *)

Wrong_ReleaseSlots == Len(releases) + remote_reads + 1

ReleaseSlots == Len(releases) + remote_reads + inflight_releases + 1

(* The reservation covers every live node, queued record and record held   *)
(* by the writer, so that ending a read never allocates.                   *)
admit_remote_loan(id) ==
    /\ ~closed /\ ~peer_ended /\ handshake_done
    /\ carriers[id] = "none"
    /\ carriers' = [carriers EXCEPT ![id] = "held"]
    /\ remote_reads' = remote_reads + 1
    /\ releases_cap' = IF ReleaseSlots > releases_cap THEN ReleaseSlots
                                                      ELSE releases_cap
    /\ UNCHANGED <<flags, loans, failing, releases, inflight_releases, finished,
                   submitted, control, writer, batch>>

(* Before the handshake, with id zero, or when storage cannot be reserved. *)
admit_remote_loan_fails ==
    /\ ~closed /\ ~peer_ended
    /\ failing' = TRUE
    /\ UNCHANGED <<flags, loans, reading, control, writer, batch>>

drop_guard(id) ==
    /\ carriers[id] = "held"
    /\ carriers' = [carriers EXCEPT ![id] = "ending"]
    /\ UNCHANGED <<flags, loans, failing, remote_reads, releases,
                   inflight_releases, releases_cap, finished, submitted, control,
                   writer, batch>>

drop_remote_loan(id) ==
    /\ carriers[id] = "ending"
    /\ carriers' = [carriers EXCEPT ![id] = "done"]
    /\ remote_reads' = remote_reads - 1
    /\ releases' = IF ~peer_ended /\ ~closed THEN Append(releases, id) ELSE releases
    /\ finished' = Append(finished, id)
    /\ UNCHANGED <<flags, loans, failing, inflight_releases, releases_cap,
                   submitted, control, writer, batch>>

-----------------------------------------------------------------------------
(* Control frames                                                          *)

prepare_control_frame ==
    /\ check_writable
    /\ made_controls < MaxControls
    /\ made_controls' = made_controls + 1
    /\ pending_controls' = pending_controls + 1
    /\ controls' = controls + 1
    /\ UNCHANGED <<flags, loans, failing, reading, writer, batch>>

drop_control_frame ==
    /\ controls > 0
    /\ controls' = controls - 1
    /\ pending_controls' = pending_controls - 1
    /\ UNCHANGED <<flags, loans, failing, reading, made_controls, writer, batch>>

-----------------------------------------------------------------------------
(* The unique writer                                                       *)

CeilDiv(n, d) == (n + d - 1) \div d

(* Reserve the writer for every queued release and at most one frame.      *)
Reserve(ls, business, ctl) ==
    /\ batch = NoBatch
    /\ check_writable
    /\ writer = "Idle"
    /\ handshake_done \/ ctl
    /\ business => ~deactivated
    /\ business \/ ctl \/ releases # <<>>
    /\ batch' = [stage |-> "reserved", loans |-> ls, prefix |-> releases,
                 frames |-> CeilDiv(Len(releases), BatchCapacity)
                            + (IF business \/ ctl THEN 1 ELSE 0),
                 business |-> business, control |-> ctl]
    /\ inflight_releases' = inflight_releases + Len(releases)
    /\ releases' = <<>>
    /\ writer' = "Reserved"
    /\ UNCHANGED <<flags, prepared, published, settling, published_cap, sequence,
                   reclaims, freed, exposed, confirmed, failing, remote_reads,
                   releases_cap, carriers, finished, submitted,
                   pending_controls, made_controls>>

begin_write_business(ls) ==
    /\ ls \subseteq tokens
    /\ Reserve(ls, TRUE, FALSE)
    /\ tokens' = tokens \ ls
    /\ UNCHANGED controls

begin_write_control ==
    /\ controls > 0
    /\ Reserve({}, FALSE, TRUE)
    /\ controls' = controls - 1
    /\ UNCHANGED tokens

begin_write_releases ==
    /\ Reserve({}, FALSE, FALSE)
    /\ UNCHANGED <<tokens, controls>>

(* A frame other than a control before the handshake, or no storage for    *)
(* the release frames.  The tokens of the request are dropped.             *)
begin_write_fails ==
    /\ batch = NoBatch
    /\ check_writable
    /\ failing' = TRUE
    /\ UNCHANGED <<flags, loans, reading, control, writer, batch>>

Wrong_PublishAfterStop == TRUE

(* Deactivation since begin_write cancels a business submission.           *)
StillAdmitted == batch.business => ~deactivated

(* The point of publication: from here on the peer may read the blocks.    *)
begin_io ==
    /\ batch.stage = "reserved"
    /\ check_writable
    /\ StillAdmitted
    /\ prepared' = prepared \ batch.loans
    /\ published' = published \cup batch.loans
    /\ exposed' = exposed \cup batch.loans
    /\ submitted' = submitted \o batch.prefix
    /\ batch' = [batch EXCEPT !.stage = "io"]
    /\ writer' = "InFrame"
    /\ UNCHANGED <<flags, settling, published_cap, sequence, tokens, reclaims,
                   freed, confirmed, failing, remote_reads, releases,
                   inflight_releases, releases_cap, carriers, finished, control>>

frame_completed ==
    /\ batch.stage = "io"
    /\ batch.frames > 0
    /\ IF batch.frames = 1
         THEN /\ writer' = IF writer # "Broken" THEN "AwaitingFlush" ELSE writer
              /\ inflight_releases' = inflight_releases - Len(batch.prefix)
              /\ batch' = [batch EXCEPT !.frames = 0, !.prefix = <<>>]
         ELSE /\ batch' = [batch EXCEPT !.frames = @ - 1]
              /\ UNCHANGED <<writer, inflight_releases>>
    /\ UNCHANGED <<flags, loans, failing, remote_reads, releases, releases_cap,
                   carriers, finished, submitted, control>>

Wrong_EndedForgetsControl(b) ==
    IF b.loans = {} THEN NoBatch
                    ELSE [NoBatch EXCEPT !.stage = "ended", !.loans = b.loans]

(* What is left of a consumed batch: fields still to be dropped, or none.  *)
Ended(b) == IF b.loans = {} /\ ~b.control
            THEN NoBatch
            ELSE [NoBatch EXCEPT !.stage = "ended", !.loans = b.loans,
                                 !.control = b.control]

flush_completed ==
    /\ batch.stage = "io"
    /\ batch.frames = 0
    /\ writer = "AwaitingFlush"
    /\ writer' = "Idle"
    /\ batch' = Ended(batch)
    /\ UNCHANGED <<flags, loans, failing, reading, control>>

write_failed ==
    /\ batch.stage = "io"
    /\ writer' = "Broken"
    /\ stop_locked({})
    /\ batch' = [batch EXCEPT !.stage = "failed"]
    /\ UNCHANGED <<handshake_done, peer_ended, closed, published, published_cap,
                   sequence, tokens, freed, exposed, confirmed, failing, reading,
                   control>>

Wrong_RestoreAtBack == releases \o batch.prefix

(* Records that never reached I/O go back to the front of the queue.       *)
RestoredReleases == batch.prefix \o releases

Wrong_KeepReservation == writer

ReleasedWriter == IF writer # "Broken" THEN "Idle" ELSE writer

(* WriteBatch::drop of a batch that was not flushed: its task ended, or    *)
(* begin_io refused it, or the write failed.                               *)
drop_write_batch ==
    /\ batch.stage \in {"reserved", "io", "failed"}
    /\ inflight_releases' = inflight_releases - Len(batch.prefix)
    /\ batch' = Ended(batch)
    /\ IF batch.stage = "reserved"
         THEN /\ writer' = ReleasedWriter
              /\ releases' = IF ~closed /\ ~peer_ended THEN RestoredReleases
                                                      ELSE releases
              /\ UNCHANGED <<deactivated, prepared, settling, reclaims>>
         ELSE /\ writer' = "Broken"
              /\ stop_locked({})
              /\ UNCHANGED releases
    /\ UNCHANGED <<handshake_done, peer_ended, closed, published, published_cap,
                   sequence, tokens, freed, exposed, confirmed, failing,
                   remote_reads, releases_cap, carriers, finished, submitted,
                   control>>

(* The fields of a consumed batch are dropped one by one.                  *)
drop_batch_loan(id) ==
    /\ batch.stage = "ended"
    /\ id \in batch.loans
    /\ batch' = Ended([batch EXCEPT !.loans = @ \ {id}])
    /\ CancelLoan(id)
    /\ UNCHANGED <<tokens, control>>

drop_batch_control ==
    /\ batch.stage \in {"failed", "ended"}
    /\ batch.control
    /\ pending_controls' = pending_controls - 1
    /\ batch' = IF batch.stage = "ended"
                  THEN Ended([batch EXCEPT !.control = FALSE])
                  ELSE [batch EXCEPT !.control = FALSE]
    /\ UNCHANGED <<flags, loans, failing, reading, controls, made_controls,
                   writer>>

-----------------------------------------------------------------------------
Records == UNION {[1..n -> 0..MaxLoanId] : n \in 1..BatchCapacity}

Handshake == finish_handshake \/ deactivate \/ peer_end \/ try_close
Lend == \/ prepare_loan
        \/ prepare_loan_fails
        \/ \E id \in tokens : drop_prepared_loan(id)
        \/ \E ids \in Records, wellformed \in BOOLEAN :
             receive_release(ids, wellformed)
Reclaim == \E group \in reclaims :
             \/ \E id \in group : release_allocation(group, id)
             \/ drop_reclaims(group)
Borrow == \/ admit_remote_loan_fails
          \/ \E id \in RemoteIds : \/ admit_remote_loan(id)
                                   \/ drop_guard(id)
                                   \/ drop_remote_loan(id)
Control == prepare_control_frame \/ drop_control_frame
BeginWrite == \/ \E ls \in SUBSET tokens : begin_write_business(ls)
              \/ begin_write_control
              \/ begin_write_releases
              \/ begin_write_fails
Write == \/ begin_io
         \/ frame_completed
         \/ flush_completed
         \/ write_failed
         \/ drop_write_batch
         \/ \E id \in batch.loans : drop_batch_loan(id)
         \/ drop_batch_control

Next == Handshake \/ Lend \/ Reclaim \/ Borrow \/ Control \/ BeginWrite \/ Write

Spec == Init /\ [][Next]_vars

(* Fairness: tokens are eventually dropped (they are Rust values of tasks  *)
(* that end), a read eventually ends, an I/O attempt eventually completes  *)
(* or fails, reclamation is local, and the driver keeps polling try_close. *)
(* Strong fairness of begin_io: assembling a batch does not run out of     *)
(* memory every time it is tried.                                          *)
EndReads == \E id \in RemoteIds : drop_guard(id) \/ drop_remote_loan(id)
CancelTokens == \E id \in tokens : drop_prepared_loan(id)

Fairness == /\ WF_vars(CancelTokens)
            /\ WF_vars(drop_control_frame)
            /\ WF_vars(Reclaim)
            /\ WF_vars(EndReads)
            /\ WF_vars(Write)
            /\ SF_vars(begin_io)
            /\ WF_vars(try_close)
            /\ WF_vars(failing /\ deactivate)

FairSpec == Spec /\ Fairness

-----------------------------------------------------------------------------
(* Properties                                                              *)

(* Every field of State and every token has its type.  The counters are    *)
(* integers here; that they never underflow is CountersExact.              *)
TypeOK ==
    /\ handshake_done \in BOOLEAN /\ deactivated \in BOOLEAN
    /\ peer_ended \in BOOLEAN /\ closed \in BOOLEAN
    /\ prepared \subseteq LoanIds /\ published \subseteq LoanIds
    /\ settling \in Int /\ remote_reads \in Int
    /\ releases \in Seq(RemoteIds) /\ inflight_releases \in Int
    /\ pending_controls \in Int
    /\ writer \in {"Idle", "Reserved", "InFrame", "AwaitingFlush", "Broken"}
    /\ releases_cap \in Nat /\ published_cap \in Nat
    /\ sequence \in 0..MaxLoanId /\ tokens \subseteq LoanIds
    /\ controls \in Nat
    /\ carriers \in [RemoteIds -> {"none", "held", "ending", "done"}]
    /\ batch \in Batches
    /\ reclaims \subseteq SUBSET LoanIds
    /\ freed \subseteq LoanIds /\ exposed \subseteq LoanIds
    /\ failing \in BOOLEAN
    /\ confirmed \subseteq LoanIds
    /\ finished \in Seq(RemoteIds) /\ submitted \in Seq(RemoteIds)
    /\ made_controls \in Nat

Taken == UNION reclaims

(* "Each allocation occurs exactly once": every id handed out is in one    *)
(* place only, prepared, published or taken out for reclamation, until its *)
(* owner is back in the pool.  Nothing is freed twice and nothing is lost, *)
(* whatever the order of cancel, release record, deactivation and peer end.*)
LoanBook ==
    /\ prepared \cap published = {}
    /\ (prepared \cup published) \cap (Taken \cup freed) = {}
    /\ \A g, h \in reclaims : g # h => g \cap h = {}
    /\ 1..sequence = prepared \cup published \cup Taken \cup freed

(* Single-owner release (ADR 0001): a block whose descriptor reached an    *)
(* I/O attempt goes back to the pool only after the peer's release record  *)
(* or the peer's end; never on deactivation, write failure or cancellation.*)
NoReuseBeforeConfirmation ==
    \A id \in (Taken \cup freed) \cap exposed : id \in confirmed \/ peer_ended

(* begin_io's `.expect("prepared token has its original owner")` cannot    *)
(* fail: when its checks pass, every loan of the batch is still prepared.  *)
PublicationFindsOwner ==
    batch.stage = "reserved" /\ check_writable /\ ~deactivated
        => batch.loans \subseteq prepared

(* The strengthening that makes the three invariants above inductive: a    *)
(* token names an owner of the book for as long as nothing stopped the     *)
(* connection, no owner has two tokens, and no prepared owner is exposed.  *)
TokensMatchBook ==
    /\ prepared \cap exposed = {}
    /\ exposed \subseteq 1..sequence
    /\ tokens \cap batch.loans = {}
    /\ tokens \cup batch.loans \subseteq 1..sequence
    /\ ~deactivated => tokens \subseteq prepared
    /\ ~deactivated /\ batch.stage = "reserved" => batch.loans \subseteq prepared
    /\ batch.stage = "reserved" /\ ~batch.business => batch.loans = {}

BookInv == LoanBook /\ NoReuseBeforeConfirmation /\ TokensMatchBook

(* `settling` counts the owners taken out and not given up, remote_reads   *)
(* the live RemoteLoans, inflight_releases the records held by the batch,  *)
(* pending_controls the live ControlFrames: no counter underflows or leaks.*)
CountersExact ==
    /\ settling = Cardinality(Taken)
    /\ remote_reads = Cardinality({id \in RemoteIds :
                                     carriers[id] \in {"held", "ending"}})
    /\ inflight_releases = Len(batch.prefix)
    /\ pending_controls = controls + (IF batch.control THEN 1 ELSE 0)

(* A closed connection has settled everything: no loan, no remote read, no *)
(* queued control and no I/O attempt is left behind the closed stream.     *)
ClosedIsQuiet ==
    closed => /\ deactivated
              /\ prepared = {} /\ published = {} /\ reclaims = {}
              /\ \A id \in RemoteIds : carriers[id] \notin {"held", "ending"}
              /\ controls = 0 /\ ~batch.control
              /\ batch.stage \notin {"reserved", "io"}

(* The storage reserved at admission covers every record that may still be *)
(* pushed: ending a read, restoring a dropped prefix and publishing a loan *)
(* never allocate.                                                         *)
ReservedStorageSuffices ==
    /\ Len(releases) + remote_reads + inflight_releases <= releases_cap
    /\ Cardinality(published) + Cardinality(prepared) <= published_cap

(* Release records are submitted once each, in the order the reads ended,  *)
(* also when a batch holding some of them is dropped before its I/O.       *)
ReleaseOrder ==
    ~peer_ended /\ ~closed
        => finished = submitted
                        \o (IF batch.stage = "reserved" THEN batch.prefix ELSE <<>>)
                        \o releases

(* The writer is never left reserved without a batch, and a batch whose    *)
(* frames are complete finds AwaitingFlush (flush_completed's assertion).  *)
WriterOwnedByBatch ==
    /\ batch.stage \in {"none", "ended"} => writer \in {"Idle", "Broken"}
    /\ batch.stage = "reserved" => writer = "Reserved"
    /\ batch.stage = "io" => writer = IF batch.frames = 0 THEN "AwaitingFlush"
                                                          ELSE "InFrame"

(* Ends are final: a stopped, ended, closed or broken connection never     *)
(* comes back, and a deactivated one publishes no further loan.            *)
EndsAreFinal ==
    [][/\ deactivated => deactivated' /\ published' \subseteq published
       /\ peer_ended => peer_ended'
       /\ closed => closed'
       /\ writer = "Broken" => writer' = "Broken"]_vars

(* Once admission is stopped and the peer holds none of our loans, the     *)
(* connection closes: no token, counter or batch can hold it open for ever.*)
QuietConnectionCloses == (deactivated /\ published = {}) ~> closed
=============================================================================
