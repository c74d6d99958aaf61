------------------------ MODULE ConnectionCoreProofs ------------------------
(* Machine-checked proofs about ConnectionCore, for every value of its     *)
(* constants.                                                              *)
EXTENDS ConnectionCore, FiniteSetTheorems, SequenceTheorems, TLAPS

(* A set of loan ids is finite, so the number of owners a Reclaims value   *)
(* carries is a natural number.                                            *)
LEMMA LoanSetsFinite ==
    ASSUME NEW S \in SUBSET LoanIds
    PROVE  IsFiniteSet(S) /\ Cardinality(S) \in Nat
<1>1. IsFiniteSet(LoanIds)
  BY FS_Interval, CoreAssumption DEF LoanIds
<1>2. IsFiniteSet(S)
  BY <1>1, FS_Subset
<1> QED
  BY <1>2, FS_CardinalityType

(* Taking owners out of the book keeps `settling` and `reclaims` typed.    *)
LEMMA TakeOutType ==
    ASSUME TypeOK, NEW group \in SUBSET LoanIds, TakeOut(group)
    PROVE  settling' \in Int /\ reclaims' \subseteq SUBSET LoanIds
<1>1. Cardinality(group) \in Nat
  BY LoanSetsFinite
<1> QED
  BY <1>1 DEF TypeOK, TakeOut

(* What remains of a consumed batch is a batch.                            *)
LEMMA EndedType ==
    ASSUME NEW b \in Batches
    PROVE  Ended(b) \in Batches /\ Ended(b).loans = b.loans
           /\ Ended(b).control = b.control /\ Ended(b).prefix = <<>>
           /\ Ended(b).stage = IF b.loans = {} /\ ~b.control THEN "none" ELSE "ended"
<1>1. NoBatch \in Batches
  BY DEF NoBatch, Batches
<1> QED
  BY <1>1 DEF Ended, NoBatch, Batches

USE DEF flags, loans, reading, control, LoanIdLeft, ReleaseSlots, RestoredReleases,
        ReleasedWriter

(* Every action keeps every field and every token of its type.             *)
LEMMA TypeStep == TypeOK /\ [Next]_vars => TypeOK'
<1> SUFFICES ASSUME TypeOK, [Next]_vars PROVE TypeOK'
  OBVIOUS
<1> USE CoreAssumption
<1>1. CASE finish_handshake
  BY <1>1 DEF TypeOK, finish_handshake
<1>2. CASE deactivate
  <2>1. settling' \in Int /\ reclaims' \subseteq SUBSET LoanIds
    BY <1>2, TakeOutType DEF TypeOK, deactivate, stop_locked
  <2> QED
    BY <1>2, <2>1 DEF TypeOK, deactivate, stop_locked
<1>3. CASE peer_end
  <2>1. settling' \in Int /\ reclaims' \subseteq SUBSET LoanIds
    BY <1>3, TakeOutType DEF TypeOK, peer_end, stop_locked
  <2> QED
    BY <1>3, <2>1 DEF TypeOK, peer_end, stop_locked
<1>4. CASE try_close
  BY <1>4 DEF TypeOK, try_close
<1>5. CASE prepare_loan
  <2>1. Cardinality(published) \in Nat /\ Cardinality(prepared) \in Nat
    BY LoanSetsFinite DEF TypeOK
  <2>2. sequence + 1 \in LoanIds
    BY <1>5 DEF TypeOK, prepare_loan, LoanIds
  <2> QED
    BY <1>5, <2>1, <2>2 DEF TypeOK, prepare_loan
<1>6. CASE prepare_loan_fails
  BY <1>6 DEF TypeOK, prepare_loan_fails
<1>7. ASSUME NEW id \in tokens, drop_prepared_loan(id) PROVE TypeOK'
  <2>1. settling' \in Int /\ reclaims' \subseteq SUBSET LoanIds
    BY <1>7, TakeOutType DEF TypeOK, drop_prepared_loan, CancelLoan
  <2> QED
    BY <1>7, <2>1 DEF TypeOK, drop_prepared_loan, CancelLoan
<1>8. ASSUME NEW ids \in Records, NEW wellformed \in BOOLEAN,
             receive_release(ids, wellformed)
      PROVE  TypeOK'
  <2>1. PICK n \in 0..Len(ids) :
          /\ IF wellformed /\ handshake_done
               THEN SettlesUpTo(ids, n) /\ (n < Len(ids) => ~SettlesUpTo(ids, n + 1))
               ELSE n = 0
          /\ published' = published \ {ids[i] : i \in 1..n}
          /\ confirmed' = confirmed \cup {ids[i] : i \in 1..n}
          /\ IF n = Len(ids)
               THEN TakeOut({ids[i] : i \in 1..n}) /\ UNCHANGED <<deactivated, prepared>>
               ELSE stop_locked({ids[i] : i \in 1..n})
    BY <1>8 DEF receive_release
  <2>2. {ids[i] : i \in 1..n} \subseteq published
    BY <2>1 DEF SettlesUpTo
  <2>3. settling' \in Int /\ reclaims' \subseteq SUBSET LoanIds
    BY <2>1, <2>2, TakeOutType DEF TypeOK, stop_locked
  <2> QED
    BY <1>8, <2>1, <2>2, <2>3 DEF TypeOK, receive_release, stop_locked
<1>9. ASSUME NEW group \in reclaims, NEW id \in group,
             release_allocation(group, id)
      PROVE  TypeOK'
  BY <1>9 DEF TypeOK, release_allocation
<1>10. ASSUME NEW group \in reclaims, drop_reclaims(group) PROVE TypeOK'
  <2>1. Cardinality(group) \in Nat
    BY LoanSetsFinite DEF TypeOK
  <2> QED
    BY <1>10, <2>1 DEF TypeOK, drop_reclaims
<1>11. CASE admit_remote_loan_fails
  BY <1>11 DEF TypeOK, admit_remote_loan_fails
<1>12. ASSUME NEW id \in RemoteIds, admit_remote_loan(id) PROVE TypeOK'
  <2>1. releases_cap' \in Nat
    BY <1>12 DEF TypeOK, admit_remote_loan
  <2> QED
    BY <1>12, <2>1 DEF TypeOK, admit_remote_loan
<1>13. ASSUME NEW id \in RemoteIds, drop_guard(id) PROVE TypeOK'
  BY <1>13 DEF TypeOK, drop_guard
<1>14. ASSUME NEW id \in RemoteIds, drop_remote_loan(id) PROVE TypeOK'
  BY <1>14 DEF TypeOK, drop_remote_loan
<1>15. CASE prepare_control_frame
  BY <1>15 DEF TypeOK, prepare_control_frame
<1>16. CASE drop_control_frame
  BY <1>16 DEF TypeOK, drop_control_frame
<1>17. ASSUME NEW ls \in SUBSET tokens, NEW business \in BOOLEAN,
              NEW ctl \in BOOLEAN, Reserve(ls, business, ctl),
              tokens' \subseteq LoanIds, controls' \in Nat
       PROVE  TypeOK'
  <2>1. CeilDiv(Len(releases), BatchCapacity) \in Nat
    BY DEF TypeOK, CeilDiv
  <2>2. batch' \in Batches
    BY <1>17, <2>1 DEF TypeOK, Reserve, Batches
  <2> QED
    BY <1>17, <2>2 DEF TypeOK, Reserve
<1>18. CASE BeginWrite
  <2>1. ASSUME NEW ls \in SUBSET tokens, begin_write_business(ls) PROVE TypeOK'
    <3>1. tokens' \subseteq LoanIds /\ controls' \in Nat
      BY <2>1 DEF TypeOK, begin_write_business
    <3>2. Reserve(ls, TRUE, FALSE)
      BY <2>1 DEF begin_write_business
    <3> QED
      BY <3>1, <3>2, <1>17
  <2>2. CASE begin_write_control
    <3>1. tokens' \subseteq LoanIds /\ controls' \in Nat
      BY <2>2 DEF TypeOK, begin_write_control
    <3>2. Reserve({}, FALSE, TRUE)
      BY <2>2 DEF begin_write_control
    <3> QED
      BY <3>1, <3>2, <1>17
  <2>3. CASE begin_write_releases
    <3>1. tokens' \subseteq LoanIds /\ controls' \in Nat
      BY <2>3 DEF TypeOK, begin_write_releases
    <3>2. Reserve({}, FALSE, FALSE)
      BY <2>3 DEF begin_write_releases
    <3> QED
      BY <3>1, <3>2, <1>17
  <2>4. CASE begin_write_fails
    BY <2>4 DEF TypeOK, begin_write_fails
  <2> QED
    BY <1>18, <2>1, <2>2, <2>3, <2>4 DEF BeginWrite
<1>19. CASE begin_io
  <2>1. batch' \in Batches /\ batch.loans \subseteq LoanIds
        /\ batch.prefix \in Seq(RemoteIds)
    BY <1>19 DEF TypeOK, begin_io, Batches
  <2>2. submitted' \in Seq(RemoteIds)
    BY <1>19, <2>1, ConcatProperties DEF TypeOK, begin_io
  <2> QED
    BY <1>19, <2>1, <2>2 DEF TypeOK, begin_io
<1>20. CASE frame_completed
  <2>1. batch \in Batches /\ batch.prefix \in Seq(RemoteIds)
        /\ Len(batch.prefix) \in Nat /\ batch.frames \in Nat
    BY DEF TypeOK, Batches
  <2>2. <<>> \in Seq(RemoteIds)
    BY EmptySeq
  <2>3. [batch EXCEPT !.frames = 0, !.prefix = <<>>] \in Batches
    BY <2>1, <2>2 DEF Batches
  <2>4. ASSUME NEW f \in Nat PROVE [batch EXCEPT !.frames = f] \in Batches
    BY <2>1 DEF Batches
  <2>5. batch' \in Batches
    <3>1. CASE batch.frames = 1
      BY <1>20, <2>3, <3>1 DEF frame_completed
    <3>2. CASE batch.frames # 1
      <4>1. batch.frames - 1 \in Nat
        BY <1>20, <2>1 DEF frame_completed
      <4> QED
        BY <1>20, <2>4, <3>2, <4>1 DEF frame_completed
    <3> QED
      BY <3>1, <3>2
  <2>6. inflight_releases' \in Int
    <3>1. inflight_releases \in Int
      BY DEF TypeOK
    <3>2. inflight_releases' \in {inflight_releases, inflight_releases - Len(batch.prefix)}
      BY <1>20 DEF frame_completed
    <3> QED
      BY <2>1, <3>1, <3>2
  <2> QED
    BY <1>20, <2>5, <2>6 DEF TypeOK, frame_completed
<1>21. CASE flush_completed
  BY <1>21, EndedType DEF TypeOK, flush_completed
<1>22. CASE write_failed
  <2>1. settling' \in Int /\ reclaims' \subseteq SUBSET LoanIds
    BY <1>22, TakeOutType DEF TypeOK, write_failed, stop_locked
  <2>2. batch' \in Batches
    BY <1>22 DEF TypeOK, write_failed, Batches
  <2> QED
    BY <1>22, <2>1, <2>2 DEF TypeOK, write_failed, stop_locked
<1>23. CASE drop_write_batch
  <2>1. batch' \in Batches /\ batch.prefix \in Seq(RemoteIds)
    BY <1>23, EndedType DEF TypeOK, drop_write_batch, Batches
  <2>2. settling' \in Int /\ reclaims' \subseteq SUBSET LoanIds
    BY <1>23, TakeOutType DEF TypeOK, drop_write_batch, stop_locked
  <2>3. releases' \in Seq(RemoteIds)
    <3>1. batch.prefix \o releases \in Seq(RemoteIds) /\ releases \in Seq(RemoteIds)
      BY <2>1, ConcatProperties DEF TypeOK
    <3>2. releases' = releases \/ releases' = batch.prefix \o releases
      BY <1>23 DEF drop_write_batch
    <3> QED
      BY <3>1, <3>2, Zenon
  <2>4. inflight_releases' \in Int
    <3>1. Len(batch.prefix) \in Nat /\ inflight_releases \in Int
      BY <2>1, LenProperties DEF TypeOK
    <3>2. inflight_releases' = inflight_releases - Len(batch.prefix)
      BY <1>23 DEF drop_write_batch
    <3> QED
      BY <3>1, <3>2
  <2> QED
    BY <1>23, <2>1, <2>2, <2>3, <2>4 DEF TypeOK, drop_write_batch, stop_locked
<1>24. ASSUME NEW id \in batch.loans, drop_batch_loan(id) PROVE TypeOK'
  <2>1. [batch EXCEPT !.loans = @ \ {id}] \in Batches
    BY DEF TypeOK, Batches
  <2>2. settling' \in Int /\ reclaims' \subseteq SUBSET LoanIds
    BY <1>24, TakeOutType DEF TypeOK, drop_batch_loan, CancelLoan
  <2> QED
    BY <1>24, <2>1, <2>2, EndedType DEF TypeOK, drop_batch_loan, CancelLoan
<1>25. CASE drop_batch_control
  <2>1. [batch EXCEPT !.control = FALSE] \in Batches
    BY DEF TypeOK, Batches
  <2> QED
    BY <1>25, <2>1, EndedType DEF TypeOK, drop_batch_control
<1>26. CASE UNCHANGED vars
  BY <1>26 DEF TypeOK, vars, state, owners, history
<1> QED
  BY <1>1, <1>2, <1>3, <1>4, <1>5, <1>6, <1>7, <1>8, <1>9, <1>10, <1>11, <1>12,
     <1>13, <1>14, <1>15, <1>16, <1>18, <1>19, <1>20, <1>21, <1>22, <1>23,
     <1>24, <1>25, <1>26
     DEF Next, Handshake, Lend, Reclaim, Borrow, Control, Write

(* Type correctness of the connection's control state.                     *)
THEOREM TypeCorrect == Spec => []TypeOK
<1>1. ASSUME Init PROVE TypeOK
  <2>1. <<>> \in Seq(RemoteIds)
    OBVIOUS
  <2>2. NoBatch \in Batches
    BY <2>1 DEF NoBatch, Batches
  <2>3. carriers \in [RemoteIds -> {"none", "held", "ending", "done"}]
    BY <1>1 DEF Init
  <2>4. 0 \in 0..MaxLoanId
    BY CoreAssumption
  <2>5. batch \in Batches
    BY <1>1, <2>2 DEF Init
  <2>6. /\ settling \in Int /\ remote_reads \in Int /\ inflight_releases \in Int
        /\ pending_controls \in Int /\ releases_cap \in Nat /\ published_cap \in Nat
        /\ sequence \in 0..MaxLoanId /\ controls \in Nat /\ made_controls \in Nat
    BY <1>1, <2>4 DEF Init
  <2> QED
    BY <1>1, <2>1, <2>3, <2>5, <2>6, Zenon DEF Init, TypeOK
<1> QED
  BY <1>1, TypeStep, PTL DEF Spec

-----------------------------------------------------------------------------
(* The loan book                                                           *)

(* Owners taken out of the book join those already taken out, and form a   *)
(* Reclaims value apart from the others.                                   *)
LEMMA TakeOutBook ==
    ASSUME NEW group, TakeOut(group), group \cap Taken = {},
           \A g, h \in reclaims : g # h => g \cap h = {}
    PROVE  /\ Taken' = Taken \cup group
           /\ \A g, h \in reclaims' : g # h => g \cap h = {}
<1>1. Taken' = Taken \cup group
  BY DEF TakeOut, Taken
<1>2. ASSUME NEW g \in reclaims', NEW h \in reclaims', g # h PROVE g \cap h = {}
  BY <1>2 DEF TakeOut, Taken
<1> QED
  BY <1>1, <1>2

(* What stop_locked does to the book, whatever else its caller takes out.  *)
LEMMA StopBook ==
    ASSUME BookInv, NEW others \in SUBSET published, stop_locked(others)
    PROVE  /\ Taken' = Taken \cup prepared \cup others
           /\ \A g, h \in reclaims' : g # h => g \cap h = {}
           /\ prepared' = {} /\ deactivated'
<1>1. (prepared \cup others) \cap Taken = {}
  BY DEF BookInv, LoanBook
<1>2. TakeOut(prepared \cup others) /\ prepared' = {} /\ deactivated'
  BY DEF stop_locked
<1> QED
  BY <1>1, <1>2, TakeOutBook DEF BookInv, LoanBook

(* What BookInv speaks of, apart from the batch.                           *)
BookVars == <<deactivated, peer_ended, prepared, published, sequence, tokens,
              reclaims, freed, exposed, confirmed>>

(* A step that leaves the book alone keeps it, if the batch keeps its loans *)
(* and is not reserved by that step.                                       *)
LEMMA BookKept ==
    ASSUME BookInv, UNCHANGED BookVars, batch'.loans = batch.loans,
           \/ batch'.stage # "reserved"
           \/ batch'.stage = batch.stage /\ batch'.business = batch.business
    PROVE  BookInv'
<1>1. Taken' = Taken
  BY DEF BookVars, Taken
<1>2. LoanBook' /\ NoReuseBeforeConfirmation'
  BY <1>1 DEF BookVars, BookInv, LoanBook, NoReuseBeforeConfirmation
<1>3. TokensMatchBook'
  BY DEF BookVars, BookInv, TokensMatchBook
<1> QED
  BY <1>2, <1>3 DEF BookInv

(* Every action keeps the book, the confirmation rule and the tokens.      *)
LEMMA BookStep == TypeOK /\ BookInv /\ [Next]_vars => BookInv'
<1> SUFFICES ASSUME TypeOK, BookInv, [Next]_vars PROVE BookInv'
  OBVIOUS
<1> USE DEF BookInv, LoanBook, NoReuseBeforeConfirmation, TokensMatchBook
<1>1. CASE finish_handshake
  <2>1. UNCHANGED <<BookVars, batch>>
    BY <1>1 DEF finish_handshake, BookVars, loans
  <2> QED
    BY <2>1, BookKept
<1>2. CASE deactivate
  <2>1. stop_locked({})
    BY <1>2 DEF deactivate
  <2> QED
    BY <1>2, <2>1, StopBook DEF deactivate
<1>3. CASE peer_end
  <2>1. stop_locked(published)
    BY <1>3 DEF peer_end
  <2> QED
    BY <1>3, <2>1, StopBook DEF peer_end
<1>4. CASE try_close
  <2>1. UNCHANGED <<BookVars, batch>>
    BY <1>4 DEF try_close, BookVars, loans
  <2> QED
    BY <2>1, BookKept
<1>5. CASE prepare_loan
  <2>1. sequence \in Nat /\ sequence' = sequence + 1
    BY <1>5 DEF TypeOK, prepare_loan
  <2>2. 1..sequence' = 1..sequence \cup {sequence + 1} /\ sequence + 1 \notin 1..sequence
    BY <2>1
  <2>3. Taken' = Taken
    BY <1>5 DEF prepare_loan, Taken
  <2> QED
    BY <1>5, <2>2, <2>3 DEF prepare_loan, check_business, check_live
<1>6. CASE prepare_loan_fails
  BY <1>6 DEF prepare_loan_fails, Taken
<1>7. ASSUME NEW id \in tokens, drop_prepared_loan(id) PROVE BookInv'
  <2>1. TakeOut(prepared \cap {id})
    BY <1>7 DEF drop_prepared_loan, CancelLoan
  <2>2. /\ Taken' = Taken \cup (prepared \cap {id})
        /\ \A g, h \in reclaims' : g # h => g \cap h = {}
    BY <2>1, TakeOutBook
  <2> QED
    BY <1>7, <2>2 DEF drop_prepared_loan, CancelLoan
<1>8. ASSUME NEW ids \in Records, NEW wellformed \in BOOLEAN,
             receive_release(ids, wellformed)
      PROVE  BookInv'
  <2>1. PICK settled \in SUBSET published :
          /\ published' = published \ settled
          /\ confirmed' = confirmed \cup settled
          /\ \/ TakeOut(settled) /\ UNCHANGED <<deactivated, prepared>>
             \/ stop_locked(settled)
    <3>1. PICK n \in 0..Len(ids) :
            /\ IF wellformed /\ handshake_done
                 THEN SettlesUpTo(ids, n) /\ (n < Len(ids) => ~SettlesUpTo(ids, n + 1))
                 ELSE n = 0
            /\ published' = published \ {ids[i] : i \in 1..n}
            /\ confirmed' = confirmed \cup {ids[i] : i \in 1..n}
            /\ IF n = Len(ids)
                 THEN TakeOut({ids[i] : i \in 1..n}) /\ UNCHANGED <<deactivated, prepared>>
                 ELSE stop_locked({ids[i] : i \in 1..n})
      BY <1>8 DEF receive_release
    <3>2. {ids[i] : i \in 1..n} \in SUBSET published
      BY <3>1 DEF SettlesUpTo
    <3> WITNESS {ids[i] : i \in 1..n} \in SUBSET published
    <3> QED
      BY <3>1, Zenon
  <2>2. CASE TakeOut(settled) /\ UNCHANGED <<deactivated, prepared>>
    <3>1. /\ Taken' = Taken \cup settled
          /\ \A g, h \in reclaims' : g # h => g \cap h = {}
      BY <2>2, TakeOutBook
    <3> QED
      BY <1>8, <2>1, <2>2, <3>1 DEF receive_release
  <2>3. CASE stop_locked(settled)
    BY <1>8, <2>1, <2>3, StopBook DEF receive_release
  <2> QED
    BY <2>1, <2>2, <2>3
<1>9. ASSUME NEW group \in reclaims, NEW id \in group,
             release_allocation(group, id)
      PROVE  BookInv'
  <2>1. Taken' = Taken /\ id \in Taken
    BY <1>9 DEF release_allocation, Taken
  <2> QED
    BY <1>9, <2>1 DEF release_allocation
<1>10. ASSUME NEW group \in reclaims, drop_reclaims(group) PROVE BookInv'
  <2>1. Taken \subseteq Taken' \cup group /\ Taken' \subseteq Taken /\ group \subseteq freed
    BY <1>10 DEF drop_reclaims, Taken
  <2>2. \A g, h \in reclaims' : g # h => g \cap h = {}
    BY <1>10 DEF drop_reclaims
  <2> QED
    BY <1>10, <2>1, <2>2 DEF drop_reclaims
<1>11. CASE Borrow
  <2>1. UNCHANGED <<flags, loans, batch>>
    <3>1. CASE admit_remote_loan_fails
      BY <3>1 DEF admit_remote_loan_fails
    <3>2. ASSUME NEW id \in RemoteIds, admit_remote_loan(id)
          PROVE  UNCHANGED <<flags, loans, batch>>
      BY <3>2 DEF admit_remote_loan
    <3>3. ASSUME NEW id \in RemoteIds, drop_guard(id) \/ drop_remote_loan(id)
          PROVE  UNCHANGED <<flags, loans, batch>>
      BY <3>3 DEF drop_guard, drop_remote_loan
    <3> QED
      BY <1>11, <3>1, <3>2, <3>3 DEF Borrow
  <2> QED
    BY <2>1, BookKept DEF BookVars, flags, loans
<1>12. CASE Control
  <2>1. UNCHANGED <<flags, loans, batch>>
    BY <1>12 DEF Control, prepare_control_frame, drop_control_frame
  <2> QED
    BY <2>1, BookKept DEF BookVars, flags, loans
<1>13. ASSUME NEW ls \in SUBSET tokens, NEW business \in BOOLEAN,
              NEW ctl \in BOOLEAN, Reserve(ls, business, ctl),
              tokens' = tokens \ ls, ~business => ls = {}
       PROVE  BookInv'
  <2>1. /\ batch'.loans = ls /\ batch'.business = business
        /\ batch'.stage = "reserved"
    BY <1>13 DEF Reserve
  <2> QED
    BY <1>13, <2>1 DEF Reserve, Taken
<1>14. CASE BeginWrite
  <2>1. ASSUME NEW ls \in SUBSET tokens, begin_write_business(ls) PROVE BookInv'
    BY <1>13, <2>1 DEF begin_write_business
  <2>2. CASE begin_write_control
    <3>1. Reserve({}, FALSE, TRUE) /\ tokens' = tokens \ {}
      BY <2>2 DEF begin_write_control
    <3> QED
      BY <1>13, <3>1
  <2>3. CASE begin_write_releases
    <3>1. Reserve({}, FALSE, FALSE) /\ tokens' = tokens \ {}
      BY <2>3 DEF begin_write_releases
    <3> QED
      BY <1>13, <3>1
  <2>4. CASE begin_write_fails
    <3>1. UNCHANGED <<BookVars, batch>>
      BY <2>4 DEF begin_write_fails, BookVars, flags, loans
    <3> QED
      BY <3>1, BookKept
  <2> QED
    BY <1>14, <2>1, <2>2, <2>3, <2>4 DEF BeginWrite
<1>15. CASE begin_io
  <2>1. batch.loans \subseteq prepared
    BY <1>15 DEF begin_io, StillAdmitted
  <2>2. batch'.loans = batch.loans /\ batch'.stage = "io"
    BY <1>15 DEF begin_io, TypeOK, Batches
  <2> QED
    BY <1>15, <2>1, <2>2 DEF begin_io, Taken
<1>16. CASE frame_completed
  <2>1. /\ batch'.loans = batch.loans /\ batch'.stage = batch.stage
        /\ batch'.business = batch.business
    <3>1. batch \in Batches
      BY DEF TypeOK
    <3>2. CASE batch.frames = 1
      <4>1. batch' = [batch EXCEPT !.frames = 0, !.prefix = <<>>]
        BY <1>16, <3>2 DEF frame_completed
      <4> QED
        BY <3>1, <4>1 DEF Batches
    <3>3. CASE batch.frames # 1
      <4>1. batch' = [batch EXCEPT !.frames = batch.frames - 1]
        BY <1>16, <3>3 DEF frame_completed
      <4> QED
        BY <3>1, <4>1 DEF Batches
    <3> QED
      BY <3>2, <3>3
  <2>2. UNCHANGED BookVars
    BY <1>16 DEF frame_completed, BookVars, flags, loans
  <2> QED
    BY <2>1, <2>2, BookKept
<1>17. CASE flush_completed
  <2>1. batch'.loans = batch.loans /\ batch'.stage # "reserved"
    BY <1>17, EndedType DEF flush_completed, TypeOK
  <2>2. UNCHANGED BookVars
    BY <1>17 DEF flush_completed, BookVars, flags, loans
  <2> QED
    BY <2>1, <2>2, BookKept
<1>18. CASE write_failed
  <2>1. batch'.loans = batch.loans /\ batch'.stage = "failed"
    BY <1>18 DEF write_failed, TypeOK, Batches
  <2>2. stop_locked({})
    BY <1>18 DEF write_failed
  <2> QED
    BY <1>18, <2>1, <2>2, StopBook DEF write_failed
<1>19. CASE drop_write_batch
  <2>1. batch'.loans = batch.loans /\ batch'.stage # "reserved"
    BY <1>19, EndedType DEF drop_write_batch, TypeOK
  <2>2. CASE batch.stage = "reserved"
    <3>1. UNCHANGED BookVars
      BY <1>19, <2>2 DEF drop_write_batch, BookVars
    <3> QED
      BY <2>1, <3>1, BookKept
  <2>3. CASE batch.stage # "reserved"
    <3>1. stop_locked({})
      BY <1>19, <2>3 DEF drop_write_batch
    <3> QED
      BY <1>19, <2>1, <3>1, StopBook DEF drop_write_batch
  <2> QED
    BY <2>2, <2>3
<1>20. ASSUME NEW id \in batch.loans, drop_batch_loan(id) PROVE BookInv'
  <2>1. [batch EXCEPT !.loans = @ \ {id}] \in Batches
        /\ [batch EXCEPT !.loans = @ \ {id}].loans = batch.loans \ {id}
    BY DEF TypeOK, Batches
  <2>2. batch'.loans = batch.loans \ {id} /\ batch'.stage # "reserved"
    BY <1>20, <2>1, EndedType DEF drop_batch_loan
  <2>3. TakeOut(prepared \cap {id})
    BY <1>20 DEF drop_batch_loan, CancelLoan
  <2>4. /\ Taken' = Taken \cup (prepared \cap {id})
        /\ \A g, h \in reclaims' : g # h => g \cap h = {}
    BY <2>3, TakeOutBook
  <2>5. /\ prepared' = prepared \ {id}
        /\ UNCHANGED <<deactivated, peer_ended, published, sequence, tokens, freed,
                       exposed, confirmed>>
    BY <1>20 DEF drop_batch_loan, CancelLoan
  <2>6. LoanBook'
    BY <2>4, <2>5
  <2>7. NoReuseBeforeConfirmation'
    BY <2>4, <2>5
  <2>8. TokensMatchBook'
    BY <2>2, <2>5
  <2> QED
    BY <2>6, <2>7, <2>8
<1>21. CASE drop_batch_control
  <2>1. /\ [batch EXCEPT !.control = FALSE] \in Batches
        /\ [batch EXCEPT !.control = FALSE].loans = batch.loans
        /\ [batch EXCEPT !.control = FALSE].stage = batch.stage
    BY DEF TypeOK, Batches
  <2>2. batch'.loans = batch.loans /\ batch'.stage # "reserved"
    BY <1>21, <2>1, EndedType DEF drop_batch_control
  <2>3. UNCHANGED BookVars
    BY <1>21 DEF drop_batch_control, BookVars, flags, loans
  <2> QED
    BY <2>2, <2>3, BookKept
<1>22. CASE UNCHANGED vars
  BY <1>22, BookKept DEF vars, state, owners, history, BookVars
<1> HIDE DEF BookInv
<1> QED
  BY <1>1, <1>2, <1>3, <1>4, <1>5, <1>6, <1>7, <1>8, <1>9, <1>10, <1>11, <1>12,
     <1>14, <1>15, <1>16, <1>17, <1>18, <1>19, <1>20, <1>21, <1>22
     DEF Next, Handshake, Lend, Reclaim, Write

(* The three facts combined: the book and its strengthening always hold.   *)
THEOREM BookCorrect == Spec => []BookInv
<1>1. Init => BookInv
  BY DEF Init, BookInv, LoanBook, NoReuseBeforeConfirmation, TokensMatchBook,
         Taken, NoBatch
<1> QED
  BY <1>1, TypeCorrect, BookStep, PTL DEF Spec

(* Every loan id handed out is in exactly one place until its owner is     *)
(* back in the pool.                                                       *)
THEOREM LoanBookHolds == Spec => []LoanBook
<1>1. BookInv => LoanBook
  BY DEF BookInv
<1> QED
  BY <1>1, BookCorrect, PTL

(* An exposed block is reclaimed only after its release record or the      *)
(* peer's end (ADR 0001).                                                  *)
THEOREM SingleOwnerRelease == Spec => []NoReuseBeforeConfirmation
<1>1. BookInv => NoReuseBeforeConfirmation
  BY DEF BookInv
<1> QED
  BY <1>1, BookCorrect, PTL

(* begin_io always finds the owner of every loan it publishes.             *)
THEOREM PublicationSafe == Spec => []PublicationFindsOwner
<1>1. BookInv => PublicationFindsOwner
  BY DEF BookInv, TokensMatchBook, PublicationFindsOwner
<1> QED
  BY <1>1, BookCorrect, PTL

-----------------------------------------------------------------------------
(* Ends                                                                    *)

(* One step never revives an end, and never publishes after a stop: the    *)
(* loans of a batch are published only if it is a business frame, which    *)
(* deactivation cancels.                                                   *)
LEMMA EndsStep ==
    ASSUME TypeOK, BookInv, [Next]_vars
    PROVE  /\ deactivated => deactivated' /\ published' \subseteq published
           /\ peer_ended => peer_ended'
           /\ closed => closed'
           /\ writer = "Broken" => writer' = "Broken"
<1> DEFINE Goal == /\ deactivated => deactivated' /\ published' \subseteq published
                   /\ peer_ended => peer_ended'
                   /\ closed => closed'
                   /\ writer = "Broken" => writer' = "Broken"
<1> SUFFICES Goal
  OBVIOUS
<1>1. CASE Handshake
  BY <1>1 DEF Handshake, finish_handshake, deactivate, peer_end, try_close, stop_locked, check_live
<1>2. CASE Lend
  <2>1. CASE prepare_loan \/ prepare_loan_fails
    BY <2>1 DEF prepare_loan, prepare_loan_fails, check_business, check_live
  <2>2. ASSUME NEW id \in tokens, drop_prepared_loan(id) PROVE Goal
    BY <2>2 DEF drop_prepared_loan, CancelLoan
  <2>3. ASSUME NEW ids \in Records, NEW wellformed \in BOOLEAN,
               receive_release(ids, wellformed)
        PROVE  Goal
    BY <2>3 DEF receive_release, stop_locked
  <2> QED
    BY <1>2, <2>1, <2>2, <2>3 DEF Lend
<1>3. CASE Reclaim
  BY <1>3 DEF Reclaim, release_allocation, drop_reclaims
<1>4. CASE Borrow
  BY <1>4 DEF Borrow, admit_remote_loan_fails, admit_remote_loan, drop_guard, drop_remote_loan
<1>5. CASE Control
  BY <1>5 DEF Control, prepare_control_frame, drop_control_frame
<1>6. CASE BeginWrite
  BY <1>6 DEF BeginWrite, begin_write_business, begin_write_control, begin_write_releases,
              begin_write_fails, Reserve
<1>7. CASE Write
  <2>1. CASE begin_io
    <3>1. deactivated => batch.loans = {}
      <4>1. deactivated => ~batch.business
        BY <2>1 DEF begin_io, StillAdmitted
      <4> QED
        BY <2>1, <4>1 DEF begin_io, BookInv, TokensMatchBook
    <3> QED
      BY <2>1, <3>1 DEF begin_io, check_writable
  <2>2. CASE frame_completed \/ flush_completed
    BY <2>2 DEF frame_completed, flush_completed
  <2>3. CASE write_failed
    BY <2>3 DEF write_failed, stop_locked
  <2>4. CASE drop_write_batch
    BY <2>4 DEF drop_write_batch, stop_locked
  <2>5. ASSUME NEW id \in batch.loans, drop_batch_loan(id) PROVE Goal
    BY <2>5 DEF drop_batch_loan, CancelLoan
  <2>6. CASE drop_batch_control
    BY <2>6 DEF drop_batch_control
  <2> QED
    BY <1>7, <2>1, <2>2, <2>3, <2>4, <2>5, <2>6 DEF Write
<1>8. CASE UNCHANGED vars
  BY <1>8 DEF vars, state
<1> QED
  BY <1>1, <1>2, <1>3, <1>4, <1>5, <1>6, <1>7, <1>8 DEF Next

(* Ends are final: deactivate, peer_end, try_close and write_failed are    *)
(* never undone, and begin_io publishes nothing on a stopped connection.   *)
THEOREM EndsHold == Spec => EndsAreFinal
<1>1. ASSUME TypeOK, BookInv, [Next]_vars
      PROVE  [/\ deactivated => deactivated' /\ published' \subseteq published
              /\ peer_ended => peer_ended'
              /\ closed => closed'
              /\ writer = "Broken" => writer' = "Broken"]_vars
  BY <1>1, EndsStep
<1> QED
  BY <1>1, TypeCorrect, BookCorrect, PTL DEF Spec, EndsAreFinal

-----------------------------------------------------------------------------
(* The writer                                                              *)

(* The strengthening: a reserved batch has a frame to write, and the       *)
(* writer of a failed one is broken.                                       *)
WriterInv ==
    /\ WriterOwnedByBatch
    /\ batch.stage = "reserved" => batch.frames > 0
    /\ batch.stage = "failed" => writer = "Broken"

(* A batch of n > 0 release records takes at least one frame.              *)
LEMMA SomeFrame ==
    ASSUME NEW n \in Nat, NEW d \in Nat \ {0}
    PROVE  CeilDiv(n, d) \in Nat /\ (n > 0 => CeilDiv(n, d) > 0)
BY DEF CeilDiv

LEMMA ReserveWriter ==
    ASSUME TypeOK, WriterInv, NEW ls, NEW business \in BOOLEAN, NEW ctl \in BOOLEAN,
           Reserve(ls, business, ctl)
    PROVE  WriterInv'
<1> DEFINE n == CeilDiv(Len(releases), BatchCapacity)
           f == IF business \/ ctl THEN 1 ELSE 0
<1>1. Len(releases) \in Nat /\ (releases # <<>> => Len(releases) > 0)
  BY LenProperties, EmptySeq DEF TypeOK
<1>2. n \in Nat /\ (releases # <<>> => n > 0)
  BY <1>1, SomeFrame, CoreAssumption
<1>3. n + f > 0
  BY <1>2 DEF Reserve
<1>4. batch'.stage = "reserved" /\ batch'.frames = n + f /\ writer' = "Reserved"
  BY DEF Reserve
<1> QED
  BY <1>3, <1>4 DEF WriterInv, WriterOwnedByBatch

LEMMA WriterStep == TypeOK /\ WriterInv /\ [Next]_vars => WriterInv'
<1> SUFFICES ASSUME TypeOK, WriterInv, [Next]_vars PROVE WriterInv'
  OBVIOUS
<1>1. ASSUME UNCHANGED <<writer, batch>> PROVE WriterInv'
  BY <1>1 DEF WriterInv, WriterOwnedByBatch
<1>2. CASE Handshake \/ Lend \/ Reclaim \/ Borrow \/ Control \/ UNCHANGED vars
  <2>1. UNCHANGED <<writer, batch>>
    BY <1>2 DEF Handshake, finish_handshake, deactivate, peer_end, try_close, Lend,
       prepare_loan, prepare_loan_fails, drop_prepared_loan, CancelLoan, receive_release,
       Reclaim, release_allocation, drop_reclaims, Borrow, admit_remote_loan_fails,
       admit_remote_loan, drop_guard, drop_remote_loan, Control, prepare_control_frame,
       drop_control_frame, vars, state, owners
  <2> QED
    BY <1>1, <2>1
<1>3. CASE BeginWrite
  <2>1. ASSUME NEW ls \in SUBSET tokens, begin_write_business(ls) PROVE WriterInv'
    BY <2>1, ReserveWriter DEF begin_write_business
  <2>2. CASE begin_write_control
    BY <2>2, ReserveWriter DEF begin_write_control
  <2>3. CASE begin_write_releases
    BY <2>3, ReserveWriter DEF begin_write_releases
  <2>4. CASE begin_write_fails
    BY <1>1, <2>4 DEF begin_write_fails
  <2> QED
    BY <1>3, <2>1, <2>2, <2>3, <2>4 DEF BeginWrite
<1>4. CASE Write
  <2>1. CASE begin_io
    <3>1. batch'.stage = "io" /\ batch'.frames = batch.frames /\ batch.frames > 0
      BY <2>1 DEF begin_io, TypeOK, Batches, WriterInv
    <3> QED
      BY <2>1, <3>1 DEF begin_io, WriterInv, WriterOwnedByBatch
  <2>2. CASE frame_completed
    <3>1. batch.frames \in Nat /\ batch.stage = "io"
      BY <2>2 DEF frame_completed, TypeOK, Batches
    <3>2. CASE batch.frames = 1
      <4>1. batch' = [batch EXCEPT !.frames = 0, !.prefix = <<>>]
            /\ writer' = IF writer # "Broken" THEN "AwaitingFlush" ELSE writer
        BY <2>2, <3>2 DEF frame_completed
      <4>2. batch'.stage = "io" /\ batch'.frames = 0
        BY <3>1, <4>1 DEF TypeOK, Batches
      <4>3. writer' = "AwaitingFlush"
        BY <3>1, <3>2, <4>1 DEF WriterInv, WriterOwnedByBatch
      <4> QED
        BY <4>2, <4>3 DEF WriterInv, WriterOwnedByBatch
    <3>3. CASE batch.frames # 1
      <4>1. batch' = [batch EXCEPT !.frames = batch.frames - 1] /\ writer' = writer
        BY <2>2, <3>3 DEF frame_completed
      <4>2. batch'.stage = "io" /\ batch'.frames = batch.frames - 1
        BY <3>1, <4>1 DEF TypeOK, Batches
      <4>3. batch.frames > 1
        BY <2>2, <3>1, <3>3 DEF frame_completed
      <4> QED
        BY <3>1, <4>1, <4>2, <4>3 DEF WriterInv, WriterOwnedByBatch
    <3> QED
      BY <3>2, <3>3
  <2>3. CASE flush_completed
    BY <2>3 DEF flush_completed, Ended, NoBatch, WriterInv, WriterOwnedByBatch
  <2>4. CASE write_failed
    <3>1. batch'.stage = "failed" /\ writer' = "Broken"
      BY <2>4 DEF write_failed, TypeOK, Batches
    <3> QED
      BY <3>1 DEF WriterInv, WriterOwnedByBatch
  <2>5. CASE drop_write_batch
    <3>1. batch'.stage \in {"none", "ended"}
      BY <2>5 DEF drop_write_batch, Ended, NoBatch
    <3>2. writer' \in {"Idle", "Broken"}
      BY <2>5 DEF drop_write_batch
    <3> QED
      BY <3>1, <3>2 DEF WriterInv, WriterOwnedByBatch
  <2>6. ASSUME NEW id \in batch.loans, drop_batch_loan(id) PROVE WriterInv'
    <3>1. batch'.stage \in {"none", "ended"}
      BY <2>6 DEF drop_batch_loan, Ended, NoBatch
    <3>2. writer' \in {"Idle", "Broken"}
      BY <2>6 DEF drop_batch_loan, CancelLoan, WriterInv, WriterOwnedByBatch
    <3> QED
      BY <3>1, <3>2 DEF WriterInv, WriterOwnedByBatch
  <2>7. CASE drop_batch_control
    <3>1. batch.stage = "failed" => batch'.stage = "failed"
      BY <2>7 DEF drop_batch_control, TypeOK, Batches
    <3>2. batch.stage = "ended" => batch'.stage \in {"none", "ended"}
      BY <2>7 DEF drop_batch_control, Ended, NoBatch
    <3>3. writer' = writer /\ batch.stage \in {"failed", "ended"}
      BY <2>7 DEF drop_batch_control
    <3> QED
      BY <3>1, <3>2, <3>3 DEF WriterInv, WriterOwnedByBatch
  <2> QED
    BY <1>4, <2>1, <2>2, <2>3, <2>4, <2>5, <2>6, <2>7 DEF Write
<1> QED
  BY <1>2, <1>3, <1>4 DEF Next

(* The writer is never left reserved without a batch, and flush_completed  *)
(* finds the state it asserts.                                             *)
THEOREM WriterHolds == Spec => []WriterOwnedByBatch
<1>1. Init => WriterInv
  BY DEF Init, NoBatch, WriterInv, WriterOwnedByBatch
<1>2. WriterInv => WriterOwnedByBatch
  BY DEF WriterInv
<1> QED
  BY <1>1, <1>2, TypeCorrect, WriterStep, PTL DEF Spec
=============================================================================
