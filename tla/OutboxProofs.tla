---------------------------- MODULE OutboxProofs ----------------------------
(***************************************************************************)
(* Proofs of the safety properties of Outbox for any number of rows, tasks,*)
(* attempts, restarts and database errors.                                 *)
(*                                                                         *)
(* None of the properties is inductive alone.  The argument: a claimed row *)
(* stays sending (or is removed) until its only task records an outcome,   *)
(* so a row leaves the queue fresh, and keeps being fresh until that task  *)
(* transmits; the one transmission of the decision is then the task's own, *)
(* and a task that goes on to a definite error has taken it back.          *)
(*                                                                         *)
(* With that invariant every step of the outbox is a step of               *)
(* AbstractDelivery, which is the last part of this module.                *)
(***************************************************************************)
EXTENDS OutboxRefinement, TLAPS

\* Nothing of the decision the row is at has been handed to the network.
Fresh(i) == \A t \in Copies : t.item = i => t.decision # decision[i]

\* The server has taken a message of the decision the row is at.
Taken(i) == \E t \in accepted : t.item = i /\ t.decision = decision[i]

JobInv == \A w \in Workers : pc[w] # "idle" => job[w] \in Items

CopiesInv ==
  /\ wire \cap accepted = {}
  /\ \A t \in Copies : t.decision <= decision[t.item]
  /\ \A t \in Copies : row[t.item] \notin {"unused", "composing"}

RowInv ==
  \A i \in Items :
    /\ row[i] \in {"unused", "composing", "queued", "failed"} => Fresh(i)
    /\ row[i] = "sent" => Taken(i)

TaskInv ==
  \A w \in Workers :
    /\ pc[w] \in {"claimed", "prepared", "stored", "definite_error"} => Fresh(job[w])
    /\ pc[w] = "transmitting" =>
         \A t \in Copies :
           t.item = job[w] /\ t.decision = decision[job[w]] => t = OwnTransmission(w)
    /\ pc[w] = "accepted" => Taken(job[w])

PayloadInv ==
  \A w \in Workers :
    pc[w] \in {"stored", "transmitting"} =>
      /\ mid[w] = messageId[job[w]]
      /\ row[job[w]] # "deleted" => sentCopy[job[w]] # "no_payload"

IInv ==
  /\ TypeOK
  /\ JobInv
  /\ CopiesInv
  /\ RowInv
  /\ TaskInv
  /\ PayloadInv
  /\ OneCopyPerDecision
  /\ ExclusiveDelivery
  /\ StableMessageId

-----------------------------------------------------------------------------
USE OutboxAssumption

\* Every step keeps the types, and a task that exists keeps a row to work on.
LEMMA TypeStep == TypeOK /\ JobInv /\ [Next]_vars => TypeOK' /\ JobInv'
<1> USE DEF TypeOK, JobInv, RowState, CopyState, TaskState, Transmission,
            QueuedMessageId, dbVars, taskVars, appVars, serverVars, countVars
<1> SUFFICES ASSUME TypeOK, JobInv, [Next]_vars PROVE TypeOK' /\ JobInv'
  OBVIOUS
<1>1. CASE SetAccountEnabled
  BY <1>1 DEF SetAccountEnabled
<1>2. CASE RemoveAccount
  BY <1>2 DEF RemoveAccount
<1>3. CASE CrashAndReopen
  <2>1. ASSUME NEW i \in Items PROVE RecoverInterruptedOutbox[i] \in RowState
    <3>1. CASE row[i] = "sending"
      BY <3>1 DEF RecoverInterruptedOutbox
    <3>2. CASE row[i] = "composing"
      BY <3>2 DEF RecoverInterruptedOutbox
    <3>3. CASE row[i] \notin {"sending", "composing"}
      BY <3>3 DEF RecoverInterruptedOutbox
    <3> QED BY <3>1, <3>2, <3>3
  <2>2. RecoverInterruptedOutbox \in [Items -> RowState]
    BY <2>1 DEF RecoverInterruptedOutbox
  <2>3. row' \in [Items -> RowState]
    BY <1>3, <2>2 DEF CrashAndReopen
  <2>4. /\ pc' \in [Workers -> TaskState]
        /\ job' \in [Workers -> Items \cup {NoItem}]
        /\ mid' \in [Workers -> Nat]
    BY <1>3 DEF CrashAndReopen
  <2>5. JobInv'
    BY <1>3 DEF CrashAndReopen
  <2>6. /\ messageId' \in [Items -> Nat]
        /\ sentCopy' \in [Items -> CopyState]
        /\ account' \in {"enabled", "disabled", "removed"}
        /\ attempt' \in [Items -> Nat]
        /\ decision' \in [Items -> Nat]
        /\ wire' \subseteq Transmission
        /\ accepted' \subseteq Transmission
    BY <1>3 DEF CrashAndReopen
  <2>7. attached' \in BOOLEAN /\ respawn' \subseteq Items
    BY <1>3, Zenon DEF CrashAndReopen
  <2>8. restarts' \in Nat /\ setups' \in Nat /\ faults' \in Nat
    BY <1>3 DEF CrashAndReopen
  <2> QED BY <2>3, <2>4, <2>5, <2>6, <2>7, <2>8
<1>4. CASE Setup
  BY <1>4 DEF Setup
<1>5. ASSUME NEW i \in Items, ComposeDelivery(i) PROVE TypeOK' /\ JobInv'
  BY <1>5 DEF ComposeDelivery
<1>6. ASSUME NEW i \in Items, CancelOutboxItem(i) PROVE TypeOK' /\ JobInv'
  BY <1>6 DEF CancelOutboxItem, SetOutboxState
<1>7. ASSUME NEW w \in Workers, NEW i \in Items, RetryOutboxItem(w, i)
      PROVE TypeOK' /\ JobInv'
  BY <1>7 DEF RetryOutboxItem, SetOutboxState, Spawn
<1>8. ASSUME NEW w \in Workers, NEW i \in Items, QueueDraft(w, i)
      PROVE TypeOK' /\ JobInv'
  BY <1>8 DEF QueueDraft, Spawn
<1>9. ASSUME NEW w \in Workers, NEW i \in Items, RespawnQueued(w, i)
      PROVE TypeOK' /\ JobInv'
  BY <1>9 DEF RespawnQueued, Spawn
<1>10. ASSUME NEW w \in Workers, ClaimOutboxForSending(w)
      PROVE TypeOK' /\ JobInv'
  BY <1>10 DEF ClaimOutboxForSending, Goto, EndTask
<1>11. ASSUME NEW w \in Workers, PrepareDelivery(w) PROVE TypeOK' /\ JobInv'
  BY <1>11 DEF PrepareDelivery, Goto
<1>12. ASSUME NEW w \in Workers, StoreOutboxPayloadIfMissing(w)
      PROVE TypeOK' /\ JobInv'
  BY <1>12 DEF StoreOutboxPayloadIfMissing, Goto
<1>13. ASSUME NEW w \in Workers, ConnectFails(w) PROVE TypeOK' /\ JobInv'
  BY <1>13 DEF ConnectFails, Goto
<1>14. ASSUME NEW w \in Workers, Transmit(w) PROVE TypeOK' /\ JobInv'
  BY <1>14 DEF Transmit, Goto, OwnTransmission
<1>15. ASSUME NEW w \in Workers, ReplyAccepted(w) PROVE TypeOK' /\ JobInv'
  BY <1>15 DEF ReplyAccepted, Goto
<1>16. ASSUME NEW w \in Workers, ReplyRejected(w) PROVE TypeOK' /\ JobInv'
  BY <1>16 DEF ReplyRejected, Goto, OwnTransmission
<1>17. ASSUME NEW w \in Workers, ReplyLost(w) PROVE TypeOK' /\ JobInv'
  BY <1>17 DEF ReplyLost, Goto
<1>18. ASSUME NEW w \in Workers, CompleteOutboxSent(w) PROVE TypeOK' /\ JobInv'
  BY <1>18 DEF CompleteOutboxSent, Goto, EndTask
<1>19. ASSUME NEW w \in Workers, PersistFailed(w) PROVE TypeOK' /\ JobInv'
  BY <1>19 DEF PersistFailed, SetOutboxState, EndTask
<1>20. ASSUME NEW w \in Workers, PersistUnknown(w) PROVE TypeOK' /\ JobInv'
  BY <1>20 DEF PersistUnknown, SetOutboxState, EndTask
<1>21. ASSUME NEW w \in Workers, RequestReconciliation(w)
      PROVE TypeOK' /\ JobInv'
  BY <1>21 DEF RequestReconciliation, EndTask
<1>22. ASSUME NEW w \in Workers, ClaimFault(w) PROVE TypeOK' /\ JobInv'
  BY <1>22 DEF ClaimFault, EndTask
<1>23. ASSUME NEW w \in Workers, StoreFault(w) PROVE TypeOK' /\ JobInv'
  BY <1>23 DEF StoreFault, Goto
<1>24. ASSUME NEW w \in Workers, PersistFault(w) PROVE TypeOK' /\ JobInv'
  BY <1>24 DEF PersistFault, EndTask
<1>25. ASSUME NEW t \in wire, ServerAccepts(t) PROVE TypeOK' /\ JobInv'
  BY <1>25 DEF ServerAccepts
<1>26. CASE UNCHANGED vars
  BY <1>26 DEF vars
<1> QED
  BY <1>1, <1>2, <1>3, <1>4, <1>5, <1>6, <1>7, <1>8, <1>9, <1>10, <1>11,
     <1>12, <1>13, <1>14, <1>15, <1>16, <1>17, <1>18, <1>19, <1>20, <1>21,
     <1>22, <1>23, <1>24, <1>25, <1>26
  DEF Next, UserCommand, SpawnQueued, Deliver, DatabaseFault

\* Every step keeps the rest of the invariant.
LEMMA InvariantStep == IInv /\ [Next]_vars => IInv'
<1> SUFFICES ASSUME IInv, [Next]_vars PROVE IInv'
  OBVIOUS
<1> USE DEF TypeOK, JobInv, RowState, CopyState, TaskState, Transmission, IInv,
  dbVars, taskVars, appVars, serverVars, countVars, Copies, Delivering,
  CopiesInv, RowInv, TaskInv, PayloadInv, Fresh, Taken, OwnTransmission,
  OneCopyPerDecision, ExclusiveDelivery, StableMessageId
<1>0. TypeOK' /\ JobInv'
  BY TypeStep
<1>1. CASE SetAccountEnabled
  BY <1>0, <1>1 DEF SetAccountEnabled
\* The rows of delivering tasks become deleted; rows not yet queued never had a
\* copy, so losing a payload cannot hurt them.
<1>2. CASE RemoveAccount
  <2>1. CopiesInv'
    BY <1>0, <1>2 DEF RemoveAccount
  <2>2. ExclusiveDelivery'
    BY <1>0, <1>2 DEF RemoveAccount
  <2>3. StableMessageId'
    BY <1>0, <1>2 DEF RemoveAccount
  <2>4. RowInv' /\ TaskInv' /\ PayloadInv' /\ OneCopyPerDecision'
    BY <1>0, <1>2 DEF RemoveAccount
  <2> QED BY <1>0, <2>1, <2>2, <2>3, <2>4
\* Nobody delivers any more, and no row that may have left becomes queued.
<1>3. CASE CrashAndReopen
  <2>1. RowInv'
    BY <1>0, <1>3 DEF CrashAndReopen, RecoverInterruptedOutbox
  <2>2. TaskInv'
    BY <1>0, <1>3 DEF CrashAndReopen, RecoverInterruptedOutbox
  <2>3. StableMessageId'
    BY <1>0, <1>3 DEF CrashAndReopen, RecoverInterruptedOutbox
  <2>4. CopiesInv' /\ PayloadInv' /\ OneCopyPerDecision' /\ ExclusiveDelivery'
    BY <1>0, <1>3 DEF CrashAndReopen, RecoverInterruptedOutbox
  <2> QED BY <1>0, <2>1, <2>2, <2>3, <2>4
<1>4. CASE Setup
  BY <1>0, <1>4 DEF Setup
<1>5. ASSUME NEW i \in Items, ComposeDelivery(i) PROVE IInv'
  BY <1>0, <1>5 DEF ComposeDelivery
<1>6. ASSUME NEW i \in Items, CancelOutboxItem(i) PROVE IInv'
  BY <1>0, <1>6 DEF CancelOutboxItem, SetOutboxState, AllowedSource
<1>7. ASSUME NEW w \in Workers, NEW i \in Items, QueueDraft(w, i) PROVE IInv'
  BY <1>0, <1>7 DEF QueueDraft, Spawn
\* Nobody delivers the row (ExclusiveDelivery).  A failed row was fresh; an unknown
\* one becomes fresh, as no copy is ahead of its decision (CopiesInv).
<1>8. ASSUME NEW w \in Workers, NEW i \in Items, RetryOutboxItem(w, i)
      PROVE IInv'
  <2>1. CopiesInv'
    BY <1>0, <1>8 DEF RetryOutboxItem, SetOutboxState, AllowedSource, Spawn
  <2>2. RowInv'
    BY <1>0, <1>8 DEF RetryOutboxItem, SetOutboxState, AllowedSource, Spawn
  <2>3. TaskInv'
    BY <1>0, <1>8 DEF RetryOutboxItem, SetOutboxState, AllowedSource, Spawn
  <2>4. OneCopyPerDecision'
    BY <1>0, <1>8 DEF RetryOutboxItem, SetOutboxState, AllowedSource, Spawn
  <2>5. PayloadInv' /\ ExclusiveDelivery' /\ StableMessageId'
    BY <1>0, <1>8 DEF RetryOutboxItem, SetOutboxState, AllowedSource, Spawn
  <2> QED BY <1>0, <2>1, <2>2, <2>3, <2>4, <2>5
<1>9. ASSUME NEW w \in Workers, NEW i \in Items, RespawnQueued(w, i) PROVE IInv'
  BY <1>0, <1>9 DEF RespawnQueued, Spawn
\* A queued row is fresh and has no task, so the claim keeps the row exclusive.
<1>10. ASSUME NEW w \in Workers, ClaimOutboxForSending(w) PROVE IInv'
  <2>1. TaskInv'
    BY <1>0, <1>10 DEF ClaimOutboxForSending, Goto, EndTask
  <2>2. ExclusiveDelivery'
    BY <1>0, <1>10 DEF ClaimOutboxForSending, Goto, EndTask
  <2>3. CopiesInv' /\ RowInv' /\ PayloadInv' /\ OneCopyPerDecision' /\
        StableMessageId'
    BY <1>0, <1>10 DEF ClaimOutboxForSending, Goto, EndTask
  <2> QED BY <1>0, <2>1, <2>2, <2>3
<1>11. ASSUME NEW w \in Workers, PrepareDelivery(w) PROVE IInv'
  BY <1>0, <1>11 DEF PrepareDelivery, Goto
\* A row whose payload is missing has no copy yet (StableMessageId).
<1>12. ASSUME NEW w \in Workers, StoreOutboxPayloadIfMissing(w) PROVE IInv'
  <2>1. PayloadInv'
    BY <1>0, <1>12 DEF StoreOutboxPayloadIfMissing, Goto
  <2>2. StableMessageId'
    BY <1>0, <1>12 DEF StoreOutboxPayloadIfMissing, Goto
  <2>3. CopiesInv' /\ RowInv' /\ TaskInv' /\ OneCopyPerDecision' /\
        ExclusiveDelivery'
    BY <1>0, <1>12 DEF StoreOutboxPayloadIfMissing, Goto
  <2> QED BY <1>0, <2>1, <2>2, <2>3
<1>13. ASSUME NEW w \in Workers, ConnectFails(w) PROVE IInv'
  BY <1>0, <1>13 DEF ConnectFails, Goto
\* The row was fresh, so the new transmission is the only one of its decision.
<1>14. ASSUME NEW w \in Workers, Transmit(w) PROVE IInv'
  <2>1. CopiesInv'
    BY <1>0, <1>14 DEF Transmit, Goto
  <2>2. RowInv'
    BY <1>0, <1>14 DEF Transmit, Goto
  <2>3. TaskInv'
    BY <1>0, <1>14 DEF Transmit, Goto
  <2>4. OneCopyPerDecision'
    BY <1>0, <1>14 DEF Transmit, Goto
  <2>5. StableMessageId'
    BY <1>0, <1>14 DEF Transmit, Goto
  <2>6. PayloadInv' /\ ExclusiveDelivery'
    BY <1>0, <1>14 DEF Transmit, Goto
  <2> QED BY <1>0, <2>1, <2>2, <2>3, <2>4, <2>5, <2>6
<1>15. ASSUME NEW w \in Workers, ReplyAccepted(w) PROVE IInv'
  BY <1>0, <1>15 DEF ReplyAccepted, Goto
\* The task's own transmission was the only one, and it is taken back.
<1>16. ASSUME NEW w \in Workers, ReplyRejected(w) PROVE IInv'
  <2>1. TaskInv'
    BY <1>0, <1>16 DEF ReplyRejected, Goto
  <2>2. RowInv'
    BY <1>0, <1>16 DEF ReplyRejected, Goto
  <2>3. CopiesInv' /\ PayloadInv' /\ OneCopyPerDecision' /\ ExclusiveDelivery' /\
        StableMessageId'
    BY <1>0, <1>16 DEF ReplyRejected, Goto
  <2> QED BY <1>0, <2>1, <2>2, <2>3
<1>17. ASSUME NEW w \in Workers, ReplyLost(w) PROVE IInv'
  BY <1>0, <1>17 DEF ReplyLost, Goto
<1>18. ASSUME NEW w \in Workers, CompleteOutboxSent(w) PROVE IInv'
  <2>1. RowInv'
    BY <1>0, <1>18 DEF CompleteOutboxSent, Goto, EndTask
  <2>2. StableMessageId'
    BY <1>0, <1>18 DEF CompleteOutboxSent, Goto, EndTask
  <2>3. CopiesInv' /\ TaskInv' /\ PayloadInv' /\ OneCopyPerDecision' /\
        ExclusiveDelivery'
    BY <1>0, <1>18 DEF CompleteOutboxSent, Goto, EndTask
  <2> QED BY <1>0, <2>1, <2>2, <2>3
\* A task on its way to a definite error has left nothing at the server.
<1>19. ASSUME NEW w \in Workers, PersistFailed(w) PROVE IInv'
  <2>1. RowInv'
    BY <1>0, <1>19 DEF PersistFailed, SetOutboxState, AllowedSource, EndTask
  <2>2. TaskInv'
    BY <1>0, <1>19 DEF PersistFailed, SetOutboxState, AllowedSource, EndTask
  <2>3. CopiesInv' /\ PayloadInv' /\ OneCopyPerDecision' /\ ExclusiveDelivery' /\
        StableMessageId'
    BY <1>0, <1>19 DEF PersistFailed, SetOutboxState, AllowedSource, EndTask
  <2> QED BY <1>0, <2>1, <2>2, <2>3
<1>20. ASSUME NEW w \in Workers, PersistUnknown(w) PROVE IInv'
  BY <1>0, <1>20 DEF PersistUnknown, SetOutboxState, AllowedSource, EndTask
<1>21. ASSUME NEW w \in Workers, RequestReconciliation(w) PROVE IInv'
  BY <1>0, <1>21 DEF RequestReconciliation, EndTask
<1>22. ASSUME NEW w \in Workers, ClaimFault(w) PROVE IInv'
  BY <1>0, <1>22 DEF ClaimFault, EndTask
<1>23. ASSUME NEW w \in Workers, StoreFault(w) PROVE IInv'
  BY <1>0, <1>23 DEF StoreFault, Goto
<1>24. ASSUME NEW w \in Workers, PersistFault(w) PROVE IInv'
  BY <1>0, <1>24 DEF PersistFault, EndTask
<1>25. ASSUME NEW t \in wire, ServerAccepts(t) PROVE IInv'
  <2>1. CopiesInv'
    BY <1>0, <1>25 DEF ServerAccepts
  <2>2. RowInv'
    BY <1>0, <1>25 DEF ServerAccepts
  <2>3. TaskInv'
    BY <1>0, <1>25 DEF ServerAccepts
  <2>4. PayloadInv' /\ OneCopyPerDecision' /\ ExclusiveDelivery' /\
        StableMessageId'
    BY <1>0, <1>25 DEF ServerAccepts
  <2> QED BY <1>0, <2>1, <2>2, <2>3, <2>4
<1>26. CASE UNCHANGED vars
  BY <1>26 DEF vars
<1> QED
  BY <1>1, <1>2, <1>3, <1>4, <1>5, <1>6, <1>7, <1>8, <1>9, <1>10, <1>11,
     <1>12, <1>13, <1>14, <1>15, <1>16, <1>17, <1>18, <1>19, <1>20, <1>21,
     <1>22, <1>23, <1>24, <1>25, <1>26
  DEF Next, UserCommand, SpawnQueued, Deliver, DatabaseFault

\* The state a process starts from satisfies the invariant: nothing is at the
\* server, no task exists, and a legacy row is queued without a payload.
LEMMA InitEstablishes == Init => IInv
<1> SUFFICES ASSUME Init PROVE IInv
  OBVIOUS
<1> USE DEF Init
<1>1. TypeOK
  BY DEF TypeOK, RowState, CopyState, TaskState, QueuedMessageId
<1>2. Copies = {} /\ \A w \in Workers : pc[w] = "idle"
  BY DEF Copies
<1>3. CopiesInv /\ OneCopyPerDecision /\ StableMessageId
  BY <1>2 DEF CopiesInv, OneCopyPerDecision, StableMessageId
<1>4. RowInv
  BY <1>2 DEF RowInv, Fresh
<1>5. JobInv /\ TaskInv /\ PayloadInv /\ ExclusiveDelivery
  BY <1>2 DEF JobInv, TaskInv, PayloadInv, ExclusiveDelivery, Delivering
<1> QED BY <1>1, <1>3, <1>4, <1>5 DEF IInv

\* The inductive invariant holds throughout.
THEOREM Invariance == Spec => []IInv
<1>1. IInv /\ [Next]_vars => IInv'
  BY InvariantStep
<1> QED
  BY InitEstablishes, <1>1, PTL DEF Spec

-----------------------------------------------------------------------------
\* Every variable keeps its type (TypeOK).
THEOREM TypeCorrectness == Spec => []TypeOK
<1>1. IInv => TypeOK
  BY DEF IInv
<1> QED BY Invariance, <1>1, PTL

\* deliver_outbox never resends blindly: one transmission per decision of the
\* user to send, for any number of tasks, restarts and lost answers.
THEOREM NoBlindResend == Spec => []OneCopyPerDecision
<1>1. IInv => OneCopyPerDecision
  BY DEF IInv
<1> QED BY Invariance, <1>1, PTL

\* claim_outbox_for_sending makes a delivery exclusive until its outcome is
\* recorded.
THEOREM ClaimIsExclusive == Spec => []ExclusiveDelivery
<1>1. IInv => ExclusiveDelivery
  BY DEF IInv
<1> QED BY Invariance, <1>1, PTL

\* A row the code calls failed, or keeps in the queue, has nothing of its present
\* decision at the server.
THEOREM FailureIsDefinite == Spec => []DefiniteFailure
<1>1. IInv => DefiniteFailure
  BY DEF IInv, RowInv, Fresh, DefiniteFailure, TypeOK, Transmission, Copies
<1> QED BY Invariance, <1>1, PTL

\* store_outbox_payload_if_missing fixes the Message-ID of every transmission.
THEOREM MessageIdIsStable == Spec => []StableMessageId
<1>1. IInv => StableMessageId
  BY DEF IInv
<1> QED BY Invariance, <1>1, PTL

\* complete_outbox_sent writes sent only for a message the server has taken.
THEOREM SentWasAccepted == Spec => []SentIsAccepted
<1>1. IInv => SentIsAccepted
  BY DEF IInv, RowInv, Taken, SentIsAccepted
<1> QED BY Invariance, <1>1, PTL

\* No step hands a message to the network whose row the user has cancelled: only
\* a delivering task transmits, and its row is not cancelled.
THEOREM CancelledIsNotSent == Spec => NothingSentAfterCancel
<1> DEFINE NotCancelled == \A t \in wire' \ wire : row[t.item] # "cancelled"
<1>1. ASSUME IInv, NEW w \in Workers, Transmit(w) PROVE NotCancelled
  BY <1>1 DEF Transmit, OwnTransmission, IInv, ExclusiveDelivery, Delivering
<1>2. ASSUME IInv, Next, \A w \in Workers : ~Transmit(w)
      PROVE wire' \subseteq wire
  BY <1>2 DEF Next, UserCommand, SpawnQueued, Deliver, DatabaseFault,
    ComposeDelivery, CancelOutboxItem, RetryOutboxItem, SetAccountEnabled,
    RemoveAccount, CrashAndReopen, Setup, QueueDraft, RespawnQueued,
    ClaimOutboxForSending, PrepareDelivery, StoreOutboxPayloadIfMissing,
    ConnectFails, ReplyAccepted, ReplyRejected, ReplyLost, CompleteOutboxSent,
    PersistFailed, PersistUnknown, RequestReconciliation, ClaimFault, StoreFault,
    PersistFault, ServerAccepts, serverVars
<1>3. IInv /\ [Next]_vars => [NotCancelled]_vars
  BY <1>1, <1>2
<1> QED BY Invariance, <1>3, PTL DEF Spec, NothingSentAfterCancel

-----------------------------------------------------------------------------
(***************************************************************************)
(* The outbox implements AbstractDelivery.                                 *)
(***************************************************************************)

\* A task delivers the row i.
Served(i) == \E w \in Workers : Delivering(w) /\ job[w] = i

\* Rows are deleted only with their account.
RemovedInv == account # "removed" => \A i \in Items : row[i] # "deleted"

\* Only the removal of the account deletes rows.
LEMMA RemovedStep ==
  ASSUME TypeOK, RemovedInv, [Next]_vars PROVE RemovedInv'
<1> USE DEF RemovedInv, TypeOK
<1>1. ASSUME UNCHANGED account,
             \A i \in Items : row'[i] = "deleted" => row[i] = "deleted"
      PROVE  RemovedInv'
  BY <1>1
<1>2. CASE SetAccountEnabled
  BY <1>2 DEF SetAccountEnabled
<1>3. CASE RemoveAccount
  BY <1>3 DEF RemoveAccount
<1>4. CASE CrashAndReopen
  <2>1. \A i \in Items : row'[i] = "deleted" => row[i] = "deleted"
    BY <1>4 DEF CrashAndReopen, RecoverInterruptedOutbox
  <2> QED BY <1>1, <1>4, <2>1 DEF CrashAndReopen
<1>5. CASE Setup \/ UNCHANGED vars \/ \E t \in wire : ServerAccepts(t)
  BY <1>1, <1>5 DEF Setup, vars, dbVars, ServerAccepts
<1>6. ASSUME NEW i \in Items, ComposeDelivery(i) \/ CancelOutboxItem(i)
      PROVE  RemovedInv'
  BY <1>1, <1>6 DEF ComposeDelivery, CancelOutboxItem, SetOutboxState
<1>7. ASSUME NEW w \in Workers, NEW i \in Items,
             RetryOutboxItem(w, i) \/ QueueDraft(w, i) \/ RespawnQueued(w, i)
      PROVE  RemovedInv'
  BY <1>1, <1>7 DEF RetryOutboxItem, QueueDraft, RespawnQueued, SetOutboxState, dbVars
<1>8. ASSUME NEW w \in Workers, Deliver(w) \/ DatabaseFault(w)
      PROVE  RemovedInv'
  <2>1. UNCHANGED account
    BY <1>8 DEF Deliver, DatabaseFault, ClaimOutboxForSending, PrepareDelivery,
      StoreOutboxPayloadIfMissing, ConnectFails, Transmit, ReplyAccepted, ReplyRejected,
      ReplyLost, CompleteOutboxSent, PersistFailed, PersistUnknown, RequestReconciliation,
      ClaimFault, StoreFault, PersistFault, dbVars
  <2>2. row' = row \/ \E s \in {"sending", "sent", "failed", "outcome_unknown"} :
                        row' = [row EXCEPT ![job[w]] = s]
    BY <1>8 DEF Deliver, DatabaseFault, ClaimOutboxForSending, PrepareDelivery,
      StoreOutboxPayloadIfMissing, ConnectFails, Transmit, ReplyAccepted, ReplyRejected,
      ReplyLost, CompleteOutboxSent, PersistFailed, PersistUnknown, RequestReconciliation,
      ClaimFault, StoreFault, PersistFault, dbVars, SetOutboxState
  <2> QED BY <1>1, <2>1, <2>2
<1> QED
  BY <1>2, <1>3, <1>4, <1>5, <1>6, <1>7, <1>8 DEF Next, UserCommand, SpawnQueued

\* The status of a row, state by state.
LEMMA StatusTable ==
  ASSUME TypeOK, NEW i \in Items
  PROVE  /\ row[i] \in {"unused", "composing"} => StatusOf(i) = "none"
         /\ row[i] = "queued" => StatusOf(i) = "waiting"
         /\ row[i] = "sending" => StatusOf(i) = "trying"
         /\ row[i] = "sent" => StatusOf(i) = "delivered"
         /\ row[i] = "failed" => StatusOf(i) = "undelivered"
         /\ row[i] = "outcome_unknown" => StatusOf(i) = "unknown"
         /\ row[i] = "cancelled" => StatusOf(i) = "withdrawn"
         /\ row[i] = "deleted" /\ Served(i) => StatusOf(i) = "orphaned"
         /\ row[i] = "deleted" /\ ~Served(i) => StatusOf(i) = "gone"
BY DEF StatusOf, Served

\* The same after a step.
LEMMA StatusTableNext ==
  ASSUME TypeOK', NEW i \in Items
  PROVE  /\ row'[i] \in {"unused", "composing"} => StatusOf(i)' = "none"
         /\ row'[i] = "queued" => StatusOf(i)' = "waiting"
         /\ row'[i] = "sending" => StatusOf(i)' = "trying"
         /\ row'[i] = "sent" => StatusOf(i)' = "delivered"
         /\ row'[i] = "failed" => StatusOf(i)' = "undelivered"
         /\ row'[i] = "outcome_unknown" => StatusOf(i)' = "unknown"
         /\ row'[i] = "cancelled" => StatusOf(i)' = "withdrawn"
         /\ row'[i] = "deleted" /\ Served(i)' => StatusOf(i)' = "orphaned"
         /\ row'[i] = "deleted" /\ ~Served(i)' => StatusOf(i)' = "gone"
BY DEF StatusOf, Served

\* A row that stays as it is, and is served as before, keeps its status.
LEMMA SameStatus ==
  ASSUME NEW i \in Items, row'[i] = row[i], row[i] = "deleted" => (Served(i)' <=> Served(i)),
         TypeOK
  PROVE  StatusOf(i)' = StatusOf(i)
BY DEF StatusOf, Served, TypeOK, RowState

\* The copies of the present decision of a row, in the view of AbstractDelivery.
LEMMA PresentOrder ==
  ASSUME NEW S, NEW i
  PROVE  <<i, decision[i]>> \in Orders(S) <=>
           \E t \in S : t.item = i /\ t.decision = decision[i]
BY DEF Orders

\* A step after which every row has the status it had.
LEMMA Stutter ==
  ASSUME TypeOK, \A i \in Items : StatusOf(i)' = StatusOf(i),
         UNCHANGED <<decision, serverVars>>
  PROVE  UNCHANGED Delivery!vars
BY DEF Delivery!vars, Orders, serverVars

\* A step that gives one row another status.
LEMMA Change ==
  ASSUME TypeOK, NEW i \in Items, NEW to, StatusOf(i)' = to,
         \A j \in Items : j # i => StatusOf(j)' = StatusOf(j),
         UNCHANGED <<decision, serverVars>>, NEW from, StatusOf(i) \in from
  PROVE  Delivery!Becomes(i, from, to)
BY DEF Delivery!Becomes, Orders, serverVars

\* The step of a task leaves the status of the rows it does not deliver alone.
LEMMA OtherRow ==
  ASSUME TypeOK, NEW w \in Workers, NEW j \in Items,
         \A v \in Workers : v # w => pc'[v] = pc[v] /\ job'[v] = job[v],
         Delivering(w) => job[w] # j, Delivering(w)' => job'[w] # j,
         row'[j] = row[j]
  PROVE  StatusOf(j)' = StatusOf(j)
<1>1. Served(j)' <=> Served(j)
  BY DEF Served, Delivering
<1> QED BY <1>1, SameStatus

\* A task is not delivering, before the step and after it.
LEMMA NotDelivering ==
  ASSUME TypeOK, NEW w \in Workers,
         \A v \in Workers : v # w => pc'[v] = pc[v] /\ job'[v] = job[v],
         ~Delivering(w), ~Delivering(w)', NEW j \in Items, row'[j] = row[j]
  PROVE  StatusOf(j)' = StatusOf(j)
BY OtherRow

\* A delivering task that goes on delivering is a stutter.
LEMMA GoesOn ==
  ASSUME TypeOK, NEW w \in Workers, NEW label \in TaskState,
         Delivering(w), label \notin {"idle", "spawned", "reconcile"},
         pc' = [pc EXCEPT ![w] = label], UNCHANGED <<job, row>>
  PROVE  \A j \in Items : StatusOf(j)' = StatusOf(j)
<1>1. \A v \in Workers : Delivering(v)' <=> Delivering(v)
  BY DEF Delivering, TypeOK
<1>2. \A j \in Items : Served(j)' <=> Served(j)
  BY <1>1 DEF Served
<1> QED BY <1>2, SameStatus

\* A delivering task that ends leaves its row with the status of the state it gave
\* it; a row that was deleted under it is gone.
LEMMA Ends ==
  ASSUME IInv, TypeOK', NEW w \in Workers, NEW i \in Items, i = job[w],
         Delivering(w), ~Delivering(w)',
         \A v \in Workers : v # w => pc'[v] = pc[v] /\ job'[v] = job[v],
         \A j \in Items : j # i => row'[j] = row[j]
  PROVE  /\ \A j \in Items : j # i => StatusOf(j)' = StatusOf(j)
         /\ \/ row[i] = "sending" /\ StatusOf(i) = "trying"
            \/ row[i] = "deleted" /\ StatusOf(i) = "orphaned"
         /\ row'[i] = "deleted" => StatusOf(i)' = "gone"
<1>1. row[i] \in {"sending", "deleted"} /\ Served(i)
  BY DEF IInv, ExclusiveDelivery, Served
<1>2. ~Served(i)'
  BY DEF IInv, ExclusiveDelivery, Served, Delivering
<1>3. \A j \in Items : j # i => StatusOf(j)' = StatusOf(j)
  BY OtherRow DEF IInv
<1> QED BY <1>1, <1>2, <1>3, StatusTable, StatusTableNext DEF IInv

\* The outbox starts as AbstractDelivery does.
LEMMA InitMaps == Init => Delivery!Init
BY DEF Init, Delivery!Init, StatusOf, Orders

\* Every step of the outbox is a step of AbstractDelivery or changes nothing there.
LEMMA StepMaps ==
  ASSUME IInv, IInv', RemovedInv, [Next]_vars
  PROVE  [Delivery!Next]_(Delivery!vars)
<1>0. TypeOK /\ TypeOK'
  BY DEF IInv
<1> USE DEF dbVars, taskVars, serverVars
<1>1. ASSUME NEW i \in Items, ComposeDelivery(i)
      PROVE  UNCHANGED Delivery!vars
  <2>1. \A j \in Items : StatusOf(j)' = StatusOf(j)
    <3>1. \A j \in Items : Served(j)' <=> Served(j)
      BY <1>1 DEF ComposeDelivery, Served, Delivering
    <3>2. StatusOf(i)' = StatusOf(i)
      BY <1>0, <1>1, StatusTable, StatusTableNext DEF ComposeDelivery, TypeOK
    <3>3. \A j \in Items : j # i => row'[j] = row[j]
      BY <1>0, <1>1 DEF ComposeDelivery, TypeOK
    <3> QED BY <1>0, <3>1, <3>2, <3>3, SameStatus
  <2> QED BY <1>0, <1>1, <2>1, Stutter DEF ComposeDelivery
<1>2. ASSUME NEW i \in Items, CancelOutboxItem(i)
      PROVE  Delivery!Withdraw(i)
  <2>1. row' = [row EXCEPT ![i] = "cancelled"]
        /\ row[i] \in {"queued", "failed", "outcome_unknown"}
    BY <1>2 DEF CancelOutboxItem, SetOutboxState, AllowedSource
  <2>2. StatusOf(i) \in {"waiting", "undelivered", "unknown"} /\ StatusOf(i)' = "withdrawn"
    BY <1>0, <2>1, StatusTable, StatusTableNext DEF TypeOK
  <2>3. \A j \in Items : j # i => StatusOf(j)' = StatusOf(j)
    BY <1>0, <1>2, <2>1, SameStatus DEF CancelOutboxItem, Served, Delivering, TypeOK
  <2> QED BY <1>0, <1>2, <2>2, <2>3, Change DEF CancelOutboxItem, Delivery!Withdraw
<1>3. CASE SetAccountEnabled \/ Setup \/ UNCHANGED vars
  <2>1. UNCHANGED <<row, taskVars, decision, serverVars>>
    BY <1>3 DEF SetAccountEnabled, Setup, vars
  <2>2. \A j \in Items : StatusOf(j)' = StatusOf(j)
    BY <1>0, <2>1, SameStatus DEF Served, Delivering
  <2> QED BY <1>0, <2>1, <2>2, Stutter
<1>4. CASE RemoveAccount
  <2> DEFINE outliving == {i \in Items : row[i] = "sending" /\ Served(i)}
  <2>1. \A i \in Items : row[i] # "deleted"
    BY <1>4 DEF RemoveAccount, RemovedInv
  <2>2. \A i \in Items : Served(i)' <=> Served(i)
    BY <1>4 DEF RemoveAccount, Served, Delivering
  <2>3. \A i \in Items : Served(i) => row[i] = "sending"
    BY <2>1 DEF IInv, ExclusiveDelivery, Served
  <2>4. \A i \in Items : /\ row[i] \in {"unused", "composing"} => row'[i] = row[i]
                         /\ row[i] \notin {"unused", "composing"} => row'[i] = "deleted"
    BY <1>4 DEF RemoveAccount
  <2>5. \A i \in Items : StatusOf(i) = "none" <=> row[i] \in {"unused", "composing"}
    BY <1>0, <2>1, StatusTable DEF TypeOK, RowState
  <2>6. ASSUME NEW i \in Items
        PROVE  StatusOf(i)' = CASE StatusOf(i) = "none" -> "none"
                                [] i \in outliving      -> "orphaned"
                                [] OTHER                -> "gone"
    <3>1. CASE row[i] \in {"unused", "composing"}
      BY <1>0, <2>4, <2>5, <3>1, StatusTableNext
    <3>2. CASE row[i] \notin {"unused", "composing"} /\ i \in outliving
      <4>1. StatusOf(i)' = "orphaned"
        BY <1>0, <2>2, <2>4, <3>2, StatusTableNext
      <4> QED BY <2>5, <3>2, <4>1
    <3>3. CASE row[i] \notin {"unused", "composing"} /\ i \notin outliving
      <4>1. StatusOf(i)' = "gone"
        BY <1>0, <2>2, <2>3, <2>4, <3>3, StatusTableNext
      <4> QED BY <2>5, <3>3, <4>1
    <3> QED BY <3>1, <3>2, <3>3
  <2>7. outliving \in SUBSET {i \in Items : StatusOf(i) = "trying"}
    BY <1>0, StatusTable
  <2>8. UNCHANGED <<decision, serverVars>>
    BY <1>4 DEF RemoveAccount
  <2>9. Delivery!Remove
    BY <2>6, <2>7, <2>8 DEF Delivery!Remove, Orders
  <2> QED BY <2>9 DEF Delivery!Next
<1>5. CASE CrashAndReopen
  <2>1. \A i \in Items : ~Served(i)'
    BY <1>5 DEF CrashAndReopen, Served, Delivering
  <2>2. row' = RecoverInterruptedOutbox /\ UNCHANGED <<decision, serverVars>>
    BY <1>5 DEF CrashAndReopen
  <2>3. ASSUME NEW i \in Items
        PROVE  StatusOf(i)' = CASE StatusOf(i) = "trying"   -> "unknown"
                                [] StatusOf(i) = "orphaned" -> "gone"
                                [] OTHER                    -> StatusOf(i)
    <3>1. CASE row[i] = "sending"
      <4>1. row'[i] = "outcome_unknown"
        BY <2>2, <3>1 DEF RecoverInterruptedOutbox
      <4> QED BY <1>0, <3>1, <4>1, StatusTable, StatusTableNext
    <3>2. CASE row[i] = "composing"
      <4>1. row'[i] = "unused"
        BY <2>2, <3>2 DEF RecoverInterruptedOutbox
      <4> QED BY <1>0, <3>2, <4>1, StatusTable, StatusTableNext
    <3>3. CASE row[i] = "deleted"
      <4>1. row'[i] = "deleted"
        BY <2>2, <3>3 DEF RecoverInterruptedOutbox
      <4>2. StatusOf(i)' = "gone" /\ StatusOf(i) \in {"orphaned", "gone"}
        BY <1>0, <2>1, <3>3, <4>1, StatusTable, StatusTableNext
      <4> QED BY <4>2
    <3>4. CASE row[i] \notin {"sending", "composing", "deleted"}
      <4>1. row'[i] = row[i]
        BY <2>2, <3>4 DEF RecoverInterruptedOutbox
      <4>2. StatusOf(i)' = StatusOf(i)
        BY <1>0, <3>4, <4>1, SameStatus
      <4>3. StatusOf(i) \notin {"trying", "orphaned"}
        BY <1>0, <3>4, StatusTable DEF TypeOK, RowState
      <4> QED BY <4>2, <4>3
    <3> QED BY <3>1, <3>2, <3>3, <3>4
  <2>4. Delivery!Interrupt
    BY <2>2, <2>3 DEF Delivery!Interrupt, Orders
  <2> QED BY <2>4 DEF Delivery!Next
<1>6. ASSUME NEW w \in Workers, NEW i \in Items, Spawn(w, i)
      PROVE  /\ ~Delivering(w) /\ ~Delivering(w)'
             /\ \A v \in Workers : v # w => pc'[v] = pc[v] /\ job'[v] = job[v]
  BY <1>0, <1>6 DEF Spawn, Delivering, TypeOK
<1>7. ASSUME NEW w \in Workers, NEW i \in Items, QueueDraft(w, i)
      PROVE  UNCHANGED Delivery!vars \/ Delivery!Submit(i)
  <2>1. row[i] = "composing" /\ UNCHANGED <<decision, serverVars>>
    BY <1>7 DEF QueueDraft
  <2>2. CASE account = "removed"
    <3>1. row' = [row EXCEPT ![i] = "unused"] /\ UNCHANGED taskVars
      BY <1>7, <2>2 DEF QueueDraft
    <3>2. StatusOf(i)' = StatusOf(i)
      BY <1>0, <2>1, <3>1, StatusTable, StatusTableNext DEF TypeOK
    <3>3. \A j \in Items : j # i => row'[j] = row[j] /\ (Served(j)' <=> Served(j))
      BY <1>0, <3>1 DEF TypeOK, Served, Delivering
    <3> QED BY <1>0, <2>1, <3>2, <3>3, SameStatus, Stutter
  <2>3. CASE account # "removed"
    <3>1. row' = [row EXCEPT ![i] = "queued"] /\ Spawn(w, i)
      BY <1>7, <2>3 DEF QueueDraft
    <3>2. StatusOf(i) = "none" /\ StatusOf(i)' = "waiting"
      BY <1>0, <2>1, <3>1, StatusTable, StatusTableNext DEF TypeOK
    <3>3. \A j \in Items : j # i => StatusOf(j)' = StatusOf(j)
      BY <1>0, <1>6, <3>1, NotDelivering DEF TypeOK
    <3> QED BY <1>0, <2>1, <3>2, <3>3, Change DEF Delivery!Submit
  <2> QED BY <2>2, <2>3
<1>8. ASSUME NEW w \in Workers, NEW i \in Items, RespawnQueued(w, i)
      PROVE  UNCHANGED Delivery!vars
  <2>1. Spawn(w, i) /\ UNCHANGED <<row, decision, serverVars>>
    BY <1>8 DEF RespawnQueued
  <2> QED BY <1>0, <1>6, <2>1, NotDelivering, Stutter
<1>9. ASSUME NEW w \in Workers, NEW i \in Items, RetryOutboxItem(w, i)
      PROVE  Delivery!Retry(i) \/ Delivery!RetryUnknown(i)
  <2>1. /\ row[i] \in {"failed", "outcome_unknown"}
        /\ row' = [row EXCEPT ![i] = "queued"]
        /\ Spawn(w, i) /\ UNCHANGED serverVars
    BY <1>9 DEF RetryOutboxItem, SetOutboxState, AllowedSource
  <2>2. StatusOf(i)' = "waiting"
    BY <1>0, <2>1, StatusTableNext DEF TypeOK
  <2>3. \A j \in Items : j # i => StatusOf(j)' = StatusOf(j)
    BY <1>0, <1>6, <2>1, NotDelivering DEF TypeOK
  <2>4. CASE row[i] = "failed"
    <3>1. UNCHANGED decision /\ StatusOf(i) = "undelivered"
      BY <1>0, <1>9, <2>4, StatusTable DEF RetryOutboxItem
    <3>2. Delivery!Becomes(i, {"undelivered"}, "waiting")
      BY <1>0, <2>1, <2>2, <2>3, <3>1, Change
    <3> QED BY <3>2 DEF Delivery!Retry
  <2>5. CASE row[i] = "outcome_unknown"
    <3>1. decision' = [decision EXCEPT ![i] = @ + 1] /\ StatusOf(i) = "unknown"
      BY <1>0, <1>9, <2>5, StatusTable DEF RetryOutboxItem
    <3> QED BY <2>1, <2>2, <2>3, <3>1 DEF Delivery!RetryUnknown, Orders
  <2> QED BY <2>1, <2>4, <2>5
<1>10. ASSUME NEW t \in wire, ServerAccepts(t)
       PROVE  \E c \in Orders(wire) : Delivery!Take(c)
  <2> DEFINE c == <<t.item, t.decision>>
  <2>1. wire' = wire \ {t} /\ accepted' = accepted \cup {t} /\ UNCHANGED <<row, taskVars, decision>>
    BY <1>10 DEF ServerAccepts
  <2>2. \A j \in Items : StatusOf(j)' = StatusOf(j)
    BY <1>0, <2>1, SameStatus DEF Served, Delivering
  <2>3. c \in Orders(wire)
    BY DEF Orders
  <2>4. \A u \in wire : u # t => <<u.item, u.decision>> # c
    BY DEF IInv, OneCopyPerDecision, Copies
  <2>5. Orders(wire)' = Orders(wire) \ {c} /\ Orders(accepted)' = Orders(accepted) \cup {c}
    BY <2>1, <2>4 DEF Orders
  <2> QED BY <2>1, <2>2, <2>3, <2>5 DEF Delivery!Take

<1>11. ASSUME NEW w \in Workers, pc[w] # "idle"
       PROVE  job[w] \in Items
  BY <1>11 DEF IInv, JobInv
<1>12. ASSUME NEW w \in Workers, ClaimOutboxForSending(w)
       PROVE  UNCHANGED Delivery!vars \/ \E i \in Items : Delivery!Attempt(i)
  <2>1. PICK i \in Items : i = job[w]
    BY <1>11, <1>12 DEF ClaimOutboxForSending
  <2>2. pc[w] = "spawned" /\ ~Delivering(w) /\ UNCHANGED <<decision, serverVars>>
    BY <1>12 DEF ClaimOutboxForSending, Delivering
  <2>3. CASE row[i] = "queued"
    <3>1. row' = [row EXCEPT ![i] = "sending"] /\ Goto(w, "claimed")
      BY <1>12, <2>1, <2>3 DEF ClaimOutboxForSending
    <3>2. StatusOf(i) = "waiting" /\ StatusOf(i)' = "trying"
      BY <1>0, <2>3, <3>1, StatusTable, StatusTableNext DEF TypeOK
    <3>3. /\ \A v \in Workers : v # w => pc'[v] = pc[v] /\ job'[v] = job[v]
          /\ job'[w] = i
      BY <1>0, <2>1, <3>1 DEF Goto, TypeOK
    <3>4. \A j \in Items : j # i => StatusOf(j)' = StatusOf(j)
      BY <1>0, <2>2, <3>1, <3>3, OtherRow DEF TypeOK
    <3>5. Delivery!Becomes(i, {"waiting"}, "trying")
      BY <1>0, <2>2, <3>2, <3>4, Change
    <3> QED BY <3>5 DEF Delivery!Attempt
  <2>4. CASE row[i] # "queued"
    <3>1. UNCHANGED row /\ EndTask(w)
      BY <1>12, <2>1, <2>4 DEF ClaimOutboxForSending
    <3>2. ~Delivering(w)' /\ \A v \in Workers : v # w => pc'[v] = pc[v] /\ job'[v] = job[v]
      BY <1>0, <3>1 DEF EndTask, Delivering, TypeOK
    <3> QED BY <1>0, <2>2, <3>1, <3>2, NotDelivering, Stutter
  <2> QED BY <2>3, <2>4
<1>13. ASSUME NEW w \in Workers, ClaimFault(w) \/ RequestReconciliation(w)
       PROVE  UNCHANGED Delivery!vars
  <2>1. EndTask(w) /\ UNCHANGED <<row, decision, serverVars>>
    BY <1>13 DEF ClaimFault, RequestReconciliation
  <2>2. ~Delivering(w)
    BY <1>13 DEF ClaimFault, RequestReconciliation, Delivering
  <2>3. ~Delivering(w)' /\ \A v \in Workers : v # w => pc'[v] = pc[v] /\ job'[v] = job[v]
    BY <1>0, <2>1 DEF EndTask, Delivering, TypeOK
  <2> QED BY <1>0, <2>1, <2>2, <2>3, NotDelivering, Stutter
<1>14. ASSUME NEW w \in Workers,
              \/ PrepareDelivery(w) \/ StoreOutboxPayloadIfMissing(w) \/ StoreFault(w)
              \/ ConnectFails(w) \/ ReplyAccepted(w) \/ ReplyLost(w)
       PROVE  UNCHANGED Delivery!vars
  <2>1. Delivering(w) /\ UNCHANGED <<row, job, decision, serverVars>>
    BY <1>14 DEF PrepareDelivery, StoreOutboxPayloadIfMissing, StoreFault, ConnectFails,
                 ReplyAccepted, ReplyLost, Goto, Delivering
  <2>2. PICK label \in {"prepared", "stored", "definite_error", "accepted", "ambiguous"} :
          pc' = [pc EXCEPT ![w] = label]
    BY <1>14 DEF PrepareDelivery, StoreOutboxPayloadIfMissing, StoreFault, ConnectFails,
                 ReplyAccepted, ReplyLost, Goto
  <2>3. \A j \in Items : StatusOf(j)' = StatusOf(j)
    BY <1>0, <2>1, <2>2, GoesOn DEF TaskState
  <2> QED BY <1>0, <2>1, <2>3, Stutter
<1>15. ASSUME NEW w \in Workers, NEW i \in Items, i = job[w], Delivering(w)
       PROVE  StatusOf(i) \in {"trying", "orphaned"}
  <2>1. row[i] \in {"sending", "deleted"} /\ Served(i)
    BY <1>15 DEF IInv, ExclusiveDelivery, Served
  <2> QED BY <1>0, <2>1, StatusTable
<1>16. ASSUME NEW w \in Workers, Transmit(w)
       PROVE  \E i \in Items : Delivery!Emit(i)
  <2>1. PICK i \in Items : i = job[w]
    BY <1>11, <1>16 DEF Transmit
  <2>2. /\ pc[w] = "stored" /\ Delivering(w)
        /\ pc' = [pc EXCEPT ![w] = "transmitting"]
        /\ wire' = wire \cup {OwnTransmission(w)}
        /\ UNCHANGED <<row, job, accepted, decision>>
    BY <1>16 DEF Transmit, Goto, Delivering
  <2>3. \A j \in Items : StatusOf(j)' = StatusOf(j)
    BY <1>0, <2>2, GoesOn DEF TaskState
  <2>4. <<i, decision[i]>> \notin Orders(wire) \cup Orders(accepted)
    BY <2>1, <2>2, PresentOrder DEF IInv, TaskInv, Fresh, Copies
  <2>5. OwnTransmission(w).item = i /\ OwnTransmission(w).decision = decision[i]
    BY <2>1 DEF OwnTransmission
  <2>6. Orders(wire)' = Orders(wire) \cup {<<i, decision[i]>>}
    BY <2>2, <2>5 DEF Orders
  <2>7. StatusOf(i) \in {"trying", "orphaned"}
    BY <1>15, <2>1, <2>2
  <2> QED BY <2>2, <2>3, <2>4, <2>6, <2>7 DEF Delivery!Emit, Delivery!Present, Orders
<1>17. ASSUME NEW w \in Workers, ReplyRejected(w)
       PROVE  \E i \in Items : Delivery!Refuse(i)
  <2>1. PICK i \in Items : i = job[w]
    BY <1>11, <1>17 DEF ReplyRejected
  <2>2. /\ pc[w] = "transmitting" /\ Delivering(w) /\ OwnTransmission(w) \in wire
        /\ pc' = [pc EXCEPT ![w] = "definite_error"]
        /\ wire' = wire \ {OwnTransmission(w)}
        /\ UNCHANGED <<row, job, accepted, decision>>
    BY <1>17 DEF ReplyRejected, Goto, Delivering
  <2>3. \A j \in Items : StatusOf(j)' = StatusOf(j)
    BY <1>0, <2>2, GoesOn DEF TaskState
  <2>4. OwnTransmission(w).item = i /\ OwnTransmission(w).decision = decision[i]
    BY <2>1 DEF OwnTransmission
  <2>5. \A t \in wire : t.item = i /\ t.decision = decision[i] => t = OwnTransmission(w)
    BY <2>1, <2>2 DEF IInv, TaskInv, Copies
  <2>6. \A t \in wire : <<t.item, t.decision>> = <<i, decision[i]>> => t = OwnTransmission(w)
    BY <2>5
  <2>7. Orders(wire)' = Orders(wire) \ {<<i, decision[i]>>}
    BY <2>2, <2>4, <2>6 DEF Orders
  <2>8. <<i, decision[i]>> \in Orders(wire)
    BY <2>2, <2>4, PresentOrder
  <2>9. StatusOf(i) \in {"trying", "orphaned"}
    BY <1>15, <2>1, <2>2
  <2> QED BY <2>2, <2>3, <2>7, <2>8, <2>9 DEF Delivery!Refuse, Delivery!Present, Orders
<1>18. ASSUME NEW w \in Workers, NEW i \in Items, i = job[w], Delivering(w), ~Delivering(w)',
              \A v \in Workers : v # w => pc'[v] = pc[v] /\ job'[v] = job[v],
              UNCHANGED <<decision, serverVars>>,
              row[i] # "sending", UNCHANGED row
       PROVE  Delivery!Abandon(i)
  <2>1. /\ \A j \in Items : j # i => StatusOf(j)' = StatusOf(j)
        /\ StatusOf(i) = "orphaned" /\ StatusOf(i)' = "gone"
    BY <1>0, <1>18, Ends
  <2> QED BY <1>0, <1>18, <2>1, Change DEF Delivery!Abandon
<1>19. ASSUME NEW w \in Workers, NEW i \in Items, i = job[w], Delivering(w), ~Delivering(w)',
              \A v \in Workers : v # w => pc'[v] = pc[v] /\ job'[v] = job[v],
              UNCHANGED <<decision, serverVars>>, row[i] = "sending",
              NEW outcome \in {"sent", "failed", "outcome_unknown"},
              row' = [row EXCEPT ![i] = outcome],
              NEW to, StatusOf(i)' = to
       PROVE  Delivery!Becomes(i, {"trying"}, to)
  <2>1. \A j \in Items : j # i => row'[j] = row[j]
    BY <1>0, <1>19 DEF TypeOK
  <2>2. /\ \A j \in Items : j # i => StatusOf(j)' = StatusOf(j)
        /\ StatusOf(i) = "trying"
    BY <1>0, <1>19, <2>1, Ends
  <2> QED BY <1>0, <1>19, <2>2, Change
<1>20. ASSUME NEW w \in Workers, CompleteOutboxSent(w) \/ PersistFailed(w) \/ PersistUnknown(w)
       PROVE  \E i \in Items : \/ Delivery!Abandon(i) \/ Delivery!Deliver(i)
                               \/ Delivery!Fail(i) \/ Delivery!Doubt(i)
  <2>1. PICK i \in Items : i = job[w]
    BY <1>11, <1>20 DEF CompleteOutboxSent, PersistFailed, PersistUnknown
  <2>2. /\ Delivering(w) /\ UNCHANGED <<decision, serverVars>>
        /\ EndTask(w) \/ Goto(w, "reconcile")
    BY <1>20 DEF CompleteOutboxSent, PersistFailed, PersistUnknown, Delivering
  <2>3. ~Delivering(w)' /\ \A v \in Workers : v # w => pc'[v] = pc[v] /\ job'[v] = job[v]
    BY <1>0, <2>2 DEF EndTask, Goto, Delivering, TypeOK
  <2>4. CASE row[i] # "sending"
    <3>1. UNCHANGED row
      BY <1>20, <2>1, <2>4 DEF CompleteOutboxSent, PersistFailed, PersistUnknown,
                               SetOutboxState, AllowedSource
    <3> QED BY <1>18, <2>1, <2>2, <2>3, <2>4, <3>1
  <2>5. CASE row[i] = "sending" /\ CompleteOutboxSent(w)
    <3>1. row' = [row EXCEPT ![i] = "sent"] /\ pc[w] = "accepted"
      BY <2>1, <2>5 DEF CompleteOutboxSent
    <3>2. <<i, decision[i]>> \in Orders(accepted)
      BY <2>1, <3>1, PresentOrder DEF IInv, TaskInv, Taken
    <3>3. StatusOf(i)' = "delivered"
      BY <1>0, <3>1, StatusTableNext DEF TypeOK
    <3>4. Delivery!Becomes(i, {"trying"}, "delivered")
      BY <1>19, <2>1, <2>2, <2>3, <2>5, <3>1, <3>3
    <3> QED BY <3>2, <3>4 DEF Delivery!Deliver, Delivery!Present
  <2>6. CASE row[i] = "sending" /\ PersistFailed(w)
    <3>1. row' = [row EXCEPT ![i] = "failed"] /\ pc[w] = "definite_error"
      BY <2>1, <2>6 DEF PersistFailed, SetOutboxState, AllowedSource
    <3>2. <<i, decision[i]>> \notin Orders(wire) \cup Orders(accepted)
      BY <2>1, <3>1, PresentOrder DEF IInv, TaskInv, Fresh, Copies
    <3>3. StatusOf(i)' = "undelivered"
      BY <1>0, <3>1, StatusTableNext DEF TypeOK
    <3>4. Delivery!Becomes(i, {"trying"}, "undelivered")
      BY <1>19, <2>1, <2>2, <2>3, <2>6, <3>1, <3>3
    <3> QED BY <3>2, <3>4 DEF Delivery!Fail, Delivery!Present
  <2>7. CASE row[i] = "sending" /\ PersistUnknown(w)
    <3>1. row' = [row EXCEPT ![i] = "outcome_unknown"]
      BY <2>1, <2>7 DEF PersistUnknown, SetOutboxState, AllowedSource
    <3>2. StatusOf(i)' = "unknown"
      BY <1>0, <3>1, StatusTableNext DEF TypeOK
    <3>3. Delivery!Becomes(i, {"trying"}, "unknown")
      BY <1>19, <2>1, <2>2, <2>3, <2>7, <3>1, <3>2
    <3> QED BY <3>3 DEF Delivery!Doubt
  <2> QED BY <1>20, <2>4, <2>5, <2>6, <2>7
<1>21. ASSUME NEW w \in Workers, PersistFault(w)
       PROVE  UNCHANGED Delivery!vars \/ \E i \in Items : Delivery!Abandon(i)
  <2>1. PICK i \in Items : i = job[w]
    BY <1>11, <1>21 DEF PersistFault
  <2>2. Delivering(w) /\ EndTask(w) /\ UNCHANGED <<row, decision, serverVars>>
    BY <1>21 DEF PersistFault, Delivering
  <2>3. ~Delivering(w)' /\ \A v \in Workers : v # w => pc'[v] = pc[v] /\ job'[v] = job[v]
    BY <1>0, <2>2 DEF EndTask, Delivering, TypeOK
  <2>4. CASE row[i] # "sending"
    BY <1>18, <2>1, <2>2, <2>3, <2>4
  <2>5. CASE row[i] = "sending"
    <3>1. \A j \in Items : j # i => StatusOf(j)' = StatusOf(j)
      BY <1>0, <2>1, <2>2, <2>3, Ends
    <3>2. StatusOf(i)' = StatusOf(i)
      BY <1>0, <2>2, <2>5, SameStatus
    <3> QED BY <1>0, <2>2, <3>1, <3>2, Stutter
  <2> QED BY <2>4, <2>5
<1>22. ASSUME NEW w \in Workers, Deliver(w) \/ DatabaseFault(w)
       PROVE  UNCHANGED Delivery!vars \/ Delivery!Next
  BY <1>12, <1>13, <1>14, <1>16, <1>17, <1>20, <1>21, <1>22
     DEF Deliver, DatabaseFault, Delivery!Next
<1>23. ASSUME NEW i \in Items, NEW w \in Workers,
              RetryOutboxItem(w, i) \/ QueueDraft(w, i) \/ RespawnQueued(w, i)
       PROVE  UNCHANGED Delivery!vars \/ Delivery!Next
  BY <1>7, <1>8, <1>9, <1>23 DEF Delivery!Next
<1>24. ASSUME NEW i \in Items, ComposeDelivery(i) \/ CancelOutboxItem(i)
       PROVE  UNCHANGED Delivery!vars \/ Delivery!Next
  BY <1>1, <1>2, <1>24 DEF Delivery!Next
<1>25. ASSUME NEW t \in wire, ServerAccepts(t)
       PROVE  Delivery!Next
  BY <1>10, <1>25 DEF Delivery!Next
<1> QED
  BY <1>3, <1>4, <1>5, <1>22, <1>23, <1>24, <1>25 DEF Next, UserCommand, SpawnQueued

\* Whatever tasks, retries, crashes and database errors do, the user of the outbox is
\* told what AbstractDelivery allows.
THEOREM OutboxImplementsDelivery == Spec => ImplementsDelivery
<1>1. Init => RemovedInv
  BY DEF Init, RemovedInv
<1>2. Spec => []RemovedInv
  <2>1. TypeOK /\ RemovedInv /\ [Next]_vars => RemovedInv'
    BY RemovedStep
  <2> QED BY <1>1, <2>1, TypeCorrectness, PTL DEF Spec
<1>3. IInv /\ IInv' /\ RemovedInv /\ [Next]_vars => [Delivery!Next]_(Delivery!vars)
  BY StepMaps
<1> QED BY <1>2, <1>3, InitMaps, Invariance, PTL DEF Spec, ImplementsDelivery, Delivery!Spec

=============================================================================
