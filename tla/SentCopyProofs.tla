--------------------------- MODULE SentCopyProofs ---------------------------
(***************************************************************************)
(* Proofs about SentCopy, for any number of rows, tasks and copies and for *)
(* both forms of a parsed Message-ID.                                      *)
(*                                                                         *)
(* A step of the composition is a step of Outbox or a snapshot that        *)
(* confirms copies, and such a snapshot keeps the invariant of Outbox: all *)
(* that OutboxProofs shows of deliveries holds with passes at work.  That  *)
(* a confirmed copy was filed then needs only that nothing is in the cache *)
(* that never was in the folder, and that nothing unsends a sent row.      *)
(***************************************************************************)
EXTENDS SentCopy, OutboxProofs

\* What a pass does to the outbox.
Confirms ==
  /\ RestOfOutbox
  /\ \E shown : sentCopy' = Confirm(shown)

FolderInv ==
  /\ filed \subseteq everFiled /\ everFiled \subseteq accepted
  /\ cached \subseteq listed /\ hidden \subseteq cached /\ listed \subseteq everFiled
  /\ pass \in {"idle", "started", "answered", "index", "walked"}
  /\ mode \in {"full", "quick"}
  /\ answer \subseteq everFiled

SentInv == IInv /\ FolderInv /\ ConfirmedWasFiled

-----------------------------------------------------------------------------
USE SentCopyAssumption

\* Every step of the composition is one of the outbox, or confirms copies.
LEMMA StepOfOutbox ==
  ASSUME [SentNext]_allVars PROVE [Next]_vars \/ Confirms
<1>1. CASE OutboxAlone
  BY <1>1 DEF OutboxAlone, Next, UserCommand
<1>2. ASSUME NEW w \in Workers, AskForPass(w) PROVE Next
  BY <1>2 DEF AskForPass, Deliver, Next
<1>3. CASE RemoveAccountAndMail \/ CrashWithPass
  BY <1>3 DEF RemoveAccountAndMail, CrashWithPass, Next, UserCommand
<1>4. ASSUME NEW t, File(t) \/ Expunge(t) \/ HideCopy(t) \/ RestoreCopy(t)
      PROVE  UNCHANGED vars
  BY <1>4 DEF File, Expunge, HideCopy, RestoreCopy
<1>5. ASSUME NEW m, StartPass(m) PROVE UNCHANGED vars
  BY <1>5 DEF StartPass
<1>6. CASE FetchSent \/ SkipQuietSent \/ ReconcileSent \/ PassCompletes \/ PassStops
  BY <1>6 DEF FetchSent, SkipQuietSent, ReconcileSent, PassCompletes, PassStops
<1>7. CASE ApplySent \/ ApplyOlderPage
  BY <1>7 DEF ApplySent, ApplyOlderPage, Confirms
<1>8. CASE UNCHANGED allVars
  BY <1>8 DEF allVars
<1> QED
  BY <1>1, <1>2, <1>3, <1>4, <1>5, <1>6, <1>7, <1>8 DEF SentNext, PassWorks

\* A confirmation changes a row's copy state from awaiting to confirmed, or not at all.
LEMMA ConfirmTable ==
  ASSUME TypeOK, NEW shown
  PROVE  /\ Confirm(shown) \in [Items -> CopyState]
         /\ \A i \in Items :
              \/ Confirm(shown)[i] = sentCopy[i]
              \/ /\ Confirm(shown)[i] = "confirmed" /\ row[i] = "sent"
                 /\ \E t \in shown : CachedId(t) = PayloadId(i)
BY DEF Confirm, TypeOK, CopyState

\* A confirmation keeps what OutboxProofs knows of the outbox.
LEMMA ConfirmKeepsOutbox ==
  ASSUME IInv, Confirms PROVE IInv'
<1>1. PICK shown : sentCopy' = Confirm(shown)
  BY DEF Confirms
<1>2. /\ sentCopy' \in [Items -> CopyState]
      /\ \A i \in Items : sentCopy'[i] = "no_payload" => sentCopy[i] = "no_payload"
  BY <1>1, ConfirmTable DEF IInv
<1>3. UNCHANGED <<row, messageId, account, pc, job, mid, attached, respawn, wire,
                  accepted, attempt, decision, restarts, setups, faults>>
  BY DEF Confirms, RestOfOutbox, taskVars, appVars, serverVars, countVars
<1>4. TypeOK'
  BY <1>2, <1>3 DEF IInv, TypeOK
<1>5. JobInv' /\ CopiesInv' /\ RowInv' /\ OneCopyPerDecision' /\ ExclusiveDelivery'
  BY <1>3 DEF IInv, JobInv, CopiesInv, RowInv, Fresh, Taken, Copies, OneCopyPerDecision,
              ExclusiveDelivery, Delivering
<1>6. TaskInv'
  BY <1>3 DEF IInv, TaskInv, Fresh, Taken, Copies, OwnTransmission
<1>7. PayloadInv' /\ StableMessageId'
  <2>1. ASSUME NEW t \in Copies PROVE t.item \in Items
    BY DEF IInv, TypeOK, Copies, Transmission
  <2>2. ASSUME NEW w \in Workers, pc[w] # "idle" PROVE job[w] \in Items
    BY <2>2 DEF IInv, JobInv
  <2> QED BY <1>2, <1>3, <2>1, <2>2 DEF IInv, PayloadInv, StableMessageId, Copies
<1> QED BY <1>4, <1>5, <1>6, <1>7 DEF IInv

\* The invariant of the outbox survives every step of the composition.
LEMMA OutboxStep == IInv /\ [SentNext]_allVars => IInv'
BY StepOfOutbox, InvariantStep, ConfirmKeepsOutbox

-----------------------------------------------------------------------------
\* Nothing the server has taken is ever taken back.
LEMMA AcceptedGrows ==
  ASSUME [SentNext]_allVars PROVE accepted \subseteq accepted'
<1>1. CASE Confirms
  BY <1>1 DEF Confirms, RestOfOutbox, serverVars
<1>2. CASE UNCHANGED vars
  BY <1>2 DEF vars, serverVars
<1>3. CASE Next
  BY <1>3 DEF Next, UserCommand, SpawnQueued, Deliver, DatabaseFault,
    ComposeDelivery, CancelOutboxItem, RetryOutboxItem, SetAccountEnabled,
    RemoveAccount, CrashAndReopen, Setup, QueueDraft, RespawnQueued,
    ClaimOutboxForSending, PrepareDelivery, StoreOutboxPayloadIfMissing,
    ConnectFails, Transmit, ReplyAccepted, ReplyRejected, ReplyLost, CompleteOutboxSent,
    PersistFailed, PersistUnknown, RequestReconciliation, ClaimFault, StoreFault,
    PersistFault, ServerAccepts, serverVars
<1> QED BY <1>1, <1>2, <1>3, StepOfOutbox

\* The cache holds nothing that never was in the folder.
LEMMA FolderStep ==
  ASSUME FolderInv, [SentNext]_allVars PROVE FolderInv'
<1>0. accepted \subseteq accepted'
  BY AcceptedGrows
<1> USE DEF FolderInv, folderVars, cacheVars, passVars, EndPass
<1>1. CASE (OutboxAlone /\ UNCHANGED sentVars) \/ UNCHANGED allVars
  BY <1>0, <1>1 DEF sentVars, allVars
<1>2. ASSUME NEW w \in Workers, AskForPass(w) PROVE FolderInv'
  BY <1>0, <1>2 DEF AskForPass
<1>3. CASE RemoveAccountAndMail
  BY <1>0, <1>3 DEF RemoveAccountAndMail
<1>4. CASE CrashWithPass
  BY <1>0, <1>4 DEF CrashWithPass
<1>5. ASSUME NEW t \in accepted, File(t) \/ Expunge(t) \/ HideCopy(t) \/ RestoreCopy(t)
      PROVE  FolderInv'
  BY <1>0, <1>5 DEF File, Expunge, HideCopy, RestoreCopy
<1>6. ASSUME NEW m \in {"full", "quick"}, StartPass(m) PROVE FolderInv'
  BY <1>0, <1>6 DEF StartPass
<1>7. CASE FetchSent \/ SkipQuietSent \/ ReconcileSent \/ PassCompletes \/ PassStops
  BY <1>0, <1>7 DEF FetchSent, SkipQuietSent, ReconcileSent, PassCompletes, PassStops
<1>8. CASE ApplySent
  BY <1>0, <1>8 DEF ApplySent
<1>9. CASE ApplyOlderPage
  BY <1>0, <1>9 DEF ApplyOlderPage, sentVars
<1> QED
  BY <1>1, <1>2, <1>3, <1>4, <1>5, <1>6, <1>7, <1>8, <1>9 DEF SentNext, PassWorks

\* A step of the outbox confirms nothing, and leaves a confirmed row sent and its
\* Message-ID alone, unless the payload goes.
LEMMA OutboxKeepsConfirmed ==
  ASSUME TypeOK, JobInv, [Next]_vars, NEW i \in Items, sentCopy'[i] = "confirmed",
         sentCopy[i] = "confirmed" => row[i] = "sent"
  PROVE  /\ sentCopy[i] = "confirmed"
         /\ row'[i] = "sent" /\ messageId'[i] = messageId[i]
<1> USE DEF TypeOK, dbVars
<1>1. CASE UNCHANGED vars
  BY <1>1 DEF vars
<1>2. CASE UserCommand
  BY <1>2 DEF UserCommand, ComposeDelivery, CancelOutboxItem, RetryOutboxItem,
    SetAccountEnabled, RemoveAccount, SetOutboxState, AllowedSource
<1>3. CASE CrashAndReopen
  <2>1. row[i] = "sent" => RecoverInterruptedOutbox[i] = "sent"
    BY DEF RecoverInterruptedOutbox
  <2> QED BY <1>3, <2>1 DEF CrashAndReopen
<1>4. CASE Setup
  BY <1>4 DEF Setup
<1>5. ASSUME NEW j \in Items, NEW w \in Workers, QueueDraft(w, j) \/ RespawnQueued(w, j)
      PROVE  /\ sentCopy[i] = "confirmed"
             /\ row'[i] = "sent" /\ messageId'[i] = messageId[i]
  BY <1>5 DEF QueueDraft, RespawnQueued
<1>6. ASSUME NEW w \in Workers, Deliver(w) \/ DatabaseFault(w)
      PROVE  /\ sentCopy[i] = "confirmed"
             /\ row'[i] = "sent" /\ messageId'[i] = messageId[i]
  <2>1. CASE StoreOutboxPayloadIfMissing(w)
    BY <2>1 DEF StoreOutboxPayloadIfMissing, JobInv
  <2>2. CASE CompleteOutboxSent(w)
    BY <2>2 DEF CompleteOutboxSent, JobInv
  <2>3. CASE PersistFailed(w) \/ PersistUnknown(w)
    BY <2>3 DEF PersistFailed, PersistUnknown, SetOutboxState, AllowedSource, JobInv
  <2>4. CASE ClaimOutboxForSending(w)
    BY <2>4 DEF ClaimOutboxForSending, JobInv
  <2>5. CASE \/ PrepareDelivery(w) \/ ConnectFails(w) \/ Transmit(w)
             \/ ReplyAccepted(w) \/ ReplyRejected(w) \/ ReplyLost(w)
             \/ RequestReconciliation(w) \/ DatabaseFault(w)
    BY <2>5 DEF PrepareDelivery, ConnectFails, Transmit, ReplyAccepted, ReplyRejected,
      ReplyLost, RequestReconciliation, DatabaseFault, ClaimFault, StoreFault, PersistFault
  <2> QED BY <1>6, <2>1, <2>2, <2>3, <2>4, <2>5 DEF Deliver
<1>7. ASSUME NEW t \in wire, ServerAccepts(t)
      PROVE  /\ sentCopy[i] = "confirmed"
             /\ row'[i] = "sent" /\ messageId'[i] = messageId[i]
  BY <1>7 DEF ServerAccepts
<1> QED BY <1>1, <1>2, <1>3, <1>4, <1>5, <1>6, <1>7 DEF Next, SpawnQueued

\* A snapshot confirms only with a copy that was in the folder.
LEMMA ShownWasFiled ==
  ASSUME FolderInv, ApplySent \/ ApplyOlderPage
  PROVE  /\ RestOfOutbox /\ everFiled' = everFiled
         /\ \E shown \in SUBSET everFiled : sentCopy' = Confirm(shown)
<1>1. CASE ApplySent
  <2>1. cached' \ hidden \in SUBSET everFiled
    BY <1>1 DEF ApplySent, FolderInv
  <2> QED BY <1>1, <2>1 DEF ApplySent, folderVars
<1>2. CASE ApplyOlderPage
  <2>1. cached \ hidden \in SUBSET everFiled
    BY DEF FolderInv
  <2> QED BY <1>2, <2>1 DEF ApplyOlderPage, sentVars, folderVars
<1> QED BY <1>1, <1>2

\* Copies that were filed stay so in the history.
LEMMA EverFiledGrows ==
  ASSUME [SentNext]_allVars PROVE everFiled \subseteq everFiled'
BY DEF SentNext, PassWorks, AskForPass, RemoveAccountAndMail, CrashWithPass, File, Expunge,
  HideCopy, RestoreCopy, StartPass, FetchSent, SkipQuietSent, ApplySent, ReconcileSent,
  PassCompletes, ApplyOlderPage, PassStops, sentVars, allVars, folderVars

\* The step of the outbox within a step that is not a snapshot of the Sent folder.
LEMMA OtherSteps ==
  ASSUME [SentNext]_allVars, ~ApplySent, ~ApplyOlderPage PROVE [Next]_vars
BY DEF SentNext, PassWorks, AskForPass, RemoveAccountAndMail, CrashWithPass, File, Expunge,
  HideCopy, RestoreCopy, StartPass, FetchSent, SkipQuietSent, ReconcileSent,
  PassCompletes, PassStops, sentVars, allVars, OutboxAlone, Next, UserCommand, Deliver

\* Confirmation is lasting, and earned.
LEMMA ConfirmedStep ==
  ASSUME SentInv, [SentNext]_allVars PROVE ConfirmedWasFiled'
<1> SUFFICES ASSUME NEW i \in Items, sentCopy'[i] = "confirmed"
             PROVE  row'[i] = "sent" /\ CopyOf(i, everFiled)' # {}
  BY DEF ConfirmedWasFiled
<1>1. TypeOK /\ JobInv
  BY DEF SentInv, IInv
<1>2. everFiled \subseteq everFiled'
  BY EverFiledGrows
<1>3. CASE ApplySent \/ ApplyOlderPage
  <2>1. PICK shown \in SUBSET everFiled : sentCopy' = Confirm(shown)
    BY <1>3, ShownWasFiled DEF SentInv
  <2>2. UNCHANGED <<row, messageId>>
    BY <1>3, ShownWasFiled DEF SentInv, RestOfOutbox
  <2>3. CASE sentCopy[i] = "confirmed"
    BY <1>2, <2>2, <2>3 DEF SentInv, ConfirmedWasFiled, CopyOf
  <2>4. CASE sentCopy[i] # "confirmed"
    <3>1. row[i] = "sent" /\ \E t \in shown : CachedId(t) = PayloadId(i)
      BY <1>1, <2>1, <2>4, ConfirmTable
    <3>2. PICK t \in shown : CachedId(t) = PayloadId(i)
      BY <3>1
    <3>3. t.item = i /\ t.mid = messageId[i]
      BY <3>2 DEF CachedId, PayloadId
    <3> QED BY <1>2, <2>2, <3>1, <3>3 DEF CopyOf
  <2> QED BY <2>3, <2>4
<1>4. CASE ~ApplySent /\ ~ApplyOlderPage
  <2>1. [Next]_vars
    BY <1>4, OtherSteps
  <2>2. sentCopy[i] = "confirmed" => row[i] = "sent"
    BY DEF SentInv, ConfirmedWasFiled
  <2>3. /\ sentCopy[i] = "confirmed"
        /\ row'[i] = "sent" /\ messageId'[i] = messageId[i]
    BY <1>1, <2>1, <2>2, OutboxKeepsConfirmed
  <2> QED BY <1>2, <2>3 DEF SentInv, ConfirmedWasFiled, CopyOf
<1> QED BY <1>3, <1>4

-----------------------------------------------------------------------------
\* The inductive invariant of the composition.
THEOREM SentInvHolds == SentSpec => []SentInv
<1>1. SentInit => SentInv
  <2>1. SentInit => IInv
    BY InitEstablishes DEF SentInit
  <2> QED BY <2>1 DEF SentInit, Init, SentInv, FolderInv, ConfirmedWasFiled
<1>2. SentInv /\ [SentNext]_allVars => SentInv'
  <2>1. SentInv /\ [SentNext]_allVars => IInv'
    BY OutboxStep DEF SentInv
  <2>2. SentInv /\ [SentNext]_allVars => FolderInv'
    BY FolderStep DEF SentInv
  <2> QED BY <2>1, <2>2, ConfirmedStep DEF SentInv
<1> QED BY <1>1, <1>2, PTL DEF SentSpec

\* Variables of the composition keep their types, and the cache of the Sent folder
\* holds nothing that never was in it (SentTypeOK).
THEOREM SentTypesHold == SentSpec => []SentTypeOK
<1>1. SentInv => SentTypeOK
  BY DEF SentInv, IInv, FolderInv, SentTypeOK
<1> QED BY <1>1, SentInvHolds, PTL

\* apply_imap_snapshot confirms only what the Sent folder has held under the Message-ID
\* of the payload, and a confirmed row stays sent.
THEOREM ConfirmedAlwaysFiled == SentSpec => []ConfirmedWasFiled
<1>1. SentInv => ConfirmedWasFiled
  BY DEF SentInv
<1> QED BY <1>1, SentInvHolds, PTL

\* A confirmation changes nothing the user of the outbox is told by AbstractDelivery.
LEMMA ConfirmMaps ==
  ASSUME IInv, Confirms PROVE UNCHANGED Delivery!vars
<1>1. UNCHANGED <<row, pc, job, wire, accepted, decision>>
  BY DEF Confirms, RestOfOutbox, taskVars, serverVars
<1> QED BY <1>1 DEF Delivery!vars, StatusOf, Delivering, Orders

\* With passes, confirmations and removals at work the outbox still implements
\* AbstractDelivery.
THEOREM SentCopyImplementsDelivery == SentSpec => ImplementsDelivery
<1>1. SentInit => Init /\ RemovedInv
  BY DEF SentInit, Init, RemovedInv
<1>2. SentInv /\ RemovedInv /\ [SentNext]_allVars => RemovedInv'
  <2>1. TypeOK /\ RemovedInv /\ [Next]_vars => RemovedInv'
    BY RemovedStep
  <2>2. RemovedInv /\ Confirms => RemovedInv'
    BY DEF RemovedInv, Confirms, RestOfOutbox
  <2> QED BY <2>1, <2>2, StepOfOutbox DEF SentInv, IInv
<1>3. SentInv /\ SentInv' /\ RemovedInv /\ [SentNext]_allVars
        => [Delivery!Next]_(Delivery!vars)
  <2>1. IInv /\ IInv' /\ RemovedInv /\ [Next]_vars => [Delivery!Next]_(Delivery!vars)
    BY StepMaps
  <2>2. IInv /\ Confirms => [Delivery!Next]_(Delivery!vars)
    BY ConfirmMaps
  <2> QED BY <2>1, <2>2, StepOfOutbox DEF SentInv
<1>4. SentSpec => []RemovedInv
  BY <1>1, <1>2, SentInvHolds, PTL DEF SentSpec
<1> QED
  BY <1>1, <1>3, <1>4, InitMaps, SentInvHolds, PTL DEF SentSpec, ImplementsDelivery, Delivery!Spec
=============================================================================
