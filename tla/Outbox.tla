------------------------------- MODULE Outbox -------------------------------
(***************************************************************************)
(* The SMTP outbox of one account: the rows of the outbox table, the Tokio *)
(* tasks that deliver them (compose_service::deliver_outbox), the commands *)
(* that queue, retry and cancel them, the crash and restart of the         *)
(* process, and the SMTP server as far as a delivery can observe it.       *)
(*                                                                         *)
(* Every action is one critical section of the database mutex, or one      *)
(* network step between two of them.  What the server has received is a    *)
(* set of transmissions, each carrying the row, the attempt and the        *)
(* Message-ID it was sent with, and the "decision" it belongs to: 0 for    *)
(* the original order to send, one more for every retry of a row whose     *)
(* outcome was unknown.  The code keeps neither counter; they are history. *)
(***************************************************************************)
EXTENDS Naturals

CONSTANTS
  Items,               \* identifiers of outbox rows
  Legacy,              \* rows queued by a version that stored no payload
  Workers,             \* delivery tasks that can be alive at once
  NoItem,              \* the job of a task that does not exist
  IncomingConfigured,  \* does the account have an incoming endpoint?
  MaxAttempts,         \* bound: claims of one row
  MaxRestarts,         \* bound: crashes of the process
  MaxSetups,           \* bound: setups that find the runtime already attached
  MaxFaults            \* bound: database errors

ASSUME OutboxAssumption ==
  /\ Legacy \subseteq Items
  /\ NoItem \notin Items
  /\ IncomingConfigured \in BOOLEAN
  /\ MaxAttempts \in Nat /\ MaxRestarts \in Nat
  /\ MaxSetups \in Nat /\ MaxFaults \in Nat

VARIABLES
  row,        \* outbox.state of each item ("unused", "composing": no row yet)
  messageId,  \* rfc_message_id of the item's payload row
  sentCopy,   \* sent_copy_state of the payload row, or "no_payload"
  account,    \* "enabled", "disabled" or "removed"
  attached,   \* has the setup hook of this process run?
  respawn,    \* ids the setup hook has read and not yet spawned
  pc, job, mid,  \* per task: where it is, its outbox id, its Message-ID
  attempt, decision,       \* history: claims and ambiguous retries per item
  wire, accepted,          \* transmissions under way / taken by the server
  restarts, setups, faults \* counters of the bounds

dbVars     == <<row, messageId, sentCopy, account>>
taskVars   == <<pc, job, mid>>
appVars    == <<attached, respawn>>
serverVars == <<wire, accepted>>
countVars  == <<restarts, setups, faults>>
vars == <<dbVars, taskVars, appVars, serverVars, attempt, decision, countVars>>

RowState == {"unused", "composing", "queued", "sending", "sent", "failed",
             "outcome_unknown", "cancelled", "deleted"}
CopyState == {"no_payload", "not_started", "awaiting_server_sync",
              "unavailable", "confirmed"}
TaskState == {"idle", "spawned", "claimed", "prepared", "stored",
              "transmitting", "accepted", "definite_error", "ambiguous",
              "reconcile"}

\* The envelope and the immutable MIME bytes stand behind the Message-ID.
Transmission == [item : Items, attempt : Nat, decision : Nat, mid : Nat]

\* The Message-ID chosen when the item was queued; attempt n of a legacy row
\* would choose n, as new_message_id draws a fresh UUID on every call.
QueuedMessageId == 0

TypeOK ==
  /\ row \in [Items -> RowState]
  /\ messageId \in [Items -> Nat]
  /\ sentCopy \in [Items -> CopyState]
  /\ account \in {"enabled", "disabled", "removed"}
  /\ attached \in BOOLEAN
  /\ respawn \subseteq Items
  /\ pc \in [Workers -> TaskState]
  /\ job \in [Workers -> Items \cup {NoItem}]
  /\ mid \in [Workers -> Nat]
  /\ attempt \in [Items -> Nat]
  /\ decision \in [Items -> Nat]
  /\ wire \subseteq Transmission
  /\ accepted \subseteq Transmission
  /\ restarts \in Nat /\ setups \in Nat /\ faults \in Nat

Init ==
  /\ row = [i \in Items |-> IF i \in Legacy THEN "queued" ELSE "unused"]
  /\ messageId = [i \in Items |-> QueuedMessageId]
  /\ sentCopy = [i \in Items |-> "no_payload"]
  /\ account = "enabled"
  /\ attached = FALSE
  /\ respawn = {}
  /\ pc = [w \in Workers |-> "idle"]
  /\ job = [w \in Workers |-> NoItem]
  /\ mid = [w \in Workers |-> QueuedMessageId]
  /\ attempt = [i \in Items |-> 0]
  /\ decision = [i \in Items |-> 0]
  /\ wire = {} /\ accepted = {}
  /\ restarts = 0 /\ setups = 0 /\ faults = 0

-----------------------------------------------------------------------------
(***************************************************************************)
(* The transitions set_outbox_state allows, and the task helpers.          *)
(***************************************************************************)

\* A recovery that gives interrupted rows a state the schema does not have.
RecoverAsUnknownState ==
  [i \in Items |-> IF row[i] = "sending" THEN "interrupted" ELSE row[i]]

\* A table that also lets the user cancel a row that is being delivered.
AllowedSourceCancelsSending(target) ==
  CASE target = "queued"    -> {"failed", "outcome_unknown"}
    [] target = "cancelled" -> {"queued", "sending", "failed", "outcome_unknown"}
    [] OTHER                -> {"sending"}

\* The WHERE clause that guards UPDATE outbox SET state=target.
AllowedSource(target) ==
  CASE target = "queued"    -> {"failed", "outcome_unknown"}
    [] target = "cancelled" -> {"queued", "failed", "outcome_unknown"}
    [] OTHER                -> {"sending"}

\* The row after the guarded UPDATE: unchanged when the guard matches nothing.
SetOutboxState(i, target) ==
  IF row[i] \in AllowedSource(target) THEN [row EXCEPT ![i] = target] ELSE row

Spawn(w, i) ==
  /\ pc[w] = "idle"
  /\ pc' = [pc EXCEPT ![w] = "spawned"]
  /\ job' = [job EXCEPT ![w] = i]
  /\ UNCHANGED mid

\* The task moves on within deliver_outbox.
Goto(w, label) ==
  /\ pc' = [pc EXCEPT ![w] = label]
  /\ UNCHANGED <<job, mid>>

\* deliver_outbox returns.
EndTask(w) ==
  /\ pc' = [pc EXCEPT ![w] = "idle"]
  /\ job' = [job EXCEPT ![w] = NoItem]
  /\ mid' = [mid EXCEPT ![w] = QueuedMessageId]

-----------------------------------------------------------------------------
(***************************************************************************)
(* Commands of the user interface.                                         *)
(***************************************************************************)

\* send_draft: prepare_delivery has succeeded, so the account is enabled, its
\* secret was read and a MIME body with a Message-ID is in memory.
ComposeDelivery(i) ==
  /\ attached /\ row[i] = "unused" /\ account = "enabled"
  /\ row' = [row EXCEPT ![i] = "composing"]
  /\ UNCHANGED <<messageId, sentCopy, account, taskVars, appVars, serverVars,
                 attempt, decision, countVars>>

\* queue_prepared_draft commits the snapshot, the row and the payload in one
\* transaction, then the command spawns a task.  The foreign key refuses the
\* row when the account was removed since prepare_delivery.
QueueDraft(w, i) ==
  /\ row[i] = "composing"
  /\ IF account = "removed"
       THEN /\ row' = [row EXCEPT ![i] = "unused"]
            /\ UNCHANGED <<sentCopy, taskVars>>
       ELSE /\ row' = [row EXCEPT ![i] = "queued"]
            /\ sentCopy' = [sentCopy EXCEPT ![i] = "not_started"]
            /\ Spawn(w, i)
  /\ UNCHANGED <<messageId, account, appVars, serverVars, attempt, decision,
                 countVars>>

\* retry_outbox_item: back to queued, and a new task.
RetryOutboxItem(w, i) ==
  /\ attached /\ row[i] \in AllowedSource("queued")
  /\ attempt[i] < MaxAttempts
  /\ row' = SetOutboxState(i, "queued")
  /\ decision' = IF row[i] = "outcome_unknown"
                   THEN [decision EXCEPT ![i] = @ + 1] ELSE decision
  /\ Spawn(w, i)
  /\ UNCHANGED <<messageId, sentCopy, account, appVars, serverVars, attempt,
                 countVars>>

\* cancel_outbox_item: no task is told; a spawned one finds the row cancelled.
CancelOutboxItem(i) ==
  /\ attached /\ row[i] \in AllowedSource("cancelled")
  /\ row' = SetOutboxState(i, "cancelled")
  /\ UNCHANGED <<messageId, sentCopy, account, taskVars, appVars, serverVars,
                 attempt, decision, countVars>>

\* update_account with enabled true or false.
SetAccountEnabled ==
  /\ attached /\ account # "removed"
  /\ account' = IF account = "enabled" THEN "disabled" ELSE "enabled"
  /\ UNCHANGED <<row, messageId, sentCopy, taskVars, appVars, serverVars,
                 attempt, decision, countVars>>

\* remove_account deletes the account row; the foreign keys cascade to every
\* outbox row and payload.  Running tasks are not told.
RemoveAccount ==
  /\ attached /\ account # "removed"
  /\ account' = "removed"
  /\ row' = [i \in Items |-> IF row[i] \in {"unused", "composing"}
                               THEN row[i] ELSE "deleted"]
  /\ sentCopy' = [i \in Items |-> "no_payload"]
  /\ UNCHANGED <<messageId, taskVars, appVars, serverVars, attempt, decision,
                 countVars>>

-----------------------------------------------------------------------------
(***************************************************************************)
(* The life of the process.                                                *)
(***************************************************************************)

\* Recovery that leaves interrupted rows as they are and queues them again.
RecoverAsQueued ==
  [i \in Items |-> IF row[i] = "sending" THEN "queued" ELSE row[i]]

\* recover_interrupted_outbox, run by Database::open.
RecoverInterruptedOutbox ==
  [i \in Items |-> CASE row[i] = "sending"   -> "outcome_unknown"
                     [] row[i] = "composing" -> "unused"
                     [] OTHER                -> row[i]]

\* The process dies, with every task and every command, and opens the database
\* again.  Transmissions already handed to the network stay there.
CrashAndReopen ==
  /\ restarts < MaxRestarts
  /\ restarts' = restarts + 1
  /\ row' = RecoverInterruptedOutbox
  /\ pc' = [w \in Workers |-> "idle"]
  /\ job' = [w \in Workers |-> NoItem]
  /\ mid' = [w \in Workers |-> QueuedMessageId]
  /\ attached' = FALSE /\ respawn' = {}
  /\ UNCHANGED <<messageId, sentCopy, account, serverVars, attempt, decision,
                 setups, faults>>

\* A setup hook that forgets the rows left queued by the previous process.
SetupWithoutRespawn ==
  /\ \/ ~attached /\ UNCHANGED setups
     \/ attached /\ setups < MaxSetups /\ setups' = setups + 1
  /\ attached' = TRUE
  /\ UNCHANGED <<dbVars, taskVars, respawn, serverVars, attempt, decision,
                 restarts, faults>>

\* The setup hook reads queued_outbox_ids.  On Android the runtime outlives the
\* activity (runtime_for_path returns it), so the hook may run again without a
\* recovery while tasks of the first run are still alive.
Setup ==
  /\ \/ ~attached /\ UNCHANGED setups
     \/ attached /\ setups < MaxSetups /\ setups' = setups + 1
  /\ attached' = TRUE
  /\ respawn' = respawn \cup {i \in Items : row[i] = "queued"}
  /\ UNCHANGED <<dbVars, taskVars, serverVars, attempt, decision,
                 restarts, faults>>

\* One turn of the loop over the ids read above; the row is not read again.
RespawnQueued(w, i) ==
  /\ i \in respawn
  /\ respawn' = respawn \ {i}
  /\ Spawn(w, i)
  /\ UNCHANGED <<dbVars, attached, serverVars, attempt, decision, countVars>>

-----------------------------------------------------------------------------
(***************************************************************************)
(* deliver_outbox.                                                         *)
(***************************************************************************)

\* A claim whose UPDATE lost its "AND state='queued'".
ClaimUnconditionally(w) ==
  /\ pc[w] = "spawned"
  /\ IF row[job[w]] \in {"queued", "sending"}
       THEN /\ row' = [row EXCEPT ![job[w]] = "sending"]
            /\ attempt' = [attempt EXCEPT ![job[w]] = @ + 1]
            /\ Goto(w, "claimed")
       ELSE EndTask(w) /\ UNCHANGED <<row, attempt>>
  /\ UNCHANGED <<messageId, sentCopy, account, appVars, serverVars, decision,
                 countVars>>

\* claim_outbox_for_sending: compare-and-set queued -> sending; the loser of a
\* race returns at once.
ClaimOutboxForSending(w) ==
  /\ pc[w] = "spawned"
  /\ IF row[job[w]] = "queued"
       THEN /\ row' = [row EXCEPT ![job[w]] = "sending"]
            /\ attempt' = [attempt EXCEPT ![job[w]] = @ + 1]
            /\ Goto(w, "claimed")
       ELSE EndTask(w) /\ UNCHANGED <<row, attempt>>
  /\ UNCHANGED <<messageId, sentCopy, account, appVars, serverVars, decision,
                 countVars>>

\* The claim itself fails in the database: the task gives up, the row stays
\* queued and nothing but a restart spawns it again.
ClaimFault(w) ==
  /\ pc[w] = "spawned" /\ faults < MaxFaults
  /\ faults' = faults + 1
  /\ EndTask(w)
  /\ UNCHANGED <<dbVars, appVars, serverVars, attempt, decision, restarts, setups>>

\* Preparation that returns on an error without writing it to the row.
PrepareSilently(w) ==
  /\ pc[w] = "claimed"
  /\ \/ /\ account = "enabled" /\ row[job[w]] # "deleted"
        /\ pc' = [pc EXCEPT ![w] = "prepared"]
        /\ mid' = [mid EXCEPT ![w] = attempt[job[w]]]
        /\ UNCHANGED job
     \/ EndTask(w)
  /\ UNCHANGED <<dbVars, appVars, serverVars, attempt, decision, countVars>>

\* outbox_draft and prepare_delivery: only reads.  They need the row and an
\* enabled account; the secret store, the configuration and the MIME builder
\* may fail at any time.  A new Message-ID is drawn although a payload may exist.
PrepareDelivery(w) ==
  /\ pc[w] = "claimed"
  /\ \/ /\ account = "enabled" /\ row[job[w]] # "deleted"
        /\ pc' = [pc EXCEPT ![w] = "prepared"]
        /\ mid' = [mid EXCEPT ![w] = attempt[job[w]]]
        /\ UNCHANGED job
     \/ Goto(w, "definite_error")
  /\ UNCHANGED <<dbVars, appVars, serverVars, attempt, decision, countVars>>

\* A store that replaces the payload it finds.
StoreOutboxPayloadReplacing(w) ==
  LET i == job[w] IN
  /\ pc[w] = "prepared"
  /\ IF row[i] = "deleted"
       THEN Goto(w, "definite_error") /\ UNCHANGED <<messageId, sentCopy>>
       ELSE /\ messageId' = [messageId EXCEPT ![i] = mid[w]]
            /\ sentCopy' = [sentCopy EXCEPT ![i] = "not_started"]
            /\ Goto(w, "stored")
  /\ UNCHANGED <<row, account, appVars, serverVars, attempt, decision, countVars>>

\* store_outbox_payload_if_missing: INSERT OR IGNORE for a row that is sending,
\* then the payload that is there replaces the one just built.
StoreOutboxPayloadIfMissing(w) ==
  LET i == job[w]
      missing == sentCopy[i] = "no_payload"
  IN
  /\ pc[w] = "prepared"
  /\ IF missing /\ row[i] # "sending"
       THEN Goto(w, "definite_error") /\ UNCHANGED <<messageId, sentCopy>>
       ELSE /\ messageId' = IF missing THEN [messageId EXCEPT ![i] = mid[w]]
                                       ELSE messageId
            /\ sentCopy' = IF missing THEN [sentCopy EXCEPT ![i] = "not_started"]
                                      ELSE sentCopy
            /\ mid' = [mid EXCEPT ![w] = messageId'[i]]
            /\ pc' = [pc EXCEPT ![w] = "stored"]
            /\ UNCHANGED job
  /\ UNCHANGED <<row, account, appVars, serverVars, attempt, decision, countVars>>

\* The store fails in the database: an error like any other before the send.
StoreFault(w) ==
  /\ pc[w] = "prepared" /\ faults < MaxFaults
  /\ faults' = faults + 1
  /\ Goto(w, "definite_error")
  /\ UNCHANGED <<dbVars, appVars, serverVars, attempt, decision, restarts, setups>>

\* send_smtp up to test_connection: every failure is a definite one.
ConnectFails(w) ==
  /\ pc[w] = "stored"
  /\ Goto(w, "definite_error")
  /\ UNCHANGED <<dbVars, appVars, serverVars, attempt, decision, countVars>>

OwnTransmission(w) ==
  [item |-> job[w], attempt |-> attempt[job[w]],
   decision |-> decision[job[w]], mid |-> mid[w]]

\* send_raw starts: from here the message may reach the server at any time.
Transmit(w) ==
  /\ pc[w] = "stored"
  /\ wire' = wire \cup {OwnTransmission(w)}
  /\ Goto(w, "transmitting")
  /\ UNCHANGED <<dbVars, appVars, accepted, attempt, decision, countVars>>

\* The server answers DATA with 2xx.  Nobody need be listening any more.  A
\* transmission that is never taken simply stays on the wire.
ServerAccepts(t) ==
  /\ t \in wire
  /\ wire' = wire \ {t}
  /\ accepted' = accepted \cup {t}
  /\ UNCHANGED <<dbVars, taskVars, appVars, attempt, decision, countVars>>

\* The acceptance reaches the client.
ReplyAccepted(w) ==
  /\ pc[w] = "transmitting" /\ OwnTransmission(w) \in accepted
  /\ Goto(w, "accepted")
  /\ UNCHANGED <<dbVars, appVars, serverVars, attempt, decision, countVars>>

\* A 4xx or 5xx answer, or a client or TLS error of lettre: the message was not
\* taken and will not be.
ReplyRejected(w) ==
  /\ pc[w] = "transmitting" /\ OwnTransmission(w) \in wire
  /\ wire' = wire \ {OwnTransmission(w)}
  /\ Goto(w, "definite_error")
  /\ UNCHANGED <<dbVars, appVars, accepted, attempt, decision, countVars>>

\* A classification that treats a lost answer as an ordinary network failure.
ReplyLostAsFailure(w) ==
  /\ pc[w] = "transmitting"
  /\ Goto(w, "definite_error")
  /\ UNCHANGED <<dbVars, appVars, serverVars, attempt, decision, countVars>>

\* The 20 second timeout or a broken connection after send_raw started, or a
\* blocking worker that dies at any point of send_smtp: AmbiguousSend.
ReplyLost(w) ==
  /\ pc[w] \in {"stored", "transmitting"}
  /\ Goto(w, "ambiguous")
  /\ UNCHANGED <<dbVars, appVars, serverVars, attempt, decision, countVars>>

\* complete_outbox_sent: state and sent_copy_state in one transaction.  When
\* the row is gone the success event is suppressed.
CompleteOutboxSent(w) ==
  LET i == job[w]
      copy == IF IncomingConfigured /\ account = "enabled"
                THEN "awaiting_server_sync" ELSE "unavailable"
  IN
  /\ pc[w] = "accepted"
  /\ IF row[i] = "sending"
       THEN /\ row' = [row EXCEPT ![i] = "sent"]
            /\ sentCopy' = [sentCopy EXCEPT ![i] = copy]
            /\ IF copy = "awaiting_server_sync"
                 THEN Goto(w, "reconcile") ELSE EndTask(w)
       ELSE EndTask(w) /\ UNCHANGED <<row, sentCopy>>
  /\ UNCHANGED <<messageId, account, appVars, serverVars, attempt, decision,
                 countVars>>

\* start_sync_if_idle: to the outbox it makes no difference what comes of it.
RequestReconciliation(w) ==
  /\ pc[w] = "reconcile"
  /\ EndTask(w)
  /\ UNCHANGED <<dbVars, appVars, serverVars, attempt, decision, countVars>>

\* persist_error_and_emit with state failed.
PersistFailed(w) ==
  /\ pc[w] = "definite_error"
  /\ row' = SetOutboxState(job[w], "failed")
  /\ EndTask(w)
  /\ UNCHANGED <<messageId, sentCopy, account, appVars, serverVars, attempt,
                 decision, countVars>>

\* An error handler that records every error as failed.
PersistUnknownAsFailed(w) ==
  /\ pc[w] = "ambiguous"
  /\ row' = SetOutboxState(job[w], "failed")
  /\ EndTask(w)
  /\ UNCHANGED <<messageId, sentCopy, account, appVars, serverVars, attempt,
                 decision, countVars>>

\* persist_error_and_emit with state outcome_unknown.
PersistUnknown(w) ==
  /\ pc[w] = "ambiguous"
  /\ row' = SetOutboxState(job[w], "outcome_unknown")
  /\ EndTask(w)
  /\ UNCHANGED <<messageId, sentCopy, account, appVars, serverVars, attempt,
                 decision, countVars>>

\* The result cannot be written: the error is logged, the event suppressed, and
\* the row stays sending until the next process recovers it.
PersistFault(w) ==
  /\ pc[w] \in {"accepted", "definite_error", "ambiguous"}
  /\ faults < MaxFaults
  /\ faults' = faults + 1
  /\ EndTask(w)
  /\ UNCHANGED <<dbVars, appVars, serverVars, attempt, decision, restarts, setups>>

-----------------------------------------------------------------------------
UserCommand ==
  \/ \E i \in Items : ComposeDelivery(i) \/ CancelOutboxItem(i)
  \/ \E w \in Workers, i \in Items : RetryOutboxItem(w, i)
  \/ SetAccountEnabled
  \/ RemoveAccount

\* The steps of deliver_outbox that need no database error.
Deliver(w) ==
  \/ ClaimOutboxForSending(w)
  \/ PrepareDelivery(w)
  \/ StoreOutboxPayloadIfMissing(w)
  \/ ConnectFails(w) \/ Transmit(w)
  \/ ReplyAccepted(w) \/ ReplyRejected(w) \/ ReplyLost(w)
  \/ CompleteOutboxSent(w) \/ PersistFailed(w) \/ PersistUnknown(w)
  \/ RequestReconciliation(w)

DatabaseFault(w) == ClaimFault(w) \/ StoreFault(w) \/ PersistFault(w)

SpawnQueued(i) ==
  \E w \in Workers : QueueDraft(w, i) \/ RespawnQueued(w, i)

Next ==
  \/ UserCommand
  \/ CrashAndReopen
  \/ Setup
  \/ \E i \in Items : SpawnQueued(i)
  \/ \E w \in Workers : Deliver(w) \/ DatabaseFault(w)
  \/ \E t \in wire : ServerAccepts(t)

Spec == Init /\ [][Next]_vars

\* The Tokio runtime polls every task it was given, the blocking SMTP call ends
\* by its timeout, and a process runs its setup hook and the loop in it.  Users,
\* crashes, faults and the server owe nothing.
Fairness ==
  /\ \A w \in Workers : WF_vars(Deliver(w))
  /\ \A i \in Items : WF_vars(SpawnQueued(i))
  /\ WF_vars(~attached /\ Setup)

FairSpec == Spec /\ Fairness

-----------------------------------------------------------------------------
(***************************************************************************)
(* Properties.                                                             *)
(***************************************************************************)
Copies == wire \cup accepted

\* A task that has claimed its row and may still act on the server or the row.
Delivering(w) == pc[w] \notin {"idle", "spawned", "reconcile"}

\* No blind resend: however tasks, retries, crashes and lost answers interleave,
\* at most one transmission of a row can reach the server between two decisions
\* of the user to retry a row whose outcome was unknown.
OneCopyPerDecision ==
  \A t, u \in Copies :
    t.item = u.item /\ t.decision = u.decision => t = u

\* The claim is exclusive: no two tasks deliver the same row, and the row of a
\* delivering task is sending unless the account was removed under it, so no
\* command can retry or cancel it meanwhile.
ExclusiveDelivery ==
  /\ \A v, w \in Workers :
       Delivering(v) /\ Delivering(w) /\ job[v] = job[w] => v = w
  /\ \A w \in Workers :
       Delivering(w) => row[job[w]] \in {"sending", "deleted"}

\* A row that may be sent again without asking, because it failed for certain or
\* waits in the queue, has nothing of the present decision at the server or on
\* the wire.
DefiniteFailure ==
  \A t \in Copies :
    t.decision = decision[t.item] => row[t.item] \notin {"failed", "queued"}

\* Every transmission of a row carries the same Message-ID, the one the payload
\* row holds, whatever Message-IDs later attempts drew.
StableMessageId ==
  \A t \in Copies :
    /\ t.mid = messageId[t.item]
    /\ row[t.item] # "deleted" => sentCopy[t.item] # "no_payload"

\* The interface says sent only of a message the server has taken under the
\* decision the row is at.
SentIsAccepted ==
  \A i \in Items :
    row[i] = "sent" => \E t \in accepted : t.item = i /\ t.decision = decision[i]

\* What the user cancelled is not handed to the server afterwards, though a task
\* spawned for it may still be alive.
NothingSentAfterCancel ==
  [][\A t \in wire' \ wire : row[t.item] # "cancelled"]_vars

\* Without database errors no row stays sending: every way out of deliver_outbox,
\* and the recovery after a crash, records an outcome.
SendingIsResolved ==
  \A i \in Items : row[i] = "sending" ~> row[i] # "sending"

\* Without database errors a queued row is claimed or cancelled, also when the
\* process died between the commit of the row and its claim.
QueuedIsAttempted ==
  \A i \in Items : row[i] = "queued" ~> row[i] # "queued"
=============================================================================
