------------------------------ MODULE SyncSlot ------------------------------
(***************************************************************************)
(* The synchronisation slot of one account (app_state::SyncCoordinator),   *)
(* the passes that compete for it, and the two places its status is shown: *)
(* the in-memory map and provider_metadata in the database.                *)
(*                                                                         *)
(* A pass owns the slot while its token is the one in the map.  A manual   *)
(* start takes the slot away from whoever has it, an incidental start only *)
(* takes a free one.  A pass that lost the slot is not stopped: it goes on *)
(* with its network request and finds out at the next with_current.        *)
(*                                                                         *)
(* Commands of the interface run one at a time, on the main thread; passes *)
(* and the realtime listener run on other threads.  Mail is abstracted to  *)
(* the highest UID: server is what has arrived, cursor what is cached.     *)
(***************************************************************************)
EXTENDS Naturals

CONSTANTS
  Tasks,        \* the passes, each with a token of its own
  NoTask,       \* the slot is free
  MaxMail,      \* bound: messages that arrive
  MaxCancels,   \* bound: cancel_sync commands
  MaxUpdates,   \* bound: update_account_credentials commands
  MaxWaits,     \* bound: calls of wait_until_idle
  MaxProblems,  \* bound: problems the realtime listener reports
  MaxRestarts   \* bound: crashes of the process

ASSUME SyncSlotAssumption ==
  /\ NoTask \notin Tasks
  /\ (Tasks \cup {NoTask}) \cap {"cancel", "persist", "credentials"} = {}
  /\ MaxMail \in Nat /\ MaxCancels \in Nat /\ MaxUpdates \in Nat
  /\ MaxWaits \in Nat /\ MaxProblems \in Nat /\ MaxRestarts \in Nat

VARIABLES
  slot,       \* whose token is in SyncCoordinator.tokens
  cancelled,  \* passes whose token is cancelled
  kind,       \* how each pass was started
  pc,         \* where each pass is
  outcome,    \* what its result is, once it is finishing
  plan, got,  \* the cursor it planned from; the highest UID it fetched
  mem, db,    \* status in memory and in the database
  cursor, server,
  ui,         \* the command on the main thread
  notices,    \* state changes whose notify_state_change is still to come
  waiter, unseen,  \* wait_until_idle of the listener, its watch channel
  listener,   \* report_realtime_problem
  cancels, updates, waits, problems, restarts  \* counters of the bounds

passVars   == <<kind, pc, outcome, plan, got>>
statusVars == <<mem, db>>
mailVars   == <<cursor, server>>
waitVars   == <<waiter, unseen>>
countVars  == <<cancels, updates, waits, problems, restarts>>
vars == <<slot, cancelled, passVars, statusVars, mailVars, ui, notices,
          waitVars, listener, countVars>>

Kind == {"manual", "incidental", "child", "check"}
PassState == {"new", "loading", "starting", "start_error", "publishing",
              "listing", "fetching", "fetched", "finishing", "ended"}
Status == {"none", "idle", "syncing", "offline", "error"}
Outcome == {"ok", "cancelled", "error"}

TypeOK ==
  /\ slot \in Tasks \cup {NoTask}
  /\ cancelled \subseteq Tasks
  /\ kind \in [Tasks -> Kind]
  /\ pc \in [Tasks -> PassState]
  /\ outcome \in [Tasks -> Outcome]
  /\ plan \in [Tasks -> Nat] /\ got \in [Tasks -> Nat]
  /\ mem \in Status /\ db \in Status
  /\ cursor \in Nat /\ server \in Nat
  /\ ui \in Tasks \cup {NoTask} \cup {"cancel", "persist", "credentials"}
  /\ notices \in Nat
  /\ waiter \in {"out", "check", "wait"} /\ unseen \in BOOLEAN
  /\ listener \in {"quiet", "write", "publish"}
  /\ cancels \in Nat /\ updates \in Nat /\ waits \in Nat
  /\ problems \in Nat /\ restarts \in Nat

Init ==
  /\ slot = NoTask /\ cancelled = {}
  /\ kind = [t \in Tasks |-> "manual"]
  /\ pc = [t \in Tasks |-> "new"]
  /\ outcome = [t \in Tasks |-> "ok"]
  /\ plan = [t \in Tasks |-> 0] /\ got = [t \in Tasks |-> 0]
  /\ mem = "none" /\ db = "idle"
  /\ cursor = 0 /\ server = 0
  /\ ui = NoTask /\ notices = 0
  /\ waiter = "out" /\ unseen = FALSE /\ listener = "quiet"
  /\ cancels = 0 /\ updates = 0 /\ waits = 0 /\ problems = 0 /\ restarts = 0

-----------------------------------------------------------------------------
(***************************************************************************)
(* SyncCoordinator.                                                        *)
(***************************************************************************)

\* A pass that looks whether anybody owns the slot instead of whether it does.
OwnsIfAnybody(t) == slot # NoTask

\* with_current: the token in the map is the one of this pass.
Owns(t) == slot = t

\* The pass moves on.
Goto(t, label) ==
  /\ pc' = [pc EXCEPT ![t] = label]
  /\ UNCHANGED <<kind, outcome, plan, got>>

\* The task of the pass is over; what it held in memory is gone with it.
Ended(t) ==
  /\ pc' = [pc EXCEPT ![t] = "ended"]
  /\ cancelled' = cancelled \ {t}
  /\ kind' = [kind EXCEPT ![t] = "manual"]
  /\ outcome' = [outcome EXCEPT ![t] = "ok"]
  /\ plan' = [plan EXCEPT ![t] = 0]
  /\ got' = [got EXCEPT ![t] = 0]

\* The pass will report a result.
EndWith(t, result) ==
  /\ pc' = [pc EXCEPT ![t] = "finishing"]
  /\ outcome' = [outcome EXCEPT ![t] = result]
  /\ plan' = [plan EXCEPT ![t] = 0] /\ got' = [got EXCEPT ![t] = 0]
  /\ UNCHANGED kind

\* The command that started a pass returns.
CommandReturns(t) == ui' = IF ui = t THEN NoTask ELSE ui

\* A notification is due; one that nobody waits for is not counted.
SlotChanged == notices' = IF waiter = "out" THEN notices ELSE notices + 1

\* finish_current with a state that the interface does not know.
FinishAsCompleted(t, status) ==
  IF Owns(t)
    THEN mem' = "completed" /\ db' = "completed" /\ slot' = NoTask /\ SlotChanged
    ELSE UNCHANGED <<slot, notices, statusVars>>

\* finish_current forgetting to take the token out of the map.
FinishKeepingSlot(t, status) ==
  IF Owns(t)
    THEN mem' = status /\ db' = status /\ UNCHANGED <<slot, notices>>
    ELSE UNCHANGED <<slot, notices, statusVars>>

\* finish_current that does not notify the waiters.
FinishSilently(t, status) ==
  IF Owns(t)
    THEN mem' = status /\ db' = status /\ slot' = NoTask /\ UNCHANGED notices
    ELSE UNCHANGED <<slot, notices, statusVars>>

\* finish_current: only the owner writes its status and frees the slot, under
\* one lock; the notification follows when the lock is released.
FinishCurrent(t, status) ==
  IF Owns(t)
    THEN mem' = status /\ db' = status /\ slot' = NoTask /\ SlotChanged
    ELSE UNCHANGED <<slot, notices, statusVars>>

\* notify_state_change, after the lock was released.
NotifyStateChange ==
  /\ notices > 0
  /\ notices' = notices - 1
  /\ unseen' = TRUE
  /\ UNCHANGED <<slot, cancelled, passVars, statusVars, mailVars, ui, waiter,
                 listener, countVars>>

\* start: the command start_sync replaces the token in the map.
Start(t) ==
  /\ pc[t] = "new" /\ ui = NoTask
  /\ slot' = t
  /\ cancelled' = IF slot = NoTask THEN cancelled ELSE cancelled \cup {slot}
  /\ pc' = [pc EXCEPT ![t] = "loading"]
  /\ kind' = [kind EXCEPT ![t] = "manual"]
  /\ ui' = t
  /\ SlotChanged
  /\ UNCHANGED <<outcome, plan, got, statusVars, mailVars, waitVars, listener,
                 countVars>>

\* try_start and try_start_child: only a free slot is taken.  The listener
\* brings the session it has loaded already.
TryStart(t, k) ==
  /\ pc[t] = "new" /\ slot = NoTask
  /\ slot' = t
  /\ pc' = [pc EXCEPT ![t] = IF k = "child" THEN "starting" ELSE "loading"]
  /\ kind' = [kind EXCEPT ![t] = k]
  /\ SlotChanged
  /\ UNCHANGED <<cancelled, outcome, plan, got, statusVars, mailVars, ui,
                 waitVars, listener, countVars>>

\* The listener stops and with it the tokens it gave to its passes; Android
\* stops a check the same way.  The slot stays taken.
CancelParent(t) ==
  /\ kind[t] \in {"child", "check"} /\ pc[t] \notin {"new", "ended"}
  /\ t \notin cancelled
  /\ cancelled' = cancelled \cup {t}
  /\ UNCHANGED <<slot, passVars, statusVars, mailVars, ui, notices, waitVars,
                 listener, countVars>>

\* cancel, first half: the token leaves the map and is cancelled.
RemoveToken ==
  /\ slot' = NoTask
  /\ cancelled' = IF slot = NoTask THEN cancelled ELSE cancelled \cup {slot}

\* The command cancel_sync begins.
CancelSync ==
  /\ ui = NoTask /\ cancels < MaxCancels
  /\ cancels' = cancels + 1
  /\ RemoveToken
  /\ ui' = "cancel"
  /\ UNCHANGED <<passVars, statusVars, mailVars, notices, waitVars, listener,
                 updates, waits, problems, restarts>>

\* update_credentials ends with SyncCoordinator.cancel.
UpdateCredentials ==
  /\ ui = NoTask /\ updates < MaxUpdates
  /\ updates' = updates + 1
  /\ RemoveToken
  /\ ui' = "credentials"
  /\ UNCHANGED <<passVars, statusVars, mailVars, notices, waitVars, listener,
                 cancels, waits, problems, restarts>>

\* A cancel_sync that trusts the status in memory.
CancelWithoutPersist ==
  /\ ui \in {"cancel", "credentials"}
  /\ mem' = "idle"
  /\ SlotChanged
  /\ ui' = NoTask
  /\ UNCHANGED <<slot, cancelled, passVars, db, mailVars, waitVars, listener,
                 countVars>>

\* cancel, second half, under the lock of the statuses.
CancelStatus ==
  /\ ui \in {"cancel", "credentials"}
  /\ mem' = "idle"
  /\ SlotChanged
  /\ ui' = IF ui = "cancel" THEN "persist" ELSE NoTask
  /\ UNCHANGED <<slot, cancelled, passVars, db, mailVars, waitVars, listener,
                 countVars>>

\* cancel_sync writes the status to the database as well.
CancelPersist ==
  /\ ui = "persist"
  /\ db' = "idle"
  /\ ui' = NoTask
  /\ UNCHANGED <<slot, cancelled, passVars, mem, mailVars, notices, waitVars,
                 listener, countVars>>

-----------------------------------------------------------------------------
(***************************************************************************)
(* One pass.                                                               *)
(***************************************************************************)

\* load_incoming_session: the account may be gone, the secret unreadable.
LoadSession(t) ==
  /\ pc[t] = "loading"
  /\ IF kind[t] = "check"
       THEN Goto(t, "publishing") \/ EndWith(t, "error")
       ELSE \E next \in {"starting", "start_error"} : Goto(t, next)
  /\ UNCHANGED <<slot, cancelled, statusVars, mailVars, ui, notices, waitVars,
                 listener, countVars>>

\* record_start_error.
RecordStartError(t) ==
  /\ pc[t] = "start_error"
  /\ FinishCurrent(t, "error")
  /\ Ended(t)
  /\ CommandReturns(t)
  /\ UNCHANGED <<mailVars, waitVars, listener, countVars>>

\* start_sync_with_loaded_session: mark the account syncing and spawn the task,
\* or return when the slot is lost already.
MarkStarted(t) ==
  /\ pc[t] = "starting"
  /\ IF Owns(t)
       THEN /\ mem' = "syncing" /\ db' = "syncing"
            /\ Goto(t, "publishing") /\ UNCHANGED cancelled
       ELSE UNCHANGED statusVars /\ Ended(t)
  /\ CommandReturns(t)
  /\ UNCHANGED <<slot, mailVars, notices, waitVars, listener, countVars>>

\* synchronize_account: ensure_not_cancelled, then publish_status.
PublishStatus(t) ==
  /\ pc[t] = "publishing"
  /\ IF t \notin cancelled /\ Owns(t)
       THEN mem' = "syncing" /\ Goto(t, "listing")
       ELSE UNCHANGED mem /\ EndWith(t, "cancelled")
  /\ UNCHANGED <<slot, cancelled, db, mailVars, ui, notices, waitVars, listener,
                 countVars>>

\* A network request of the pass fails, or is dropped with a stopped check.
NetworkFails(t) ==
  /\ pc[t] \in {"listing", "fetching"}
  /\ \/ EndWith(t, "error")
     \/ t \in cancelled /\ EndWith(t, "cancelled")
  /\ UNCHANGED <<slot, cancelled, statusVars, mailVars, ui, notices, waitVars,
                 listener, countVars>>

\* The folder list has arrived; the owner stores it and reads the cursor.
Plan(t) ==
  /\ pc[t] = "listing"
  /\ IF t \notin cancelled /\ Owns(t)
       THEN /\ plan' = [plan EXCEPT ![t] = cursor]
            /\ pc' = [pc EXCEPT ![t] = "fetching"]
            /\ UNCHANGED <<kind, outcome, got>>
       ELSE EndWith(t, "cancelled")
  /\ UNCHANGED <<slot, cancelled, statusVars, mailVars, ui, notices, waitVars,
                 listener, countVars>>

\* The server answers the FETCH from the planned cursor with some of what it has.
FetchSnapshot(t) ==
  /\ pc[t] = "fetching"
  /\ \E uid \in plan[t] .. server :
       /\ got' = [got EXCEPT ![t] = uid]
       /\ pc' = [pc EXCEPT ![t] = "fetched"]
  /\ UNCHANGED <<slot, cancelled, kind, outcome, plan, statusVars, mailVars, ui,
                 notices, waitVars, listener, countVars>>

\* ensure_not_cancelled, then apply_imap_snapshot under with_current.  A full
\* page is followed by another request from the new cursor.
ApplySnapshot(t) ==
  /\ pc[t] = "fetched"
  /\ IF t \notin cancelled /\ Owns(t)
       THEN /\ cursor' = got[t]
            /\ \/ /\ got[t] > plan[t]
                  /\ plan' = [plan EXCEPT ![t] = got[t]]
                  /\ pc' = [pc EXCEPT ![t] = "fetching"]
                  /\ UNCHANGED <<kind, outcome, got>>
               \/ EndWith(t, "ok")
       ELSE UNCHANGED cursor /\ EndWith(t, "cancelled")
  /\ UNCHANGED <<slot, cancelled, statusVars, server, ui, notices, waitVars,
                 listener, countVars>>

\* finish_current_sync with the result of the pass.
FinishCurrentSync(t) ==
  /\ pc[t] = "finishing"
  /\ FinishCurrent(t, IF outcome[t] = "error" THEN "error" ELSE "idle")
  /\ Ended(t)
  /\ UNCHANGED <<mailVars, ui, waitVars, listener, countVars>>

-----------------------------------------------------------------------------
(***************************************************************************)
(* The realtime listener, the server and the process.                      *)
(***************************************************************************)

\* wait_until_idle subscribes before its first look at the slot.
Subscribe ==
  /\ waiter = "out" /\ waits < MaxWaits
  /\ waits' = waits + 1
  /\ waiter' = "check" /\ unseen' = FALSE
  /\ UNCHANGED <<slot, cancelled, passVars, statusVars, mailVars, ui, notices,
                 listener, cancels, updates, problems, restarts>>

\* is_active; a free slot ends the wait.
CheckActive ==
  /\ waiter = "check"
  /\ waiter' = IF slot = NoTask THEN "out" ELSE "wait"
  /\ UNCHANGED <<slot, cancelled, passVars, statusVars, mailVars, ui, notices,
                 unseen, listener, countVars>>

\* changes.changed() resolves.
WakeUp ==
  /\ waiter = "wait" /\ unseen
  /\ waiter' = "check" /\ unseen' = FALSE
  /\ UNCHANGED <<slot, cancelled, passVars, statusVars, mailVars, ui, notices,
                 listener, countVars>>

\* report_realtime_problem looks at the slot once and writes later.
ReportProblem ==
  /\ listener = "quiet" /\ slot = NoTask /\ problems < MaxProblems
  /\ problems' = problems + 1
  /\ listener' = "write"
  /\ UNCHANGED <<slot, cancelled, passVars, statusVars, mailVars, ui, notices,
                 waitVars, cancels, updates, waits, restarts>>

WriteProblem ==
  /\ listener = "write"
  /\ db' = "offline"
  /\ listener' = "publish"
  /\ UNCHANGED <<slot, cancelled, passVars, mem, mailVars, ui, notices, waitVars,
                 countVars>>

PublishProblem ==
  /\ listener = "publish"
  /\ mem' = "offline"
  /\ listener' = "quiet"
  /\ UNCHANGED <<slot, cancelled, passVars, db, mailVars, ui, notices, waitVars,
                 countVars>>

MailArrives ==
  /\ server < MaxMail
  /\ server' = server + 1
  /\ UNCHANGED <<slot, cancelled, passVars, statusVars, cursor, ui, notices,
                 waitVars, listener, countVars>>

\* A crash, and recover_interrupted_sync as the database is opened again.
CrashAndReopen ==
  /\ restarts < MaxRestarts
  /\ restarts' = restarts + 1
  /\ slot' = NoTask /\ cancelled' = {}
  /\ pc' = [t \in Tasks |-> IF pc[t] = "new" THEN "new" ELSE "ended"]
  /\ kind' = [t \in Tasks |-> "manual"]
  /\ outcome' = [t \in Tasks |-> "ok"]
  /\ plan' = [t \in Tasks |-> 0] /\ got' = [t \in Tasks |-> 0]
  /\ mem' = "none"
  /\ db' = IF db = "syncing" THEN "idle" ELSE db
  /\ ui' = NoTask /\ notices' = 0
  /\ waiter' = "out" /\ unseen' = FALSE /\ listener' = "quiet"
  /\ UNCHANGED <<mailVars, cancels, updates, waits, problems>>

-----------------------------------------------------------------------------
Pass(t) ==
  \/ LoadSession(t) \/ RecordStartError(t) \/ MarkStarted(t)
  \/ PublishStatus(t) \/ Plan(t) \/ FetchSnapshot(t) \/ NetworkFails(t)
  \/ ApplySnapshot(t) \/ FinishCurrentSync(t)

Command == CancelStatus \/ CancelPersist

Listener ==
  \/ Subscribe \/ CheckActive \/ WakeUp
  \/ ReportProblem \/ WriteProblem \/ PublishProblem

Next ==
  \/ \E t \in Tasks : Pass(t) \/ Start(t) \/ CancelParent(t)
  \/ \E t \in Tasks, k \in Kind \ {"manual"} : TryStart(t, k)
  \/ CancelSync \/ UpdateCredentials \/ Command
  \/ NotifyStateChange
  \/ Listener
  \/ MailArrives
  \/ CrashAndReopen

Spec == Init /\ [][Next]_vars

\* Threads run and every network request ends, by its own timeout if need be.
\* The user, the server, crashes and the parents of tokens owe nothing.
Fairness ==
  /\ \A t \in Tasks : WF_vars(Pass(t))
  /\ WF_vars(Command)
  /\ WF_vars(NotifyStateChange)
  /\ WF_vars(CheckActive \/ WakeUp)

FairSpec == Spec /\ Fairness

-----------------------------------------------------------------------------
(***************************************************************************)
(* Properties.                                                             *)
(***************************************************************************)

\* What the owner has fetched still fits the cache: since it read the cursor no
\* other pass has written, although replaced passes are still running and each
\* looks at the slot only after its network requests.
PassIsolation ==
  slot # NoTask /\ pc[slot] \in {"fetching", "fetched"} => plan[slot] = cursor

\* An old answer never takes the cache back behind what a newer pass has stored.
CacheMovesForward ==
  [][cursor' >= cursor]_vars

\* Nobody is shown a synchronisation that is not there: whatever replaced,
\* cancelled or failed passes leave behind, one of the two statuses says syncing
\* only while a pass owns the slot or a cancel is about to correct it.
NoPhantomSync ==
  mem = "syncing" \/ db = "syncing" =>
    slot # NoTask \/ ui \in {"cancel", "credentials", "persist"}

\* The slot is never left to a pass that is over, on any early return: nobody
\* could start an incidental pass again.
NoLeakedSlot ==
  slot # NoTask => pc[slot] \notin {"new", "ended"}

\* A waiter does not sleep through the release of the slot, in whatever order
\* it subscribes, looks and is notified.
NoLostWakeup ==
  waiter = "wait" /\ slot = NoTask =>
    unseen \/ notices > 0 \/ ui \in {"cancel", "credentials"}

\* Every pass gives the slot back in the end, also after its token was cancelled.
SlotIsReleased ==
  \A t \in Tasks : slot = t ~> slot # t

\* When passes stop coming, wait_until_idle returns.
WaiterReturns ==
  waiter # "out" ~> waiter = "out"
=============================================================================
