------------------------------- MODULE Realtime -------------------------------
(***************************************************************************)
(* The realtime synchronisation: the supervisor that keeps one worker for  *)
(* each account that wants it, the two halves of a worker (a listener on a *)
(* connection of its own in IDLE, and a refresher that starts a pass when  *)
(* the listener signals or a timer fires), the passes they start and the   *)
(* manual ones that take the slot from them, and the commands of Accounts  *)
(* with what they tell the synchronisation.                                *)
(*                                                                         *)
(* How a pass fills the cache is in MailCache; here it has read the        *)
(* folders or not.  What may happen between two accesses of one thread to  *)
(* the SyncCoordinator is in SyncSlot; here a start of a pass is one step, *)
(* a problem is reported in one, and a wait ends in one with the look at   *)
(* the status.  A change of mail stands for one that leaves the counters   *)
(* alone, so that only a full pass sees it.                                *)
(***************************************************************************)
EXTENDS Accounts, Naturals, FiniteSets

CONSTANTS
  Generations,  \* worker generations that exist at one time (a number is used again
                \* only when no task and no message has it)
  Passes,       \* passes that exist at one time
  Nobody,       \* no generation, no pass
  Permits,      \* MailRuntime::background_slots
  MaxEvents     \* bound: commands, lifecycle changes, changes of mail and passwords,
                \*        network failures, in total

ASSUME RealtimeAssumption ==
  /\ Readers = Generations
  /\ Nobody \notin Generations \cup Passes
  /\ Permits \in Nat \ {0} /\ MaxEvents \in Nat

VARIABLES
  automatic,        \* the setting syncPolicy
  restarts, woken, allowed, reconnected,  \* RealtimeSyncCoordinator; woken: a round is
                                          \* due; reconnected: the epoch has changed
  sup, desired, workers, blocked,         \* run_supervisor
  misled,                                 \* accounts whose worker took the problem of an
                                          \* obsolete one for the end of its pass
  task,                                   \* watch_account, by generation
  slot, status, pass,                     \* SyncCoordinator, and the passes
  changed,                                \* accounts whose mail no full pass has read
  owed,                                   \* of those, the ones the listener owes a pass
  events                                  \* counter of the bound

coordinatorVars == <<automatic, restarts, woken, allowed, reconnected>>
supervisorVars  == <<sup, desired, workers, blocked, misled>>
syncVars        == <<slot, status, pass>>
mailVars        == <<changed, owed>>
realtimeVars == <<coordinatorVars, supervisorVars, task, syncVars, mailVars, events>>
vars == <<accountVars, realtimeVars>>

Status == {"idle", "syncing", "retryable", "fatal", "offline", "unavailable"}

\* told: the server has sent something the listener has not read.
Task == [account : Accounts, stage : {"start", "secret", "running", "exited"},
         cancelled : BOOLEAN, secret : Secret,
         listener : {"off", "connect", "idle", "retry", "polling"},
         refresher : {"off", "permit", "wait", "behind", "sleep", "retry"},
         full : BOOLEAN, signal : BOOLEAN, told : BOOLEAN]
NoTask == [account |-> NoAccount]
TaskAt(a, stage) ==
  [account |-> a, stage |-> stage, cancelled |-> FALSE, secret |-> "none",
   listener |-> "off", refresher |-> "off", full |-> TRUE, signal |-> FALSE, told |-> FALSE]
NewTask(a) == TaskAt(a, "start")

\* parent: the generation whose token the pass has a child of; a pass is "stopped" when
\* it was cancelled before it began.
Pass == [account : Accounts, stage : {"stopped", "asking", "read", "outdated"},
         parent : Generations \cup {Nobody}, cancelled : BOOLEAN, full : BOOLEAN,
         permit : BOOLEAN, secret : {"old", "current"}]
NoPass == [account |-> NoAccount]

TypeOK ==
  /\ AccountsTypeOK
  /\ automatic \in BOOLEAN /\ restarts \subseteq Accounts /\ woken \in BOOLEAN
  /\ allowed \in BOOLEAN /\ reconnected \in BOOLEAN
  /\ sup \in {"reconcile", "select"} /\ desired \subseteq Accounts
  /\ workers \in [Accounts -> Generations \cup {Nobody}] /\ blocked \subseteq Accounts
  /\ misled \subseteq Accounts
  /\ task \in [Generations -> Task \cup {NoTask}]
  /\ slot \in [Accounts -> Passes \cup {Nobody}]
  /\ status \in [Accounts -> Status]
  /\ pass \in [Passes -> Pass \cup {NoPass}]
  /\ changed \subseteq Accounts /\ owed \subseteq Accounts
  /\ events \in 0 .. MaxEvents

Init ==
  /\ AccountsInit
  /\ automatic = TRUE /\ restarts = {} /\ woken = TRUE
  /\ allowed = TRUE /\ reconnected = FALSE
  /\ sup = "select" /\ desired = {}
  /\ workers = [a \in Accounts |-> Nobody] /\ blocked = {} /\ misled = {}
  /\ task = [g \in Generations |-> NoTask]
  /\ slot = [a \in Accounts |-> Nobody]
  /\ status = [a \in Accounts |-> "idle"]
  /\ pass = [p \in Passes |-> NoPass]
  /\ changed = {} /\ owed = {}
  /\ events = 0

Live == {g \in Generations : task[g] # NoTask}
Running == {p \in Passes : pass[p] # NoPass}
FreePermits == Permits - Cardinality({p \in Running : pass[p].permit})
Event == events < MaxEvents /\ events' = events + 1

\* What restores automatic mail is not counted.
EventIf(disturbs) == IF disturbs THEN Event ELSE UNCHANGED events

-----------------------------------------------------------------------------
(***************************************************************************)
(* RealtimeSyncCoordinator.                                                *)
(***************************************************************************)

Wake == woken' = TRUE /\ UNCHANGED <<automatic, restarts, allowed, reconnected>>

RestartAccount(a) ==
  /\ restarts' = restarts \cup {a} /\ woken' = TRUE
  /\ UNCHANGED <<automatic, allowed, reconnected>>

\* set_platform_state, set_foreground, suspend: the network may be used again, or no more.
SetPlatformState ==
  /\ EventIf(allowed)
  /\ allowed' = ~allowed /\ woken' = TRUE
  /\ reconnected' = (reconnected \/ ~allowed)
  /\ UNCHANGED <<automatic, restarts, supervisorVars, task, syncVars, mailVars,
                 accountVars>>

-----------------------------------------------------------------------------
(***************************************************************************)
(* The supervisor.                                                         *)
(***************************************************************************)

Registered == {a \in Accounts : workers[a] # Nobody}

\* The select of a cancelled worker may still take another branch that is ready: it gets
\* the permit it waits for, or the answer to its login.  Nothing else of it can be seen.
UnderWay(t) ==
  t.stage # "running" \/ t.listener = "connect" \/ t.refresher = "permit"

Cancelled(t) ==
  [account |-> t.account, stage |-> t.stage, cancelled |-> TRUE, secret |-> t.secret,
   listener |-> IF t.listener = "connect" THEN "connect" ELSE "off",
   refresher |-> IF t.refresher = "permit" THEN "permit" ELSE "off",
   full |-> TRUE, signal |-> FALSE, told |-> FALSE]

\* The tokens of workers are cancelled, and with them those of their passes.
CancelTasks(G) ==
  [g \in Generations |-> IF g \notin G THEN task[g]
                          ELSE IF UnderWay(task[g]) THEN Cancelled(task[g]) ELSE NoTask]
CancelChildren(G) ==
  pass' = [p \in Passes |-> IF p \in Running /\ pass[p].parent \in G
                              THEN [pass[p] EXCEPT !.cancelled = TRUE, !.parent = Nobody]
                              ELSE pass[p]]

\* One round, for a change of the lifecycle or after an exit: after the network was gone
\* every connection is given up, then the accounts that want a worker are read
\* (automatic_incoming_accounts).
BeginRound ==
  /\ sup = "select" /\ woken
  /\ woken' = FALSE
  /\ IF reconnected
       THEN LET G == {workers[a] : a \in Registered} IN
            /\ task' = CancelTasks(G) /\ CancelChildren(G)
            /\ workers' = [a \in Accounts |-> Nobody]
       ELSE UNCHANGED <<task, pass, workers>>
  /\ reconnected' = FALSE
  /\ desired' = IF automatic THEN Listed \cap wanted ELSE {}
  /\ sup' = "reconcile"
  /\ UNCHANGED <<automatic, restarts, allowed, blocked, misled, slot, status,
                 mailVars, events, accountVars>>

FreeGenerations == Generations \ (Live \cup {workers[a] : a \in Registered})
Injections(S, T) == {f \in [S -> T] : \A x, y \in S : f[x] = f[y] => x = y}

\* reconcile_workers.
Reconcile ==
  LET still == (blocked \ restarts) \cap desired
      stop == {a \in Registered : ~allowed \/ a \in restarts \/ a \notin desired}
      new == IF allowed THEN desired \ (still \cup (Registered \ stop)) ELSE {}
      G == {workers[a] : a \in stop}
  IN /\ sup = "reconcile"
     /\ Injections(new, FreeGenerations) # {}
     /\ LET f == CHOOSE i \in Injections(new, FreeGenerations) : TRUE IN
          /\ workers' = [a \in Accounts |-> IF a \in new THEN f[a]
                                            ELSE IF a \in stop THEN Nobody ELSE workers[a]]
          /\ task' = [g \in Generations |->
                        IF \E a \in new : f[a] = g THEN NewTask(CHOOSE a \in new : f[a] = g)
                          ELSE CancelTasks(G)[g]]
     /\ CancelChildren(G)
     /\ blocked' = still /\ misled' = misled \ restarts /\ restarts' = {}
     /\ sup' = "select" /\ desired' = {}
     /\ UNCHANGED <<automatic, woken, allowed, reconnected, slot, status,
                    mailVars, events, accountVars>>

\* Any exit takes the registered worker of its account away.
RecordAnyExit(g) ==
  /\ sup = "select" /\ g \in Live /\ task[g].stage = "exited"
  /\ LET a == task[g].account IN
       /\ workers' = [workers EXCEPT ![a] = Nobody]
       /\ blocked' = blocked \cup {a}
  /\ task' = [task EXCEPT ![g] = NoTask]
  /\ Wake
  /\ UNCHANGED <<sup, desired, misled, syncVars, mailVars, events, accountVars>>

\* record_worker_exit: only the registered generation is removed and blocks its account.
\* A pass it has started goes on.  Another exit changes nothing, and is taken at any time
\* so that its number is free.
RecordWorkerExit(g) ==
  /\ g \in Live /\ task[g].stage = "exited"
  /\ sup = "select" \/ workers[task[g].account] # g
  /\ LET a == task[g].account IN
       IF workers[a] = g
         THEN /\ workers' = [workers EXCEPT ![a] = Nobody]
              /\ blocked' = blocked \cup {a}
              /\ pass' = [p \in Passes |->
                            IF p \in Running /\ pass[p].parent = g
                              THEN [pass[p] EXCEPT !.parent = Nobody] ELSE pass[p]]
         ELSE UNCHANGED <<workers, blocked, pass>>
  /\ task' = [task EXCEPT ![g] = NoTask]
  /\ Wake
  /\ UNCHANGED <<sup, desired, misled, slot, status, mailVars, events,
                 accountVars>>

-----------------------------------------------------------------------------
(***************************************************************************)
(* A worker: the session, and the listener.                                *)
(***************************************************************************)

\* The task of a terminal outcome sends its exit unless it was cancelled.
Ended(g) ==
  IF task[g].cancelled THEN NoTask ELSE TaskAt(task[g].account, "exited")

TaskStep(g, new) == task' = [task EXCEPT ![g] = new]

\* report_realtime_problem: the status tells of it, unless a pass is active.
Report(g, problem) ==
  LET a == task[g].account IN
  status' = IF slot[a] = Nobody THEN [status EXCEPT ![a] = problem] ELSE status

\* load_incoming_session: first the reference.
LoadRef(g) ==
  /\ g \in Live /\ task[g].stage = "start"
  /\ IF task[g].account \in Listed
       THEN /\ ReadRef(g, task[g].account)
            /\ TaskStep(g, [task[g] EXCEPT !.stage = "secret"]) /\ UNCHANGED status
       ELSE /\ Report(g, "unavailable") /\ TaskStep(g, Ended(g))
            /\ UNCHANGED accountVars
  /\ UNCHANGED <<coordinatorVars, supervisorVars, slot, pass, mailVars, events>>

\* The worker begins with whatever the store has answered.
LoadSecretUnchecked(g) ==
  /\ g \in Live /\ task[g].stage = "secret"
  /\ ReadSecret(g)
  /\ TaskStep(g, [task[g] EXCEPT !.stage = "running", !.listener = "connect",
                    !.refresher = "permit", !.secret = store[loading[g]]])
  /\ UNCHANGED <<coordinatorVars, supervisorVars, syncVars, mailVars, events>>

\* Then the secret; the two halves begin.
LoadSecret(g) ==
  /\ g \in Live /\ task[g].stage = "secret"
  /\ ReadSecret(g)
  /\ IF store[loading[g]] = "none"
       THEN Report(g, "unavailable") /\ TaskStep(g, Ended(g))
       ELSE /\ TaskStep(g, IF task[g].cancelled THEN NoTask
                             ELSE [task[g] EXCEPT !.stage = "running",
                                     !.listener = "connect", !.refresher = "permit",
                                     !.secret = store[loading[g]]])
            /\ UNCHANGED status
  /\ UNCHANGED <<coordinatorVars, supervisorVars, slot, pass, mailVars, events>>

TaskOnly ==
  UNCHANGED <<coordinatorVars, supervisorVars, syncVars, mailVars, accountVars>>

\* A cancelled worker ends at its next await.
WorkerCancelled(g) ==
  /\ g \in Live /\ task[g].stage = "running" /\ task[g].cancelled
  /\ TaskStep(g, NoTask)
  /\ TaskOnly /\ UNCHANGED events

Listening(g, at) == g \in Live /\ task[g].listener = at

\* open_idle_connection: what SELECT has absorbed is caught up by a signal.  Without IDLE
\* the timer of the refresher is all there is.
Connect(g) ==
  /\ Listening(g, "connect") /\ task[g].secret = "current" /\ ~task[g].cancelled
  /\ \/ TaskStep(g, [task[g] EXCEPT !.listener = "idle", !.signal = TRUE])
        /\ UNCHANGED owed
     \/ TaskStep(g, [task[g] EXCEPT !.listener = "polling"])
        /\ owed' = owed \ {task[g].account}
  /\ UNCHANGED <<coordinatorVars, supervisorVars, syncVars, changed, events, accountVars>>

\* An authentication failure is terminal, and the refresher ends with the worker.
ConnectRejected(g) ==
  /\ Listening(g, "connect") /\ task[g].secret = "old"
  /\ Report(g, "unavailable") /\ TaskStep(g, Ended(g))
  /\ UNCHANGED <<coordinatorVars, supervisorVars, slot, pass, mailVars, events,
                 accountVars>>

\* The connection cannot be opened, or it breaks.
ListenerFails(g) ==
  /\ Listening(g, "connect") \/ Listening(g, "idle")
  /\ Event
  /\ Report(g, "offline")
  /\ TaskStep(g, IF task[g].cancelled THEN NoTask
                   ELSE [task[g] EXCEPT !.listener = "retry", !.told = FALSE])
  /\ UNCHANGED <<coordinatorVars, supervisorVars, slot, pass, mailVars, accountVars>>

ListenerRetries(g) ==
  /\ Listening(g, "retry")
  /\ TaskStep(g, [task[g] EXCEPT !.listener = "connect"])
  /\ TaskOnly /\ UNCHANGED events

\* A signal that arrives while a pass runs is dropped.
NoticeWhenAsleep(g) ==
  /\ Listening(g, "idle") /\ task[g].told
  /\ TaskStep(g, [task[g] EXCEPT !.told = FALSE, !.signal = @ \/ task[g].refresher = "sleep"])
  /\ TaskOnly /\ UNCHANGED events

\* wait_for_change returns TRUE; the channel keeps one signal.
Notice(g) ==
  /\ Listening(g, "idle") /\ task[g].told
  /\ TaskStep(g, [task[g] EXCEPT !.told = FALSE, !.signal = TRUE])
  /\ TaskOnly /\ UNCHANGED events

-----------------------------------------------------------------------------
(***************************************************************************)
(* A worker: the refresher.                                                *)
(***************************************************************************)

Refreshing(g, at) == g \in Live /\ task[g].refresher = at

FreePass == CHOOSE p \in Passes \ Running : TRUE

\* The status of a cancelled worker's pass can hide a failure from the next worker, which
\* then waits for the timer.
Hides(g) == task[g].cancelled /\ \E h \in Live : task[h].account = task[g].account
                                                /\ task[h].refresher = "wait"

\* A free permit, then start_sync_if_idle_with_session.  When the slot is taken the
\* permit is given back; when the account is gone the start fails (record_start_error).
StartPass(g) ==
  LET t == task[g]  a == t.account IN
  /\ Refreshing(g, "permit") /\ FreePermits > 0
  /\ IF slot[a] # Nobody
       THEN /\ TaskStep(g, IF t.cancelled THEN NoTask ELSE [t EXCEPT !.refresher = "behind"])
            /\ UNCHANGED <<syncVars, owed, coordinatorVars>>
     ELSE IF a \in Listed
       THEN /\ Running # Passes
            /\ slot' = [slot EXCEPT ![a] = FreePass]
            /\ pass' = [pass EXCEPT ![FreePass] =
                 [account |-> a, stage |-> IF t.cancelled THEN "stopped" ELSE "asking",
                  parent |-> IF t.cancelled THEN Nobody ELSE g, cancelled |-> t.cancelled,
                  full |-> t.full, permit |-> TRUE, secret |-> t.secret]]
            /\ status' = [status EXCEPT ![a] = "syncing"]
            /\ TaskStep(g, IF t.cancelled THEN NoTask ELSE [t EXCEPT !.refresher = "wait"])
            /\ owed' = IF Hides(g) THEN owed \ {a} ELSE owed
            /\ UNCHANGED coordinatorVars
       ELSE /\ status' = [status EXCEPT ![a] = "fatal"]
            /\ TaskStep(g, Ended(g))
            /\ UNCHANGED <<slot, pass, owed>> /\ Wake
  /\ UNCHANGED <<supervisorVars, changed, events, accountVars>>

\* The slot is free: after a pass of somebody else the refresher tries again.
TryAgain(g) ==
  /\ Refreshing(g, "behind") /\ slot[task[g].account] = Nobody
  /\ TaskStep(g, [task[g] EXCEPT !.refresher = "permit"])
  /\ TaskOnly /\ UNCHANGED events

\* After a pass of its own it reads from the status how that has ended, although
\* somebody else may have written there since.
PassFinished(g) ==
  LET t == task[g]  s == status[t.account] IN
  /\ Refreshing(g, "wait") /\ slot[t.account] = Nobody
  /\ TaskStep(g, IF s \in {"fatal", "unavailable"} THEN Ended(g)
                 ELSE IF s \in {"retryable", "offline"} THEN [t EXCEPT !.refresher = "retry"]
                 ELSE [t EXCEPT !.refresher = "sleep"])
  /\ misled' = IF s = "unavailable" THEN misled \cup {t.account} ELSE misled
  /\ UNCHANGED <<coordinatorVars, sup, desired, workers, blocked, syncVars, mailVars,
                 events, accountVars>>

\* The refresher that sleeps is the only one without a kind of pass in mind.
Wants(t, full) == [t EXCEPT !.refresher = "permit", !.full = full]

RefreshOnSignal(g) ==
  /\ Refreshing(g, "sleep") /\ task[g].signal
  /\ TaskStep(g, [Wants(task[g], TRUE) EXCEPT !.signal = FALSE])
  /\ TaskOnly /\ UNCHANGED events

\* The timer never asks for a full pass.
RefreshLightly(g, full) ==
  /\ Refreshing(g, "sleep")
  /\ TaskStep(g, Wants(task[g], FALSE))
  /\ TaskOnly /\ UNCHANGED events

\* The refresh interval has passed; when fifteen minutes have since the last full pass,
\* the next one is full.
RefreshOnTimer(g, full) ==
  /\ Refreshing(g, "sleep")
  /\ TaskStep(g, Wants(task[g], full))
  /\ TaskOnly /\ UNCHANGED events

RefreshAgain(g) ==
  /\ Refreshing(g, "retry")
  /\ TaskStep(g, [task[g] EXCEPT !.refresher = "permit"])
  /\ TaskOnly /\ UNCHANGED events

-----------------------------------------------------------------------------
(***************************************************************************)
(* Passes.                                                                 *)
(***************************************************************************)

PassAt(p, at) == p \in Running /\ pass[p].stage = at

\* finish_current_sync: the owner of the slot writes its status; the supervisor wakes.
FinishPass(p, result) ==
  LET a == pass[p].account IN
  /\ IF slot[a] = p
       THEN slot' = [slot EXCEPT ![a] = Nobody] /\ status' = [status EXCEPT ![a] = result]
       ELSE UNCHANGED <<slot, status>>
  /\ pass' = [pass EXCEPT ![p] = NoPass]
  /\ Wake

\* ensure_not_cancelled, before anything is asked of the server.
StopPass(p) ==
  /\ PassAt(p, "stopped")
  /\ FinishPass(p, "idle")
  /\ UNCHANGED <<supervisorVars, task, mailVars, events, accountVars>>

\* The server has answered for all folders.
ReadFolders(p) ==
  /\ PassAt(p, "asking") /\ pass[p].secret = "current"
  /\ pass' = [pass EXCEPT ![p].stage = "read"]
  /\ UNCHANGED <<coordinatorVars, supervisorVars, task, slot, status, mailVars,
                 events, accountVars>>

\* The owner stores what it has read.  Nothing can be stored for an account that is gone.
CompletePass(p) ==
  LET a == pass[p].account IN
  /\ PassAt(p, "read") \/ PassAt(p, "outdated")
  /\ IF pass[p].cancelled \/ slot[a] # p
       THEN FinishPass(p, "idle") /\ UNCHANGED mailVars
     ELSE IF a \in Listed
       THEN /\ FinishPass(p, "idle")
            /\ LET read == IF pass[p].full /\ pass[p].stage = "read" THEN {a} ELSE {} IN
                 changed' = changed \ read /\ owed' = owed \ read
       ELSE UNCHANGED mailVars /\ \E result \in {"retryable", "fatal"} : FinishPass(p, result)
  /\ UNCHANGED <<supervisorVars, task, events, accountVars>>

\* The server rejects the password; or the request is abandoned.
PassRejected(p) ==
  /\ PassAt(p, "asking")
  /\ \/ pass[p].secret = "old" /\ FinishPass(p, "fatal")
     \/ pass[p].cancelled /\ FinishPass(p, "idle")
  /\ UNCHANGED <<supervisorVars, task, mailVars, events, accountVars>>

\* The network fails.
PassFails(p) ==
  /\ PassAt(p, "asking") /\ Event
  /\ FinishPass(p, "retryable")
  /\ UNCHANGED <<supervisorVars, task, mailVars, accountVars>>

-----------------------------------------------------------------------------
(***************************************************************************)
(* Commands, with what they tell the synchronisation, and the server.      *)
(***************************************************************************)

\* SyncCoordinator.cancel; whoever waits for the pass takes it for a success.
CancelSlot(a) ==
  /\ pass' = [p \in Passes |-> IF slot[a] = p THEN [pass[p] EXCEPT !.cancelled = TRUE]
                                 ELSE pass[p]]
  /\ slot' = [slot EXCEPT ![a] = Nobody]
  /\ status' = [status EXCEPT ![a] = "idle"]
  /\ owed' = owed \ {a}
  /\ UNCHANGED changed

\* start_sync, reconnect_account and each account of sync_all: the slot is taken from
\* whoever has it, and nobody but the main thread could take it away before the spawn.
StartSync(a) ==
  /\ Idle /\ state[a] = "live" /\ Running # Passes /\ Event
  /\ pass' = [p \in Passes |->
       IF p = FreePass
         THEN [account |-> a, stage |-> "asking", cancelled |-> FALSE, parent |-> Nobody,
               full |-> TRUE, permit |-> FALSE, secret |-> store[incoming[a]]]
       ELSE IF slot[a] = p THEN [pass[p] EXCEPT !.cancelled = TRUE] ELSE pass[p]]
  /\ slot' = [slot EXCEPT ![a] = FreePass]
  /\ status' = [status EXCEPT ![a] = "syncing"]
  /\ RestartAccount(a)
  /\ UNCHANGED <<supervisorVars, task, mailVars, accountVars>>

CancelSync(a) ==
  /\ Idle /\ state[a] = "live" /\ Event
  /\ CancelSlot(a) /\ Wake
  /\ UNCHANGED <<supervisorVars, task, accountVars>>

UpdateSettings ==
  /\ Idle /\ EventIf(automatic)
  /\ automatic' = ~automatic /\ woken' = TRUE
  /\ UNCHANGED <<restarts, allowed, reconnected, supervisorVars, task, syncVars, mailVars,
                 accountVars>>

\* Steps of commands that the synchronisation is not told of.
CommandStep ==
  /\ \/ \E a \in Accounts :
          \/ CheckDuplicate(a) \/ ValidationFails(a) \/ ProvisionOutgoing(a)
          \/ ProvisionFails(a) \/ InsertAccount(a) \/ UndoProvision(a)
          \/ \E layout \in Layouts : ProvisionIncoming(a, layout)
     \/ DeleteOldCredentials \/ DeleteRow
  /\ UNCHANGED realtimeVars

BeginUpdateCredentials(a, secret) ==
  /\ SwapCredentials(a, secret)
  /\ EventIf(secret = "old" \/ store[incoming[a]] = "current")
  /\ UNCHANGED <<coordinatorVars, supervisorVars, task, syncVars, mailVars>>

\* The worker keeps the session it has.
FinishWithoutRestart(a) ==
  /\ a = command.account /\ UpdateReturns
  /\ CancelSlot(a)
  /\ UNCHANGED <<coordinatorVars, supervisorVars, task, events>>

FinishUpdateCredentials(a) ==
  /\ a = command.account /\ UpdateReturns
  /\ CancelSlot(a) /\ RestartAccount(a)
  /\ UNCHANGED <<supervisorVars, task, events>>

BeginRemoveAccount(a) ==
  /\ BeginRemove(a) /\ Event
  /\ CancelSlot(a)
  /\ UNCHANGED <<coordinatorVars, supervisorVars, task>>

FinishRemoveAccount ==
  /\ RemoveReturns /\ Wake
  /\ UNCHANGED <<supervisorVars, task, syncVars, mailVars, events>>

FinishCreateAccount(a) ==
  /\ CreateReturns(a) /\ RestartAccount(a)
  /\ UNCHANGED <<supervisorVars, task, syncVars, mailVars, events>>

PauseOrResume(a) ==
  /\ UpdateAccount(a) /\ EventIf(a \in wanted) /\ RestartAccount(a)
  /\ UNCHANGED <<supervisorVars, task, syncVars, mailVars>>

\* Sessions with the old password are refused from now on; connections stay open.
ChangePassword(a) ==
  /\ state[a] = "live" /\ PasswordChanges(a) /\ Event
  /\ task' = [g \in Generations |->
                IF g \in Live /\ Address[task[g].account] = Address[a]
                   /\ task[g].secret = "current"
                  THEN [task[g] EXCEPT !.secret = "old"] ELSE task[g]]
  /\ pass' = [p \in Passes |->
                IF p \in Running /\ Address[pass[p].account] = Address[a]
                   /\ pass[p].secret = "current"
                  THEN [pass[p] EXCEPT !.secret = "old"] ELSE pass[p]]
  /\ UNCHANGED <<coordinatorVars, supervisorVars, slot, status, mailVars>>

\* Mail changes.  The server tells the connections in IDLE, or loses the notification.
MailChanges(a) ==
  LET idle == {g \in Live : task[g].account = a /\ task[g].listener = "idle"} IN
  /\ state[a] = "live" /\ a \notin changed
  /\ changed' = changed \cup {a}
  /\ pass' = [p \in Passes |-> IF PassAt(p, "read") /\ pass[p].account = a
                                 THEN [pass[p] EXCEPT !.stage = "outdated"] ELSE pass[p]]
  /\ \/ /\ task' = [g \in Generations |-> IF g \in idle THEN [task[g] EXCEPT !.told = TRUE]
                                            ELSE task[g]]
        /\ owed' = owed \cup {a}
     \/ /\ idle # {} /\ owed' = owed \ {a} /\ UNCHANGED task
  /\ UNCHANGED <<coordinatorVars, supervisorVars, slot, status, events, accountVars>>

-----------------------------------------------------------------------------
Supervisor ==
  BeginRound \/ Reconcile \/ \E g \in Generations : RecordWorkerExit(g)

ListenerStep(g) ==
  \/ LoadRef(g) \/ LoadSecret(g) \/ Connect(g) \/ ConnectRejected(g)
  \/ ListenerRetries(g) \/ Notice(g)

RefresherStep(g) ==
  \/ TryAgain(g) \/ PassFinished(g) \/ RefreshAgain(g) \/ RefreshOnSignal(g)
  \/ RefreshOnTimer(g, FALSE) \/ StartPass(g)

PassStep(p) == StopPass(p) \/ ReadFolders(p) \/ CompletePass(p) \/ PassRejected(p)

Command ==
  \/ \E a \in Accounts :
       \/ StartSync(a) \/ CancelSync(a) \/ BeginRemoveAccount(a) \/ PauseOrResume(a)
       \/ \E secret \in {"old", "current"} : BeginUpdateCredentials(a, secret)
       \/ FinishUpdateCredentials(a) \/ FinishCreateAccount(a)
  \/ CommandStep \/ FinishRemoveAccount \/ UpdateSettings

Environment ==
  \/ SetPlatformState
  \/ \E a \in Accounts : ChangePassword(a) \/ MailChanges(a)
  \/ \E g \in Generations : ListenerFails(g)
  \/ \E p \in Passes : PassFails(p)

Next ==
  \/ Supervisor \/ Command \/ Environment
  \/ \E g \in Generations :
       \/ ListenerStep(g) \/ RefresherStep(g) \/ RefreshOnTimer(g, TRUE)
       \/ WorkerCancelled(g)
  \/ \E p \in Passes : PassStep(p)

Spec == Init /\ [][Next]_vars

\* The rest of update_credentials.
EndUpdate == (DeleteOldCredentials /\ UNCHANGED realtimeVars)
             \/ \E a \in Accounts : FinishUpdateCredentials(a)

\* Threads run, update_credentials ends, requests end and timers fire, and fifteen minutes
\* pass for an account again and again.  Users and servers owe nothing.
Fairness ==
  /\ WF_vars(Supervisor)
  /\ WF_vars(EndUpdate)
  /\ \A g \in Generations :
       /\ WF_vars(ListenerStep(g) \/ WorkerCancelled(g)) /\ WF_vars(RefresherStep(g))
  /\ \A a \in Accounts :
       SF_vars(\E g \in Generations : task[g].account = a /\ RefreshOnTimer(g, TRUE))
  /\ WF_vars(\E p \in Passes : PassStep(p))

FairSpec == Spec /\ Fairness

-----------------------------------------------------------------------------
(***************************************************************************)
(* Properties.                                                             *)
(***************************************************************************)

\* One worker for an account: a task that nobody has cancelled is the registered one of
\* its account, and a registered one is alive or its exit is on the way to the
\* supervisor; no generation is forgotten while it still listens.
WorkerIsRegistered ==
  /\ \A a \in Registered : LET g == workers[a] IN
       g \in Live /\ task[g].account = a /\ ~task[g].cancelled
  /\ \A g \in Live : ~task[g].cancelled => workers[task[g].account] = g

\* A worker does not keep a password that the user has replaced, unless the command that
\* replaces it, or the supervisor, is about to restart it.
SessionIsCurrent ==
  \A a \in Registered :
    LET t == task[workers[a]] IN
    /\ t.stage = "running" /\ t.secret = "old"
    /\ state[a] = "live" /\ store[incoming[a]] = "current"
    => a \in restarts \/ command.account = a

\* No account is given up while the password it has is accepted: obsolete workers, passes
\* with the old password and exits that arrive late block nothing, except through the
\* status, which does not tell who has written it.
GoodAccountIsNotBlocked ==
  \A a \in blocked :
    state[a] = "live" /\ store[incoming[a]] = "current" =>
      a \in restarts \/ command.account = a \/ a \in misled

\* What the server has told the listener, or will be asked as it connects, leads to a full
\* pass that has not read the folders yet: signals are kept during passes, retries and
\* passes of others.
NoticedIsPending ==
  \A a \in changed \cap owed \cap Registered :
    LET t == task[workers[a]]  p == slot[a] IN
    t.stage = "running" /\ t.listener = "idle" =>
      \/ a \in restarts \/ t.told \/ t.signal
      \/ t.full /\ t.refresher \in {"permit", "behind", "retry"}
      \/ t.full /\ t.refresher = "wait" /\ p = Nobody /\ status[a] # "idle"
      \/ p # Nobody /\ pass[p].full /\ pass[p].stage # "outdated"

\* Automatic mail is delivered: as long as the account wants it, the network may be used,
\* and its password is accepted, a change is read in the end, however passes are
\* cancelled, replaced or queued, and whether the server tells of the change or not.
Served(a) ==
  /\ state[a] = "live" /\ a \in wanted /\ automatic /\ allowed
  /\ store[incoming[a]] = "current" /\ a \notin misled

ChangeIsFetched == \A a \in Accounts : []<>(a \notin changed \/ ~Served(a))
=============================================================================
