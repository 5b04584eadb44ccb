---------------------------- MODULE RealtimeProofs ----------------------------
(***************************************************************************)
(* Proofs about Realtime, for any accounts, generations and passes.        *)
(*                                                                         *)
(* First, Realtime does to the accounts what Accounts does and nothing     *)
(* else, so that the theorems of AccountsProofs hold here.  Then, that the *)
(* supervisor and the workers agree on who works for an account: that is   *)
(* inductive together with the types of the variables it speaks of.        *)
(***************************************************************************)
EXTENDS Realtime, AccountsProofs

\* A step of Realtime is one of Accounts or leaves its variables alone.
LEMMA StepOfAccounts ==
  ASSUME [Next]_vars
  PROVE  [AccountsNext]_accountVars
<1> USE RealtimeAssumption
<1>1. CASE UNCHANGED vars
  BY <1>1 DEF vars
<1>2. CASE Supervisor
  BY <1>2 DEF Supervisor, BeginRound, Reconcile, RecordWorkerExit
<1>3. ASSUME NEW a \in Accounts, StartSync(a) \/ CancelSync(a)
      PROVE  [AccountsNext]_accountVars
  BY <1>3 DEF StartSync, CancelSync
<1>4. ASSUME NEW a \in Accounts,
             \/ BeginRemoveAccount(a) \/ PauseOrResume(a)
             \/ \E secret \in {"old", "current"} : BeginUpdateCredentials(a, secret)
             \/ FinishUpdateCredentials(a) \/ FinishCreateAccount(a)
      PROVE  [AccountsNext]_accountVars
  BY <1>4 DEF BeginRemoveAccount, PauseOrResume, BeginUpdateCredentials,
              FinishUpdateCredentials, FinishCreateAccount, AccountsNext
<1>5. CASE CommandStep \/ FinishRemoveAccount
  BY <1>5 DEF CommandStep, FinishRemoveAccount, AccountsNext
<1>6. CASE UpdateSettings \/ SetPlatformState
  BY <1>6 DEF UpdateSettings, SetPlatformState
<1>7. ASSUME NEW a \in Accounts, ChangePassword(a) \/ MailChanges(a)
      PROVE  [AccountsNext]_accountVars
  BY <1>7 DEF ChangePassword, MailChanges, AccountsNext
<1>8. ASSUME NEW g \in Generations, LoadRef(g) \/ LoadSecret(g)
      PROVE  [AccountsNext]_accountVars
  <2>1. CASE LoadRef(g)
    BY <1>8, <2>1 DEF LoadRef, AccountsNext, Listed
  <2>2. CASE LoadSecret(g)
    BY <1>8, <2>2 DEF LoadSecret, AccountsNext
  <2> QED
    BY <1>8, <2>1, <2>2
<1>9. ASSUME NEW g \in Generations,
             \/ Connect(g) \/ ConnectRejected(g) \/ ListenerRetries(g) \/ Notice(g)
             \/ ListenerFails(g) \/ WorkerCancelled(g)
             \/ RefresherStep(g) \/ RefreshOnTimer(g, TRUE)
      PROVE  [AccountsNext]_accountVars
  BY <1>9 DEF Connect, ConnectRejected, ListenerRetries, Notice, ListenerFails,
              WorkerCancelled, RefresherStep, TryAgain, PassFinished, RefreshAgain,
              RefreshOnSignal, RefreshOnTimer, StartPass, TaskOnly
<1>10. ASSUME NEW p \in Passes, PassStep(p) \/ PassFails(p)
       PROVE  [AccountsNext]_accountVars
  BY <1>10 DEF PassStep, PassFails, StopPass, ReadFolders, CompletePass, PassRejected
<1> QED
  BY <1>1, <1>2, <1>3, <1>4, <1>5, <1>6, <1>7, <1>8, <1>9, <1>10
     DEF Next, Command, Environment, ListenerStep

\* Realtime implements Accounts.
THEOREM RealtimeImplementsAccounts == Spec => AccountsSpec
<1>1. Init => AccountsInit
  BY DEF Init
<1> QED
  BY <1>1, StepOfAccounts, PTL DEF Spec, AccountsSpec

\* In the whole system too no account loses its secrets and no secret is left over.
THEOREM RealtimeStoresAgree == Spec => []StoresAgree
BY RealtimeImplementsAccounts, StoresAlwaysAgree, PTL

\* In the whole system too no address is added twice.
THEOREM RealtimeOneAccountForAnAddress == Spec => []OneAccountPerAddress
BY RealtimeImplementsAccounts, OneAccountForAnAddress, PTL

-----------------------------------------------------------------------------
(***************************************************************************)
(* One worker for an account.                                              *)
(***************************************************************************)
WorkerTypes ==
  /\ desired \subseteq Accounts
  /\ workers \in [Accounts -> Generations \cup {Nobody}]
  /\ task \in [Generations -> Task \cup {NoTask}]

WorkerInv == WorkerTypes /\ WorkerIsRegistered

\* A live generation has a task of some account.
LEMMA LiveHasTask ==
  ASSUME WorkerTypes, NEW g \in Live
  PROVE  /\ g \in Generations /\ task[g] \in Task /\ task[g] # NoTask
         /\ task[g].account \in Accounts
BY DEF WorkerTypes, Live, Task

LEMMA NewTaskIsTask ==
  ASSUME NEW a \in Accounts
  PROVE  /\ NewTask(a) \in Task /\ NewTask(a).account = a
         /\ NewTask(a).cancelled = FALSE /\ NewTask(a) # NoTask
BY RealtimeAssumption, AccountsAssumption DEF NewTask, TaskAt, Task, NoTask, Secret

\* A cancelled task is a task of the same account.
LEMMA CancelledIsTask ==
  ASSUME NEW t \in Task
  PROVE  /\ Cancelled(t) \in Task /\ Cancelled(t).account = t.account
         /\ Cancelled(t).cancelled = TRUE
<1>1. /\ t.account \in Accounts /\ t.stage \in {"start", "secret", "running", "exited"}
      /\ t.secret \in Secret
  BY DEF Task
<1> QED
  BY <1>1 DEF Cancelled, Task

\* What a task that ends leaves behind.
LEMMA EndedTask ==
  ASSUME WorkerTypes, NEW g \in Live
  PROVE  \/ Ended(g) = NoTask /\ task[g].cancelled
         \/ /\ Ended(g) \in Task /\ Ended(g).account = task[g].account
            /\ Ended(g).cancelled = FALSE /\ task[g].cancelled = FALSE
<1>1. task[g] \in Task /\ task[g].account \in Accounts
  BY LiveHasTask
<1>2. task[g].cancelled \in BOOLEAN
  BY <1>1 DEF Task
<1> QED
  BY <1>1, <1>2 DEF Ended, TaskAt, Task, Secret

\* A step of one task that keeps its account and its cancellation keeps the invariant; it
\* may vanish only when it was cancelled.
LEMMA OneTaskStep ==
  ASSUME WorkerInv, NEW g \in Live, NEW t,
         TaskStep(g, t), UNCHANGED <<desired, workers>>,
         \/ t = NoTask /\ task[g].cancelled
         \/ t \in Task /\ t.account = task[g].account /\ t.cancelled = task[g].cancelled
  PROVE  WorkerInv'
<1>1. g \in Generations /\ task[g] \in Task
  BY LiveHasTask DEF WorkerInv
<1>2. WorkerTypes'
  BY <1>1 DEF WorkerInv, WorkerTypes, TaskStep
<1>3. task'[g] = t /\ \A h \in Generations : h # g => task'[h] = task[h]
  BY <1>1 DEF WorkerInv, WorkerTypes, TaskStep
<1>4. t # NoTask \/ task[g].cancelled
  BY <1>1, AccountsAssumption DEF Task, NoTask
<1>5. WorkerIsRegistered'
  <2>1. ASSUME NEW a \in Accounts, workers[a] # Nobody
        PROVE  /\ workers[a] \in Live' /\ task'[workers[a]].account = a
               /\ ~task'[workers[a]].cancelled
    <3>1. workers[a] \in Live /\ task[workers[a]].account = a /\ ~task[workers[a]].cancelled
      BY <2>1 DEF WorkerInv, WorkerIsRegistered, Registered
    <3>2. CASE workers[a] = g
      BY <1>1, <1>3, <1>4, <3>1, <3>2, AccountsAssumption DEF Live, Task, NoTask
    <3>3. CASE workers[a] # g
      BY <1>3, <3>1, <3>3 DEF Live
    <3> QED
      BY <3>2, <3>3
  <2>2. ASSUME NEW h \in Live', ~task'[h].cancelled
        PROVE  workers[task'[h].account] = h
    <3>1. CASE h = g
      <4>1. t # NoTask
        BY <1>3, <2>2, <3>1 DEF Live
      <4>2. t.account = task[g].account /\ t.cancelled = task[g].cancelled
        BY <4>1
      <4> QED
        BY <1>3, <2>2, <3>1, <4>2 DEF WorkerInv, WorkerIsRegistered
    <3>2. CASE h # g
      BY <1>3, <2>2, <3>2 DEF Live, WorkerInv, WorkerIsRegistered
    <3> QED
      BY <3>1, <3>2
  <2>3. workers' = workers
    OBVIOUS
  <2> QED
    BY <2>1, <2>2, <2>3 DEF WorkerIsRegistered, Registered
<1> QED
  BY <1>2, <1>5 DEF WorkerInv

\* Nothing changes that the invariant speaks of.
LEMMA WorkerStutter ==
  ASSUME WorkerInv, UNCHANGED <<desired, workers, task>>
  PROVE  WorkerInv'
BY DEF WorkerInv, WorkerTypes, WorkerIsRegistered, Registered, Live

\* Cancelling the workers of some registered accounts.
LEMMA CancelTasksStep ==
  ASSUME WorkerInv, NEW S \in SUBSET Registered
  PROVE  LET G == {workers[a] : a \in S} IN
         /\ CancelTasks(G) \in [Generations -> Task \cup {NoTask}]
         /\ \A g \in Generations \ G : CancelTasks(G)[g] = task[g]
         /\ \A g \in G : CancelTasks(G)[g] = NoTask \/ CancelTasks(G)[g].cancelled
<1> DEFINE G == {workers[a] : a \in S}
<1>1. ASSUME NEW g \in G PROVE g \in Generations /\ Cancelled(task[g]) \in Task
                               /\ Cancelled(task[g]).cancelled
  <2>1. g \in Live
    BY <1>1 DEF WorkerInv, WorkerIsRegistered
  <2>2. g \in Generations /\ task[g] \in Task
    BY <2>1, LiveHasTask DEF WorkerInv
  <2> QED
    BY <2>2, CancelledIsTask
<1> HIDE DEF G
<1>2. \A g \in Generations : CancelTasks(G)[g] =
        IF g \notin G THEN task[g] ELSE IF UnderWay(task[g]) THEN Cancelled(task[g]) ELSE NoTask
  BY DEF CancelTasks
<1>3. CancelTasks(G) \in [Generations -> Task \cup {NoTask}]
  <2>1. \A g \in Generations : CancelTasks(G)[g] \in Task \cup {NoTask}
    BY <1>1, <1>2 DEF WorkerInv, WorkerTypes
  <2> QED
    BY <2>1 DEF CancelTasks
<1>4. /\ \A g \in Generations \ G : CancelTasks(G)[g] = task[g]
      /\ \A g \in G : CancelTasks(G)[g] = NoTask \/ CancelTasks(G)[g].cancelled
  BY <1>1, <1>2
<1> QED
  BY <1>3, <1>4 DEF G

LEMMA WorkerInit == Init => WorkerInv
<1> SUFFICES ASSUME Init PROVE WorkerInv
  OBVIOUS
<1>1. Live = {} /\ Registered = {}
  BY DEF Init, Live, Registered
<1> QED
  BY <1>1 DEF Init, WorkerInv, WorkerTypes, WorkerIsRegistered

\* The supervisor begins a round.
LEMMA BeginRoundStep ==
  ASSUME WorkerInv, AccountsTypeOK, BeginRound
  PROVE  WorkerInv'
<1>1. desired' \subseteq Accounts
  BY DEF BeginRound, Listed
<1>2. CASE reconnected
  <2> DEFINE G == {workers[a] : a \in Registered}
  <2>1. /\ task' = CancelTasks(G) /\ workers' = [a \in Accounts |-> Nobody]
    BY <1>2 DEF BeginRound
  <2>2. /\ CancelTasks(G) \in [Generations -> Task \cup {NoTask}]
        /\ \A g \in Generations \ G : CancelTasks(G)[g] = task[g]
        /\ \A g \in G : CancelTasks(G)[g] = NoTask \/ CancelTasks(G)[g].cancelled
    BY CancelTasksStep
  <2>3. ASSUME NEW g \in Live' PROVE task'[g].cancelled
    <3>1. g \in Generations /\ task'[g] # NoTask
      BY <2>3 DEF Live
    <3>2. CASE g \in G
      BY <2>1, <2>2, <3>1, <3>2
    <3>3. CASE g \notin G
      <4>1. task'[g] = task[g] /\ g \in Live
        BY <2>1, <2>2, <3>1, <3>3 DEF Live
      <4>2. workers[task[g].account] # g
        BY <3>3, <4>1, LiveHasTask, RealtimeAssumption DEF Registered, WorkerInv
      <4> QED
        BY <4>1, <4>2 DEF WorkerInv, WorkerIsRegistered
    <3> QED
      BY <3>2, <3>3
  <2>4. Registered' = {}
    BY <2>1 DEF Registered
  <2> QED
    BY <1>1, <2>1, <2>2, <2>3, <2>4 DEF WorkerInv, WorkerTypes, WorkerIsRegistered
<1>3. CASE ~reconnected
  BY <1>1, <1>3 DEF BeginRound, WorkerInv, WorkerTypes, WorkerIsRegistered, Registered, Live
<1> QED
  BY <1>2, <1>3

\* The supervisor stops the workers that are obsolete and starts the ones that are missing:
\* a new worker takes a generation that no task and no slot has.
LEMMA ReconcileStep ==
  ASSUME WorkerInv, Reconcile
  PROVE  WorkerInv'
<1> DEFINE still == (blocked \ restarts) \cap desired
           stop == {a \in Registered : ~allowed \/ a \in restarts \/ a \notin desired}
           new == IF allowed THEN desired \ (still \cup (Registered \ stop)) ELSE {}
           G == {workers[a] : a \in stop}
           f == CHOOSE i \in Injections(new, FreeGenerations) : TRUE
<1>1. /\ f \in Injections(new, FreeGenerations)
      /\ workers' = [a \in Accounts |-> IF a \in new THEN f[a]
                                        ELSE IF a \in stop THEN Nobody ELSE workers[a]]
      /\ task' = [g \in Generations |->
                    IF \E a \in new : f[a] = g THEN NewTask(CHOOSE a \in new : f[a] = g)
                      ELSE CancelTasks(G)[g]]
      /\ desired' = {}
  BY DEF Reconcile
<1>2. /\ CancelTasks(G) \in [Generations -> Task \cup {NoTask}]
      /\ \A g \in Generations \ G : CancelTasks(G)[g] = task[g]
      /\ \A g \in G : CancelTasks(G)[g] = NoTask \/ CancelTasks(G)[g].cancelled
  BY CancelTasksStep
<1>3. new \subseteq Accounts /\ stop \subseteq Registered /\ Registered \subseteq Accounts
      /\ new \cap (Registered \ stop) = {}
  BY DEF WorkerInv, WorkerTypes, Registered
<1>4. /\ \A a \in new : /\ f[a] \in Generations /\ f[a] \notin Live
                        /\ \A b \in Registered : f[a] # workers[b]
      /\ \A a, b \in new : f[a] = f[b] => a = b
  <2> HIDE DEF f, new
  <2>1. f \in [new -> FreeGenerations] /\ \A a, b \in new : f[a] = f[b] => a = b
    BY <1>1 DEF Injections
  <2> QED
    BY <2>1 DEF FreeGenerations
<1> HIDE DEF f, new, stop, G
<1>5. ASSUME NEW a \in new
      PROVE  /\ f[a] \in Generations /\ workers'[a] = f[a] /\ task'[f[a]] = NewTask(a)
             /\ a \in Accounts /\ NewTask(a) \in Task /\ NewTask(a) # NoTask
             /\ NewTask(a).account = a /\ ~NewTask(a).cancelled
  <2>1. (CHOOSE b \in new : f[b] = f[a]) = a
    BY <1>4, <1>5
  <2> QED
    BY <1>1, <1>3, <1>4, <1>5, <2>1, NewTaskIsTask
<1>6. ASSUME NEW g \in Generations, \A a \in new : f[a] # g
      PROVE  task'[g] = CancelTasks(G)[g]
  BY <1>1, <1>6
<1>7. WorkerTypes'
  <2>1. workers' \in [Accounts -> Generations \cup {Nobody}]
    BY <1>1, <1>4 DEF WorkerInv, WorkerTypes
  <2>2. ASSUME NEW g \in Generations PROVE task'[g] \in Task \cup {NoTask}
    <3>1. CASE \E a \in new : f[a] = g
      BY <1>5, <3>1
    <3>2. CASE \A a \in new : f[a] # g
      BY <1>2, <1>6, <3>2
    <3> QED
      BY <3>1, <3>2
  <2>3. task' \in [Generations -> Task \cup {NoTask}]
    BY <1>1, <2>2
  <2> QED
    BY <1>1, <2>1, <2>3 DEF WorkerTypes
<1>8. ASSUME NEW a \in Registered'
      PROVE  workers'[a] \in Live' /\ task'[workers'[a]].account = a
             /\ ~task'[workers'[a]].cancelled
  <2>1. a \in Accounts /\ workers'[a] # Nobody
    BY <1>8 DEF Registered
  <2>2. CASE a \in new
    BY <1>5, <2>2 DEF Live
  <2>3. CASE a \notin new
    <3>1. a \notin stop /\ workers'[a] = workers[a]
      BY <1>1, <2>1, <2>3
    <3>2. a \in Registered
      BY <2>1, <3>1 DEF Registered
    <3>3. /\ workers[a] \in Live /\ task[workers[a]].account = a
          /\ ~task[workers[a]].cancelled
      BY <3>2 DEF WorkerInv, WorkerIsRegistered
    <3>4. workers[a] \in Generations /\ task[workers[a]] # NoTask
      BY <3>3 DEF Live
    <3>5. workers[a] \notin G
      <4>1. ASSUME NEW b \in stop, workers[b] = workers[a] PROVE FALSE
        <5>1. task[workers[b]].account = b
          BY <1>3 DEF WorkerInv, WorkerIsRegistered
        <5> QED
          BY <3>1, <3>3, <4>1, <5>1
      <4> QED
        BY <4>1 DEF G
    <3>6. task'[workers[a]] = task[workers[a]]
      BY <1>2, <1>4, <1>6, <3>2, <3>4, <3>5
    <3> QED
      BY <3>1, <3>3, <3>4, <3>6 DEF Live
  <2> QED
    BY <2>2, <2>3
<1>9. ASSUME NEW g \in Live', ~task'[g].cancelled
      PROVE  workers'[task'[g].account] = g
  <2>1. g \in Generations /\ task'[g] # NoTask
    BY <1>9 DEF Live
  <2>2. CASE \E a \in new : f[a] = g
    BY <1>5, <2>2
  <2>3. CASE \A a \in new : f[a] # g
    <3>1. task'[g] = CancelTasks(G)[g] /\ g \notin G
      BY <1>2, <1>6, <1>9, <2>1, <2>3
    <3>2. task'[g] = task[g] /\ g \in Live
      BY <1>2, <2>1, <3>1 DEF Live
    <3>3. workers[task[g].account] = g /\ task[g].account \in Accounts
      BY <1>9, <3>2, LiveHasTask DEF WorkerInv, WorkerIsRegistered
    <3>4. task[g].account \notin stop
      BY <3>1, <3>3 DEF G
    <3>5. task[g].account \in Registered
      BY <2>1, <3>3, RealtimeAssumption DEF Registered
    <3> QED
      BY <1>1, <1>3, <3>2, <3>3, <3>4, <3>5
  <2> QED
    BY <2>2, <2>3
<1> QED
  BY <1>7, <1>8, <1>9 DEF WorkerInv, WorkerIsRegistered

\* Only the exit of the registered generation removes it.
LEMMA RecordWorkerExitStep ==
  ASSUME WorkerInv, NEW g \in Generations, RecordWorkerExit(g)
  PROVE  WorkerInv'
<1>1. g \in Live /\ task[g] \in Task /\ task[g].account \in Accounts
  BY LiveHasTask DEF RecordWorkerExit, WorkerInv
<1>2. /\ task' = [task EXCEPT ![g] = NoTask] /\ desired' = desired
      /\ workers' = IF workers[task[g].account] = g
                      THEN [workers EXCEPT ![task[g].account] = Nobody] ELSE workers
  BY DEF RecordWorkerExit
<1>3. WorkerTypes'
  BY <1>1, <1>2 DEF WorkerInv, WorkerTypes
<1>4. ASSUME NEW a \in Accounts, workers'[a] # Nobody
      PROVE  workers'[a] \in Live' /\ task'[workers'[a]].account = a
             /\ ~task'[workers'[a]].cancelled
  <2>1. workers'[a] = workers[a]
    BY <1>1, <1>2, <1>4 DEF WorkerInv, WorkerTypes
  <2>2. workers[a] \in Live /\ task[workers[a]].account = a /\ ~task[workers[a]].cancelled
    BY <1>4, <2>1 DEF WorkerInv, WorkerIsRegistered, Registered
  <2>3. workers[a] # g
    BY <1>1, <1>2, <1>4, <2>1, <2>2 DEF WorkerInv, WorkerTypes
  <2> QED
    BY <1>2, <2>1, <2>2, <2>3 DEF Live, WorkerInv, WorkerTypes
<1>5. ASSUME NEW h \in Live', ~task'[h].cancelled
      PROVE  workers'[task'[h].account] = h
  <2>1. h # g /\ task'[h] = task[h] /\ h \in Live
    BY <1>1, <1>2, <1>5 DEF Live, WorkerInv, WorkerTypes
  <2>2. workers[task[h].account] = h /\ task[h].account \in Accounts
    BY <1>5, <2>1, LiveHasTask DEF WorkerInv, WorkerIsRegistered
  <2> QED
    BY <1>1, <1>2, <2>1, <2>2 DEF WorkerInv, WorkerTypes
<1> QED
  BY <1>3, <1>4, <1>5 DEF WorkerInv, WorkerIsRegistered, Registered

\* The steps of a worker: each is a step of its own task.
LEMMA WorkerStep ==
  ASSUME WorkerInv, AccountsTypeOK, NEW g \in Generations,
         \/ ListenerStep(g) \/ ListenerFails(g) \/ WorkerCancelled(g)
         \/ RefresherStep(g) \/ RefreshOnTimer(g, TRUE)
  PROVE  WorkerInv'
<1> DEFINE Keeps(t) == \/ t = NoTask /\ task[g].cancelled
                       \/ /\ t \in Task /\ t.account = task[g].account
                          /\ t.cancelled = task[g].cancelled
<1>1. g \in Live /\ UNCHANGED <<desired, workers>>
  BY DEF ListenerStep, LoadRef, LoadSecret, Connect, ConnectRejected, ListenerRetries,
         Notice, ListenerFails, WorkerCancelled, RefresherStep, TryAgain, PassFinished,
         RefreshAgain, RefreshOnSignal, RefreshOnTimer, StartPass, Listening, Refreshing,
         TaskOnly, supervisorVars
<1>2. task[g] \in Task /\ task[g].account \in Accounts /\ task[g].cancelled \in BOOLEAN
  BY <1>1, LiveHasTask DEF WorkerInv, Task
<1>3. Keeps(Ended(g))
  BY <1>1, EndedTask DEF WorkerInv
<1>4. \A r \in {"off", "permit", "wait", "behind", "sleep", "retry"} :
        Keeps([task[g] EXCEPT !.refresher = r])
  BY <1>2 DEF Task
<1>5. \A l \in {"off", "connect", "idle", "retry", "polling"} :
        Keeps([task[g] EXCEPT !.listener = l])
  BY <1>2 DEF Task
<1>6. CASE LoadRef(g)
  <2>1. Keeps([task[g] EXCEPT !.stage = "secret"])
    BY <1>2 DEF Task
  <2> HIDE DEF Keeps
  <2>2. \E t : TaskStep(g, t) /\ Keeps(t)
    BY <1>3, <1>6, <2>1 DEF LoadRef
  <2> QED
    BY <1>1, <2>2, OneTaskStep DEF Keeps
<1>7. CASE LoadSecret(g)
  <2>1. store[loading[g]] \in Secret
    BY <1>7, RealtimeAssumption DEF LoadSecret, ReadSecret, AccountsTypeOK
  <2>2. Keeps([task[g] EXCEPT !.stage = "running", !.listener = "connect",
                              !.refresher = "permit", !.secret = store[loading[g]]])
    BY <1>2, <2>1 DEF Task
  <2>3. task[g].cancelled => Keeps(NoTask)
    OBVIOUS
  <2> HIDE DEF Keeps
  <2>4. \E t : TaskStep(g, t) /\ Keeps(t)
    BY <1>3, <1>7, <2>2, <2>3 DEF LoadSecret
  <2> QED
    BY <1>1, <2>4, OneTaskStep DEF Keeps
<1>8. CASE WorkerCancelled(g)
  BY <1>1, <1>8, OneTaskStep DEF WorkerCancelled
<1>9. CASE Connect(g)
  <2>1. Keeps([task[g] EXCEPT !.listener = "idle", !.signal = TRUE])
    BY <1>2 DEF Task
  <2> HIDE DEF Keeps
  <2>2. \E t : TaskStep(g, t) /\ Keeps(t)
    BY <1>5, <1>9, <2>1 DEF Connect
  <2> QED
    BY <1>1, <2>2, OneTaskStep DEF Keeps
<1>10. CASE ConnectRejected(g)
  BY <1>1, <1>3, <1>10, OneTaskStep DEF ConnectRejected
<1>11. CASE ListenerFails(g)
  <2>1. Keeps([task[g] EXCEPT !.listener = "retry", !.told = FALSE])
    BY <1>2 DEF Task
  <2>2. task[g].cancelled => Keeps(NoTask)
    OBVIOUS
  <2> HIDE DEF Keeps
  <2>3. \E t : TaskStep(g, t) /\ Keeps(t)
    BY <1>11, <2>1, <2>2 DEF ListenerFails
  <2> QED
    BY <1>1, <2>3, OneTaskStep DEF Keeps
<1>12. CASE ListenerRetries(g)
  BY <1>1, <1>5, <1>12, OneTaskStep DEF ListenerRetries
<1>13. CASE Notice(g)
  <2>1. Keeps([task[g] EXCEPT !.told = FALSE, !.signal = TRUE])
    BY <1>2 DEF Task
  <2> QED
    BY <1>1, <1>13, <2>1, OneTaskStep DEF Notice
<1>14. CASE TryAgain(g) \/ RefreshAgain(g)
  BY <1>1, <1>4, <1>14, OneTaskStep DEF TryAgain, RefreshAgain
<1>15. CASE PassFinished(g)
  <2> HIDE DEF Keeps
  <2>1. \E t : TaskStep(g, t) /\ Keeps(t)
    BY <1>3, <1>4, <1>15 DEF PassFinished
  <2> QED
    BY <1>1, <2>1, OneTaskStep DEF Keeps
<1>16. CASE RefreshOnSignal(g)
  <2>1. Keeps([Wants(task[g], TRUE) EXCEPT !.signal = FALSE])
    BY <1>2 DEF Wants, Task
  <2> QED
    BY <1>1, <1>16, <2>1, OneTaskStep DEF RefreshOnSignal
<1>17. ASSUME NEW full \in BOOLEAN, RefreshOnTimer(g, full)
       PROVE  WorkerInv'
  <2>1. Keeps(Wants(task[g], full))
    BY <1>2 DEF Wants, Task
  <2> QED
    BY <1>1, <1>17, <2>1, OneTaskStep DEF RefreshOnTimer
<1>18. CASE StartPass(g)
  <2>1. task[g].cancelled => Keeps(NoTask)
    OBVIOUS
  <2> HIDE DEF Keeps
  <2>2. \E t : TaskStep(g, t) /\ Keeps(t)
    BY <1>3, <1>4, <1>18, <2>1 DEF StartPass
  <2> QED
    BY <1>1, <2>2, OneTaskStep DEF Keeps
<1> QED
  BY <1>6, <1>7, <1>8, <1>9, <1>10, <1>11, <1>12, <1>13, <1>14, <1>15, <1>16, <1>17, <1>18
     DEF ListenerStep, RefresherStep

\* What the server does to a worker: its secret ages, or it is told something.
LEMMA ServerStep ==
  ASSUME WorkerInv, NEW a \in Accounts, ChangePassword(a) \/ MailChanges(a)
  PROVE  WorkerInv'
<1>1. UNCHANGED <<desired, workers>>
  BY DEF ChangePassword, MailChanges, supervisorVars
<1>2. ASSUME NEW g \in Generations
      PROVE  \/ task'[g] = task[g]
             \/ /\ g \in Live /\ task'[g] \in Task
                /\ task'[g].account = task[g].account
                /\ task'[g].cancelled = task[g].cancelled
  <2>1. g \in Live => task[g] \in Task
    BY LiveHasTask DEF WorkerInv
  <2>2. CASE ChangePassword(a)
    BY <2>1, <2>2 DEF ChangePassword, Task, Secret
  <2>3. CASE MailChanges(a)
    <3> DEFINE t == [task[g] EXCEPT !.told = TRUE]
    <3> DEFINE idle == {h \in Live : task[h].account = a /\ task[h].listener = "idle"}
    <3>0. \/ task' = task
          \/ task' = [h \in Generations |-> IF h \in idle THEN [task[h] EXCEPT !.told = TRUE]
                                             ELSE task[h]]
      BY <2>3 DEF MailChanges
    <3>1. task'[g] = task[g] \/ (g \in Live /\ task'[g] = t)
      BY <3>0
    <3>2. g \in Live => t \in Task /\ t.account = task[g].account
                       /\ t.cancelled = task[g].cancelled
      BY <2>1 DEF Task
    <3> QED
      BY <3>1, <3>2
  <2> QED
    BY <2>2, <2>3
<1>3. task' \in [Generations -> Task \cup {NoTask}]
  <2>1. \A g \in Generations : task'[g] \in Task \cup {NoTask}
    BY <1>2 DEF WorkerInv, WorkerTypes
  <2>2. task' = [g \in Generations |-> task'[g]]
    BY DEF ChangePassword, MailChanges, WorkerInv, WorkerTypes
  <2> QED
    BY <2>1, <2>2
<1>4. Live' = Live
  BY <1>2, AccountsAssumption DEF Live, Task, NoTask
<1>5. \A g \in Live : task'[g].account = task[g].account
                      /\ task'[g].cancelled = task[g].cancelled
  BY <1>2 DEF Live
<1> QED
  BY <1>1, <1>3, <1>4, <1>5 DEF WorkerInv, WorkerTypes, WorkerIsRegistered, Registered

\* The invariant of the supervisor and its workers.
THEOREM WorkerInvHolds == Spec => []WorkerInv
<1>1. WorkerInv /\ AccountsTypeOK /\ [Next]_vars => WorkerInv'
  <2> SUFFICES ASSUME WorkerInv, AccountsTypeOK, [Next]_vars PROVE WorkerInv'
    OBVIOUS
  <2>1. CASE UNCHANGED vars
    BY <2>1, WorkerStutter DEF vars, realtimeVars, supervisorVars
  <2>2. CASE Supervisor
    BY <2>2, BeginRoundStep, ReconcileStep, RecordWorkerExitStep DEF Supervisor
  <2>3. CASE Command
    <3>1. UNCHANGED <<supervisorVars, task>>
      BY <2>3 DEF Command, StartSync, CancelSync, BeginRemoveAccount, PauseOrResume,
                  BeginUpdateCredentials, FinishUpdateCredentials, FinishCreateAccount,
                  CommandStep, FinishRemoveAccount, UpdateSettings, realtimeVars
    <3> QED
      BY <3>1, WorkerStutter DEF supervisorVars
  <2>4. ASSUME NEW a \in Accounts, ChangePassword(a) \/ MailChanges(a)
        PROVE  WorkerInv'
    BY <2>4, ServerStep
  <2>5. CASE SetPlatformState
    BY <2>5, WorkerStutter DEF SetPlatformState, supervisorVars
  <2>6. ASSUME NEW p \in Passes, PassStep(p) \/ PassFails(p)
        PROVE  WorkerInv'
    <3>1. UNCHANGED <<supervisorVars, task>>
      BY <2>6 DEF PassStep, PassFails, StopPass, ReadFolders, CompletePass, PassRejected
    <3> QED
      BY <3>1, WorkerStutter DEF supervisorVars
  <2>7. ASSUME NEW g \in Generations,
               \/ ListenerStep(g) \/ ListenerFails(g) \/ WorkerCancelled(g)
               \/ RefresherStep(g) \/ RefreshOnTimer(g, TRUE)
        PROVE  WorkerInv'
    BY <2>7, WorkerStep
  <2> QED
    BY <2>1, <2>2, <2>3, <2>4, <2>5, <2>6, <2>7 DEF Next, Environment
<1>2. Spec => []AccountsTypeOK
  BY RealtimeImplementsAccounts, AccountsTypesHold, PTL
<1> QED
  BY <1>1, <1>2, WorkerInit, PTL DEF Spec

\* One worker for an account: whatever restarts, exits and cancellations overtake each
\* other, a task that nobody has cancelled is the registered one of its account, and a
\* registered one is alive or its exit is on the way.
THEOREM WorkerAlwaysRegistered == Spec => []WorkerIsRegistered
BY WorkerInvHolds, PTL DEF WorkerInv
===============================================================================
