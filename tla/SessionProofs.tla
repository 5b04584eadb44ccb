----------------------------- MODULE SessionProofs -----------------------------
(***************************************************************************)
(* Proofs about the composition of Realtime, for any accounts, generations *)
(* and passes, each from an invariant of its own:                          *)
(*                                                                         *)
(* SessionInv: a worker does not keep a password the user has replaced     *)
(* (SessionIsCurrent).  While a worker loads its session the reference it  *)
(* has read is still its account's, unless the account is being updated or *)
(* restarted; workers belong to accounts that had a row once, so that a    *)
(* new account begins without one; and the account a removal ends for is   *)
(* gone.  AccountsInv adds that no two accounts share a reference, so that *)
(* a command about one does not touch the secret of another.               *)
(*                                                                         *)
(* PassInv: the types (TypeOK), a pass in every taken slot, and a session  *)
(* in every worker that works.                                             *)
(*                                                                         *)
(* BlockInv: an account is given up for a reason (GoodAccountIsNotBlocked).*)
(* Whoever has failed, or waits for a pass that will, has a password that  *)
(* is no longer the account's, or is about to be restarted.                *)
(*                                                                         *)
(* NoticeInv: news lead to a full pass (NoticedIsPending).  A worker that  *)
(* is owed news has them in mind, or waits for a full pass that will store *)
(* what it reads.  The parent of a pass is the worker of its account, so   *)
(* that a round which keeps the worker keeps its pass; and a free slot     *)
(* never says that a pass runs, so that a worker that waited reads of a    *)
(* failure that there was one.                                             *)
(***************************************************************************)
EXTENDS RealtimeProofs

HadRow == {a \in Accounts : state[a] \in {"inserted", "live", "removed"}}

SessionAgrees(a) ==
  LET g == workers[a] IN
  /\ task[g].stage = "secret" => loading[g] = incoming[a]
  /\ task[g].stage = "running" /\ task[g].secret = "old" => store[incoming[a]] # "current"

InOrder(a) == a \in restarts \/ command.account = a \/ SessionAgrees(a)

SessionInv ==
  /\ desired \cup Registered \subseteq HadRow
  /\ command.op = "unlisted" => state[command.account] = "removed"
  /\ \A a \in Registered \cap Listed : InOrder(a)

\* What every step leaves to the accounts that may have a worker: they are listed only if
\* they were, and their secret becomes current again only by a command of their own, which
\* restarts them in the end.
AccountsKept ==
  /\ HadRow \subseteq HadRow'
  /\ command'.op = "unlisted" => state'[command'.account] = "removed"
  /\ \A a \in HadRow \cap Listed' :
       /\ a \in Listed
       /\ command.account = a => command'.account = a \/ a \in restarts'
       /\ command'.account = a \/ /\ incoming'[a] = incoming[a]
                                  /\ store'[incoming[a]] = "current" =>
                                       store[incoming[a]] = "current"

-----------------------------------------------------------------------------
\* What a step must leave to an account for its session to stay in order.
LEMMA OrderIsKept ==
  ASSUME NEW a, InOrder(a),
         a \in restarts => a \in restarts',
         command.account = a => command'.account = a \/ a \in restarts',
         command'.account = a \/ /\ incoming'[a] = incoming[a]
                                 /\ store'[incoming[a]] = "current" =>
                                      store[incoming[a]] = "current",
         workers'[a] = workers[a],
         LET g == workers[a] IN
           /\ loading'[g] = loading[g]
           /\ task'[g].stage = task[g].stage /\ task'[g].secret = task[g].secret
  PROVE  InOrder(a)'
BY DEF InOrder, SessionAgrees

LEMMA SessionInit == Init => SessionInv
BY DEF Init, AccountsInit, SessionInv, Registered, NoCommand

\* Steps that change neither accounts nor workers, and of the sessions of these only that
\* they end.
LEMMA SessionStutter ==
  ASSUME SessionInv, AccountsInv, WorkerInv,
         UNCHANGED <<accountVars, workers>>,
         desired' \subseteq HadRow, restarts \subseteq restarts',
         \A g \in Live :
           \/ task[g].cancelled \/ task'[g].stage = "exited"
           \/ task'[g].stage = task[g].stage /\ task'[g].secret = task[g].secret
  PROVE  SessionInv'
<1>1. ASSUME NEW a \in Registered \cap Listed
      PROVE  InOrder(a)'
  <2>1. workers[a] \in Live /\ ~task[workers[a]].cancelled
    BY <1>1 DEF WorkerInv, WorkerIsRegistered
  <2>2. CASE task'[workers[a]].stage = "exited"
    BY <2>2 DEF InOrder, SessionAgrees
  <2>3. CASE /\ task'[workers[a]].stage = task[workers[a]].stage
             /\ task'[workers[a]].secret = task[workers[a]].secret
    BY <1>1, <2>3, OrderIsKept DEF SessionInv, accountVars
  <2> QED
    BY <2>1, <2>2, <2>3
<1> QED
  BY <1>1 DEF SessionInv, accountVars, HadRow, Registered, Listed

-----------------------------------------------------------------------------
(***************************************************************************)
(* Commands.                                                               *)
(***************************************************************************)

\* The reference of an account with a row is not free, not provisional, and no command of
\* another account will delete its secret.
LEMMA IncomingIsItsOwn ==
  ASSUME AccountsInv, NEW a \in Listed
  PROVE  /\ a \in Accounts /\ incoming[a] \in Refs /\ incoming[a] \in RefsOf(a)
         /\ incoming[a] \notin FreeRefs /\ incoming[a] \notin command.refs
         /\ \A b \in Accounts : b # a => incoming[a] \notin RefsOf(b)
<1>1. a \in Accounts /\ state[a] \in Holding
  BY DEF Listed, Holding
<1>2. incoming[a] \in Refs /\ incoming[a] # NoRef
  BY <1>1, AccountsAssumption DEF AccountsInv, RefsByState
<1>3. incoming[a] \in RefsOf(a)
  BY <1>2 DEF RefsOf
<1> QED
  BY <1>1, <1>2, <1>3 DEF AccountsInv, RefsAreApart, FreeRefs

\* Steps of create_account: an account is listed when the row is inserted, and no worker
\* has begun for it before.
LEMMA CreateStep ==
  ASSUME SessionInv, AccountsInv, NEW b \in Accounts,
         \/ CheckDuplicate(b) \/ ValidationFails(b) \/ ProvisionOutgoing(b)
         \/ ProvisionFails(b) \/ InsertAccount(b) \/ UndoProvision(b) \/ CreateReturns(b)
         \/ \E layout \in Layouts : ProvisionIncoming(b, layout)
  PROVE  AccountsKept /\ UNCHANGED loading
<1> USE DEF CheckDuplicate, ValidationFails, ProvisionOutgoing, ProvisionFails,
            InsertAccount, UndoProvision, CreateReturns, ProvisionIncoming, Become
<1>1. UNCHANGED <<command, loading>>
  OBVIOUS
<1>2. \E next : Become(b, next) /\ (state[b] \in {"inserted", "live", "removed"} =>
                                      state[b] = "inserted" /\ next = "live")
  OBVIOUS
<1>3. state \in [Accounts -> AccountState]
  BY DEF AccountsInv, AccountsTypeOK
<1>4. HadRow \subseteq HadRow'
  BY <1>2, <1>3 DEF HadRow
<1>5. command'.op = "unlisted" => state'[command'.account] = "removed"
  BY <1>1, <1>2, <1>3 DEF SessionInv
<1>6. ASSUME NEW a \in HadRow \cap Listed'
      PROVE  /\ a \in Listed /\ incoming'[a] = incoming[a]
             /\ store'[incoming[a]] = "current" => store[incoming[a]] = "current"
  <2>1. a \in HadRow
    BY <1>6
  <2>2. a \in Listed
    BY <1>2, <1>3, <1>6, <2>1 DEF HadRow, Listed
  <2>3. /\ incoming[a] \in Refs /\ incoming[a] \notin FreeRefs /\ incoming[a] # NoRef
        /\ b # a => incoming[a] \notin RefsOf(b)
    BY <2>2, IncomingIsItsOwn, AccountsAssumption
  <2>4. a # b \/ CreateReturns(b)
    BY <2>1, <2>2 DEF Listed
  <2>5. incoming \in [Accounts -> Refs \cup {NoRef}] /\ store \in [Refs -> Secret]
    BY DEF AccountsInv, AccountsTypeOK
  <2>6. incoming'[a] = incoming[a]
    <3>1. /\ incoming' = incoming \/ \E r : incoming' = [incoming EXCEPT ![b] = r]
          /\ CreateReturns(b) => incoming' = incoming
      OBVIOUS
    <3> QED
      BY <2>2, <2>4, <2>5, <3>1 DEF Listed
  <2>7. CASE \E layout \in Layouts : ProvisionIncoming(b, layout)
    <3>1. Fresh \in FreeRefs
      BY <2>7, FreshIsFree
    <3>2. incoming[a] # Fresh
      BY <2>3, <3>1
    <3> QED
      BY <2>2, <2>5, <2>6, <2>7, <3>2
  <2>8. CASE ProvisionOutgoing(b)
    <3>1. outgoing[b] \in RefsOf(b)
      BY <2>8, AccountsAssumption DEF RefsOf, AccountsInv, RefsByState, Holding
    <3> QED
      BY <2>2, <2>3, <2>4, <2>5, <2>6, <2>8, <3>1
  <2>9. CASE UndoProvision(b)
    BY <2>2, <2>3, <2>5, <2>6, <2>9 DEF Delete
  <2>10. CASE UNCHANGED store
    BY <2>2, <2>6, <2>10
  <2> QED
    BY <2>7, <2>8, <2>9, <2>10
<1> QED
  BY <1>1, <1>4, <1>5, <1>6 DEF AccountsKept

\* Steps of the commands on the main thread.  What they delete belonged to their account.
LEMMA MainThreadStep ==
  ASSUME SessionInv, AccountsInv,
         \/ \E b \in Accounts : \/ BeginRemove(b) \/ UpdateAccount(b)
                                \/ \E secret \in {"old", "current"} : SwapCredentials(b, secret)
         \/ DeleteOldCredentials \/ DeleteRow \/ RemoveReturns
         \/ UpdateReturns /\ command.account \in restarts'
  PROVE  AccountsKept /\ UNCHANGED loading
<1> USE DEF BeginRemove, UpdateAccount, SwapCredentials, DeleteOldCredentials, DeleteRow,
            RemoveReturns, UpdateReturns
<1>1. UNCHANGED loading
  OBVIOUS
<1>2. /\ state \in [Accounts -> AccountState] /\ store \in [Refs -> Secret]
      /\ incoming \in [Accounts -> Refs \cup {NoRef}] /\ command.refs \subseteq Refs
  BY DEF AccountsInv, AccountsTypeOK
<1>3. /\ HadRow \subseteq HadRow'
      /\ command'.op = "unlisted" => state'[command'.account] = "removed"
  <2>1. CASE DeleteRow
    <3>1. command.account \in Accounts
      BY <2>1 DEF AccountsInv, CommandInOrder
    <3>2. state' = [state EXCEPT ![command.account] = "removed"]
          /\ command'.account = command.account
      BY <2>1 DEF Become, AccountsInv, AccountsTypeOK
    <3> QED
      BY <1>2, <3>1, <3>2 DEF HadRow
  <2>2. CASE ~DeleteRow
    <3>1. UNCHANGED state
      BY <2>2
    <3>2. DeleteOldCredentials => command'.op = "deleted"
      BY DEF AccountsInv, AccountsTypeOK
    <3>3. ~DeleteOldCredentials => command'.op # "unlisted"
      BY <2>2 DEF Idle, NoCommand
    <3> QED
      BY <3>1, <3>2, <3>3 DEF HadRow
  <2> QED
    BY <2>1, <2>2
<1>4. ASSUME NEW a \in HadRow \cap Listed'
      PROVE  /\ a \in Listed
             /\ command.account = a => command'.account = a \/ a \in restarts'
             /\ command'.account = a \/ /\ incoming'[a] = incoming[a]
                                        /\ store'[incoming[a]] = "current" =>
                                             store[incoming[a]] = "current"
  <2>1. a \in Accounts /\ a \in Listed
    <3>1. CASE DeleteRow
      BY <1>2, <1>4, <3>1 DEF Become, Listed, AccountsInv, CommandInOrder
    <3>2. CASE ~DeleteRow
      BY <1>4, <3>2 DEF Listed
    <3> QED
      BY <3>1, <3>2
  <2>2. /\ incoming[a] \in Refs /\ incoming[a] \notin FreeRefs
        /\ incoming[a] \notin command.refs
    BY <2>1, IncomingIsItsOwn
  <2>3. CASE \E b \in Accounts : BeginRemove(b) \/ UpdateAccount(b)
    BY <2>1, <2>3, AccountsAssumption DEF Idle, NoCommand
  <2>4. ASSUME NEW b \in Accounts, NEW secret \in {"old", "current"},
               SwapCredentials(b, secret)
        PROVE  /\ command.account # a
               /\ command'.account = a \/ /\ incoming'[a] = incoming[a]
                                          /\ store'[incoming[a]] = store[incoming[a]]
    <3>1. Fresh \in FreeRefs /\ FreshOther \in FreeRefs
      BY <2>4, FreshIsFree
    <3>2. command'.account = b /\ command.account # a
      BY <2>1, <2>4, AccountsAssumption DEF Idle, NoCommand
    <3>3. CASE a # b
      <4>1. incoming'[a] = incoming[a]
        BY <1>2, <2>1, <2>4, <3>3
      <4>2. store'[incoming[a]] = store[incoming[a]]
        BY <1>2, <2>2, <2>4, <3>1
      <4> QED
        BY <3>2, <4>1, <4>2
    <3> QED
      BY <3>2, <3>3
  <2>5. CASE DeleteOldCredentials
    BY <1>2, <2>1, <2>2, <2>5 DEF Delete, AccountsInv, AccountsTypeOK
  <2>6. CASE DeleteRow
    <3>1. command'.account = command.account /\ command.account \in Accounts
      BY <2>6 DEF AccountsInv, AccountsTypeOK, CommandInOrder
    <3> QED
      BY <1>2, <2>1, <2>6, <3>1
  <2>7. CASE RemoveReturns
    <3>1. command.account # a
      BY <2>1, <2>7 DEF SessionInv, Listed
    <3> QED
      BY <1>2, <2>1, <2>2, <2>7, <3>1 DEF Delete
  <2>8. CASE UpdateReturns /\ command.account \in restarts'
    BY <2>1, <2>8
  <2> QED
    BY <2>1, <2>3, <2>4, <2>5, <2>6, <2>7, <2>8
<1> QED
  BY <1>1, <1>3, <1>4 DEF AccountsKept

\* Nothing happens to the accounts.
LEMMA AccountsStutter ==
  ASSUME SessionInv, UNCHANGED accountVars
  PROVE  AccountsKept
BY DEF AccountsKept, SessionInv, accountVars, HadRow, Listed

\* No command touches a worker: it leaves that to the supervisor.
LEMMA CommandTask ==
  ASSUME Command
  PROVE  UNCHANGED <<desired, workers, blocked, misled, task>> /\ restarts \subseteq restarts'
BY DEF Command, StartSync, CancelSync, BeginRemoveAccount, PauseOrResume,
       BeginUpdateCredentials, FinishUpdateCredentials, FinishCreateAccount, CommandStep,
       FinishRemoveAccount, UpdateSettings, realtimeVars, supervisorVars,
       coordinatorVars, RestartAccount, Wake

\* Commands as the synchronisation sees them.
LEMMA CommandKeeps ==
  ASSUME SessionInv, AccountsInv, Command
  PROVE  /\ AccountsKept /\ restarts \subseteq restarts'
         /\ UNCHANGED <<desired, workers, blocked, misled, task, loading>>
<1>1. /\ UNCHANGED <<desired, workers, blocked, misled, task>>
      /\ restarts \subseteq restarts'
  BY CommandTask
<1>2. CASE UpdateSettings \/ \E a \in Accounts : StartSync(a) \/ CancelSync(a)
  <2>1. UNCHANGED accountVars
    BY <1>2 DEF UpdateSettings, StartSync, CancelSync
  <2> QED
    BY <1>1, <2>1, AccountsStutter DEF accountVars
<1>3. CASE \E a \in Accounts :
             \/ BeginRemoveAccount(a) \/ PauseOrResume(a)
             \/ \E secret \in {"old", "current"} : BeginUpdateCredentials(a, secret)
  <2>1. \E b \in Accounts : \/ BeginRemove(b) \/ UpdateAccount(b)
                            \/ \E secret \in {"old", "current"} : SwapCredentials(b, secret)
    BY <1>3 DEF BeginRemoveAccount, PauseOrResume, BeginUpdateCredentials
  <2> QED
    BY <1>1, <2>1, MainThreadStep
<1>4. CASE \E a \in Accounts : FinishUpdateCredentials(a)
  <2>1. UpdateReturns /\ command.account \in restarts'
    BY <1>4 DEF FinishUpdateCredentials, RestartAccount
  <2> QED
    BY <1>1, <2>1, MainThreadStep
<1>5. CASE FinishRemoveAccount
  <2>1. RemoveReturns
    BY <1>5 DEF FinishRemoveAccount
  <2> QED
    BY <1>1, <2>1, MainThreadStep
<1>6. CASE \E a \in Accounts : FinishCreateAccount(a)
  BY <1>1, <1>6, CreateStep DEF FinishCreateAccount
<1>7. CASE CommandStep
  <2>1. CASE DeleteOldCredentials \/ DeleteRow
    BY <1>1, <2>1, MainThreadStep
  <2>2. CASE ~DeleteOldCredentials /\ ~DeleteRow
    BY <1>1, <1>7, <2>2, CreateStep DEF CommandStep
  <2> QED
    BY <2>1, <2>2
<1> QED
  BY <1>2, <1>3, <1>4, <1>5, <1>6, <1>7 DEF Command

\* A command keeps the sessions of other accounts in order, and leaves its own in the
\* hands of the supervisor as it returns.
LEMMA CommandSession ==
  ASSUME SessionInv, AccountsInv, Command
  PROVE  SessionInv'
<1>1. /\ AccountsKept /\ restarts \subseteq restarts'
      /\ UNCHANGED <<desired, workers, task, loading>>
  BY CommandKeeps
<1>2. ASSUME NEW a \in Registered \cap Listed'
      PROVE  InOrder(a)'
  <2>1. a \in HadRow
    BY <1>2 DEF SessionInv
  <2>2. InOrder(a)
    BY <1>1, <1>2, <2>1 DEF SessionInv, AccountsKept
  <2> QED
    BY <1>1, <1>2, <2>1, <2>2, OrderIsKept DEF AccountsKept
<1>3. Registered' = Registered
  BY <1>1 DEF Registered
<1> QED
  BY <1>1, <1>2, <1>3 DEF SessionInv, AccountsKept

-----------------------------------------------------------------------------
(***************************************************************************)
(* The supervisor.                                                         *)
(***************************************************************************)

\* A worker that a round keeps is not to be restarted, and keeps its task; another is new.
LEMMA ReconcileKeepsOthers ==
  ASSUME WorkerInv, Reconcile
  PROVE  /\ Registered' \subseteq desired \cup Registered
         /\ \A a \in Registered' :
              \/ task'[workers'[a]].stage = "start" /\ task'[workers'[a]].refresher = "off"
              \/ /\ allowed /\ a \in desired /\ a \notin restarts
                 /\ a \in Registered /\ workers'[a] = workers[a]
                 /\ task'[workers[a]] = task[workers[a]]
<1> DEFINE still == (blocked \ restarts) \cap desired
           stop == {a \in Registered : ~allowed \/ a \in restarts \/ a \notin desired}
           new == IF allowed THEN desired \ (still \cup (Registered \ stop)) ELSE {}
           G == {workers[a] : a \in stop}
           f == CHOOSE i \in Injections(new, FreeGenerations) : TRUE
<1>1. /\ workers' = [a \in Accounts |-> IF a \in new THEN f[a]
                                        ELSE IF a \in stop THEN Nobody ELSE workers[a]]
      /\ task' = [g \in Generations |->
                    IF \E a \in new : f[a] = g THEN NewTask(CHOOSE a \in new : f[a] = g)
                      ELSE CancelTasks(G)[g]]
      /\ desired' = {} /\ UNCHANGED accountVars
  BY DEF Reconcile
<1>2. /\ \A g \in Generations \ G : CancelTasks(G)[g] = task[g]
      /\ \A g \in G : CancelTasks(G)[g] = NoTask \/ CancelTasks(G)[g].cancelled
  BY CancelTasksStep
<1>3. new \subseteq desired /\ stop \subseteq Registered
      /\ \A a \in Registered \ stop : allowed /\ a \in desired /\ a \notin restarts
  OBVIOUS
<1> HIDE DEF f, new, stop, G
<1>4. ASSUME NEW a \in Registered'
      PROVE  \/ task'[workers'[a]].stage = "start" /\ task'[workers'[a]].refresher = "off"
             \/ /\ allowed /\ a \in desired /\ a \notin restarts
                /\ a \in Registered /\ workers'[a] = workers[a]
                /\ task'[workers[a]] = task[workers[a]]
  <2>1. a \in Accounts /\ workers'[a] # Nobody
    BY <1>4 DEF Registered
  <2>2. /\ workers'[a] \in Live' /\ workers'[a] \in Generations
        /\ ~task'[workers'[a]].cancelled
    BY <1>4, ReconcileStep DEF WorkerInv, WorkerIsRegistered, Live
  <2>3. CASE \E b \in new : f[b] = workers'[a]
    BY <1>1, <2>2, <2>3 DEF NewTask, TaskAt
  <2>4. CASE \A b \in new : f[b] # workers'[a]
    <3>1. a \notin new /\ a \notin stop /\ workers'[a] = workers[a]
      BY <1>1, <2>1, <2>4
    <3>2. a \in Registered
      BY <2>1, <3>1 DEF Registered
    <3>3. task'[workers[a]] = CancelTasks(G)[workers[a]]
      BY <1>1, <2>2, <2>4, <3>1
    <3>4. workers[a] \notin G
      BY <1>2, <2>2, <3>1, <3>3 DEF Live
    <3> QED
      BY <1>2, <1>3, <2>2, <3>1, <3>2, <3>3, <3>4
  <2> QED
    BY <2>3, <2>4
<1>5. Registered' \subseteq desired \cup Registered
  BY <1>1, <1>3 DEF Registered
<1> QED
  BY <1>4, <1>5

LEMMA ReconcileSession ==
  ASSUME SessionInv, AccountsInv, WorkerInv, Reconcile
  PROVE  SessionInv'
<1>1. desired' = {} /\ UNCHANGED accountVars
  BY DEF Reconcile
<1>2. Registered' \subseteq HadRow
  BY ReconcileKeepsOthers DEF SessionInv
<1>3. ASSUME NEW a \in Registered' \cap Listed'
      PROVE  InOrder(a)'
  <2>1. CASE task'[workers'[a]].stage = "start"
    BY <2>1 DEF InOrder, SessionAgrees
  <2>2. CASE /\ a \notin restarts /\ a \in Registered /\ workers'[a] = workers[a]
             /\ task'[workers[a]] = task[workers[a]]
    <3>1. InOrder(a)
      BY <1>1, <1>3, <2>2 DEF SessionInv, Listed, accountVars
    <3> QED
      BY <1>1, <2>2, <3>1, OrderIsKept DEF accountVars
  <2> QED
    BY <1>3, <2>1, <2>2, ReconcileKeepsOthers
<1> QED
  BY <1>1, <1>2, <1>3 DEF SessionInv, HadRow, accountVars

\* A round begins: the accounts that want a worker have a row, and nobody keeps a worker
\* after the network was gone.
LEMMA BeginRoundSession ==
  ASSUME SessionInv, AccountsInv, WorkerInv, BeginRound
  PROVE  SessionInv'
<1>1. UNCHANGED <<accountVars, restarts>> /\ desired' \subseteq Listed
  BY DEF BeginRound
<1>2. Listed \subseteq HadRow
  BY DEF Listed, HadRow
<1>3. CASE reconnected
  <2>1. Registered' = {}
    BY <1>3 DEF BeginRound, Registered
  <2> QED
    BY <1>1, <1>2, <2>1 DEF SessionInv, HadRow, accountVars
<1>4. CASE ~reconnected
  <2>1. UNCHANGED <<workers, task>>
    BY <1>4 DEF BeginRound
  <2> QED
    BY <1>1, <1>2, <2>1, SessionStutter
<1> QED
  BY <1>3, <1>4

\* An exit takes a worker away, and no other one changes.
LEMMA ExitKeepsOthers ==
  ASSUME WorkerInv, NEW g \in Generations, RecordWorkerExit(g)
  PROVE  \A a \in Registered' : /\ a \in Registered /\ workers'[a] = workers[a]
                                /\ task'[workers[a]] = task[workers[a]]
<1>1. /\ g \in Live /\ task' = [task EXCEPT ![g] = NoTask]
      /\ workers' = IF workers[task[g].account] = g
                      THEN [workers EXCEPT ![task[g].account] = Nobody] ELSE workers
  BY DEF RecordWorkerExit
<1>2. ASSUME NEW a \in Registered'
      PROVE  /\ a \in Registered /\ workers'[a] = workers[a]
             /\ task'[workers[a]] = task[workers[a]]
  <2>1. a \in Accounts /\ workers'[a] # Nobody
    BY <1>2 DEF Registered
  <2>2. workers'[a] = workers[a] /\ a \in Registered
    BY <1>1, <2>1 DEF WorkerInv, WorkerTypes, Registered
  <2>3. workers[a] \in Live /\ task[workers[a]].account = a
    BY <2>2 DEF WorkerInv, WorkerIsRegistered
  <2>4. workers[a] # g
    BY <1>1, <2>1, <2>2, <2>3 DEF WorkerInv, WorkerTypes
  <2> QED
    BY <1>1, <2>2, <2>3, <2>4, LiveHasTask DEF WorkerInv, WorkerTypes
<1> QED
  BY <1>2

LEMMA ExitSession ==
  ASSUME SessionInv, AccountsInv, WorkerInv, NEW g \in Generations, RecordWorkerExit(g)
  PROVE  SessionInv'
<1>1. UNCHANGED <<accountVars, restarts, desired>>
  BY DEF RecordWorkerExit, Wake
<1>2. ASSUME NEW a \in Registered' \cap Listed'
      PROVE  InOrder(a)'
  <2>1. /\ a \in Registered \cap Listed /\ workers'[a] = workers[a]
        /\ task'[workers[a]] = task[workers[a]]
    BY <1>1, <1>2, ExitKeepsOthers DEF Listed, accountVars
  <2> QED
    BY <1>1, <2>1, OrderIsKept DEF SessionInv, accountVars
<1> QED
  BY <1>1, <1>2, ExitKeepsOthers DEF SessionInv, HadRow, accountVars

-----------------------------------------------------------------------------
(***************************************************************************)
(* Workers.                                                                *)
(***************************************************************************)

\* A worker reads the reference its account has, and then the secret that reference has:
\* a change in between is that of a command, which restarts the worker.
LEMMA LoadSession ==
  ASSUME SessionInv, AccountsInv, WorkerInv, NEW g \in Generations,
         LoadRef(g) \/ LoadSecret(g)
  PROVE  SessionInv'
<1>1. /\ g \in Live /\ task[g] \in Task
      /\ task \in [Generations -> Task \cup {NoTask}]
      /\ loading \in [Generations -> Refs \cup {NoRef}]
  BY LiveHasTask, RealtimeAssumption
     DEF LoadRef, LoadSecret, WorkerInv, WorkerTypes, AccountsInv, AccountsTypeOK
<1>2. UNCHANGED <<workers, desired, restarts, state, incoming, outgoing, wanted, store, command>>
  BY DEF LoadRef, LoadSecret, ReadRef, ReadSecret, supervisorVars, coordinatorVars, accountVars
<1>3. \A h \in Generations : h # g => task'[h] = task[h] /\ loading'[h] = loading[h]
  BY <1>1 DEF LoadRef, LoadSecret, ReadRef, ReadSecret, TaskStep, accountVars
<1>4. ASSUME NEW a \in Registered \cap Listed, workers[a] = g, SessionAgrees(a)
      PROVE  SessionAgrees(a)'
  <2>1. task[g].account = a /\ ~task[g].cancelled
    BY <1>4 DEF WorkerInv, WorkerIsRegistered
  <2>2. Ended(g).stage = "exited"
    BY <2>1 DEF Ended, TaskAt
  <2>3. CASE LoadRef(g)
    <3>1. task'[g] = [task[g] EXCEPT !.stage = "secret"] /\ loading'[g] = incoming[a]
      BY <1>1, <1>4, <2>1, <2>3 DEF LoadRef, TaskStep, ReadRef
    <3>2. task'[g].stage = "secret"
      BY <1>1, <3>1 DEF Task
    <3> QED
      BY <1>2, <1>4, <3>1, <3>2 DEF SessionAgrees
  <2>4. CASE LoadSecret(g)
    <3>1. loading[g] = incoming[a]
      BY <1>4, <2>4 DEF LoadSecret, SessionAgrees
    <3>2. CASE store[loading[g]] = "none"
      <4>1. task'[g].stage = "exited"
        BY <1>1, <2>2, <2>4, <3>2 DEF LoadSecret, TaskStep
      <4> QED
        BY <1>2, <1>4, <4>1 DEF SessionAgrees
    <3>3. CASE store[loading[g]] # "none"
      <4>1. task'[g] = [task[g] EXCEPT !.stage = "running", !.listener = "connect",
                          !.refresher = "permit", !.secret = store[loading[g]]]
        BY <1>1, <2>1, <2>4, <3>3 DEF LoadSecret, TaskStep
      <4>2. task'[g].stage = "running" /\ task'[g].secret = store[loading[g]]
        BY <1>1, <4>1 DEF Task
      <4> QED
        BY <1>2, <1>4, <3>1, <4>2 DEF SessionAgrees
    <3> QED
      BY <3>2, <3>3
  <2> QED
    BY <2>3, <2>4
<1>5. ASSUME NEW a \in Registered \cap Listed
      PROVE  InOrder(a)'
  <2>1. workers[a] \in Generations /\ InOrder(a)
    BY <1>5, LiveHasTask DEF SessionInv, WorkerInv, WorkerIsRegistered
  <2>2. CASE workers[a] = g
    BY <1>2, <1>4, <1>5, <2>1, <2>2 DEF InOrder
  <2>3. CASE workers[a] # g
    BY <1>2, <1>3, <2>1, <2>3, OrderIsKept
  <2> QED
    BY <2>2, <2>3
<1> QED
  BY <1>2, <1>5 DEF SessionInv, HadRow, Registered, Listed

\* A step of one task that leaves its session alone, or ends it.
LEMMA OneSessionStep ==
  ASSUME SessionInv, AccountsInv, WorkerInv, NEW g \in Live, NEW t,
         TaskStep(g, t), UNCHANGED <<accountVars, desired, workers>>,
         restarts \subseteq restarts',
         \/ task[g].cancelled \/ t.stage = "exited"
         \/ t.stage = task[g].stage /\ t.secret = task[g].secret
  PROVE  SessionInv'
<1>1. g \in Generations /\ task \in [Generations -> Task \cup {NoTask}]
  BY LiveHasTask DEF WorkerInv, WorkerTypes
<1>2. \A h \in Live : task'[h] = IF h = g THEN t ELSE task[h]
  BY <1>1 DEF TaskStep, Live
<1> QED
  BY <1>2, SessionStutter DEF SessionInv

\* The other steps of a worker.
LEMMA WorkerSession ==
  ASSUME SessionInv, AccountsInv, WorkerInv, NEW g \in Generations,
         \/ ListenerStep(g) \/ ListenerFails(g) \/ WorkerCancelled(g)
         \/ RefresherStep(g) \/ RefreshOnTimer(g, TRUE)
  PROVE  SessionInv'
<1> DEFINE Keeps(t) == \/ task[g].cancelled \/ t.stage = "exited"
                       \/ t.stage = task[g].stage /\ t.secret = task[g].secret
<1>1. CASE LoadRef(g) \/ LoadSecret(g)
  BY <1>1, LoadSession
<1>2. CASE ~LoadRef(g) /\ ~LoadSecret(g)
  <2>1. /\ UNCHANGED <<accountVars, desired, workers>> /\ restarts \subseteq restarts'
        /\ g \in Live
    BY <1>2 DEF ListenerStep, Connect, ConnectRejected, ListenerRetries, Notice,
           ListenerFails, WorkerCancelled, RefresherStep, TryAgain, PassFinished,
           RefreshAgain, RefreshOnSignal, RefreshOnTimer, StartPass, Listening, Refreshing,
           TaskOnly, supervisorVars, coordinatorVars, Wake
  <2>2. task[g] \in Task
    BY <2>1, LiveHasTask DEF WorkerInv
  <2>3. Keeps(Ended(g))
    BY DEF Ended, TaskAt
  <2>4. \A r : Keeps([task[g] EXCEPT !.refresher = r])
    BY <2>2 DEF Task
  <2>5. \A l : Keeps([task[g] EXCEPT !.listener = l])
    BY <2>2 DEF Task
  <2>6. Keeps([task[g] EXCEPT !.listener = "idle", !.signal = TRUE])
    BY <2>2 DEF Task
  <2>7. Keeps([task[g] EXCEPT !.listener = "retry", !.told = FALSE])
    BY <2>2 DEF Task
  <2>8. Keeps([task[g] EXCEPT !.told = FALSE, !.signal = TRUE])
    BY <2>2 DEF Task
  <2>9. \A full : Keeps(Wants(task[g], full))
    BY <2>2 DEF Task, Wants
  <2>10. \A full : Keeps([Wants(task[g], full) EXCEPT !.signal = FALSE])
    BY <2>2 DEF Task, Wants
  <2>11. task[g].cancelled => Keeps(NoTask)
    OBVIOUS
  <2> HIDE DEF Keeps
  <2>12. \E t : TaskStep(g, t) /\ Keeps(t)
    <3>1. CASE ListenerStep(g)
      BY <1>2, <2>3, <2>5, <2>6, <2>8, <3>1
         DEF ListenerStep, Connect, ConnectRejected, ListenerRetries, Notice
    <3>2. CASE ListenerFails(g)
      BY <2>7, <2>11, <3>2 DEF ListenerFails
    <3>3. CASE WorkerCancelled(g)
      BY <2>11, <3>3 DEF WorkerCancelled
    <3>4. CASE TryAgain(g) \/ RefreshAgain(g)
      BY <2>4, <3>4 DEF TryAgain, RefreshAgain
    <3>5. CASE PassFinished(g)
      BY <2>3, <2>4, <3>5 DEF PassFinished
    <3>6. CASE RefreshOnSignal(g)
      BY <2>10, <3>6 DEF RefreshOnSignal
    <3>7. CASE \E full \in BOOLEAN : RefreshOnTimer(g, full)
      BY <2>9, <3>7 DEF RefreshOnTimer
    <3>8. CASE StartPass(g)
      BY <2>3, <2>4, <2>11, <3>8 DEF StartPass
    <3> QED
      BY <3>1, <3>2, <3>3, <3>4, <3>5, <3>6, <3>7, <3>8 DEF RefresherStep
  <2> QED
    BY <2>1, <2>12, OneSessionStep DEF Keeps
<1> QED
  BY <1>1, <1>2

-----------------------------------------------------------------------------
(***************************************************************************)
(* The server.                                                             *)
(***************************************************************************)

\* When the password changes, the secret of an account and the sessions that came from it
\* age together.
LEMMA PasswordSession ==
  ASSUME SessionInv, AccountsInv, WorkerInv, NEW b \in Accounts, ChangePassword(b)
  PROVE  SessionInv'
<1>1. /\ UNCHANGED <<workers, desired, restarts, state, incoming, command, loading>>
      /\ store' = [r \in Refs |-> IF r \in SecretsFor(b) /\ store[r] = "current"
                                    THEN "old" ELSE store[r]]
      /\ task' = [g \in Generations |->
                    IF g \in Live /\ Address[task[g].account] = Address[b]
                       /\ task[g].secret = "current"
                      THEN [task[g] EXCEPT !.secret = "old"] ELSE task[g]]
  BY DEF ChangePassword, PasswordChanges, supervisorVars, coordinatorVars
<1>2. ASSUME NEW a \in Registered \cap Listed, SessionAgrees(a)
      PROVE  SessionAgrees(a)'
  <2> DEFINE g == workers[a]
  <2>1. /\ g \in Live /\ g \in Generations /\ task[g] \in Task /\ task[g].account = a
    BY <1>2, LiveHasTask DEF WorkerInv, WorkerIsRegistered
  <2>2. a \in Accounts /\ incoming[a] \in Refs /\ incoming[a] \in RefsOf(a)
    BY IncomingIsItsOwn
  <2>3. task'[g].stage = task[g].stage
    BY <1>1, <2>1 DEF Task
  <2>4. CASE task'[g] = task[g]
    BY <1>1, <1>2, <2>2, <2>4 DEF SessionAgrees
  <2>5. CASE Address[a] = Address[b]
    <3>1. incoming[a] \in SecretsFor(b)
      BY <2>2, <2>5 DEF SecretsFor
    <3>2. store'[incoming[a]] # "current"
      BY <1>1, <2>2, <3>1
    <3> QED
      BY <1>1, <1>2, <2>3, <3>2 DEF SessionAgrees
  <2> QED
    BY <1>1, <2>1, <2>4, <2>5
<1> QED
  BY <1>1, <1>2 DEF SessionInv, InOrder, HadRow, Registered, Listed

\* Mail that arrives is no matter of sessions.
LEMMA MailSession ==
  ASSUME SessionInv, AccountsInv, WorkerInv, NEW a \in Accounts, MailChanges(a)
  PROVE  SessionInv'
<1>1. UNCHANGED <<accountVars, desired, workers, restarts>>
  BY DEF MailChanges, supervisorVars, coordinatorVars
<1>2. ASSUME NEW g \in Live
      PROVE  task'[g].stage = task[g].stage /\ task'[g].secret = task[g].secret
  <2> DEFINE t == [task[g] EXCEPT !.told = TRUE]
             idle == {h \in Live : task[h].account = a /\ task[h].listener = "idle"}
  <2>1. g \in Generations /\ task[g] \in Task
    BY LiveHasTask DEF WorkerInv
  <2>2. t.stage = task[g].stage /\ t.secret = task[g].secret
    BY <2>1 DEF Task
  <2>3. \/ task' = task
        \/ task' = [h \in Generations |-> IF h \in idle THEN [task[h] EXCEPT !.told = TRUE]
                                           ELSE task[h]]
    BY DEF MailChanges
  <2>4. task'[g] = task[g] \/ task'[g] = t
    BY <2>1, <2>3
  <2> QED
    BY <2>2, <2>4
<1> QED
  BY <1>1, <1>2, SessionStutter DEF SessionInv

-----------------------------------------------------------------------------
\* The invariant of the sessions.
THEOREM SessionInvHolds == Spec => []SessionInv
<1>1. SessionInv /\ AccountsInv /\ WorkerInv /\ [Next]_vars => SessionInv'
  <2> SUFFICES ASSUME SessionInv, AccountsInv, WorkerInv, [Next]_vars PROVE SessionInv'
    OBVIOUS
  <2>1. CASE UNCHANGED vars
    <3>1. UNCHANGED <<accountVars, desired, workers, restarts, task>>
      BY <2>1 DEF vars, realtimeVars, supervisorVars, coordinatorVars
    <3> QED
      BY <3>1, SessionStutter DEF SessionInv
  <2>2. CASE Supervisor
    BY <2>2, BeginRoundSession, ReconcileSession, ExitSession DEF Supervisor
  <2>3. CASE Command
    BY <2>3, CommandSession
  <2>4. ASSUME NEW a \in Accounts, ChangePassword(a) \/ MailChanges(a)
        PROVE  SessionInv'
    BY <2>4, PasswordSession, MailSession
  <2>5. ASSUME SetPlatformState \/ \E p \in Passes : PassStep(p) \/ PassFails(p)
        PROVE  SessionInv'
    <3>1. UNCHANGED <<accountVars, desired, workers, restarts, task>>
      BY <2>5 DEF SetPlatformState, PassStep, PassFails, StopPass, ReadFolders,
                  CompletePass, PassRejected, FinishPass, Wake, supervisorVars,
                  coordinatorVars
    <3> QED
      BY <3>1, SessionStutter DEF SessionInv
  <2>6. ASSUME NEW g \in Generations,
               \/ ListenerStep(g) \/ ListenerFails(g) \/ WorkerCancelled(g)
               \/ RefresherStep(g) \/ RefreshOnTimer(g, TRUE)
        PROVE  SessionInv'
    BY <2>6, WorkerSession
  <2> QED
    BY <2>1, <2>2, <2>3, <2>4, <2>5, <2>6 DEF Next, Environment
<1>2. Spec => []AccountsInv
  BY RealtimeImplementsAccounts, AccountsInvHolds, PTL
<1> QED
  BY <1>1, <1>2, SessionInit, WorkerInvHolds, PTL DEF Spec

\* A worker does not keep a password that the user has replaced: whichever secret it read,
\* and whatever command overtook it, it is in order with its account, or the command that
\* replaces the password, or the supervisor, is about to restart it.
THEOREM SessionAlwaysCurrent == Spec => []SessionIsCurrent
<1>1. SessionInv => SessionIsCurrent
  BY DEF SessionInv, InOrder, SessionAgrees, SessionIsCurrent, Registered, Listed
<1> QED
  BY <1>1, SessionInvHolds, PTL

-----------------------------------------------------------------------------
(***************************************************************************)
(* Types, and what belongs together in a slot and in a task.               *)
(***************************************************************************)
SlotHasPass ==
  \A a \in Accounts : slot[a] # Nobody => slot[a] \in Running /\ pass[slot[a]].account = a

SessionBeforeWork ==
  \A g \in Live : task[g].listener # "off" \/ task[g].refresher # "off" =>
    task[g].stage = "running" /\ task[g].secret # "none"

PassInv == TypeOK /\ SlotHasPass /\ SessionBeforeWork

SyncTypes ==
  /\ slot \in [Accounts -> Passes \cup {Nobody}]
  /\ status \in [Accounts -> Status]
  /\ pass \in [Passes -> Pass \cup {NoPass}]

\* What is left of the types when those of accounts, workers and passes are known.
OtherTypes ==
  /\ automatic \in BOOLEAN /\ restarts \subseteq Accounts /\ woken \in BOOLEAN
  /\ allowed \in BOOLEAN /\ reconnected \in BOOLEAN
  /\ sup \in {"reconcile", "select"} /\ blocked \subseteq Accounts /\ misled \subseteq Accounts
  /\ changed \subseteq Accounts /\ owed \subseteq Accounts /\ events \in 0 .. MaxEvents

LEMMA TypesTogether ==
  ASSUME AccountsTypeOK, WorkerTypes, SyncTypes, OtherTypes
  PROVE  TypeOK
BY DEF TypeOK, WorkerTypes, SyncTypes, OtherTypes

LEMMA TypesApart ==
  ASSUME TypeOK
  PROVE  AccountsTypeOK /\ WorkerTypes /\ SyncTypes /\ OtherTypes
BY DEF TypeOK, WorkerTypes, SyncTypes, OtherTypes

LEMMA RunningHasPass ==
  ASSUME SyncTypes, NEW p \in Running
  PROVE  p \in Passes /\ pass[p] \in Pass /\ pass[p] # NoPass /\ pass[p].account \in Accounts
BY DEF SyncTypes, Running, Pass

LEMMA FreePassIsFree ==
  ASSUME Running # Passes
  PROVE  FreePass \in Passes /\ FreePass \notin Running
BY DEF FreePass, Running

\* Passes change, and nobody's slot does.
LEMMA PassesChange ==
  ASSUME SyncTypes, SlotHasPass, UNCHANGED slot, status' \in [Accounts -> Status],
         pass' = [p \in Passes |-> pass'[p]],
         \A p \in Passes : \/ pass'[p] = pass[p]
                           \/ /\ p \in Running /\ pass'[p] \in Pass
                              /\ pass'[p].account = pass[p].account
  PROVE  SyncTypes' /\ SlotHasPass'
<1>1. pass' \in [Passes -> Pass \cup {NoPass}]
  <2>1. \A p \in Passes : pass'[p] \in Pass \cup {NoPass}
    BY DEF SyncTypes
  <2> QED
    BY <2>1
<1>2. \A p \in Running : p \in Running' /\ pass'[p].account = pass[p].account
  BY AccountsAssumption DEF Running, Pass, NoPass
<1> QED
  BY <1>1, <1>2 DEF SyncTypes, SlotHasPass

\* A pass ends, and frees the slot that is its own.
LEMMA FinishPassTypes ==
  ASSUME SyncTypes, SlotHasPass, NEW p \in Running, NEW result \in Status,
         FinishPass(p, result)
  PROVE  SyncTypes' /\ SlotHasPass'
<1>1. p \in Passes /\ pass[p].account \in Accounts
  BY RunningHasPass
<1>2. SyncTypes'
  BY <1>1 DEF FinishPass, SyncTypes
<1>3. \A a \in Accounts : slot'[a] # Nobody => slot'[a] = slot[a] /\ slot[a] # p
  BY <1>1 DEF FinishPass, SyncTypes, SlotHasPass
<1>4. \A q \in Running : q # p => q \in Running' /\ pass'[q] = pass[q]
  BY <1>1 DEF FinishPass, SyncTypes, Running
<1> QED
  BY <1>2, <1>3, <1>4 DEF SlotHasPass

LEMMA CancelSlotTypes ==
  ASSUME SyncTypes, SlotHasPass, NEW a \in Accounts, CancelSlot(a)
  PROVE  SyncTypes' /\ SlotHasPass'
<1>1. ASSUME NEW p \in Passes
      PROVE  \/ pass'[p] = pass[p]
             \/ /\ p \in Running /\ pass'[p] \in Pass
                /\ pass'[p].account = pass[p].account
                /\ pass'[p].stage = pass[p].stage /\ pass'[p].secret = pass[p].secret
  <2>1. slot[a] = p => p \in Running /\ pass[p] \in Pass
    BY <1>1, RealtimeAssumption, RunningHasPass DEF SlotHasPass
  <2> QED
    BY <1>1, <2>1 DEF CancelSlot, Pass
<1>2. pass' \in [Passes -> Pass \cup {NoPass}]
  <2>1. \A p \in Passes : pass'[p] \in Pass \cup {NoPass}
    BY <1>1 DEF SyncTypes
  <2>2. pass' = [p \in Passes |-> pass'[p]]
    BY DEF CancelSlot
  <2> QED
    BY <2>1, <2>2
<1>3. \A p \in Running : p \in Running' /\ pass'[p].account = pass[p].account
  BY <1>1, AccountsAssumption DEF Running, Pass, NoPass
<1>4. SyncTypes'
  BY <1>2 DEF CancelSlot, SyncTypes, Status
<1>5. \A b \in Accounts : slot'[b] # Nobody => slot'[b] = slot[b]
  BY DEF CancelSlot, SyncTypes
<1> QED
  BY <1>3, <1>4, <1>5 DEF SlotHasPass

\* A pass begins in the slot of its account.
LEMMA PassBegins ==
  ASSUME SyncTypes, SlotHasPass, Running # Passes, NEW a \in Accounts, NEW new \in Pass,
         new.account = a, slot' = [slot EXCEPT ![a] = FreePass],
         status' = [status EXCEPT ![a] = "syncing"],
         pass' = [p \in Passes |-> pass'[p]], pass'[FreePass] = new,
         \A p \in Passes \ {FreePass} :
           \/ pass'[p] = pass[p]
           \/ p \in Running /\ pass'[p] \in Pass /\ pass'[p].account = pass[p].account
  PROVE  SyncTypes' /\ SlotHasPass'
<1>1. FreePass \in Passes /\ FreePass \notin Running
  BY FreePassIsFree
<1>2. pass' \in [Passes -> Pass \cup {NoPass}]
  <2>1. \A p \in Passes : pass'[p] \in Pass \cup {NoPass}
    BY DEF SyncTypes
  <2> QED
    BY <2>1
<1>3. \A p \in Running : p \in Running' /\ pass'[p].account = pass[p].account
  BY <1>1, AccountsAssumption DEF Running, Pass, NoPass
<1>4. FreePass \in Running'
  BY <1>1, AccountsAssumption DEF Running, Pass, NoPass
<1>5. SyncTypes'
  BY <1>1, <1>2 DEF SyncTypes, Status
<1>6. \A b \in Accounts : slot'[b] = IF b = a THEN FreePass ELSE slot[b]
  BY DEF SyncTypes
<1> QED
  BY <1>3, <1>4, <1>5, <1>6 DEF SlotHasPass

\* The pass that a worker starts is one, because its session has a secret.
LEMMA StartPassTypes ==
  ASSUME PassInv, NEW g \in Generations, StartPass(g), slot[task[g].account] = Nobody,
         task[g].account \in Listed
  PROVE  SyncTypes' /\ SlotHasPass'
<1> DEFINE t == task[g]
           new == [account |-> t.account, stage |-> IF t.cancelled THEN "stopped" ELSE "asking",
                   parent |-> IF t.cancelled THEN Nobody ELSE g, cancelled |-> t.cancelled,
                   full |-> t.full, permit |-> TRUE, secret |-> t.secret]
<1>1. SyncTypes /\ SlotHasPass /\ WorkerTypes
  BY TypesApart DEF PassInv
<1>2. g \in Live /\ t \in Task /\ t.account \in Accounts
  BY <1>1, LiveHasTask DEF StartPass, Refreshing
<1>3. /\ t.full \in BOOLEAN /\ t.cancelled \in BOOLEAN /\ t.secret \in {"old", "current"}
  <2>1. t.secret # "none"
    BY <1>2 DEF StartPass, Refreshing, PassInv, SessionBeforeWork
  <2> QED
    BY <1>2, <2>1 DEF Task, Secret
<1>4. new \in Pass /\ new.account = t.account
  BY <1>2, <1>3 DEF Pass
<1>5. /\ Running # Passes /\ pass' = [pass EXCEPT ![FreePass] = new]
      /\ slot' = [slot EXCEPT ![t.account] = FreePass]
      /\ status' = [status EXCEPT ![t.account] = "syncing"]
  BY DEF StartPass
<1> HIDE DEF new, t
<1>6. /\ pass' = [p \in Passes |-> pass'[p]] /\ pass'[FreePass] = new
      /\ \A p \in Passes \ {FreePass} : pass'[p] = pass[p]
  BY <1>1, <1>5, FreePassIsFree DEF SyncTypes
<1> QED
  BY <1>1, <1>2, <1>4, <1>5, <1>6, PassBegins

\* The pass that a command starts: its account has a secret.
LEMMA StartSyncTypes ==
  ASSUME PassInv, AccountsInv, NEW a \in Accounts, StartSync(a)
  PROVE  SyncTypes' /\ SlotHasPass'
<1> DEFINE new == [account |-> a, stage |-> "asking", cancelled |-> FALSE, parent |-> Nobody,
                   full |-> TRUE, permit |-> FALSE, secret |-> store[incoming[a]]]
<1>1. SyncTypes /\ SlotHasPass
  BY TypesApart DEF PassInv
<1>2. store[incoming[a]] \in {"old", "current"}
  <2>1. a \in Listed
    BY DEF StartSync, Listed
  <2>2. incoming[a] \in Refs /\ incoming[a] \in RefsOf(a)
    BY <2>1, IncomingIsItsOwn
  <2>3. store[incoming[a]] # "none"
    BY <2>1, <2>2, AccountsInvImpliesStoresAgree DEF StoresAgree
  <2> QED
    BY <2>2, <2>3 DEF AccountsInv, AccountsTypeOK, Secret
<1>3. new \in Pass /\ new.account = a
  BY <1>2 DEF Pass
<1>4. /\ Running # Passes
      /\ pass' = [p \in Passes |->
                    IF p = FreePass THEN new
                    ELSE IF slot[a] = p THEN [pass[p] EXCEPT !.cancelled = TRUE] ELSE pass[p]]
      /\ slot' = [slot EXCEPT ![a] = FreePass]
      /\ status' = [status EXCEPT ![a] = "syncing"]
  BY DEF StartSync
<1> HIDE DEF new
<1>5. pass' = [p \in Passes |-> pass'[p]] /\ pass'[FreePass] = new
  BY <1>4, FreePassIsFree
<1>6. ASSUME NEW p \in Passes \ {FreePass}
      PROVE  \/ pass'[p] = pass[p]
             \/ p \in Running /\ pass'[p] \in Pass /\ pass'[p].account = pass[p].account
  <2>1. CASE slot[a] = p
    <3>1. p \in Running /\ pass[p] \in Pass
      BY <1>1, <2>1, RealtimeAssumption, RunningHasPass DEF SlotHasPass
    <3>2. pass'[p] = [pass[p] EXCEPT !.cancelled = TRUE]
      BY <1>4, <2>1
    <3> QED
      BY <3>1, <3>2 DEF Pass
  <2>2. CASE slot[a] # p
    BY <1>4, <2>2
  <2> QED
    BY <2>1, <2>2
<1> QED
  BY <1>1, <1>3, <1>4, <1>5, <1>6, PassBegins

\* Passes lose their parent, or are cancelled.
LEMMA ParentGoes ==
  ASSUME SyncTypes, SlotHasPass, UNCHANGED <<slot, status>>,
         \/ \E G \in SUBSET Generations : CancelChildren(G)
         \/ \E g \in Generations :
              pass' = [p \in Passes |-> IF p \in Running /\ pass[p].parent = g
                                          THEN [pass[p] EXCEPT !.parent = Nobody] ELSE pass[p]]
  PROVE  /\ SyncTypes' /\ SlotHasPass'
         /\ \A p \in Running : pass'[p].stage = pass[p].stage /\ pass'[p].secret = pass[p].secret
<1>1. pass' = [p \in Passes |-> pass'[p]]
  BY DEF CancelChildren
<1>2. \A p \in Passes :
        \/ pass'[p] = pass[p]
        \/ /\ p \in Running
           /\ \/ pass'[p] = [pass[p] EXCEPT !.cancelled = TRUE, !.parent = Nobody]
              \/ pass'[p] = [pass[p] EXCEPT !.parent = Nobody]
  BY DEF CancelChildren
<1>3. \A p \in Running : LET q == pass[p] IN
        /\ q \in Pass
        /\ LET r == [q EXCEPT !.cancelled = TRUE, !.parent = Nobody] IN
             r \in Pass /\ r.account = q.account /\ r.stage = q.stage /\ r.secret = q.secret
        /\ LET r == [q EXCEPT !.parent = Nobody] IN
             r \in Pass /\ r.account = q.account /\ r.stage = q.stage /\ r.secret = q.secret
  BY RunningHasPass DEF Pass
<1>4. ASSUME NEW p \in Passes
      PROVE  \/ pass'[p] = pass[p]
             \/ /\ p \in Running /\ pass'[p] \in Pass
                /\ pass'[p].account = pass[p].account
                /\ pass'[p].stage = pass[p].stage /\ pass'[p].secret = pass[p].secret
  BY <1>2, <1>3
<1> QED
  BY <1>1, <1>4, PassesChange DEF SyncTypes, Running

\* Everything else is a flag, a set of accounts or the counter.
LEMMA OtherTypesStep ==
  ASSUME TypeOK, [Next]_vars
  PROVE  OtherTypes'
<1> USE RealtimeAssumption DEF coordinatorVars, supervisorVars, mailVars, Wake, RestartAccount
<1>0. OtherTypes /\ desired \subseteq Accounts
  BY TypesApart DEF WorkerTypes
<1>1. events' = events \/ (events < MaxEvents /\ events' = events + 1)
      => events' \in 0 .. MaxEvents
  BY <1>0 DEF OtherTypes
<1>2. CASE UNCHANGED vars
  BY <1>0, <1>2 DEF vars, realtimeVars, OtherTypes
<1>3. CASE BeginRound \/ Reconcile
  BY <1>0, <1>3 DEF BeginRound, Reconcile, OtherTypes
<1>4. ASSUME NEW g \in Generations, RecordWorkerExit(g)
      PROVE  OtherTypes'
  <2>1. task[g].account \in Accounts
    BY <1>4, TypesApart, LiveHasTask DEF RecordWorkerExit
  <2> QED
    BY <1>0, <1>4, <2>1 DEF RecordWorkerExit, OtherTypes
<1>5. CASE CommandStep \/ FinishRemoveAccount \/ UpdateSettings
  BY <1>0, <1>1, <1>5 DEF CommandStep, FinishRemoveAccount, UpdateSettings, EventIf, Event,
                          realtimeVars, OtherTypes
<1>6. ASSUME NEW a \in Accounts, StartSync(a) \/ CancelSync(a)
      PROVE  OtherTypes'
  BY <1>0, <1>1, <1>6 DEF StartSync, CancelSync, CancelSlot, Event, OtherTypes
<1>7. ASSUME NEW a \in Accounts, PauseOrResume(a) \/ BeginRemoveAccount(a)
      PROVE  OtherTypes'
  BY <1>0, <1>1, <1>7 DEF PauseOrResume, BeginRemoveAccount, CancelSlot, Event, EventIf,
                          OtherTypes
<1>8. ASSUME NEW a \in Accounts, NEW secret, BeginUpdateCredentials(a, secret)
      PROVE  OtherTypes'
  BY <1>0, <1>1, <1>8 DEF BeginUpdateCredentials, Event, EventIf, OtherTypes
<1>9. ASSUME NEW a \in Accounts, FinishUpdateCredentials(a) \/ FinishCreateAccount(a)
      PROVE  OtherTypes'
  BY <1>0, <1>9 DEF FinishUpdateCredentials, FinishCreateAccount, CancelSlot, OtherTypes
<1>10. CASE SetPlatformState
  BY <1>0, <1>1, <1>10 DEF SetPlatformState, Event, EventIf, OtherTypes
<1>11. ASSUME NEW a \in Accounts, ChangePassword(a) \/ MailChanges(a)
       PROVE  OtherTypes'
  BY <1>0, <1>1, <1>11 DEF ChangePassword, MailChanges, Event, OtherTypes
<1>12. ASSUME NEW p \in Passes, PassStep(p) \/ PassFails(p)
       PROVE  OtherTypes'
  BY <1>0, <1>1, <1>12 DEF PassStep, PassFails, StopPass, ReadFolders, CompletePass,
                           PassRejected, FinishPass, Event, OtherTypes
<1>13. ASSUME NEW g \in Generations,
              \/ ListenerStep(g) \/ ListenerFails(g) \/ WorkerCancelled(g)
              \/ TryAgain(g) \/ RefreshAgain(g) \/ RefreshOnSignal(g)
              \/ \E full \in BOOLEAN : RefreshOnTimer(g, full)
       PROVE  OtherTypes'
  BY <1>0, <1>1, <1>13 DEF ListenerStep, LoadRef, LoadSecret, Connect, ConnectRejected,
                           ListenerRetries, Notice, ListenerFails, WorkerCancelled,
                           TryAgain, RefreshAgain, RefreshOnSignal, RefreshOnTimer,
                           TaskOnly, Event, OtherTypes
<1>14. ASSUME NEW g \in Generations, PassFinished(g) \/ StartPass(g)
       PROVE  OtherTypes'
  <2>1. task[g].account \in Accounts
    BY <1>14, TypesApart, LiveHasTask DEF PassFinished, StartPass, Refreshing
  <2> QED
    BY <1>0, <1>14, <2>1 DEF PassFinished, StartPass, OtherTypes
<1> QED
  BY <1>2, <1>3, <1>4, <1>5, <1>6, <1>7, <1>8, <1>9, <1>10, <1>11, <1>12, <1>13, <1>14
     DEF Next, Supervisor, Command, Environment, RefresherStep

\* Steps that change no task but only its secret, or what it was told.
LEMMA SessionsAge ==
  ASSUME PassInv,
         \A g \in Live' :
           /\ g \in Live
           /\ task'[g].listener = task[g].listener /\ task'[g].refresher = task[g].refresher
           /\ task'[g].stage = task[g].stage
           /\ task'[g].secret = task[g].secret \/ task'[g].secret # "none"
  PROVE  SessionBeforeWork'
BY DEF PassInv, SessionBeforeWork

\* A worker listens and refreshes with a session only.
LEMMA OneTaskWorks ==
  ASSUME PassInv, NEW g \in Live, NEW t, TaskStep(g, t),
         \/ t = NoTask
         \/ t.listener = "off" /\ t.refresher = "off"
         \/ t.stage = "running" /\ t.secret # "none"
  PROVE  SessionBeforeWork'
<1>1. g \in Generations /\ task \in [Generations -> Task \cup {NoTask}]
  BY TypesApart, LiveHasTask DEF PassInv, WorkerTypes
<1>2. \A h \in Generations : task'[h] = IF h = g THEN t ELSE task[h]
  BY <1>1 DEF TaskStep
<1> QED
  BY <1>1, <1>2 DEF SessionBeforeWork, PassInv, Live

\* What every step of a worker makes of its task.
LEMMA WorkerWorks ==
  ASSUME PassInv, NEW g \in Generations,
         \/ ListenerStep(g) \/ ListenerFails(g) \/ WorkerCancelled(g)
         \/ RefresherStep(g) \/ RefreshOnTimer(g, TRUE)
  PROVE  SessionBeforeWork'
<1> DEFINE Works(t) == \/ t = NoTask
                       \/ t.listener = "off" /\ t.refresher = "off"
                       \/ t.stage = "running" /\ t.secret # "none"
           u == task[g]
<1>1. g \in Live
  BY DEF ListenerStep, LoadRef, LoadSecret, Connect, ConnectRejected, ListenerRetries,
         Notice, ListenerFails, WorkerCancelled, RefresherStep, TryAgain, PassFinished,
         RefreshAgain, RefreshOnSignal, RefreshOnTimer, StartPass, Listening, Refreshing
<1>2. u \in Task
  BY <1>1, TypesApart, LiveHasTask DEF PassInv
<1>3. Works(Ended(g))
  BY DEF Ended, TaskAt
<1>4. Works(NoTask)
  OBVIOUS
<1>5. CASE LoadRef(g)
  <2>1. u.listener = "off" /\ u.refresher = "off"
    BY <1>1, <1>5 DEF LoadRef, PassInv, SessionBeforeWork
  <2>2. Works([u EXCEPT !.stage = "secret"])
    BY <1>2, <2>1 DEF Task
  <2> QED
    BY <1>1, <1>3, <1>5, <2>2, OneTaskWorks DEF LoadRef
<1>6. CASE LoadSecret(g)
  <2>1. store[loading[g]] # "none" =>
          Works([u EXCEPT !.stage = "running", !.listener = "connect",
                          !.refresher = "permit", !.secret = store[loading[g]]])
    BY <1>2 DEF Task
  <2> HIDE DEF Works
  <2>2. \E t : TaskStep(g, t) /\ Works(t)
    BY <1>3, <1>4, <1>6, <2>1 DEF LoadSecret
  <2> QED
    BY <1>1, <2>2, OneTaskWorks DEF Works
<1>7. CASE ~LoadRef(g) /\ ~LoadSecret(g)
  <2>1. (\/ u.listener \in {"connect", "idle", "retry"} \/ u.refresher # "off") =>
          u.stage = "running" /\ u.secret # "none"
    BY <1>1 DEF PassInv, SessionBeforeWork
  <2>2. u.stage = "running" /\ u.secret # "none" =>
          /\ \A r : Works([u EXCEPT !.refresher = r])
          /\ \A l : Works([u EXCEPT !.listener = l])
          /\ Works([u EXCEPT !.listener = "idle", !.signal = TRUE])
          /\ Works([u EXCEPT !.listener = "retry", !.told = FALSE])
          /\ Works([u EXCEPT !.told = FALSE, !.signal = TRUE])
    BY <1>2 DEF Task
  <2>3. u.stage = "running" /\ u.secret # "none" =>
          /\ \A full : Works(Wants(u, full))
          /\ \A full : Works([Wants(u, full) EXCEPT !.signal = FALSE])
    BY <1>2 DEF Task, Wants
  <2> HIDE DEF Works, u
  <2>4. \E t : TaskStep(g, t) /\ Works(t)
    <3> USE DEF u
    <3>1. CASE ListenerStep(g)
      BY <1>3, <1>7, <2>1, <2>2, <3>1
         DEF ListenerStep, Connect, ConnectRejected, ListenerRetries, Notice, Listening
    <3>2. CASE ListenerFails(g) \/ WorkerCancelled(g)
      BY <1>4, <2>1, <2>2, <3>2 DEF ListenerFails, WorkerCancelled, Listening
    <3>3. CASE TryAgain(g) \/ RefreshAgain(g)
      BY <2>1, <2>2, <3>3 DEF TryAgain, RefreshAgain, Refreshing
    <3>4. CASE PassFinished(g)
      BY <1>3, <2>1, <2>2, <3>4 DEF PassFinished, Refreshing
    <3>5. CASE RefreshOnSignal(g) \/ \E full \in BOOLEAN : RefreshOnTimer(g, full)
      BY <2>1, <2>3, <3>5 DEF RefreshOnSignal, RefreshOnTimer, Refreshing
    <3>6. CASE StartPass(g)
      BY <1>3, <1>4, <2>1, <2>2, <3>6 DEF StartPass, Refreshing
    <3> QED
      BY <3>1, <3>2, <3>3, <3>4, <3>5, <3>6 DEF RefresherStep
  <2> QED
    BY <1>1, <2>4, OneTaskWorks DEF Works
<1> QED
  BY <1>5, <1>6, <1>7

\* A cancelled worker finishes what it waits for with the session it has.
LEMMA CancelledWorks ==
  ASSUME PassInv, NEW G \in SUBSET Live, NEW g \in Generations, CancelTasks(G)[g] # NoTask
  PROVE  LET t == CancelTasks(G)[g] IN
         t.listener # "off" \/ t.refresher # "off" => t.stage = "running" /\ t.secret # "none"
<1>1. CASE g \notin G
  BY <1>1 DEF CancelTasks, PassInv, SessionBeforeWork, Live
<1>2. CASE g \in G
  BY <1>2 DEF CancelTasks, PassInv, SessionBeforeWork, Cancelled
<1> QED
  BY <1>1, <1>2

\* The supervisor only cancels and begins.
LEMMA SupervisorWorks ==
  ASSUME PassInv, WorkerInv, Supervisor
  PROVE  SessionBeforeWork'
<1> DEFINE Working(t) == t.listener # "off" \/ t.refresher # "off" =>
                           t.stage = "running" /\ t.secret # "none"
<1>1. \A g \in Live : Working(task[g])
  BY DEF PassInv, SessionBeforeWork
<1>2. ASSUME NEW S \in SUBSET Registered, NEW g \in Generations,
             CancelTasks({workers[a] : a \in S})[g] # NoTask
      PROVE  Working(CancelTasks({workers[a] : a \in S})[g])
  <2>1. {workers[a] : a \in S} \in SUBSET Live
    BY DEF WorkerInv, WorkerIsRegistered
  <2> QED
    BY <1>2, <2>1, CancelledWorks
<1>3. \A a : Working(NewTask(a))
  BY DEF NewTask, TaskAt
<1> HIDE DEF Working
<1>4. ASSUME NEW g \in Live' PROVE Working(task'[g])
  <2>1. g \in Generations /\ task'[g] # NoTask
    BY <1>4 DEF Live
  <2>2. CASE BeginRound /\ reconnected
    <3>1. task' = CancelTasks({workers[a] : a \in Registered})
      BY <2>2 DEF BeginRound
    <3> QED
      BY <1>2, <2>1, <3>1
  <2>3. CASE UNCHANGED task
    BY <1>1, <2>1, <2>3 DEF Live
  <2>4. CASE Reconcile
    <3> DEFINE stop == {a \in Registered : ~allowed \/ a \in restarts \/ a \notin desired}
               G == {workers[a] : a \in stop}
    <3>1. \/ task'[g] = CancelTasks(G)[g]
          \/ \E a : task'[g] = NewTask(a)
      BY <2>1, <2>4 DEF Reconcile
    <3>2. stop \in SUBSET Registered
      OBVIOUS
    <3> HIDE DEF stop
    <3> QED
      BY <1>2, <1>3, <2>1, <3>1, <3>2
  <2>5. ASSUME NEW h \in Generations, RecordWorkerExit(h)
        PROVE  Working(task'[g])
    <3>1. task \in [Generations -> Task \cup {NoTask}] /\ task' = [task EXCEPT ![h] = NoTask]
      BY <2>5, TypesApart DEF PassInv, WorkerTypes, RecordWorkerExit
    <3>2. task'[g] = task[g] /\ g \in Live
      BY <2>1, <3>1 DEF Live
    <3> QED
      BY <1>1, <3>2
  <2>6. CASE BeginRound /\ ~reconnected
    BY <2>3, <2>6 DEF BeginRound
  <2> QED
    BY <2>2, <2>4, <2>5, <2>6 DEF Supervisor
<1> QED
  BY <1>4 DEF SessionBeforeWork, Working

\* A worker works with a session, whatever happens.
LEMMA SessionBeforeWorkStep ==
  ASSUME PassInv, AccountsInv, WorkerInv, [Next]_vars
  PROVE  SessionBeforeWork'
<1>1. CASE UNCHANGED task
  <2>1. UNCHANGED Live
    BY <1>1 DEF Live
  <2> QED
    BY <1>1, <2>1, SessionsAge
<1>2. CASE UNCHANGED vars
  BY <1>1, <1>2 DEF vars, realtimeVars
<1>3. CASE Supervisor
  BY <1>3, SupervisorWorks
<1>4. CASE Command
  BY <1>1, <1>4, CommandTask
<1>5. ASSUME NEW a \in Accounts, ChangePassword(a) \/ MailChanges(a)
      PROVE  SessionBeforeWork'
  <2>1. ASSUME NEW g \in Live'
        PROVE  /\ g \in Live
               /\ task'[g].listener = task[g].listener /\ task'[g].refresher = task[g].refresher
               /\ task'[g].stage = task[g].stage
               /\ task'[g].secret = task[g].secret \/ task'[g].secret # "none"
    <3> DEFINE t == [task[g] EXCEPT !.secret = "old"]
               u == [task[g] EXCEPT !.told = TRUE]
    <3>1. g \in Generations /\ task'[g] # NoTask
      BY <2>1 DEF Live
    <3>2. task'[g] = task[g] \/ (g \in Live /\ (task'[g] = t \/ task'[g] = u))
      BY <1>5, <3>1 DEF ChangePassword, MailChanges
    <3>3. g \in Live /\ task[g] \in Task
      BY <3>1, <3>2, LiveHasTask DEF Live, WorkerInv
    <3>4. /\ t.listener = task[g].listener /\ t.refresher = task[g].refresher
          /\ t.stage = task[g].stage /\ t.secret # "none"
          /\ u.listener = task[g].listener /\ u.refresher = task[g].refresher
          /\ u.stage = task[g].stage /\ u.secret = task[g].secret
      BY <3>3 DEF Task
    <3> HIDE DEF t, u
    <3> QED
      BY <3>2, <3>3, <3>4
  <2> QED
    BY <2>1, SessionsAge
<1>6. CASE SetPlatformState \/ \E p \in Passes : PassStep(p) \/ PassFails(p)
  <2>1. UNCHANGED task
    BY <1>6 DEF SetPlatformState, PassStep, PassFails, StopPass, ReadFolders, CompletePass,
                PassRejected
  <2> QED
    BY <1>1, <2>1
<1>7. ASSUME NEW g \in Generations,
             \/ ListenerStep(g) \/ ListenerFails(g) \/ WorkerCancelled(g)
             \/ RefresherStep(g) \/ RefreshOnTimer(g, TRUE)
      PROVE  SessionBeforeWork'
  BY <1>7, WorkerWorks
<1> QED
  BY <1>2, <1>3, <1>4, <1>5, <1>6, <1>7 DEF Next, Environment

\* The end of a pass, in each of its ways.
LEMMA PassStepTypes ==
  ASSUME SyncTypes, SlotHasPass, NEW p \in Passes, PassStep(p) \/ PassFails(p)
  PROVE  SyncTypes' /\ SlotHasPass'
<1>1. p \in Running /\ pass[p] \in Pass
  BY RunningHasPass DEF PassStep, PassFails, StopPass, ReadFolders, CompletePass,
                        PassRejected, PassAt
<1>2. CASE ReadFolders(p)
  <2>1. [pass[p] EXCEPT !.stage = "read"] \in Pass
        /\ [pass[p] EXCEPT !.stage = "read"].account = pass[p].account
    BY <1>1 DEF Pass
  <2>2. pass' = [pass EXCEPT ![p] = [pass[p] EXCEPT !.stage = "read"]]
        /\ UNCHANGED <<slot, status>>
    BY <1>2 DEF ReadFolders
  <2>3. pass' = [q \in Passes |-> pass'[q]]
    BY <2>2 DEF SyncTypes
  <2>4. \A q \in Passes : q # p => pass'[q] = pass[q]
    BY <2>2 DEF SyncTypes
  <2>5. pass'[p] = [pass[p] EXCEPT !.stage = "read"]
    BY <2>2 DEF SyncTypes
  <2>6. status' \in [Accounts -> Status]
    BY <2>2 DEF SyncTypes
  <2> QED
    BY <1>1, <2>1, <2>2, <2>3, <2>4, <2>5, <2>6, PassesChange
<1>3. CASE ~ReadFolders(p)
  <2>1. \E result \in Status : FinishPass(p, result)
    BY <1>3 DEF PassStep, PassFails, StopPass, CompletePass, PassRejected, Status
  <2> QED
    BY <1>1, <2>1, FinishPassTypes
<1> QED
  BY <1>2, <1>3

\* What the server does to the passes.
LEMMA ServerPassTypes ==
  ASSUME SyncTypes, SlotHasPass, NEW a \in Accounts, ChangePassword(a) \/ MailChanges(a)
  PROVE  SyncTypes' /\ SlotHasPass'
<1>1. UNCHANGED <<slot, status>> /\ pass' = [p \in Passes |-> pass'[p]]
  BY DEF ChangePassword, MailChanges
<1>2. ASSUME NEW p \in Passes
      PROVE  \/ pass'[p] = pass[p]
             \/ /\ p \in Running /\ pass'[p] \in Pass
                /\ pass'[p].account = pass[p].account
  <2> DEFINE q == [pass[p] EXCEPT !.secret = "old"]
             r == [pass[p] EXCEPT !.stage = "outdated"]
  <2>1. pass'[p] = pass[p] \/ (p \in Running /\ (pass'[p] = q \/ pass'[p] = r))
    BY <1>2 DEF ChangePassword, MailChanges, PassAt
  <2>2. p \in Running => /\ q \in Pass /\ r \in Pass
                         /\ q.account = pass[p].account /\ r.account = pass[p].account
    BY RunningHasPass DEF Pass
  <2> HIDE DEF q, r
  <2> QED
    BY <2>1, <2>2
<1>3. status' \in [Accounts -> Status]
  BY <1>1 DEF SyncTypes
<1> QED
  BY <1>1, <1>2, <1>3, PassesChange

LEMMA SyncStep ==
  ASSUME PassInv, AccountsInv, WorkerInv, [Next]_vars
  PROVE  SyncTypes' /\ SlotHasPass'
<1>0. SyncTypes /\ SlotHasPass /\ WorkerTypes
  BY TypesApart DEF PassInv
<1>1. CASE UNCHANGED syncVars
  BY <1>0, <1>1 DEF syncVars, SyncTypes, SlotHasPass, Running
<1>2. CASE UNCHANGED vars \/ SetPlatformState
  BY <1>1, <1>2 DEF vars, realtimeVars, SetPlatformState
<1>3. CASE Supervisor
  <2>1. UNCHANGED <<slot, status>>
    BY <1>3 DEF Supervisor, BeginRound, Reconcile, RecordWorkerExit
  <2>2. CASE UNCHANGED pass
    BY <1>1, <2>1, <2>2 DEF syncVars
  <2>3. CASE \/ \E G \in SUBSET Generations : CancelChildren(G)
             \/ \E g \in Generations :
                  pass' = [p \in Passes |->
                             IF p \in Running /\ pass[p].parent = g
                               THEN [pass[p] EXCEPT !.parent = Nobody] ELSE pass[p]]
    BY <1>0, <2>1, <2>3, ParentGoes
  <2>4. \A S \in SUBSET Registered : {workers[a] : a \in S} \in SUBSET Generations
    BY <1>0 DEF WorkerTypes, Registered
  <2>5. CASE BeginRound
    BY <2>2, <2>3, <2>4, <2>5 DEF BeginRound
  <2>6. CASE Reconcile
    <3> DEFINE stop == {a \in Registered : ~allowed \/ a \in restarts \/ a \notin desired}
    <3>1. CancelChildren({workers[a] : a \in stop})
      BY <2>6 DEF Reconcile
    <3>2. stop \in SUBSET Registered
      OBVIOUS
    <3> HIDE DEF stop
    <3> QED
      BY <2>3, <2>4, <3>1, <3>2
  <2>7. CASE \E g \in Generations : RecordWorkerExit(g)
    BY <2>2, <2>3, <2>7 DEF RecordWorkerExit
  <2> QED
    BY <1>3, <2>5, <2>6, <2>7 DEF Supervisor
<1>4. CASE Command
  <2>1. CASE \E a \in Accounts : StartSync(a)
    BY <2>1, StartSyncTypes
  <2>2. CASE \E a \in Accounts : CancelSlot(a)
    BY <1>0, <2>2, CancelSlotTypes
  <2> QED
    BY <1>1, <1>4, <2>1, <2>2
       DEF Command, CancelSync, BeginRemoveAccount, PauseOrResume, BeginUpdateCredentials,
           FinishUpdateCredentials, FinishCreateAccount, CommandStep, FinishRemoveAccount,
           UpdateSettings, realtimeVars
<1>5. ASSUME NEW a \in Accounts, ChangePassword(a) \/ MailChanges(a)
      PROVE  SyncTypes' /\ SlotHasPass'
  BY <1>0, <1>5, ServerPassTypes
<1>6. ASSUME NEW p \in Passes, PassStep(p) \/ PassFails(p)
      PROVE  SyncTypes' /\ SlotHasPass'
  BY <1>0, <1>6, PassStepTypes
<1>7. ASSUME NEW g \in Generations,
             \/ ListenerStep(g) \/ ListenerFails(g) \/ WorkerCancelled(g)
             \/ RefresherStep(g) \/ RefreshOnTimer(g, TRUE)
      PROVE  SyncTypes' /\ SlotHasPass'
  <2>1. CASE StartPass(g) /\ slot[task[g].account] = Nobody /\ task[g].account \in Listed
    BY <2>1, StartPassTypes
  <2>2. CASE ~(StartPass(g) /\ slot[task[g].account] = Nobody /\ task[g].account \in Listed)
    <3>1. UNCHANGED <<slot, pass>>
      BY <1>7, <2>2
         DEF ListenerStep, LoadRef, LoadSecret, Connect, ConnectRejected, ListenerRetries,
             Notice, ListenerFails, WorkerCancelled, RefresherStep, TryAgain, PassFinished,
             RefreshAgain, RefreshOnSignal, RefreshOnTimer, StartPass, TaskOnly, syncVars
    <3>2. status' = status \/ \E a, s : s \in Status /\ status' = [status EXCEPT ![a] = s]
      BY <1>7, <2>2
         DEF ListenerStep, LoadRef, LoadSecret, Connect, ConnectRejected, ListenerRetries,
             Notice, ListenerFails, WorkerCancelled, RefresherStep, TryAgain, PassFinished,
             RefreshAgain, RefreshOnSignal, RefreshOnTimer, StartPass, TaskOnly, syncVars,
             Report, Status
    <3>3. status' \in [Accounts -> Status]
      BY <1>0, <3>2 DEF SyncTypes
    <3> QED
      BY <1>0, <3>1, <3>3 DEF SyncTypes, SlotHasPass, Running
  <2> QED
    BY <2>1, <2>2
<1> QED
  BY <1>2, <1>3, <1>4, <1>5, <1>6, <1>7 DEF Next, Environment

\* The types of the whole composition, a pass in every taken slot, and a session in every
\* worker that works.
THEOREM PassInvHolds == Spec => []PassInv
<1>1. Init => PassInv
  <2> SUFFICES ASSUME Init PROVE PassInv
    OBVIOUS
  <2>1. SyncTypes /\ OtherTypes /\ SlotHasPass /\ SessionBeforeWork
    <3>1. Live = {}
      BY DEF Init, Live
    <3>2. SyncTypes /\ SlotHasPass
      BY DEF Init, SyncTypes, SlotHasPass, Status
    <3>3. OtherTypes
      <4>1. events \in 0 .. MaxEvents
        BY RealtimeAssumption DEF Init
      <4>2. /\ automatic \in BOOLEAN /\ woken \in BOOLEAN /\ allowed \in BOOLEAN
            /\ reconnected \in BOOLEAN
        BY Zenon DEF Init
      <4> QED
        BY <4>1, <4>2 DEF Init, OtherTypes
    <3> QED
      BY <3>1, <3>2, <3>3 DEF SessionBeforeWork
  <2>2. AccountsTypeOK /\ WorkerTypes
    BY WorkerInit, AccountsInitInv DEF Init, WorkerInv, AccountsInv
  <2> QED
    BY <2>1, <2>2, TypesTogether DEF PassInv
<1>2. PassInv /\ AccountsInv /\ AccountsInv' /\ WorkerInv /\ WorkerInv' /\ [Next]_vars
      => PassInv'
  <2> SUFFICES ASSUME PassInv, AccountsInv, AccountsInv', WorkerInv, WorkerInv', [Next]_vars
               PROVE  PassInv'
    OBVIOUS
  <2>1. SyncTypes' /\ SlotHasPass' /\ OtherTypes' /\ SessionBeforeWork'
    BY SyncStep, OtherTypesStep, SessionBeforeWorkStep DEF PassInv
  <2>2. AccountsTypeOK' /\ WorkerTypes'
    BY DEF AccountsInv, WorkerInv
  <2>3. TypeOK'
    BY <2>1, <2>2 DEF TypeOK, WorkerTypes, SyncTypes, OtherTypes
  <2> QED
    BY <2>1, <2>3 DEF PassInv
<1>3. Spec => []AccountsInv
  BY RealtimeImplementsAccounts, AccountsInvHolds, PTL
<1> QED
  BY <1>1, <1>2, <1>3, WorkerInvHolds, PTL DEF Spec

\* Every variable of the realtime synchronisation keeps its type.
THEOREM RealtimeTypesHold == Spec => []TypeOK
BY PassInvHolds, PTL DEF PassInv

-----------------------------------------------------------------------------
(***************************************************************************)
(* What steps about one account leave to the slots of the others.          *)
(***************************************************************************)
Untouched(a) ==
  /\ slot'[a] = slot[a] /\ status'[a] = status[a]
  /\ slot[a] # Nobody => pass'[slot[a]] = pass[slot[a]]

\* A start takes a slot of an account to be restarted; a cancellation leaves no failure, and
\* nothing is owed to the account then.
LEMMA CommandSlots ==
  ASSUME PassInv, Command, NEW a \in Accounts
  PROVE  \/ Untouched(a) \/ a \in restarts'
         \/ slot'[a] = Nobody /\ status'[a] = "idle" /\ a \notin owed'
<1>1. SyncTypes /\ SlotHasPass
  BY TypesApart DEF PassInv
<1>2. slot[a] # Nobody => /\ slot[a] \in Running /\ slot[a] \in Passes
                          /\ \A b \in Accounts : b # a => slot[b] # slot[a]
  BY <1>1, RunningHasPass DEF SlotHasPass
<1>3. CASE UNCHANGED syncVars
  BY <1>3 DEF syncVars, Untouched
<1>4. ASSUME NEW b \in Accounts, StartSync(b)
      PROVE  Untouched(a) \/ a \in restarts'
  <2>1. CASE a = b
    BY <1>4, <2>1 DEF StartSync, RestartAccount
  <2>2. CASE a # b
    <3>1. slot'[a] = slot[a] /\ status'[a] = status[a]
      BY <1>1, <1>4, <2>2 DEF StartSync, SyncTypes
    <3>2. slot[a] # Nobody => slot[a] # FreePass
      BY <1>2, <1>4, FreePassIsFree DEF StartSync
    <3>3. slot[a] # Nobody => pass'[slot[a]] = pass[slot[a]]
      BY <1>2, <1>4, <2>2, <3>2 DEF StartSync
    <3> QED
      BY <3>1, <3>3 DEF Untouched
  <2> QED
    BY <2>1, <2>2
<1>5. ASSUME NEW b \in Accounts, CancelSlot(b)
      PROVE  Untouched(a) \/ (slot'[a] = Nobody /\ status'[a] = "idle" /\ a \notin owed')
  <2>1. CASE a = b
    BY <1>1, <1>5, <2>1 DEF CancelSlot, SyncTypes
  <2>2. CASE a # b
    BY <1>1, <1>2, <1>5, <2>2 DEF CancelSlot, SyncTypes, Untouched
  <2> QED
    BY <2>1, <2>2
<1> QED
  BY <1>3, <1>4, <1>5
     DEF Command, CancelSync, BeginRemoveAccount, PauseOrResume, BeginUpdateCredentials,
         FinishUpdateCredentials, FinishCreateAccount, CommandStep, FinishRemoveAccount,
         UpdateSettings, realtimeVars

\* A pass that ends touches the slot that is its own.
LEMMA FinishPassSlots ==
  ASSUME PassInv, NEW p \in Running, NEW result, FinishPass(p, result), NEW a \in Accounts
  PROVE  \/ slot[a] # p /\ Untouched(a)
         \/ /\ slot[a] = p /\ slot[a] # Nobody /\ pass[p].account = a
            /\ slot'[a] = Nobody /\ status'[a] = result
<1>1. SyncTypes /\ SlotHasPass /\ p \in Passes /\ p # Nobody
  BY TypesApart, RunningHasPass, RealtimeAssumption DEF PassInv
<1>2. CASE slot[a] = p
  <2>1. pass[p].account = a
    BY <1>1, <1>2 DEF SlotHasPass
  <2> QED
    BY <1>1, <1>2, <2>1 DEF FinishPass, SyncTypes
<1>3. CASE slot[a] # p
  <2>1. slot'[a] = slot[a] /\ status'[a] = status[a]
    BY <1>1, <1>3 DEF FinishPass, SyncTypes, SlotHasPass
  <2>2. slot[a] # Nobody => pass'[slot[a]] = pass[slot[a]]
    BY <1>1, <1>3, RunningHasPass DEF FinishPass, SlotHasPass, SyncTypes
  <2> QED
    BY <1>3, <2>1, <2>2 DEF Untouched
<1> QED
  BY <1>2, <1>3

\* A pass that a worker starts takes the slot of its account, which is free.
LEMMA StartPassSlots ==
  ASSUME PassInv, NEW g \in Live, StartPass(g), NEW a \in Accounts, a = task[g].account,
         slot[a] = Nobody, a \in Listed
  PROVE  /\ FreePass \in Passes /\ FreePass \notin Running /\ FreePass # Nobody
         /\ slot' = [slot EXCEPT ![a] = FreePass] /\ slot'[a] = FreePass
         /\ pass'[FreePass] =
              [account |-> a, stage |-> IF task[g].cancelled THEN "stopped" ELSE "asking",
               parent |-> IF task[g].cancelled THEN Nobody ELSE g,
               cancelled |-> task[g].cancelled, full |-> task[g].full, permit |-> TRUE,
               secret |-> task[g].secret]
         /\ \A p \in Passes \ {FreePass} : pass'[p] = pass[p]
         /\ \A b \in Accounts \ {a} : Untouched(b)
<1>1. SyncTypes /\ SlotHasPass
  BY TypesApart DEF PassInv
<1>2. /\ FreePass \in Passes /\ FreePass \notin Running /\ FreePass # Nobody
  BY FreePassIsFree, RealtimeAssumption DEF StartPass
<1>3. /\ slot' = [slot EXCEPT ![a] = FreePass]
      /\ status' = [status EXCEPT ![a] = "syncing"]
  BY DEF StartPass
<1>4. /\ pass'[FreePass] =
           [account |-> a, stage |-> IF task[g].cancelled THEN "stopped" ELSE "asking",
            parent |-> IF task[g].cancelled THEN Nobody ELSE g,
            cancelled |-> task[g].cancelled, full |-> task[g].full, permit |-> TRUE,
            secret |-> task[g].secret]
      /\ \A p \in Passes \ {FreePass} : pass'[p] = pass[p]
  BY <1>1, <1>2 DEF StartPass, SyncTypes
<1>5. ASSUME NEW b \in Accounts \ {a}
      PROVE  Untouched(b)
  <2>1. slot'[b] = slot[b] /\ status'[b] = status[b]
    BY <1>1, <1>3 DEF SyncTypes
  <2>2. slot[b] # Nobody => slot[b] \in Passes \ {FreePass}
    BY <1>1, <1>2, RunningHasPass DEF SlotHasPass
  <2> QED
    BY <1>4, <2>1, <2>2 DEF Untouched
<1>6. slot'[a] = FreePass
  BY <1>1, <1>3 DEF SyncTypes
<1> QED
  BY <1>2, <1>3, <1>4, <1>5, <1>6

-----------------------------------------------------------------------------
(***************************************************************************)
(* No account is given up for the sake of an obsolete password.            *)
(***************************************************************************)
Excused(a) ==
  a \in restarts \/ command.account = a \/ store[incoming[a]] # "current" \/ a \in misled

\* The worker has ended, or will read that its pass has failed for good, or waits for a
\* pass that will.
Doomed(a) ==
  LET t == task[workers[a]] IN
  \/ t.stage = "exited"
  \/ /\ t.refresher = "wait"
     /\ IF slot[a] = Nobody THEN status[a] = "fatal"
          ELSE pass[slot[a]].stage = "asking" /\ pass[slot[a]].secret = "old"

BlockInv ==
  /\ blocked \subseteq HadRow
  /\ \A a \in blocked \cap Listed : Excused(a)
  /\ \A a \in Registered \cap Listed : Doomed(a) => Excused(a)

\* A step that dooms only who is excused keeps the invariant, unless it is the one that
\* forgets the restarts.
LEMMA ExcusesLast ==
  ASSUME SessionInv, BlockInv, AccountsKept, restarts \subseteq restarts',
         misled \subseteq misled', Registered' \subseteq HadRow, blocked' \subseteq HadRow,
         \A a \in blocked' \cap Listed :
           a \in blocked \/ (a \in Registered /\ Doomed(a)),
         \A a \in Registered' \cap Listed' :
           Doomed(a)' => (a \in Registered /\ Doomed(a)) \/ Excused(a) \/ Excused(a)'
  PROVE  BlockInv'
<1>1. ASSUME NEW a \in HadRow \cap Listed', Excused(a)
      PROVE  Excused(a)'
  BY <1>1 DEF Excused, AccountsKept
<1>2. ASSUME NEW a \in blocked' \cap Listed'
      PROVE  Excused(a)'
  <2>1. a \in HadRow /\ a \in Listed
    BY <1>2 DEF AccountsKept
  <2> QED
    BY <1>1, <1>2, <2>1 DEF BlockInv
<1>3. ASSUME NEW a \in Registered' \cap Listed', Doomed(a)'
      PROVE  Excused(a)'
  <2>1. a \in HadRow /\ a \in Listed
    BY <1>3 DEF AccountsKept
  <2> QED
    BY <1>1, <1>3, <2>1 DEF BlockInv
<1>4. blocked' \subseteq HadRow'
  BY DEF AccountsKept
<1> QED
  BY <1>2, <1>3, <1>4 DEF BlockInv

\* A step that brings no failure to the account.
SameFate(a) ==
  /\ slot'[a] = slot[a]
  /\ status'[a] = status[a] \/ status'[a] # "fatal"
  /\ LET p == slot[a] IN
     p # Nobody /\ pass'[p].stage = "asking" /\ pass'[p].secret = "old" =>
       pass[p].stage = "asking" /\ pass[p].secret = "old"

LEMMA FateIsKept ==
  ASSUME NEW a, SameFate(a), workers'[a] = workers[a],
         LET g == workers[a] IN
           /\ task'[g].stage = "exited" => task[g].stage = "exited"
           /\ task'[g].refresher = "wait" => task[g].refresher = "wait"
  PROVE  Doomed(a)' => Doomed(a)
BY DEF SameFate, Doomed

LEMMA UntouchedFate ==
  ASSUME NEW a, Untouched(a)
  PROVE  SameFate(a)
BY DEF Untouched, SameFate

LEMMA BlockInit == Init => BlockInv
BY DEF Init, BlockInv, Registered

\* Commands: a new pass begins only in an account that is restarted, and a cancelled one
\* leaves no failure.
LEMMA CommandBlock ==
  ASSUME SessionInv, BlockInv, PassInv, AccountsInv, WorkerInv, Command
  PROVE  BlockInv'
<1>1. /\ AccountsKept /\ restarts \subseteq restarts'
      /\ UNCHANGED <<workers, blocked, misled, task>>
  BY CommandKeeps
<1>3. \A a \in Accounts :
        SameFate(a) \/ a \in restarts' \/ (slot'[a] = Nobody /\ status'[a] # "fatal")
  BY CommandSlots, UntouchedFate
<1>4. ASSUME NEW a \in Registered, Doomed(a)'
      PROVE  Doomed(a) \/ Excused(a)'
  <2>1. CASE SameFate(a)
    BY <1>1, <1>4, <2>1, FateIsKept
  <2>2. CASE a \in restarts'
    BY <2>2 DEF Excused
  <2>3. CASE slot'[a] = Nobody /\ status'[a] # "fatal"
    BY <1>1, <1>4, <2>3 DEF Doomed
  <2> QED
    BY <1>3, <1>4, <2>1, <2>2, <2>3 DEF Registered
<1>5. Registered' = Registered /\ Registered \subseteq HadRow /\ blocked \subseteq HadRow
  BY <1>1 DEF Registered, SessionInv, BlockInv
<1> QED
  BY <1>1, <1>4, <1>5, ExcusesLast

\* The supervisor blocks the account of a worker that has ended, and forgets the restarts
\* together with what they excuse.
LEMMA SupervisorBlock ==
  ASSUME SessionInv, BlockInv, PassInv, AccountsInv, WorkerInv, Supervisor
  PROVE  BlockInv'
<1>1. UNCHANGED <<accountVars, slot, status>>
  BY DEF Supervisor, BeginRound, Reconcile, RecordWorkerExit
<1>2. SyncTypes /\ SlotHasPass /\ WorkerTypes
  BY TypesApart DEF PassInv
<1>3. AccountsKept
  BY <1>1, AccountsStutter
<1>4. \A p \in Running : pass'[p].stage = pass[p].stage /\ pass'[p].secret = pass[p].secret
  <2>1. \A S \in SUBSET Registered : {workers[a] : a \in S} \in SUBSET Generations
    BY <1>2 DEF WorkerTypes, Registered
  <2>2. CASE UNCHANGED pass
    BY <2>2
  <2>3. CASE \/ \E G \in SUBSET Generations : CancelChildren(G)
             \/ \E g \in Generations :
                  pass' = [p \in Passes |->
                             IF p \in Running /\ pass[p].parent = g
                               THEN [pass[p] EXCEPT !.parent = Nobody] ELSE pass[p]]
    BY <1>1, <1>2, <2>3, ParentGoes
  <2>4. CASE BeginRound
    BY <2>1, <2>2, <2>3, <2>4 DEF BeginRound
  <2>5. CASE Reconcile
    <3> DEFINE stop == {a \in Registered : ~allowed \/ a \in restarts \/ a \notin desired}
    <3>1. CancelChildren({workers[a] : a \in stop})
      BY <2>5 DEF Reconcile
    <3>2. stop \in SUBSET Registered
      OBVIOUS
    <3> HIDE DEF stop
    <3> QED
      BY <2>1, <2>3, <3>1, <3>2
  <2>6. CASE \E g \in Generations : RecordWorkerExit(g)
    BY <2>2, <2>3, <2>6 DEF RecordWorkerExit
  <2> QED
    BY <2>4, <2>5, <2>6 DEF Supervisor
<1>5. \A a \in Accounts : SameFate(a)
  BY <1>1, <1>2, <1>4 DEF SameFate, SlotHasPass
<1>6. Registered' \subseteq HadRow /\ blocked \subseteq HadRow /\ Registered \subseteq HadRow
  <2>1. SessionInv'
    BY BeginRoundSession, ReconcileSession, ExitSession DEF Supervisor
  <2> QED
    BY <1>1, <2>1 DEF SessionInv, BlockInv, HadRow, accountVars
<1>7. CASE BeginRound
  <2>1. UNCHANGED <<blocked, misled, restarts>>
    BY <1>7 DEF BeginRound
  <2>2. ASSUME NEW a \in Registered'
        PROVE  a \in Registered /\ workers'[a] = workers[a] /\ task' = task
    BY <1>7, <2>2 DEF BeginRound, Registered
  <2>3. \A a \in Registered' : Doomed(a)' => a \in Registered /\ Doomed(a)
    BY <1>5, <2>2, FateIsKept DEF Registered
  <2> QED
    BY <1>3, <1>6, <2>1, <2>3, ExcusesLast
<1>8. ASSUME NEW g \in Generations, RecordWorkerExit(g)
      PROVE  BlockInv'
  <2>1. /\ UNCHANGED <<misled, restarts>> /\ task[g].stage = "exited"
        /\ blocked' = IF workers[task[g].account] = g THEN blocked \cup {task[g].account}
                                                      ELSE blocked
        /\ task[g].account \in Accounts /\ g # Nobody
    BY <1>2, <1>8, LiveHasTask, RealtimeAssumption DEF RecordWorkerExit, Wake
  <2>2. \A a \in blocked' : a \in blocked \/ (a \in Registered /\ Doomed(a))
    BY <2>1 DEF Registered, Doomed
  <2>3. \A a \in Registered' : /\ a \in Registered /\ workers'[a] = workers[a]
                               /\ task'[workers[a]] = task[workers[a]]
    BY <1>8, ExitKeepsOthers
  <2>4. \A a \in Registered' : Doomed(a)' => a \in Registered /\ Doomed(a)
    BY <1>5, <2>3, FateIsKept DEF Registered
  <2> QED
    BY <1>3, <1>6, <2>1, <2>2, <2>4, ExcusesLast
<1>9. CASE Reconcile
  <2>1. /\ blocked' \subseteq blocked \ restarts /\ misled' = misled \ restarts
    BY <1>9 DEF Reconcile
  <2>2. \A a : Excused(a) /\ a \notin restarts => Excused(a)'
    BY <1>1, <2>1 DEF Excused, accountVars
  <2>3. ASSUME NEW a \in Registered' \cap Listed', Doomed(a)'
        PROVE  Excused(a)'
    <3>1. \/ task'[workers'[a]].stage = "start" /\ task'[workers'[a]].refresher = "off"
          \/ /\ a \notin restarts /\ a \in Registered /\ workers'[a] = workers[a]
             /\ task'[workers[a]] = task[workers[a]]
      BY <1>9, <2>3, ReconcileKeepsOthers
    <3>2. /\ a \notin restarts /\ a \in Registered /\ workers'[a] = workers[a]
          /\ task'[workers[a]] = task[workers[a]]
      BY <2>3, <3>1 DEF Doomed
    <3>3. Doomed(a) /\ a \in Listed
      BY <1>1, <1>5, <2>3, <3>2, FateIsKept DEF Registered, Listed, accountVars
    <3> QED
      BY <2>2, <3>2, <3>3 DEF BlockInv
  <2>4. blocked' \subseteq HadRow' /\ Listed' = Listed
    BY <1>1, <1>6, <2>1 DEF HadRow, Listed, accountVars
  <2> QED
    BY <2>1, <2>2, <2>3, <2>4 DEF BlockInv
<1> QED
  BY <1>7, <1>8, <1>9 DEF Supervisor

\* A step of one task: it may end only when its account is gone or excused.
LEMMA OneTaskBlock ==
  ASSUME SessionInv, BlockInv, WorkerInv, AccountsKept, NEW g \in Live, NEW t,
         NEW owner \in Accounts, owner = task[g].account,
         TaskStep(g, t), UNCHANGED <<workers, blocked>>,
         restarts \subseteq restarts', misled \subseteq misled',
         \A b \in Accounts \cap Listed' : SameFate(b),
         \/ task[g].cancelled
         \/ /\ t.stage = "exited" =>
                 \/ task[g].stage = "exited" \/ owner \notin Listed'
                 \/ Excused(owner) \/ Excused(owner)'
            /\ t.refresher = "wait" => task[g].refresher = "wait"
  PROVE  BlockInv'
<1>1. g \in Generations /\ \A h \in Generations : task'[h] = IF h = g THEN t ELSE task[h]
  BY LiveHasTask DEF TaskStep, WorkerInv, WorkerTypes
<1>2. ASSUME NEW a \in Registered \cap Listed', Doomed(a)'
      PROVE  Doomed(a) \/ Excused(a) \/ Excused(a)'
  <2>1. /\ workers[a] \in Live /\ workers[a] \in Generations
        /\ task[workers[a]].account = a /\ ~task[workers[a]].cancelled /\ a \in Accounts
    BY <1>2, LiveHasTask DEF WorkerInv, WorkerIsRegistered, Registered
  <2>2. CASE workers[a] # g
    BY <1>1, <1>2, <2>1, <2>2, FateIsKept
  <2>3. CASE workers[a] = g /\ t.stage = "exited" /\ task[g].stage # "exited"
    BY <1>2, <2>1, <2>3
  <2>4. CASE workers[a] = g /\ (t.stage = "exited" => task[g].stage = "exited")
    BY <1>1, <1>2, <2>1, <2>4, FateIsKept
  <2> QED
    BY <2>2, <2>3, <2>4
<1>3. Registered' = Registered /\ Registered \subseteq HadRow /\ blocked \subseteq HadRow
  BY DEF Registered, SessionInv, BlockInv
<1> QED
  BY <1>2, <1>3, ExcusesLast

\* A worker that nobody has cancelled and that holds an obsolete session is excused.
LEMMA OldSessionIsExcused ==
  ASSUME SessionInv, WorkerInv, NEW g \in Live, ~task[g].cancelled,
         task[g].account \in Listed,
         \/ task[g].stage = "running" /\ task[g].secret = "old"
         \/ task[g].stage = "secret" /\ store[loading[g]] = "none"
  PROVE  Excused(task[g].account)
<1>1. workers[task[g].account] = g /\ task[g].account \in Registered
  BY LiveHasTask, RealtimeAssumption DEF WorkerInv, WorkerIsRegistered, Registered
<1>2. InOrder(task[g].account)
  BY <1>1 DEF SessionInv
<1> QED
  BY <1>1, <1>2 DEF InOrder, SessionAgrees, Excused

\* The steps of a worker but the start of a pass.
LEMMA WorkerBlock ==
  ASSUME SessionInv, BlockInv, PassInv, AccountsInv, WorkerInv, NEW g \in Generations,
         \/ ListenerStep(g) \/ ListenerFails(g) \/ WorkerCancelled(g)
         \/ TryAgain(g) \/ PassFinished(g) \/ RefreshAgain(g) \/ RefreshOnSignal(g)
         \/ \E full \in BOOLEAN : RefreshOnTimer(g, full)
  PROVE  BlockInv'
<1>0. PICK a \in Accounts : a = task[g].account
  <2>1. g \in Live
    BY DEF ListenerStep, LoadRef, LoadSecret, Connect, ConnectRejected, ListenerRetries,
           Notice, ListenerFails, WorkerCancelled, TryAgain, PassFinished, RefreshAgain,
           RefreshOnSignal, RefreshOnTimer, Listening, Refreshing
  <2> QED
    BY <2>1, LiveHasTask DEF WorkerInv
<1> DEFINE u == task[g]
           Passable(t) ==
             \/ u.cancelled
             \/ /\ t.stage = "exited" =>
                     u.stage = "exited" \/ a \notin Listed' \/ Excused(a) \/ Excused(a)'
                /\ t.refresher = "wait" => u.refresher = "wait"
<1>1. /\ UNCHANGED <<workers, blocked, restarts, slot, pass, state, command, incoming, store>>
      /\ misled \subseteq misled' /\ g \in Live
  BY DEF ListenerStep, LoadRef, LoadSecret, Connect, ConnectRejected, ListenerRetries,
         Notice, ListenerFails, WorkerCancelled, TryAgain, PassFinished, RefreshAgain,
         RefreshOnSignal, RefreshOnTimer, Listening, Refreshing, ReadRef, ReadSecret,
         TaskOnly, supervisorVars, coordinatorVars, syncVars, accountVars
<1>2. u \in Task /\ a = u.account
  BY <1>0, <1>1, LiveHasTask DEF WorkerInv
<1>3. AccountsKept /\ Listed' = Listed
  BY <1>1 DEF AccountsKept, SessionInv, HadRow, Listed
<1>4. \A b \in Accounts : SameFate(b)
  <2>1. \/ UNCHANGED status
        \/ \E b, problem : problem # "fatal" /\ status' = [status EXCEPT ![b] = problem]
    BY DEF ListenerStep, LoadRef, LoadSecret, Connect, ConnectRejected, ListenerRetries,
           Notice, ListenerFails, WorkerCancelled, TryAgain, PassFinished, RefreshAgain,
           RefreshOnSignal, RefreshOnTimer, Report, TaskOnly, syncVars
  <2>2. status \in [Accounts -> Status]
    BY TypesApart DEF PassInv, SyncTypes
  <2>3. \A b \in Accounts : status'[b] = status[b] \/ status'[b] # "fatal"
    BY <2>1, <2>2
  <2> QED
    BY <1>1, <2>3 DEF SameFate
<1>5. (\/ a \notin Listed \/ Excused(a) \/ Excused(a)') => Passable(Ended(g))
  BY <1>3 DEF Ended, TaskAt
<1>6. u.cancelled => Passable(NoTask)
  OBVIOUS
<1>7. /\ Passable([u EXCEPT !.stage = "secret"])
      /\ \A secret : Passable([u EXCEPT !.stage = "running", !.listener = "connect",
                                         !.refresher = "permit", !.secret = secret])
      /\ \A r : r # "wait" => Passable([u EXCEPT !.refresher = r])
  BY <1>2 DEF Task
<1>8. /\ \A l : Passable([u EXCEPT !.listener = l])
      /\ Passable([u EXCEPT !.listener = "idle", !.signal = TRUE])
      /\ Passable([u EXCEPT !.listener = "retry", !.told = FALSE])
      /\ Passable([u EXCEPT !.told = FALSE, !.signal = TRUE])
  BY <1>2 DEF Task
<1>9. /\ \A full : Passable(Wants(u, full))
      /\ \A full : Passable([Wants(u, full) EXCEPT !.signal = FALSE])
  BY <1>2 DEF Task, Wants
<1>10. u.cancelled => Passable(Ended(g))
  OBVIOUS
<1> HIDE DEF Passable
<1>11. \E t : TaskStep(g, t) /\ Passable(t)
  <2>1. CASE LoadRef(g)
    BY <1>0, <1>5, <1>7, <2>1 DEF LoadRef
  <2>2. CASE LoadSecret(g)
    <3>1. store[loading[g]] = "none" => Passable(Ended(g))
      BY <1>0, <1>1, <1>5, <1>10, <2>2, OldSessionIsExcused DEF LoadSecret
    <3> QED
      BY <1>6, <1>7, <2>2, <3>1 DEF LoadSecret
  <2>3. CASE ConnectRejected(g)
    <3>1. u.stage = "running" /\ u.secret = "old"
      BY <1>1, <2>3 DEF ConnectRejected, Listening, PassInv, SessionBeforeWork
    <3>2. Passable(Ended(g))
      BY <1>0, <1>1, <1>5, <1>10, <3>1, OldSessionIsExcused
    <3> QED
      BY <2>3, <3>2 DEF ConnectRejected
  <2>4. CASE Connect(g) \/ ListenerRetries(g) \/ Notice(g) \/ ListenerFails(g)
             \/ WorkerCancelled(g)
    BY <1>6, <1>8, <2>4
       DEF Connect, ListenerRetries, Notice, ListenerFails, WorkerCancelled
  <2>5. CASE TryAgain(g) \/ RefreshAgain(g)
    BY <1>7, <2>5 DEF TryAgain, RefreshAgain
  <2>6. CASE RefreshOnSignal(g) \/ \E full \in BOOLEAN : RefreshOnTimer(g, full)
    BY <1>9, <2>6 DEF RefreshOnSignal, RefreshOnTimer
  <2>7. CASE PassFinished(g)
    <3>1. u.refresher = "wait" /\ slot[a] = Nobody
      BY <1>0, <2>7 DEF PassFinished, Refreshing
    <3>2. status[a] = "unavailable" => Excused(a)'
      BY <1>0, <2>7 DEF PassFinished, Excused
    <3>3. status[a] = "fatal" /\ ~u.cancelled /\ a \in Listed => Excused(a)
      <4>1. ~u.cancelled => workers[a] = g /\ a \in Registered
        BY <1>1, <1>2, RealtimeAssumption DEF WorkerInv, WorkerIsRegistered, Registered
      <4> QED
        BY <3>1, <4>1 DEF Doomed, BlockInv
    <3>4. status[a] \in {"fatal", "unavailable"} => Passable(Ended(g))
      BY <1>5, <1>10, <3>2, <3>3
    <3> QED
      BY <1>0, <1>7, <2>7, <3>4 DEF PassFinished
  <2> QED
    BY <2>1, <2>2, <2>3, <2>4, <2>5, <2>6, <2>7 DEF ListenerStep
<1> QED
  BY <1>0, <1>1, <1>3, <1>4, <1>11, OneTaskBlock DEF Passable

\* A worker whose account is in order starts a pass with a password that is accepted; the
\* pass of a cancelled one stops before it asks.
LEMMA StartPassBlock ==
  ASSUME SessionInv, BlockInv, PassInv, AccountsInv, WorkerInv, NEW g \in Generations,
         StartPass(g)
  PROVE  BlockInv'
<1>1. /\ UNCHANGED <<accountVars, workers, blocked, misled, restarts>> /\ g \in Live
      /\ task[g].refresher = "permit"
  BY DEF StartPass, Refreshing, supervisorVars, coordinatorVars, Wake
<1>2. PICK a \in Accounts : a = task[g].account /\ task[g] \in Task
  BY <1>1, LiveHasTask DEF WorkerInv
<1>3. AccountsKept /\ Listed' = Listed
  BY <1>1, AccountsStutter DEF Listed, accountVars
<1>4. SyncTypes /\ SlotHasPass
  BY TypesApart DEF PassInv
<1>5. CASE slot[a] # Nobody \/ a \notin Listed
  <2>1. /\ UNCHANGED <<slot, pass>>
        /\ status' = status \/ (status' = [status EXCEPT ![a] = "fatal"] /\ a \notin Listed)
    BY <1>2, <1>5 DEF StartPass, syncVars
  <2>2. \A b \in Accounts \cap Listed' : SameFate(b)
    BY <1>3, <1>4, <2>1 DEF SameFate, SyncTypes
  <2>3. /\ [task[g] EXCEPT !.refresher = "behind"].stage = task[g].stage
        /\ [task[g] EXCEPT !.refresher = "behind"].refresher # "wait"
        /\ Ended(g).refresher # "wait" \/ task[g].cancelled
    BY <1>2 DEF Task, Ended, TaskAt
  <2>4. \E t : /\ TaskStep(g, t)
               /\ \/ task[g].cancelled
                  \/ /\ t.stage = "exited" => task[g].stage = "exited" \/ a \notin Listed'
                     /\ t.refresher # "wait"
    BY <1>2, <1>3, <1>5, <2>3 DEF StartPass
  <2> QED
    BY <1>1, <1>2, <1>3, <2>2, <2>4, OneTaskBlock
<1>6. CASE slot[a] = Nobody /\ a \in Listed
  <2> DEFINE t == IF task[g].cancelled THEN NoTask ELSE [task[g] EXCEPT !.refresher = "wait"]
  <2>1. TaskStep(g, t)
    BY <1>2, <1>6 DEF StartPass
  <2>2. FreePass # Nobody
    BY <1>1, <1>2, <1>6, StartPassSlots
  <2>3. /\ pass'[FreePass].stage = "asking" => ~task[g].cancelled
        /\ pass'[FreePass].secret = task[g].secret
    <3>1. pass'[FreePass] =
            [account |-> a, stage |-> IF task[g].cancelled THEN "stopped" ELSE "asking",
             parent |-> IF task[g].cancelled THEN Nobody ELSE g,
             cancelled |-> task[g].cancelled, full |-> task[g].full, permit |-> TRUE,
             secret |-> task[g].secret]
      BY <1>1, <1>2, <1>6, StartPassSlots
    <3>2. /\ pass'[FreePass].stage = IF task[g].cancelled THEN "stopped" ELSE "asking"
          /\ pass'[FreePass].secret = task[g].secret
      BY <3>1
    <3> QED
      BY <3>2
  <2>4. slot'[a] = FreePass /\ \A b \in Accounts \ {a} : SameFate(b)
    BY <1>1, <1>2, <1>6, StartPassSlots, UntouchedFate
  <2>5. \A h \in Generations : task'[h] = IF h = g THEN t ELSE task[h]
    BY <1>4, <2>1 DEF TaskStep, WorkerInv, WorkerTypes
  <2>6. ~task[g].cancelled => t.stage = task[g].stage
    BY <1>2 DEF Task
  <2> HIDE DEF t
  <2>7. ASSUME NEW b \in Registered \cap Listed', Doomed(b)'
        PROVE  Doomed(b) \/ Excused(b)
    <3>1. /\ b \in Accounts /\ workers[b] \in Live /\ workers[b] \in Generations
          /\ task[workers[b]].account = b /\ ~task[workers[b]].cancelled
      BY <2>7, LiveHasTask DEF WorkerInv, WorkerIsRegistered, Registered
    <3>2. CASE b # a
      <4>1. workers[b] # g
        BY <1>2, <3>1, <3>2
      <4> QED
        BY <1>1, <2>4, <2>5, <2>7, <3>1, <3>2, <4>1, FateIsKept
    <3>3. CASE b = a
      <4>1. CASE task[workers[a]].stage = "exited"
        BY <3>3, <4>1 DEF Doomed
      <4>2. CASE task[workers[a]].stage # "exited"
        <5>1. task'[workers[a]].stage # "exited"
          <6>1. CASE workers[a] = g
            BY <2>5, <2>6, <3>1, <3>3, <4>2, <6>1
          <6>2. CASE workers[a] # g
            BY <2>5, <3>1, <3>3, <4>2, <6>2
          <6> QED
            BY <6>1, <6>2
        <5>2. ~task[g].cancelled /\ task[g].secret = "old"
          BY <1>1, <2>2, <2>3, <2>4, <2>7, <3>3, <5>1 DEF Doomed
        <5>3. task[g].stage = "running"
          BY <1>1 DEF PassInv, SessionBeforeWork
        <5> QED
          BY <1>1, <1>2, <1>6, <3>3, <5>2, <5>3, OldSessionIsExcused
      <4> QED
        BY <4>1, <4>2
    <3> QED
      BY <3>2, <3>3
  <2>8. Registered' = Registered /\ Registered \subseteq HadRow /\ blocked \subseteq HadRow
    BY <1>1 DEF Registered, SessionInv, BlockInv
  <2> QED
    BY <1>1, <1>3, <2>7, <2>8, ExcusesLast
<1> QED
  BY <1>5, <1>6

\* Steps that leave the workers alone, and fail only passes that were doomed.
LEMMA PassesBlock ==
  ASSUME SessionInv, BlockInv, WorkerInv, AccountsKept, UNCHANGED <<workers, blocked, misled>>,
         restarts \subseteq restarts',
         \A g \in Live : task'[g].stage = task[g].stage
                         /\ task'[g].refresher = task[g].refresher,
         \A a \in Registered \cap Listed' :
           \/ SameFate(a) \/ Excused(a)'
           \/ /\ slot[a] # Nobody /\ slot'[a] = Nobody
              /\ status'[a] = "fatal" =>
                   pass[slot[a]].stage = "asking" /\ pass[slot[a]].secret = "old"
  PROVE  BlockInv'
<1>1. ASSUME NEW a \in Registered \cap Listed', Doomed(a)'
      PROVE  Doomed(a) \/ Excused(a)'
  <2>1. workers[a] \in Live
    BY <1>1 DEF WorkerInv, WorkerIsRegistered
  <2>2. CASE SameFate(a)
    BY <1>1, <2>1, <2>2, FateIsKept
  <2>3. CASE /\ slot[a] # Nobody /\ slot'[a] = Nobody
             /\ status'[a] = "fatal" =>
                  pass[slot[a]].stage = "asking" /\ pass[slot[a]].secret = "old"
    BY <1>1, <2>1, <2>3 DEF Doomed
  <2> QED
    BY <1>1, <2>2, <2>3
<1>2. Registered' = Registered /\ Registered \subseteq HadRow /\ blocked \subseteq HadRow
  BY DEF Registered, SessionInv, BlockInv
<1> QED
  BY <1>1, <1>2, ExcusesLast

\* The end of a pass: only one that the server refused for an old password, or whose
\* account is gone, fails for good.
LEMMA PassBlock ==
  ASSUME SessionInv, BlockInv, PassInv, AccountsInv, WorkerInv, NEW p \in Passes,
         PassStep(p) \/ PassFails(p)
  PROVE  BlockInv'
<1>1. UNCHANGED <<accountVars, workers, blocked, misled, task, restarts>>
  BY DEF PassStep, PassFails, StopPass, ReadFolders, CompletePass, PassRejected, FinishPass,
         Wake, supervisorVars, coordinatorVars
<1>2. AccountsKept /\ Listed' = Listed
  BY <1>1, AccountsStutter DEF Listed, accountVars
<1>3. SyncTypes /\ SlotHasPass
  BY TypesApart DEF PassInv
<1>4. p \in Running /\ pass[p] \in Pass
  BY <1>3, RunningHasPass DEF PassStep, PassFails, StopPass, ReadFolders, CompletePass,
                              PassRejected, PassAt
<1>5. CASE ReadFolders(p)
  <2>1. UNCHANGED <<slot, status>> /\ pass' = [pass EXCEPT ![p] = [pass[p] EXCEPT !.stage = "read"]]
    BY <1>5 DEF ReadFolders
  <2>2. \A q \in Passes : pass'[q] = pass[q] \/ pass'[q].stage = "read"
    BY <1>3, <1>4, <2>1 DEF SyncTypes, Pass
  <2>3. \A a \in Accounts : SameFate(a)
    BY <1>3, <2>1, <2>2, RunningHasPass DEF SameFate, SlotHasPass
  <2> QED
    BY <1>1, <1>2, <2>3, PassesBlock DEF Registered
<1>6. CASE ~ReadFolders(p)
  <2>1. PICK result \in Status :
          /\ FinishPass(p, result)
          /\ result = "fatal" => \/ pass[p].account \notin Listed
                                 \/ pass[p].stage = "asking" /\ pass[p].secret = "old"
    BY <1>6 DEF PassStep, PassFails, StopPass, CompletePass, PassRejected, PassAt, Status
  <2>2. ASSUME NEW a \in Registered \cap Listed'
        PROVE  \/ SameFate(a)
               \/ /\ slot[a] # Nobody /\ slot'[a] = Nobody
                  /\ status'[a] = "fatal" =>
                       pass[slot[a]].stage = "asking" /\ pass[slot[a]].secret = "old"
    <3>1. a \in Accounts /\ a \in Listed
      BY <1>2, <2>2 DEF Registered
    <3> QED
      BY <1>4, <2>1, <3>1, FinishPassSlots, UntouchedFate
  <2> QED
    BY <1>1, <1>2, <2>2, PassesBlock
<1> QED
  BY <1>5, <1>6

\* When the password changes, passes with the old one and the secret of the account age
\* together.
LEMMA ServerBlock ==
  ASSUME SessionInv, BlockInv, PassInv, AccountsInv, WorkerInv, NEW b \in Accounts,
         ChangePassword(b) \/ MailChanges(b)
  PROVE  BlockInv'
<1>1. /\ UNCHANGED <<workers, blocked, misled, restarts, slot, status, state, incoming, command>>
  BY DEF ChangePassword, PasswordChanges, MailChanges, supervisorVars, coordinatorVars,
         accountVars
<1>2. SyncTypes /\ SlotHasPass /\ Listed' = Listed
  BY <1>1, TypesApart DEF PassInv, Listed
<1>3. \A r \in Refs : store'[r] = "current" => store[r] = "current"
  BY DEF ChangePassword, PasswordChanges, MailChanges, accountVars
<1>4. AccountsKept
  BY <1>1, <1>2, <1>3, IncomingIsItsOwn DEF AccountsKept, SessionInv, HadRow
<1>5. ASSUME NEW g \in Live
      PROVE  task'[g].stage = task[g].stage /\ task'[g].refresher = task[g].refresher
  <2> DEFINE t == [task[g] EXCEPT !.secret = "old"]
             u == [task[g] EXCEPT !.told = TRUE]
  <2>1. g \in Generations /\ task[g] \in Task
    BY LiveHasTask DEF WorkerInv
  <2>2. task'[g] = task[g] \/ task'[g] = t \/ task'[g] = u
    BY <2>1 DEF ChangePassword, MailChanges
  <2>3. /\ t.stage = task[g].stage /\ t.refresher = task[g].refresher
        /\ u.stage = task[g].stage /\ u.refresher = task[g].refresher
    BY <2>1 DEF Task
  <2> QED
    BY <2>2, <2>3
<1>6. ASSUME NEW a \in Registered \cap Listed'
      PROVE  SameFate(a) \/ Excused(a)'
  <2> DEFINE p == slot[a]
             q == [pass[p] EXCEPT !.secret = "old"]
             r == [pass[p] EXCEPT !.stage = "outdated"]
  <2>1. a \in Accounts /\ a \in Listed /\ incoming[a] \in Refs /\ incoming[a] \in RefsOf(a)
    BY <1>2, <1>6, IncomingIsItsOwn DEF Registered
  <2>2. p # Nobody => p \in Passes /\ pass[p] \in Pass /\ pass[p].account = a
    BY <1>2, <2>1, RunningHasPass DEF SlotHasPass
  <2>3. p # Nobody => /\ r.stage = "outdated"
                      /\ \/ pass'[p] = pass[p] \/ pass'[p] = r
                         \/ ChangePassword(b) /\ Address[a] = Address[b]
    BY <2>2 DEF ChangePassword, MailChanges, Pass
  <2>4. ChangePassword(b) /\ Address[a] = Address[b] => store'[incoming[a]] # "current"
    BY <2>1 DEF ChangePassword, PasswordChanges, SecretsFor
  <2>5. CASE ChangePassword(b) /\ Address[a] = Address[b]
    BY <1>1, <2>4, <2>5 DEF Excused
  <2>6. CASE ~(ChangePassword(b) /\ Address[a] = Address[b])
    BY <1>1, <2>3, <2>6 DEF SameFate
  <2> QED
    BY <2>5, <2>6
<1> QED
  BY <1>1, <1>4, <1>5, <1>6, PassesBlock

-----------------------------------------------------------------------------
\* The invariant of failures and blocked accounts.
THEOREM BlockInvHolds == Spec => []BlockInv
<1>1. BlockInv /\ SessionInv /\ PassInv /\ AccountsInv /\ WorkerInv /\ [Next]_vars
      => BlockInv'
  <2> SUFFICES ASSUME BlockInv, SessionInv, PassInv, AccountsInv, WorkerInv, [Next]_vars
               PROVE  BlockInv'
    OBVIOUS
  <2>1. CASE UNCHANGED vars \/ SetPlatformState
    <3>1. /\ UNCHANGED <<accountVars, workers, blocked, misled, task, restarts>>
          /\ UNCHANGED <<slot, status, pass>>
      BY <2>1 DEF vars, realtimeVars, supervisorVars, coordinatorVars, syncVars,
                  SetPlatformState
    <3>2. \A a : SameFate(a)
      BY <3>1 DEF SameFate
    <3> QED
      BY <3>1, <3>2, AccountsStutter, PassesBlock
  <2>2. CASE Supervisor
    BY <2>2, SupervisorBlock
  <2>3. CASE Command
    BY <2>3, CommandBlock
  <2>4. ASSUME NEW a \in Accounts, ChangePassword(a) \/ MailChanges(a)
        PROVE  BlockInv'
    BY <2>4, ServerBlock
  <2>5. ASSUME NEW p \in Passes, PassStep(p) \/ PassFails(p)
        PROVE  BlockInv'
    BY <2>5, PassBlock
  <2>6. ASSUME NEW g \in Generations,
               \/ ListenerStep(g) \/ ListenerFails(g) \/ WorkerCancelled(g)
               \/ RefresherStep(g) \/ RefreshOnTimer(g, TRUE)
        PROVE  BlockInv'
    BY <2>6, WorkerBlock, StartPassBlock DEF RefresherStep
  <2> QED
    BY <2>1, <2>2, <2>3, <2>4, <2>5, <2>6 DEF Next, Environment
<1>2. Spec => []AccountsInv
  BY RealtimeImplementsAccounts, AccountsInvHolds, PTL
<1> QED
  BY <1>1, <1>2, BlockInit, SessionInvHolds, PassInvHolds, WorkerInvHolds, PTL DEF Spec

\* No account is given up while the password it has is accepted: the failure of an obsolete
\* worker or of a pass with the old password blocks nothing, except through the status.
THEOREM GoodAccountIsNeverBlocked == Spec => []GoodAccountIsNotBlocked
<1>1. BlockInv => GoodAccountIsNotBlocked
  BY DEF BlockInv, HadRow, Listed, Excused, GoodAccountIsNotBlocked
<1> QED
  BY <1>1, BlockInvHolds, PTL

-----------------------------------------------------------------------------
(***************************************************************************)
(* What the listener has noticed leads to a full pass.                     *)
(***************************************************************************)
ParentIsRegistered ==
  \A p \in Running : pass[p].parent # Nobody => workers[pass[p].account] = pass[p].parent

FreeIsNotSyncing == \A a \in Accounts : slot[a] = Nobody => status[a] # "syncing"

Listens(a) ==
  /\ a \in changed \cap owed \cap Registered
  /\ task[workers[a]].stage = "running" /\ task[workers[a]].listener = "idle"

\* The worker has the news itself, or a full pass in mind.
Minds(t) == t.told \/ t.signal \/ (t.full /\ t.refresher \in {"permit", "behind", "retry"})

\* Or it waits for a full pass that will store what it reads, or has failed.
Reads(a) ==
  LET p == slot[a] IN
  IF p = Nobody THEN status[a] # "idle"
    ELSE pass[p].full /\ ~pass[p].cancelled /\ pass[p].stage \in {"asking", "read"}

Awaits(t) == t.full /\ t.refresher = "wait"

Noticed(a) ==
  Listens(a) =>
    \/ a \in restarts \/ Minds(task[workers[a]])
    \/ Awaits(task[workers[a]]) /\ Reads(a)

NoticeInv == ParentIsRegistered /\ FreeIsNotSyncing /\ \A a \in Accounts : Noticed(a)

LEMMA NoticeInit == Init => NoticeInv
<1> SUFFICES ASSUME Init PROVE NoticeInv
  OBVIOUS
<1>1. Running = {} /\ changed = {}
  BY DEF Init, Running
<1> QED
  BY <1>1 DEF Init, NoticeInv, ParentIsRegistered, FreeIsNotSyncing, Noticed, Listens

\* A free slot never says that a pass is running.
LEMMA FreeStep ==
  ASSUME PassInv, FreeIsNotSyncing, [Next]_vars
  PROVE  FreeIsNotSyncing'
<1>1. SyncTypes /\ SlotHasPass
  BY TypesApart DEF PassInv
<1> DEFINE Free(a) == (slot'[a] = slot[a] /\ status'[a] = status[a]) \/ slot'[a] # Nobody
                      \/ status'[a] # "syncing"
<1>2. CASE UNCHANGED <<slot, status>>
  BY <1>2 DEF FreeIsNotSyncing
<1>3. ASSUME NEW p \in Running, NEW result \in Status \ {"syncing"}, FinishPass(p, result),
             NEW a \in Accounts
      PROVE  Free(a)
  BY <1>3, FinishPassSlots DEF Untouched
<1>4. ASSUME NEW b, NEW problem, problem # "syncing", UNCHANGED slot,
             status' = status \/ status' = [status EXCEPT ![b] = problem], NEW a \in Accounts
      PROVE  Free(a)
  BY <1>1, <1>4 DEF SyncTypes
<1>5. ASSUME NEW b \in Accounts, CancelSlot(b), NEW a \in Accounts
      PROVE  Free(a)
  BY <1>1, <1>5 DEF CancelSlot, SyncTypes
<1>6. ASSUME NEW b \in Accounts, NEW p \in Passes, slot' = [slot EXCEPT ![b] = p],
             status' = [status EXCEPT ![b] = "syncing"], NEW a \in Accounts
      PROVE  Free(a)
  BY <1>1, <1>6, RealtimeAssumption DEF SyncTypes
<1>7. CASE \/ UNCHANGED vars \/ SetPlatformState \/ Supervisor \/ CommandStep
           \/ FinishRemoveAccount \/ UpdateSettings
           \/ \E a \in Accounts : \/ FinishCreateAccount(a) \/ PauseOrResume(a)
                                  \/ ChangePassword(a) \/ MailChanges(a)
                                  \/ \E secret \in {"old", "current"} :
                                       BeginUpdateCredentials(a, secret)
           \/ \E p \in Passes : ReadFolders(p)
  BY <1>2, <1>7
     DEF vars, realtimeVars, syncVars, SetPlatformState, Supervisor, CommandStep,
         FinishRemoveAccount, UpdateSettings, FinishCreateAccount, PauseOrResume,
         ChangePassword, MailChanges, BeginUpdateCredentials, ReadFolders, BeginRound,
         Reconcile, RecordWorkerExit
<1>8. CASE \E p \in Passes : StopPass(p) \/ CompletePass(p) \/ PassRejected(p) \/ PassFails(p)
  <2>1. PICK p \in Running, result \in Status \ {"syncing"} : FinishPass(p, result)
    BY <1>8 DEF StopPass, CompletePass, PassRejected, PassFails, PassAt, Status
  <2> QED
    BY <1>3, <2>1 DEF FreeIsNotSyncing
<1>9. CASE \E a \in Accounts : \/ CancelSync(a) \/ BeginRemoveAccount(a)
                               \/ FinishUpdateCredentials(a)
  BY <1>5, <1>9 DEF CancelSync, BeginRemoveAccount, FinishUpdateCredentials, FreeIsNotSyncing
<1>10. CASE \E a \in Accounts : StartSync(a)
  BY <1>6, <1>10, FreePassIsFree DEF StartSync, FreeIsNotSyncing
<1>11. ASSUME NEW g \in Generations,
              \/ ListenerStep(g) \/ RefresherStep(g) \/ RefreshOnTimer(g, TRUE)
              \/ WorkerCancelled(g) \/ ListenerFails(g)
       PROVE  FreeIsNotSyncing'
  <2>1. CASE StartPass(g)
    <3>1. task[g].account \in Accounts
      BY <2>1, LiveHasTask, TypesApart DEF StartPass, Refreshing, PassInv
    <3>2. \/ UNCHANGED <<slot, status>>
          \/ UNCHANGED slot /\ status' = [status EXCEPT ![task[g].account] = "fatal"]
          \/ /\ Running # Passes /\ slot' = [slot EXCEPT ![task[g].account] = FreePass]
             /\ status' = [status EXCEPT ![task[g].account] = "syncing"]
      BY <2>1 DEF StartPass, syncVars
    <3>3. \A a \in Accounts : Free(a)
      BY <1>4, <1>6, <3>1, <3>2, FreePassIsFree
    <3> QED
      BY <3>3 DEF FreeIsNotSyncing
  <2>2. CASE ~StartPass(g)
    <3>1. /\ UNCHANGED slot
          /\ \/ UNCHANGED status
             \/ \E b, problem :
                  problem # "syncing" /\ status' = [status EXCEPT ![b] = problem]
      BY <1>11, <2>2
         DEF ListenerStep, LoadRef, LoadSecret, Connect, ConnectRejected, ListenerRetries,
             Notice, ListenerFails, WorkerCancelled, RefresherStep, TryAgain, PassFinished,
             RefreshAgain, RefreshOnSignal, RefreshOnTimer, Report, TaskOnly, syncVars
    <3> QED
      BY <1>2, <1>4, <3>1 DEF FreeIsNotSyncing
  <2> QED
    BY <2>1, <2>2
<1> QED
  BY <1>7, <1>8, <1>9, <1>10, <1>11 DEF Next, Environment, Command, PassStep

\* Steps that leave the workers and, of the passes, the parents alone or take them away.
LEMMA ParentsLast ==
  ASSUME ParentIsRegistered, UNCHANGED workers, pass' = [p \in Passes |-> pass'[p]],
         \A p \in Passes :
           \/ pass'[p] = pass[p] \/ pass'[p] = NoPass
           \/ p \in Running /\ pass'[p].account = pass[p].account
              /\ pass'[p].parent = pass[p].parent
           \/ pass'[p].parent \in {Nobody, workers[pass'[p].account]}
  PROVE  ParentIsRegistered'
BY DEF ParentIsRegistered, Running

\* The parent of a pass is the worker of its account: who loses the worker loses the parent.
LEMMA ParentStep ==
  ASSUME PassInv, WorkerInv, ParentIsRegistered, [Next]_vars
  PROVE  ParentIsRegistered'
<1>1. SyncTypes /\ SlotHasPass
  BY TypesApart DEF PassInv
<1>2. CASE UNCHANGED <<workers, pass>>
  BY <1>2 DEF ParentIsRegistered, Running
<1>3. ASSUME NEW p \in Running, NEW q \in Pass, q.account = pass[p].account,
             q.parent = pass[p].parent
      PROVE  q # NoPass
  BY <1>1, <1>3, RunningHasPass, AccountsAssumption DEF NoPass
<1>4. CASE \/ UNCHANGED vars \/ SetPlatformState \/ CommandStep
           \/ FinishRemoveAccount \/ UpdateSettings
           \/ \E a \in Accounts : \/ FinishCreateAccount(a) \/ PauseOrResume(a)
                                  \/ \E secret \in {"old", "current"} :
                                       BeginUpdateCredentials(a, secret)
  BY <1>2, <1>4
     DEF vars, realtimeVars, syncVars, supervisorVars, SetPlatformState, CommandStep,
         FinishRemoveAccount, UpdateSettings, FinishCreateAccount, PauseOrResume,
         BeginUpdateCredentials
<1>5. ASSUME NEW p \in Passes, PassStep(p) \/ PassFails(p)
      PROVE  ParentIsRegistered'
  <2>1. p \in Running /\ pass[p] \in Pass /\ UNCHANGED workers
    BY <1>1, <1>5, RunningHasPass
       DEF PassStep, PassFails, StopPass, ReadFolders, CompletePass, PassRejected, PassAt,
           supervisorVars
  <2> DEFINE q == [pass[p] EXCEPT !.stage = "read"]
  <2>2. q.account = pass[p].account /\ q.parent = pass[p].parent
    BY <2>1 DEF Pass
  <2>3. pass' = [pass EXCEPT ![p] = q] \/ pass' = [pass EXCEPT ![p] = NoPass]
    BY <1>5 DEF PassStep, PassFails, StopPass, ReadFolders, CompletePass, PassRejected,
                FinishPass
  <2> HIDE DEF q
  <2> QED
    BY <1>1, <2>1, <2>2, <2>3, ParentsLast DEF SyncTypes
<1>6. ASSUME NEW a \in Accounts, UNCHANGED workers,
             CancelSlot(a) \/ StartSync(a)
      PROVE  ParentIsRegistered'
  <2>1. ASSUME NEW p \in Passes
        PROVE  \/ pass'[p] = pass[p]
               \/ p \in Running /\ pass'[p].account = pass[p].account
                  /\ pass'[p].parent = pass[p].parent
               \/ pass'[p].parent = Nobody
    <3>1. CASE pass'[p] = [pass[p] EXCEPT !.cancelled = TRUE] /\ slot[a] = p
      <4>1. p \in Running
        BY <1>1, <3>1, RealtimeAssumption DEF SlotHasPass
      <4>2. pass[p] \in Pass
        BY <1>1, <4>1, RunningHasPass
      <4>3. [pass[p] EXCEPT !.cancelled = TRUE].account = pass[p].account
            /\ [pass[p] EXCEPT !.cancelled = TRUE].parent = pass[p].parent
        BY <4>2 DEF Pass
      <4> QED
        BY <3>1, <4>1, <4>3
    <3>2. CASE pass'[p] = pass[p]
      BY <3>2
    <3>3. CASE StartSync(a) /\ p = FreePass
      BY <3>3 DEF StartSync
    <3> QED
      BY <1>6, <3>1, <3>2, <3>3 DEF CancelSlot, StartSync
  <2>2. pass' = [p \in Passes |-> pass'[p]]
    BY <1>6 DEF CancelSlot, StartSync
  <2> QED
    BY <1>6, <2>1, <2>2, ParentsLast
<1>7. CASE \E a \in Accounts : \/ CancelSync(a) \/ BeginRemoveAccount(a) \/ StartSync(a)
                               \/ FinishUpdateCredentials(a)
  BY <1>6, <1>7 DEF CancelSync, BeginRemoveAccount, FinishUpdateCredentials, StartSync,
                    supervisorVars
<1>8. ASSUME NEW a \in Accounts, ChangePassword(a) \/ MailChanges(a)
      PROVE  ParentIsRegistered'
  <2>1. ASSUME NEW p \in Passes
        PROVE  \/ pass'[p] = pass[p]
               \/ p \in Running /\ pass'[p].account = pass[p].account
                  /\ pass'[p].parent = pass[p].parent
    <3> DEFINE q == [pass[p] EXCEPT !.secret = "old"]
               r == [pass[p] EXCEPT !.stage = "outdated"]
    <3>1. pass'[p] = pass[p] \/ (p \in Running /\ pass'[p] \in {q, r})
      BY <1>8 DEF ChangePassword, MailChanges, PassAt
    <3>2. p \in Running => /\ q.account = pass[p].account /\ q.parent = pass[p].parent
                           /\ r.account = pass[p].account /\ r.parent = pass[p].parent
      BY <1>1, RunningHasPass DEF Pass
    <3> QED
      BY <3>1, <3>2
  <2>2. UNCHANGED workers /\ pass' = [p \in Passes |-> pass'[p]]
    BY <1>8 DEF ChangePassword, MailChanges, supervisorVars
  <2> QED
    BY <2>1, <2>2, ParentsLast
<1>9. ASSUME NEW g \in Generations,
             \/ ListenerStep(g) \/ RefresherStep(g) \/ RefreshOnTimer(g, TRUE)
             \/ WorkerCancelled(g) \/ ListenerFails(g)
      PROVE  ParentIsRegistered'
  <2>1. CASE StartPass(g)
    <3>1. g \in Live /\ UNCHANGED workers
      BY <2>1 DEF StartPass, Refreshing, supervisorVars
    <3>2. PICK a \in Accounts : a = task[g].account /\ task[g] \in Task
      BY <3>1, LiveHasTask DEF WorkerInv
    <3>3. CASE slot[a] = Nobody /\ a \in Listed
      <4> DEFINE new == [account |-> a, stage |-> IF task[g].cancelled THEN "stopped" ELSE "asking",
                         parent |-> IF task[g].cancelled THEN Nobody ELSE g,
                         cancelled |-> task[g].cancelled, full |-> task[g].full, permit |-> TRUE,
                         secret |-> task[g].secret]
      <4>1. /\ FreePass \in Passes /\ pass'[FreePass] = new
            /\ \A p \in Passes \ {FreePass} : pass'[p] = pass[p]
        BY <2>1, <3>1, <3>2, <3>3, StartPassSlots
      <4>2. new.account = a /\ new.parent = IF task[g].cancelled THEN Nobody ELSE g
        OBVIOUS
      <4>3. ~task[g].cancelled => workers[a] = g
        BY <3>1, <3>2 DEF WorkerInv, WorkerIsRegistered
      <4>4. pass' = [p \in Passes |-> pass'[p]]
        BY <1>1, <2>1, <3>2, <3>3 DEF StartPass, SyncTypes
      <4> HIDE DEF new
      <4>5. pass'[FreePass].parent \in {Nobody, workers[pass'[FreePass].account]}
        BY <4>1, <4>2, <4>3
      <4> QED
        BY <3>1, <4>1, <4>4, <4>5, ParentsLast
    <3>4. CASE slot[a] # Nobody \/ a \notin Listed
      BY <1>2, <2>1, <3>1, <3>2, <3>4 DEF StartPass, syncVars
    <3> QED
      BY <3>3, <3>4
  <2>2. CASE ~StartPass(g)
    BY <1>2, <1>9, <2>2
       DEF ListenerStep, LoadRef, LoadSecret, Connect, ConnectRejected, ListenerRetries,
           Notice, ListenerFails, WorkerCancelled, RefresherStep, TryAgain, PassFinished,
           RefreshAgain, RefreshOnSignal, RefreshOnTimer, TaskOnly, syncVars, supervisorVars
  <2> QED
    BY <2>1, <2>2
<1>10. CASE Supervisor
  <2>1. /\ \A G : CancelChildren(G) =>
             \A p \in Running' : /\ p \in Running /\ pass'[p].account = pass[p].account
                                 /\ pass'[p].parent # Nobody =>
                                      pass'[p] = pass[p] /\ pass[p].parent \notin G
    <3>1. ASSUME NEW G, CancelChildren(G), NEW p \in Running'
          PROVE  /\ p \in Running /\ pass'[p].account = pass[p].account
                 /\ pass'[p].parent # Nobody => pass'[p] = pass[p] /\ pass[p].parent \notin G
      <4> DEFINE q == [pass[p] EXCEPT !.cancelled = TRUE, !.parent = Nobody]
      <4>1. p \in Passes /\ pass'[p] = IF p \in Running /\ pass[p].parent \in G THEN q ELSE pass[p]
        BY <3>1 DEF CancelChildren, Running
      <4>2. p \in Running
        BY <3>1, <4>1 DEF Running
      <4>3. q.account = pass[p].account /\ q.parent = Nobody
        BY <1>1, <4>2, RunningHasPass DEF Pass
      <4> QED
        BY <4>1, <4>2, <4>3
    <3> QED
      BY <3>1
  <2>2. \A p \in Running : pass[p].parent # Nobody =>
          pass[p].account \in Registered /\ workers[pass[p].account] = pass[p].parent
    BY <1>1, RunningHasPass DEF ParentIsRegistered, Registered
  <2>3. CASE BeginRound
    <3>1. CASE reconnected
      <4>1. CancelChildren({workers[a] : a \in Registered})
        BY <2>3, <3>1 DEF BeginRound
      <4> QED
        BY <2>1, <2>2, <4>1 DEF ParentIsRegistered
    <3>2. CASE ~reconnected
      BY <1>2, <2>3, <3>2 DEF BeginRound
    <3> QED
      BY <3>1, <3>2
  <2>4. CASE Reconcile
    <3> DEFINE still == (blocked \ restarts) \cap desired
               stop == {a \in Registered : ~allowed \/ a \in restarts \/ a \notin desired}
               new == IF allowed THEN desired \ (still \cup (Registered \ stop)) ELSE {}
               f == CHOOSE i \in Injections(new, FreeGenerations) : TRUE
    <3>1. /\ CancelChildren({workers[a] : a \in stop})
          /\ workers' = [a \in Accounts |-> IF a \in new THEN f[a]
                                            ELSE IF a \in stop THEN Nobody ELSE workers[a]]
      BY <2>4 DEF Reconcile
    <3>2. new \cap (Registered \ stop) = {}
      OBVIOUS
    <3> HIDE DEF stop, new, f
    <3>3. ASSUME NEW p \in Running', pass'[p].parent # Nobody
          PROVE  workers'[pass'[p].account] = pass'[p].parent
      <4>1. p \in Running /\ pass'[p] = pass[p] /\ pass[p].parent \notin {workers[a] : a \in stop}
        BY <2>1, <3>1, <3>3
      <4>2. /\ pass[p].account \in Registered /\ workers[pass[p].account] = pass[p].parent
            /\ pass[p].account \in Accounts
        BY <2>2, <3>3, <4>1 DEF Registered
      <4>3. pass[p].account \notin stop /\ pass[p].account \notin new
        BY <3>2, <4>1, <4>2
      <4> QED
        BY <3>1, <4>1, <4>2, <4>3
    <3> QED
      BY <3>3 DEF ParentIsRegistered
  <2>5. ASSUME NEW g \in Generations, RecordWorkerExit(g)
        PROVE  ParentIsRegistered'
    <3>1. PICK a \in Accounts : a = task[g].account
      BY <2>5, LiveHasTask DEF RecordWorkerExit, WorkerInv
    <3>2. CASE workers[a] = g
      <4>1. /\ workers' = [workers EXCEPT ![a] = Nobody]
            /\ pass' = [p \in Passes |-> IF p \in Running /\ pass[p].parent = g
                                           THEN [pass[p] EXCEPT !.parent = Nobody] ELSE pass[p]]
        BY <2>5, <3>1, <3>2 DEF RecordWorkerExit
      <4>2. ASSUME NEW p \in Running', pass'[p].parent # Nobody
            PROVE  workers'[pass'[p].account] = pass'[p].parent
        <5> DEFINE q == [pass[p] EXCEPT !.parent = Nobody]
        <5>1. p \in Passes /\ pass'[p] = IF p \in Running /\ pass[p].parent = g THEN q ELSE pass[p]
          BY <4>1, <4>2 DEF Running
        <5>2. p \in Running
          BY <4>2, <5>1 DEF Running
        <5>3. q.parent = Nobody
          BY <1>1, <5>2, RunningHasPass DEF Pass
        <5>4. pass'[p] = pass[p] /\ pass[p].parent # g
          BY <4>2, <5>1, <5>2, <5>3
        <5>5. pass[p].account \in Registered /\ workers[pass[p].account] = pass[p].parent
          BY <2>2, <4>2, <5>2, <5>4
        <5>6. pass[p].account # a /\ pass[p].account \in Accounts
          BY <3>2, <5>4, <5>5 DEF Registered
        <5> QED
          BY <4>1, <5>4, <5>5, <5>6 DEF WorkerInv, WorkerTypes
      <4> QED
        BY <4>2 DEF ParentIsRegistered
    <3>3. CASE workers[a] # g
      BY <1>2, <2>5, <3>1, <3>3 DEF RecordWorkerExit
    <3> QED
      BY <3>2, <3>3
  <2> QED
    BY <1>10, <2>3, <2>4, <2>5 DEF Supervisor
<1> QED
  BY <1>4, <1>5, <1>7, <1>8, <1>9, <1>10 DEF Next, Environment, Command

\* What a step must leave to an account for its news to stay on the way.
SameReading(a) ==
  /\ slot'[a] = slot[a]
  /\ status[a] # "idle" => status'[a] # "idle"
  /\ LET p == slot[a] IN
     p # Nobody /\ Reads(a) =>
       pass'[p].full /\ ~pass'[p].cancelled /\ pass'[p].stage \in {"asking", "read"}

LEMMA UntouchedReading ==
  ASSUME NEW a, Untouched(a)
  PROVE  SameReading(a)
BY DEF Untouched, SameReading, Reads

LEMMA ReadingLasts ==
  ASSUME NEW a, SameReading(a), Reads(a)
  PROVE  Reads(a)'
BY DEF SameReading, Reads

\* A task that listens afterwards has listened before, and the news it had are not lost.
KeepsNews(u, t) ==
  t.stage = "running" /\ t.listener = "idle" =>
    \/ Minds(t)
    \/ /\ u.stage = "running" /\ u.listener = "idle" /\ ~Minds(u)
       /\ Awaits(u) => Awaits(t)

\* A step of one task.
LEMMA OneTaskNotice ==
  ASSUME WorkerInv, NEW g \in Live, NEW t, TaskStep(g, t), NEW a \in Accounts, Noticed(a),
         UNCHANGED <<workers, changed>>, owed' \subseteq owed, restarts \subseteq restarts',
         SameReading(a), task[g].cancelled \/ KeepsNews(task[g], t)
  PROVE  Noticed(a)'
<1> SUFFICES ASSUME Listens(a)', a \notin restarts'
             PROVE  Minds(task'[workers[a]]) \/ (Awaits(task'[workers[a]]) /\ Reads(a)')
  BY DEF Noticed
<1>1. g \in Generations /\ \A h \in Generations : task'[h] = IF h = g THEN t ELSE task[h]
  BY LiveHasTask DEF TaskStep, WorkerInv, WorkerTypes
<1>2. /\ a \in changed \cap owed \cap Registered /\ a \notin restarts
      /\ workers[a] \in Live /\ ~task[workers[a]].cancelled
      /\ task'[workers[a]].stage = "running" /\ task'[workers[a]].listener = "idle"
  BY DEF Listens, Registered, WorkerInv, WorkerIsRegistered
<1>3. CASE workers[a] # g
  <2>1. task'[workers[a]] = task[workers[a]]
    BY <1>1, <1>2, <1>3, LiveHasTask DEF WorkerInv
  <2> QED
    BY <1>2, <2>1, ReadingLasts DEF Noticed, Listens
<1>4. CASE workers[a] = g
  <2>1. task'[g] = t /\ KeepsNews(task[g], t)
    BY <1>1, <1>2, <1>4
  <2> QED
    BY <1>2, <1>4, <2>1, ReadingLasts DEF Noticed, Listens, KeepsNews
<1> QED
  BY <1>3, <1>4

\* Nothing of the workers changes.
LEMMA NoTaskNotice ==
  ASSUME NEW a \in Accounts, Noticed(a), UNCHANGED <<workers, task, changed>>,
         a \in owed' => a \in owed, restarts \subseteq restarts',
         SameReading(a) \/ a \in restarts' \/ a \notin owed'
  PROVE  Noticed(a)'
<1>1. CASE SameReading(a)
  BY <1>1, ReadingLasts DEF Noticed, Listens, Registered
<1>2. CASE a \in restarts' \/ a \notin owed'
  BY <1>2 DEF Noticed, Listens
<1> QED
  BY <1>1, <1>2

LEMMA CommandNotice ==
  ASSUME PassInv, SessionInv, AccountsInv, Command, NEW a \in Accounts, Noticed(a)
  PROVE  Noticed(a)'
<1>1. UNCHANGED <<workers, task>> /\ restarts \subseteq restarts'
  BY CommandKeeps
<1>2. UNCHANGED changed /\ owed' \subseteq owed
  BY DEF Command, StartSync, CancelSync, BeginRemoveAccount, PauseOrResume, CancelSlot,
         BeginUpdateCredentials, FinishUpdateCredentials, FinishCreateAccount, CommandStep,
         FinishRemoveAccount, UpdateSettings, realtimeVars, mailVars
<1>3. SameReading(a) \/ a \in restarts' \/ a \notin owed'
  BY CommandSlots, UntouchedReading
<1> QED
  BY <1>1, <1>2, <1>3, NoTaskNotice

\* The end of a pass: a full one that stores what it has read settles what is owed, and one
\* that fails tells of it.
LEMMA PassNotice ==
  ASSUME PassInv, NEW p \in Passes, PassStep(p) \/ PassFails(p), NEW a \in Accounts, Noticed(a)
  PROVE  Noticed(a)'
<1>1. /\ UNCHANGED <<workers, task, restarts>> /\ p \in Running
      /\ changed' \subseteq changed /\ owed' \subseteq owed
  BY DEF PassStep, PassFails, StopPass, ReadFolders, CompletePass, PassRejected, FinishPass,
         Wake, supervisorVars, coordinatorVars, mailVars, PassAt
<1>2. SyncTypes /\ SlotHasPass /\ pass[p] \in Pass
  BY <1>1, TypesApart, RunningHasPass DEF PassInv
<1>3. ASSUME Listens(a)', Reads(a)
      PROVE  Reads(a)'
  <2>1. CASE ReadFolders(p)
    <3> DEFINE q == [pass[p] EXCEPT !.stage = "read"]
    <3>1. UNCHANGED <<slot, status>> /\ pass' = [pass EXCEPT ![p] = q]
      BY <2>1 DEF ReadFolders
    <3>2. q.full = pass[p].full /\ q.cancelled = pass[p].cancelled /\ q.stage = "read"
      BY <1>2 DEF Pass
    <3> HIDE DEF q
    <3>3. pass'[p] = q /\ \A r \in Passes \ {p} : pass'[r] = pass[r]
      BY <1>2, <3>1 DEF SyncTypes
    <3>4. slot[a] \in Passes \cup {Nobody}
      BY <1>2 DEF SyncTypes
    <3> QED
      BY <1>3, <3>1, <3>2, <3>3, <3>4 DEF Reads
  <2>2. CASE ~ReadFolders(p)
    <3>1. PICK result \in Status :
            /\ FinishPass(p, result)
            /\ result = "idle" =>
                 \/ pass[p].stage \in {"stopped", "outdated"} \/ pass[p].cancelled
                 \/ slot[pass[p].account] # p \/ ~pass[p].full
                 \/ pass[p].account \notin owed'
      BY <2>2 DEF PassStep, PassFails, StopPass, CompletePass, PassRejected, PassAt, Status
    <3>2. CASE Untouched(a)
      BY <1>3, <3>2, UntouchedReading, ReadingLasts
    <3>3. CASE /\ slot[a] = p /\ slot[a] # Nobody /\ pass[p].account = a
               /\ slot'[a] = Nobody /\ status'[a] = result
      <4>1. a \in owed'
        BY <1>3 DEF Listens
      <4>2. pass[p].full /\ ~pass[p].cancelled /\ pass[p].stage \in {"asking", "read"}
        BY <1>3, <3>3 DEF Reads
      <4>3. result # "idle"
        BY <3>1, <3>3, <4>1, <4>2
      <4> QED
        BY <3>3, <4>3 DEF Reads
    <3> QED
      BY <1>1, <3>1, <3>2, <3>3, FinishPassSlots
  <2> QED
    BY <2>1, <2>2
<1> QED
  BY <1>1, <1>3 DEF Noticed, Listens, Registered

\* The steps of a worker but the start of a pass.
LEMMA WorkerNotice ==
  ASSUME PassInv, WorkerInv, FreeIsNotSyncing, NEW g \in Generations,
         \/ ListenerStep(g) \/ ListenerFails(g) \/ WorkerCancelled(g)
         \/ TryAgain(g) \/ PassFinished(g) \/ RefreshAgain(g) \/ RefreshOnSignal(g)
         \/ \E full \in BOOLEAN : RefreshOnTimer(g, full),
         NEW a \in Accounts, Noticed(a)
  PROVE  Noticed(a)'
<1> DEFINE u == task[g]
<1>1. /\ UNCHANGED <<workers, changed, restarts, slot, pass>> /\ owed' \subseteq owed
      /\ g \in Live
  BY DEF ListenerStep, LoadRef, LoadSecret, Connect, ConnectRejected, ListenerRetries,
         Notice, ListenerFails, WorkerCancelled, TryAgain, PassFinished, RefreshAgain,
         RefreshOnSignal, RefreshOnTimer, Listening, Refreshing, TaskOnly, supervisorVars,
         coordinatorVars, syncVars, mailVars
<1>2. u \in Task
  BY <1>1, LiveHasTask DEF WorkerInv
<1>3. SameReading(a)
  <2>1. \/ UNCHANGED status
        \/ \E b, problem : problem # "idle" /\ status' = [status EXCEPT ![b] = problem]
    BY DEF ListenerStep, LoadRef, LoadSecret, Connect, ConnectRejected, ListenerRetries,
           Notice, ListenerFails, WorkerCancelled, TryAgain, PassFinished, RefreshAgain,
           RefreshOnSignal, RefreshOnTimer, Report, TaskOnly, syncVars
  <2>2. status \in [Accounts -> Status]
    BY TypesApart DEF PassInv, SyncTypes
  <2>3. status'[a] = status[a] \/ status'[a] # "idle"
    BY <2>1, <2>2
  <2> QED
    BY <1>1, <2>3 DEF SameReading, Reads
<1>4. CASE PassFinished(g)
  <2>1. PICK b \in Accounts : b = u.account
    BY <1>1, LiveHasTask DEF WorkerInv
  <2>2. u.refresher = "wait" /\ slot[b] = Nobody /\ status[b] \in Status /\ status[b] # "syncing"
    BY <1>4, <2>1, TypesApart DEF PassFinished, Refreshing, PassInv, SyncTypes, FreeIsNotSyncing
  <2> DEFINE retry == [u EXCEPT !.refresher = "retry"]
             sleep == [u EXCEPT !.refresher = "sleep"]
  <2>3. /\ retry.told = u.told /\ retry.signal = u.signal /\ retry.full = u.full
        /\ retry.refresher = "retry" /\ retry.stage = u.stage /\ retry.listener = u.listener
        /\ sleep.told = u.told /\ sleep.signal = u.signal
        /\ sleep.stage = u.stage /\ sleep.listener = u.listener
    BY <1>2 DEF Task
  <2>4. KeepsNews(u, retry)
    BY <2>2, <2>3 DEF KeepsNews, Minds, Awaits
  <2>5. CASE b = a /\ workers[a] = g /\ status[a] = "idle"
    <3>1. TaskStep(g, sleep)
      BY <1>4, <2>1, <2>5 DEF PassFinished
    <3>2. task'[g] = sleep
      BY <1>1, <3>1, LiveHasTask DEF TaskStep, WorkerInv, WorkerTypes
    <3>3. ~Reads(a)
      BY <2>2, <2>5 DEF Reads
    <3> HIDE DEF sleep
    <3>4. Minds(u) => Minds(sleep)
      BY <2>2, <2>3 DEF Minds
    <3> QED
      BY <1>1, <2>3, <2>5, <3>2, <3>3, <3>4 DEF Noticed, Listens, Registered
  <2>6. CASE workers[a] # g
    <3>1. a \in Registered => workers[a] \in Generations
      BY LiveHasTask DEF WorkerInv, WorkerIsRegistered
    <3>2. a \in Registered => task'[workers[a]] = task[workers[a]]
      BY <1>4, <2>6, <3>1 DEF PassFinished, TaskStep, WorkerInv, WorkerTypes
    <3> QED
      BY <1>1, <1>3, <3>2, ReadingLasts DEF Noticed, Listens, Registered
  <2>7. CASE status[b] # "idle"
    <3>1. u.cancelled \/ KeepsNews(u, Ended(g))
      BY DEF Ended, TaskAt, KeepsNews
    <3>2. \E t : TaskStep(g, t) /\ (u.cancelled \/ KeepsNews(u, t))
      BY <1>4, <2>1, <2>2, <2>4, <2>7, <3>1 DEF PassFinished, Status
    <3> QED
      BY <1>1, <1>3, <3>2, OneTaskNotice
  <2>8. workers[a] = g => b = a
    BY <2>1, RealtimeAssumption DEF WorkerInv, WorkerIsRegistered, Registered
  <2> QED
    BY <2>5, <2>6, <2>7, <2>8
<1>5. CASE ~PassFinished(g)
  <2> DEFINE Keeps(t) == u.cancelled \/ KeepsNews(u, t)
  <2>1. Keeps(Ended(g)) /\ (u.cancelled => Keeps(NoTask))
    BY DEF Ended, TaskAt, KeepsNews
  <2>2. /\ u.stage # "running" => Keeps([u EXCEPT !.stage = "secret"])
        /\ \A secret : Keeps([u EXCEPT !.stage = "running", !.listener = "connect",
                                       !.refresher = "permit", !.secret = secret])
    BY <1>2 DEF Task, KeepsNews
  <2>3. /\ \A l : l # "idle" => Keeps([u EXCEPT !.listener = l])
        /\ Keeps([u EXCEPT !.listener = "idle", !.signal = TRUE])
        /\ Keeps([u EXCEPT !.listener = "retry", !.told = FALSE])
        /\ Keeps([u EXCEPT !.told = FALSE, !.signal = TRUE])
    BY <1>2 DEF Task, KeepsNews, Minds
  <2>4. u.refresher \in {"behind", "retry"} => Keeps([u EXCEPT !.refresher = "permit"])
    BY <1>2 DEF Task, KeepsNews, Minds, Awaits
  <2>5. /\ u.refresher = "sleep" => \A full \in BOOLEAN : Keeps(Wants(u, full))
        /\ Keeps([Wants(u, TRUE) EXCEPT !.signal = FALSE])
    BY <1>2 DEF Task, Wants, KeepsNews, Minds, Awaits
  <2> HIDE DEF Keeps
  <2>6. \E t : TaskStep(g, t) /\ Keeps(t)
    <3>1. CASE LoadRef(g)
      BY <2>1, <2>2, <3>1 DEF LoadRef
    <3>2. CASE LoadSecret(g)
      BY <2>1, <2>2, <3>2 DEF LoadSecret
    <3>3. CASE ConnectRejected(g) \/ WorkerCancelled(g)
      BY <2>1, <3>3 DEF ConnectRejected, WorkerCancelled
    <3>4. CASE Connect(g) \/ ListenerRetries(g) \/ Notice(g) \/ ListenerFails(g)
      BY <2>1, <2>3, <3>4 DEF Connect, ListenerRetries, Notice, ListenerFails
    <3>5. CASE TryAgain(g) \/ RefreshAgain(g)
      BY <2>4, <3>5 DEF TryAgain, RefreshAgain, Refreshing
    <3>6. CASE RefreshOnSignal(g) \/ \E full \in BOOLEAN : RefreshOnTimer(g, full)
      BY <2>5, <3>6 DEF RefreshOnSignal, RefreshOnTimer, Refreshing
    <3> QED
      BY <1>5, <3>1, <3>2, <3>3, <3>4, <3>5, <3>6 DEF ListenerStep
  <2> QED
    BY <1>1, <1>3, <2>6, OneTaskNotice DEF Keeps
<1> QED
  BY <1>4, <1>5

\* The start of a pass: the worker's own one takes the news along, and a pass of a cancelled
\* worker either hides nothing or settles what is owed.
LEMMA StartPassNotice ==
  ASSUME PassInv, WorkerInv, NEW g \in Generations, StartPass(g), NEW a \in Accounts, Noticed(a)
  PROVE  Noticed(a)'
<1>1. /\ UNCHANGED <<workers, changed, restarts>> /\ owed' \subseteq owed /\ g \in Live
      /\ task[g].refresher = "permit"
  BY DEF StartPass, Refreshing, supervisorVars, coordinatorVars, Wake
<1>2. PICK b \in Accounts : b = task[g].account /\ task[g] \in Task
  BY <1>1, LiveHasTask DEF WorkerInv
<1>3. SyncTypes /\ SlotHasPass
  BY TypesApart DEF PassInv
<1>4. CASE slot[b] # Nobody \/ b \notin Listed
  <2>1. /\ UNCHANGED <<slot, pass>>
        /\ status' = status \/ status' = [status EXCEPT ![b] = "fatal"]
    BY <1>2, <1>4 DEF StartPass, syncVars
  <2>2. SameReading(a)
    BY <1>3, <2>1 DEF SameReading, SyncTypes, Reads
  <2>3. /\ KeepsNews(task[g], [task[g] EXCEPT !.refresher = "behind"])
        /\ task[g].cancelled \/ KeepsNews(task[g], Ended(g))
    BY <1>1, <1>2 DEF Task, KeepsNews, Minds, Awaits, Ended, TaskAt
  <2>4. \E t : TaskStep(g, t) /\ (task[g].cancelled \/ KeepsNews(task[g], t))
    BY <1>2, <1>4, <2>3 DEF StartPass
  <2> QED
    BY <1>1, <2>2, <2>4, OneTaskNotice
<1>5. CASE slot[b] = Nobody /\ b \in Listed
  <2> DEFINE t == IF task[g].cancelled THEN NoTask ELSE [task[g] EXCEPT !.refresher = "wait"]
  <2>1. /\ TaskStep(g, t) /\ owed' = IF Hides(g) THEN owed \ {b} ELSE owed
    BY <1>2, <1>5 DEF StartPass
  <2>2. \A h \in Generations : task'[h] = IF h = g THEN t ELSE task[h]
    BY <2>1 DEF TaskStep, WorkerInv, WorkerTypes
  <2>3. a \in Registered => /\ workers[a] \in Live /\ workers[a] \in Generations
                            /\ task[workers[a]].account = a /\ ~task[workers[a]].cancelled
    BY LiveHasTask DEF WorkerInv, WorkerIsRegistered
  <2>4. CASE b # a
    <3>1. SameReading(a)
      BY <1>1, <1>2, <1>5, <2>4, StartPassSlots, UntouchedReading
    <3>2. a \in Registered => task'[workers[a]] = task[workers[a]]
      BY <1>2, <2>2, <2>3, <2>4
    <3> HIDE DEF t
    <3> QED
      BY <1>1, <3>1, <3>2, ReadingLasts DEF Noticed, Listens, Registered
  <2>5. CASE b = a /\ workers[a] # g
    <3>1. task[g].cancelled
      <4>1. ~task[g].cancelled => workers[b] = g
        BY <1>1, <1>2 DEF WorkerInv, WorkerIsRegistered
      <4> QED
        BY <2>5, <4>1
    <3>2. a \in Registered => task'[workers[a]] = task[workers[a]]
      BY <2>2, <2>3, <2>5
    <3>3. a \in Registered /\ a \in owed' => ~Awaits(task[workers[a]])
      BY <1>2, <2>1, <2>3, <2>5, <3>1 DEF Hides, Awaits
    <3> HIDE DEF t
    <3> QED
      BY <1>1, <3>2, <3>3 DEF Noticed, Listens, Registered
  <2>6. CASE b = a /\ workers[a] = g
    <3>1. ~task[g].cancelled
      BY <2>3, <2>6, RealtimeAssumption DEF Registered
    <3>2. /\ t.told = task[g].told /\ t.signal = task[g].signal /\ t.full = task[g].full
          /\ t.refresher = "wait" /\ t.stage = task[g].stage /\ t.listener = task[g].listener
      BY <1>2, <3>1 DEF Task
    <3>3. task'[g] = t
      BY <2>2
    <3>4. /\ slot'[b] = FreePass /\ FreePass # Nobody
          /\ pass'[FreePass] =
               [account |-> b, stage |-> IF task[g].cancelled THEN "stopped" ELSE "asking",
                parent |-> IF task[g].cancelled THEN Nobody ELSE g,
                cancelled |-> task[g].cancelled, full |-> task[g].full, permit |-> TRUE,
                secret |-> task[g].secret]
      BY <1>1, <1>2, <1>5, StartPassSlots
    <3>5. pass'[FreePass].full = task[g].full /\ ~pass'[FreePass].cancelled
          /\ pass'[FreePass].stage = "asking"
      BY <3>1, <3>4
    <3> HIDE DEF t
    <3>6. task[g].full => Awaits(t) /\ Reads(a)'
      BY <2>6, <3>2, <3>4, <3>5 DEF Awaits, Reads
    <3>7. Minds(task[g]) => Minds(t) \/ task[g].full
      BY <3>2 DEF Minds
    <3>8. ~Awaits(task[g])
      BY <1>1 DEF Awaits
    <3> QED
      BY <1>1, <2>6, <3>2, <3>3, <3>6, <3>7, <3>8 DEF Noticed, Listens, Registered
  <2> QED
    BY <2>4, <2>5, <2>6
<1> QED
  BY <1>4, <1>5

\* The server tells whoever listens, or owes the account nothing.
LEMMA ServerNotice ==
  ASSUME PassInv, WorkerInv, NEW b \in Accounts, ChangePassword(b) \/ MailChanges(b),
         NEW a \in Accounts, Noticed(a)
  PROVE  Noticed(a)'
<1>1. SyncTypes /\ SlotHasPass /\ UNCHANGED <<workers, restarts, slot, status>>
  BY TypesApart DEF PassInv, ChangePassword, MailChanges, coordinatorVars, supervisorVars
<1>2. a \in Registered => /\ workers[a] \in Generations /\ workers[a] \in Live
                          /\ task[workers[a]] \in Task /\ task[workers[a]].account = a
  BY LiveHasTask DEF WorkerInv, WorkerIsRegistered
<1>3. slot[a] # Nobody => slot[a] \in Running /\ slot[a] \in Passes /\ pass[slot[a]] \in Pass
                          /\ pass[slot[a]].account = a
  BY <1>1, RunningHasPass DEF SlotHasPass
<1>4. CASE ChangePassword(b)
  <2> DEFINE t == [task[workers[a]] EXCEPT !.secret = "old"]
             q == [pass[slot[a]] EXCEPT !.secret = "old"]
  <2>1. a \in Registered => /\ task'[workers[a]] \in {task[workers[a]], t}
                            /\ Minds(t) = Minds(task[workers[a]])
                            /\ Awaits(t) = Awaits(task[workers[a]])
                            /\ t.stage = task[workers[a]].stage
                            /\ t.listener = task[workers[a]].listener
    BY <1>2, <1>4 DEF ChangePassword, Task, Minds, Awaits
  <2>2. slot[a] # Nobody => /\ pass'[slot[a]] \in {pass[slot[a]], q}
                            /\ q.full = pass[slot[a]].full /\ q.stage = pass[slot[a]].stage
                            /\ q.cancelled = pass[slot[a]].cancelled
    BY <1>3, <1>4 DEF ChangePassword, Pass
  <2> HIDE DEF t, q
  <2>3. Reads(a) => Reads(a)'
    BY <1>1, <2>2 DEF Reads
  <2>4. UNCHANGED <<changed, owed>>
    BY <1>4 DEF ChangePassword, mailVars
  <2> QED
    BY <1>1, <2>1, <2>3, <2>4 DEF Noticed, Listens, Registered
<1>5. CASE MailChanges(b) /\ a # b
  <2>1. a \in Registered => task'[workers[a]] = task[workers[a]]
    BY <1>2, <1>5 DEF MailChanges
  <2>2. slot[a] # Nobody => pass'[slot[a]] = pass[slot[a]]
    BY <1>3, <1>5 DEF MailChanges
  <2>3. (a \in changed' => a \in changed) /\ (a \in owed' => a \in owed)
    BY <1>5 DEF MailChanges
  <2>4. Reads(a) => Reads(a)'
    BY <1>1, <2>2 DEF Reads
  <2> QED
    BY <1>1, <2>1, <2>3, <2>4 DEF Noticed, Listens, Registered
<1>6. CASE MailChanges(b) /\ a = b
  <2> SUFFICES ASSUME Listens(a)'
               PROVE  Minds(task'[workers[a]])
    BY <1>1 DEF Noticed
  <2> DEFINE u == task[workers[a]]
             t == [u EXCEPT !.told = TRUE]
             idle == {g \in Live : task[g].account = b /\ task[g].listener = "idle"}
  <2>1. a \in Registered /\ a \in owed' /\ task'[workers[a]].listener = "idle"
    BY <1>1 DEF Listens, Registered
  <2>2. t.told = TRUE /\ t.listener = u.listener
    BY <1>2, <2>1 DEF Task
  <2>3. task' = [g \in Generations |-> IF g \in idle THEN [task[g] EXCEPT !.told = TRUE]
                                         ELSE task[g]]
    BY <1>6, <2>1 DEF MailChanges
  <2>4. task'[workers[a]] = IF workers[a] \in idle THEN t ELSE u
    BY <1>2, <2>1, <2>3
  <2>5. u.listener = "idle"
    BY <2>1, <2>2, <2>4
  <2>6. workers[a] \in idle
    BY <1>2, <1>6, <2>1, <2>5
  <2> QED
    BY <2>2, <2>4, <2>6 DEF Minds
<1> QED
  BY <1>4, <1>5, <1>6

\* The supervisor stops a worker with its news only to replace it by one that connects, or
\* for good; the passes of the others go on.
LEMMA SupervisorNotice ==
  ASSUME PassInv, WorkerInv, ParentIsRegistered, Supervisor, NEW a \in Accounts, Noticed(a)
  PROVE  Noticed(a)'
<1>1. UNCHANGED <<slot, status, changed, owed>>
  BY DEF Supervisor, BeginRound, Reconcile, RecordWorkerExit, mailVars
<1>2. SyncTypes /\ SlotHasPass
  BY TypesApart DEF PassInv
<1>3. slot[a] # Nobody => slot[a] \in Running /\ slot[a] \in Passes /\ pass[slot[a]] \in Pass
                          /\ pass[slot[a]].account = a
  BY <1>2, RunningHasPass DEF SlotHasPass
<1>4. CASE BeginRound
  <2>1. CASE reconnected
    BY <1>4, <2>1 DEF BeginRound, Noticed, Listens, Registered
  <2>2. CASE ~reconnected
    BY <1>1, <1>4, <2>2 DEF BeginRound, Noticed, Listens, Registered, Reads
  <2> QED
    BY <2>1, <2>2
<1>5. CASE Reconcile
  <2> DEFINE stop == {b \in Registered : ~allowed \/ b \in restarts \/ b \notin desired}
             G == {workers[b] : b \in stop}
  <2>1. a \in Registered' =>
          \/ task'[workers'[a]].stage = "start"
          \/ /\ allowed /\ a \in desired /\ a \notin restarts
             /\ a \in Registered /\ workers'[a] = workers[a]
             /\ task'[workers[a]] = task[workers[a]]
    BY <1>5, ReconcileKeepsOthers
  <2>2. CancelChildren(G)
    BY <1>5 DEF Reconcile
  <2>3. ASSUME a \in Registered', task'[workers'[a]].stage # "start", slot[a] # Nobody
        PROVE  pass'[slot[a]] = pass[slot[a]]
    <3>1. /\ a \in Registered /\ workers'[a] = workers[a] /\ workers[a] # Nobody
          /\ a \notin stop
      BY <2>1, <2>3 DEF Registered
    <3>2. \A b \in stop : workers[b] # workers[a]
      BY <3>1 DEF WorkerInv, WorkerIsRegistered
    <3>3. pass[slot[a]].parent \notin G
      <4>1. Nobody \notin G
        BY DEF Registered
      <4>2. pass[slot[a]].parent \in {Nobody, workers[a]}
        BY <1>3, <2>3 DEF ParentIsRegistered
      <4> QED
        BY <3>2, <4>1, <4>2
    <3> HIDE DEF G
    <3> QED
      BY <1>3, <2>2, <2>3, <3>3 DEF CancelChildren
  <2> HIDE DEF stop, G
  <2>4. a \in Registered' /\ task'[workers'[a]].stage # "start" => (Reads(a) => Reads(a)')
    BY <1>1, <2>3 DEF Reads
  <2> QED
    BY <1>1, <2>1, <2>4 DEF Noticed, Listens, Registered
<1>6. ASSUME NEW g \in Generations, RecordWorkerExit(g)
      PROVE  Noticed(a)'
  <2>1. a \in Registered' => /\ a \in Registered /\ workers'[a] = workers[a]
                             /\ task'[workers[a]] = task[workers[a]]
    BY <1>6, ExitKeepsOthers
  <2>2. UNCHANGED restarts
    BY <1>6 DEF RecordWorkerExit, Wake
  <2> DEFINE q == [pass[slot[a]] EXCEPT !.parent = Nobody]
  <2>3. slot[a] # Nobody => /\ pass'[slot[a]] \in {pass[slot[a]], q}
                            /\ q.full = pass[slot[a]].full /\ q.stage = pass[slot[a]].stage
                            /\ q.cancelled = pass[slot[a]].cancelled
    BY <1>3, <1>6 DEF RecordWorkerExit, Pass
  <2> HIDE DEF q
  <2>4. Reads(a) => Reads(a)'
    BY <1>1, <2>3 DEF Reads
  <2> QED
    BY <1>1, <2>1, <2>2, <2>4 DEF Noticed, Listens, Registered
<1> QED
  BY <1>4, <1>5, <1>6 DEF Supervisor

-----------------------------------------------------------------------------
\* The invariant of news and the passes that will read them.
THEOREM NoticeInvHolds == Spec => []NoticeInv
<1>1. NoticeInv /\ SessionInv /\ PassInv /\ AccountsInv /\ WorkerInv /\ [Next]_vars
      => NoticeInv'
  <2> SUFFICES ASSUME NoticeInv, SessionInv, PassInv, AccountsInv, WorkerInv, [Next]_vars
               PROVE  NoticeInv'
    OBVIOUS
  <2>1. ASSUME NEW a \in Accounts
        PROVE  Noticed(a)'
    <3>1. Noticed(a) /\ ParentIsRegistered /\ FreeIsNotSyncing
      BY DEF NoticeInv
    <3>2. CASE UNCHANGED vars \/ SetPlatformState
      BY <3>1, <3>2 DEF vars, realtimeVars, supervisorVars, coordinatorVars, syncVars,
                        mailVars, SetPlatformState, Noticed, Listens, Reads, Registered
    <3>3. CASE Supervisor
      BY <3>1, <3>3, SupervisorNotice
    <3>4. CASE Command
      BY <3>1, <3>4, CommandNotice
    <3>5. ASSUME NEW b \in Accounts, ChangePassword(b) \/ MailChanges(b)
          PROVE  Noticed(a)'
      BY <3>1, <3>5, ServerNotice
    <3>6. ASSUME NEW p \in Passes, PassStep(p) \/ PassFails(p)
          PROVE  Noticed(a)'
      BY <3>1, <3>6, PassNotice
    <3>7. ASSUME NEW g \in Generations,
                 \/ ListenerStep(g) \/ ListenerFails(g) \/ WorkerCancelled(g)
                 \/ RefresherStep(g) \/ RefreshOnTimer(g, TRUE)
          PROVE  Noticed(a)'
      BY <3>1, <3>7, WorkerNotice, StartPassNotice DEF RefresherStep
    <3> QED
      BY <3>2, <3>3, <3>4, <3>5, <3>6, <3>7 DEF Next, Environment
  <2>2. ParentIsRegistered' /\ FreeIsNotSyncing'
    BY ParentStep, FreeStep DEF NoticeInv
  <2> QED
    BY <2>1, <2>2 DEF NoticeInv
<1>2. Spec => []AccountsInv
  BY RealtimeImplementsAccounts, AccountsInvHolds, PTL
<1> QED
  BY <1>1, <1>2, NoticeInit, SessionInvHolds, PassInvHolds, WorkerInvHolds, PTL DEF Spec

\* What the server has told the listener, or is asked as it connects, leads to a full pass
\* that has not read the folders yet, however passes are cancelled, replaced or queued.
THEOREM NoticedIsAlwaysPending == Spec => []NoticedIsPending
<1>1. NoticeInv => NoticedIsPending
  <2> SUFFICES ASSUME NoticeInv, NEW a \in changed \cap owed \cap Registered,
                      task[workers[a]].stage = "running", task[workers[a]].listener = "idle"
               PROVE  LET t == task[workers[a]]  p == slot[a] IN
                      \/ a \in restarts \/ t.told \/ t.signal
                      \/ t.full /\ t.refresher \in {"permit", "behind", "retry"}
                      \/ t.full /\ t.refresher = "wait" /\ p = Nobody /\ status[a] # "idle"
                      \/ p # Nobody /\ pass[p].full /\ pass[p].stage # "outdated"
    BY DEF NoticedIsPending
  <2>1. \/ a \in restarts \/ Minds(task[workers[a]])
        \/ Awaits(task[workers[a]]) /\ Reads(a)
    BY DEF NoticeInv, Noticed, Listens, Registered
  <2> QED
    BY <2>1 DEF Minds, Awaits, Reads
<1> QED
  BY <1>1, NoticeInvHolds, PTL
===============================================================================
