# Mutsumi Mail: formal models

TLA+ models of the offline-first core of Mutsumi Mail (`src-tauri/src`, Rust), the
configurations that model-check them and the proofs about them. `PROJECT.json` lists, for
every definition of the models, the source lines it stands for.

Run a check with `tlc -config Outbox_safety.cfg MCOutboxRefinement.tla`, a proof with
`tlapm OutboxProofs.tla`.

## 1. The system

One process holds a SQLite connection behind a mutex (`storage/database.rs`), a runtime
(`mail_runtime.rs`) shared by the interface, the tray, and Android's service and job, and
`AppState` with two coordinators (`app_state.rs`). React calls typed Tauri commands
(`commands/mod.rs`); non-async commands run one after the other on the main thread.
Deliveries, synchronisation passes and IDLE workers are Tokio tasks on other threads. Every
component below talks to the others through the database, the token map of
`SyncCoordinator`, watch and mpsc channels, and events sent to the interface.

| component | state | operations | what is hard | what makes it correct |
|---|---|---|---|---|
| outbox and SMTP delivery (`compose_service.rs`, `smtp.rs`) | `outbox`, `outbox_payloads` rows; one task per spawn | queue, claim, prepare, store payload, send, record outcome, retry, cancel, recover at startup, spawn again at setup | an answer lost after acceptance; a crash between acceptance and commit; several tasks for one row; failing commits | no blind second copy; the claim is exclusive; `failed` means certainly not sent; one Message-ID; every claimed row gets an outcome |
| sync slot and passes (`app_state.rs`, `sync_service.rs`) | token per account, status in memory and in `provider_metadata`, watch channel | start, try_start, cancel, with_current, finish_current, wait_until_idle | a replaced pass keeps running until it looks; cancel is written in three places; five ways to start, many early returns | only the owner writes the cache and the status; the slot is always given back; no wakeup is lost |
| pending remote operations (`database.rs`, `sync_service.rs`) | `pending_operations` rows, projected flags and `is_deleted` of an instance | mutate, move, delete, claim, upload, complete, fail, recover | passes that overlap, answers recorded without owning the slot, snapshots older than a local change, crashes between upload and completion | nothing is forgotten before the server has it; the last choice wins; no message stays hidden for nothing |
| mail cache (`database.rs`, `sync_service.rs`, `imap.rs`) | mailboxes, messages, instances, threads, `sync_cursors` | apply_imap_snapshot, reconcile_imap_mailbox_index, windows, backfill | the folder changes between any two requests; UIDVALIDITY changes; pages and page limits; counters corrected by waiting operations | a row is the letter its UID names; no letter is lost between pages; counters match rows; the user's changes stay; the cache converges |
| realtime supervisor (`realtime_sync_service.rs`) | worker and generation per account, blocked accounts, restart requests, signal channels | reconcile workers, IDLE loop, refresh_on_signals, backoff | worker exits reported late, pushes during a sync, two permits for all accounts, passwords that change | one worker per account, with the present password; no push lost; everybody gets a permit |
| bodies on demand (`message_service.rs`) | body columns | locate, fetch without the lock, store | the message vanishes or changes identity during the fetch | a body is stored only for the message it was fetched for |
| accounts and credentials (`account_service.rs`, `auth/secret_store.rs`) | account rows with secret references, secret store | create, update, remove | two stores without a common transaction | no row without its secret, no secret without its row |
| frontend caches (`src/src/lib/optimistic-flags.ts`, `stores/ui.ts`) | queue of optimistic flags, query caches | toggle, settle, invalidate | quick toggles, failures, refetches | the last intent is shown |
| Android service and job (`background/android.rs`, Kotlin bridge) | generation of checks, wake lock | start, stop, finish | a stop that races the finish and the next start | a stop hits its own check only |
| IMAP/SMTP clients, domain types, providers, MIME, desktop shell, interface components | none of their own that outlives a call | parsing, rendering | — | not modelled: I/O, pure text conversion, rendering |

The hazards of this code that tests hardly reach are listed line by line in
`PROJECT.json` under `hazards`.

## 2. What is modelled

### Outbox (`Outbox.tla`)

Each row has `row` (its `outbox.state`, plus the two moments around it: `composing`, a
command that has prepared but not queued, and `deleted`), `messageId` and `sentCopy` (its
payload row). A task is `pc`, `job`, `mid`: where it is in `deliver_outbox`, which row it
was spawned for, the Message-ID of the MIME text in its memory. `wire` and `accepted` are the
transmissions under way and taken by the server. `attempt` and `decision` number the claims
and the user's decisions to retry a row whose outcome is unknown.

One action per step between two points where others can interfere: `ComposeDelivery` and
`QueueDraft` (prepare and commit of `send_draft`), `ClaimOutboxForSending` (the
compare-and-set), `PrepareDelivery`, `StoreOutboxPayloadIfMissing`, `ConnectFails`,
`Transmit`, `ReplyAccepted`/`ReplyRejected`/`ReplyLost` (as `classify_send_error` sorts
them), `CompleteOutboxSent`, `PersistFailed`, `PersistUnknown`, the faults of the three
database writes, `RetryOutboxItem`, `CancelOutboxItem`, `SetAccountEnabled`,
`RemoveAccount`, `CrashAndReopen` with the recovery of `Database::open`, `Setup` and
`RespawnQueued`. `Setup` can run again without a crash: on Android the runtime outlives the
activity.

### What the user is promised (`AbstractDelivery.tla`, `OutboxRefinement.tla`)

`AbstractDelivery` knows messages, their status and copies, and no tasks, rows or restarts.
`OutboxRefinement` maps the outbox to it (`StatusOf`, `Orders`) and states that every
behaviour of `Outbox` is one of `AbstractDelivery`: `ImplementsDelivery`.

### The slot (`SyncSlot.tla`)

One account. `slot` is the token in the map, `cancelled` the tokens that are cancelled,
`pc`, `kind`, `outcome`, `plan`, `got` the passes; `mem` and `db` the status in the two
places it is kept; `ui` the command on the main thread with the half of it that is still to
come; `waiter`, `unseen`, `notices` the watch channel of `wait_until_idle`; `listener` the
three steps of `report_realtime_problem`. Mail is reduced to the highest UID (`server`,
`cursor`): enough to tell an old answer from a new one. A pass goes through loading,
starting, publishing, listing, fetching, storing and finishing; each early return of
`start_sync_with_token`, `start_sync_with_loaded_session` and `synchronize_account` is a
branch of one of these actions.

### Operations on a message (`PendingOperations.tla`)

One message that is read or not and in its folder or moved away, at the server and on the
screen (`place`: shown, hidden by `is_deleted`, or gone), and the rows of
`pending_operations`. `ClaimOperation`, `CheckToken`, `PublishStatus`, `ServerApplies`,
`CompletePendingOperation`, `OperationFails`, `OperationRejected` are the steps of
`flush_pending_operations`; `FetchIndex`, `SkipIndex`, `ApplyIndex` are what a pass does to
the projection before it uploads, with `OverlayPendingFlags` and the two rules for local
deletions. The slot is that of `SyncSlot`, without the statuses.

### The cache of a folder (`MailCache.tla`)

A letter is the number of its arrival. On the server, `box` holds the letters in the folder,
`uid[v][l]` the UID of each under each UIDVALIDITY, `srvRead` the Seen flag. In the database,
`inst` is `message_instances` by UID (which letter's row it is joined with, its UIDVALIDITY,
flag and `is_deleted`), `flag` and `moving` are the outstanding rows of
`pending_operations`, `cursor` is `sync_cursors`, `total` and `unread` the counters of the
`mailboxes` row, `body` says whose text a `messages` row holds. `pc`, `plan`, `answer` are
the pass (`plan` the `MailboxFetchPlan`, `answer` the snapshot or index in memory), `reader`
is one `fetch_message_body` with its locator. `view` remembers the last listing that covers
the folder and agrees with itself, which is what the counters can be compared with.

The actions follow `synchronize_account` folder by folder: `StartPass` (LIST and cursor),
`Examine` (SELECT and SEARCH UNSEEN), `SearchAndFetch`, `SkipQuietFolder`,
`ApplyForwardPage`, `FetchMailboxIndex`, `ReconcileMailboxIndex`, `UploadFlags`,
`UploadMove`, `OperationRefused`, `FlushDone`, `LoadWindow`, `FetchHistoryPage`,
`ApplyHistoryPage`, and the ways out `PassFails`, `PassStops`. What the two database
functions make of an answer is `ApplyImapSnapshot` and `ReconcileIndex`, with one operator for
each of their parts (`IdentityChanged`, `Kept`, `Incoming`, `Stale`, `Project`,
`BodiesAfter`, ...). The server (`Arrive`, `ElsewhereExpunged`, `ElsewhereMarked`,
`Renumber`) and the user (`MutateMessage`, `HideMessage`, `ClearCache`, `OpenMessage`)
act between any two steps; `BodyFetched`, `BodyFetchFails` and `StoreHydratedBody` are the
fetch of a body without the database lock.

### The copy in the Sent folder (`SentCopy.tla`)

Composes `Outbox` with the Sent folder of its account. The program never appends a copy; the
server may file one of what it took (`File`), at once, after the delivery has been recorded,
or never, and a pass that lists the folder confirms it by its Message-ID. `filed` are the
copies in the folder, `cached` the rows of `message_instances` there and `hidden` those with
`is_deleted`, `listed` what lies at or below the cursor. `pass`, `mode`, `answer` are how far
the pass of the account is with this folder (before it, with a snapshot in memory, before the
index, past it), its `SyncMode` and the snapshot. `ApplySent` is `apply_imap_snapshot` for
this folder: new rows, cursor and the `UPDATE outbox_payloads`, which looks at all rows of the
mailbox (`Confirm`). `SkipQuietSent`, `ReconcileSent`, `ApplyOlderPage`, `PassCompletes` and
`PassStops` are the rest of the pass. `AskForPass` is `Outbox`'s `RequestReconciliation` with
what `start_sync_if_idle` makes of it: a full pass, or nothing if one runs. `PayloadId` and
`CachedId` are the two texts the UPDATE compares; `ParsedForm` says how the MIME parser hands
out the second one. `everFiled` is a history variable.

### Accounts and their secrets (`Accounts.tla`)

`state` is how far an account is in its life, `incoming` and `outgoing` its references,
`wanted` whether it is enabled with the policy `automatic`, `store` the credentials table
(a secret is `current` while the server accepts it), `command` the command on the main thread
with the references it has to delete, `loading` the reference a caller of
`load_incoming_session` has read. `CheckDuplicate` to `CreateReturns` are
`create_account_with_tester`, which is asynchronous and runs several times at once;
`SwapCredentials`, `DeleteOldCredentials`, `UpdateReturns` are `update_credentials`;
`BeginRemove`, `DeleteRow`, `RemoveReturns` are `remove_account`; `ReadRef` and
`ReadSecret` are the two reads of a session, between which the row can change.

### Realtime synchronisation (`Realtime.tla`)

Extends `Accounts`: its commands are those of `Accounts` together with what they tell the
synchronisation (`FinishUpdateCredentials` cancels and restarts, `BeginRemoveAccount`
cancels, `PauseOrResume` restarts, ...), and the readers of the store are the workers.
`restarts`, `woken`, `allowed`, `reconnected` are `RealtimeSyncCoordinator`; `sup`,
`desired`, `workers`, `blocked` are the locals of `run_supervisor`; `task` holds the
`watch_account` of each generation, with its `listener` and its `refresher`; `slot`,
`status`, `pass` are the `SyncCoordinator` and the passes; `changed` and `owed` say which
changes of mail no full pass has read and which of those the listener has to see to.
`BeginRound` and `Reconcile` are a turn of the supervisor, with the read of the accounts
between them; `RecordWorkerExit` is an exit that arrives when it likes. `Connect`,
`ConnectRejected`, `ListenerFails`, `ListenerRetries`, `Notice` are `watch_inbox`;
`StartPass`, `TryAgain`, `PassFinished`, `RefreshOnSignal`, `RefreshOnTimer`,
`RefreshAgain` are `refresh_on_signals` and `synchronize_after_signal`.

The modules divide a pass between them: `SyncSlot` has what can happen between two
accesses to the slot, `MailCache` what a pass does to one folder, `Realtime` who starts it,
who takes it away and who waits for it.

## 3. What is checked

| run | instance | shows |
|---|---|---|
| `outbox_safety` | 2 rows, 1 of them queued without payload by an old version; 2 tasks; 2 claims per row; 1 crash, 1 second setup, 1 database error | `TypeOK`, `OneCopyPerDecision`, `ExclusiveDelivery`, `DefiniteFailure`, `StableMessageId`, `NothingSentAfterCancel`, `ImplementsDelivery` |
| `sync_safety` | 3 passes, 1 message, 1 cancel, 1 reported problem, 1 crash | `TypeOK`, `PassIsolation`, `NoPhantomSync`, `CacheMovesForward` |
| `sync_liveness` | 2 passes, 1 change of credentials, 1 waiting listener | `NoLostWakeup`, `SlotIsReleased`, `WaiterReturns` |
| `sync_credentials` | 2 passes, 1 change of credentials | `NoPhantomSync` fails, see 5 |
| `pending` | 2 operations, 2 passes, 2 operations per pass, 2 takeovers or cancels, 1 stopped listener, 1 error, 1 crash | `TypeOK`, `ExclusiveOperation`, `CompletedWasApplied`, `HiddenIsExplained`, `IntentUntilTakeover`, `OperationsInOrder`, `OperationIsResolved` |
| `pending_stranded`, `pending_reorder` | 1 and 2 operations, 1 takeover | fail, see 5 |
| `mail_cache` | 3 letters, 1 of them there at the beginning, that one without Message-ID and the one the user opens; 2 UIDVALIDITY values; pages of 1 letter, 2 forward pages and 1 page of history per pass; 2 events (commands, other clients, renumbering, a failed or cancelled pass) | `TypeOK`, `IdentityHolds`, `NoHole`, `CountersAreExact`, `IntentIsShown`, `BodiesAreGenuine`, `CacheConverges` |
| `mail_history` | the same without renumbering, 1 event | `HistoryIsLoaded` fails, see 5 |
| `sent` | 1 row, 2 tasks, 2 claims, 1 crash, no database error; `ParsedForm = "bracketed"` | `SentTypeOK`, `ConfirmedWasFiled`, `CopyIsConfirmed`, `SendingIsResolved`, `QueuedIsAttempted` |
| `sent_form` | 1 row, 1 task, 1 claim; `ParsedForm = "bare"` | `CopyIsConfirmed` fails, see 5 |
| `realtime` | 1 account with two secrets, 4 references, 2 generations, 2 passes, 1 permit, 1 event (a command, a change of the password, the network or the lifecycle, a failed request) | `TypeOK`, `StoresAgree`, `WorkerIsRegistered`, `SessionIsCurrent`, `GoodAccountIsNotBlocked`, `NoticedIsPending`, `ChangeIsFetched` |

Why the bounds are enough. Two tasks are what it takes for a race over a row, two rows for a
task to be confused about which one is its own; the second claim is the first one that can
repeat a transmission. A third pass lets a replaced one come back while the pass that
replaced it has been replaced too; with one message an old answer can already set the cache
back. Two operations are what it takes for one to overtake the other, and two takeovers let a
replaced pass come back while the pass that replaced it has been replaced too. One row is enough
for the confirmation: which row a copy belongs to is proved for any number of them. A crash, an
error or a takeover more repeats a state that is already in the instance, since nothing but the
counters of the bounds remembers them. With pages of one
letter, three letters make a pass stop at its page limit, leave letters above and below what
is cached, and need history; two events are what it takes for an answer to be about a letter
that the user has just changed and another client removes, or for a folder to be renumbered
while an operation waits. Two generations and two passes are an obsolete one and its
replacement; one permit makes them wait for each other. An event that restores automatic mail
(an account resumed, the network back, the present password entered) is not counted, so that a
disturbance can be followed by its repair.

Most safety properties do not rest on the bounds: they are proved without them (4). Three are
proved only, because a run would show no more than another property of it: `SentIsAccepted`
(a part of what `ImplementsDelivery` says), `NoLeakedSlot` (beside `SlotIsReleased`) and
`MoveStaysHidden` (beside `IntentIsShown`).

Symmetry is used for tasks and passes in the safety runs of `Outbox` and `SyncSlot` only. Deadlock is not checked: with
all bounds used up and nothing left to do the system rests.

Fairness. Tokio polls every task that can run, network requests end by their own timeouts
(20 s for SMTP, per-request timeouts of the IMAP client), so the steps of a delivery or pass
are weakly fair. The setup hook and its loop run once per process. `TryStart` of
`PendingOperations` is weakly fair because the watchdog of an automatic account starts a pass
again and again. The user, the server's mail, crashes, errors and stopped parents of tokens
are never fair. The liveness of the outbox is checked without database errors: after a failed
commit the code really leaves the row `sending` until the next start of the process. The
liveness of operations needs that a row is not refused for ever by network errors, which the
bound on errors says, and that no pass is taken over (`pending_stranded` shows what happens
otherwise). In `MailCache` the steps of a pass are weakly fair, and a full pass is
started again and again whatever runs in between (strong fairness of `StartPass("full")`):
`refresh_on_signals` asks for one every fifteen minutes. In `Realtime` the supervisor, the
rest of an `update_credentials` that has begun, and per generation the listener and the
refresher are weakly fair, and per account the timer that makes the next refresh full is
strongly fair: it fires again and again, but other refreshes may come between. The two halves
of a worker are separate, since the `select` of `watch_account` polls both. Letters, signals
of the server, users and failures are not fair; a lost IDLE notification is one of the
outcomes of `MailChanges`, so `ChangeIsFetched` rests on the timer where it must.

In `SentCopy` the steps of a pass are weakly fair, and a full pass is started, gets its answer
and stores it infinitely often if it could infinitely often: passes may be stopped, replaced
or fail at any time, but not all full ones, for ever, at the same place. Full passes come from
the refresher (`Realtime`) or from the user. The deliveries have
the fairness of `Outbox`, whose liveness is checked in this composition.

## 4. What is proved

The eight proof modules prove, for every number of rows, tasks, passes, operations, letters,
copies, accounts, generations, crashes, errors and commands, from the assumptions on the constants
alone (`OutboxAssumption`, `SyncSlotAssumption`, `PendingAssumption`, `MailCacheAssumption`,
`AccountsAssumption`, `RealtimeAssumption`):

- `OutboxProofs`: `TypeOK`, `OneCopyPerDecision`, `ExclusiveDelivery`, `DefiniteFailure`,
  `StableMessageId`, `SentIsAccepted`, `NothingSentAfterCancel`. None but the first is
  inductive. The invariant adds: a row that may be queued or failed is fresh (nothing of its
  present decision at the network, `RowInv`); a claimed row stays fresh until its own task
  transmits, after which that task's transmission is the only one (`TaskInv`); the Message-ID
  in a task's memory is the stored one once the payload exists (`PayloadInv`).
  With it `ImplementsDelivery`: every step of `Outbox` is, under the mapping of
  `OutboxRefinement`, a step of `AbstractDelivery` or changes nothing there. That rows are
  deleted only with their account (`RemovedInv`) is all it needs in addition; the end of a
  task whose row was deleted under it is the step `Abandon`.
- `SyncSlotProofs`: `TypeOK`, `PassIsolation`, `NoLeakedSlot`, `NoLostWakeup`,
  `CacheMovesForward`, and `NoPhantomSync` under `MaxUpdates = 0`. The invariant adds that
  what a pass fetched lies at or after the cursor it asked from (`FetchedAhead`), and for the
  status that between the two halves of a cancel the memory is right already (`StatusInv`).
  That the last theorem needs only `MaxUpdates = 0` says that `update_credentials` is the one
  operation that leaves a wrong status behind.
- `PendingProofs`: `TypeOK`, `ExclusiveOperation`, `CompletedWasApplied`,
  `HiddenIsExplained`, `MoveStaysHidden`. The invariant adds: a pass holds a row exactly
  between claim and outcome (`HandInv`), an answered row has been carried out
  (`AnsweredInv`), a move that was carried out has moved the message (`AppliedMoveInv`), and
  at most one move waits at a time (`OneMoveWaits`), because only a shown message can be
  moved. Also `IntentUntilTakeover` and `OperationsInOrder`, which speak of the time before the
  first takeover; after it the run `pending_reorder` refutes `LastIntentWins`. Before it
  (`Undisturbed`) one pass runs at a time (`Alone`), below the
  row it holds and below every finished row nothing waits (`OrderInv`), and what it has
  fetched or was answered is how the server is (`ServerInv`); so the rows that wait, put over
  the server's flag, end in the last choice, or there are none and the server has it
  (`IntentInv`). Stops of the parent's token, network errors, refusals and crashes are
  allowed: taking over a running pass is the one operation that breaks the order.
  The same invariant proves `StrandedOnlyByTakeover`: before the first takeover every row
  marked `sending` is in the hands of a pass, so what `pending_stranded` shows has no other
  cause than the takeover.
- `MailCacheProofs`: `IntentIsShown`. The invariant (`IntentInv`) adds only the types of rows
  and operations. The work is in the steps: rows leave the cache through `Stale`, `Gone` and
  `Kept`, and the cascade takes the operations along. Two lemmas say what a
  page (`Merged`) and an index make of a row with operations.
- `MailCacheProofs` also: `IdentityHolds` and the action property `BodiesAreGenuine`. Three
  kinds of holders carry a pair of UID and letter between steps: rows, answers in memory, and
  body fetches. The invariant (`IdentityInv`) says that the server has given every such pair
  under one UIDVALIDITY, the one the holder has written down. It needs what IMAP promises of a
  server: a UID is given at most once under one UIDVALIDITY (`OneBearer`) and is never taken
  back. That the next UID is new needs that a finite set of numbers has a maximum, which is
  proved by well-founded induction over subsets, and that the ranks of a renumbering differ,
  which is a fact on cardinalities.
- `MailCacheProofs`, the numbers: `TypeOK` and `CountersAreExact`. The types need the order of
  the UIDs (`UidInv`): under one UIDVALIDITY they grow with the arrivals and stay at or below
  the letter's number, which is what keeps every UID in `Uids`. With the types the counters need
  no invariant of their own: `view.known` says that a whole, coherent listing has come, and each
  operation changes `total` and `unread` by what it changes in the sets that they count. The
  lemmas say so of cardinalities: one element put in or taken out, sets that change by many at
  once, and the floors `Max0` and `Clamp`, which change nothing while the view is known.
- `MailCacheProofs`, completeness: `NoHole`. The invariant (`HoleInv`) follows a pass between
  its commands: the cursor is a UID that the server gave, and no cached UID lies above it; the
  page in the pass's hands borders on the cache (a forward
  page on the cursor, an older one on the oldest row) and holds all the folder has up to there;
  a page from the start is applied only where nothing of the cache survives; and a letter that
  arrives meanwhile has a UID above all that were given before. So the cache is solid: between
  any cached row and the cursor nothing of the folder is missing. A consequence: a complete
  snapshot never meets a row that outlives it, so `Stale` (the rows such a snapshot drops) is
  empty in every reachable state; the deletions come from the index.
- `MailCacheProofs`, what a pass leaves behind. `HiddenIsAlwaysGone`: a hidden row waits to be
  moved, or the folder has lost its letter. `IndexBringsUpToDate`: a current index, applied
  when nothing waits, makes the cache the folder's own rows, flags and counters up to the
  cursor, whatever was there; `CompleteIndexSettles`: if the whole folder was cached, the folder
  is then shown as it is; `SettledStays`: from then on every step of every pass, whole or
  stopped, leaves rows, flags and counters alone until the folder changes. These are the safety
  half of `CacheConverges`; that such an index comes, and that the history gets that far, is
  the liveness TLC checks. `HistoryEndsWhole`: a page of history that is not full is the last
  one ("A short page therefore proves that no still-older page exists", `sync_service.rs`),
  whatever arrives or goes between the pages.
- `SentCopyProofs`: `SentTypeOK`, `ConfirmedWasFiled`, and `ImplementsDelivery` again for the
  composition, in which passes write `sentCopy` beside the deliveries. The invariant is that
  of `OutboxProofs` with the types of the folder; what it adds is in the steps: a row that is
  `sent` never takes another Message-ID, so what confirmed it stays its own copy. The steps of
  `Outbox` are taken over from its proofs, and the steps of a pass leave alone all that
  `OutboxProofs` speaks of but `sentCopy`.
- `AccountsProofs`: `AccountsTypeOK`, `StoresAgree`, `OneAccountPerAddress`. The invariant
  adds that no two accounts share a reference, and that what a command has yet to delete
  belongs to nobody else; it is what makes the order "write, swap, delete" right.
- `RealtimeProofs`: every step of `Realtime` is a step of `Accounts` or leaves its variables
  alone, so the theorems on `Accounts` hold of the composition too; and `WorkerIsRegistered`,
  which is inductive with the types of the table of workers (`WorkerInv`), once it is known
  that the generation a round gives out is free.
- `SessionProofs`: of `Realtime` `TypeOK`, `SessionIsCurrent`, `GoodAccountIsNotBlocked` and
  `NoticedIsPending`, each from an invariant of its own on top of the former ones.
  `SessionInv` follows a secret from the store into a worker: the reference a worker has read
  is still its account's, unless a command about the account is under way or the supervisor is
  asked to restart it; and only accounts that have or had a row have workers. `PassInv` adds
  that every taken slot has its pass and that a worker that works has a session. `BlockInv`
  says why an account is given up: a worker that failed, or a pass that was refused, had a
  password that is no longer the account's, or a restart is outstanding. `NoticeInv` says
  where news are on the way: in the worker, or in a full pass it waits for; it needs that a
  pass with a parent belongs to the registered worker, and that a free slot never says
  `syncing`. That no two accounts share a reference (`AccountsInv`) is needed throughout,
  because a command about one account must not touch the secret of another.

Only model-checked: liveness (`SlotIsReleased`, `WaiterReturns`, `OperationIsResolved`,
`CacheConverges`, `ChangeIsFetched`, `CopyIsConfirmed`, `SendingIsResolved`,
`QueuedIsAttempted`), which rests on fairness and `ENABLED`. Every invariant and every action
property of a passing run is stated by a theorem. The invariants that make the proofs go
through were checked by TLC on small instances before they were proved.

## 5. Where the code does not do what it says

- `sync_credentials`: `update_credentials` ends the running pass by
  `SyncCoordinator::cancel`, but unlike `cancel_sync` does not call
  `mark_account_sync_cancelled`. The database goes on saying `syncing` of an account that no
  pass synchronises.
- `pending_stranded`: `flush_pending_operations` returns by `publish_status(...)?` after it has
  claimed a row, if the pass has lost the slot by then. Nobody puts the row back: it stays
  `sending` until the process starts again, and later rows overtake it.
- `pending_reorder`: a pass that was replaced finishes the upload it is in and completes the
  row without asking for the slot. The pass that replaced it has fetched flags from before the
  upload and stores them after the row is gone, so the message jumps back; it may also upload
  a later operation before the earlier one.
- `mail_history`: the oldest UID from which history goes on is not persisted, as the comment at
  `sync_service.rs:22` has it, but computed from the rows that are cached and shown
  (`imap_sync_window`). When all of them are expunged or moved away before the older letters
  were loaded, there is no such row, `next_backfill_before_uid` gives up, and no later pass
  ever asks for the older letters. `CacheConverges` is therefore stated with this exception.

- `sent_form`: the `UPDATE` that confirms a sent copy compares the Message-ID of the payload
  with that of the cached message as text (`database.rs:938`). `new_message_id` makes
  `<uuid@domain>`, with brackets; `map_incoming_message` stores what `parsed.message_id()` of
  mail-parser returns, and that library hands out identifiers without them. They never agree:
  no row leaves `awaiting_server_sync`. The tests of the database write the brackets into the
  snapshots by hand and pass. mail-parser is not part of this repository, so what it returns is
  an assumption (`ParsedForm`), stated rather than derived; under the other one
  `CopyIsConfirmed` holds (`sent`).

One more, which the runs show only through the variable `misled` that sets it apart: after its
own pass a refresher reads the outcome from the shared status (`PassFinished`). An obsolete
worker may have written there since, for instance that its login was rejected
(`report_realtime_problem` looks only whether a pass is active), and the replacement takes
this for its own terminal failure, although `realtime_sync_service.rs:132` says that an
obsolete generation must never block the replacement. The account then has no listener until
the user reconnects it. In the other direction a cancelled worker's pass can overwrite a
failure, after which the new worker waits for its timer instead of retrying (`Hides`).

## 6. What the models leave out

- `Outbox`: the text of a message, attachments, addresses (a transmission is its Message-ID).
- `SentCopy`: mail in the Sent folder that this program did not send; a UIDVALIDITY that
  changes there (`MailCache`); other folders. Fetch and application of the index are one step.
  Whether the counters allow a quiet pass to skip the folder is left open. Which of the
  snapshots of a folder covers it wholly, so that no index is needed, is left out: both
  remove what the server no longer has. Servers that write a Message-ID of their own.
- `SyncSlot`: folders (one), history, what is stored besides the highest UID; failing database
  writes of `finish_current`; several accounts, which share nothing but two permits.
- `PendingOperations`: the star flag, which takes the same path; several messages; the
  COPY/EXPUNGE fallback; a disabled or removed account; a changed UIDVALIDITY. A command on a
  connection that was given up is assumed not to be carried out later. A conflicted row stays
  in the model when its message is gone; in the database it goes with it.
- `MailCache`: one folder; threads, addresses, attachments, the search index; letters with
  equal Message-IDs and messages with instances in several folders; the star flag.
  SELECT and SEARCH UNSEEN are one step, and so are SEARCH and
  FETCH of a page: the folder changes between these steps, not within them, so a FETCH that
  omits a UID its SEARCH has named, which the client rejects, does not occur. What the two
  steps say of unread letters may disagree; the counters are then those of a moment that never
  was, until the next listing, and `view` leaves them out. Passes do not overlap: `SyncSlot`
  shows that only the owner of the slot writes. A row per message and kind of operation stands
  for several, which `PendingOperations` has one by one. Only one body is fetched at a time:
  two fetches of one message are two independent readers.
- `Accounts`: accounts with only one endpoint; deletions that fail (the error is logged or
  ignored and an orphan stays); a crash between the two stores, after which a secret without a
  row stays, and which the code does not repair; the keychain of older versions on macOS.
- `Realtime`: errors of the database or the store while a session is loaded (retried) and
  while the accounts are read (the round is skipped until the next wake); the lengths of
  delays; the renewal of IDLE, which keeps the selected session and loses nothing;
  Android's policy file. The exit of an obsolete generation, which changes nothing, is taken
  at any time. What may happen between two accesses to the slot is in `SyncSlot`.
- A delivery that succeeds while a pass runs leaves the confirmation to that pass, which may
  have read the Sent folder already. Which later pass finds the copy is not bounded:
  `CopyIsConfirmed` assumes only that full passes keep coming.
- The components marked `not_modelled` in `PROJECT.json`, with the reason there.

## 7. Plan

What would come next, in this order:

1. A message with instances in two folders, whose body row outlives one of them.
2. The queue of flag requests of the interface, drafts and autosave, and the generations of
   Android's job.
