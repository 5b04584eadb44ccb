------------------------------ MODULE MailCache ------------------------------
(***************************************************************************)
(* The cache of one IMAP folder: message instances, cursor, counters and   *)
(* bodies in the database (apply_imap_snapshot, reconcile_imap_mailbox_    *)
(* index, imap_sync_window, store_hydrated_message_body), the walk of a    *)
(* pass over the folder that fills it (synchronize_account, backfill_      *)
(* mailbox_history, the FETCH functions of imap.rs), the user's changes    *)
(* that wait for upload, and a body fetched on demand.                     *)
(*                                                                         *)
(* One pass at a time writes the cache: SyncSlot shows that a replaced one *)
(* does not.  The server changes between any two of its requests.          *)
(*                                                                         *)
(* A letter is the number of its arrival; uid[v][l] is the UID the server  *)
(* gave it under UIDVALIDITY v, also after it has left the folder.         *)
(***************************************************************************)
EXTENDS Integers, FiniteSets, FiniteSetsExt

CONSTANTS
  MaxLetters,    \* bound: letters that ever arrive
  Initial,       \* letters that are in the folder before the first pass
  Unmarked,      \* letters without a Message-ID header
  Opened,        \* bound: letters the user opens
  MaxValidity,   \* bound: UIDVALIDITY values
  PageSize,      \* MAX_FETCH_MESSAGES
  ForwardPages,  \* MAX_FORWARD_PAGES_PER_MAILBOX
  HistoryPages,  \* pages of history a pass may fetch (SyncMode::history_pages)
  MaxEvents      \* bound: commands of the user, changes by the user's other clients,
                 \*        renumberings, passes that are cancelled or fail, in total

Letters == 1 .. MaxLetters
Uids == 1 .. MaxLetters
Validities == 1 .. MaxValidity

ASSUME MailCacheAssumption ==
  /\ MaxLetters \in Nat \ {0} /\ Initial \in 0 .. MaxLetters
  /\ Unmarked \subseteq Letters /\ Opened \subseteq Letters
  /\ MaxValidity \in Nat \ {0}
  /\ PageSize \in Nat \ {0} /\ ForwardPages \in Nat \ {0} /\ HistoryPages \in Nat
  /\ MaxEvents \in Nat

VARIABLES
  validity, uid, box, arrived, srvRead,  \* the folder on the server
  inst,          \* message_instances, by UID
  flag, moving,  \* outstanding set_flags rows; outstanding moves and deletions
  cursor,        \* sync_cursors
  total, unread, \* counters of the mailboxes row
  body,          \* whose text the messages row of a letter holds, 0 for none
  view,          \* the complete and coherent listing the counters come from, if any
  pc, plan, answer,  \* the pass
  reader,        \* fetch_message_body
  events         \* counter of the bound

serverVars == <<validity, uid, box, arrived, srvRead>>
opVars     == <<flag, moving>>
countVars  == <<total, unread, view>>
cacheVars  == <<inst, cursor, countVars>>
passVars   == <<pc, plan, answer>>
vars == <<serverVars, opVars, cacheVars, body, passVars, reader, events>>

Intent == {"none", "read", "unread"}
Instance == [letter : Letters, validity : Validities, seen : BOOLEAN, hidden : BOOLEAN]
Mail == [letter : Letters, seen : BOOLEAN]

\* A snapshot, or an index, as the pass holds it in memory.
Answers == [validity : 0 .. MaxValidity, total : Nat, unread : Nat, complete : BOOLEAN,
            mail : UNION {[S -> Mail] : S \in SUBSET Uids}]
Empty == [u \in {} |-> 0]
NoAnswer == [validity |-> 0, total |-> 0, unread |-> 0, complete |-> FALSE, mail |-> Empty]

\* expect, since: the cursor the pass asks from; before: the oldest UID it has, when it
\* asks for history; known: the folder's counters when the pass began.
Plans == [mode : {"full", "quick"}, expect : 0 .. MaxValidity, since : 0 .. MaxLetters,
          before : 0 .. MaxLetters, page : Nat, forward : BOOLEAN, remote : Nat,
          knownTotal : Nat, knownUnread : Nat]
NoPlan == [mode |-> "full", expect |-> 0, since |-> 0, before |-> 0, page |-> 0,
           forward |-> FALSE, remote |-> 0, knownTotal |-> 0, knownUnread |-> 0]

Readers == [uid : 0 .. MaxLetters, letter : 0 .. MaxLetters, validity : 0 .. MaxValidity,
            got : 0 .. MaxLetters, revised : BOOLEAN, cleared : BOOLEAN]
NoReader == [uid |-> 0, letter |-> 0, validity |-> 0, got |-> 0,
             revised |-> FALSE, cleared |-> FALSE]
NoView == [known |-> FALSE, uids |-> {}, unseen |-> {}]

PassState == {"idle", "examine", "search", "received", "index", "indexed", "flush",
              "window", "history", "older", "olderReceived"}

TypeOK ==
  /\ validity \in Validities /\ uid \in [Validities -> [Letters -> 0 .. MaxLetters]]
  /\ arrived \in 0 .. MaxLetters
  /\ box \subseteq 1 .. arrived /\ srvRead \subseteq 1 .. arrived
  /\ DOMAIN inst \subseteq Uids /\ inst \in [DOMAIN inst -> Instance]
  /\ flag \in [Uids -> Intent] /\ moving \subseteq Uids
  /\ cursor \in [validity : 0 .. MaxValidity, last : 0 .. MaxLetters]
  /\ total \in Nat /\ unread \in Nat
  /\ body \in [Letters -> 0 .. MaxLetters]
  /\ view \in [known : BOOLEAN, uids : SUBSET Uids, unseen : SUBSET Uids]
  /\ pc \in PassState /\ plan \in Plans
  /\ DOMAIN answer.mail \subseteq Uids /\ answer \in Answers
  /\ reader \in Readers
  /\ events \in 0 .. MaxEvents

Init ==
  /\ validity = 1 /\ arrived = Initial /\ box = 1 .. Initial
  /\ uid = [v \in Validities |-> [l \in Letters |->
              IF v = 1 /\ l <= Initial THEN l ELSE 0]]
  /\ srvRead = {}
  /\ inst = Empty /\ flag = [u \in Uids |-> "none"] /\ moving = {}
  /\ cursor = [validity |-> 0, last |-> 0]
  /\ total = 0 /\ unread = 0 /\ view = NoView
  /\ body = [l \in Letters |-> 0]
  /\ pc = "idle" /\ plan = NoPlan /\ answer = NoAnswer
  /\ reader = NoReader
  /\ events = 0

Event == events < MaxEvents /\ events' = events + 1

\* The counters are not floored at zero.
NoFloor(n) == n

Max0(n) == IF n < 0 THEN 0 ELSE n
Clamp(n, high) == IF n > high THEN high ELSE Max0(n)

-----------------------------------------------------------------------------
(***************************************************************************)
(* The folder on the server.  The user's other clients change it; a server *)
(* that loses its index gives every letter a new UID and the folder a new  *)
(* UIDVALIDITY.                                                            *)
(***************************************************************************)

Present == {uid[validity][l] : l \in box}
LetterAt(u) == CHOOSE l \in box : uid[validity][l] = u
Unseen == {uid[validity][l] : l \in box \ srvRead}
MailAt(U) == [u \in U |-> [letter |-> LetterAt(u), seen |-> LetterAt(u) \in srvRead]]

Untouched == UNCHANGED <<opVars, cacheVars, body, passVars, reader>>

Arrive ==
  /\ arrived < MaxLetters
  /\ arrived' = arrived + 1 /\ box' = box \cup {arrived + 1}
  /\ uid' = [uid EXCEPT ![validity][arrived + 1] =
               Max({uid[validity][l] : l \in 1 .. arrived} \cup {0}) + 1]
  /\ Untouched /\ UNCHANGED <<validity, srvRead, events>>

ElsewhereExpunged(l) ==
  /\ Event
  /\ box' = box \ {l}
  /\ Untouched /\ UNCHANGED <<validity, uid, arrived, srvRead>>

ElsewhereMarked(l) ==
  /\ Event
  /\ srvRead' = IF l \in srvRead THEN srvRead \ {l} ELSE srvRead \cup {l}
  /\ Untouched /\ UNCHANGED <<validity, uid, box, arrived>>

Renumber ==
  /\ validity < MaxValidity /\ validity' = validity + 1 /\ Event
  /\ uid' = [uid EXCEPT ![validity + 1] = [l \in Letters |->
               IF l \in box THEN Cardinality({k \in box : k <= l}) ELSE 0]]
  /\ Untouched /\ UNCHANGED <<box, arrived, srvRead>>

(***************************************************************************)
(* What the database makes of an answer.                                   *)
(***************************************************************************)

Cached == DOMAIN inst
Visible == {u \in Cached : ~inst[u].hidden}
HasOp(u) == flag[u] # "none" \/ u \in moving

\* Of a set of instances, the rows that the interface counts as unread.
UnreadOf(i, U) == {u \in U : ~i[u].hidden /\ ~i[u].seen}

\* overlay_pending_flags: a flag that waits for upload is the one to show.
Overlay(u, seen) == IF flag[u] = "none" THEN seen ELSE flag[u] = "read"

\* A server that renumbers is not noticed.
IdentityNeverChanges(a) == FALSE

\* A UIDVALIDITY that is not the one of the cursor and of every instance.
IdentityChanged(a) ==
  \/ cursor.validity \notin {0, a.validity}
  \/ \E u \in Cached : inst[u].validity # a.validity

\* The instances that survive the start of apply_imap_snapshot.
Kept(a) == IF IdentityChanged(a) THEN {} ELSE Cached

\* A snapshot shows again what the user has moved away.
IncomingShown(a, u) ==
  [letter   |-> IF u \in Kept(a) THEN inst[u].letter ELSE a.mail[u].letter,
   validity |-> a.validity,
   seen     |-> IF u \in Kept(a) THEN Overlay(u, a.mail[u].seen) ELSE a.mail[u].seen,
   hidden   |-> FALSE]

\* A message of the snapshot joins the row its UID has, or one of its own.
Incoming(a, u) ==
  [letter   |-> IF u \in Kept(a) THEN inst[u].letter ELSE a.mail[u].letter,
   validity |-> a.validity,
   seen     |-> IF u \in Kept(a) THEN Overlay(u, a.mail[u].seen) ELSE a.mail[u].seen,
   hidden   |-> u \in Kept(a) /\ u \in moving /\ inst[u].hidden]

Stale(a) ==
  IF a.complete THEN {u \in Kept(a) \ DOMAIN a.mail : ~HasOp(u)} ELSE {}

Merged(a) ==
  [u \in (Kept(a) \ Stale(a)) \cup DOMAIN a.mail |->
     IF u \in DOMAIN a.mail THEN Incoming(a, u) ELSE inst[u]]

\* Operations go with their instance (ON DELETE CASCADE).
CascadeOps(left) ==
  /\ flag' = [u \in Uids |-> IF u \in left THEN flag[u] ELSE "none"]
  /\ moving' = moving \cap left

\* An answer that contradicts itself is a Protocol error and changes nothing.
IsConsistent(a) ==
  /\ a.unread <= a.total
  /\ a.complete => Cardinality(DOMAIN a.mail) = a.total

UnseenIn(a) == {u \in DOMAIN a.mail : ~a.mail[u].seen}

\* The counters of the server, corrected by what the user has changed since.
Project(a, i) ==
  LET outside == {u \in DOMAIN i \ DOMAIN a.mail : HasOp(u)}
      shown == IF a.complete THEN {u \in outside : ~i[u].hidden} ELSE {}
      count == a.total - Cardinality({u \in DOMAIN a.mail : i[u].hidden})
                 + Cardinality(shown)
      new == a.unread - Cardinality(UnseenIn(a))
               + Cardinality(UnreadOf(i, DOMAIN a.mail \cup shown))
  IN IF a.complete \/ outside = {}
       THEN total' = Max0(count) /\ unread' = Clamp(new, Max0(count))
       ELSE UNCHANGED <<total, unread>>

\* The texts of rows that are left; a letter without Message-ID gets a new row when
\* the folder is renumbered.
BodiesAfter(a, i, withBodies) ==
  [l \in Letters |->
     LET rows == {u \in DOMAIN i : i[u].letter = l}
     IN IF rows = {} /\ (a.complete \/ IdentityChanged(a)) THEN 0
        ELSE IF withBodies /\ rows \cap DOMAIN a.mail # {}
          THEN a.mail[CHOOSE u \in rows \cap DOMAIN a.mail : TRUE].letter
        ELSE IF IdentityChanged(a) /\ l \in Unmarked THEN 0
        ELSE body[l]]

\* A fetch under way notices at its end that its row was rewritten or deleted.
Revise(rows) == reader' = [reader EXCEPT !.revised = @ \/ reader.letter \in rows]

ApplyImapSnapshot(a, withBodies) ==
  LET i == Merged(a) IN
  /\ inst' = i /\ CascadeOps(Kept(a) \ Stale(a))
  /\ Project(a, i)
  /\ view' = IF a.complete /\ a.unread = Cardinality(UnseenIn(a))
               THEN [known |-> TRUE, uids |-> DOMAIN a.mail, unseen |-> UnseenIn(a)]
               ELSE NoView
  /\ cursor' = [validity |-> a.validity,
                last |-> Max(DOMAIN a.mail \cup
                             {IF cursor.validity = a.validity THEN cursor.last ELSE 0})]
  /\ body' = BodiesAfter(a, i, withBodies)
  /\ Revise({i[u].letter : u \in DOMAIN a.mail})

\* Rows the server no longer has stay until a complete snapshot.
GoneLater(a) == {}

\* reconcile_imap_mailbox_index, for an index that matches the cursor.
Gone(a) == {u \in Cached \ DOMAIN a.mail : ~HasOp(u)}

ReconcileIndex(a) ==
  LET i == [u \in Cached \ Gone(a) |->
              IF u \in DOMAIN a.mail
                THEN [inst[u] EXCEPT !.seen = Overlay(u, a.mail[u].seen)]
                ELSE inst[u]]
      outside == {u \in DOMAIN i \ DOMAIN a.mail : ~i[u].hidden}
      inside == DOMAIN i \cap DOMAIN a.mail
      count == Cardinality(DOMAIN a.mail) + Cardinality(outside)
                 - Cardinality({u \in inside : i[u].hidden})
      new == Cardinality(UnseenIn(a) \ inside) + Cardinality(UnreadOf(i, DOMAIN i))
  IN /\ inst' = i /\ CascadeOps(DOMAIN i) /\ UNCHANGED cursor
     /\ total' = Max0(count) /\ unread' = Clamp(new, Max0(count))
     /\ view' = [known |-> TRUE, uids |-> DOMAIN a.mail, unseen |-> UnseenIn(a)]
     /\ body' = [l \in Letters |-> IF \E u \in DOMAIN i : i[u].letter = l
                                     THEN body[l] ELSE 0]

-----------------------------------------------------------------------------
(***************************************************************************)
(* The pass.                                                               *)
(***************************************************************************)

Goto(label) == pc' = label
PassEnds == pc' = "idle" /\ plan' = NoPlan /\ answer' = NoAnswer
Rest == UNCHANGED <<serverVars, events>>
CacheKept == UNCHANGED <<opVars, cacheVars, body, reader>>

\* LIST has been answered; the cursor and the counters are read in one go.
StartPass(mode) ==
  /\ pc = "idle"
  /\ Goto("examine")
  /\ plan' = [NoPlan EXCEPT !.mode = mode, !.expect = cursor.validity,
                            !.since = cursor.last,
                            !.knownTotal = IF mode = "quick" THEN total ELSE 0,
                            !.knownUnread = IF mode = "quick" THEN unread ELSE 0]
  /\ UNCHANGED answer /\ CacheKept /\ Rest

\* select_mailbox and SEARCH UNSEEN, at the start of every FETCH function.
Examine ==
  /\ pc \in {"examine", "history"}
  /\ answer' = [NoAnswer EXCEPT !.validity = validity, !.total = Cardinality(Present),
                                !.unread = Cardinality(Unseen)]
  /\ Goto(IF pc = "examine" THEN "search" ELSE "older")
  /\ UNCHANGED plan /\ CacheKept /\ Rest

Newest(U, n) == {u \in U : Cardinality({w \in U : w > u}) < n}
Oldest(U, n) == {u \in U : Cardinality({w \in U : w < u}) < n}

\* The newest of the new messages: what lies between is skipped.
ForwardNewest(since) == Newest({u \in Present : u > since}, PageSize)

\* fetch_messages_on_session: from the cursor the oldest new messages, without one the
\* newest of all.
ForwardPage(since) ==
  IF since = 0 THEN Newest(Present, PageSize)
    ELSE Oldest({u \in Present : u > since}, PageSize)

\* UID SEARCH and UID FETCH; the session does not survive a new UIDVALIDITY.  An
\* answer for another UIDVALIDITY than the cursor's is thrown away (fetch_snapshot).
SearchAndFetch ==
  /\ pc = "search" /\ answer.validity = validity
  /\ IF plan.expect \notin {0, validity} /\ plan.since # 0
       THEN /\ Goto("examine") /\ answer' = NoAnswer
            /\ plan' = [plan EXCEPT !.since = 0]
       ELSE /\ Goto("received") /\ UNCHANGED plan
            /\ answer' = [answer EXCEPT
                 !.complete = plan.since = 0 /\ Cardinality(Present) <= PageSize,
                 !.mail = MailAt(ForwardPage(plan.since))]
  /\ CacheKept /\ Rest

\* A watchdog pass that finds nothing new and the counters it knows.
IsQuiet ==
  /\ plan.mode = "quick" /\ answer.mail = Empty
  /\ plan.expect = answer.validity
  /\ plan.knownTotal = answer.total /\ plan.knownUnread = answer.unread

\* Nothing is read from the folder in a quiet pass, which goes on to the queue.
SkipQuietFolder ==
  /\ pc = "received" /\ IsQuiet
  /\ Goto("flush") /\ answer' = NoAnswer /\ UNCHANGED plan
  /\ CacheKept /\ Rest

\* The next page from the last UID of a full one (next_incremental_plan).
HasFollowUp ==
  /\ plan.since # 0 /\ plan.expect = answer.validity
  /\ ~answer.complete /\ Cardinality(DOMAIN answer.mail) = PageSize

ApplyForwardPage(withBodies) ==
  /\ pc = "received" /\ ~IsQuiet /\ IsConsistent(answer)
  /\ plan.mode = "quick" => ~withBodies
  /\ ApplyImapSnapshot(answer, withBodies)
  /\ LET limited == HasFollowUp /\ plan.page + 1 >= ForwardPages
         again == HasFollowUp /\ ~limited
     IN /\ plan' = [plan EXCEPT !.page = IF again THEN @ + 1 ELSE 0,
                       !.since = IF again THEN Max(DOMAIN answer.mail) ELSE 0,
                       !.expect = answer.validity, !.remote = answer.total,
                       !.forward = limited]
        /\ Goto(IF again THEN "examine"
                  ELSE IF answer.complete THEN "flush" ELSE "index")
  /\ answer' = NoAnswer
  /\ Rest

\* FETCH 1:* (UID FLAGS): membership and flags in one answer.
FetchMailboxIndex ==
  /\ pc = "index"
  /\ IF validity = plan.expect
       THEN /\ answer' = [NoAnswer EXCEPT !.validity = validity,
                            !.total = Cardinality(Present), !.mail = MailAt(Present)]
            /\ Goto("indexed") /\ UNCHANGED plan
       ELSE PassEnds
  /\ CacheKept /\ Rest

ReconcileMailboxIndex ==
  /\ pc = "indexed"
  /\ IF IdentityChanged(answer)
       THEN PassEnds /\ UNCHANGED <<opVars, cacheVars, body>>
       ELSE /\ ReconcileIndex(answer)
            /\ plan' = [plan EXCEPT !.remote = answer.total]
            /\ answer' = NoAnswer /\ Goto("flush")
  /\ UNCHANGED reader /\ Rest

\* flush_pending_operations: one row, executed by the server and completed.  The UID may
\* be gone by then, which the server does not mind.
UploadFlags(u) ==
  /\ pc = "flush" /\ flag[u] # "none" /\ inst[u].validity = validity
  /\ srvRead' = IF u \notin Present THEN srvRead
                  ELSE IF flag[u] = "read" THEN srvRead \cup {LetterAt(u)}
                  ELSE srvRead \ {LetterAt(u)}
  /\ flag' = [flag EXCEPT ![u] = "none"]
  /\ UNCHANGED <<moving, cacheVars, body, passVars, reader, validity, uid, box, arrived,
                 events>>

UploadMove(u) ==
  /\ pc = "flush" /\ u \in moving /\ flag[u] = "none" /\ inst[u].validity = validity
  /\ box' = IF u \in Present THEN box \ {LetterAt(u)} ELSE box
  /\ moving' = moving \ {u}
  /\ UNCHANGED <<flag, cacheVars, body, passVars, reader, validity, uid, arrived, srvRead,
                 events>>

\* The counters forget that the row is back.
RestoreUncounted(u) ==
  /\ inst' = IF u \in moving THEN [inst EXCEPT ![u].hidden = FALSE] ELSE inst
  /\ UNCHANGED <<total, unread>>

\* restore_message_instance.
Restore(u) ==
  IF u \in moving /\ inst[u].hidden
    THEN /\ inst' = [inst EXCEPT ![u].hidden = FALSE]
         /\ total' = total + 1
         /\ unread' = IF inst[u].seen THEN unread ELSE unread + 1
    ELSE UNCHANGED <<inst, total, unread>>

\* The server refuses the row, or the folder has another UIDVALIDITY by now.  Of two rows
\* of a message the flags are the older one: a shown message is marked, a hidden one not.
OperationRefused(u) ==
  /\ pc = "flush" /\ u \in Cached /\ HasOp(u)
  /\ IF inst[u].validity = validity THEN Event ELSE UNCHANGED events
  /\ IF flag[u] # "none"
       THEN /\ flag' = [flag EXCEPT ![u] = "none"]
            /\ UNCHANGED <<moving, inst, total, unread>>
       ELSE moving' = moving \ {u} /\ Restore(u) /\ UNCHANGED flag
  /\ PassEnds
  /\ UNCHANGED <<cursor, view, body, reader, serverVars>>

\* Only a folder whose new mail is complete goes on with its history.
FlushDone ==
  /\ pc = "flush" /\ \A u \in Cached : ~HasOp(u)
  /\ IF plan.mode = "full" /\ ~plan.forward
       THEN /\ Goto("window") /\ UNCHANGED answer
            /\ plan' = [plan EXCEPT !.page = 0]
       ELSE PassEnds
  /\ CacheKept /\ Rest

\* imap_sync_window and next_backfill_before_uid.
WindowUids == {u \in Visible : inst[u].validity = cursor.validity}
BackfillBefore ==
  IF Cardinality(WindowUids) < plan.remote /\ WindowUids # {} /\ Min(WindowUids) > 1
    THEN Min(WindowUids) ELSE 0

LoadWindow ==
  /\ pc = "window"
  /\ IF plan.page < HistoryPages /\ cursor.validity = plan.expect /\ BackfillBefore # 0
       THEN /\ Goto("history") /\ UNCHANGED answer
            /\ plan' = [plan EXCEPT !.before = BackfillBefore]
       ELSE PassEnds
  /\ CacheKept /\ Rest

\* fetch_messages_before_on_session: the newest messages below the window.
FetchHistoryPage ==
  /\ pc = "older" /\ answer.validity = validity
  /\ IF validity = plan.expect
       THEN /\ answer' = [answer EXCEPT !.mail =
                            MailAt(Newest({u \in Present : u < plan.before}, PageSize))]
            /\ Goto("olderReceived") /\ UNCHANGED plan
       ELSE PassEnds
  /\ CacheKept /\ Rest

ApplyHistoryPage ==
  /\ pc = "olderReceived" /\ IsConsistent(answer)
  /\ ApplyImapSnapshot(answer, FALSE)
  /\ IF Cardinality(DOMAIN answer.mail) < PageSize
       THEN PassEnds
       ELSE /\ Goto("window") /\ answer' = NoAnswer
            /\ plan' = [plan EXCEPT !.page = @ + 1, !.before = 0, !.remote = answer.total]
  /\ Rest

\* A Protocol error of the pass: the answer contradicts itself, or the folder was
\* renumbered between two commands of one session.
PassFails ==
  /\ \/ pc = "received" /\ ~IsQuiet /\ ~IsConsistent(answer)
     \/ pc \in {"search", "older"} /\ answer.validity # validity
     \/ pc = "olderReceived" /\ ~IsConsistent(answer)
  /\ PassEnds /\ CacheKept /\ Rest

\* The pass is cancelled or replaced, the network fails or the process dies.
PassStops ==
  /\ pc # "idle" /\ Event
  /\ PassEnds /\ CacheKept /\ UNCHANGED serverVars

-----------------------------------------------------------------------------
(***************************************************************************)
(* The user.                                                               *)
(***************************************************************************)

\* Of several rows for one message the last one counts (PendingOperations uploads each).
MutateMessage(u, read) ==
  /\ u \in Visible /\ Event
  /\ inst' = [inst EXCEPT ![u].seen = read]
  /\ unread' = IF inst[u].seen = read THEN unread
                 ELSE IF read THEN Max0(unread - 1) ELSE unread + 1
  /\ flag' = [flag EXCEPT ![u] = IF read THEN "read" ELSE "unread"]
  /\ UNCHANGED <<moving, cursor, total, view, body, passVars, reader, serverVars>>

\* move_messages, delete_messages: hide_message_instance and a row in the queue.
HideMessage(u) ==
  /\ u \in Visible /\ Event
  /\ inst' = [inst EXCEPT ![u].hidden = TRUE]
  /\ total' = Max0(total - 1)
  /\ unread' = IF inst[u].seen THEN unread ELSE Max0(unread - 1)
  /\ moving' = moving \cup {u}
  /\ UNCHANGED <<flag, cursor, view, body, passVars, reader, serverVars>>

\* Fetches under way do not notice that the cache was cleared.
ClearUnnoticed ==
  /\ Event /\ body' = [l \in Letters |-> 0]
  /\ reader' = [reader EXCEPT !.cleared = reader.uid # 0]
  /\ UNCHANGED <<opVars, cacheVars, passVars, serverVars>>

ClearCache ==
  /\ Event /\ body' = [l \in Letters |-> 0]
  /\ reader' = [reader EXCEPT !.revised = reader.uid # 0, !.cleared = reader.uid # 0]
  /\ UNCHANGED <<opVars, cacheVars, passVars, serverVars>>

\* fetch_message_body: imap_body_locator, then the request without the database lock.
OpenMessage(u) ==
  /\ reader = NoReader /\ u \in Visible /\ inst[u].letter \in Opened /\ body[inst[u].letter] = 0
  /\ reader' = [NoReader EXCEPT !.uid = u, !.letter = inst[u].letter,
                                !.validity = inst[u].validity]
  /\ UNCHANGED <<opVars, cacheVars, body, passVars, serverVars, events>>

ReaderOnly == UNCHANGED <<serverVars, opVars, cacheVars, body, passVars, events>>

\* Only the UID is compared.
BodyHasUid == TRUE

\* validate_fetched_identity: the folder still has the UIDVALIDITY of the locator.
BodyIsOfLocator == validity = reader.validity

BodyFetched ==
  /\ reader.uid # 0 /\ reader.got = 0
  /\ reader' = IF reader.uid \in Present /\ BodyIsOfLocator
                 THEN [reader EXCEPT !.got = LetterAt(reader.uid)] ELSE NoReader
  /\ ReaderOnly

BodyFetchFails ==
  /\ reader.uid # 0 /\ reader.got = 0 /\ reader' = NoReader /\ ReaderOnly

\* store_hydrated_message_body: only for the instance and the revision it was asked for.
StoreHydratedBody ==
  /\ reader.got # 0
  /\ body' = IF /\ reader.uid \in Visible
                /\ inst[reader.uid].letter = reader.letter
                /\ inst[reader.uid].validity = reader.validity
                /\ body[reader.letter] = 0 /\ ~reader.revised
               THEN [body EXCEPT ![reader.letter] = reader.got] ELSE body
  /\ reader' = NoReader
  /\ UNCHANGED <<serverVars, opVars, cacheVars, passVars, events>>

-----------------------------------------------------------------------------
Server ==
  \/ Arrive \/ Renumber
  \/ \E l \in box : ElsewhereExpunged(l) \/ ElsewhereMarked(l)

User ==
  \/ \E u \in Uids : (\E read \in BOOLEAN : MutateMessage(u, read)) \/ HideMessage(u)
  \/ ClearCache \/ \E u \in Uids : OpenMessage(u)

Reading == BodyFetched \/ BodyFetchFails \/ StoreHydratedBody

PassStep ==
  \/ Examine \/ SearchAndFetch \/ SkipQuietFolder
  \/ \E withBodies \in BOOLEAN : ApplyForwardPage(withBodies)
  \/ FetchMailboxIndex \/ ReconcileMailboxIndex
  \/ \E u \in Uids : UploadFlags(u) \/ UploadMove(u) \/ OperationRefused(u)
  \/ FlushDone \/ LoadWindow \/ FetchHistoryPage \/ ApplyHistoryPage \/ PassFails

Next ==
  \/ Server \/ User \/ Reading \/ PassStep \/ PassStops
  \/ \E mode \in {"full", "quick"} : StartPass(mode)

Spec == Init /\ [][Next]_vars

\* A pass takes its steps; the maintenance timer starts a pass that reads history again
\* and again, whatever other passes run in between.  Nobody has to open a message.
Fairness == WF_vars(PassStep) /\ SF_vars(StartPass("full"))

FairSpec == Spec /\ Fairness

-----------------------------------------------------------------------------
(***************************************************************************)
(* Properties.                                                             *)
(***************************************************************************)

\* Every cached instance belongs to the letter that had its UID under the UIDVALIDITY of
\* the cursor: UIDs of two lives of a folder are never joined.
IdentityHolds ==
  \A u \in Cached : /\ inst[u].validity = cursor.validity
                    /\ uid[inst[u].validity][inst[u].letter] = u

\* No letter is missing between the oldest one that is cached and the cursor: pages,
\* limits, cancelled passes and arrivals in between leave no hole that no later pass
\* would ever look at.
NoHole ==
  cursor.validity = validity /\ Cached # {} =>
    {u \in Present : Min(Cached) <= u /\ u <= cursor.last} \subseteq Cached

\* Since the last complete index, the counters of the folder are those of the messages in
\* it with every change of the user applied, however those were queued, uploaded or refused.
CountersAreExact ==
  view.known =>
    /\ total = Cardinality((view.uids \ Cached) \cup Visible)
    /\ unread = Cardinality((view.unseen \ Cached) \cup UnreadOf(inst, Cached))

\* What the user has chosen and the server does not have yet is what the cache shows.
IntentIsShown ==
  \A u \in Uids : /\ flag[u] # "none" => u \in Cached /\ inst[u].seen = (flag[u] = "read")
                  /\ u \in moving => u \in Cached /\ inst[u].hidden

\* A text is stored only in the row of its own letter, and never by a fetch that was under
\* way when the user cleared the cache.
GenuineBodies ==
  /\ \A l \in Letters : body'[l] \in {0, l, body[l]}
  /\ reader.cleared /\ reader' = NoReader => body' = body

BodiesAreGenuine == [][GenuineBodies]_vars

\* The folder as the interface shows it is the folder of the server.
Converged ==
  /\ cursor.validity = validity /\ Visible = Present
  /\ \A u \in Visible : inst[u].seen = (u \notin Unseen)

\* When the user and the other clients leave the folder alone, the passes bring the cache
\* up to date for good, unless nothing of the folder is left in the cache.
CacheConverges == <>[](Converged \/ (Visible = {} /\ \A u \in Cached : ~HasOp(u)))

\* The comment on MAX_BACKFILL_PAGES_PER_MAILBOX (sync_service.rs:22-24): "The persisted oldest UID
\* makes the next sync resume where this one stopped instead of permanently limiting the
\* mailbox to the newest page."
HistoryIsLoaded == <>[]Converged
=============================================================================
