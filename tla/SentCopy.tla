------------------------------ MODULE SentCopy ------------------------------
(***************************************************************************)
(* The outbox together with the Sent folder of its account.  Many servers  *)
(* file a copy of what they take for delivery; the program never appends   *)
(* one.  A pass that lists the Sent folder confirms the copy of a row by   *)
(* its Message-ID (apply_imap_snapshot), and a delivery that succeeds asks *)
(* for such a pass (start_sync_if_idle).                                   *)
(*                                                                         *)
(* Outbox contributes its actions.  Of the pass only what happens to the   *)
(* Sent folder is here, and of the folder only copies of what the outbox   *)
(* sent: MailCache has the walk over a folder, SyncSlot the slot.          *)
(***************************************************************************)
EXTENDS Outbox

CONSTANT
  ParsedForm   \* how the MIME parser hands out the Message-ID of a header: "bracketed"
               \* (<id@domain>) as the tests of the database have it, or "bare"

ASSUME SentCopyAssumption == ParsedForm \in {"bracketed", "bare"}

VARIABLES
  filed,       \* copies in the Sent folder on the server
  everFiled,   \* history: copies that ever were
  cached,      \* copies with an instance of the Sent mailbox in the database
  hidden,      \* of those, the ones the user has moved away (is_deleted)
  listed,      \* copies at or below the cursor of the mailbox
  pass, mode,  \* how far the pass is with the Sent folder, and its SyncMode
  answer       \* the new copies of the snapshot it holds in memory

folderVars == <<filed, everFiled>>
cacheVars  == <<cached, hidden, listed>>
passVars   == <<pass, mode, answer>>
sentVars   == <<folderVars, cacheVars, passVars>>
allVars    == <<vars, sentVars>>

SentTypeOK ==
  /\ TypeOK
  /\ filed \subseteq everFiled /\ everFiled \subseteq accepted
  /\ cached \subseteq listed /\ hidden \subseteq cached /\ listed \subseteq everFiled
  /\ pass \in {"idle", "started", "answered", "index", "walked"}
  /\ mode \in {"full", "quick"}
  /\ answer \subseteq everFiled

SentInit ==
  /\ Init
  /\ filed = {} /\ everFiled = {}
  /\ cached = {} /\ hidden = {} /\ listed = {}
  /\ pass = "idle" /\ mode = "full" /\ answer = {}

-----------------------------------------------------------------------------
(***************************************************************************)
(* The Sent folder on the server, and the user.                            *)
(***************************************************************************)

\* The server files a copy of what it took, at once, later or never.
File(t) ==
  /\ t \in accepted \ everFiled
  /\ filed' = filed \cup {t} /\ everFiled' = everFiled \cup {t}
  /\ UNCHANGED <<vars, cacheVars, passVars>>

\* Another client deletes or moves the copy, or this one uploads such a change.
Expunge(t) ==
  /\ t \in filed
  /\ filed' = filed \ {t}
  /\ UNCHANGED <<vars, everFiled, cacheVars, passVars>>

\* The user deletes or moves the copy here.
HideCopy(t) ==
  /\ attached /\ t \in cached \ hidden
  /\ hidden' = hidden \cup {t}
  /\ UNCHANGED <<vars, folderVars, cached, listed, passVars>>

\* The server refuses to carry that out.
RestoreCopy(t) ==
  /\ attached /\ t \in hidden
  /\ hidden' = hidden \ {t}
  /\ UNCHANGED <<vars, folderVars, cached, listed, passVars>>

-----------------------------------------------------------------------------
(***************************************************************************)
(* Confirmation.                                                           *)
(***************************************************************************)

\* The Message-ID of the payload row, and the one of a message in the cache.
PayloadId(i) == [item |-> i, mid |-> messageId[i], form |-> "bracketed"]
CachedId(t) == [item |-> t.item, mid |-> t.mid, form |-> ParsedForm]

\* A snapshot of the Sent folder confirms what waits for it, whatever it holds.
ConfirmAnything(shown) ==
  [i \in Items |->
     IF sentCopy[i] = "awaiting_server_sync" /\ row[i] = "sent"
       THEN "confirmed" ELSE sentCopy[i]]

\* The UPDATE at the end of apply_imap_snapshot, given the copies the cache shows.
Confirm(shown) ==
  [i \in Items |->
     IF /\ sentCopy[i] = "awaiting_server_sync" /\ row[i] = "sent"
        /\ \E t \in shown : CachedId(t) = PayloadId(i)
       THEN "confirmed" ELSE sentCopy[i]]

-----------------------------------------------------------------------------
(***************************************************************************)
(* The pass.                                                               *)
(***************************************************************************)
RestOfOutbox == UNCHANGED <<row, messageId, account, taskVars, appVars, serverVars,
                            attempt, decision, countVars>>

StartPass(m) ==
  /\ attached /\ account = "enabled" /\ pass = "idle"
  /\ pass' = "started" /\ mode' = m
  /\ UNCHANGED <<vars, folderVars, cacheVars, answer>>

\* The pass reaches the Sent folder and asks for what lies above the cursor.
FetchSent ==
  /\ pass = "started"
  /\ pass' = "answered" /\ answer' = filed \ listed
  /\ UNCHANGED <<vars, folderVars, cacheVars, mode>>

\* A quick pass that finds nothing new, and the counters it knows: no transaction.
SkipQuietSent ==
  /\ pass = "answered" /\ mode = "quick" /\ answer = {}
  /\ pass' = "walked"
  /\ UNCHANGED <<vars, folderVars, cacheVars, mode, answer>>

\* A snapshot without new messages is not applied in any mode.
ApplySentIfNew ==
  /\ pass = "answered" /\ account # "removed"
  /\ cached' = cached \cup answer /\ listed' = listed \cup answer
  /\ sentCopy' = IF answer = {} THEN sentCopy ELSE Confirm(cached' \ hidden)
  /\ pass' = "index" /\ answer' = {}
  /\ RestOfOutbox /\ UNCHANGED <<folderVars, hidden, mode>>

\* apply_imap_snapshot: the new copies, the cursor and the confirmations of the
\* whole folder in one transaction.
ApplySent ==
  /\ pass = "answered" /\ account # "removed"
  /\ cached' = cached \cup answer /\ listed' = listed \cup answer
  /\ sentCopy' = Confirm(cached' \ hidden)
  /\ pass' = "index" /\ answer' = {}
  /\ RestOfOutbox /\ UNCHANGED <<folderVars, hidden, mode>>

\* The rows go, what hangs on them stays.
ReconcileOnlyInstances ==
  /\ pass = "index" /\ account # "removed"
  /\ cached' = cached \cap filed /\ UNCHANGED hidden
  /\ pass' = "walked"
  /\ UNCHANGED <<vars, folderVars, listed, mode, answer>>

\* reconcile_imap_mailbox_index: instances go that the server no longer has.
ReconcileSent ==
  /\ pass = "index" /\ account # "removed"
  /\ cached' = cached \cap filed /\ hidden' = hidden \cap filed
  /\ pass' = "walked"
  /\ UNCHANGED <<vars, folderVars, listed, mode, answer>>

\* A page of the folder's history, if any is left: its snapshot confirms as well.
ApplyOlderPage ==
  /\ pass = "walked" /\ mode = "full" /\ account # "removed"
  /\ sentCopy' = Confirm(cached \ hidden)
  /\ RestOfOutbox /\ UNCHANGED sentVars

EndPass == pass' = "idle" /\ answer' = {} /\ UNCHANGED mode

\* The pass reports success.
PassCompletes ==
  /\ pass = "walked" /\ account # "removed"
  /\ EndPass
  /\ UNCHANGED <<vars, folderVars, cacheVars>>

\* It is cancelled, replaced, or fails.
PassStops ==
  /\ pass # "idle"
  /\ EndPass
  /\ UNCHANGED <<vars, folderVars, cacheVars>>

-----------------------------------------------------------------------------
(***************************************************************************)
(* Steps of the outbox that concern the Sent folder.                       *)
(***************************************************************************)

\* start_sync_if_idle after a success: a full pass, or the one that is running.
\* The session of a disabled account cannot be loaded.
AskForPass(w) ==
  /\ RequestReconciliation(w)
  /\ IF pass = "idle"
       THEN /\ pass' = IF account = "enabled" THEN "started" ELSE "idle"
            /\ mode' = "full"
       ELSE UNCHANGED <<pass, mode>>
  /\ UNCHANGED <<folderVars, cacheVars, answer>>

\* The cascade takes the mailboxes and their messages.
RemoveAccountAndMail ==
  /\ RemoveAccount
  /\ cached' = {} /\ hidden' = {} /\ listed' = {}
  /\ UNCHANGED <<folderVars, passVars>>

\* The pass dies with the process.
CrashWithPass ==
  /\ CrashAndReopen /\ EndPass
  /\ UNCHANGED <<folderVars, cacheVars>>

OutboxAlone ==
  \/ \E i \in Items : ComposeDelivery(i) \/ CancelOutboxItem(i) \/ SpawnQueued(i)
  \/ \E w \in Workers, i \in Items : RetryOutboxItem(w, i)
  \/ SetAccountEnabled
  \/ Setup
  \/ \E w \in Workers : (pc[w] # "reconcile" /\ Deliver(w)) \/ DatabaseFault(w)
  \/ \E t \in wire : ServerAccepts(t)

PassWorks == FetchSent \/ SkipQuietSent \/ ApplySent \/ ReconcileSent \/ PassCompletes

SentNext ==
  \/ OutboxAlone /\ UNCHANGED sentVars
  \/ \E w \in Workers : AskForPass(w)
  \/ RemoveAccountAndMail
  \/ CrashWithPass
  \/ \E t \in accepted : File(t) \/ Expunge(t) \/ HideCopy(t) \/ RestoreCopy(t)
  \/ \E m \in {"full", "quick"} : StartPass(m)
  \/ PassWorks
  \/ ApplyOlderPage
  \/ PassStops

SentSpec == SentInit /\ [][SentNext]_allVars

\* A pass that stops or the network lets down is started again, by the user or the
\* supervisor (Realtime has its schedule), and not every full pass comes to nothing.
SentFairness ==
  /\ WF_allVars(PassWorks)
  /\ SF_allVars(StartPass("full"))
  /\ SF_allVars(mode = "full" /\ FetchSent)
  /\ SF_allVars(mode = "full" /\ ApplySent)

FairSentSpec == SentSpec /\ Fairness /\ SentFairness

-----------------------------------------------------------------------------
(***************************************************************************)
(* Properties.                                                             *)
(***************************************************************************)
CopyOf(i, C) == {t \in C : t.item = i /\ t.mid = messageId[i]}

\* The interface says of a message that the server keeps a copy only when the Sent
\* folder has held one with its Message-ID, whatever else arrived there, and never of
\* a row that may be sent again.
ConfirmedWasFiled ==
  \A i \in Items : sentCopy[i] = "confirmed" =>
    row[i] = "sent" /\ CopyOf(i, everFiled) # {}

\* A row whose copy is in the Sent folder to stay does not wait for confirmation for
\* ever, also when the copy was cached before SMTP success was recorded: the
\* confirmation does not need the copy to be new.
CopyIsConfirmed ==
  \A i \in Items :
    ~ <>[](/\ account = "enabled" /\ attached
           /\ sentCopy[i] = "awaiting_server_sync"
           /\ CopyOf(i, filed \ hidden) # {})
=============================================================================
