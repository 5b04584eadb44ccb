-------------------------- MODULE PendingOperations --------------------------
(***************************************************************************)
(* What the user does to one cached message while offline or online: the   *)
(* rows of pending_operations, the projection of the message that the      *)
(* interface shows, the passes that upload the rows                        *)
(* (sync_service::flush_pending_operations) and bring the server's view    *)
(* back, and the IMAP server as far as it concerns this message.           *)
(*                                                                         *)
(* The message is either read or not and sits in its source folder or has  *)
(* been moved away; a row marks it read, marks it unread, or moves it.     *)
(* Rows are numbered in the order the user created them.  A pass whose     *)
(* slot was taken keeps running until it looks, as in SyncSlot.            *)
(***************************************************************************)
EXTENDS Integers

CONSTANTS
  Passes,        \* passes that can be alive at once
  NoPass,        \* the slot is free
  MaxOps,        \* bound: rows the user creates
  MaxPerPass,    \* MAX_PENDING_OPERATIONS_PER_SYNC
  MaxTakeovers,  \* bound: manual starts over a running pass, and cancels
  MaxStops,      \* bound: parents of a pass's token that stop
  MaxFaults,     \* bound: network errors and refusals of the server
  MaxRestarts    \* bound: crashes of the process

ASSUME PendingAssumption ==
  /\ NoPass \notin Passes
  /\ MaxOps \in Nat /\ MaxPerPass \in Nat \ {0}
  /\ MaxTakeovers \in Nat /\ MaxStops \in Nat
  /\ MaxFaults \in Nat /\ MaxRestarts \in Nat

VARIABLES
  issued,           \* rows created so far
  kind, state,      \* of each row
  read, place,      \* the message as the interface shows it
  srvRead, srvPlace, \* the message at the server
  slot, cancelled,  \* SyncCoordinator, as in SyncSlot
  pc, hand, count,  \* per pass: where it is, the row it holds, rows completed
  seen,             \* per pass: the server's view it has fetched
  applied,          \* history: rows the server has carried out
  takeovers, stops, faults, restarts \* counters of the bounds

rowVars    == <<issued, kind, state>>
localVars  == <<read, place>>
serverVars == <<srvRead, srvPlace, applied>>
slotVars   == <<slot, cancelled>>
passVars   == <<pc, hand, count, seen>>
countVars  == <<takeovers, stops, faults, restarts>>
vars == <<rowVars, localVars, serverVars, slotVars, passVars, countVars>>

Ops == 1 .. MaxOps
NoOp == 0

Kind == {"read", "unread", "move"}
OpState == {"absent", "pending", "sending", "failed", "conflicted", "done"}
Outstanding == {"pending", "sending", "failed"}
Place == {"shown", "hidden", "gone"}
ServerPlace == {"source", "target"}
PassState == {"idle", "fetching", "fetched", "flushing", "claimed", "checked",
              "sending", "answered"}
View == [read : BOOLEAN, place : ServerPlace]

TypeOK ==
  /\ issued \in 0 .. MaxOps
  /\ kind \in [Ops -> Kind] /\ state \in [Ops -> OpState]
  /\ read \in BOOLEAN /\ place \in Place
  /\ srvRead \in BOOLEAN /\ srvPlace \in ServerPlace
  /\ applied \subseteq Ops
  /\ slot \in Passes \cup {NoPass} /\ cancelled \subseteq Passes
  /\ pc \in [Passes -> PassState]
  /\ hand \in [Passes -> Ops \cup {NoOp}]
  /\ count \in [Passes -> 0 .. MaxPerPass]
  /\ seen \in [Passes -> View]
  /\ takeovers \in Nat /\ stops \in Nat /\ faults \in Nat /\ restarts \in Nat

Nothing == [read |-> FALSE, place |-> "source"]

\* A synchronised, unread message.
Init ==
  /\ issued = 0
  /\ kind = [i \in Ops |-> "read"] /\ state = [i \in Ops |-> "absent"]
  /\ read = FALSE /\ place = "shown"
  /\ srvRead = FALSE /\ srvPlace = "source" /\ applied = {}
  /\ slot = NoPass /\ cancelled = {}
  /\ pc = [p \in Passes |-> "idle"]
  /\ hand = [p \in Passes |-> NoOp]
  /\ count = [p \in Passes |-> 0]
  /\ seen = [p \in Passes |-> Nothing]
  /\ takeovers = 0 /\ stops = 0 /\ faults = 0 /\ restarts = 0

-----------------------------------------------------------------------------
(***************************************************************************)
(* The table of operations and the projection of the message.              *)
(***************************************************************************)

IsOutstanding(i) == state[i] \in Outstanding

FlagOps == {i \in Ops : kind[i] # "move"}
Moves   == {i \in Ops : kind[i] = "move"}

\* Latest of a set of rows, NoOp if there is none.
Latest(S) == IF S = {} THEN NoOp ELSE CHOOSE i \in S : \A j \in S : j <= i

\* A projection that takes the server's word.
WithoutOverlay(remote) == remote

\* overlay_pending_flags: rows that wait are put over the server's flags in the
\* order of their creation, so that the latest one decides.
OverlayPendingFlags(remote) ==
  LET waiting == {i \in FlagOps : IsOutstanding(i)}
  IN IF waiting = {} THEN remote ELSE kind[Latest(waiting)] = "read"

\* A claim that also picks rows another pass is sending.
ClaimableOrSending == {i \in Ops : IsOutstanding(i)}

\* The rows claim_pending_imap_operations looks at.
Claimable == {i \in Ops : state[i] \in {"pending", "failed"}}

\* A claim that takes the rows in the opposite order.
IsNextReversed(i) == i \in Claimable /\ \A j \in Claimable : j <= i

\* The row that is claimed: ORDER BY created_at, rowid LIMIT 1.
IsNext(i) == i \in Claimable /\ \A j \in Claimable : i <= j

\* A conflict that leaves the message hidden.
ConflictWithoutRestore(i) ==
  /\ state' = [state EXCEPT ![i] = "conflicted"]
  /\ UNCHANGED place

\* mark_pending_operation_conflicted and fail_pending_operation of an error that
\* is not retryable: a move gives the message back to its folder.
Conflict(i) ==
  /\ state' = [state EXCEPT ![i] = "conflicted"]
  /\ place' = IF kind[i] = "move" THEN "shown" ELSE place

\* The user marks the message read or unread (mutate_message, mutate_messages).
MutateMessage(k) ==
  /\ issued < MaxOps /\ place = "shown"
  /\ issued' = issued + 1
  /\ kind' = [kind EXCEPT ![issued + 1] = k]
  /\ state' = [state EXCEPT ![issued + 1] = "pending"]
  /\ read' = (k = "read")
  /\ UNCHANGED <<place, serverVars, slotVars, passVars, countVars>>

\* The user moves or deletes the message (move_messages, delete_messages).
MoveMessage ==
  /\ issued < MaxOps /\ place = "shown"
  /\ issued' = issued + 1
  /\ kind' = [kind EXCEPT ![issued + 1] = "move"]
  /\ state' = [state EXCEPT ![issued + 1] = "pending"]
  /\ place' = "hidden"
  /\ UNCHANGED <<read, serverVars, slotVars, passVars, countVars>>

-----------------------------------------------------------------------------
(***************************************************************************)
(* The slot and the server's view.                                         *)
(***************************************************************************)

Owns(p) == slot = p

Goto(p, label) ==
  /\ pc' = [pc EXCEPT ![p] = label]
  /\ UNCHANGED <<hand, count, seen>>

\* The pass ends; finish_current frees the slot if the pass still owns it.
EndPass(p) ==
  /\ pc' = [pc EXCEPT ![p] = "idle"]
  /\ hand' = [hand EXCEPT ![p] = NoOp]
  /\ count' = [count EXCEPT ![p] = 0]
  /\ seen' = [seen EXCEPT ![p] = Nothing]
  /\ slot' = IF Owns(p) THEN NoPass ELSE slot
  /\ cancelled' = cancelled \ {p}

\* try_start, by the timer or the listener.
TryStart(p) ==
  /\ pc[p] = "idle" /\ slot = NoPass
  /\ slot' = p
  /\ Goto(p, "fetching")
  /\ UNCHANGED <<cancelled, rowVars, localVars, serverVars, countVars>>

\* start, by the user, over a pass that is running.
StartOver(p) ==
  /\ pc[p] = "idle" /\ slot # NoPass /\ takeovers < MaxTakeovers
  /\ takeovers' = takeovers + 1
  /\ slot' = p /\ cancelled' = cancelled \cup {slot}
  /\ Goto(p, "fetching")
  /\ UNCHANGED <<rowVars, localVars, serverVars, stops, faults, restarts>>

\* cancel, by the user.
CancelSync ==
  /\ slot # NoPass /\ takeovers < MaxTakeovers
  /\ takeovers' = takeovers + 1
  /\ slot' = NoPass /\ cancelled' = cancelled \cup {slot}
  /\ UNCHANGED <<rowVars, localVars, serverVars, passVars, stops, faults, restarts>>

\* The listener that started the pass stops: the token, not the slot.
CancelParent(p) ==
  /\ slot = p /\ p \notin cancelled /\ stops < MaxStops
  /\ stops' = stops + 1
  /\ cancelled' = cancelled \cup {p}
  /\ UNCHANGED <<rowVars, localVars, serverVars, slot, passVars, takeovers,
                 faults, restarts>>

\* The FETCH of messages or of the index is answered.
FetchIndex(p) ==
  /\ pc[p] = "fetching"
  /\ seen' = [seen EXCEPT ![p] = [read |-> srvRead, place |-> srvPlace]]
  /\ pc' = [pc EXCEPT ![p] = "fetched"]
  /\ UNCHANGED <<hand, count, rowVars, localVars, serverVars, slotVars, countVars>>

\* The quiet check skips the index of an unchanged folder.
SkipIndex(p) ==
  /\ pc[p] = "fetching"
  /\ Goto(p, "flushing")
  /\ UNCHANGED <<rowVars, localVars, serverVars, slotVars, countVars>>

\* A request before the upload fails.
FetchFails(p) ==
  /\ pc[p] = "fetching" /\ faults < MaxFaults
  /\ faults' = faults + 1
  /\ EndPass(p)
  /\ UNCHANGED <<rowVars, localVars, serverVars, takeovers, stops, restarts>>

\* preserve_local_deletion of apply_imap_snapshot.
PlacedBySnapshot ==
  IF \E i \in Moves : IsOutstanding(i) THEN place ELSE "shown"

\* Where a message that is missing at the server ends up: rows that wait keep it.
PlacedWithoutServer ==
  IF \E i \in Ops : IsOutstanding(i) THEN place ELSE "gone"

\* apply_imap_snapshot of a page with the message, or
\* reconcile_imap_mailbox_index, under with_current.
ApplyIndex(p) ==
  /\ pc[p] = "fetched"
  /\ IF p \in cancelled \/ ~Owns(p)
       THEN EndPass(p) /\ UNCHANGED localVars
       ELSE /\ Goto(p, "flushing") /\ UNCHANGED slotVars
            /\ IF seen[p].place = "target"
                 THEN place' = PlacedWithoutServer /\ UNCHANGED read
                 ELSE \/ /\ place' = PlacedBySnapshot
                         /\ read' = OverlayPendingFlags(seen[p].read)
                      \/ /\ UNCHANGED place
                         /\ read' = IF place = "gone" THEN read
                                      ELSE OverlayPendingFlags(seen[p].read)
  /\ UNCHANGED <<rowVars, serverVars, countVars>>

-----------------------------------------------------------------------------
(***************************************************************************)
(* flush_pending_operations.                                               *)
(***************************************************************************)

\* The head of the loop and claim_pending_imap_operations.  A move whose target
\* folder is gone becomes a conflict, and the empty claim ends the upload.
ClaimOperation(p) ==
  /\ pc[p] = "flushing"
  /\ \/ /\ count[p] >= MaxPerPass \/ p \in cancelled \/ ~Owns(p) \/ Claimable = {}
        /\ EndPass(p)
        /\ UNCHANGED <<state, place>>
     \/ /\ count[p] < MaxPerPass /\ p \notin cancelled /\ Owns(p)
        /\ \E i \in Ops :
             /\ IsNext(i)
             /\ \/ /\ state' = [state EXCEPT ![i] = "sending"]
                   /\ hand' = [hand EXCEPT ![p] = i]
                   /\ pc' = [pc EXCEPT ![p] = "claimed"]
                   /\ UNCHANGED <<count, seen, slotVars, place>>
                \/ kind[i] = "move" /\ Conflict(i) /\ EndPass(p)
  /\ UNCHANGED <<issued, kind, read, serverVars, countVars>>

\* A check of the token that returns and leaves the row as it is.
CheckTokenAndReturn(p) ==
  /\ pc[p] = "claimed"
  /\ IF p \in cancelled THEN EndPass(p)
       ELSE Goto(p, "checked") /\ UNCHANGED slotVars
  /\ UNCHANGED <<rowVars, localVars, serverVars, countVars>>

\* token.is_cancelled: the row is put back as failed.
CheckToken(p) ==
  /\ pc[p] = "claimed"
  /\ IF p \in cancelled
       THEN EndPass(p) /\ state' = [state EXCEPT ![hand[p]] = "failed"]
       ELSE Goto(p, "checked") /\ UNCHANGED <<state, slotVars>>
  /\ UNCHANGED <<issued, kind, localVars, serverVars, countVars>>

\* publish_status(...)?: a pass that has lost the slot returns here, and nobody
\* puts the row back.
PublishStatus(p) ==
  /\ pc[p] = "checked"
  /\ IF Owns(p) THEN Goto(p, "sending") /\ UNCHANGED slotVars ELSE EndPass(p)
  /\ UNCHANGED <<rowVars, localVars, serverVars, countVars>>

\* The server carries the row out.  A UID that is not in the folder any more is
\* ignored (RFC 3501), so that a repeated move changes nothing.
ServerApplies(p) ==
  LET i == hand[p] IN
  /\ pc[p] = "sending"
  /\ applied' = applied \cup {i}
  /\ IF srvPlace = "target" THEN UNCHANGED <<srvRead, srvPlace>>
       ELSE /\ srvPlace' = IF kind[i] = "move" THEN "target" ELSE srvPlace
            /\ srvRead' = IF kind[i] = "move" THEN srvRead ELSE kind[i] = "read"
  /\ Goto(p, "answered")
  /\ UNCHANGED <<rowVars, localVars, slotVars, countVars>>

\* The tagged OK arrives: complete_pending_operation, whoever owns the slot.
CompletePendingOperation(p) ==
  /\ pc[p] = "answered"
  /\ state' = [state EXCEPT ![hand[p]] = "done"]
  /\ IF p \in cancelled
       THEN EndPass(p)
       ELSE /\ pc' = [pc EXCEPT ![p] = "flushing"]
            /\ hand' = [hand EXCEPT ![p] = NoOp]
            /\ count' = [count EXCEPT ![p] = @ + 1]
            /\ UNCHANGED <<seen, slotVars>>
  /\ UNCHANGED <<issued, kind, localVars, serverVars, countVars>>

\* The connection breaks before or after the server has carried the row out; a
\* command on a connection that was given up is not carried out later.
OperationFails(p) ==
  /\ pc[p] \in {"sending", "answered"} /\ faults < MaxFaults
  /\ faults' = faults + 1
  /\ state' = [state EXCEPT ![hand[p]] = "failed"]
  /\ EndPass(p)
  /\ UNCHANGED <<issued, kind, localVars, serverVars, takeovers, stops, restarts>>

\* An error that is not retryable: pending_operation_to_remote finds no target, the
\* server answers NO, or its answer to a command it did carry out is malformed or
\* too long (a Protocol error as well).
OperationRejected(p) ==
  /\ pc[p] \in {"sending", "answered"} /\ faults < MaxFaults
  /\ faults' = faults + 1
  /\ Conflict(hand[p])
  /\ EndPass(p)
  /\ UNCHANGED <<issued, kind, read, serverVars, takeovers, stops, restarts>>

-----------------------------------------------------------------------------
\* Recovery to a state the table does not know.
RecoverAsInterrupted ==
  [i \in Ops |-> IF state[i] = "sending" THEN "interrupted" ELSE state[i]]

\* Recovery that takes an interrupted row for a finished one.
RecoverAsDone ==
  [i \in Ops |-> IF state[i] = "sending" THEN "done" ELSE state[i]]

\* recover_interrupted_pending_operations, run by Database::open.
RecoverInterrupted ==
  [i \in Ops |-> IF state[i] = "sending" THEN "failed" ELSE state[i]]

CrashAndReopen ==
  /\ restarts < MaxRestarts
  /\ restarts' = restarts + 1
  /\ state' = RecoverInterrupted
  /\ slot' = NoPass /\ cancelled' = {}
  /\ pc' = [p \in Passes |-> "idle"]
  /\ hand' = [p \in Passes |-> NoOp]
  /\ count' = [p \in Passes |-> 0]
  /\ seen' = [p \in Passes |-> Nothing]
  /\ UNCHANGED <<issued, kind, localVars, serverVars, takeovers, stops, faults>>

Run(p) ==
  \/ FetchIndex(p) \/ SkipIndex(p) \/ FetchFails(p) \/ ApplyIndex(p)
  \/ ClaimOperation(p) \/ CheckToken(p) \/ PublishStatus(p)
  \/ ServerApplies(p) \/ CompletePendingOperation(p)
  \/ OperationFails(p) \/ OperationRejected(p)

User == (\E k \in {"read", "unread"} : MutateMessage(k)) \/ MoveMessage

Next ==
  \/ User
  \/ \E p \in Passes : Run(p) \/ TryStart(p) \/ StartOver(p) \/ CancelParent(p)
  \/ CancelSync
  \/ CrashAndReopen

Spec == Init /\ [][Next]_vars

\* Threads run, requests end by an answer or a timeout, and the watchdog of an
\* automatic account starts a pass again and again (refresh_on_signals).  A row
\* is not sent for ever: the network fails or the server refuses finitely often.
Fairness ==
  /\ \A p \in Passes : WF_vars(Run(p))
  /\ WF_vars(\E p \in Passes : TryStart(p))

FairSpec == Spec /\ Fairness

-----------------------------------------------------------------------------
(***************************************************************************)
(* Properties.                                                             *)
(***************************************************************************)

\* A row is carried to the server by one pass at a time, also after the slot was
\* taken over, and that pass still finds it sending when the answer comes:
\* complete and fail never miss their row.
ExclusiveOperation ==
  \A p \in Passes : hand[p] # NoOp =>
    /\ state[hand[p]] = "sending"
    /\ \A q \in Passes : hand[q] = hand[p] => q = p

\* A row disappears only after the server has carried it out at least once,
\* however passes, answers and crashes interleave.
CompletedWasApplied ==
  \A i \in Ops : state[i] = "done" => i \in applied

\* A message the user cannot see is being moved or has been moved: no failed,
\* refused or interrupted move leaves it hidden in its folder.
HiddenIsExplained ==
  place = "hidden" =>
    srvPlace = "target" \/ \E i \in Moves : IsOutstanding(i)

\* A move that is still to be uploaded is never undone on the screen by an
\* answer of the server, however old the answer is.
MoveStaysHidden ==
  (\E i \in Moves : IsOutstanding(i)) => place = "hidden"

\* A row that is marked sending is in the hands of a pass.
NoStrandedOperation ==
  \A i \in Ops : state[i] = "sending" => \E p \in Passes : hand[p] = i

\* What the user chose last is what the screen shows, and what the server keeps
\* once every choice has been uploaded, unless the server refused one.
LastIntentWins ==
  LET chosen == {i \in FlagOps : state[i] # "absent"}
      intent == chosen # {} /\ kind[Latest(chosen)] = "read"
  IN (\A i \in chosen : state[i] # "conflicted") =>
       /\ place # "gone" => read = intent
       /\ srvPlace = "source" /\ (\A i \in chosen : state[i] = "done")
            => srvRead = intent

\* Nothing but taking a running pass over makes the last choice get lost: not an old
\* answer, a crash, a stopped listener or an error of the network.
IntentUntilTakeover == takeovers = 0 => LastIntentWins

\* Until a pass is taken over, rows reach the server in the order the user created
\* them: none is carried out while an earlier one still waits, fails or is under way.
OperationsInOrder ==
  [][takeovers = 0 =>
       \A i \in applied' \ applied :
         \A j \in Ops : j < i => ~IsOutstanding(j)]_vars

\* Every row is carried out or refused in the end, unless a pass was taken over.
OperationIsResolved ==
  \A i \in Ops :
    IsOutstanding(i) ~> state[i] \in {"done", "conflicted"} \/ takeovers > 0
=============================================================================
