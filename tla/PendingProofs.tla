---------------------------- MODULE PendingProofs ----------------------------
(***************************************************************************)
(* Proofs of the safety properties of PendingOperations for any number of  *)
(* operations, passes, takeovers, errors and crashes.                      *)
(*                                                                         *)
(* The argument: a pass holds a row exactly while it is between the claim  *)
(* and the outcome, the row is then sending and nobody else can claim it.  *)
(* So an outcome is always written to the row the server answered for.  A  *)
(* message is hidden by one move at a time, because only a shown message   *)
(* can be moved; that move alone decides whether the message comes back.   *)
(*                                                                         *)
(* The order of the rows, and with it the last choice of the user, is kept *)
(* only as long as nobody takes the slot from a pass: one pass runs at a   *)
(* time then, all rows below the one it holds are finished, and what it    *)
(* knows of the server is how the server is.                               *)
(***************************************************************************)
EXTENDS PendingOperations, TLAPS

\* Between the claim of a row and its outcome.
InFlight == {"claimed", "checked", "sending", "answered"}

HandInv ==
  \A p \in Passes :
    /\ pc[p] \in InFlight => hand[p] \in Ops /\ count[p] < MaxPerPass
    /\ pc[p] \notin InFlight => hand[p] = NoOp

AnsweredInv == \A p \in Passes : pc[p] = "answered" => hand[p] \in applied

UnissuedInv == \A i \in Ops : i > issued => state[i] = "absent" /\ i \notin applied

AppliedMoveInv == \A i \in applied : kind[i] = "move" => srvPlace = "target"

\* The moves that are still to be uploaded.
WaitingMoves == {i \in Moves : IsOutstanding(i)}

OneMoveWaits == \A i, j \in WaitingMoves : i = j

IInv ==
  /\ TypeOK
  /\ HandInv
  /\ AnsweredInv
  /\ UnissuedInv
  /\ AppliedMoveInv
  /\ OneMoveWaits
  /\ ExclusiveOperation
  /\ CompletedWasApplied
  /\ HiddenIsExplained
  /\ MoveStaysHidden

-----------------------------------------------------------------------------
USE PendingAssumption

\* The projection of the read flag is a truth value.
LEMMA OverlayIsBoolean ==
  ASSUME NEW remote \in BOOLEAN PROVE OverlayPendingFlags(remote) \in BOOLEAN
BY DEF OverlayPendingFlags

\* A pass that ends keeps the types and holds nothing.
LEMMA EndPassType ==
  ASSUME TypeOK, HandInv, NEW p \in Passes, EndPass(p)
  PROVE  /\ HandInv'
         /\ pc' \in [Passes -> PassState]
         /\ hand' \in [Passes -> Ops \cup {NoOp}]
         /\ count' \in [Passes -> 0 .. MaxPerPass]
         /\ seen' \in [Passes -> View]
         /\ slot' \in Passes \cup {NoPass}
         /\ cancelled' \subseteq Passes
BY DEF TypeOK, HandInv, InFlight, EndPass, Nothing, View, ServerPlace, PassState, NoOp

\* Every step keeps the types, and a pass holds a row exactly while one is in
\* flight.
LEMMA TypeStep == TypeOK /\ HandInv /\ [Next]_vars => TypeOK' /\ HandInv'
<1> USE DEF TypeOK, HandInv, InFlight, Ops, NoOp, Kind, OpState, Place, ServerPlace,
            PassState, View, rowVars, localVars, serverVars, slotVars, passVars,
            countVars
<1> SUFFICES ASSUME TypeOK, HandInv, [Next]_vars PROVE TypeOK' /\ HandInv'
  OBVIOUS
<1>1. ASSUME NEW k \in {"read", "unread"}, MutateMessage(k)
      PROVE TypeOK' /\ HandInv'
  BY <1>1 DEF MutateMessage
<1>2. CASE MoveMessage
  BY <1>2 DEF MoveMessage
<1>3. CASE CancelSync
  BY <1>3 DEF CancelSync
<1>4. CASE CrashAndReopen
  BY <1>4 DEF CrashAndReopen, RecoverInterrupted, Nothing, View
<1>5. ASSUME NEW p \in Passes, TryStart(p)
      PROVE TypeOK' /\ HandInv'
  BY <1>5 DEF TryStart, Goto
<1>6. ASSUME NEW p \in Passes, StartOver(p)
      PROVE TypeOK' /\ HandInv'
  BY <1>6 DEF StartOver, Goto
<1>7. ASSUME NEW p \in Passes, CancelParent(p)
      PROVE TypeOK' /\ HandInv'
  BY <1>7 DEF CancelParent
<1>8. ASSUME NEW p \in Passes, FetchIndex(p)
      PROVE TypeOK' /\ HandInv'
  BY <1>8 DEF FetchIndex, View
<1>9. ASSUME NEW p \in Passes, SkipIndex(p)
      PROVE TypeOK' /\ HandInv'
  BY <1>9 DEF SkipIndex, Goto
<1>10. ASSUME NEW p \in Passes, FetchFails(p)
      PROVE TypeOK' /\ HandInv'
  BY <1>10 DEF FetchFails, EndPass, Nothing, View
<1>11. ASSUME NEW p \in Passes, ApplyIndex(p)
      PROVE TypeOK' /\ HandInv'
  <2>1. CASE p \in cancelled \/ ~Owns(p)
    <3>1. EndPass(p) /\ UNCHANGED <<read, place>>
      BY <1>11, <2>1 DEF ApplyIndex
    <3> QED BY <1>11, <3>1, EndPassType DEF ApplyIndex
  <2>2. CASE ~(p \in cancelled \/ ~Owns(p))
    <3>1. OverlayPendingFlags(seen[p].read) \in BOOLEAN
      BY OverlayIsBoolean
    <3>2. read' \in BOOLEAN
      BY <1>11, <2>2, <3>1 DEF ApplyIndex
    <3>3. place' \in Place
      BY <1>11, <2>2 DEF ApplyIndex, PlacedWithoutServer, PlacedBySnapshot
    <3>4. Goto(p, "flushing") /\ UNCHANGED slotVars
      BY <1>11, <2>2 DEF ApplyIndex
    <3>5. pc[p] = "fetched" /\ UNCHANGED <<rowVars, serverVars, countVars>>
      BY <1>11 DEF ApplyIndex
    <3>6. TypeOK'
      BY <3>2, <3>3, <3>4, <3>5 DEF Goto
    <3>7. HandInv'
      BY <3>4, <3>5 DEF Goto
    <3> QED BY <3>6, <3>7
  <2> QED BY <2>1, <2>2
<1>12. ASSUME NEW p \in Passes, ClaimOperation(p)
      PROVE TypeOK' /\ HandInv'
  <2>1. CASE EndPass(p) /\ UNCHANGED <<state, place>>
    BY <1>12, <2>1, EndPassType DEF ClaimOperation
  <2>2. ASSUME NEW i \in Ops, Conflict(i), EndPass(p)
        PROVE TypeOK' /\ HandInv'
    BY <1>12, <2>2, EndPassType DEF ClaimOperation, Conflict
  <2>3. ASSUME NEW i \in Ops, count[p] < MaxPerPass,
               state' = [state EXCEPT ![i] = "sending"],
               hand' = [hand EXCEPT ![p] = i],
               pc' = [pc EXCEPT ![p] = "claimed"],
               UNCHANGED <<count, seen, slotVars, place>>
        PROVE TypeOK' /\ HandInv'
    BY <1>12, <2>3 DEF ClaimOperation
  <2> QED BY <1>12, <2>1, <2>2, <2>3 DEF ClaimOperation
<1>13. ASSUME NEW p \in Passes, CheckToken(p)
      PROVE TypeOK' /\ HandInv'
  <2>1. CASE p \in cancelled
    BY <1>13, <2>1, EndPassType DEF CheckToken
  <2>2. CASE p \notin cancelled
    BY <1>13, <2>2 DEF CheckToken, Goto
  <2> QED BY <2>1, <2>2
<1>14. ASSUME NEW p \in Passes, PublishStatus(p)
      PROVE TypeOK' /\ HandInv'
  <2>1. CASE Owns(p)
    BY <1>14, <2>1 DEF PublishStatus, Goto
  <2>2. CASE ~Owns(p)
    BY <1>14, <2>2, EndPassType DEF PublishStatus
  <2> QED BY <2>1, <2>2
<1>15. ASSUME NEW p \in Passes, ServerApplies(p)
      PROVE TypeOK' /\ HandInv'
  BY <1>15 DEF ServerApplies, Goto
<1>16. ASSUME NEW p \in Passes, CompletePendingOperation(p)
      PROVE TypeOK' /\ HandInv'
  <2>1. CASE p \in cancelled
    BY <1>16, <2>1, EndPassType DEF CompletePendingOperation
  <2>2. CASE p \notin cancelled
    <3>1. hand[p] \in Ops /\ count[p] \in 0 .. MaxPerPass /\ count[p] < MaxPerPass
      BY <1>16 DEF CompletePendingOperation
    <3>2. count[p] + 1 \in 0 .. MaxPerPass
      BY <3>1
    <3>3. count' = [count EXCEPT ![p] = count[p] + 1]
      BY <1>16, <2>2 DEF CompletePendingOperation
    <3>4. count' \in [Passes -> 0 .. MaxPerPass]
      BY <3>2, <3>3
    <3>5. state' \in [Ops -> OpState]
      BY <1>16, <2>2 DEF CompletePendingOperation
    <3>6. pc' = [pc EXCEPT ![p] = "flushing"] /\ hand' = [hand EXCEPT ![p] = 0]
      BY <1>16, <2>2 DEF CompletePendingOperation
    <3>7. pc' \in [Passes -> PassState] /\ hand' \in [Passes -> Ops \cup {NoOp}]
      BY <3>6
    <3>8. HandInv'
      BY <3>3, <3>6
    <3>9. UNCHANGED <<seen, slotVars, issued, kind, localVars, serverVars, countVars>>
      BY <1>16, <2>2 DEF CompletePendingOperation
    <3> QED BY <3>4, <3>5, <3>7, <3>8, <3>9
  <2> QED BY <2>1, <2>2
<1>17. ASSUME NEW p \in Passes, OperationFails(p)
      PROVE TypeOK' /\ HandInv'
  BY <1>17 DEF OperationFails, EndPass, Nothing, View
<1>18. ASSUME NEW p \in Passes, OperationRejected(p)
      PROVE TypeOK' /\ HandInv'
  BY <1>18 DEF OperationRejected, EndPass, Conflict, Nothing, View
<1>19. CASE UNCHANGED vars
  BY <1>19 DEF vars
<1> QED
  BY <1>1, <1>2, <1>3, <1>4, <1>5, <1>6, <1>7, <1>8, <1>9, <1>10, <1>11, <1>12, <1>13,
     <1>14, <1>15, <1>16, <1>17, <1>18, <1>19 DEF Next, User, Run

\* A pass that records the outcome of the row it holds lets go of it.
LEMMA LetGo ==
  ASSUME IInv, NEW p \in Passes, NEW outcome \in OpState,
         NEW label \in PassState \ {"answered"},
         hand[p] \in Ops,
         outcome = "done" => hand[p] \in applied,
         state' = [state EXCEPT ![hand[p]] = outcome],
         hand' = [hand EXCEPT ![p] = NoOp],
         pc' = [pc EXCEPT ![p] = label],
         UNCHANGED <<issued, kind, applied, srvPlace>>
  PROVE  /\ AnsweredInv' /\ UnissuedInv' /\ AppliedMoveInv'
         /\ ExclusiveOperation' /\ CompletedWasApplied'
<1> USE DEF IInv, TypeOK, Ops, NoOp
<1>1. AnsweredInv'
  BY DEF AnsweredInv
<1>2. UnissuedInv'
  BY DEF UnissuedInv, ExclusiveOperation
<1>3. AppliedMoveInv'
  BY DEF AppliedMoveInv
<1>4. ExclusiveOperation'
  BY DEF ExclusiveOperation
<1>5. CompletedWasApplied'
  BY DEF CompletedWasApplied
<1> QED BY <1>1, <1>2, <1>3, <1>4, <1>5

\* A pass that goes on or ends without an outcome, whether it held a row or not.
LEMMA StepAside ==
  ASSUME IInv, NEW p \in Passes, NEW label \in PassState \ {"answered"},
         pc' = [pc EXCEPT ![p] = label],
         hand' = hand \/ hand' = [hand EXCEPT ![p] = NoOp],
         UNCHANGED <<issued, kind, state, applied, srvPlace>>
  PROVE  /\ AnsweredInv' /\ UnissuedInv' /\ AppliedMoveInv'
         /\ ExclusiveOperation' /\ CompletedWasApplied'
<1> USE DEF IInv, TypeOK, Ops, NoOp
<1>1. AnsweredInv'
  BY DEF AnsweredInv
<1>2. UnissuedInv' /\ AppliedMoveInv' /\ CompletedWasApplied'
  BY DEF UnissuedInv, AppliedMoveInv, CompletedWasApplied
<1>3. ExclusiveOperation'
  BY DEF ExclusiveOperation
<1> QED BY <1>1, <1>2, <1>3

\* A step writes an outcome only to the row its pass holds: what is sending stays
\* in one pair of hands, and what is done has been carried out.
LEMMA RowStep ==
  ASSUME IInv, [Next]_vars
  PROVE  /\ AnsweredInv' /\ UnissuedInv' /\ AppliedMoveInv'
         /\ ExclusiveOperation' /\ CompletedWasApplied'
<1> DEFINE Goal == /\ AnsweredInv' /\ UnissuedInv' /\ AppliedMoveInv'
                   /\ ExclusiveOperation' /\ CompletedWasApplied'
<1> USE DEF IInv, TypeOK, HandInv, InFlight, Ops, NoOp, AnsweredInv, UnissuedInv,
            AppliedMoveInv, ExclusiveOperation, CompletedWasApplied, rowVars,
            localVars, serverVars, slotVars, passVars, countVars
<1>1. ASSUME NEW k \in {"read", "unread"}, MutateMessage(k)
      PROVE Goal
  BY <1>1 DEF MutateMessage
<1>2. CASE MoveMessage
  BY <1>2 DEF MoveMessage
<1>3. CASE CancelSync
  BY <1>3 DEF CancelSync
<1>4. CASE CrashAndReopen
  BY <1>4 DEF CrashAndReopen, RecoverInterrupted
<1>5. ASSUME NEW p \in Passes, TryStart(p) PROVE Goal
  BY <1>5 DEF TryStart, Goto
<1>6. ASSUME NEW p \in Passes, StartOver(p) PROVE Goal
  BY <1>6 DEF StartOver, Goto
<1>7. ASSUME NEW p \in Passes, CancelParent(p) PROVE Goal
  BY <1>7 DEF CancelParent
<1>8. ASSUME NEW p \in Passes, FetchIndex(p) PROVE Goal
  BY <1>8 DEF FetchIndex
<1>9. ASSUME NEW p \in Passes, SkipIndex(p) PROVE Goal
  BY <1>9 DEF SkipIndex, Goto
<1>10. ASSUME NEW p \in Passes, FetchFails(p) PROVE Goal
  BY <1>10 DEF FetchFails, EndPass
<1>11. ASSUME NEW p \in Passes, ApplyIndex(p) PROVE Goal
  <2>1. PICK label \in {"idle", "flushing"} :
          /\ pc' = [pc EXCEPT ![p] = label]
          /\ hand' = hand \/ hand' = [hand EXCEPT ![p] = NoOp]
          /\ UNCHANGED <<issued, kind, state, applied, srvPlace>>
    BY <1>11 DEF ApplyIndex, Goto, EndPass
  <2> QED BY <2>1, StepAside DEF PassState
<1>12. ASSUME NEW p \in Passes, ClaimOperation(p) PROVE Goal
  <2>1. UNCHANGED <<issued, kind, applied, srvPlace>> /\ pc[p] = "flushing"
    BY <1>12 DEF ClaimOperation
  <2>2. CASE EndPass(p) /\ UNCHANGED <<state, place>>
    BY <2>1, <2>2 DEF EndPass
  <2>3. ASSUME NEW i \in Ops, IsNext(i), Conflict(i), EndPass(p)
        PROVE Goal
    BY <2>1, <2>3 DEF EndPass, Conflict, IsNext, Claimable
  <2>4. ASSUME NEW i \in Ops, IsNext(i),
               state' = [state EXCEPT ![i] = "sending"],
               hand' = [hand EXCEPT ![p] = i],
               pc' = [pc EXCEPT ![p] = "claimed"]
        PROVE Goal
    BY <2>1, <2>4 DEF IsNext, Claimable
  <2> QED BY <1>12, <2>2, <2>3, <2>4 DEF ClaimOperation
<1>13. ASSUME NEW p \in Passes, CheckToken(p) PROVE Goal
  <2>1. CASE p \in cancelled
    <3>1. /\ hand[p] \in Ops
          /\ state' = [state EXCEPT ![hand[p]] = "failed"]
          /\ hand' = [hand EXCEPT ![p] = NoOp]
          /\ pc' = [pc EXCEPT ![p] = "idle"]
          /\ UNCHANGED <<issued, kind, applied, srvPlace>>
      BY <1>13, <2>1 DEF CheckToken, EndPass
    <3> QED BY <3>1, LetGo DEF OpState, PassState
  <2>2. CASE p \notin cancelled
    BY <1>13, <2>2 DEF CheckToken, Goto
  <2> QED BY <2>1, <2>2
<1>14. ASSUME NEW p \in Passes, PublishStatus(p) PROVE Goal
  <2>1. PICK label \in {"idle", "sending"} :
          /\ pc' = [pc EXCEPT ![p] = label]
          /\ hand' = hand \/ hand' = [hand EXCEPT ![p] = NoOp]
          /\ UNCHANGED <<issued, kind, state, applied, srvPlace>>
    BY <1>14 DEF PublishStatus, Goto, EndPass
  <2> QED BY <2>1, StepAside DEF PassState
<1>15. ASSUME NEW p \in Passes, ServerApplies(p) PROVE Goal
  <2>1. /\ pc[p] = "sending" /\ hand[p] \in Ops
        /\ applied' = applied \cup {hand[p]}
        /\ pc' = [pc EXCEPT ![p] = "answered"]
        /\ UNCHANGED <<issued, kind, state, hand>>
    BY <1>15 DEF ServerApplies, Goto
  <2>2. srvPlace = "target" \/ kind[hand[p]] = "move" => srvPlace' = "target"
    BY <1>15 DEF ServerApplies
  <2>3. AnsweredInv'
    BY <2>1
  <2>4. UnissuedInv'
    BY <2>1
  <2>5. AppliedMoveInv'
    BY <2>1, <2>2
  <2>6. ExclusiveOperation' /\ CompletedWasApplied'
    BY <2>1
  <2> QED BY <2>3, <2>4, <2>5, <2>6
<1>16. ASSUME NEW p \in Passes, CompletePendingOperation(p) PROVE Goal
  <2>1. PICK label \in {"idle", "flushing"} :
          /\ hand[p] \in Ops /\ hand[p] \in applied
          /\ state' = [state EXCEPT ![hand[p]] = "done"]
          /\ hand' = [hand EXCEPT ![p] = NoOp]
          /\ pc' = [pc EXCEPT ![p] = label]
          /\ UNCHANGED <<issued, kind, applied, srvPlace>>
    BY <1>16 DEF CompletePendingOperation, EndPass
  <2> QED BY <2>1, LetGo DEF OpState, PassState
<1>17. ASSUME NEW p \in Passes, OperationFails(p) PROVE Goal
  BY <1>17 DEF OperationFails, EndPass
<1>18. ASSUME NEW p \in Passes, OperationRejected(p) PROVE Goal
  <2>1. /\ hand[p] \in Ops
        /\ state' = [state EXCEPT ![hand[p]] = "conflicted"]
        /\ hand' = [hand EXCEPT ![p] = NoOp]
        /\ pc' = [pc EXCEPT ![p] = "idle"]
        /\ UNCHANGED <<issued, kind, applied, srvPlace>>
    BY <1>18 DEF OperationRejected, EndPass, Conflict
  <2> QED BY <2>1, LetGo DEF OpState, PassState
<1>19. CASE UNCHANGED vars
  BY <1>19 DEF vars
<1> QED
  BY <1>1, <1>2, <1>3, <1>4, <1>5, <1>6, <1>7, <1>8, <1>9, <1>10, <1>11, <1>12, <1>13,
     <1>14, <1>15, <1>16, <1>17, <1>18, <1>19 DEF Next, User, Run

\* A step that leaves the screen alone, and ends a move only when the server has
\* moved the message.
LEMMA ScreenKept ==
  ASSUME IInv,
         WaitingMoves' \subseteq WaitingMoves,
         place' = place,
         srvPlace' = "target" \/ (WaitingMoves' = WaitingMoves /\ srvPlace' = srvPlace)
  PROVE  OneMoveWaits' /\ HiddenIsExplained' /\ MoveStaysHidden'
BY DEF IInv, OneMoveWaits, HiddenIsExplained, MoveStaysHidden, WaitingMoves

\* A step after which no move waits, and that does not hide the message.
LEMMA NoMoveWaits ==
  ASSUME WaitingMoves' = {}, place' # "hidden" \/ srvPlace' = "target"
  PROVE  OneMoveWaits' /\ HiddenIsExplained' /\ MoveStaysHidden'
BY DEF OneMoveWaits, HiddenIsExplained, MoveStaysHidden, WaitingMoves

\* A refused row gives the message back only if it was the move that hid it.
LEMMA ConflictStep ==
  ASSUME IInv, NEW i \in Ops, IsOutstanding(i), Conflict(i), UNCHANGED <<kind, srvPlace>>
  PROVE  OneMoveWaits' /\ HiddenIsExplained' /\ MoveStaysHidden'
<1> USE DEF IInv, TypeOK, OpState
<1>1. CASE kind[i] = "move"
  <2>1. i \in WaitingMoves
    BY <1>1 DEF WaitingMoves, Moves
  <2>2. WaitingMoves' = {}
    BY <1>1, <2>1 DEF Conflict, WaitingMoves, Moves, IsOutstanding, Outstanding,
                      OneMoveWaits
  <2>3. place' = "shown"
    BY <1>1 DEF Conflict
  <2> QED BY <2>2, <2>3, NoMoveWaits
<1>2. CASE kind[i] # "move"
  <2>1. WaitingMoves' = WaitingMoves
    BY <1>2 DEF Conflict, WaitingMoves, Moves, IsOutstanding, Outstanding
  <2>2. place' = place
    BY <1>2 DEF Conflict
  <2> QED BY <2>1, <2>2, ScreenKept
<1> QED BY <1>1, <1>2

\* A step of one row that leaves it waiting, or was not waiting, changes no move.
LEMMA SameWaitingMoves ==
  ASSUME IInv, NEW i \in Ops, NEW s \in Outstanding, IsOutstanding(i),
         state' = [state EXCEPT ![i] = s], UNCHANGED kind
  PROVE  WaitingMoves' = WaitingMoves
BY DEF IInv, TypeOK, WaitingMoves, Moves, IsOutstanding, Outstanding, OpState

\* Every step keeps the screen honest about the moves.
LEMMA ScreenStep ==
  ASSUME IInv, [Next]_vars
  PROVE  OneMoveWaits' /\ HiddenIsExplained' /\ MoveStaysHidden'
<1> DEFINE Goal == OneMoveWaits' /\ HiddenIsExplained' /\ MoveStaysHidden'
<1> USE DEF rowVars, localVars, serverVars, slotVars, passVars, countVars
<1>0. ASSUME UNCHANGED <<kind, state, place, srvPlace>> PROVE Goal
  BY <1>0, ScreenKept DEF WaitingMoves, Moves, IsOutstanding
<1>1. ASSUME NEW k \in {"read", "unread"}, MutateMessage(k) PROVE Goal
  <2>1. WaitingMoves' = WaitingMoves
    BY <1>1 DEF MutateMessage, WaitingMoves, Moves, IsOutstanding, IInv, TypeOK,
                Ops, UnissuedInv, Outstanding
  <2> QED BY <1>1, <2>1, ScreenKept DEF MutateMessage
<1>2. CASE MoveMessage
  <2>1. WaitingMoves = {}
    BY <1>2 DEF MoveMessage, IInv, MoveStaysHidden, WaitingMoves
  <2>2. /\ issued + 1 \in Ops /\ place' = "hidden"
        /\ kind' = [kind EXCEPT ![issued + 1] = "move"]
        /\ state' = [state EXCEPT ![issued + 1] = "pending"]
    BY <1>2 DEF MoveMessage, IInv, TypeOK, Ops
  <2>3. WaitingMoves' = {issued + 1}
    BY <2>1, <2>2 DEF WaitingMoves, Moves, IsOutstanding, Outstanding, IInv, TypeOK
  <2>4. OneMoveWaits'
    BY <2>3 DEF OneMoveWaits
  <2>5. HiddenIsExplained' /\ MoveStaysHidden'
    BY <2>2, <2>3 DEF HiddenIsExplained, MoveStaysHidden, WaitingMoves
  <2> QED BY <2>4, <2>5
<1>3. CASE CancelSync
  BY <1>0, <1>3 DEF CancelSync
<1>4. CASE CrashAndReopen
  <2>1. WaitingMoves' = WaitingMoves
    BY <1>4 DEF CrashAndReopen, RecoverInterrupted, WaitingMoves, Moves,
                IsOutstanding, Outstanding, IInv, TypeOK, OpState
  <2> QED BY <1>4, <2>1, ScreenKept DEF CrashAndReopen
<1>5. ASSUME NEW p \in Passes, TryStart(p) PROVE Goal
  BY <1>0, <1>5 DEF TryStart
<1>6. ASSUME NEW p \in Passes, StartOver(p) PROVE Goal
  BY <1>0, <1>6 DEF StartOver
<1>7. ASSUME NEW p \in Passes, CancelParent(p) PROVE Goal
  BY <1>0, <1>7 DEF CancelParent
<1>8. ASSUME NEW p \in Passes, FetchIndex(p) PROVE Goal
  BY <1>0, <1>8 DEF FetchIndex
<1>9. ASSUME NEW p \in Passes, SkipIndex(p) PROVE Goal
  BY <1>0, <1>9 DEF SkipIndex
<1>10. ASSUME NEW p \in Passes, FetchFails(p) PROVE Goal
  BY <1>0, <1>10 DEF FetchFails
<1>11. ASSUME NEW p \in Passes, ApplyIndex(p) PROVE Goal
  <2>1. UNCHANGED <<kind, state, srvPlace>>
    BY <1>11 DEF ApplyIndex
  <2>2. WaitingMoves' = WaitingMoves
    BY <2>1 DEF WaitingMoves, Moves, IsOutstanding
  <2>3. CASE place' = place
    BY <2>1, <2>2, <2>3, ScreenKept
  <2>4. CASE place' # place
    <3>1. WaitingMoves = {} /\ place' \in {"shown", "gone"}
      BY <1>11, <2>4 DEF ApplyIndex, PlacedWithoutServer, PlacedBySnapshot,
                         WaitingMoves, Moves
    <3> QED BY <2>2, <3>1, NoMoveWaits
  <2> QED BY <2>3, <2>4
<1>12. ASSUME NEW p \in Passes, ClaimOperation(p) PROVE Goal
  <2>1. UNCHANGED <<kind, srvPlace>>
    BY <1>12 DEF ClaimOperation
  <2>2. CASE UNCHANGED <<state, place>>
    BY <1>0, <2>1, <2>2
  <2>3. ASSUME NEW i \in Ops, IsNext(i), Conflict(i) PROVE Goal
    <3>1. IsOutstanding(i)
      BY <2>3 DEF IsNext, Claimable, IsOutstanding, Outstanding
    <3> QED BY <2>1, <2>3, <3>1, ConflictStep
  <2>4. ASSUME NEW i \in Ops, IsNext(i), UNCHANGED place,
               state' = [state EXCEPT ![i] = "sending"]
        PROVE Goal
    <3>1. IsOutstanding(i)
      BY <2>4 DEF IsNext, Claimable, IsOutstanding, Outstanding
    <3>2. WaitingMoves' = WaitingMoves
      BY <2>1, <2>4, <3>1, SameWaitingMoves DEF Outstanding
    <3> QED BY <2>1, <2>4, <3>2, ScreenKept
  <2> QED BY <1>12, <2>2, <2>3, <2>4 DEF ClaimOperation
<1>13. ASSUME NEW p \in Passes, pc[p] \in InFlight
       PROVE hand[p] \in Ops /\ IsOutstanding(hand[p])
  BY <1>13 DEF IInv, HandInv, ExclusiveOperation, NoOp, Ops, IsOutstanding,
               Outstanding, InFlight, PendingAssumption
<1>14. ASSUME NEW p \in Passes, pc[p] \in InFlight,
              state' = [state EXCEPT ![hand[p]] = "failed"],
              UNCHANGED <<kind, place, srvPlace>>
       PROVE  Goal
  <2>1. WaitingMoves' = WaitingMoves
    BY <1>13, <1>14, SameWaitingMoves DEF Outstanding
  <2> QED BY <1>14, <2>1, ScreenKept
<1>15. ASSUME NEW p \in Passes, CheckToken(p) PROVE Goal
  <2>1. pc[p] \in InFlight /\ UNCHANGED <<kind, place, srvPlace>>
    BY <1>15 DEF CheckToken, InFlight
  <2>2. state' = state \/ state' = [state EXCEPT ![hand[p]] = "failed"]
    BY <1>15 DEF CheckToken
  <2> QED BY <1>0, <1>14, <2>1, <2>2
<1>16. ASSUME NEW p \in Passes, PublishStatus(p) PROVE Goal
  BY <1>0, <1>16 DEF PublishStatus
<1>17. ASSUME NEW p \in Passes, ServerApplies(p) PROVE Goal
  <2>1. UNCHANGED <<kind, state, place>>
    BY <1>17 DEF ServerApplies
  <2>2. srvPlace' = srvPlace \/ srvPlace' = "target"
    BY <1>17 DEF ServerApplies
  <2>3. WaitingMoves' = WaitingMoves
    BY <2>1 DEF WaitingMoves, Moves, IsOutstanding
  <2> QED BY <2>1, <2>2, <2>3, ScreenKept
<1>18. ASSUME NEW p \in Passes, CompletePendingOperation(p) PROVE Goal
  <2>1. /\ pc[p] = "answered" /\ UNCHANGED <<kind, place, srvPlace>>
        /\ state' = [state EXCEPT ![hand[p]] = "done"]
    BY <1>18 DEF CompletePendingOperation
  <2>2. hand[p] \in applied /\ hand[p] \in Ops
    BY <2>1, <1>13 DEF IInv, AnsweredInv, InFlight
  <2>3. CASE kind[hand[p]] = "move"
    <3>1. srvPlace' = "target"
      BY <2>1, <2>2, <2>3 DEF IInv, AppliedMoveInv
    <3>2. WaitingMoves' \subseteq WaitingMoves
      BY <2>1, <2>2 DEF WaitingMoves, Moves, IsOutstanding, Outstanding, IInv, TypeOK
    <3> QED BY <2>1, <3>1, <3>2, ScreenKept
  <2>4. CASE kind[hand[p]] # "move"
    <3>1. WaitingMoves' = WaitingMoves
      BY <2>1, <2>2, <2>4 DEF WaitingMoves, Moves, IsOutstanding, Outstanding,
                              IInv, TypeOK
    <3> QED BY <2>1, <3>1, ScreenKept
  <2> QED BY <2>3, <2>4
<1>19. ASSUME NEW p \in Passes, OperationFails(p) PROVE Goal
  BY <1>14, <1>19 DEF OperationFails, InFlight
<1>20. ASSUME NEW p \in Passes, OperationRejected(p) PROVE Goal
  <2>1. pc[p] \in InFlight /\ Conflict(hand[p]) /\ UNCHANGED <<kind, srvPlace>>
    BY <1>20 DEF OperationRejected, InFlight
  <2> QED BY <1>13, <2>1, ConflictStep
<1>21. CASE UNCHANGED vars
  BY <1>0, <1>21 DEF vars
<1> QED
  BY <1>1, <1>2, <1>3, <1>4, <1>5, <1>6, <1>7, <1>8, <1>9, <1>10, <1>11, <1>12, <1>15,
     <1>16, <1>17, <1>18, <1>19, <1>20, <1>21 DEF Next, User, Run

-----------------------------------------------------------------------------
(***************************************************************************)
(* Theorems.                                                               *)
(***************************************************************************)

\* The initial state satisfies the inductive invariant.
LEMMA InitIInv == Init => IInv
<1> SUFFICES ASSUME Init PROVE IInv
  OBVIOUS
<1> USE DEF Init, NoOp, Ops
<1>1. TypeOK
  <2>1. Nothing \in View
    BY DEF Nothing, View, ServerPlace
  <2>2. /\ issued \in 0 .. MaxOps
        /\ kind \in [Ops -> Kind] /\ state \in [Ops -> OpState]
        /\ place \in Place /\ srvPlace \in ServerPlace
    BY DEF Kind, OpState, Place, ServerPlace
  <2>3. read \in BOOLEAN /\ srvRead \in BOOLEAN
    BY Zenon
  <2>4. /\ applied \subseteq Ops
        /\ slot \in Passes \cup {NoPass} /\ cancelled \subseteq Passes
        /\ pc \in [Passes -> PassState]
        /\ hand \in [Passes -> Ops \cup {NoOp}]
    BY DEF PassState
  <2>5. /\ count \in [Passes -> 0 .. MaxPerPass]
        /\ seen \in [Passes -> View]
        /\ takeovers \in Nat /\ stops \in Nat /\ faults \in Nat /\ restarts \in Nat
    BY <2>1
  <2> QED BY <2>2, <2>3, <2>4, <2>5 DEF TypeOK
<1>2. HandInv /\ AnsweredInv /\ ExclusiveOperation
  BY DEF HandInv, InFlight, AnsweredInv, ExclusiveOperation
<1>3. UnissuedInv /\ AppliedMoveInv /\ CompletedWasApplied
  BY DEF UnissuedInv, AppliedMoveInv, CompletedWasApplied
<1>4. WaitingMoves = {}
  BY DEF WaitingMoves, Moves, IsOutstanding, Outstanding
<1>5. OneMoveWaits /\ HiddenIsExplained /\ MoveStaysHidden
  BY <1>4 DEF OneMoveWaits, HiddenIsExplained, MoveStaysHidden, WaitingMoves
<1> QED BY <1>1, <1>2, <1>3, <1>5 DEF IInv

\* The inductive invariant: a row in a pass's hands is sending and the pass's
\* alone, and the one move that waits is what hides the message.
THEOREM Invariance == Spec => []IInv
<1>1. IInv /\ [Next]_vars => IInv'
  BY TypeStep, RowStep, ScreenStep DEF IInv
<1> QED BY <1>1, InitIInv, PTL DEF Spec

\* Every variable keeps its type.
THEOREM TypeCorrectness == Spec => []TypeOK
<1>1. IInv => TypeOK
  BY DEF IInv
<1> QED BY <1>1, Invariance, PTL

\* An operation is in the hands of one pass at most, and that pass finds it where
\* it left it.
THEOREM OperationIsExclusive == Spec => []ExclusiveOperation
<1>1. IInv => ExclusiveOperation
  BY DEF IInv
<1> QED BY <1>1, Invariance, PTL

\* No operation is forgotten before the server has carried it out.
THEOREM CompletionIsJustified == Spec => []CompletedWasApplied
<1>1. IInv => CompletedWasApplied
  BY DEF IInv
<1> QED BY <1>1, Invariance, PTL

\* No message stays hidden without a move that waits or has been carried out.
THEOREM NoMessageIsLost == Spec => []HiddenIsExplained
<1>1. IInv => HiddenIsExplained
  BY DEF IInv
<1> QED BY <1>1, Invariance, PTL

\* No answer of the server undoes a move that waits.
THEOREM MoveIsStable == Spec => []MoveStaysHidden
<1>1. IInv => MoveStaysHidden
  BY DEF IInv
<1> QED BY <1>1, Invariance, PTL

-----------------------------------------------------------------------------
(***************************************************************************)
(* The order of the rows, as long as nobody takes the slot from a pass.    *)
(***************************************************************************)

\* Only the pass that has the slot runs.
Alone == \A p \in Passes : pc[p] # "idle" => slot = p

OrderInv ==
  /\ Alone
  /\ \A i \in Ops : state[i] = "sending" => \E p \in Passes : hand[p] = i
  /\ \A p \in Passes : \A i \in Ops : hand[p] # NoOp /\ i < hand[p] => ~IsOutstanding(i)
  /\ \A i, j \in Ops : i < j /\ state[j] = "done" => ~IsOutstanding(i)

\* What a pass knows of the server is how the server is.
ServerInv ==
  \A p \in Passes :
    /\ pc[p] = "fetched" => seen[p] = [read |-> srvRead, place |-> srvPlace]
    /\ pc[p] = "answered" /\ srvPlace = "source" /\ kind[hand[p]] # "move" =>
         srvRead = (kind[hand[p]] = "read")

\* A running pass is the only one.
LEMMA AloneRuns ==
  ASSUME Alone, NEW p \in Passes, pc[p] # "idle", NEW q \in Passes, q # p
  PROVE  pc[q] = "idle"
BY DEF Alone

LEMMA AloneStep ==
  ASSUME takeovers' = 0, IInv, Alone, [Next]_vars
  PROVE  Alone'
<1> USE DEF IInv, TypeOK, Alone
<1>1. ASSUME NEW p \in Passes, EndPass(p), pc[p] # "idle"
      PROVE  Alone'
  BY <1>1 DEF EndPass, Owns
<1>2. ASSUME UNCHANGED <<slot, pc>>
      PROVE  Alone'
  BY <1>2
<1>3. ASSUME NEW p \in Passes, NEW label \in PassState, pc' = [pc EXCEPT ![p] = label],
             pc[p] # "idle", UNCHANGED slot
      PROVE  Alone'
  BY <1>3
<1>4. ASSUME NEW p \in Passes, Run(p)
      PROVE  Alone'
  <2>1. pc[p] # "idle"
    BY <1>4 DEF Run, FetchIndex, SkipIndex, FetchFails, ApplyIndex, ClaimOperation, CheckToken,
                PublishStatus, ServerApplies, CompletePendingOperation, OperationFails,
                OperationRejected
  <2>2. CASE FetchIndex(p) \/ SkipIndex(p) \/ ServerApplies(p)
    <3>1. PICK label \in {"fetched", "flushing", "answered"} :
            pc' = [pc EXCEPT ![p] = label] /\ UNCHANGED slot
      BY <2>2 DEF FetchIndex, SkipIndex, ServerApplies, Goto, slotVars
    <3> QED BY <2>1, <3>1, <1>3 DEF PassState
  <2>3. CASE FetchFails(p) \/ OperationFails(p) \/ OperationRejected(p)
    <3>1. EndPass(p)
      BY <2>3 DEF FetchFails, OperationFails, OperationRejected
    <3> QED BY <2>1, <3>1, <1>1
  <2>4. CASE ApplyIndex(p) \/ CheckToken(p) \/ PublishStatus(p)
    <3>1. EndPass(p) \/ (\E label \in {"flushing", "checked", "sending"} :
            pc' = [pc EXCEPT ![p] = label] /\ UNCHANGED slot)
      BY <2>4 DEF ApplyIndex, CheckToken, PublishStatus, Goto, slotVars
    <3> QED BY <2>1, <3>1, <1>1, <1>3 DEF PassState
  <2>5. CASE ClaimOperation(p)
    <3>1. EndPass(p) \/ (pc' = [pc EXCEPT ![p] = "claimed"] /\ UNCHANGED slot)
      BY <2>5 DEF ClaimOperation, slotVars
    <3> QED BY <2>1, <3>1, <1>1, <1>3 DEF PassState
  <2>6. CASE CompletePendingOperation(p)
    <3>1. EndPass(p) \/ (pc' = [pc EXCEPT ![p] = "flushing"] /\ UNCHANGED slot)
      BY <2>6 DEF CompletePendingOperation, slotVars
    <3> QED BY <2>1, <3>1, <1>1, <1>3 DEF PassState
  <2> QED
    BY <1>4, <2>2, <2>3, <2>4, <2>5, <2>6 DEF Run
<1>5. CASE \E p \in Passes : TryStart(p)
  BY <1>5 DEF TryStart, Goto
<1>6. CASE CancelSync \/ \E p \in Passes : StartOver(p)
  BY <1>6 DEF CancelSync, StartOver
<1>7. CASE CrashAndReopen
  BY <1>7 DEF CrashAndReopen
<1>8. CASE User \/ UNCHANGED vars \/ \E p \in Passes : CancelParent(p)
  BY <1>2, <1>8 DEF User, MutateMessage, MoveMessage, CancelParent, vars, slotVars, passVars
<1> QED
  BY <1>4, <1>5, <1>6, <1>7, <1>8 DEF Next

\* A pass that records an outcome, or ends with the row it did not send.
LEMMA OutcomeOrder ==
  ASSUME IInv, OrderInv, Alone', NEW p \in Passes, hand[p] \in Ops,
         NEW outcome \in OpState \ {"sending", "absent", "pending"},
         state' = [state EXCEPT ![hand[p]] = outcome],
         hand' = [hand EXCEPT ![p] = NoOp]
  PROVE  OrderInv'
<1> USE DEF IInv, TypeOK, Ops, NoOp
<1>1. \A i \in Ops : IsOutstanding(i)' => IsOutstanding(i)
  BY DEF IsOutstanding, Outstanding, OpState, ExclusiveOperation
<1>2. \A i \in Ops : state'[i] = "sending" => \E q \in Passes : hand'[q] = i
  BY DEF OrderInv, OpState
<1>3. \A i \in Ops : state'[i] = "done" => state[i] = "done" \/ i = hand[p]
  BY DEF OpState
<1>4. \A i, j \in Ops : i < j /\ state'[j] = "done" => ~IsOutstanding(i)'
  BY <1>1, <1>3 DEF OrderInv
<1>5. \A q \in Passes : \A i \in Ops : hand'[q] # NoOp /\ i < hand'[q] => ~IsOutstanding(i)'
  BY <1>1 DEF OrderInv
<1> QED
  BY <1>2, <1>4, <1>5 DEF OrderInv

\* A step after which the rows are as they were, and so is what each pass holds.
LEMMA SameOrder ==
  ASSUME OrderInv, Alone', UNCHANGED <<state, hand>>
  PROVE  OrderInv'
BY DEF OrderInv, IsOutstanding

\* The same for a pass that ends without a row.
LEMMA EndOrder ==
  ASSUME IInv, OrderInv, Alone', NEW p \in Passes, hand[p] = NoOp, EndPass(p),
         UNCHANGED state
  PROVE  OrderInv'
<1>1. hand' = hand
  BY DEF EndPass, IInv, TypeOK
<1> QED BY <1>1, SameOrder

\* Every step keeps the order of the rows.
LEMMA OrderStep ==
  ASSUME takeovers' = 0, IInv, OrderInv, [Next]_vars
  PROVE  OrderInv'
<1>0. Alone'
  BY AloneStep DEF OrderInv
<1> USE DEF rowVars, localVars, serverVars, slotVars, passVars, countVars
<1>1. ASSUME NEW k \in Kind, issued < MaxOps, UNCHANGED hand,
             state' = [state EXCEPT ![issued + 1] = "pending"]
      PROVE  OrderInv'
  <2>1. issued + 1 \in Ops /\ \A i \in Ops : i > issued => state[i] = "absent"
    BY <1>1 DEF IInv, TypeOK, UnissuedInv, Ops
  <2>2. \A i \in Ops : i # issued + 1 => state'[i] = state[i]
    BY <1>1 DEF IInv, TypeOK
  <2>3. state'[issued + 1] = "pending"
    BY <1>1, <2>1 DEF IInv, TypeOK
  <2>4. \A i \in Ops : state'[i] = "sending" => \E p \in Passes : hand'[p] = i
    BY <1>1, <2>2, <2>3 DEF OrderInv
  <2>5. \A p \in Passes : hand[p] # NoOp => hand[p] \in Ops /\ hand[p] <= issued
    BY <2>1 DEF IInv, TypeOK, ExclusiveOperation, Ops, NoOp
  <2>6. \A p \in Passes : \A i \in Ops : hand'[p] # NoOp /\ i < hand'[p] => ~IsOutstanding(i)'
    BY <1>1, <2>2, <2>5 DEF OrderInv, IsOutstanding, IInv, TypeOK, Ops
  <2>7. \A j \in Ops : state'[j] = "done" => state[j] = "done" /\ j <= issued
    BY <2>1, <2>2, <2>3 DEF Ops, IInv, TypeOK
  <2>8. \A i, j \in Ops : i < j /\ state'[j] = "done" => ~IsOutstanding(i)'
    BY <2>2, <2>7 DEF OrderInv, IsOutstanding, IInv, TypeOK, Ops
  <2> QED BY <1>0, <2>4, <2>6, <2>8 DEF OrderInv
<1>2. CASE User
  BY <1>1, <1>2 DEF User, MutateMessage, MoveMessage, Kind
<1>3. CASE CancelSync \/ \E p \in Passes : TryStart(p) \/ StartOver(p) \/ CancelParent(p)
  BY <1>0, <1>3, SameOrder DEF CancelSync, TryStart, StartOver, CancelParent, Goto
<1>4. CASE CrashAndReopen
  <2>1. \A i \in Ops : /\ state'[i] # "sending"
                       /\ state'[i] = "done" => state[i] = "done"
                       /\ IsOutstanding(i)' => IsOutstanding(i)
    BY <1>4 DEF CrashAndReopen, RecoverInterrupted, IsOutstanding, Outstanding
  <2>2. \A p \in Passes : hand'[p] = NoOp
    BY <1>4 DEF CrashAndReopen
  <2> QED BY <1>0, <2>1, <2>2 DEF OrderInv
<1>5. ASSUME NEW p \in Passes, FetchIndex(p) \/ SkipIndex(p) \/ ServerApplies(p)
      PROVE  OrderInv'
  BY <1>0, <1>5, SameOrder DEF FetchIndex, SkipIndex, ServerApplies, Goto
<1>6. ASSUME NEW p \in Passes, FetchFails(p) \/ ApplyIndex(p)
      PROVE  OrderInv'
  <2>1. hand[p] = NoOp /\ UNCHANGED state
    BY <1>6 DEF FetchFails, ApplyIndex, IInv, HandInv, InFlight
  <2>2. EndPass(p) \/ UNCHANGED hand
    BY <1>6 DEF FetchFails, ApplyIndex, Goto
  <2> QED BY <1>0, <2>1, <2>2, SameOrder, EndOrder
<1>7. ASSUME NEW p \in Passes, pc[p] \in InFlight,
             NEW outcome \in OpState \ {"sending", "absent", "pending"},
             state' = [state EXCEPT ![hand[p]] = outcome],
             hand' = [hand EXCEPT ![p] = NoOp]
      PROVE  OrderInv'
  <2>1. hand[p] \in Ops
    BY <1>7 DEF IInv, HandInv
  <2> QED BY <1>0, <1>7, <2>1, OutcomeOrder
<1>8. ASSUME NEW p \in Passes, ClaimOperation(p)
      PROVE  OrderInv'
  <2>1. pc[p] = "flushing" /\ hand[p] = NoOp
    BY <1>8 DEF ClaimOperation, IInv, HandInv, InFlight
  <2>2. \A q \in Passes : hand[q] = NoOp
    BY <2>1, AloneRuns DEF IInv, HandInv, InFlight, OrderInv
  <2>3. \A i \in Ops : state[i] # "sending"
    BY <2>2 DEF OrderInv, Ops, NoOp
  <2>4. ASSUME NEW i \in Ops, IsNext(i) PROVE \A j \in Ops : j < i => ~IsOutstanding(j)
    BY <2>3, <2>4 DEF IsNext, Claimable, IsOutstanding, Outstanding, Ops
  <2>5. CASE EndPass(p) /\ UNCHANGED <<state, place>>
    BY <1>0, <2>1, <2>5, EndOrder
  <2>6. ASSUME NEW i \in Ops, IsNext(i), Conflict(i), EndPass(p)
        PROVE  OrderInv'
    <3>1. \A j \in Ops : IsOutstanding(j)' => IsOutstanding(j)
      BY <2>6 DEF Conflict, IsOutstanding, Outstanding, IInv, TypeOK
    <3>2. \A j \in Ops : state'[j] # "sending" /\ (state'[j] = "done" => state[j] = "done")
      BY <2>3, <2>6 DEF Conflict, IInv, TypeOK
    <3>3. \A q \in Passes : hand'[q] = NoOp
      BY <2>2, <2>6 DEF EndPass, IInv, TypeOK
    <3> QED BY <1>0, <3>1, <3>2, <3>3 DEF OrderInv
  <2>7. ASSUME NEW i \in Ops, IsNext(i), state' = [state EXCEPT ![i] = "sending"],
               hand' = [hand EXCEPT ![p] = i]
        PROVE  OrderInv'
    <3>1. \A j \in Ops : IsOutstanding(j)' => IsOutstanding(j)
      BY <2>7 DEF IsNext, Claimable, IsOutstanding, Outstanding, IInv, TypeOK
    <3>2. \A j \in Ops : /\ state'[j] = "sending" => j = i
                         /\ state'[j] = "done" => state[j] = "done"
      BY <2>3, <2>7 DEF IInv, TypeOK
    <3>3. hand'[p] = i /\ \A q \in Passes : q # p => hand'[q] = NoOp
      BY <2>2, <2>7 DEF IInv, TypeOK
    <3>4. \A j \in Ops : j < i => ~IsOutstanding(j)'
      BY <2>4, <2>7, <3>1
    <3>5. \A q \in Passes : \A j \in Ops : hand'[q] # NoOp /\ j < hand'[q] => ~IsOutstanding(j)'
      BY <3>3, <3>4
    <3>6. \A j \in Ops : state'[j] = "sending" => \E q \in Passes : hand'[q] = j
      BY <3>2, <3>3
    <3>7. \A j, m \in Ops : j < m /\ state'[m] = "done" => ~IsOutstanding(j)'
      BY <3>1, <3>2 DEF OrderInv
    <3> QED BY <1>0, <3>5, <3>6, <3>7 DEF OrderInv
  <2> QED BY <1>8, <2>5, <2>6, <2>7 DEF ClaimOperation
<1>9. ASSUME NEW p \in Passes, CheckToken(p)
      PROVE  OrderInv'
  <2>1. CASE p \in cancelled
    BY <1>7, <1>9, <2>1 DEF CheckToken, EndPass, InFlight, OpState
  <2>2. CASE p \notin cancelled
    BY <1>0, <1>9, <2>2, SameOrder DEF CheckToken, Goto
  <2> QED BY <2>1, <2>2
<1>10. ASSUME NEW p \in Passes, PublishStatus(p)
       PROVE  OrderInv'
  <2>1. Owns(p)
    BY <1>10 DEF PublishStatus, OrderInv, Alone, Owns
  <2> QED BY <1>0, <1>10, <2>1, SameOrder DEF PublishStatus, Goto
<1>11. ASSUME NEW p \in Passes,
              CompletePendingOperation(p) \/ OperationFails(p) \/ OperationRejected(p)
       PROVE  OrderInv'
  <2>1. pc[p] \in InFlight /\ hand' = [hand EXCEPT ![p] = NoOp]
    BY <1>11 DEF CompletePendingOperation, OperationFails, OperationRejected, EndPass, InFlight
  <2>2. PICK outcome \in {"done", "failed", "conflicted"} :
          state' = [state EXCEPT ![hand[p]] = outcome]
    BY <1>11 DEF CompletePendingOperation, OperationFails, OperationRejected, Conflict
  <2> QED BY <1>7, <2>1, <2>2 DEF OpState
<1>12. CASE UNCHANGED vars
  BY <1>0, <1>12, SameOrder DEF vars
<1> QED
  BY <1>2, <1>3, <1>4, <1>5, <1>6, <1>8, <1>9, <1>10, <1>11, <1>12 DEF Next, Run

\* Every step keeps what a running pass knows of the server.
LEMMA ServerStep ==
  ASSUME takeovers' = 0, IInv, OrderInv, ServerInv, [Next]_vars
  PROVE  ServerInv'
<1> USE DEF rowVars, localVars, serverVars, slotVars, passVars, countVars
<1>0. ASSUME NEW p \in Passes, pc[p] = "answered"
      PROVE  hand[p] \in Ops /\ hand[p] <= issued
  <2>1. hand[p] \in Ops /\ hand[p] # NoOp
    BY <1>0 DEF IInv, HandInv, InFlight, Ops, NoOp
  <2>2. state[hand[p]] # "absent"
    BY <2>1 DEF IInv, ExclusiveOperation
  <2> QED BY <2>1, <2>2 DEF IInv, TypeOK, UnissuedInv, Ops
<1>1. CASE User
  <2>1. \A i \in Ops : i <= issued => kind'[i] = kind[i]
    BY <1>1 DEF User, MutateMessage, MoveMessage, IInv, TypeOK, Ops
  <2>2. UNCHANGED <<serverVars, passVars>>
    BY <1>1 DEF User, MutateMessage, MoveMessage
  <2> QED BY <1>0, <2>1, <2>2 DEF ServerInv
<1>2. ASSUME NEW p \in Passes, NEW label \in PassState \ {"fetched", "answered"},
             pc' = [pc EXCEPT ![p] = label], UNCHANGED <<kind, srvRead, srvPlace>>,
             \A q \in Passes : q # p => hand'[q] = hand[q] /\ seen'[q] = seen[q]
      PROVE  ServerInv'
  <2>1. \A q \in Passes : q # p => pc'[q] = pc[q]
    BY <1>2 DEF IInv, TypeOK
  <2>2. pc'[p] \notin {"fetched", "answered"}
    BY <1>2 DEF IInv, TypeOK
  <2> QED BY <1>2, <2>1, <2>2 DEF ServerInv
<1>3. ASSUME NEW p \in Passes, EndPass(p), UNCHANGED <<kind, srvRead, srvPlace>>
      PROVE  ServerInv'
  BY <1>2, <1>3 DEF EndPass, PassState, IInv, TypeOK
<1>4. ASSUME NEW p \in Passes, NEW label \in PassState \ {"fetched", "answered"},
             Goto(p, label), UNCHANGED <<kind, srvRead, srvPlace>>
      PROVE  ServerInv'
  BY <1>2, <1>4 DEF Goto
<1>5. ASSUME NEW p \in Passes, TryStart(p) \/ StartOver(p) \/ SkipIndex(p)
      PROVE  ServerInv'
  BY <1>4, <1>5 DEF TryStart, StartOver, SkipIndex, PassState
<1>6. ASSUME NEW p \in Passes, FetchFails(p) \/ OperationFails(p) \/ OperationRejected(p)
      PROVE  ServerInv'
  BY <1>3, <1>6 DEF FetchFails, OperationFails, OperationRejected
<1>7. ASSUME NEW p \in Passes, ApplyIndex(p) \/ CheckToken(p) \/ PublishStatus(p)
      PROVE  ServerInv'
  <2>1. UNCHANGED <<kind, srvRead, srvPlace>>
    BY <1>7 DEF ApplyIndex, CheckToken, PublishStatus
  <2>2. EndPass(p) \/ Goto(p, "flushing") \/ Goto(p, "checked") \/ Goto(p, "sending")
    BY <1>7 DEF ApplyIndex, CheckToken, PublishStatus
  <2> QED BY <1>3, <1>4, <2>1, <2>2 DEF PassState
<1>8. ASSUME NEW p \in Passes, ClaimOperation(p)
      PROVE  ServerInv'
  <2>1. UNCHANGED <<kind, srvRead, srvPlace>>
    BY <1>8 DEF ClaimOperation
  <2>2. \/ EndPass(p)
        \/ /\ pc' = [pc EXCEPT ![p] = "claimed"] /\ UNCHANGED seen
           /\ \E i \in Ops : hand' = [hand EXCEPT ![p] = i]
    BY <1>8 DEF ClaimOperation
  <2> QED BY <1>2, <1>3, <2>1, <2>2 DEF PassState, IInv, TypeOK
<1>9. ASSUME NEW p \in Passes, CompletePendingOperation(p)
      PROVE  ServerInv'
  <2>1. UNCHANGED <<kind, srvRead, srvPlace>>
    BY <1>9 DEF CompletePendingOperation
  <2>2. \/ EndPass(p)
        \/ /\ pc' = [pc EXCEPT ![p] = "flushing"] /\ UNCHANGED seen
           /\ hand' = [hand EXCEPT ![p] = NoOp]
    BY <1>9 DEF CompletePendingOperation
  <2> QED BY <1>2, <1>3, <2>1, <2>2 DEF PassState, IInv, TypeOK
<1>10. ASSUME NEW p \in Passes, FetchIndex(p)
       PROVE  ServerInv'
  BY <1>10 DEF FetchIndex, ServerInv, IInv, TypeOK
<1>11. ASSUME NEW p \in Passes, ServerApplies(p)
       PROVE  ServerInv'
  <2>1. pc[p] = "sending" /\ \A q \in Passes : q # p => pc[q] = "idle"
    BY <1>11, AloneRuns DEF ServerApplies, OrderInv
  <2>2. pc'[p] = "answered" /\ \A q \in Passes : q # p => pc'[q] = "idle"
    BY <1>11, <2>1 DEF ServerApplies, Goto, IInv, TypeOK
  <2>3. srvPlace' = "source" /\ kind'[hand'[p]] # "move" =>
          srvRead' = (kind'[hand'[p]] = "read")
    BY <1>11 DEF ServerApplies, Goto, IInv, TypeOK, ServerPlace
  <2> QED BY <2>2, <2>3 DEF ServerInv
<1>12. CASE CrashAndReopen
  BY <1>12 DEF CrashAndReopen, ServerInv
<1>13. CASE CancelSync \/ (\E p \in Passes : CancelParent(p)) \/ UNCHANGED vars
  BY <1>13 DEF CancelSync, CancelParent, vars, ServerInv
<1> QED
  BY <1>1, <1>5, <1>6, <1>7, <1>8, <1>9, <1>10, <1>11, <1>12, <1>13 DEF Next, Run

-----------------------------------------------------------------------------
(***************************************************************************)
(* The last choice of the user.                                            *)
(***************************************************************************)

\* The choices the user has made of the read flag.
Chosen == {i \in FlagOps : state[i] # "absent"}

\* The choice i is the last one.
IsLast(i) == i \in Chosen /\ \A j \in Chosen : j <= i

\* The flag is what the user chose last.
Intended(flag) ==
  IF Chosen = {} THEN ~flag ELSE \E i \in Chosen : IsLast(i) /\ (flag <=> kind[i] = "read")

NoneRefused == \A i \in Chosen : state[i] # "conflicted"
AllDone == \A i \in Chosen : state[i] = "done"

IntentInv ==
  /\ Chosen = {} \/ \E i \in Chosen : IsLast(i)
  /\ NoneRefused => /\ place # "gone" => Intended(read)
                    /\ srvPlace = "source" /\ AllDone => Intended(srvRead)

\* The latest row of a set is the one that is as late as all.
LEMMA LatestIsLast ==
  ASSUME NEW S \in SUBSET Ops, NEW i \in S, \A j \in S : j <= i
  PROVE  Latest(S) = i
<1>1. \A m \in S : (\A j \in S : j <= m) => m = i
  BY DEF Ops
<1> QED BY <1>1 DEF Latest

\* The invariant says what the property says.
LEMMA IntentIsKept ==
  ASSUME IInv, IntentInv PROVE LastIntentWins
<1>1. Chosen \in SUBSET Ops
  BY DEF Chosen, FlagOps
<1>2. ASSUME NEW flag \in BOOLEAN, Intended(flag)
      PROVE  flag = (Chosen # {} /\ kind[Latest(Chosen)] = "read")
  <2>1. CASE Chosen = {}
    BY <1>2, <2>1 DEF Intended
  <2>2. CASE Chosen # {}
    <3>1. PICK i \in Chosen : IsLast(i) /\ (flag <=> kind[i] = "read")
      BY <1>2, <2>2 DEF Intended
    <3>2. Latest(Chosen) = i
      BY <1>1, <3>1, LatestIsLast DEF IsLast
    <3> QED BY <2>2, <3>1, <3>2
  <2> QED BY <2>1, <2>2
<1>3. read \in BOOLEAN /\ srvRead \in BOOLEAN
  BY DEF IInv, TypeOK
<1>4. NoneRefused => /\ place # "gone" => read = (Chosen # {} /\ kind[Latest(Chosen)] = "read")
                     /\ srvPlace = "source" /\ AllDone =>
                          srvRead = (Chosen # {} /\ kind[Latest(Chosen)] = "read")
  BY <1>2, <1>3 DEF IntentInv
<1> QED BY <1>4 DEF LastIntentWins, Chosen, NoneRefused, AllDone

\* A step that makes no choice and touches neither the flag nor what is done.
LEMMA IntentKept ==
  ASSUME IInv, IntentInv, UNCHANGED <<kind, read>>,
         \A i \in Ops : state'[i] = "absent" <=> state[i] = "absent",
         NoneRefused' => NoneRefused,
         place' # "gone" => place # "gone",
         NoneRefused' /\ srvPlace' = "source" /\ AllDone' =>
           srvPlace = "source" /\ AllDone /\ srvRead' = srvRead
  PROVE  IntentInv'
<1>1. Chosen' = Chosen
  BY DEF Chosen, FlagOps
<1>2. \A i \in Chosen : IsLast(i) <=> IsLast(i)'
  BY <1>1 DEF IsLast
<1>3. Intended(read) => Intended(read)'
  BY <1>1, <1>2 DEF Intended
<1>4. srvRead' = srvRead /\ Intended(srvRead) => Intended(srvRead)'
  BY <1>1, <1>2 DEF Intended
<1> QED BY <1>1, <1>2, <1>3, <1>4 DEF IntentInv

\* The rows that wait, put over the flag of the server, show the last choice.
LEMMA OverlayIsIntended ==
  ASSUME IInv, OrderInv, IntentInv, NoneRefused, srvPlace = "source"
  PROVE  Intended(OverlayPendingFlags(srvRead))
<1> DEFINE waiting == {i \in FlagOps : IsOutstanding(i)}
<1>1. waiting \subseteq Chosen /\ Chosen \subseteq Ops
  BY DEF Chosen, FlagOps, IsOutstanding, Outstanding
<1>2. \A i \in Chosen : i \in waiting \/ state[i] = "done"
  BY DEF Chosen, FlagOps, IsOutstanding, Outstanding, NoneRefused, IInv, TypeOK, OpState
<1>3. CASE waiting = {}
  <2>1. AllDone
    BY <1>2, <1>3 DEF AllDone
  <2>2. OverlayPendingFlags(srvRead) = srvRead
    BY <1>3 DEF OverlayPendingFlags
  <2> QED BY <2>1, <2>2 DEF IntentInv
<1>4. CASE waiting # {}
  <2>1. PICK i \in Chosen : IsLast(i)
    BY <1>1, <1>4 DEF IntentInv
  <2>2. i \in waiting
    <3>1. PICK w \in waiting : TRUE
      BY <1>4
    <3>2. w <= i /\ w \in Ops /\ i \in Ops /\ IsOutstanding(w)
      BY <1>1, <2>1, <3>1 DEF IsLast
    <3>3. state[i] # "done"
      BY <3>2 DEF OrderInv, Ops, IsOutstanding, Outstanding
    <3> QED BY <1>2, <3>3
  <2>3. Latest(waiting) = i
    BY <1>1, <2>1, <2>2, LatestIsLast DEF IsLast
  <2>4. OverlayPendingFlags(srvRead) = (kind[i] = "read")
    BY <1>4, <2>3 DEF OverlayPendingFlags
  <2> QED BY <2>1, <2>4 DEF Intended
<1> QED BY <1>3, <1>4

\* Steps that leave the flag alone, on the screen and at the server, and finish no
\* row.
LEMMA IntentUntouched ==
  ASSUME IInv, IntentInv, UNCHANGED <<kind, read, srvRead, srvPlace>>,
         place' # "gone" => place # "gone",
         \A i \in Ops : \/ state'[i] = state[i]
                        \/ IsOutstanding(i) /\ state'[i] \in {"sending", "failed", "conflicted"}
  PROVE  IntentInv'
<1>1. \A i \in Ops : /\ state'[i] = "absent" <=> state[i] = "absent"
                     /\ state'[i] = "done" => state[i] = "done"
                     /\ state[i] = "conflicted" => state'[i] = "conflicted"
  BY DEF IsOutstanding, Outstanding
<1>2. Chosen' = Chosen /\ Chosen \subseteq Ops
  BY <1>1 DEF Chosen, FlagOps
<1>3. AllDone' => AllDone
  BY <1>1, <1>2 DEF AllDone
<1>4. NoneRefused' => NoneRefused
  BY <1>1, <1>2 DEF NoneRefused
<1> QED BY <1>1, <1>3, <1>4, IntentKept

\* Every step keeps the last choice on the screen, and at the server once it is
\* uploaded.
LEMMA IntentStep ==
  ASSUME takeovers' = 0, IInv, OrderInv, ServerInv, IntentInv, [Next]_vars
  PROVE  IntentInv'
<1> USE DEF rowVars, localVars, serverVars, slotVars, passVars, countVars
<1>1. ASSUME NEW k \in {"read", "unread"}, MutateMessage(k)
      PROVE  IntentInv'
  <2>1. PICK new \in Ops :
          /\ new = issued + 1
          /\ \A i \in Ops : i >= new => state[i] = "absent"
    BY <1>1 DEF MutateMessage, IInv, TypeOK, UnissuedInv, Ops
  <2>2. /\ kind'[new] = k /\ state'[new] = "pending"
        /\ \A i \in Ops : i # new => kind'[i] = kind[i] /\ state'[i] = state[i]
    BY <1>1, <2>1 DEF MutateMessage, IInv, TypeOK
  <2>3. Chosen' = Chosen \cup {new}
    BY <2>1, <2>2 DEF Chosen, FlagOps
  <2>4. \A j \in Chosen : j <= new
    BY <2>1 DEF Chosen, FlagOps, Ops
  <2>5. new \in Chosen' /\ IsLast(new)'
    BY <2>3, <2>4 DEF IsLast, Ops
  <2>6. ~AllDone'
    BY <2>2, <2>3 DEF AllDone
  <2>7. read' <=> k = "read"
    BY <1>1 DEF MutateMessage
  <2>8. Intended(read)'
    BY <2>2, <2>5, <2>7 DEF Intended
  <2> QED BY <2>5, <2>6, <2>8 DEF IntentInv
<1>2. CASE MoveMessage
  <2>1. /\ issued + 1 \in Ops
        /\ \A i \in Ops : i > issued => state[i] = "absent"
    BY <1>2 DEF MoveMessage, IInv, TypeOK, UnissuedInv, Ops
  <2>2. /\ kind'[issued + 1] = "move"
        /\ \A i \in Ops : i # issued + 1 => kind'[i] = kind[i] /\ state'[i] = state[i]
    BY <1>2, <2>1 DEF MoveMessage, IInv, TypeOK
  <2>3. /\ Chosen' = Chosen
        /\ \A i \in Chosen : kind'[i] = kind[i] /\ state'[i] = state[i]
    BY <2>1, <2>2 DEF Chosen, FlagOps, IInv, TypeOK, Ops
  <2>4. \A i \in Chosen : IsLast(i) <=> IsLast(i)'
    BY <2>3 DEF IsLast
  <2>5. UNCHANGED <<read, srvRead, srvPlace>> /\ place # "gone"
    BY <1>2 DEF MoveMessage
  <2>6. (Intended(read) => Intended(read)') /\ (Intended(srvRead) => Intended(srvRead)')
    BY <2>3, <2>4, <2>5 DEF Intended
  <2>7. (NoneRefused <=> NoneRefused') /\ (AllDone <=> AllDone')
    BY <2>3 DEF NoneRefused, AllDone
  <2> QED BY <2>3, <2>4, <2>5, <2>6, <2>7 DEF IntentInv
<1>3. ASSUME UNCHANGED <<kind, state, localVars, srvRead, srvPlace>>
      PROVE  IntentInv'
  BY <1>3, IntentUntouched
<1>4. CASE CancelSync \/ UNCHANGED vars
  BY <1>3, <1>4 DEF CancelSync, vars
<1>5. ASSUME NEW p \in Passes,
             \/ TryStart(p) \/ StartOver(p) \/ CancelParent(p) \/ FetchIndex(p)
             \/ SkipIndex(p) \/ FetchFails(p) \/ PublishStatus(p)
      PROVE  IntentInv'
  BY <1>3, <1>5 DEF TryStart, StartOver, CancelParent, FetchIndex, SkipIndex, FetchFails,
                    PublishStatus
<1>6. CASE CrashAndReopen
  <2>1. \A i \in Ops : state'[i] = state[i] \/ (state[i] = "sending" /\ state'[i] = "failed")
    BY <1>6 DEF CrashAndReopen, RecoverInterrupted
  <2> QED BY <1>6, <2>1, IntentUntouched DEF CrashAndReopen, IsOutstanding, Outstanding
<1>7. ASSUME NEW p \in Passes, pc[p] \in InFlight
      PROVE  hand[p] \in Ops /\ state[hand[p]] = "sending" /\ IsOutstanding(hand[p])
  BY <1>7 DEF IInv, HandInv, ExclusiveOperation, NoOp, Ops, IsOutstanding, Outstanding
<1>8. ASSUME NEW i \in Ops, IsOutstanding(i), kind[i] = "move"
      PROVE  place = "hidden"
  BY <1>8 DEF IInv, MoveStaysHidden, Moves
<1>9. ASSUME NEW i \in Ops, IsOutstanding(i), Conflict(i),
             UNCHANGED <<kind, read, srvRead, srvPlace>>
      PROVE  IntentInv'
  <2>1. place' # "gone" => place # "gone"
    BY <1>8, <1>9 DEF Conflict
  <2>2. \A j \in Ops : state'[j] = state[j] \/ (j = i /\ state'[j] = "conflicted")
    BY <1>9 DEF Conflict, IInv, TypeOK
  <2> QED BY <1>9, <2>1, <2>2, IntentUntouched
<1>10. ASSUME NEW i \in Ops, IsOutstanding(i), NEW s \in {"sending", "failed"},
              state' = [state EXCEPT ![i] = s],
              UNCHANGED <<kind, localVars, srvRead, srvPlace>>
       PROVE  IntentInv'
  <2>1. \A j \in Ops : state'[j] = state[j] \/ (j = i /\ state'[j] = s)
    BY <1>10 DEF IInv, TypeOK
  <2> QED BY <1>10, <2>1, IntentUntouched
<1>11. ASSUME NEW p \in Passes, ApplyIndex(p)
       PROVE  IntentInv'
  <2>1. pc[p] = "fetched" /\ UNCHANGED <<kind, state, srvRead, srvPlace>>
    BY <1>11 DEF ApplyIndex
  <2>2. seen[p].read = srvRead /\ seen[p].place = srvPlace
    BY <2>1 DEF ServerInv
  <2>3. CASE read' = read /\ (place' # "gone" => place # "gone")
    BY <2>1, <2>3, IntentUntouched
  <2>4. CASE srvPlace = "source" /\ read' = OverlayPendingFlags(srvRead)
    <3>1. Chosen' = Chosen /\ NoneRefused' = NoneRefused /\ AllDone' = AllDone
      BY <2>1 DEF Chosen, FlagOps, NoneRefused, AllDone
    <3>2. \A i \in Chosen : IsLast(i) <=> IsLast(i)'
      BY <3>1 DEF IsLast
    <3>3. NoneRefused => Intended(read)'
      BY <2>1, <2>4, <3>1, <3>2, OverlayIsIntended DEF Intended
    <3>4. Intended(srvRead) => Intended(srvRead)'
      BY <2>1, <3>1, <3>2 DEF Intended
    <3> QED BY <2>1, <3>1, <3>2, <3>3, <3>4 DEF IntentInv
  <2>5. \/ read' = read /\ (place' # "gone" => place # "gone")
        \/ srvPlace = "source" /\ read' = OverlayPendingFlags(srvRead)
    BY <1>11, <2>2 DEF ApplyIndex, PlacedWithoutServer, IInv, TypeOK, ServerPlace
  <2> QED BY <2>3, <2>4, <2>5
<1>12. ASSUME NEW p \in Passes, ClaimOperation(p)
       PROVE  IntentInv'
  <2>1. UNCHANGED <<kind, read, srvRead, srvPlace>>
    BY <1>12 DEF ClaimOperation
  <2>2. CASE UNCHANGED <<state, place>>
    BY <1>3, <2>1, <2>2
  <2>3. ASSUME NEW i \in Ops, IsNext(i)
        PROVE  IsOutstanding(i)
    BY <2>3 DEF IsNext, Claimable, IsOutstanding, Outstanding
  <2>4. ASSUME NEW i \in Ops, IsNext(i), Conflict(i)
        PROVE  IntentInv'
    BY <1>9, <2>1, <2>3, <2>4
  <2>5. ASSUME NEW i \in Ops, IsNext(i), state' = [state EXCEPT ![i] = "sending"],
               UNCHANGED place
        PROVE  IntentInv'
    BY <1>10, <2>1, <2>3, <2>5
  <2> QED BY <1>12, <2>2, <2>4, <2>5 DEF ClaimOperation
<1>13. ASSUME NEW p \in Passes, CheckToken(p)
       PROVE  IntentInv'
  <2>1. pc[p] \in InFlight /\ UNCHANGED <<kind, localVars, srvRead, srvPlace>>
    BY <1>13 DEF CheckToken, InFlight
  <2>2. state' = state \/ state' = [state EXCEPT ![hand[p]] = "failed"]
    BY <1>13 DEF CheckToken
  <2> QED BY <1>3, <1>7, <1>10, <2>1, <2>2
<1>14. ASSUME NEW p \in Passes, OperationFails(p)
       PROVE  IntentInv'
  BY <1>7, <1>10, <1>14 DEF OperationFails, InFlight
<1>15. ASSUME NEW p \in Passes, OperationRejected(p)
       PROVE  IntentInv'
  BY <1>7, <1>9, <1>15 DEF OperationRejected, InFlight
<1>16. ASSUME NEW p \in Passes, ServerApplies(p)
       PROVE  IntentInv'
  <2>1. pc[p] \in InFlight /\ UNCHANGED <<kind, state, localVars>>
    BY <1>16 DEF ServerApplies, InFlight
  <2>2. Chosen' = Chosen /\ (NoneRefused' <=> NoneRefused) /\ (AllDone' <=> AllDone)
    BY <2>1 DEF Chosen, FlagOps, NoneRefused, AllDone
  <2>3. kind[hand[p]] # "move" => ~AllDone
    BY <1>7, <2>1 DEF AllDone, Chosen, FlagOps
  <2>4. kind[hand[p]] = "move" =>
          srvRead' = srvRead /\ (srvPlace' = "source" => srvPlace = "source")
    BY <1>16 DEF ServerApplies
  <2> QED BY <2>1, <2>2, <2>3, <2>4, IntentKept
<1>17. ASSUME NEW p \in Passes, CompletePendingOperation(p)
       PROVE  IntentInv'
  <2>1. /\ pc[p] = "answered" /\ hand[p] \in Ops /\ hand[p] \in applied
        /\ state[hand[p]] = "sending"
    BY <1>7, <1>17 DEF CompletePendingOperation, InFlight, IInv, AnsweredInv
  <2>2. /\ state' = [state EXCEPT ![hand[p]] = "done"]
        /\ UNCHANGED <<kind, localVars, srvRead, srvPlace>>
    BY <1>17 DEF CompletePendingOperation
  <2>3. /\ state'[hand[p]] = "done"
        /\ \A i \in Ops : i # hand[p] => state'[i] = state[i]
    BY <2>1, <2>2 DEF IInv, TypeOK
  <2>4. Chosen' = Chosen /\ Chosen \subseteq Ops
    BY <2>1, <2>2, <2>3 DEF Chosen, FlagOps
  <2>5. NoneRefused' => NoneRefused
    BY <2>1, <2>3, <2>4 DEF NoneRefused
  <2>6. CASE kind[hand[p]] = "move"
    <3>1. srvPlace = "target"
      BY <2>1, <2>6 DEF IInv, AppliedMoveInv
    <3> QED BY <2>1, <2>2, <2>3, <2>5, <3>1, IntentKept
  <2>7. CASE kind[hand[p]] # "move"
    <3>1. hand[p] \in Chosen
      BY <2>1, <2>7 DEF Chosen, FlagOps
    <3>2. ASSUME AllDone' PROVE IsLast(hand[p])
      <4>1. ASSUME NEW j \in Chosen PROVE j <= hand[p]
        <5>1. j \in Ops /\ (j = hand[p] \/ state[j] = "done")
          BY <2>3, <2>4, <3>2 DEF AllDone
        <5>2. ~(hand[p] < j)
          BY <2>1, <5>1 DEF OrderInv, IsOutstanding, Outstanding, Ops
        <5> QED BY <2>1, <5>1, <5>2 DEF Ops
      <4> QED BY <3>1, <4>1 DEF IsLast
    <3>3. srvPlace = "source" => (srvRead <=> kind[hand[p]] = "read")
      BY <2>1, <2>7 DEF ServerInv
    <3>4. \A i \in Chosen : IsLast(i) <=> IsLast(i)'
      BY <2>4 DEF IsLast
    <3>5. srvPlace' = "source" /\ AllDone' => Intended(srvRead)'
      BY <2>2, <2>4, <3>1, <3>2, <3>3, <3>4 DEF Intended
    <3>6. Intended(read) => Intended(read)'
      BY <2>2, <2>4, <3>4 DEF Intended
    <3> QED BY <2>2, <2>4, <2>5, <3>4, <3>5, <3>6 DEF IntentInv
  <2> QED BY <2>6, <2>7
<1> QED
  BY <1>1, <1>2, <1>4, <1>5, <1>6, <1>11, <1>12, <1>13, <1>14, <1>15, <1>16, <1>17
     DEF Next, User, Run

\* Nothing is chosen, held or known at the start.
LEMMA InitIntent == Init => OrderInv /\ ServerInv /\ IntentInv
<1> SUFFICES ASSUME Init PROVE OrderInv /\ ServerInv /\ IntentInv
  OBVIOUS
<1>1. OrderInv /\ ServerInv
  BY DEF Init, OrderInv, Alone, ServerInv, NoOp
<1>2. Chosen = {}
  BY DEF Init, Chosen, FlagOps
<1>3. ~read /\ ~srvRead
  BY DEF Init
<1> QED BY <1>1, <1>2, <1>3 DEF IntentInv, Intended

\* The count of takeovers never falls.
LEMMA TakeoversStay ==
  ASSUME IInv, [Next]_vars, takeovers' = 0
  PROVE  takeovers = 0
BY DEF IInv, TypeOK, Next, User, Run, MutateMessage, MoveMessage, TryStart, StartOver,
       CancelSync, CancelParent, FetchIndex, SkipIndex, FetchFails, ApplyIndex,
       ClaimOperation, CheckToken, PublishStatus, ServerApplies, CompletePendingOperation,
       OperationFails, OperationRejected, CrashAndReopen, EndPass, countVars, vars

Undisturbed == takeovers = 0 => OrderInv /\ ServerInv /\ IntentInv

\* Until the first takeover there is one pass at a time: rows are sent one after the
\* other, and the last choice of the user is on the screen and in the end at the server.
THEOREM IntentInvariance == Spec => []Undisturbed
<1>1. Init => Undisturbed
  BY InitIntent DEF Undisturbed
<1>2. ASSUME IInv, Undisturbed, [Next]_vars PROVE Undisturbed'
  <2>1. SUFFICES ASSUME takeovers' = 0 PROVE OrderInv' /\ ServerInv' /\ IntentInv'
    BY DEF Undisturbed
  <2>2. OrderInv /\ ServerInv /\ IntentInv
    BY <1>2, <2>1, TakeoversStay DEF Undisturbed
  <2> QED BY <1>2, <2>1, <2>2, OrderStep, ServerStep, IntentStep
<1>3. IInv /\ Undisturbed /\ [Next]_vars => Undisturbed'
  BY <1>2
<1> QED BY <1>1, <1>3, Invariance, PTL DEF Spec

\* Until somebody takes the slot from a pass, no answer of the server and no crash
\* makes the screen or the server forget what the user chose last.
THEOREM IntentWins == Spec => []IntentUntilTakeover
<1>1. IInv /\ Undisturbed => IntentUntilTakeover
  BY IntentIsKept DEF Undisturbed, IntentUntilTakeover
<1> QED BY <1>1, IntentInvariance, Invariance, PTL

\* Until somebody takes the slot from a pass, the server carries the rows out in the
\* order of their creation.
THEOREM ServerKeepsOrder == Spec => OperationsInOrder
<1> DEFINE Ordered ==
      takeovers = 0 =>
        \A i \in applied' \ applied : \A j \in Ops : j < i => ~IsOutstanding(j)
<1>1. ASSUME IInv, Undisturbed, [Next]_vars PROVE [Ordered]_vars
  <2>1. ASSUME NEW p \in Passes, ServerApplies(p), takeovers = 0
        PROVE  \A i \in applied' \ applied : \A j \in Ops : j < i => ~IsOutstanding(j)
    <3>1. pc[p] = "sending" /\ applied' = applied \cup {hand[p]}
      BY <2>1 DEF ServerApplies
    <3>2. hand[p] \in Ops /\ hand[p] # NoOp
      BY <1>1, <3>1 DEF IInv, HandInv, InFlight, Ops, NoOp
    <3> QED BY <1>1, <2>1, <3>1, <3>2 DEF Undisturbed, OrderInv
  <2>2. UNCHANGED applied \/ \E p \in Passes : ServerApplies(p)
    BY <1>1 DEF Next, User, Run, MutateMessage, MoveMessage, TryStart, StartOver, CancelSync,
                CancelParent, FetchIndex, SkipIndex, FetchFails, ApplyIndex, ClaimOperation,
                CheckToken, PublishStatus, CompletePendingOperation, OperationFails,
                OperationRejected, CrashAndReopen, serverVars, vars
  <2> QED BY <2>1, <2>2
<1>2. IInv /\ Undisturbed /\ [Next]_vars => [Ordered]_vars
  BY <1>1
<1>3. OperationsInOrder <=> [][Ordered]_vars
  BY DEF OperationsInOrder
<1> QED BY <1>2, <1>3, IntentInvariance, Invariance, PTL DEF Spec

\* Nothing but taking the slot from a pass leaves a row marked `sending` that no pass works
\* on: a stop by the parent, a refusal, a network error or a crash gives back what was claimed
\* (fail_pending_operation, recover_interrupted_pending_operations).
THEOREM StrandedOnlyByTakeover == Spec => [](takeovers = 0 => NoStrandedOperation)
<1>1. Undisturbed => (takeovers = 0 => NoStrandedOperation)
  BY DEF Undisturbed, OrderInv, NoStrandedOperation
<1> QED BY <1>1, IntentInvariance, PTL

=============================================================================
