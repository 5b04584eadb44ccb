---------------------------- MODULE SyncSlotProofs ----------------------------
(***************************************************************************)
(* Proofs of the safety properties of SyncSlot for any number of passes,   *)
(* messages, commands, problems and crashes.                               *)
(*                                                                         *)
(* The argument: only the owner of the slot writes the cache, and the slot *)
(* changes hands only to a pass that has not yet read the cursor.  So the  *)
(* cursor the owner planned from is the cursor of the cache, and what it   *)
(* fetched from there lies ahead of it.                                    *)
(***************************************************************************)
EXTENDS SyncSlot, TLAPS

\* What was fetched lies at or after the cursor it was asked from.
FetchedAhead == \A t \in Tasks : pc[t] = "fetched" => got[t] >= plan[t]

IInv ==
  /\ TypeOK
  /\ FetchedAhead
  /\ PassIsolation
  /\ NoLeakedSlot
  /\ NoLostWakeup

-----------------------------------------------------------------------------
USE SyncSlotAssumption

\* Every step keeps the types.
LEMMA TypeStep == ASSUME TypeOK, [Next]_vars PROVE TypeOK'
<1> USE DEF TypeOK, Kind, PassState, Status, Outcome, passVars, statusVars, mailVars,
            waitVars, countVars
<1>1. ASSUME NEW t \in Tasks, LoadSession(t) PROVE TypeOK'
  BY <1>1 DEF LoadSession, Goto, EndWith
<1>2. ASSUME NEW t \in Tasks, RecordStartError(t) PROVE TypeOK'
  BY <1>2 DEF RecordStartError, FinishCurrent, SlotChanged, Ended, CommandReturns, Owns
<1>3. ASSUME NEW t \in Tasks, MarkStarted(t) PROVE TypeOK'
  BY <1>3 DEF MarkStarted, Owns, Goto, Ended, CommandReturns
<1>4. ASSUME NEW t \in Tasks, PublishStatus(t) PROVE TypeOK'
  BY <1>4 DEF PublishStatus, Owns, Goto, EndWith
<1>5. ASSUME NEW t \in Tasks, Plan(t) PROVE TypeOK'
  BY <1>5 DEF Plan, Owns, EndWith
<1>6. ASSUME NEW t \in Tasks, FetchSnapshot(t) PROVE TypeOK'
  BY <1>6 DEF FetchSnapshot
<1>7. ASSUME NEW t \in Tasks, NetworkFails(t) PROVE TypeOK'
  BY <1>7 DEF NetworkFails, EndWith
<1>8. ASSUME NEW t \in Tasks, ApplySnapshot(t) PROVE TypeOK'
  BY <1>8 DEF ApplySnapshot, Owns, EndWith
<1>9. ASSUME NEW t \in Tasks, FinishCurrentSync(t) PROVE TypeOK'
  BY <1>9 DEF FinishCurrentSync, FinishCurrent, SlotChanged, Ended, Owns
<1>10. ASSUME NEW t \in Tasks, Start(t) PROVE TypeOK'
  BY <1>10 DEF Start, SlotChanged
<1>11. ASSUME NEW t \in Tasks, CancelParent(t) PROVE TypeOK'
  BY <1>11 DEF CancelParent
<1>12. ASSUME NEW t \in Tasks, NEW k \in Kind \ {"manual"}, TryStart(t, k)
      PROVE TypeOK'
  BY <1>12 DEF TryStart, SlotChanged
<1>13. CASE CancelSync
  BY <1>13 DEF CancelSync, RemoveToken
<1>14. CASE UpdateCredentials
  BY <1>14 DEF UpdateCredentials, RemoveToken
<1>15. CASE CancelStatus
  BY <1>15 DEF CancelStatus, SlotChanged
<1>16. CASE CancelPersist
  BY <1>16 DEF CancelPersist
<1>17. CASE NotifyStateChange
  BY <1>17 DEF NotifyStateChange
<1>18. CASE Subscribe
  <2>1. unseen' \in BOOLEAN
    BY <1>18, Zenon DEF Subscribe
  <2>2. waits' \in Nat /\ waiter' \in {"out", "check", "wait"}
    BY <1>18 DEF Subscribe
  <2>3. UNCHANGED <<slot, cancelled, passVars, statusVars, mailVars, ui, notices,
                    listener, cancels, updates, problems, restarts>>
    BY <1>18 DEF Subscribe
  <2> QED BY <2>1, <2>2, <2>3
<1>19. CASE CheckActive
  BY <1>19 DEF CheckActive
<1>20. CASE WakeUp
  BY <1>20 DEF WakeUp
<1>21. CASE ReportProblem
  BY <1>21 DEF ReportProblem
<1>22. CASE WriteProblem
  BY <1>22 DEF WriteProblem
<1>23. CASE PublishProblem
  BY <1>23 DEF PublishProblem
<1>24. CASE MailArrives
  BY <1>24 DEF MailArrives
<1>25. CASE CrashAndReopen
  <2>1. pc' \in [Tasks -> PassState]
    BY <1>25 DEF CrashAndReopen
  <2>2. /\ kind' \in [Tasks -> Kind] /\ outcome' \in [Tasks -> Outcome]
        /\ plan' \in [Tasks -> Nat] /\ got' \in [Tasks -> Nat]
    BY <1>25 DEF CrashAndReopen
  <2>3. unseen' \in BOOLEAN
    BY <1>25, Zenon DEF CrashAndReopen
  <2>4. /\ slot' \in Tasks \cup {NoTask} /\ cancelled' \subseteq Tasks
        /\ mem' \in Status /\ db' \in Status
        /\ ui' \in Tasks \cup {NoTask} \cup {"cancel", "persist", "credentials"}
        /\ waiter' \in {"out", "check", "wait"}
        /\ listener' \in {"quiet", "write", "publish"}
    BY <1>25 DEF CrashAndReopen
  <2>5. /\ notices' \in Nat /\ restarts' \in Nat /\ cursor' \in Nat /\ server' \in Nat
        /\ cancels' \in Nat /\ updates' \in Nat /\ waits' \in Nat /\ problems' \in Nat
    BY <1>25 DEF CrashAndReopen
  <2> QED BY <2>1, <2>2, <2>3, <2>4, <2>5
<1>26. CASE UNCHANGED vars
  BY <1>26 DEF vars
<1> QED
  BY <1>1, <1>2, <1>3, <1>4, <1>5, <1>6, <1>7, <1>8, <1>9, <1>10, <1>11, <1>12,
     <1>13, <1>14, <1>15, <1>16, <1>17, <1>18, <1>19, <1>20, <1>21, <1>22, <1>23, <1>24,
     <1>25, <1>26
  DEF Next, Pass, Command, Listener

\* Every step keeps the cache and the owner's plan in line, whoever lost the slot.
LEMMA PlanStep ==
  ASSUME IInv, [Next]_vars PROVE FetchedAhead' /\ PassIsolation' /\ NoLeakedSlot'
<1> DEFINE Goal == FetchedAhead' /\ PassIsolation' /\ NoLeakedSlot'
<1> USE DEF IInv, TypeOK, FetchedAhead, PassIsolation, NoLeakedSlot, passVars,
            statusVars, mailVars, waitVars, countVars
<1>1. ASSUME NEW t \in Tasks, LoadSession(t) PROVE Goal
  BY <1>1 DEF LoadSession, Goto, EndWith
<1>2. ASSUME NEW t \in Tasks, RecordStartError(t) PROVE Goal
  BY <1>2 DEF RecordStartError, FinishCurrent, SlotChanged, Ended, CommandReturns, Owns
<1>3. ASSUME NEW t \in Tasks, MarkStarted(t) PROVE Goal
  BY <1>3 DEF MarkStarted, Owns, Goto, Ended, CommandReturns
<1>4. ASSUME NEW t \in Tasks, PublishStatus(t) PROVE Goal
  BY <1>4 DEF PublishStatus, Owns, Goto, EndWith
<1>5. ASSUME NEW t \in Tasks, Plan(t) PROVE Goal
  BY <1>5 DEF Plan, Owns, EndWith
<1>6. ASSUME NEW t \in Tasks, FetchSnapshot(t) PROVE Goal
  BY <1>6 DEF FetchSnapshot
<1>7. ASSUME NEW t \in Tasks, NetworkFails(t) PROVE Goal
  BY <1>7 DEF NetworkFails, EndWith
<1>8. ASSUME NEW t \in Tasks, ApplySnapshot(t) PROVE Goal
  BY <1>8 DEF ApplySnapshot, Owns, EndWith
<1>9. ASSUME NEW t \in Tasks, FinishCurrentSync(t) PROVE Goal
  BY <1>9 DEF FinishCurrentSync, FinishCurrent, SlotChanged, Ended, Owns
<1>10. ASSUME NEW t \in Tasks, Start(t) PROVE Goal
  BY <1>10 DEF Start, SlotChanged
<1>11. ASSUME NEW t \in Tasks, CancelParent(t) PROVE Goal
  BY <1>11 DEF CancelParent
<1>12. ASSUME NEW t \in Tasks, NEW k \in Kind \ {"manual"}, TryStart(t, k)
      PROVE Goal
  BY <1>12 DEF TryStart, SlotChanged
<1>13. CASE CancelSync
  BY <1>13 DEF CancelSync, RemoveToken
<1>14. CASE UpdateCredentials
  BY <1>14 DEF UpdateCredentials, RemoveToken
<1>15. CASE CancelStatus
  BY <1>15 DEF CancelStatus, SlotChanged
<1>16. CASE CancelPersist
  BY <1>16 DEF CancelPersist
<1>17. CASE NotifyStateChange
  BY <1>17 DEF NotifyStateChange
<1>18. CASE Subscribe
  BY <1>18 DEF Subscribe
<1>19. CASE CheckActive
  BY <1>19 DEF CheckActive
<1>20. CASE WakeUp
  BY <1>20 DEF WakeUp
<1>21. CASE ReportProblem
  BY <1>21 DEF ReportProblem
<1>22. CASE WriteProblem
  BY <1>22 DEF WriteProblem
<1>23. CASE PublishProblem
  BY <1>23 DEF PublishProblem
<1>24. CASE MailArrives
  BY <1>24 DEF MailArrives
<1>25. CASE CrashAndReopen
  BY <1>25 DEF CrashAndReopen
<1>26. CASE UNCHANGED vars
  BY <1>26 DEF vars
<1> QED
  BY <1>1, <1>2, <1>3, <1>4, <1>5, <1>6, <1>7, <1>8, <1>9, <1>10, <1>11, <1>12,
     <1>13, <1>14, <1>15, <1>16, <1>17, <1>18, <1>19, <1>20, <1>21, <1>22, <1>23, <1>24,
     <1>25, <1>26
  DEF Next, Pass, Command, Listener

\* Every step that frees the slot leaves a notification for a waiter.
LEMMA WakeupStep == ASSUME IInv, [Next]_vars PROVE NoLostWakeup'
<1> USE DEF IInv, TypeOK, NoLostWakeup, passVars, statusVars, mailVars, waitVars,
            countVars
<1>1. ASSUME NEW t \in Tasks, LoadSession(t) PROVE NoLostWakeup'
  BY <1>1 DEF LoadSession, Goto, EndWith
<1>2. ASSUME NEW t \in Tasks, RecordStartError(t) PROVE NoLostWakeup'
  BY <1>2 DEF RecordStartError, FinishCurrent, SlotChanged, Ended, CommandReturns, Owns
<1>3. ASSUME NEW t \in Tasks, MarkStarted(t) PROVE NoLostWakeup'
  BY <1>3 DEF MarkStarted, Owns, Goto, Ended, CommandReturns
<1>4. ASSUME NEW t \in Tasks, PublishStatus(t) PROVE NoLostWakeup'
  BY <1>4 DEF PublishStatus, Owns, Goto, EndWith
<1>5. ASSUME NEW t \in Tasks, Plan(t) PROVE NoLostWakeup'
  BY <1>5 DEF Plan, Owns, EndWith
<1>6. ASSUME NEW t \in Tasks, FetchSnapshot(t) PROVE NoLostWakeup'
  BY <1>6 DEF FetchSnapshot
<1>7. ASSUME NEW t \in Tasks, NetworkFails(t) PROVE NoLostWakeup'
  BY <1>7 DEF NetworkFails, EndWith
<1>8. ASSUME NEW t \in Tasks, ApplySnapshot(t) PROVE NoLostWakeup'
  BY <1>8 DEF ApplySnapshot, Owns, EndWith
<1>9. ASSUME NEW t \in Tasks, FinishCurrentSync(t) PROVE NoLostWakeup'
  BY <1>9 DEF FinishCurrentSync, FinishCurrent, SlotChanged, Ended, Owns
<1>10. ASSUME NEW t \in Tasks, Start(t) PROVE NoLostWakeup'
  BY <1>10 DEF Start, SlotChanged
<1>11. ASSUME NEW t \in Tasks, CancelParent(t) PROVE NoLostWakeup'
  BY <1>11 DEF CancelParent
<1>12. ASSUME NEW t \in Tasks, NEW k \in Kind \ {"manual"}, TryStart(t, k)
      PROVE NoLostWakeup'
  BY <1>12 DEF TryStart, SlotChanged
<1>13. CASE CancelSync
  BY <1>13 DEF CancelSync, RemoveToken
<1>14. CASE UpdateCredentials
  BY <1>14 DEF UpdateCredentials, RemoveToken
<1>15. CASE CancelStatus
  BY <1>15 DEF CancelStatus, SlotChanged
<1>16. CASE CancelPersist
  BY <1>16 DEF CancelPersist
<1>17. CASE NotifyStateChange
  BY <1>17 DEF NotifyStateChange
<1>18. CASE Subscribe
  BY <1>18 DEF Subscribe
<1>19. CASE CheckActive
  BY <1>19 DEF CheckActive
<1>20. CASE WakeUp
  BY <1>20 DEF WakeUp
<1>21. CASE ReportProblem
  BY <1>21 DEF ReportProblem
<1>22. CASE WriteProblem
  BY <1>22 DEF WriteProblem
<1>23. CASE PublishProblem
  BY <1>23 DEF PublishProblem
<1>24. CASE MailArrives
  BY <1>24 DEF MailArrives
<1>25. CASE CrashAndReopen
  BY <1>25 DEF CrashAndReopen
<1>26. CASE UNCHANGED vars
  BY <1>26 DEF vars
<1> QED
  BY <1>1, <1>2, <1>3, <1>4, <1>5, <1>6, <1>7, <1>8, <1>9, <1>10, <1>11, <1>12,
     <1>13, <1>14, <1>15, <1>16, <1>17, <1>18, <1>19, <1>20, <1>21, <1>22, <1>23, <1>24,
     <1>25, <1>26
  DEF Next, Pass, Command, Listener

-----------------------------------------------------------------------------
(***************************************************************************)
(* The status shown.  update_credentials is the one operation that leaves  *)
(* a status behind, so the invariant is proved for its absence.            *)
(***************************************************************************)

\* Between the two halves of a cancel the memory is right already, and the status
\* of the database is about to be.
StatusInv ==
  /\ updates = 0
  /\ ui # "credentials"
  /\ ui = "persist" /\ slot = NoTask => mem # "syncing"
  /\ NoPhantomSync

\* Without a change of credentials, every step leaves a status that somebody owns.
LEMMA StatusStep ==
  ASSUME MaxUpdates = 0, TypeOK, StatusInv, [Next]_vars PROVE StatusInv'
<1> USE DEF TypeOK, StatusInv, NoPhantomSync, passVars, statusVars, mailVars, waitVars,
            countVars
<1>1. ASSUME NEW t \in Tasks, LoadSession(t) PROVE StatusInv'
  BY <1>1 DEF LoadSession, Goto, EndWith
<1>2. ASSUME NEW t \in Tasks, RecordStartError(t) PROVE StatusInv'
  BY <1>2 DEF RecordStartError, FinishCurrent, SlotChanged, Ended, CommandReturns, Owns
<1>3. ASSUME NEW t \in Tasks, MarkStarted(t) PROVE StatusInv'
  BY <1>3 DEF MarkStarted, Owns, Goto, Ended, CommandReturns
<1>4. ASSUME NEW t \in Tasks, PublishStatus(t) PROVE StatusInv'
  BY <1>4 DEF PublishStatus, Owns, Goto, EndWith
<1>5. ASSUME NEW t \in Tasks, Plan(t) PROVE StatusInv'
  BY <1>5 DEF Plan, Owns, EndWith
<1>6. ASSUME NEW t \in Tasks, FetchSnapshot(t) PROVE StatusInv'
  BY <1>6 DEF FetchSnapshot
<1>7. ASSUME NEW t \in Tasks, NetworkFails(t) PROVE StatusInv'
  BY <1>7 DEF NetworkFails, EndWith
<1>8. ASSUME NEW t \in Tasks, ApplySnapshot(t) PROVE StatusInv'
  BY <1>8 DEF ApplySnapshot, Owns, EndWith
<1>9. ASSUME NEW t \in Tasks, FinishCurrentSync(t) PROVE StatusInv'
  BY <1>9 DEF FinishCurrentSync, FinishCurrent, SlotChanged, Ended, Owns
<1>10. ASSUME NEW t \in Tasks, Start(t) PROVE StatusInv'
  BY <1>10 DEF Start, SlotChanged
<1>11. ASSUME NEW t \in Tasks, CancelParent(t) PROVE StatusInv'
  BY <1>11 DEF CancelParent
<1>12. ASSUME NEW t \in Tasks, NEW k \in Kind \ {"manual"}, TryStart(t, k)
      PROVE StatusInv'
  BY <1>12 DEF TryStart, SlotChanged
<1>13. CASE CancelSync
  BY <1>13 DEF CancelSync, RemoveToken
<1>14. CASE UpdateCredentials
  BY <1>14 DEF UpdateCredentials, RemoveToken
<1>15. CASE CancelStatus
  BY <1>15 DEF CancelStatus, SlotChanged
<1>16. CASE CancelPersist
  BY <1>16 DEF CancelPersist
<1>17. CASE NotifyStateChange
  BY <1>17 DEF NotifyStateChange
<1>18. CASE Subscribe
  BY <1>18 DEF Subscribe
<1>19. CASE CheckActive
  BY <1>19 DEF CheckActive
<1>20. CASE WakeUp
  BY <1>20 DEF WakeUp
<1>21. CASE ReportProblem
  BY <1>21 DEF ReportProblem
<1>22. CASE WriteProblem
  BY <1>22 DEF WriteProblem
<1>23. CASE PublishProblem
  BY <1>23 DEF PublishProblem
<1>24. CASE MailArrives
  BY <1>24 DEF MailArrives
<1>25. CASE CrashAndReopen
  BY <1>25 DEF CrashAndReopen
<1>26. CASE UNCHANGED vars
  BY <1>26 DEF vars
<1> QED
  BY <1>1, <1>2, <1>3, <1>4, <1>5, <1>6, <1>7, <1>8, <1>9, <1>10, <1>11, <1>12,
     <1>13, <1>14, <1>15, <1>16, <1>17, <1>18, <1>19, <1>20, <1>21, <1>22, <1>23, <1>24,
     <1>25, <1>26
  DEF Next, Pass, Command, Listener

-----------------------------------------------------------------------------
(***************************************************************************)
(* Theorems.                                                               *)
(***************************************************************************)

\* The initial state satisfies the inductive invariant.
LEMMA InitIInv == Init => IInv
<1> SUFFICES ASSUME Init PROVE IInv
  OBVIOUS
<1>1. unseen \in BOOLEAN
  BY Zenon DEF Init
<1>2. TypeOK
  BY <1>1 DEF Init, TypeOK, Kind, PassState, Status, Outcome
<1> QED
  BY <1>2 DEF Init, IInv, FetchedAhead, PassIsolation, NoLeakedSlot, NoLostWakeup

\* The inductive invariant: the owner's plan is the cursor of the cache, what it
\* fetched lies ahead of it, and the slot is never left to a finished pass.
THEOREM Invariance == Spec => []IInv
<1>1. IInv /\ [Next]_vars => IInv'
  BY TypeStep, PlanStep, WakeupStep DEF IInv
<1> QED BY <1>1, InitIInv, PTL DEF Spec

\* Every variable keeps its type.
THEOREM TypeCorrectness == Spec => []TypeOK
<1>1. IInv => TypeOK
  BY DEF IInv
<1> QED BY <1>1, Invariance, PTL

\* No replaced pass writes between the owner's reading of the cursor and its
\* storing of the answer.
THEOREM OwnerIsIsolated == Spec => []PassIsolation
<1>1. IInv => PassIsolation
  BY DEF IInv
<1> QED BY <1>1, Invariance, PTL

\* The slot is never left to a pass that is over.
THEOREM SlotIsNotLeaked == Spec => []NoLeakedSlot
<1>1. IInv => NoLeakedSlot
  BY DEF IInv
<1> QED BY <1>1, Invariance, PTL

\* A waiting listener never sleeps through the release of the slot.
THEOREM WakeupIsNotLost == Spec => []NoLostWakeup
<1>1. IInv => NoLostWakeup
  BY DEF IInv
<1> QED BY <1>1, Invariance, PTL

\* No step takes the cache back.
THEOREM CacheIsMonotonic == Spec => CacheMovesForward
<1>1. ASSUME IInv, [Next]_vars PROVE [cursor' >= cursor]_vars
  <2>1. cursor \in Nat
    BY <1>1 DEF IInv, TypeOK
  <2>2. CASE cursor' = cursor
    BY <2>1, <2>2
  <2>3. ASSUME NEW t \in Tasks, ApplySnapshot(t) PROVE cursor' >= cursor
    BY <1>1, <2>3 DEF ApplySnapshot, Owns, IInv, TypeOK, FetchedAhead, PassIsolation,
                      mailVars
  <2>4. cursor' = cursor \/ \E t \in Tasks : ApplySnapshot(t)
    BY <1>1 DEF Next, Pass, Command, Listener, vars, mailVars, LoadSession,
       RecordStartError, MarkStarted, PublishStatus, Plan, FetchSnapshot, NetworkFails,
       FinishCurrentSync, Start, CancelParent, TryStart, CancelSync, UpdateCredentials,
       CancelStatus, CancelPersist, NotifyStateChange, Subscribe, CheckActive, WakeUp,
       ReportProblem, WriteProblem, PublishProblem, MailArrives, CrashAndReopen
  <2> QED BY <2>2, <2>3, <2>4
<1> QED BY <1>1, Invariance, PTL DEF Spec, CacheMovesForward

\* As long as nobody changes the credentials, no status says syncing of an account
\* that no pass owns, but for the halves of a cancel.
THEOREM StatusIsHonest ==
  ASSUME MaxUpdates = 0 PROVE Spec => []NoPhantomSync
<1>1. Init => StatusInv
  BY DEF Init, StatusInv, NoPhantomSync
<1>2. TypeOK /\ StatusInv /\ [Next]_vars => StatusInv'
  BY StatusStep
<1>3. StatusInv => NoPhantomSync
  BY DEF StatusInv
<1> QED BY <1>1, <1>2, <1>3, TypeCorrectness, PTL DEF Spec
=============================================================================
