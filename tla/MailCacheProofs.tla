---------------------------- MODULE MailCacheProofs ----------------------------
(***************************************************************************)
(* Proofs about MailCache, for any number of letters, UIDVALIDITY values   *)
(* and page sizes: what the user has chosen is what the cache shows, UIDs  *)
(* of two lives of a folder are never joined, a text is stored only in the *)
(* row of its own letter, every variable has its type, the counters of the *)
(* folder are exact, the pages leave no hole in the cache, and what the    *)
(* passes bring up to date they leave alone.                               *)
(*                                                                         *)
(* The argument for identity: whoever holds a pair of a UID and a letter   *)
(* (a row of the cache, an answer in memory, a fetch under way) holds it   *)
(* under one UIDVALIDITY, and the server bore it out under that            *)
(* UIDVALIDITY.  The server never takes a pair back and gives no UID       *)
(* twice, so pairs that agree on UID and UIDVALIDITY agree on the letter.  *)
(*                                                                         *)
(* The argument for completeness: UIDs grow with the arrivals, and every   *)
(* page a pass has in its hands borders on what the cache holds, so that   *)
(* whatever lies between the two is in the page or gone.                   *)
(***************************************************************************)
EXTENDS MailCache, TLAPS, FiniteSetTheorems

-----------------------------------------------------------------------------
(***************************************************************************)
(* Intent.                                                                 *)
(***************************************************************************)

\* A row has the four columns the model speaks of.
RowsAreRows ==
  \A u \in Cached : inst[u] = [letter |-> inst[u].letter, validity |-> inst[u].validity,
                               seen |-> inst[u].seen, hidden |-> inst[u].hidden]

IntentInv ==
  /\ flag \in [Uids -> Intent] /\ moving \subseteq Uids
  /\ inst = [u \in Cached |-> inst[u]] /\ RowsAreRows
  /\ IntentIsShown

\* A snapshot keeps operations only with their rows, and overlays the flags that wait.
LEMMA ApplyKeepsIntent ==
  ASSUME IntentInv, NEW a, NEW withBodies \in BOOLEAN, ApplyImapSnapshot(a, withBodies)
  PROVE  IntentInv'
<1> DEFINE left == Kept(a) \ Stale(a)
<1>1. left \subseteq Cached
  BY DEF Kept
<1>2. /\ inst' = [u \in left \cup DOMAIN a.mail |-> IF u \in DOMAIN a.mail THEN Incoming(a, u)
                                                      ELSE inst[u]]
      /\ flag' = [u \in Uids |-> IF u \in left THEN flag[u] ELSE "none"]
      /\ moving' = moving \cap left
  BY DEF ApplyImapSnapshot, Merged, CascadeOps
<1>3. \A u \in DOMAIN a.mail :
        /\ Incoming(a, u) = [letter |-> Incoming(a, u).letter, validity |-> Incoming(a, u).validity,
                             seen |-> Incoming(a, u).seen, hidden |-> Incoming(a, u).hidden]
        /\ u \in left => /\ Incoming(a, u).seen = Overlay(u, a.mail[u].seen)
                         /\ Incoming(a, u).hidden = (u \in moving /\ inst[u].hidden)
  BY DEF Incoming
<1> HIDE DEF left
<1>4. Cached' = left \cup DOMAIN a.mail
  BY <1>2 DEF Cached
<1>5. RowsAreRows' /\ inst' = [u \in Cached' |-> inst'[u]]
  BY <1>1, <1>2, <1>3, <1>4 DEF RowsAreRows, IntentInv
<1>6. flag' \in [Uids -> Intent] /\ moving' \subseteq Uids
  BY <1>2 DEF IntentInv, Intent
<1>7. ASSUME NEW u \in Uids, flag'[u] # "none"
      PROVE  u \in Cached' /\ inst'[u].seen = (flag'[u] = "read")
  BY <1>1, <1>2, <1>3, <1>4, <1>7 DEF IntentInv, IntentIsShown, Overlay
<1>8. ASSUME NEW u \in Uids, u \in moving'
      PROVE  u \in Cached' /\ inst'[u].hidden
  BY <1>1, <1>2, <1>3, <1>4, <1>8 DEF IntentInv, IntentIsShown
<1> QED
  BY <1>5, <1>6, <1>7, <1>8 DEF IntentInv, IntentIsShown

\* So does an index.
LEMMA ReconcileKeepsIntent ==
  ASSUME IntentInv, NEW a, ReconcileIndex(a)
  PROVE  IntentInv'
<1> DEFINE left == Cached \ Gone(a)
           Row(u) == IF u \in DOMAIN a.mail
                       THEN [inst[u] EXCEPT !.seen = Overlay(u, a.mail[u].seen)] ELSE inst[u]
<1>1. /\ inst' = [u \in left |-> Row(u)]
      /\ flag' = [u \in Uids |-> IF u \in left THEN flag[u] ELSE "none"]
      /\ moving' = moving \cap left
  BY DEF ReconcileIndex, CascadeOps
<1>2. ASSUME NEW u \in left
      PROVE  /\ Row(u) = [letter |-> Row(u).letter, validity |-> Row(u).validity,
                          seen |-> Row(u).seen, hidden |-> Row(u).hidden]
             /\ Row(u).hidden = inst[u].hidden
             /\ Row(u).seen = IF u \in DOMAIN a.mail THEN Overlay(u, a.mail[u].seen)
                                ELSE inst[u].seen
  <2>1. inst[u] = [letter |-> inst[u].letter, validity |-> inst[u].validity,
                   seen |-> inst[u].seen, hidden |-> inst[u].hidden]
    BY DEF IntentInv, RowsAreRows
  <2>2. [inst[u] EXCEPT !.seen = Overlay(u, a.mail[u].seen)] =
          [letter |-> inst[u].letter, validity |-> inst[u].validity,
           seen |-> Overlay(u, a.mail[u].seen), hidden |-> inst[u].hidden]
    BY <2>1
  <2> QED
    BY <2>1, <2>2
<1>3. Cached' = left /\ left \subseteq Cached
  BY <1>1 DEF Cached
<1> HIDE DEF left, Row
<1>4. RowsAreRows' /\ inst' = [u \in Cached' |-> inst'[u]]
  BY <1>1, <1>2, <1>3 DEF RowsAreRows
<1>5. flag' \in [Uids -> Intent] /\ moving' \subseteq Uids
  BY <1>1 DEF IntentInv, Intent
<1>6. ASSUME NEW u \in Uids, flag'[u] # "none"
      PROVE  u \in Cached' /\ inst'[u].seen = (flag'[u] = "read")
  BY <1>1, <1>2, <1>3, <1>6 DEF IntentInv, IntentIsShown, Overlay
<1>7. ASSUME NEW u \in Uids, u \in moving'
      PROVE  u \in Cached' /\ inst'[u].hidden
  BY <1>1, <1>2, <1>3, <1>7 DEF IntentInv, IntentIsShown
<1> QED
  BY <1>4, <1>5, <1>6, <1>7 DEF IntentInv, IntentIsShown

\* A row is marked, hidden or shown again; the other rows stay.
LEMMA OneRowChanges ==
  ASSUME IntentInv, NEW u \in Cached, NEW value \in BOOLEAN,
         \/ inst' = [inst EXCEPT ![u].seen = value]
         \/ inst' = [inst EXCEPT ![u].hidden = value]
  PROVE  /\ Cached' = Cached /\ RowsAreRows' /\ inst' = [w \in Cached' |-> inst'[w]]
         /\ \A w \in Cached : w # u => inst'[w] = inst[w]
         /\ inst' = [inst EXCEPT ![u].seen = value] =>
              inst'[u].seen = value /\ inst'[u].hidden = inst[u].hidden
         /\ inst' = [inst EXCEPT ![u].hidden = value] =>
              inst'[u].hidden = value /\ inst'[u].seen = inst[u].seen
         /\ inst'[u].letter = inst[u].letter /\ inst'[u].validity = inst[u].validity
<1>1. inst[u] = [letter |-> inst[u].letter, validity |-> inst[u].validity,
                 seen |-> inst[u].seen, hidden |-> inst[u].hidden]
  BY DEF IntentInv, RowsAreRows
<1>2. /\ [inst[u] EXCEPT !.seen = value] =
           [letter |-> inst[u].letter, validity |-> inst[u].validity,
            seen |-> value, hidden |-> inst[u].hidden]
      /\ [inst[u] EXCEPT !.hidden = value] =
           [letter |-> inst[u].letter, validity |-> inst[u].validity,
            seen |-> inst[u].seen, hidden |-> value]
  BY <1>1
<1>3. ASSUME NEW row, inst' = [inst EXCEPT ![u] = row]
      PROVE  /\ Cached' = Cached /\ inst'[u] = row
             /\ \A w \in Cached : w # u => inst'[w] = inst[w]
             /\ inst' = [w \in Cached' |-> inst'[w]]
  BY <1>3 DEF IntentInv, Cached
<1>4. CASE inst' = [inst EXCEPT ![u].seen = value]
  <2>1. inst' = [inst EXCEPT ![u] = [inst[u] EXCEPT !.seen = value]]
    BY <1>4
  <2>2. /\ Cached' = Cached /\ inst'[u] = [inst[u] EXCEPT !.seen = value]
        /\ \A w \in Cached : w # u => inst'[w] = inst[w]
        /\ inst' = [w \in Cached' |-> inst'[w]]
    BY <1>3, <2>1
  <2>3. inst'[u] = [letter |-> inst[u].letter, validity |-> inst[u].validity,
                    seen |-> value, hidden |-> inst[u].hidden]
    BY <1>2, <2>2
  <2>4. RowsAreRows'
    BY <2>2, <2>3 DEF IntentInv, RowsAreRows
  <2>5. inst' = [inst EXCEPT ![u].hidden = value] =>
          inst'[u].hidden = value /\ inst'[u].seen = inst[u].seen
    <3>1. SUFFICES ASSUME inst' = [inst EXCEPT ![u] = [inst[u] EXCEPT !.hidden = value]]
                   PROVE  inst'[u].hidden = value /\ inst'[u].seen = inst[u].seen
      OBVIOUS
    <3> QED
      BY <1>2, <1>3, <3>1
  <2> QED
    BY <2>2, <2>3, <2>4, <2>5
<1>5. CASE inst' = [inst EXCEPT ![u].hidden = value]
  <2>1. inst' = [inst EXCEPT ![u] = [inst[u] EXCEPT !.hidden = value]]
    BY <1>5
  <2>2. /\ Cached' = Cached /\ inst'[u] = [inst[u] EXCEPT !.hidden = value]
        /\ \A w \in Cached : w # u => inst'[w] = inst[w]
        /\ inst' = [w \in Cached' |-> inst'[w]]
    BY <1>3, <2>1
  <2>3. inst'[u] = [letter |-> inst[u].letter, validity |-> inst[u].validity,
                    seen |-> inst[u].seen, hidden |-> value]
    BY <1>2, <2>2
  <2>4. RowsAreRows'
    BY <2>2, <2>3 DEF IntentInv, RowsAreRows
  <2>5. inst' = [inst EXCEPT ![u].seen = value] =>
          inst'[u].seen = value /\ inst'[u].hidden = inst[u].hidden
    <3>1. SUFFICES ASSUME inst' = [inst EXCEPT ![u] = [inst[u] EXCEPT !.seen = value]]
                   PROVE  inst'[u].seen = value /\ inst'[u].hidden = inst[u].hidden
      OBVIOUS
    <3> QED
      BY <1>2, <1>3, <3>1
  <2> QED
    BY <2>2, <2>3, <2>4, <2>5
<1> QED
  BY <1>4, <1>5

\* Nothing of it depends on more than the rows and the operations.
LEMMA IntentStutter ==
  ASSUME IntentInv, UNCHANGED <<inst, flag, moving>>
  PROVE  IntentInv'
BY DEF IntentInv, RowsAreRows, IntentIsShown, Cached

\* An empty cache has no operation.
LEMMA IntentInit == Init => IntentInv
BY DEF Init, IntentInv, RowsAreRows, IntentIsShown, Cached, Intent, Empty

\* The user's changes, and what becomes of them at the server.
LEMMA OperationsKeepIntent ==
  ASSUME IntentInv, NEW u \in Uids,
         \/ UploadFlags(u) \/ UploadMove(u) \/ OperationRefused(u)
         \/ HideMessage(u) \/ \E read \in BOOLEAN : MutateMessage(u, read)
  PROVE  IntentInv'
<1>1. CASE UploadFlags(u)
  BY <1>1 DEF UploadFlags, cacheVars, IntentInv, RowsAreRows, IntentIsShown, Cached, Intent
<1>2. CASE UploadMove(u)
  BY <1>2 DEF UploadMove, cacheVars, IntentInv, RowsAreRows, IntentIsShown, Cached
<1>3. CASE OperationRefused(u)
  <2>1. CASE flag[u] # "none"
    BY <1>3, <2>1 DEF OperationRefused, IntentInv, RowsAreRows, IntentIsShown, Cached, Intent
  <2>2. CASE flag[u] = "none"
    <3>1. /\ u \in Cached /\ moving' = moving \ {u} /\ flag' = flag
          /\ inst' = [inst EXCEPT ![u].hidden = FALSE] \/ inst' = inst
      BY <1>3, <2>2 DEF OperationRefused, Restore
    <3>2. CASE inst' = inst
      BY <3>1, <3>2 DEF IntentInv, RowsAreRows, IntentIsShown, Cached
    <3>3. CASE inst' = [inst EXCEPT ![u].hidden = FALSE]
      <4>1. /\ Cached' = Cached /\ RowsAreRows' /\ inst' = [w \in Cached' |-> inst'[w]]
            /\ \A w \in Cached : w # u => inst'[w] = inst[w]
        BY <3>1, <3>3, OneRowChanges
      <4> QED
        BY <2>2, <3>1, <4>1 DEF IntentInv, IntentIsShown
    <3> QED
      BY <3>1, <3>2, <3>3
  <2> QED
    BY <2>1, <2>2
<1>4. CASE HideMessage(u)
  <2>1. /\ u \in Cached /\ moving' = moving \cup {u} /\ flag' = flag
        /\ inst' = [inst EXCEPT ![u].hidden = TRUE]
    BY <1>4 DEF HideMessage, Visible
  <2>2. /\ Cached' = Cached /\ RowsAreRows' /\ inst' = [w \in Cached' |-> inst'[w]]
        /\ \A w \in Cached : w # u => inst'[w] = inst[w]
        /\ inst'[u].hidden = TRUE /\ inst'[u].seen = inst[u].seen
    BY <2>1, OneRowChanges
  <2> QED
    BY <2>1, <2>2 DEF IntentInv, IntentIsShown
<1>5. ASSUME NEW read \in BOOLEAN, MutateMessage(u, read)
      PROVE  IntentInv'
  <2>1. /\ u \in Cached /\ moving' = moving
        /\ flag' = [flag EXCEPT ![u] = IF read THEN "read" ELSE "unread"]
        /\ inst' = [inst EXCEPT ![u].seen = read]
    BY <1>5 DEF MutateMessage, Visible
  <2>2. /\ Cached' = Cached /\ RowsAreRows' /\ inst' = [w \in Cached' |-> inst'[w]]
        /\ \A w \in Cached : w # u => inst'[w] = inst[w]
        /\ inst'[u].seen = read /\ inst'[u].hidden = inst[u].hidden
    BY <2>1, OneRowChanges
  <2>3. /\ flag'[u] = IF read THEN "read" ELSE "unread"
        /\ \A w \in Uids : w # u => flag'[w] = flag[w]
        /\ flag' \in [Uids -> Intent]
    BY <2>1 DEF IntentInv, Intent
  <2>4. ASSUME NEW w \in Uids, flag'[w] # "none"
        PROVE  w \in Cached' /\ inst'[w].seen = (flag'[w] = "read")
    <3>1. CASE w = u
      BY <2>1, <2>2, <2>3, <3>1
    <3>2. CASE w # u
      BY <2>2, <2>3, <2>4, <3>2 DEF IntentInv, IntentIsShown
    <3> QED
      BY <3>1, <3>2
  <2>5. ASSUME NEW w \in Uids, w \in moving'
        PROVE  w \in Cached' /\ inst'[w].hidden
    BY <2>1, <2>2, <2>5 DEF IntentInv, IntentIsShown
  <2> QED
    BY <2>1, <2>2, <2>3, <2>4, <2>5 DEF IntentInv, IntentIsShown
<1> QED
  BY <1>1, <1>2, <1>3, <1>4, <1>5

\* Every step leaves the operations with rows of the cache, and shown there.
LEMMA IntentStep == IntentInv /\ [Next]_vars => IntentInv'
<1> SUFFICES ASSUME IntentInv, [Next]_vars PROVE IntentInv'
  OBVIOUS
<1>1. CASE UNCHANGED vars
  BY <1>1, IntentStutter DEF vars, opVars, cacheVars
<1>2. CASE Server
  BY <1>2, IntentStutter DEF Server, Arrive, Renumber, ElsewhereExpunged, ElsewhereMarked,
                             Untouched, opVars, cacheVars
<1>3. CASE Reading
  BY <1>3, IntentStutter DEF Reading, BodyFetched, BodyFetchFails, StoreHydratedBody,
                             ReaderOnly, opVars, cacheVars
<1>4. CASE User
  BY <1>4, IntentStutter, OperationsKeepIntent
     DEF User, ClearCache, OpenMessage, opVars, cacheVars
<1>5. CASE PassStops \/ \E mode \in {"full", "quick"} : StartPass(mode)
  BY <1>5, IntentStutter DEF PassStops, StartPass, CacheKept, opVars, cacheVars
<1>6. ASSUME NEW withBodies \in BOOLEAN, ApplyForwardPage(withBodies)
      PROVE  IntentInv'
  BY <1>6, ApplyKeepsIntent DEF ApplyForwardPage
<1>7. CASE ApplyHistoryPage
  BY <1>7, ApplyKeepsIntent DEF ApplyHistoryPage
<1>8. CASE ReconcileMailboxIndex
  BY <1>8, ReconcileKeepsIntent, IntentStutter DEF ReconcileMailboxIndex, opVars, cacheVars
<1>9. ASSUME NEW u \in Uids, UploadFlags(u) \/ UploadMove(u) \/ OperationRefused(u)
      PROVE  IntentInv'
  BY <1>9, OperationsKeepIntent
<1>10. CASE \/ Examine \/ SearchAndFetch \/ SkipQuietFolder \/ FetchMailboxIndex
            \/ FlushDone \/ LoadWindow \/ FetchHistoryPage \/ PassFails
  BY <1>10, IntentStutter
     DEF Examine, SearchAndFetch, SkipQuietFolder, FetchMailboxIndex, FlushDone,
         LoadWindow, FetchHistoryPage, PassFails, CacheKept, opVars, cacheVars
<1> QED
  BY <1>1, <1>2, <1>3, <1>4, <1>5, <1>6, <1>7, <1>8, <1>9, <1>10 DEF Next, PassStep

\* The inductive invariant: operations belong to rows of the cache and are shown there.
THEOREM IntentInvHolds == Spec => []IntentInv
BY IntentStep, IntentInit, PTL DEF Spec

\* What the user has chosen and the server does not have yet is what the cache shows,
\* whatever snapshots, indexes, uploads and refusals come in between.
THEOREM IntentIsAlwaysShown == Spec => []IntentIsShown
<1>1. IntentInv => IntentIsShown
  BY DEF IntentInv
<1> QED
  BY <1>1, IntentInvHolds, PTL

-----------------------------------------------------------------------------
(***************************************************************************)
(* Numbers.                                                                *)
(***************************************************************************)

\* A finite set of numbers that is not empty has a greatest element.
LEMMA MaxIsGreatest ==
  ASSUME NEW S, S \subseteq Nat, S # {}, IsFiniteSet(S)
  PROVE  Max(S) \in S /\ \A y \in S : Max(S) >= y
<1> DEFINE Above(x) == {y \in S : y > x}
           F == {Above(x) : x \in S}
           R == StrictSubsetOrdering(S)
<1>1. IsWellFoundedOn(R, SUBSET S)
  BY FS_StrictSubsetOrderingWellFounded, FS_FiniteSubsetsOfFinite
<1>2. F \subseteq SUBSET S /\ F # {}
  OBVIOUS
<1>3. PICK U \in F : \A V \in F : <<V, U>> \notin R
  <2> HIDE DEF R, F
  <2> QED
    BY <1>1, <1>2, WFMin
<1>4. PICK x \in S : U = Above(x)
  OBVIOUS
<1>5. ASSUME NEW y \in Above(x) PROVE FALSE
  <2>1. /\ Above(y) \in F /\ Above(y) \subseteq Above(x)
        /\ y \in Above(x) /\ y \notin Above(y) /\ Above(x) \subseteq S
    <3>1. x \in Nat /\ y \in Nat /\ y \in S /\ y > x
      BY <1>5
    <3>2. \A z \in S : z \in Nat /\ (z > y => z > x)
      BY <3>1
    <3>3. Above(y) \subseteq Above(x)
      BY <3>2
    <3>4. y \notin Above(y)
      BY <3>1
    <3> QED
      BY <1>5, <3>1, <3>3, <3>4
  <2>2. <<Above(y), Above(x)>> \in R
    <3> HIDE DEF Above
    <3> QED
      BY <2>1 DEF StrictSubsetOrdering
  <2> HIDE DEF Above, F, R
  <2> QED
    BY <1>3, <1>4, <2>1, <2>2
<1>6. \A y \in S : x >= y
  BY <1>5
<1> QED
  BY <1>6 DEF Max

\* Counting the elements up to each one numbers a finite set without repetition.
LEMMA RanksDiffer ==
  ASSUME NEW S, S \subseteq Nat, IsFiniteSet(S), NEW k \in S, NEW l \in S, k < l
  PROVE  /\ Cardinality({j \in S : j <= k}) \in Nat \ {0}
         /\ Cardinality({j \in S : j <= l}) \in Nat \ {0}
         /\ Cardinality({j \in S : j <= k}) # Cardinality({j \in S : j <= l})
<1> DEFINE A == {j \in S : j <= k}
           B == {j \in S : j <= l}
<1>1. A \in SUBSET B /\ B \in SUBSET S /\ k \in A /\ l \in B /\ l \notin A
  <2>1. k \in Nat /\ l \in Nat
    OBVIOUS
  <2>2. \A j \in S : j <= k => j <= l
    BY <2>1
  <2>3. A \subseteq B
    BY <2>2
  <2>4. k \in A /\ l \in B /\ l \notin A
    BY <2>1
  <2> QED
    BY <2>3, <2>4
<1> HIDE DEF A, B
<1>2. IsFiniteSet(A) /\ IsFiniteSet(B)
  BY <1>1, FS_Subset
<1>3. Cardinality(A) # 0 /\ Cardinality(B) # 0 /\ Cardinality(A) # Cardinality(B)
  <2>1. Cardinality(A) # 0 /\ Cardinality(B) # 0
    BY <1>1, <1>2, FS_EmptySet
  <2>2. Cardinality(B) = Cardinality(A) => B = A
    BY <1>1, <1>2, FS_Subset
  <2> QED
    BY <1>1, <2>1, <2>2
<1>4. Cardinality(A) \in Nat /\ Cardinality(B) \in Nat
  BY <1>2, FS_CardinalityType
<1> QED
  BY <1>3, <1>4 DEF A, B

\* So does the rank of a single element count from one.
LEMMA RankIsPositive ==
  ASSUME NEW S, S \subseteq Nat, IsFiniteSet(S), NEW k \in S
  PROVE  Cardinality({j \in S : j <= k}) \in Nat \ {0}
<1> DEFINE A == {j \in S : j <= k}
<1>1. A \in SUBSET S /\ k \in A
  OBVIOUS
<1> HIDE DEF A
<1>2. IsFiniteSet(A)
  BY <1>1, FS_Subset
<1>3. Cardinality(A) # 0 /\ Cardinality(A) \in Nat
  BY <1>1, <1>2, FS_EmptySet, FS_CardinalityType
<1> QED
  BY <1>3 DEF A

\* A set of numbers that is not empty has a least element.
LEMMA MinIsLeast ==
  ASSUME NEW S, S \subseteq Nat, S # {}
  PROVE  Min(S) \in S /\ \A y \in S : Min(S) <= y
<1>1. PICK m \in S : TRUE
  OBVIOUS
<1> DEFINE Below == {y \in 0 .. m : \A x \in S : y <= x}
<1>2. Below \subseteq Nat /\ Below # {} /\ IsFiniteSet(Below)
  <2>1. m \in Nat /\ Below \in SUBSET (0 .. m) /\ 0 \in Below /\ Below \subseteq Nat
    BY <1>1
  <2>2. IsFiniteSet(0 .. m)
    BY <2>1, FS_Interval
  <2> HIDE DEF Below
  <2>3. IsFiniteSet(Below)
    BY <2>1, <2>2, FS_Subset
  <2> QED
    BY <2>1, <2>3
<1> DEFINE t == Max(Below)
<1>3. t \in Below /\ \A y \in Below : t >= y
  <2> HIDE DEF Below
  <2> QED
    BY <1>2, MaxIsGreatest
<1> HIDE DEF t
<1>4. t \in Nat /\ t <= m /\ \A x \in S : x \in Nat /\ t <= x
  BY <1>3
<1>5. t \in S
  <2> SUFFICES ASSUME t \notin S PROVE FALSE
    OBVIOUS
  <2>1. \A x \in S : t + 1 <= x
    BY <1>4
  <2>2. t + 1 \in Below
    BY <1>1, <1>4, <2>1
  <2> QED
    BY <1>3, <1>4, <2>2
<1>6. \A y \in S : t <= y
  BY <1>4
<1> QED
  BY <1>5, <1>6 DEF Min

\* The page of the newest, and of the oldest, of a set lies at its end.
LEMMA PagesAreContiguous ==
  ASSUME NEW U, U \subseteq Nat, IsFiniteSet(U), NEW n \in Nat, NEW u \in U, NEW d
  PROVE  /\ d \in Newest(U, n) /\ d <= u => u \in Newest(U, n)
         /\ d \in Oldest(U, n) /\ u <= d => u \in Oldest(U, n)
<1>1. ASSUME d \in Newest(U, n), d <= u
      PROVE  u \in Newest(U, n)
  <2> DEFINE A == {w \in U : w > u}
             B == {w \in U : w > d}
  <2>1. d \in Nat /\ u \in Nat /\ B \in SUBSET U
    BY <1>1 DEF Newest
  <2>2. A \in SUBSET B
    <3>1. \A w \in U : w \in Nat /\ (w > u => w > d)
      BY <1>1, <2>1
    <3> QED
      BY <3>1
  <2>3. Cardinality(B) < n
    BY <1>1 DEF Newest
  <2> HIDE DEF A, B
  <2>4. Cardinality(A) < n
    <3>1. IsFiniteSet(B) /\ IsFiniteSet(A) /\ Cardinality(A) <= Cardinality(B)
      BY <2>1, <2>2, FS_Subset
    <3>2. Cardinality(A) \in Nat /\ Cardinality(B) \in Nat
      BY <3>1, FS_CardinalityType
    <3> QED
      BY <2>3, <3>1, <3>2
  <2> QED
    BY <2>4 DEF A, Newest
<1>2. ASSUME d \in Oldest(U, n), u <= d
      PROVE  u \in Oldest(U, n)
  <2> DEFINE A == {w \in U : w < u}
             B == {w \in U : w < d}
  <2>1. d \in Nat /\ u \in Nat /\ B \in SUBSET U
    BY <1>2 DEF Oldest
  <2>2. A \in SUBSET B
    <3>1. \A w \in U : w \in Nat /\ (w < u => w < d)
      BY <1>2, <2>1
    <3> QED
      BY <3>1
  <2>3. Cardinality(B) < n
    BY <1>2 DEF Oldest
  <2> HIDE DEF A, B
  <2>4. Cardinality(A) < n
    <3>1. IsFiniteSet(B) /\ IsFiniteSet(A) /\ Cardinality(A) <= Cardinality(B)
      BY <2>1, <2>2, FS_Subset
    <3>2. Cardinality(A) \in Nat /\ Cardinality(B) \in Nat
      BY <3>1, FS_CardinalityType
    <3> QED
      BY <2>3, <3>1, <3>2
  <2> QED
    BY <2>4 DEF A, Oldest
<1> QED
  BY <1>1, <1>2

-----------------------------------------------------------------------------
(***************************************************************************)
(* The server.                                                             *)
(***************************************************************************)

\* Under UIDVALIDITY v the server gave UID u to letter l.
Bears(l, v, u) == l \in 1 .. arrived /\ v \in 1 .. validity /\ u # 0 /\ uid[v][l] = u

ServerInv ==
  /\ validity \in Validities /\ arrived \in 0 .. MaxLetters /\ box \subseteq 1 .. arrived
  /\ uid \in [Validities -> [Letters -> Nat]]
  /\ \A v \in Validities, l \in Letters : uid[v][l] # 0 => l <= arrived
  /\ \A v \in Validities, k, l \in Letters :
       uid[v][k] = uid[v][l] /\ uid[v][l] # 0 => k = l
  /\ \A l \in box : uid[validity][l] # 0

\* The UID of a letter that arrives is above all that the folder has ever had.
LEMMA NewUid ==
  ASSUME ServerInv
  PROVE  LET new == Max({uid[validity][l] : l \in 1 .. arrived} \cup {0}) + 1
         IN  new \in Nat \ {0} /\ \A l \in 1 .. arrived : uid[validity][l] < new
<1> DEFINE f == [l \in 1 .. arrived |-> uid[validity][l]]
           S == {uid[validity][l] : l \in 1 .. arrived}
<1>1. arrived \in Nat /\ 1 .. arrived \subseteq Letters
  BY MailCacheAssumption DEF ServerInv, Letters
<1>2. S \subseteq Nat /\ f \in [1 .. arrived -> S] /\ \A s \in S : \E l \in 1 .. arrived : f[l] = s
  BY <1>1 DEF ServerInv
<1>3. IsFiniteSet(S)
  <2>1. f \in Surjection(1 .. arrived, S)
    BY <1>2 DEF Surjection
  <2>2. IsFiniteSet(1 .. arrived)
    BY <1>1, FS_Interval
  <2> HIDE DEF f, S
  <2> QED
    BY <2>1, <2>2, FS_Surjection
<1>4. IsFiniteSet(S \cup {0}) /\ S \cup {0} \subseteq Nat /\ S \cup {0} # {}
  <2> HIDE DEF S
  <2> QED
    BY <1>2, <1>3, FS_AddElement
<1>5. Max(S \cup {0}) \in S \cup {0} /\ \A y \in S \cup {0} : Max(S \cup {0}) >= y
  <2> HIDE DEF S
  <2> QED
    BY <1>4, MaxIsGreatest
<1>6. \A l \in 1 .. arrived : uid[validity][l] \in S
  OBVIOUS
<1> HIDE DEF S
<1>7. Max(S \cup {0}) + 1 \in Nat \ {0} /\ \A l \in 1 .. arrived : uid[validity][l] < Max(S \cup {0}) + 1
  <2>1. Max(S \cup {0}) \in Nat /\ 0 <= Max(S \cup {0})
    BY <1>4, <1>5
  <2>2. \A y \in S : y \in Nat /\ Max(S \cup {0}) >= y
    BY <1>2, <1>5
  <2>3. \A y \in S : y < Max(S \cup {0}) + 1
    <3>1. \A m, y \in Nat : m >= y => y < m + 1
      OBVIOUS
    <3> QED
      BY <2>1, <2>2, <3>1
  <2> QED
    BY <1>6, <2>1, <2>3
<1> QED
  BY <1>7 DEF S

\* The server starts with the first letters numbered in their order.
LEMMA ServerInit == Init => ServerInv
<1> SUFFICES ASSUME Init PROVE ServerInv
  OBVIOUS
<1>1. /\ validity = 1 /\ arrived = Initial /\ box = 1 .. Initial
      /\ uid = [v \in Validities |-> [l \in Letters |->
                  IF v = 1 /\ l <= Initial THEN l ELSE 0]]
  BY DEF Init
<1>2. \A v \in Validities, l \in Letters :
        uid[v][l] = IF v = 1 /\ l <= Initial THEN l ELSE 0
  BY <1>1
<1>3. uid \in [Validities -> [Letters -> Nat]]
  BY <1>1 DEF Letters
<1>4. 1 \in Validities /\ Initial \in 0 .. MaxLetters /\ 1 .. Initial \subseteq Letters
  BY MailCacheAssumption DEF Validities, Letters
<1>5. \A v \in Validities, l \in Letters : uid[v][l] # 0 => l <= arrived
  BY <1>1, <1>2
<1>6. \A v \in Validities, k, l \in Letters : uid[v][k] = uid[v][l] /\ uid[v][l] # 0 => k = l
  BY <1>2
<1>7. \A l \in box : uid[validity][l] # 0
  BY <1>1, <1>2, <1>4 DEF Letters
<1> QED
  BY <1>1, <1>3, <1>4, <1>5, <1>6, <1>7 DEF ServerInv

\* A letter that arrives.
LEMMA ArriveStep ==
  ASSUME ServerInv, Arrive
  PROVE  ServerInv' /\ \A l, v, u : Bears(l, v, u) => Bears(l, v, u)'
<1> DEFINE n == arrived + 1
           new == Max({uid[validity][l] : l \in 1 .. arrived} \cup {0}) + 1
<1>1. /\ validity \in Validities /\ arrived \in 0 .. MaxLetters /\ arrived < MaxLetters
      /\ MaxLetters \in Nat /\ box \subseteq 1 .. arrived
      /\ uid \in [Validities -> [Letters -> Nat]]
  BY MailCacheAssumption DEF ServerInv, Arrive
<1>2. n \in Letters /\ n \in Nat /\ 1 .. n \subseteq Letters
      /\ \A l \in 1 .. n : l = n \/ l \in 1 .. arrived
  BY <1>1 DEF Letters
<1>3. new \in Nat \ {0} /\ \A l \in 1 .. arrived : uid[validity][l] # new
  <2>1. new \in Nat \ {0} /\ \A l \in 1 .. arrived : uid[validity][l] < new
    BY NewUid
  <2> QED
    BY <2>1
<1>4. /\ arrived' = n /\ box' = box \cup {n} /\ validity' = validity
      /\ uid' = [uid EXCEPT ![validity][n] = new]
  BY DEF Arrive
<1> HIDE DEF new
<1>5. /\ uid' \in [Validities -> [Letters -> Nat]]
      /\ uid'[validity][n] = new
      /\ \A v \in Validities, l \in Letters : v # validity \/ l # n => uid'[v][l] = uid[v][l]
  BY <1>1, <1>2, <1>3, <1>4
<1>6. \A v \in Validities, l \in Letters : uid[v][l] # 0 => l \in 1 .. arrived /\ l # n
  BY <1>1 DEF ServerInv, Letters
<1>7. \A v \in Validities, l \in Letters : uid'[v][l] # 0 => l <= n
  <2> SUFFICES ASSUME NEW v \in Validities, NEW l \in Letters, uid'[v][l] # 0, l # n
               PROVE  l <= n
    BY <1>2
  <2>1. uid[v][l] # 0
    BY <1>5
  <2> QED
    BY <1>1, <1>6, <2>1
<1>8. ASSUME NEW v \in Validities, NEW k \in Letters, NEW l \in Letters,
             uid'[v][k] = uid'[v][l], uid'[v][l] # 0
      PROVE  k = l
  <2>1. CASE v # validity \/ (k # n /\ l # n)
    BY <1>5, <1>8, <2>1 DEF ServerInv
  <2>2. CASE v = validity /\ l = n /\ k # n
    <3>1. uid[v][k] = new
      BY <1>5, <1>8, <2>2
    <3> QED
      BY <1>3, <1>6, <2>2, <3>1
  <2>3. CASE v = validity /\ k = n /\ l # n
    <3>1. uid[v][l] = new
      BY <1>5, <1>8, <2>3
    <3> QED
      BY <1>3, <1>6, <2>3, <3>1
  <2> QED
    BY <2>1, <2>2, <2>3
<1>9. \A l \in box' : uid'[validity'][l] # 0
  <2> SUFFICES ASSUME NEW l \in box, l # n
               PROVE  uid'[validity][l] # 0
    BY <1>3, <1>4, <1>5
  <2>1. l \in Letters /\ uid[validity][l] # 0
    BY <1>1, <1>2 DEF ServerInv, Letters
  <2> QED
    BY <1>1, <1>5, <2>1
<1>10. ServerInv'
  BY <1>1, <1>2, <1>4, <1>5, <1>7, <1>8, <1>9 DEF ServerInv
<1>11. ASSUME NEW l, NEW v, NEW u, Bears(l, v, u)
       PROVE  Bears(l, v, u)'
  <2>1. l \in 1 .. arrived /\ l # n /\ l \in 1 .. n /\ l \in Letters
        /\ v \in 1 .. validity /\ v \in Validities /\ u # 0 /\ uid[v][l] = u
    <3>1. l \in 1 .. arrived /\ v \in 1 .. validity /\ u # 0 /\ uid[v][l] = u
      BY <1>11 DEF Bears
    <3>2. l \in Int /\ 1 <= l /\ l <= arrived /\ n = arrived + 1 /\ arrived \in Nat
      BY <1>1, <3>1
    <3>3. l \in 1 .. n /\ l # n
      BY <3>2
    <3>4. v \in Validities
      BY <1>1, <3>1, MailCacheAssumption DEF Validities
    <3> QED
      BY <1>2, <3>1, <3>3, <3>4
  <2> QED
    BY <1>4, <1>5, <2>1 DEF Bears
<1> QED
  BY <1>10, <1>11

\* A server that loses its index: the letters of the folder are counted anew.
LEMMA RenumberStep ==
  ASSUME ServerInv, Renumber
  PROVE  ServerInv' /\ \A l, v, u : Bears(l, v, u) => Bears(l, v, u)'
<1> DEFINE w == validity + 1
           Rank(l) == Cardinality({k \in box : k <= l})
<1>1. /\ validity \in Validities /\ w \in Validities /\ w # validity /\ arrived \in Nat
      /\ box \subseteq 1 .. arrived /\ 1 .. arrived \subseteq Letters
      /\ uid \in [Validities -> [Letters -> Nat]]
  BY MailCacheAssumption DEF ServerInv, Renumber, Validities, Letters
<1>2. /\ validity' = w /\ arrived' = arrived /\ box' = box
      /\ uid' = [uid EXCEPT ![w] = [l \in Letters |-> IF l \in box THEN Rank(l) ELSE 0]]
  BY DEF Renumber
<1>3. box \subseteq Nat /\ IsFiniteSet(box)
  <2>1. IsFiniteSet(1 .. arrived)
    BY <1>1, FS_Interval
  <2> QED
    <3>1. box \in SUBSET (1 .. arrived) /\ 1 .. arrived \subseteq Nat
      BY <1>1
    <3> QED
      BY <2>1, <3>1, FS_Subset
<1>4. \A l \in box : Rank(l) \in Nat \ {0}
  BY <1>3, RankIsPositive
<1>5. ASSUME NEW k \in box, NEW l \in box, Rank(k) = Rank(l)
      PROVE  k = l
  <2>1. ~(k < l) /\ ~(l < k)
    BY <1>3, <1>5, RanksDiffer
  <2> QED
    BY <1>3, <2>1
<1> HIDE DEF Rank
<1>6. /\ uid' \in [Validities -> [Letters -> Nat]]
      /\ \A l \in Letters : uid'[w][l] = IF l \in box THEN Rank(l) ELSE 0
      /\ \A v \in Validities : v # w => uid'[v] = uid[v]
  BY <1>1, <1>2, <1>4
<1>7. \A v \in Validities, l \in Letters : uid'[v][l] # 0 => l <= arrived
  BY <1>1, <1>6 DEF ServerInv
<1>8. \A v \in Validities, k, l \in Letters :
        uid'[v][k] = uid'[v][l] /\ uid'[v][l] # 0 => k = l
  <2> SUFFICES ASSUME NEW v \in Validities, NEW k \in Letters, NEW l \in Letters,
                      uid'[v][k] = uid'[v][l], uid'[v][l] # 0
               PROVE  k = l
    OBVIOUS
  <2>1. CASE v = w
    <3>1. k \in box /\ l \in box
      BY <1>6, <2>1
    <3>2. Rank(k) = Rank(l)
      BY <1>6, <2>1, <3>1
    <3> QED
      BY <1>5, <3>1, <3>2
  <2>2. CASE v # w
    BY <1>6, <2>2 DEF ServerInv
  <2> QED
    BY <2>1, <2>2
<1>9. \A l \in box : uid'[w][l] # 0
  BY <1>1, <1>4, <1>6
<1>10. ServerInv'
  BY <1>1, <1>2, <1>6, <1>7, <1>8, <1>9 DEF ServerInv
<1>11. ASSUME NEW l, NEW v, NEW u, Bears(l, v, u)
       PROVE  Bears(l, v, u)'
  <2>1. v \in Validities /\ v # w /\ v \in 1 .. w
    <3>1. v \in 1 .. validity
      BY <1>11 DEF Bears
    <3> QED
      BY <1>1, <3>1, MailCacheAssumption DEF Validities
  <2> QED
    BY <1>2, <1>6, <1>11, <2>1 DEF Bears
<1> QED
  BY <1>10, <1>11

\* The server may take a letter away, but not the UIDs it gave.
LEMMA UidsStay ==
  ASSUME ServerInv, UNCHANGED <<validity, uid, arrived>>, box' \subseteq box
  PROVE  ServerInv' /\ \A l, v, u : Bears(l, v, u) => Bears(l, v, u)'
BY DEF ServerInv, Bears

\* Two letters never bear the same UID under one UIDVALIDITY.
LEMMA OneBearer ==
  ASSUME ServerInv, NEW k, NEW l, NEW v, NEW u, Bears(k, v, u), Bears(l, v, u)
  PROVE  k = l
<1>1. v \in Validities /\ k \in Letters /\ l \in Letters /\ u # 0
      /\ uid[v][k] = u /\ uid[v][l] = u
  BY MailCacheAssumption DEF ServerInv, Bears, Validities, Letters
<1> QED
  BY <1>1 DEF ServerInv

\* An answer of the server names the letters that bear the UIDs.
LEMMA MailIsBorne ==
  ASSUME ServerInv, NEW U, U \subseteq Present
  PROVE  DOMAIN MailAt(U) = U
         /\ \A u \in U : Bears(MailAt(U)[u].letter, validity, u)
<1> SUFFICES ASSUME NEW u \in U PROVE Bears(LetterAt(u), validity, u)
  BY DEF MailAt
<1>1. PICK l \in box : uid[validity][l] = u
  BY DEF Present
<1>2. LetterAt(u) \in box /\ uid[validity][LetterAt(u)] = u
  BY <1>1 DEF LetterAt
<1>3. validity \in 1 .. validity /\ box \subseteq 1 .. arrived /\ uid[validity][LetterAt(u)] # 0
  <2>1. validity \in 1 .. validity
    BY MailCacheAssumption DEF ServerInv, Validities
  <2>2. uid[validity][LetterAt(u)] # 0 /\ box \subseteq 1 .. arrived
    BY <1>2 DEF ServerInv
  <2> QED
    BY <2>1, <2>2
<1> QED
  BY <1>2, <1>3 DEF Bears

-----------------------------------------------------------------------------
(***************************************************************************)
(* The holders of pairs.                                                   *)
(***************************************************************************)

CacheInv ==
  \A u \in Cached : inst[u].validity = cursor.validity /\ Bears(inst[u].letter, cursor.validity, u)

\* The letters of an answer are those of its UIDs.
IsBorne(a) == \A u \in DOMAIN a.mail : Bears(a.mail[u].letter, a.validity, u)

AnswerInv ==
  /\ answer = [validity |-> answer.validity, total |-> answer.total, unread |-> answer.unread,
                complete |-> answer.complete, mail |-> answer.mail]
  /\ IsBorne(answer)

ReaderInv ==
  /\ reader = [uid |-> reader.uid, letter |-> reader.letter, validity |-> reader.validity,
                got |-> reader.got, revised |-> reader.revised, cleared |-> reader.cleared]
  /\ reader.uid # 0 => Bears(reader.letter, reader.validity, reader.uid)
  /\ reader.got # 0 => reader.uid # 0 /\ reader.got = reader.letter
  /\ reader.cleared => reader.revised /\ reader.uid # 0

IdentityInv ==
  ServerInv /\ CacheInv /\ AnswerInv /\ ReaderInv /\ body = [l \in Letters |-> body[l]]

\* What the holders hold stays true while they do nothing.
LEMMA HoldersStutter ==
  ASSUME ServerInv, \A l, v, u : Bears(l, v, u) => Bears(l, v, u)'
  PROVE  /\ CacheInv /\ UNCHANGED <<inst, cursor>> => CacheInv'
         /\ AnswerInv /\ UNCHANGED answer => AnswerInv'
         /\ ReaderInv /\ UNCHANGED reader => ReaderInv'
<1>1. CacheInv /\ UNCHANGED <<inst, cursor>> => CacheInv'
  BY DEF CacheInv, Cached
<1>2. AnswerInv /\ UNCHANGED answer => AnswerInv'
  BY DEF AnswerInv, IsBorne
<1>3. ReaderInv /\ UNCHANGED reader => ReaderInv'
  BY DEF ReaderInv
<1> QED
  BY <1>1, <1>2, <1>3

\* A row that survives the start of a snapshot has the UIDVALIDITY of the snapshot.
LEMMA KeptIsBorne ==
  ASSUME CacheInv, NEW a, NEW u \in Kept(a)
  PROVE  /\ u \in Cached /\ inst[u].validity = a.validity
         /\ Bears(inst[u].letter, a.validity, u)
BY DEF Kept, IdentityChanged, CacheInv

\* A snapshot joins a letter with a row of its own UIDVALIDITY, or not at all.
LEMMA ApplyKeepsIdentity ==
  ASSUME ServerInv, CacheInv, NEW a, IsBorne(a), NEW withBodies \in BOOLEAN,
         ApplyImapSnapshot(a, withBodies), UNCHANGED <<validity, uid, arrived>>
  PROVE  CacheInv'
<1> DEFINE left == Kept(a) \ Stale(a)
<1>1. /\ inst' = [u \in left \cup DOMAIN a.mail |-> IF u \in DOMAIN a.mail THEN Incoming(a, u)
                                                      ELSE inst[u]]
      /\ cursor'.validity = a.validity
  BY DEF ApplyImapSnapshot, Merged
<1>2. \A u : Incoming(a, u).letter = (IF u \in Kept(a) THEN inst[u].letter ELSE a.mail[u].letter)
              /\ Incoming(a, u).validity = a.validity
  BY DEF Incoming
<1>3. \A u \in DOMAIN a.mail : Bears(a.mail[u].letter, a.validity, u)
  BY DEF IsBorne
<1>4. left \subseteq Kept(a)
  OBVIOUS
<1>5. \A l, v, u : Bears(l, v, u) => Bears(l, v, u)'
  BY DEF Bears
<1> HIDE DEF left
<1>6. ASSUME NEW u \in Cached'
      PROVE  inst'[u].validity = a.validity /\ Bears(inst'[u].letter, a.validity, u)
  <2>1. u \in left \cup DOMAIN a.mail
    BY <1>1 DEF Cached
  <2>2. CASE u \in DOMAIN a.mail
    <3>1. inst'[u] = Incoming(a, u)
      BY <1>1, <2>1, <2>2
    <3>2. CASE u \in Kept(a)
      BY <1>2, <3>1, <3>2, KeptIsBorne
    <3>3. CASE u \notin Kept(a)
      BY <1>2, <1>3, <2>2, <3>1, <3>3
    <3> QED
      BY <3>2, <3>3
  <2>3. CASE u \notin DOMAIN a.mail
    <3>1. inst'[u] = inst[u] /\ u \in Kept(a)
      BY <1>1, <1>4, <2>1, <2>3
    <3> QED
      BY <3>1, KeptIsBorne
  <2> QED
    BY <2>2, <2>3
<1> QED
  BY <1>1, <1>5, <1>6 DEF CacheInv

\* A text that comes with a snapshot goes to the row of its own letter.
LEMMA SnapshotBodies ==
  ASSUME ServerInv, CacheInv, NEW a, IsBorne(a), NEW withBodies \in BOOLEAN,
         ApplyImapSnapshot(a, withBodies)
  PROVE  /\ body' = [l \in Letters |-> body'[l]]
         /\ \A l \in Letters : body'[l] \in {0, l, body[l]}
<1> DEFINE i == Merged(a)
           rows(l) == {u \in DOMAIN i : i[u].letter = l}
<1>1. ASSUME NEW l \in Letters, NEW u \in rows(l) \cap DOMAIN a.mail
      PROVE  a.mail[u].letter = l
  <2>1. Incoming(a, u).letter = l
    BY DEF Merged
  <2>2. CASE u \in Kept(a)
    <3>1. inst[u].letter = l
      BY <2>1, <2>2 DEF Incoming
    <3>2. Bears(l, a.validity, u) /\ Bears(a.mail[u].letter, a.validity, u)
      BY <2>2, <3>1, KeptIsBorne DEF IsBorne
    <3> QED
      BY <3>2, OneBearer
  <2>3. CASE u \notin Kept(a)
    BY <2>1, <2>3 DEF Incoming
  <2> QED
    BY <2>2, <2>3
<1>2. body' = [l \in Letters |->
         IF rows(l) = {} /\ (a.complete \/ IdentityChanged(a)) THEN 0
         ELSE IF withBodies /\ rows(l) \cap DOMAIN a.mail # {}
           THEN a.mail[CHOOSE u \in rows(l) \cap DOMAIN a.mail : TRUE].letter
         ELSE IF IdentityChanged(a) /\ l \in Unmarked THEN 0
         ELSE body[l]]
  BY DEF ApplyImapSnapshot, BodiesAfter
<1> HIDE DEF rows, i
<1>3. ASSUME NEW l \in Letters
      PROVE  body'[l] \in {0, l, body[l]}
  <2>1. rows(l) \cap DOMAIN a.mail # {} =>
          (CHOOSE u \in rows(l) \cap DOMAIN a.mail : TRUE) \in rows(l) \cap DOMAIN a.mail
    OBVIOUS
  <2>2. rows(l) \cap DOMAIN a.mail # {} =>
          a.mail[CHOOSE u \in rows(l) \cap DOMAIN a.mail : TRUE].letter = l
    BY <1>1, <2>1
  <2> QED
    BY <1>2, <2>2
<1> QED
  BY <1>2, <1>3

\* An index removes rows and changes flags; letters and UIDs stay.
LEMMA ReconcileKeepsIdentity ==
  ASSUME IntentInv, ServerInv, CacheInv, NEW a, ReconcileIndex(a),
         UNCHANGED <<validity, uid, arrived>>
  PROVE  CacheInv'
<1> DEFINE left == Cached \ Gone(a)
           Row(u) == IF u \in DOMAIN a.mail
                       THEN [inst[u] EXCEPT !.seen = Overlay(u, a.mail[u].seen)] ELSE inst[u]
<1>1. inst' = [u \in left |-> Row(u)] /\ cursor' = cursor
  BY DEF ReconcileIndex
<1>2. ASSUME NEW u \in left
      PROVE  Row(u).letter = inst[u].letter /\ Row(u).validity = inst[u].validity
  <2>1. inst[u] = [letter |-> inst[u].letter, validity |-> inst[u].validity,
                   seen |-> inst[u].seen, hidden |-> inst[u].hidden]
    BY DEF IntentInv, RowsAreRows
  <2>2. [inst[u] EXCEPT !.seen = Overlay(u, a.mail[u].seen)] =
          [letter |-> inst[u].letter, validity |-> inst[u].validity,
           seen |-> Overlay(u, a.mail[u].seen), hidden |-> inst[u].hidden]
    BY <2>1
  <2> QED
    BY <2>1, <2>2
<1>3. Cached' = left /\ left \subseteq Cached
  BY <1>1 DEF Cached
<1> HIDE DEF left, Row
<1> QED
  BY <1>1, <1>2, <1>3 DEF CacheInv, Bears

\* A row that is marked, hidden or shown again stays the row of its letter.
LEMMA OperationsKeepIdentity ==
  ASSUME IntentInv, ServerInv, CacheInv, NEW u \in Uids,
         \/ UploadFlags(u) \/ UploadMove(u) \/ OperationRefused(u)
         \/ HideMessage(u) \/ \E read \in BOOLEAN : MutateMessage(u, read)
  PROVE  CacheInv'
<1>1. /\ UNCHANGED <<validity, uid, arrived, cursor>>
      /\ \/ inst' = inst
         \/ /\ u \in Cached
            /\ \E value \in BOOLEAN : \/ inst' = [inst EXCEPT ![u].seen = value]
                                     \/ inst' = [inst EXCEPT ![u].hidden = value]
  BY DEF UploadFlags, UploadMove, OperationRefused, Restore, HideMessage, MutateMessage,
         Visible, cacheVars, serverVars
<1>2. CASE inst' = inst
  BY <1>1, <1>2 DEF CacheInv, Cached, Bears
<1>3. CASE inst' # inst
  <2>1. /\ Cached' = Cached
        /\ \A w \in Cached : w # u => inst'[w] = inst[w]
        /\ inst'[u].letter = inst[u].letter /\ inst'[u].validity = inst[u].validity
    BY <1>1, <1>3, OneRowChanges
  <2> QED
    BY <1>1, <2>1 DEF CacheInv, Bears
<1> QED
  BY <1>2, <1>3

\* A pass holds an answer of the folder as it was selected, or none.
LEMMA AnswersAreBorne ==
  ASSUME ServerInv, AnswerInv, UNCHANGED <<validity, uid, arrived>>,
         \/ answer' = answer \/ answer' = NoAnswer
         \/ Examine \/ SearchAndFetch \/ FetchMailboxIndex \/ FetchHistoryPage
  PROVE  AnswerInv'
<1>1. IsBorne(NoAnswer) /\ DOMAIN Empty = {}
  BY DEF IsBorne, NoAnswer, Empty
<1>2. ASSUME NEW mail, NEW count, NEW new, NEW complete, NEW v,
             answer' = [validity |-> v, total |-> count, unread |-> new,
                        complete |-> complete, mail |-> mail],
             mail = Empty \/ (v = validity /\ \E U \in SUBSET Present : mail = MailAt(U))
      PROVE  AnswerInv'
  <2>1. /\ answer'.validity = v /\ answer'.mail = mail
        /\ answer' = [validity |-> answer'.validity, total |-> answer'.total,
                      unread |-> answer'.unread, complete |-> answer'.complete,
                      mail |-> answer'.mail]
    BY <1>2
  <2>2. \A u \in DOMAIN mail : Bears(mail[u].letter, v, u)
    BY <1>1, <1>2, MailIsBorne
  <2> QED
    BY <2>1, <2>2 DEF AnswerInv, IsBorne, Bears
<1>3. CASE answer' = answer
  BY <1>3 DEF AnswerInv, IsBorne, Bears
<1>4. CASE answer' = NoAnswer
  BY <1>2, <1>4 DEF NoAnswer
<1>5. CASE Examine
  BY <1>2, <1>5 DEF Examine, NoAnswer
<1>6. CASE SearchAndFetch
  <2>1. ForwardPage(plan.since) \in SUBSET Present
    BY DEF ForwardPage, Newest, Oldest
  <2>2. /\ answer.validity = validity
        /\ \/ answer' = NoAnswer
           \/ \E complete : answer' =
                [answer EXCEPT !.complete = complete, !.mail = MailAt(ForwardPage(plan.since))]
    BY <1>6 DEF SearchAndFetch
  <2>3. ASSUME NEW complete,
               answer' = [answer EXCEPT !.complete = complete,
                                        !.mail = MailAt(ForwardPage(plan.since))]
        PROVE  AnswerInv'
    <3>1. answer' = [validity |-> answer.validity, total |-> answer.total,
                     unread |-> answer.unread, complete |-> complete,
                     mail |-> MailAt(ForwardPage(plan.since))]
      BY <2>3 DEF AnswerInv
    <3> QED
      BY <1>2, <2>1, <2>2, <3>1
  <2> QED
    BY <1>4, <2>2, <2>3
<1>7. CASE FetchMailboxIndex
  <2>1. CASE answer' = NoAnswer
    BY <1>4, <2>1
  <2>2. CASE answer' # NoAnswer
    <3>1. answer' = [NoAnswer EXCEPT !.validity = validity, !.total = Cardinality(Present),
                                     !.mail = MailAt(Present)]
      BY <1>7, <2>2 DEF FetchMailboxIndex, PassEnds
    <3>2. answer' = [validity |-> validity, total |-> Cardinality(Present), unread |-> 0,
                     complete |-> FALSE, mail |-> MailAt(Present)]
      BY <3>1 DEF NoAnswer
    <3> QED
      BY <1>2, <3>2
  <2> QED
    BY <2>1, <2>2
<1>8. CASE FetchHistoryPage
  <2> DEFINE page == Newest({u \in Present : u < plan.before}, PageSize)
  <2>1. page \in SUBSET Present
    BY DEF Newest
  <2>2. /\ answer.validity = validity
        /\ answer' = NoAnswer \/ answer' = [answer EXCEPT !.mail = MailAt(page)]
    BY <1>8 DEF FetchHistoryPage, PassEnds
  <2> HIDE DEF page
  <2>3. CASE answer' = [answer EXCEPT !.mail = MailAt(page)]
    <3>1. answer' = [validity |-> answer.validity, total |-> answer.total,
                     unread |-> answer.unread, complete |-> answer.complete,
                     mail |-> MailAt(page)]
      BY <2>3 DEF AnswerInv
    <3> QED
      BY <1>2, <2>1, <2>2, <3>1
  <2> QED
    BY <1>4, <2>2, <2>3
<1> QED
  BY <1>3, <1>4, <1>5, <1>6, <1>7, <1>8

\* A fetch on demand: a row of the cache, then the letter that bears its UID.
LEMMA ReaderStep ==
  ASSUME ServerInv, CacheInv, ReaderInv, UNCHANGED <<validity, uid, arrived>>,
         \/ \E rows : Revise(rows)
         \/ ClearCache \/ (\E u \in Uids : OpenMessage(u)) \/ BodyFetched
         \/ reader' = reader \/ reader' = NoReader
  PROVE  ReaderInv'
<1>1. ASSUME NEW u, NEW l, NEW v, NEW got, NEW revised, NEW cleared,
             reader' = [uid |-> u, letter |-> l, validity |-> v, got |-> got,
                        revised |-> revised, cleared |-> cleared],
             u # 0 => Bears(l, v, u), got # 0 => u # 0 /\ got = l,
             cleared => revised /\ u # 0
      PROVE  ReaderInv'
  BY <1>1 DEF ReaderInv, Bears
<1>2. reader = [uid |-> reader.uid, letter |-> reader.letter, validity |-> reader.validity,
                got |-> reader.got, revised |-> reader.revised, cleared |-> reader.cleared]
  BY DEF ReaderInv
<1>3. ASSUME NEW rows, Revise(rows)
      PROVE  ReaderInv'
  <2>1. reader' = [uid |-> reader.uid, letter |-> reader.letter, validity |-> reader.validity,
                   got |-> reader.got, revised |-> reader.revised \/ reader.letter \in rows,
                   cleared |-> reader.cleared]
    BY <1>2, <1>3 DEF Revise
  <2> DEFINE revised == reader.revised \/ reader.letter \in rows
  <2>2. reader' = [uid |-> reader.uid, letter |-> reader.letter, validity |-> reader.validity,
                   got |-> reader.got, revised |-> revised, cleared |-> reader.cleared]
    BY <2>1
  <2>3. reader.uid # 0 => Bears(reader.letter, reader.validity, reader.uid)
    BY DEF ReaderInv
  <2>4. reader.got # 0 => reader.uid # 0 /\ reader.got = reader.letter
    BY DEF ReaderInv
  <2>5. reader.cleared => revised /\ reader.uid # 0
    BY DEF ReaderInv
  <2> HIDE DEF revised
  <2> QED
    BY <1>1, <2>2, <2>3, <2>4, <2>5
<1>4. CASE ClearCache
  <2>1. reader' = [uid |-> reader.uid, letter |-> reader.letter, validity |-> reader.validity,
                   got |-> reader.got, revised |-> reader.uid # 0, cleared |-> reader.uid # 0]
    BY <1>2, <1>4 DEF ClearCache
  <2> DEFINE asked == reader.uid # 0
  <2>2. reader' = [uid |-> reader.uid, letter |-> reader.letter, validity |-> reader.validity,
                   got |-> reader.got, revised |-> asked, cleared |-> asked]
    BY <2>1
  <2>3. reader.uid # 0 => Bears(reader.letter, reader.validity, reader.uid)
    BY DEF ReaderInv
  <2>4. reader.got # 0 => reader.uid # 0 /\ reader.got = reader.letter
    BY DEF ReaderInv
  <2>5. asked => asked /\ reader.uid # 0
    OBVIOUS
  <2> HIDE DEF asked
  <2> QED
    BY <1>1, <2>2, <2>3, <2>4, <2>5
<1>5. ASSUME NEW u \in Uids, OpenMessage(u)
      PROVE  ReaderInv'
  <2>1. reader' = [uid |-> u, letter |-> inst[u].letter, validity |-> inst[u].validity,
                   got |-> 0, revised |-> FALSE, cleared |-> FALSE]
    BY <1>5 DEF OpenMessage, NoReader
  <2>2. Bears(inst[u].letter, inst[u].validity, u)
    BY <1>5 DEF OpenMessage, Visible, CacheInv
  <2> QED
    BY <1>1, <2>1, <2>2
<1>6. CASE reader' = NoReader
  BY <1>1, <1>6 DEF NoReader
<1>7. CASE BodyFetched
  <2>1. CASE reader' = [reader EXCEPT !.got = LetterAt(reader.uid)]
             /\ reader.uid \in Present /\ validity = reader.validity
    <3>1. reader' = [uid |-> reader.uid, letter |-> reader.letter,
                     validity |-> reader.validity, got |-> LetterAt(reader.uid),
                     revised |-> reader.revised, cleared |-> reader.cleared]
      BY <1>2, <2>1
    <3>2. Bears(LetterAt(reader.uid), validity, reader.uid)
      BY <2>1, MailIsBorne DEF MailAt
    <3>3. reader.uid # 0 /\ LetterAt(reader.uid) = reader.letter
      BY <1>7, <2>1, <3>2, OneBearer DEF BodyFetched, ReaderInv
    <3> QED
      BY <1>1, <3>1, <3>3 DEF ReaderInv
  <2> QED
    BY <1>6, <1>7, <2>1 DEF BodyFetched, BodyIsOfLocator
<1>8. CASE reader' = reader
  BY <1>8 DEF ReaderInv, Bears
<1> QED
  BY <1>3, <1>4, <1>5, <1>6, <1>7, <1>8

\* An empty cache, and a pass and a reader without an answer, hold no pair.
LEMMA IdentityInit == Init => IdentityInv
<1> SUFFICES ASSUME Init PROVE IdentityInv
  OBVIOUS
<1>1. inst = Empty /\ Cached = {} /\ answer = NoAnswer /\ reader = NoReader
      /\ body = [l \in Letters |-> 0]
  BY DEF Init, Cached, Empty
<1>2. CacheInv
  BY <1>1 DEF CacheInv
<1>3. AnswerInv
  BY <1>1 DEF AnswerInv, NoAnswer, IsBorne, Empty
<1>4. ReaderInv
  BY <1>1 DEF ReaderInv, NoReader
<1> QED
  BY <1>1, <1>2, <1>3, <1>4, ServerInit DEF IdentityInv

\* The server, which leaves the client alone.
LEMMA ServerKeepsIdentity ==
  ASSUME IdentityInv, Server
  PROVE  IdentityInv' /\ GenuineBodies
<1>1. UNCHANGED <<inst, cursor, answer, reader, body>>
  BY DEF Server, Arrive, Renumber, ElsewhereExpunged, ElsewhereMarked, Untouched,
         cacheVars, passVars
<1>2. ServerInv' /\ \A l, v, u : Bears(l, v, u) => Bears(l, v, u)'
  <2>1. CASE Arrive
    BY <2>1, ArriveStep DEF IdentityInv
  <2>2. CASE Renumber
    BY <2>2, RenumberStep DEF IdentityInv
  <2>3. CASE \E l \in box : ElsewhereExpunged(l) \/ ElsewhereMarked(l)
    <3>1. UNCHANGED <<validity, uid, arrived>> /\ box' \subseteq box
      BY <2>3 DEF ElsewhereExpunged, ElsewhereMarked
    <3> QED
      BY <3>1, UidsStay DEF IdentityInv
  <2> QED
    BY <2>1, <2>2, <2>3 DEF Server
<1>3. CacheInv' /\ AnswerInv' /\ ReaderInv'
  BY <1>1, <1>2, HoldersStutter DEF IdentityInv
<1> QED
  BY <1>1, <1>2, <1>3 DEF IdentityInv, GenuineBodies

\* A step that leaves texts and fetches alone keeps them genuine.
LEMMA NoBodyTouched ==
  ASSUME UNCHANGED body
  PROVE  GenuineBodies
BY DEF GenuineBodies

\* A snapshot: the page of new mail, or one of history.
LEMMA SnapshotKeepsIdentity ==
  ASSUME IntentInv, IdentityInv,
         ApplyHistoryPage \/ \E withBodies \in BOOLEAN : ApplyForwardPage(withBodies)
  PROVE  IdentityInv' /\ GenuineBodies
<1>1. PICK withBodies \in BOOLEAN : ApplyImapSnapshot(answer, withBodies)
  BY DEF ApplyHistoryPage, ApplyForwardPage
<1>2. UNCHANGED <<validity, uid, arrived, box>> /\ answer' = NoAnswer
  BY DEF ApplyHistoryPage, ApplyForwardPage, Rest, serverVars, PassEnds
<1>3. ServerInv'
  BY <1>2, UidsStay DEF IdentityInv
<1>4. CacheInv'
  BY <1>1, <1>2, ApplyKeepsIdentity DEF IdentityInv, AnswerInv
<1>5. AnswerInv'
  BY <1>2, AnswersAreBorne DEF IdentityInv
<1>6. \E rows : Revise(rows)
  BY <1>1 DEF ApplyImapSnapshot
<1>7. ReaderInv'
  BY <1>2, <1>6, ReaderStep DEF IdentityInv
<1>8. /\ body' = [l \in Letters |-> body'[l]]
      /\ \A l \in Letters : body'[l] \in {0, l, body[l]}
  BY <1>1, SnapshotBodies DEF IdentityInv, AnswerInv
<1>9. reader.cleared => reader' # NoReader
  <2>1. reader'.uid = reader.uid
    BY <1>6 DEF IdentityInv, ReaderInv, Revise
  <2> QED
    BY <2>1 DEF IdentityInv, ReaderInv, NoReader
<1> QED
  BY <1>3, <1>4, <1>5, <1>7, <1>8, <1>9 DEF IdentityInv, GenuineBodies

\* An index, and the user's changes on their way to the server.
LEMMA RowsKeepIdentity ==
  ASSUME IntentInv, IdentityInv,
         \/ ReconcileMailboxIndex
         \/ \E u \in Uids : \/ UploadFlags(u) \/ UploadMove(u) \/ OperationRefused(u)
                           \/ HideMessage(u) \/ \E read \in BOOLEAN : MutateMessage(u, read)
  PROVE  IdentityInv' /\ GenuineBodies
<1>1. CASE ReconcileMailboxIndex
  <2>1. /\ UNCHANGED <<validity, uid, arrived, box, reader>> /\ answer' = NoAnswer
        /\ ReconcileIndex(answer) \/ UNCHANGED <<cacheVars, body>>
    BY <1>1 DEF ReconcileMailboxIndex, Rest, serverVars, PassEnds
  <2>2. ServerInv'
    BY <2>1, UidsStay DEF IdentityInv
  <2>3. CacheInv'
    <3>1. CASE ReconcileIndex(answer)
      BY <2>1, <3>1, ReconcileKeepsIdentity DEF IdentityInv
    <3>2. CASE UNCHANGED <<cacheVars, body>>
      BY <2>1, <3>2 DEF IdentityInv, CacheInv, Cached, Bears, cacheVars
    <3> QED
      BY <2>1, <3>1, <3>2
  <2>4. AnswerInv' /\ ReaderInv'
    BY <2>1, AnswersAreBorne, ReaderStep DEF IdentityInv
  <2>5. /\ body' = [l \in Letters |-> body'[l]]
        /\ \A l \in Letters : body'[l] \in {0, body[l]}
    BY <2>1 DEF ReconcileIndex, IdentityInv
  <2>6. reader.cleared => reader' # NoReader
    BY <2>1 DEF IdentityInv, ReaderInv, NoReader
  <2> QED
    BY <2>2, <2>3, <2>4, <2>5, <2>6 DEF IdentityInv, GenuineBodies
<1>2. ASSUME NEW u \in Uids,
             \/ UploadFlags(u) \/ UploadMove(u) \/ OperationRefused(u)
             \/ HideMessage(u) \/ \E read \in BOOLEAN : MutateMessage(u, read)
      PROVE  IdentityInv' /\ GenuineBodies
  <2>1. /\ UNCHANGED <<validity, uid, arrived, reader, body>> /\ box' \subseteq box
        /\ answer' = answer \/ answer' = NoAnswer
    BY <1>2 DEF UploadFlags, UploadMove, OperationRefused, HideMessage, MutateMessage,
                serverVars, passVars, PassEnds
  <2>2. ServerInv' /\ AnswerInv' /\ ReaderInv'
    BY <2>1, UidsStay, AnswersAreBorne, ReaderStep DEF IdentityInv
  <2>3. CacheInv'
    BY <1>2, OperationsKeepIdentity DEF IdentityInv
  <2> QED
    BY <2>1, <2>2, <2>3, NoBodyTouched DEF IdentityInv
<1> QED
  BY <1>1, <1>2

\* A fetch on demand stores its text only when nothing has come in between.
LEMMA ReadingKeepsIdentity ==
  ASSUME IdentityInv, Reading \/ ClearCache \/ \E u \in Uids : OpenMessage(u)
  PROVE  IdentityInv' /\ GenuineBodies
<1>1. UNCHANGED <<validity, uid, arrived, box, inst, cursor, answer>>
  BY DEF Reading, BodyFetched, BodyFetchFails, StoreHydratedBody, ReaderOnly, ClearCache,
         OpenMessage, serverVars, cacheVars, passVars
<1>2. ServerInv' /\ CacheInv' /\ AnswerInv'
  <2>1. ServerInv' /\ \A l, v, u : Bears(l, v, u) => Bears(l, v, u)'
    BY <1>1, UidsStay DEF IdentityInv
  <2> QED
    BY <1>1, <2>1, HoldersStutter DEF IdentityInv
<1>3. ReaderInv'
  BY <1>1, ReaderStep DEF IdentityInv, Reading, BodyFetchFails, StoreHydratedBody
<1>4. body' = [l \in Letters |-> body'[l]] /\ GenuineBodies
  <2>1. CASE StoreHydratedBody
    <3>1. reader.got = reader.letter /\ (reader.cleared => reader.revised)
      BY <2>1 DEF StoreHydratedBody, IdentityInv, ReaderInv
    <3>2. body' = body \/ (~reader.revised /\ body' = [body EXCEPT ![reader.letter] = reader.got])
      BY <2>1 DEF StoreHydratedBody
    <3> QED
      BY <3>1, <3>2 DEF IdentityInv, GenuineBodies
  <2>2. CASE ClearCache
    <3>1. body' = [l \in Letters |-> 0] /\ reader'.uid = reader.uid
      BY <2>2 DEF ClearCache, IdentityInv, ReaderInv
    <3>2. reader.cleared => reader' # NoReader
      BY <3>1 DEF IdentityInv, ReaderInv, NoReader
    <3> QED
      BY <3>1, <3>2 DEF GenuineBodies
  <2>3. CASE BodyFetched \/ BodyFetchFails \/ \E u \in Uids : OpenMessage(u)
    BY <2>3, NoBodyTouched
       DEF BodyFetched, BodyFetchFails, OpenMessage, ReaderOnly, IdentityInv
  <2> QED
    BY <2>1, <2>2, <2>3 DEF Reading
<1> QED
  BY <1>2, <1>3, <1>4 DEF IdentityInv

\* The other steps of a pass read the folder or move on.
LEMMA PassKeepsIdentity ==
  ASSUME IdentityInv,
         \/ Examine \/ SearchAndFetch \/ SkipQuietFolder \/ FetchMailboxIndex
         \/ FlushDone \/ LoadWindow \/ FetchHistoryPage \/ PassFails \/ PassStops
         \/ \E mode \in {"full", "quick"} : StartPass(mode)
  PROVE  IdentityInv' /\ GenuineBodies
<1>1. UNCHANGED <<validity, uid, arrived, box, inst, cursor, reader, body>>
  BY DEF Examine, SearchAndFetch, SkipQuietFolder, FetchMailboxIndex, FlushDone, LoadWindow,
         FetchHistoryPage, PassFails, PassStops, StartPass, CacheKept, Rest, cacheVars, serverVars
<1>2. \/ answer' = answer \/ answer' = NoAnswer
      \/ Examine \/ SearchAndFetch \/ FetchMailboxIndex \/ FetchHistoryPage
  BY DEF SkipQuietFolder, FlushDone, LoadWindow, PassFails, PassStops, StartPass, PassEnds
<1>3. ServerInv' /\ CacheInv' /\ ReaderInv'
  <2>1. ServerInv' /\ \A l, v, u : Bears(l, v, u) => Bears(l, v, u)'
    BY <1>1, UidsStay DEF IdentityInv
  <2> QED
    BY <1>1, <2>1, HoldersStutter DEF IdentityInv
<1>4. AnswerInv'
  BY <1>1, <1>2, AnswersAreBorne DEF IdentityInv
<1> QED
  BY <1>1, <1>3, <1>4, NoBodyTouched DEF IdentityInv

-----------------------------------------------------------------------------
(***************************************************************************)
(* The theorems on identity.                                               *)
(***************************************************************************)

\* Every step keeps the pairs borne out, and stores a text only in the row of its letter.
LEMMA IdentityStep == IntentInv /\ IdentityInv /\ [Next]_vars => IdentityInv' /\ [GenuineBodies]_vars
<1> SUFFICES ASSUME IntentInv, IdentityInv, [Next]_vars
             PROVE  IdentityInv' /\ [GenuineBodies]_vars
  OBVIOUS
<1>1. CASE UNCHANGED vars
  <2>1. UNCHANGED <<validity, uid, arrived, box, inst, cursor, answer, reader, body>>
    BY <1>1 DEF vars, serverVars, cacheVars, passVars
  <2>2. ServerInv' /\ \A l, v, u : Bears(l, v, u) => Bears(l, v, u)'
    BY <2>1, UidsStay DEF IdentityInv
  <2>3. CacheInv' /\ AnswerInv' /\ ReaderInv'
    BY <2>1, <2>2, HoldersStutter DEF IdentityInv
  <2> QED
    BY <2>1, <2>2, <2>3, NoBodyTouched DEF IdentityInv
<1>2. CASE Server
  BY <1>2, ServerKeepsIdentity
<1>3. CASE User \/ Reading
  BY <1>3, ReadingKeepsIdentity, RowsKeepIdentity DEF User
<1>4. CASE PassStep \/ PassStops \/ \E mode \in {"full", "quick"} : StartPass(mode)
  BY <1>4, SnapshotKeepsIdentity, RowsKeepIdentity, PassKeepsIdentity DEF PassStep
<1> QED
  BY <1>1, <1>2, <1>3, <1>4 DEF Next

\* The inductive invariant: every pair of a UID and a letter that anybody holds is one the
\* server gave.
THEOREM IdentityInvHolds == Spec => []IdentityInv
<1>1. IntentInv /\ IdentityInv /\ [Next]_vars => IdentityInv'
  BY IdentityStep
<1> QED
  BY <1>1, IdentityInit, IntentInvHolds, PTL DEF Spec

\* Renumberings, resets, pages and passes that fail never leave in the cache a row whose UID
\* belongs to another life of the folder (apply_imap_snapshot, reconcile_imap_mailbox_index).
THEOREM IdentityAlwaysHolds == Spec => []IdentityHolds
<1>1. IdentityInv => IdentityHolds
  BY DEF IdentityInv, CacheInv, Bears, IdentityHolds
<1> QED
  BY <1>1, IdentityInvHolds, PTL

\* A text reaches only the row of its own letter, whatever happened between the lookup of
\* the row and the store (store_hydrated_message_body), and a cleared cache stays cleared.
THEOREM BodiesAlwaysGenuine == Spec => BodiesAreGenuine
<1>1. IntentInv /\ IdentityInv /\ [Next]_vars => [GenuineBodies]_vars
  BY IdentityStep
<1> QED
  BY <1>1, IntentInvHolds, IdentityInvHolds, PTL DEF Spec, BodiesAreGenuine

-----------------------------------------------------------------------------
(***************************************************************************)
(* The order of the UIDs.                                                  *)
(***************************************************************************)

\* Under one UIDVALIDITY the UIDs grow with the arrivals, and there are no more of them than
\* letters.
UidInv ==
  /\ \A v \in Validities, l \in Letters : uid[v][l] <= l
  /\ \A v \in Validities, k, l \in Letters :
       k < l /\ uid[v][k] # 0 /\ uid[v][l] # 0 => uid[v][k] < uid[v][l]

\* The folder starts with its letters numbered in their order.
LEMMA UidInit == Init => UidInv
<1> SUFFICES ASSUME Init PROVE UidInv
  OBVIOUS
<1>1. \A v \in Validities, l \in Letters : uid[v][l] = IF v = 1 /\ l <= Initial THEN l ELSE 0
  BY DEF Init
<1> QED
  BY <1>1 DEF UidInv, Letters

\* The server numbers a letter above all that came before it.
LEMMA ServerKeepsUids ==
  ASSUME ServerInv, UidInv, Server
  PROVE  /\ UidInv'
         /\ \/ validity' = validity + 1
            \/ /\ validity' = validity
               /\ \A u \in Present' \ Present :
                    u \in Nat \ {0} /\ \A l, w : Bears(l, validity, w) => w < u
<1>1. CASE Arrive
  <2> DEFINE n == arrived + 1
             new == Max({uid[validity][l] : l \in 1 .. arrived} \cup {0}) + 1
             S == {uid[validity][l] : l \in 1 .. arrived} \cup {0}
  <2>1. /\ validity \in Validities /\ arrived \in Nat /\ arrived < MaxLetters
        /\ MaxLetters \in Nat /\ uid \in [Validities -> [Letters -> Nat]]
        /\ n \in Letters /\ 1 .. arrived \subseteq Letters /\ box \subseteq 1 .. arrived
    BY <1>1, MailCacheAssumption DEF ServerInv, Arrive, Letters
  <2>2. new \in Nat \ {0} /\ \A l \in 1 .. arrived : uid[validity][l] < new
    BY NewUid
  <2>3. new <= n
    <3>1. Max(S) \in S
      <4>1. S \subseteq 0 .. arrived
        BY <2>1 DEF UidInv, Letters
      <4>2. S \in SUBSET (0 .. arrived) /\ S \subseteq Nat /\ S # {}
        BY <2>1, <4>1
      <4>3. IsFiniteSet(0 .. arrived)
        BY <2>1, FS_Interval
      <4> HIDE DEF S
      <4> QED
        BY <4>2, <4>3, FS_Subset, MaxIsGreatest
    <3>2. Max(S) <= arrived /\ Max(S) \in Nat
      BY <2>1, <3>1 DEF UidInv, Letters
    <3> QED
      BY <2>1, <3>2
  <2>4. /\ arrived' = n /\ box' = box \cup {n} /\ validity' = validity
        /\ uid' = [uid EXCEPT ![validity][n] = new]
    BY <1>1 DEF Arrive
  <2> HIDE DEF new, S
  <2>5. /\ uid'[validity][n] = new
        /\ \A v \in Validities, l \in Letters : v # validity \/ l # n => uid'[v][l] = uid[v][l]
    BY <2>1, <2>2, <2>4
  <2>6. \A v \in Validities, l \in Letters :
          uid[v][l] # 0 => l \in 1 .. arrived /\ l # n /\ l < n
    BY <2>1 DEF ServerInv, Letters
  <2>7. \A v \in Validities, l \in Letters : uid'[v][l] <= l
    BY <2>3, <2>5 DEF UidInv
  <2>8. ASSUME NEW v \in Validities, NEW k \in Letters, NEW l \in Letters,
               k < l, uid'[v][k] # 0, uid'[v][l] # 0
        PROVE  uid'[v][k] < uid'[v][l]
    <3>1. CASE v # validity \/ (k # n /\ l # n)
      BY <2>5, <2>8, <3>1 DEF UidInv
    <3>2. CASE v = validity /\ l = n
      <4>1. k # n /\ uid'[v][k] = uid[v][k]
        BY <2>5, <2>8, <3>2 DEF Letters
      <4> QED
        BY <2>2, <2>5, <2>6, <2>8, <3>2, <4>1
    <3>3. CASE v = validity /\ k = n /\ l # n
      <4>1. uid[v][l] # 0
        BY <2>5, <2>8, <3>3
      <4> QED
        BY <2>6, <2>8, <3>3, <4>1 DEF Letters
    <3> QED
      BY <3>1, <3>2, <3>3
  <2>9. ASSUME NEW u \in Present' \ Present
        PROVE  u \in Nat \ {0} /\ \A l, w : Bears(l, validity, w) => w < u
    <3>1. PICK k \in box \cup {n} : u = uid'[validity][k]
      BY <2>4 DEF Present
    <3>2. k = n
      <4>1. ASSUME k # n PROVE FALSE
        <5>1. k \in box /\ k \in Letters
          BY <2>1, <3>1, <4>1
        <5>2. u = uid[validity][k]
          BY <2>1, <2>5, <3>1, <4>1, <5>1
        <5> QED
          BY <5>1, <5>2 DEF Present
      <4> QED
        BY <4>1
    <3>3. u = new
      BY <2>5, <3>1, <3>2
    <3> QED
      BY <2>2, <3>3 DEF Bears
  <2> QED
    BY <2>4, <2>7, <2>8, <2>9 DEF UidInv
<1>2. CASE Renumber
  <2> DEFINE w == validity + 1
             Rank(l) == Cardinality({k \in box : k <= l})
  <2>1. /\ validity \in Validities /\ w \in Validities /\ w # validity /\ arrived \in Nat
        /\ box \subseteq 1 .. arrived /\ 1 .. arrived \subseteq Letters
        /\ uid \in [Validities -> [Letters -> Nat]]
    BY <1>2, MailCacheAssumption DEF ServerInv, Renumber, Validities, Letters
  <2>2. /\ validity' = w
        /\ uid' = [uid EXCEPT ![w] = [l \in Letters |-> IF l \in box THEN Rank(l) ELSE 0]]
    BY <1>2 DEF Renumber
  <2>3. box \subseteq Nat /\ IsFiniteSet(box)
    <3>1. box \in SUBSET (1 .. arrived) /\ box \subseteq Nat
      BY <2>1
    <3>2. IsFiniteSet(1 .. arrived)
      BY <2>1, FS_Interval
    <3> QED
      BY <3>1, <3>2, FS_Subset
  <2>4. ASSUME NEW l \in box PROVE Rank(l) <= l /\ l \in Nat
    <3>1. l \in Nat /\ {k \in box : k <= l} \in SUBSET (1 .. l)
      <4>1. \A k \in box : k \in Nat /\ k >= 1
        BY <2>1
      <4> QED
        BY <4>1
    <3>2. IsFiniteSet(1 .. l) /\ Cardinality(1 .. l) = l
      BY <2>1, <3>1, FS_Interval
    <3> QED
      BY <3>1, <3>2, FS_Subset
  <2>5. ASSUME NEW k \in box, NEW l \in box, k < l PROVE Rank(k) < Rank(l)
    <3> DEFINE A == {j \in box : j <= k}
               B == {j \in box : j <= l}
    <3>1. A \subseteq B /\ B \in SUBSET box
      <4>1. \A j \in box : j <= k => j <= l
        BY <2>3, <2>5
      <4> QED
        BY <4>1
    <3>2. Cardinality(A) # Cardinality(B) /\ Cardinality(A) \in Nat /\ Cardinality(B) \in Nat
      BY <2>3, <2>5, RanksDiffer
    <3> HIDE DEF A, B
    <3>3. Cardinality(A) <= Cardinality(B)
      BY <2>3, <3>1, FS_Subset
    <3> QED
      BY <3>2, <3>3 DEF A, B
  <2> HIDE DEF Rank
  <2>6. /\ \A l \in Letters : uid'[w][l] = IF l \in box THEN Rank(l) ELSE 0
        /\ \A v \in Validities : v # w => uid'[v] = uid[v]
    BY <2>1, <2>2
  <2>7. \A v \in Validities, l \in Letters : uid'[v][l] <= l
    <3> SUFFICES ASSUME NEW v \in Validities, NEW l \in Letters PROVE uid'[v][l] <= l
      OBVIOUS
    <3>1. CASE v = w
      BY <2>4, <2>6, <3>1 DEF Letters
    <3>2. CASE v # w
      BY <2>6, <3>2 DEF UidInv
    <3> QED
      BY <3>1, <3>2
  <2>8. \A v \in Validities, k, l \in Letters :
          k < l /\ uid'[v][k] # 0 /\ uid'[v][l] # 0 => uid'[v][k] < uid'[v][l]
    <3> SUFFICES ASSUME NEW v \in Validities, NEW k \in Letters, NEW l \in Letters,
                        k < l, uid'[v][k] # 0, uid'[v][l] # 0
                 PROVE  uid'[v][k] < uid'[v][l]
      OBVIOUS
    <3>1. CASE v = w
      <4>1. k \in box /\ l \in box
        BY <2>6, <3>1
      <4> QED
        BY <2>5, <2>6, <3>1, <4>1
    <3>2. CASE v # w
      BY <2>6, <3>2 DEF UidInv
    <3> QED
      BY <3>1, <3>2
  <2> QED
    BY <2>2, <2>7, <2>8 DEF UidInv
<1>3. CASE \E l \in box : ElsewhereExpunged(l) \/ ElsewhereMarked(l)
  <2>1. UNCHANGED <<validity, uid>> /\ box' \subseteq box
    BY <1>3 DEF ElsewhereExpunged, ElsewhereMarked
  <2> QED
    BY <2>1 DEF UidInv, Present
<1> QED
  BY <1>1, <1>2, <1>3 DEF Server

\* A UID that the server gave is a number of the bound, and its UIDVALIDITY too.
LEMMA BorneIsTyped ==
  ASSUME ServerInv, UidInv, NEW l, NEW v, NEW u, Bears(l, v, u)
  PROVE  l \in Letters /\ v \in Validities /\ v <= validity /\ u \in Uids /\ l <= arrived
<1>1. /\ l \in Letters /\ v \in Validities /\ v <= validity /\ l <= arrived /\ u # 0 /\ uid[v][l] = u
  BY MailCacheAssumption DEF ServerInv, Bears, Letters, Validities
<1>2. u \in Nat /\ u <= l
  BY <1>1 DEF ServerInv, UidInv
<1> QED
  BY <1>1, <1>2, MailCacheAssumption DEF Letters, Uids

\* What the folder holds, as numbers.
LEMMA PresentIsFinite ==
  ASSUME ServerInv, UidInv
  PROVE  /\ Present \subseteq Uids /\ IsFiniteSet(Uids) /\ Uids \subseteq Nat
         /\ \A S : S \subseteq Uids => IsFiniteSet(S) /\ Cardinality(S) \in Nat /\ S \subseteq Nat
         /\ Cardinality(Present) \in Nat
         /\ Unseen \subseteq Present /\ Cardinality(Unseen) \in Nat
         /\ \A u \in Present : LetterAt(u) \in box /\ uid[validity][LetterAt(u)] = u
                                 /\ Bears(LetterAt(u), validity, u)
<1>1. IsFiniteSet(Uids) /\ Uids \subseteq Nat
  BY MailCacheAssumption, FS_Interval DEF Uids
<1>2. ASSUME NEW S, S \subseteq Uids
      PROVE  IsFiniteSet(S) /\ Cardinality(S) \in Nat /\ S \subseteq Nat
  BY <1>1, <1>2, FS_Subset, FS_CardinalityType
<1>3. ASSUME NEW u \in Present
      PROVE  LetterAt(u) \in box /\ uid[validity][LetterAt(u)] = u /\ Bears(LetterAt(u), validity, u)
  <2>1. PICK l \in box : uid[validity][l] = u
    BY DEF Present
  <2>2. LetterAt(u) \in box /\ uid[validity][LetterAt(u)] = u
    BY <2>1 DEF LetterAt
  <2>3. validity \in 1 .. validity /\ LetterAt(u) \in 1 .. arrived /\ uid[validity][LetterAt(u)] # 0
    <3>1. validity \in 1 .. validity
      BY MailCacheAssumption DEF ServerInv, Validities
    <3> QED
      BY <2>2, <3>1 DEF ServerInv
  <2> QED
    BY <2>2, <2>3 DEF Bears
<1>4. Present \subseteq Uids
  BY <1>3, BorneIsTyped
<1>5. Unseen \subseteq Present
  BY DEF Unseen, Present
<1> QED
  BY <1>1, <1>2, <1>3, <1>4, <1>5

-----------------------------------------------------------------------------
(***************************************************************************)
(* The types.                                                              *)
(***************************************************************************)

\* The values of the columns that no pair of a UID and a letter speaks of.
RowValues == \A u \in Cached : inst[u].seen \in BOOLEAN /\ inst[u].hidden \in BOOLEAN

CountTypes ==
  /\ cursor \in [validity : 0 .. MaxValidity, last : 0 .. MaxLetters]
  /\ total \in Nat /\ unread \in Nat
  /\ view \in [known : BOOLEAN, uids : SUBSET Uids, unseen : SUBSET Uids]

Mails == UNION {[S -> Mail] : S \in SUBSET Uids}

PassTypes ==
  /\ pc \in PassState /\ plan \in Plans
  /\ DOMAIN answer.mail \subseteq Uids /\ answer \in Answers

OtherTypes == /\ srvRead \subseteq 1 .. arrived /\ events \in 0 .. MaxEvents
              /\ body \in [Letters -> 0 .. MaxLetters]

ValueInv == RowValues /\ CountTypes /\ PassTypes /\ reader \in Readers /\ OtherTypes

Support == IntentInv /\ IdentityInv /\ UidInv

\* A row names a letter and a UID that the server gave: that is its type.
LEMMA RowsAreTyped ==
  ASSUME Support
  PROVE  /\ Cached \subseteq Uids
         /\ RowValues => inst \in [Cached -> Instance]
<1>1. ASSUME NEW u \in Cached
      PROVE  u \in Uids /\ inst[u].letter \in Letters /\ inst[u].validity \in Validities
  <2>1. inst[u].validity = cursor.validity /\ Bears(inst[u].letter, cursor.validity, u)
    BY DEF Support, IdentityInv, CacheInv
  <2> QED
    BY <2>1, BorneIsTyped DEF Support, IdentityInv
<1>2. ASSUME RowValues PROVE inst \in [Cached -> Instance]
  <2>1. ASSUME NEW u \in Cached PROVE inst[u] \in Instance
    <3>1. inst[u] = [letter |-> inst[u].letter, validity |-> inst[u].validity,
                     seen |-> inst[u].seen, hidden |-> inst[u].hidden]
      BY DEF Support, IntentInv, RowsAreRows
    <3>2. inst[u].seen \in BOOLEAN /\ inst[u].hidden \in BOOLEAN
      BY <1>2 DEF RowValues
    <3> QED
      BY <1>1, <3>1, <3>2 DEF Instance
  <2>2. inst = [u \in Cached |-> inst[u]]
    BY DEF Support, IntentInv
  <2> QED
    BY <2>1, <2>2
<1> QED
  BY <1>1, <1>2

\* The invariants together are the type invariant of the module.
LEMMA TypesJoin == Support /\ ValueInv => TypeOK
<1> SUFFICES ASSUME Support, ValueInv PROVE TypeOK
  OBVIOUS
<1>1. Cached \subseteq Uids /\ inst \in [Cached -> Instance]
  BY RowsAreTyped DEF ValueInv
<1>2. uid \in [Validities -> [Letters -> 0 .. MaxLetters]]
  <2>1. uid \in [Validities -> [Letters -> Nat]]
    BY DEF Support, IdentityInv, ServerInv
  <2>2. \A v \in Validities, l \in Letters : uid[v][l] \in 0 .. MaxLetters
    BY <2>1, MailCacheAssumption DEF Support, UidInv, Letters
  <2> QED
    BY <2>1, <2>2
<1>3. /\ validity \in Validities /\ arrived \in 0 .. MaxLetters /\ box \subseteq 1 .. arrived
      /\ flag \in [Uids -> Intent] /\ moving \subseteq Uids
  BY DEF Support, IdentityInv, ServerInv, IntentInv
<1> QED
  BY <1>1, <1>2, <1>3 DEF TypeOK, ValueInv, CountTypes, PassTypes, OtherTypes, Cached

\* The floors and ceilings of the counters (saturating_sub, min) are what they say.
LEMMA FloorsAreNat ==
  ASSUME NEW n \in Int
  PROVE  /\ Max0(n) \in Nat /\ Max0(n) >= n
         /\ \A high \in Nat : Clamp(n, high) \in Nat /\ Clamp(n, high) <= high
         /\ n >= 0 => Max0(n) = n
         /\ \A high \in Nat : 0 <= n /\ n <= high => Clamp(n, high) = n
BY DEF Max0, Clamp

\* An answer of the server has the type of one.
LEMMA MailIsTyped ==
  ASSUME ServerInv, UidInv, NEW U, U \subseteq Present
  PROVE  MailAt(U) \in Mails /\ DOMAIN MailAt(U) = U /\ U \subseteq Uids
<1>1. ASSUME NEW u \in U
      PROVE  LetterAt(u) \in Letters
  BY PresentIsFinite, BorneIsTyped
<1>2. MailAt(U) \in [U -> Mail]
  <2>1. \A u \in U : [letter |-> LetterAt(u), seen |-> LetterAt(u) \in srvRead] \in Mail
    BY <1>1 DEF Mail
  <2> QED
    BY <2>1 DEF MailAt
<1>3. U \in SUBSET Uids
  BY PresentIsFinite
<1> QED
  BY <1>2, <1>3 DEF Mails

\* What is read of a typed answer.
LEMMA AnswerIsTyped ==
  ASSUME PassTypes
  PROVE  /\ answer.validity \in 0 .. MaxValidity /\ answer.total \in Nat /\ answer.unread \in Nat
         /\ answer.complete \in BOOLEAN
         /\ answer.mail \in Mails /\ DOMAIN answer.mail \subseteq Uids
         /\ \A u \in DOMAIN answer.mail : answer.mail[u] \in Mail
<1>1. /\ answer.validity \in 0 .. MaxValidity /\ answer.total \in Nat /\ answer.unread \in Nat
      /\ answer.complete \in BOOLEAN /\ answer.mail \in Mails /\ DOMAIN answer.mail \subseteq Uids
  BY DEF PassTypes, Answers, Mails
<1>2. \A u \in DOMAIN answer.mail : answer.mail[u] \in Mail
  BY <1>1 DEF Mails
<1> QED
  BY <1>1, <1>2

\* A snapshot keeps the types.
LEMMA ApplyKeepsValues ==
  ASSUME Support, ValueInv, NEW withBodies \in BOOLEAN, ApplyImapSnapshot(answer, withBodies)
  PROVE  RowValues' /\ CountTypes' /\ reader' \in Readers
<1> DEFINE D == DOMAIN answer.mail
           i == Merged(answer)
           left == Kept(answer) \ Stale(answer)
<1>1. /\ D \subseteq Uids /\ \A u \in D : answer.mail[u] \in Mail
      /\ answer.total \in Nat /\ answer.unread \in Nat /\ answer.validity \in 0 .. MaxValidity
  BY AnswerIsTyped DEF ValueInv
<1>2. Cached \subseteq Uids
  BY RowsAreTyped
<1>3. /\ i = [u \in left \cup D |-> IF u \in D THEN Incoming(answer, u) ELSE inst[u]]
      /\ left \subseteq Cached
  BY DEF Merged, Kept
<1>4. DOMAIN i \subseteq Uids
  <2> HIDE DEF D, left
  <2> QED
    BY <1>1, <1>2, <1>3
<1>5. RowValues'
  <2>1. inst' = i
    BY DEF ApplyImapSnapshot
  <2>2. ASSUME NEW u \in D
        PROVE  Incoming(answer, u).seen \in BOOLEAN /\ Incoming(answer, u).hidden \in BOOLEAN
    <3>1. answer.mail[u].seen \in BOOLEAN
      BY <1>1 DEF Mail
    <3>2. Overlay(u, answer.mail[u].seen) \in BOOLEAN
      BY <3>1 DEF Overlay
    <3>3. (u \in Kept(answer) /\ u \in moving /\ inst[u].hidden) \in BOOLEAN
      OBVIOUS
    <3> QED
      BY <3>1, <3>2, <3>3 DEF Incoming
  <2>3. \A u \in Cached : inst[u].seen \in BOOLEAN /\ inst[u].hidden \in BOOLEAN
    BY DEF ValueInv, RowValues
  <2> HIDE DEF D, left, i
  <2>4. ASSUME NEW u \in Cached'
        PROVE  inst'[u].seen \in BOOLEAN /\ inst'[u].hidden \in BOOLEAN
    <3>1. u \in left \cup D
      BY <1>3, <2>1 DEF Cached
    <3>2. inst'[u] = IF u \in D THEN Incoming(answer, u) ELSE inst[u]
      BY <1>3, <2>1, <3>1
    <3> QED
      BY <1>3, <2>2, <2>3, <3>1, <3>2
  <2> QED
    BY <2>4 DEF RowValues
<1>6. total' \in Nat /\ unread' \in Nat
  <2> DEFINE outside == {u \in DOMAIN i \ D : HasOp(u)}
             shown == IF answer.complete THEN {u \in outside : ~i[u].hidden} ELSE {}
             H == {u \in D : i[u].hidden}
             R == UnreadOf(i, D \cup shown)
             N == UnseenIn(answer)
             count == answer.total - Cardinality(H) + Cardinality(shown)
             new == answer.unread - Cardinality(N) + Cardinality(R)
  <2>1. IF answer.complete \/ outside = {}
          THEN total' = Max0(count) /\ unread' = Clamp(new, Max0(count))
          ELSE UNCHANGED <<total, unread>>
    BY DEF ApplyImapSnapshot, Project
  <2>2. H \subseteq Uids /\ shown \subseteq Uids /\ R \subseteq Uids /\ N \subseteq Uids
    <3> HIDE DEF i
    <3>1. shown \subseteq DOMAIN i
      OBVIOUS
    <3> HIDE DEF shown, D
    <3> QED
      BY <1>1, <1>4, <3>1 DEF UnreadOf, UnseenIn, D
  <2> HIDE DEF H, shown, R, N
  <2>3. /\ Cardinality(H) \in Nat /\ Cardinality(shown) \in Nat
        /\ Cardinality(R) \in Nat /\ Cardinality(N) \in Nat
    BY <2>2, PresentIsFinite DEF Support, IdentityInv
  <2>4. count \in Int /\ new \in Int
    BY <1>1, <2>3
  <2>5. total \in Nat /\ unread \in Nat
    BY DEF ValueInv, CountTypes
  <2> HIDE DEF count, new, outside
  <2>6. Max0(count) \in Nat
    BY <2>4, FloorsAreNat
  <2>7. Clamp(new, Max0(count)) \in Nat
    BY <2>4, <2>6, FloorsAreNat
  <2> QED
    BY <2>1, <2>5, <2>6, <2>7
<1>7. cursor' \in [validity : 0 .. MaxValidity, last : 0 .. MaxLetters]
  <2> DEFINE known == IF cursor.validity = answer.validity THEN cursor.last ELSE 0
             S == D \cup {known}
  <2>1. cursor' = [validity |-> answer.validity, last |-> Max(S)]
    BY DEF ApplyImapSnapshot
  <2>2. known \in 0 .. MaxLetters
    BY MailCacheAssumption DEF ValueInv, CountTypes
  <2>3. S \subseteq 0 .. MaxLetters /\ S # {}
    <3> HIDE DEF known, D
    <3> QED
      BY <1>1, <2>2, MailCacheAssumption DEF Uids
  <2>4. IsFiniteSet(0 .. MaxLetters)
    BY MailCacheAssumption, FS_Interval
  <2> HIDE DEF S
  <2>5. Max(S) \in S
    <3>1. S \in SUBSET (0 .. MaxLetters) /\ S \subseteq Nat
      BY <2>3
    <3>2. IsFiniteSet(S)
      BY <2>4, <3>1, FS_Subset
    <3> QED
      BY <2>3, <3>1, <3>2, MaxIsGreatest
  <2> QED
    BY <1>1, <2>1, <2>3, <2>5
<1>8. view' \in [known : BOOLEAN, uids : SUBSET Uids, unseen : SUBSET Uids]
  <2>1. \/ view' = [known |-> TRUE, uids |-> D, unseen |-> UnseenIn(answer)]
        \/ view' = [known |-> FALSE, uids |-> {}, unseen |-> {}]
    BY DEF ApplyImapSnapshot, NoView
  <2>2. D \in SUBSET Uids /\ UnseenIn(answer) \in SUBSET Uids
    BY <1>1 DEF UnseenIn
  <2>3. \E known \in BOOLEAN, U, N \in SUBSET Uids :
          view' = [known |-> known, uids |-> U, unseen |-> N]
    BY <2>1, <2>2
  <2> QED
    BY <2>3
<1>9. reader' \in Readers
  <2>1. PICK rows : Revise(rows)
    BY DEF ApplyImapSnapshot
  <2> DEFINE revised == reader.revised \/ reader.letter \in rows
  <2>2. reader' = [reader EXCEPT !.revised = revised]
    BY <2>1 DEF Revise
  <2>3. revised \in BOOLEAN
    OBVIOUS
  <2>4. reader \in Readers
    BY DEF ValueInv
  <2> HIDE DEF revised
  <2> QED
    BY <2>2, <2>3, <2>4 DEF Readers
<1> QED
  BY <1>5, <1>6, <1>7, <1>8, <1>9 DEF CountTypes

\* An index keeps the types.
LEMMA ReconcileKeepsValues ==
  ASSUME Support, ValueInv, ReconcileIndex(answer)
  PROVE  RowValues' /\ CountTypes'
<1> DEFINE D == DOMAIN answer.mail
           left == Cached \ Gone(answer)
           Row(u) == IF u \in D THEN [inst[u] EXCEPT !.seen = Overlay(u, answer.mail[u].seen)]
                                ELSE inst[u]
           i == [u \in left |-> Row(u)]
           outside == {u \in DOMAIN i \ D : ~i[u].hidden}
           inside == DOMAIN i \cap D
           H == {u \in inside : i[u].hidden}
           N == UnseenIn(answer)
           R == UnreadOf(i, DOMAIN i)
           count == Cardinality(D) + Cardinality(outside) - Cardinality(H)
           new == Cardinality(N \ inside) + Cardinality(R)
<1>1. /\ inst' = i /\ cursor' = cursor
      /\ total' = Max0(count) /\ unread' = Clamp(new, Max0(count))
      /\ view' = [known |-> TRUE, uids |-> D, unseen |-> N]
  BY DEF ReconcileIndex
<1>2. D \subseteq Uids /\ \A u \in D : answer.mail[u] \in Mail
  BY AnswerIsTyped DEF ValueInv
<1>3. left \subseteq Cached /\ Cached \subseteq Uids
  BY RowsAreTyped
<1>4. ASSUME NEW u \in left
      PROVE  Row(u).seen \in BOOLEAN /\ Row(u).hidden \in BOOLEAN
  <2>1. inst[u] = [letter |-> inst[u].letter, validity |-> inst[u].validity,
                   seen |-> inst[u].seen, hidden |-> inst[u].hidden]
    BY DEF Support, IntentInv, RowsAreRows
  <2>2. [inst[u] EXCEPT !.seen = Overlay(u, answer.mail[u].seen)] =
          [letter |-> inst[u].letter, validity |-> inst[u].validity,
           seen |-> Overlay(u, answer.mail[u].seen), hidden |-> inst[u].hidden]
    BY <2>1
  <2>3. inst[u].seen \in BOOLEAN /\ inst[u].hidden \in BOOLEAN
    BY DEF ValueInv, RowValues
  <2>4. u \in D => Overlay(u, answer.mail[u].seen) \in BOOLEAN
    BY <1>2 DEF Overlay, Mail
  <2> QED
    BY <2>2, <2>3, <2>4
<1>5. RowValues'
  <2> HIDE DEF left, Row
  <2> QED
    BY <1>1, <1>4 DEF RowValues, Cached
<1>6. total' \in Nat /\ unread' \in Nat
  <2>1. /\ DOMAIN i = left /\ outside \subseteq left /\ H \subseteq D /\ N \ inside \subseteq D
        /\ R \subseteq left
    BY DEF UnreadOf, UnseenIn
  <2> HIDE DEF i, outside, H, N, inside, R, left, D
  <2>2. /\ outside \subseteq Uids /\ H \subseteq Uids /\ N \ inside \subseteq Uids
        /\ R \subseteq Uids
    BY <1>2, <1>3, <2>1
  <2>3. /\ Cardinality(D) \in Nat /\ Cardinality(outside) \in Nat /\ Cardinality(H) \in Nat
        /\ Cardinality(N \ inside) \in Nat /\ Cardinality(R) \in Nat
    BY <1>2, <2>2, PresentIsFinite DEF Support, IdentityInv
  <2>4. count \in Int /\ new \in Int
    BY <2>3
  <2> HIDE DEF count, new
  <2>5. Max0(count) \in Nat
    BY <2>4, FloorsAreNat
  <2>6. Clamp(new, Max0(count)) \in Nat
    BY <2>4, <2>5, FloorsAreNat
  <2> QED
    BY <1>1, <2>5, <2>6
<1>7. view' \in [known : BOOLEAN, uids : SUBSET Uids, unseen : SUBSET Uids]
  <2>1. D \in SUBSET Uids /\ N \in SUBSET Uids
    BY <1>2 DEF UnseenIn
  <2>2. \E known \in BOOLEAN, U, V \in SUBSET Uids :
          view' = [known |-> known, uids |-> U, unseen |-> V]
    BY <1>1, <2>1
  <2> QED
    BY <2>2
<1> HIDE DEF D, N
<1> QED
  BY <1>1, <1>5, <1>6, <1>7 DEF CountTypes, ValueInv

\* So do the user's changes, and a refusal.
LEMMA OperationsKeepValues ==
  ASSUME Support, ValueInv, NEW u \in Uids,
         \/ OperationRefused(u) \/ HideMessage(u)
         \/ \E read \in BOOLEAN : MutateMessage(u, read)
  PROVE  RowValues' /\ CountTypes'
<1>1. /\ total \in Nat /\ unread \in Nat
      /\ cursor \in [validity : 0 .. MaxValidity, last : 0 .. MaxLetters]
      /\ view \in [known : BOOLEAN, uids : SUBSET Uids, unseen : SUBSET Uids]
  BY DEF ValueInv, CountTypes
<1>2. /\ UNCHANGED <<cursor, view>>
      /\ \/ UNCHANGED <<inst, total, unread>>
         \/ /\ u \in Cached
            /\ \E value \in BOOLEAN : \/ inst' = [inst EXCEPT ![u].seen = value]
                                     \/ inst' = [inst EXCEPT ![u].hidden = value]
            /\ total' \in {total, total + 1, Max0(total - 1)}
            /\ unread' \in {unread, unread + 1, Max0(unread - 1)}
  <2>1. CASE OperationRefused(u)
    BY <2>1 DEF OperationRefused, Restore
  <2>2. CASE HideMessage(u)
    BY <2>2 DEF HideMessage, Visible
  <2>3. CASE \E read \in BOOLEAN : MutateMessage(u, read)
    BY <2>3 DEF MutateMessage, Visible
  <2> QED
    BY <2>1, <2>2, <2>3
<1>3. CASE UNCHANGED <<inst, total, unread>>
  BY <1>1, <1>2, <1>3 DEF ValueInv, RowValues, CountTypes, Cached
<1>4. CASE ~UNCHANGED <<inst, total, unread>>
  <2>1. PICK value \in BOOLEAN : \/ inst' = [inst EXCEPT ![u].seen = value]
                                 \/ inst' = [inst EXCEPT ![u].hidden = value]
    BY <1>2, <1>4
  <2>2. u \in Cached /\ IntentInv
    BY <1>2, <1>4 DEF Support
  <2>3. /\ Cached' = Cached
        /\ \A w \in Cached : w # u => inst'[w] = inst[w]
        /\ \/ inst'[u].seen = value /\ inst'[u].hidden = inst[u].hidden
           \/ inst'[u].hidden = value /\ inst'[u].seen = inst[u].seen
    BY <2>1, <2>2, OneRowChanges
  <2>4. RowValues'
    BY <2>3 DEF ValueInv, RowValues
  <2>5. total' \in Nat /\ unread' \in Nat
    <3>1. Max0(total - 1) \in Nat /\ Max0(unread - 1) \in Nat
      BY <1>1, FloorsAreNat
    <3> QED
      BY <1>1, <1>2, <1>4, <3>1
  <2> QED
    BY <1>1, <1>2, <2>4, <2>5 DEF CountTypes
<1> QED
  BY <1>3, <1>4

\* An empty cache and an idle pass are well typed.
LEMMA ValuesInit == Init => ValueInv /\ Support
<1> SUFFICES ASSUME Init PROVE ValueInv /\ Support
  OBVIOUS
<1>1. Support
  BY IntentInit, IdentityInit, UidInit DEF Support
<1>2. /\ Cached = {} /\ cursor = [validity |-> 0, last |-> 0] /\ total = 0 /\ unread = 0
      /\ view = [known |-> FALSE, uids |-> {}, unseen |-> {}] /\ srvRead = {} /\ events = 0
      /\ body = [l \in Letters |-> 0] /\ pc = "idle"
  BY DEF Init, Cached, Empty, NoView
<1>3. RowValues /\ CountTypes /\ OtherTypes
  <2>1. 0 \in 0 .. MaxValidity /\ 0 \in 0 .. MaxLetters /\ 0 \in 0 .. MaxEvents
    BY MailCacheAssumption
  <2> QED
    BY <1>2, <2>1 DEF RowValues, CountTypes, OtherTypes
<1>4. Empty \in Mails /\ DOMAIN Empty = {} /\ NoAnswer \in Answers /\ NoPlan \in Plans
      /\ NoReader \in Readers
  <2>1. DOMAIN Empty = {} /\ Empty \in [{} -> Mail]
    BY DEF Empty
  <2>2. Empty \in Mails
    BY <2>1 DEF Mails
  <2>3. 0 \in 0 .. MaxValidity /\ 0 \in 0 .. MaxLetters
    BY MailCacheAssumption
  <2> QED
    BY <2>1, <2>2, <2>3 DEF Mails, NoAnswer, Answers, NoPlan, Plans, NoReader, Readers
<1>5. PassTypes /\ reader \in Readers
  BY <1>4 DEF Init, PassTypes, PassState, NoAnswer
<1> QED
  BY <1>1, <1>3, <1>5 DEF ValueInv

\* The numbers a pass plans with.
LEMMA PlanChanges ==
  ASSUME NEW p \in Plans
  PROVE  /\ NoPlan \in Plans
         /\ \A n \in Nat : [p EXCEPT !.page = n] \in Plans /\ [p EXCEPT !.remote = n] \in Plans
         /\ \A n \in 0 .. MaxLetters : /\ [p EXCEPT !.since = n] \in Plans
                                       /\ [p EXCEPT !.before = n] \in Plans
         /\ \A v \in 0 .. MaxValidity : [p EXCEPT !.expect = v] \in Plans
         /\ \A forward \in BOOLEAN : [p EXCEPT !.forward = forward] \in Plans
         /\ p.page \in Nat /\ p.since \in 0 .. MaxLetters /\ p.before \in 0 .. MaxLetters
         /\ p.mode \in {"full", "quick"} /\ p.expect \in 0 .. MaxValidity
         /\ p.remote \in Nat
<1>1. 0 \in 0 .. MaxLetters /\ 0 \in 0 .. MaxValidity
  BY MailCacheAssumption
<1> QED
  BY <1>1 DEF Plans, NoPlan

\* An answer put together of typed parts.
LEMMA AnswerParts ==
  ASSUME NEW v \in 0 .. MaxValidity, NEW count \in Nat, NEW new \in Nat,
         NEW complete \in BOOLEAN, NEW mail \in Mails, DOMAIN mail \subseteq Uids,
         answer' = [validity |-> v, total |-> count, unread |-> new, complete |-> complete,
                    mail |-> mail]
  PROVE  DOMAIN answer'.mail \subseteq Uids /\ answer' \in Answers
BY DEF Answers, Mails

\* Having no answer is an answer too.
LEMMA NoAnswerIsTyped == NoAnswer \in Answers /\ DOMAIN NoAnswer.mail = {} /\ Empty \in Mails
                         /\ DOMAIN Empty = {}
<1>1. DOMAIN Empty = {} /\ Empty \in [{} -> Mail]
  BY DEF Empty
<1>2. Empty \in Mails
  BY <1>1 DEF Mails
<1>3. 0 \in 0 .. MaxValidity
  BY MailCacheAssumption
<1> QED
  BY <1>1, <1>2, <1>3 DEF Mails, NoAnswer, Answers

\* Of an answer with mail, the largest UID.
LEMMA LastOfAnswer ==
  ASSUME NEW D, D \subseteq Uids, D # {}
  PROVE  Max(D) \in D /\ Max(D) \in Uids /\ \A d \in D : d <= Max(D)
<1>1. D \subseteq Nat /\ IsFiniteSet(D)
  <2>1. IsFiniteSet(Uids) /\ Uids \subseteq Nat /\ D \in SUBSET Uids
    BY MailCacheAssumption, FS_Interval DEF Uids
  <2> QED
    BY <2>1, FS_Subset
<1>2. Max(D) \in D /\ \A d \in D : Max(D) >= d
  BY <1>1, MaxIsGreatest
<1> QED
  BY <1>1, <1>2

\* The steps of a pass that read.
LEMMA ReadsAreTyped ==
  ASSUME Support, PassTypes,
         Examine \/ SearchAndFetch \/ FetchMailboxIndex \/ FetchHistoryPage
  PROVE  PassTypes'
<1> USE DEF Goto, PassEnds
<1>1. plan \in Plans /\ ServerInv /\ UidInv /\ 0 \in 0 .. MaxLetters
  BY MailCacheAssumption DEF PassTypes, Support, IdentityInv
<1>2. /\ validity \in 0 .. MaxValidity /\ Cardinality(Present) \in Nat
      /\ Cardinality(Unseen) \in Nat /\ 0 \in Nat /\ TRUE \in BOOLEAN /\ FALSE \in BOOLEAN
  BY <1>1, PresentIsFinite, MailCacheAssumption DEF ServerInv, Validities
<1>3. /\ answer.validity \in 0 .. MaxValidity /\ answer.total \in Nat /\ answer.unread \in Nat
      /\ answer.complete \in BOOLEAN
      /\ answer = [validity |-> answer.validity, total |-> answer.total,
                   unread |-> answer.unread, complete |-> answer.complete,
                   mail |-> answer.mail]
  BY AnswerIsTyped DEF Support, IdentityInv, AnswerInv
<1>4. CASE pc' = "idle" /\ plan' = NoPlan /\ answer' = NoAnswer
  BY <1>1, <1>4, PlanChanges, NoAnswerIsTyped DEF PassTypes, PassState
<1>5. CASE Examine
  <2>1. answer' = [validity |-> validity, total |-> Cardinality(Present),
                   unread |-> Cardinality(Unseen), complete |-> FALSE, mail |-> Empty]
    BY <1>5 DEF Examine, NoAnswer
  <2>2. DOMAIN answer'.mail \subseteq Uids /\ answer' \in Answers
    BY <1>2, <2>1, AnswerParts, NoAnswerIsTyped
  <2>3. plan' = plan /\ pc' \in {"search", "older"}
    BY <1>5 DEF Examine
  <2> QED
    BY <1>1, <2>2, <2>3 DEF PassTypes, PassState
<1>6. CASE SearchAndFetch
  <2>1. CASE pc' = "examine" /\ answer' = NoAnswer /\ plan' = [plan EXCEPT !.since = 0]
    BY <1>1, <2>1, PlanChanges, NoAnswerIsTyped DEF PassTypes, PassState
  <2>2. CASE ~(plan.expect \notin {0, validity} /\ plan.since # 0)
    <3> DEFINE full == plan.since = 0 /\ Cardinality(Present) <= PageSize
               U == ForwardPage(plan.since)
    <3>1. /\ pc' = "received" /\ plan' = plan
          /\ answer' = [answer EXCEPT !.complete = full, !.mail = MailAt(U)]
      BY <1>6, <2>2 DEF SearchAndFetch
    <3>2. U \subseteq Present /\ full \in BOOLEAN
      BY DEF ForwardPage, Newest, Oldest
    <3> HIDE DEF U, full
    <3>3. MailAt(U) \in Mails /\ DOMAIN MailAt(U) \subseteq Uids
      BY <1>1, <3>2, MailIsTyped
    <3>4. answer' = [validity |-> answer.validity, total |-> answer.total,
                     unread |-> answer.unread, complete |-> full, mail |-> MailAt(U)]
      BY <1>3, <3>1
    <3>5. DOMAIN answer'.mail \subseteq Uids /\ answer' \in Answers
      BY <1>3, <3>2, <3>3, <3>4, AnswerParts
    <3> QED
      BY <1>1, <3>1, <3>5 DEF PassTypes, PassState
  <2> QED
    BY <1>6, <2>1, <2>2 DEF SearchAndFetch
<1>7. CASE FetchMailboxIndex
  <2>1. CASE validity = plan.expect
    <3>1. pc' = "indexed" /\ plan' = plan
      BY <1>7, <2>1 DEF FetchMailboxIndex
    <3>2. answer' = [validity |-> validity, total |-> Cardinality(Present), unread |-> 0,
                     complete |-> FALSE, mail |-> MailAt(Present)]
      BY <1>7, <2>1 DEF FetchMailboxIndex, NoAnswer
    <3>3. MailAt(Present) \in Mails /\ DOMAIN MailAt(Present) \subseteq Uids
      BY <1>1, MailIsTyped
    <3>4. DOMAIN answer'.mail \subseteq Uids /\ answer' \in Answers
      BY <1>2, <3>2, <3>3, AnswerParts
    <3> QED
      BY <1>1, <3>1, <3>4 DEF PassTypes, PassState
  <2> QED
    BY <1>4, <1>7, <2>1 DEF FetchMailboxIndex
<1>8. CASE FetchHistoryPage
  <2>1. CASE validity = plan.expect
    <3> DEFINE U == Newest({u \in Present : u < plan.before}, PageSize)
    <3>1. pc' = "olderReceived" /\ plan' = plan /\ answer' = [answer EXCEPT !.mail = MailAt(U)]
      BY <1>8, <2>1 DEF FetchHistoryPage
    <3>2. U \subseteq Present
      BY DEF Newest
    <3> HIDE DEF U
    <3>3. MailAt(U) \in Mails /\ DOMAIN MailAt(U) \subseteq Uids
      BY <1>1, <3>2, MailIsTyped
    <3>4. answer' = [validity |-> answer.validity, total |-> answer.total,
                     unread |-> answer.unread, complete |-> answer.complete,
                     mail |-> MailAt(U)]
      BY <1>3, <3>1
    <3>5. DOMAIN answer'.mail \subseteq Uids /\ answer' \in Answers
      BY <1>3, <3>3, <3>4, AnswerParts
    <3> QED
      BY <1>1, <3>1, <3>5 DEF PassTypes, PassState
  <2> QED
    BY <1>4, <1>8, <2>1 DEF FetchHistoryPage
<1> QED
  BY <1>5, <1>6, <1>7, <1>8

\* The steps of a pass that write, and those that only move on.
LEMMA PassStepsAreTyped ==
  ASSUME Support, ValueInv,
         \/ SkipQuietFolder \/ ReconcileMailboxIndex \/ FlushDone \/ LoadWindow
         \/ ApplyHistoryPage \/ PassFails \/ PassStops
         \/ \E withBodies \in BOOLEAN : ApplyForwardPage(withBodies)
         \/ \E mode \in {"full", "quick"} : StartPass(mode)
         \/ \E u \in Uids : OperationRefused(u)
  PROVE  PassTypes'
<1> USE DEF Goto, PassEnds
<1>1. /\ plan \in Plans /\ 0 \in 0 .. MaxLetters /\ 0 \in Nat /\ 0 \in 0 .. MaxValidity
      /\ pc \in PassState /\ DOMAIN answer.mail \subseteq Uids /\ answer \in Answers
  BY MailCacheAssumption DEF ValueInv, PassTypes
<1>2. /\ answer.total \in Nat /\ answer.validity \in 0 .. MaxValidity
      /\ DOMAIN answer.mail \subseteq Uids
  BY AnswerIsTyped DEF ValueInv
<1>3. ASSUME plan' \in Plans, pc' \in PassState, answer' = NoAnswer \/ UNCHANGED answer
      PROVE  PassTypes'
  BY <1>1, <1>3, NoAnswerIsTyped DEF PassTypes
<1>4. CASE pc' = "idle" /\ plan' = NoPlan /\ answer' = NoAnswer
  BY <1>1, <1>3, <1>4, PlanChanges DEF PassState
<1>5. CASE SkipQuietFolder
  BY <1>1, <1>3, <1>5 DEF SkipQuietFolder, PassState
<1>6. CASE ReconcileMailboxIndex
  <2>1. CASE IdentityChanged(answer)
    BY <1>4, <1>6, <2>1 DEF ReconcileMailboxIndex
  <2>2. CASE ~IdentityChanged(answer)
    <3>1. plan' = [plan EXCEPT !.remote = answer.total] /\ answer' = NoAnswer /\ pc' = "flush"
      BY <1>6, <2>2 DEF ReconcileMailboxIndex
    <3>2. plan' \in Plans
      BY <1>1, <1>2, <3>1, PlanChanges
    <3> QED
      BY <1>3, <3>1, <3>2 DEF PassState
  <2> QED
    BY <2>1, <2>2
<1>7. CASE FlushDone
  <2>1. CASE pc' = "window" /\ UNCHANGED answer /\ plan' = [plan EXCEPT !.page = 0]
    BY <1>1, <1>3, <2>1, PlanChanges DEF PassState
  <2> QED
    BY <1>4, <1>7, <2>1 DEF FlushDone
<1>8. CASE LoadWindow
  <2>1. CASE pc' = "history" /\ UNCHANGED answer /\ plan' = [plan EXCEPT !.before = BackfillBefore]
    <3>1. BackfillBefore \in 0 .. MaxLetters
      <4>1. WindowUids \subseteq Uids
        BY RowsAreTyped DEF WindowUids, Visible
      <4>2. WindowUids # {} => Min(WindowUids) \in Uids
        <5>1. Uids \subseteq Nat
          BY DEF Uids
        <5> HIDE DEF Uids
        <5> QED
          BY <4>1, <5>1, MinIsLeast
      <4> QED
        BY <1>1, <4>2 DEF BackfillBefore, Uids
    <3>2. plan' \in Plans
      BY <1>1, <2>1, <3>1, PlanChanges
    <3> QED
      BY <1>3, <2>1, <3>2 DEF PassState
  <2> QED
    BY <1>4, <1>8, <2>1 DEF LoadWindow
<1>9. CASE ApplyHistoryPage
  <2>1. CASE /\ pc' = "window" /\ answer' = NoAnswer
             /\ plan' = [plan EXCEPT !.page = @ + 1, !.before = 0, !.remote = answer.total]
    <3> DEFINE p == [plan EXCEPT !.page = @ + 1]
               q == [p EXCEPT !.before = 0]
    <3>1. plan' \in Plans
      <4>1. plan.page + 1 \in Nat
        BY <1>1, PlanChanges
      <4>2. p \in Plans
        BY <1>1, <4>1, PlanChanges
      <4> HIDE DEF p
      <4>3. q \in Plans
        BY <1>1, <4>2, PlanChanges
      <4>4. plan' = [q EXCEPT !.remote = answer.total]
        BY <2>1 DEF p
      <4> HIDE DEF q
      <4> QED
        BY <1>2, <4>3, <4>4, PlanChanges
    <3> QED
      BY <1>3, <2>1, <3>1 DEF PassState
  <2> QED
    BY <1>4, <1>9, <2>1 DEF ApplyHistoryPage
<1>10. ASSUME NEW withBodies \in BOOLEAN, ApplyForwardPage(withBodies)
       PROVE  PassTypes'
  <2> DEFINE limited == HasFollowUp /\ plan.page + 1 >= ForwardPages
             again == HasFollowUp /\ ~limited
             page == IF again THEN plan.page + 1 ELSE 0
             since == IF again THEN Max(DOMAIN answer.mail) ELSE 0
  <2>1. /\ plan' = [plan EXCEPT !.page = page, !.since = since, !.expect = answer.validity,
                                !.remote = answer.total, !.forward = limited]
        /\ pc' \in {"examine", "flush", "index"} /\ answer' = NoAnswer
    BY <1>10 DEF ApplyForwardPage
  <2>2. again => Max(DOMAIN answer.mail) \in 0 .. MaxLetters
    <3>1. again => DOMAIN answer.mail # {}
      <4>1. Cardinality({}) = 0
        BY FS_EmptySet
      <4> QED
        BY <4>1, MailCacheAssumption DEF HasFollowUp
    <3>2. Uids \subseteq 0 .. MaxLetters
      BY DEF Uids
    <3> HIDE DEF again
    <3> QED
      BY <1>2, <3>1, <3>2, LastOfAnswer
  <2>3. page \in Nat /\ since \in 0 .. MaxLetters /\ limited \in BOOLEAN
    BY <1>1, <2>2, PlanChanges
  <2> HIDE DEF page, since, limited, again
  <2> DEFINE p == [plan EXCEPT !.page = page, !.since = since]
             q == [p EXCEPT !.expect = answer.validity]
             s == [q EXCEPT !.remote = answer.total]
  <2>4. plan' \in Plans
    <3>1. [plan EXCEPT !.page = page] \in Plans
      BY <1>1, <2>3, PlanChanges
    <3>2. p \in Plans
      BY <2>3, <3>1, PlanChanges
    <3>3. plan' = [s EXCEPT !.forward = limited]
      BY <2>1
    <3> HIDE DEF p
    <3>4. q \in Plans
      BY <1>2, <3>2, PlanChanges
    <3> HIDE DEF q
    <3>5. s \in Plans
      BY <1>2, <3>4, PlanChanges
    <3> HIDE DEF s
    <3> QED
      BY <2>3, <3>3, <3>5, PlanChanges
  <2> QED
    BY <1>3, <2>1, <2>4 DEF PassState
<1>11. ASSUME NEW mode \in {"full", "quick"}, StartPass(mode)
       PROVE  PassTypes'
  <2> DEFINE t == IF mode = "quick" THEN total ELSE 0
             r == IF mode = "quick" THEN unread ELSE 0
  <2>1. /\ pc' = "examine" /\ answer' = answer
        /\ plan' = [NoPlan EXCEPT !.mode = mode, !.expect = cursor.validity,
                                  !.since = cursor.last, !.knownTotal = t, !.knownUnread = r]
    BY <1>11 DEF StartPass
  <2>2. t \in Nat /\ r \in Nat /\ cursor.validity \in 0 .. MaxValidity /\ cursor.last \in 0 .. MaxLetters
    BY DEF ValueInv, CountTypes
  <2> HIDE DEF t, r
  <2>3. plan' \in Plans
    BY <1>1, <2>1, <2>2 DEF Plans, NoPlan
  <2> QED
    BY <1>3, <2>1, <2>3 DEF PassState
<1>12. CASE PassFails \/ PassStops \/ \E u \in Uids : OperationRefused(u)
  BY <1>4, <1>12 DEF PassFails, PassStops, OperationRefused
<1> QED
  BY <1>5, <1>6, <1>7, <1>8, <1>9, <1>10, <1>11, <1>12

\* The fetch of a text asks for a row of the cache.
LEMMA ReaderIsTyped ==
  ASSUME Support, ValueInv, Reading \/ ClearCache \/ \E u \in Uids : OpenMessage(u)
  PROVE  reader' \in Readers
<1>1. reader \in Readers /\ 0 \in 0 .. MaxLetters /\ ServerInv /\ UidInv
  BY MailCacheAssumption DEF ValueInv, Support, IdentityInv
<1>2. NoReader \in Readers
  BY <1>1, MailCacheAssumption DEF Readers, NoReader
<1>3. CASE reader' = NoReader
  BY <1>2, <1>3
<1>4. CASE BodyFetched
  <2>1. reader.uid \in Present => LetterAt(reader.uid) \in 0 .. MaxLetters
    BY <1>1, PresentIsFinite, BorneIsTyped DEF Letters
  <2> QED
    BY <1>1, <1>2, <1>4, <2>1 DEF BodyFetched, Readers
<1>5. CASE ClearCache
  BY <1>1, <1>5 DEF ClearCache, Readers
<1>6. ASSUME NEW u \in Uids, OpenMessage(u)
      PROVE  reader' \in Readers
  <2>1. /\ reader' = [uid |-> u, letter |-> inst[u].letter, validity |-> inst[u].validity,
                      got |-> 0, revised |-> FALSE, cleared |-> FALSE]
        /\ u \in Cached
    BY <1>6 DEF OpenMessage, NoReader, Visible
  <2>2. inst[u] \in Instance
    BY <2>1, RowsAreTyped DEF ValueInv
  <2>3. u \in 0 .. MaxLetters /\ inst[u].letter \in 0 .. MaxLetters /\ inst[u].validity \in 0 .. MaxValidity
    BY <2>2 DEF Instance, Letters, Validities, Uids
  <2> QED
    BY <1>1, <2>1, <2>3 DEF Readers
<1> QED
  BY <1>3, <1>4, <1>5, <1>6 DEF Reading, BodyFetchFails, StoreHydratedBody

\* Rows, cursor and counters.
LEMMA RowsStayTyped ==
  ASSUME Support, ValueInv, [Next]_vars
  PROVE  RowValues' /\ CountTypes'
<1>1. CASE UNCHANGED cacheVars
  <2>1. UNCHANGED <<inst, cursor, total, unread, view>>
    BY <1>1 DEF cacheVars, countVars
  <2> QED
    BY <2>1 DEF ValueInv, RowValues, CountTypes, Cached
<1>2. CASE UNCHANGED vars \/ Server \/ Reading
  BY <1>1, <1>2
     DEF vars, Server, Arrive, Renumber, ElsewhereExpunged, ElsewhereMarked, Untouched,
         Reading, BodyFetched, BodyFetchFails, StoreHydratedBody, ReaderOnly
<1>3. CASE User
  BY <1>1, <1>3, OperationsKeepValues DEF User, ClearCache, OpenMessage
<1>4. CASE PassStops \/ \E mode \in {"full", "quick"} : StartPass(mode)
  BY <1>1, <1>4 DEF PassStops, StartPass, CacheKept
<1>5. CASE PassStep
  <2>1. CASE ApplyHistoryPage \/ \E withBodies \in BOOLEAN : ApplyForwardPage(withBodies)
    BY <2>1, ApplyKeepsValues DEF ApplyHistoryPage, ApplyForwardPage
  <2>2. CASE ReconcileMailboxIndex
    BY <1>1, <2>2, ReconcileKeepsValues DEF ReconcileMailboxIndex
  <2>3. ASSUME NEW u \in Uids, UploadFlags(u) \/ UploadMove(u) \/ OperationRefused(u)
        PROVE  RowValues' /\ CountTypes'
    BY <1>1, <2>3, OperationsKeepValues DEF UploadFlags, UploadMove
  <2>4. CASE \/ Examine \/ SearchAndFetch \/ SkipQuietFolder \/ FetchMailboxIndex
             \/ FlushDone \/ LoadWindow \/ FetchHistoryPage \/ PassFails
    BY <1>1, <2>4 DEF Examine, SearchAndFetch, SkipQuietFolder, FetchMailboxIndex, FlushDone,
                      LoadWindow, FetchHistoryPage, PassFails, CacheKept
  <2> QED
    BY <1>5, <2>1, <2>2, <2>3, <2>4 DEF PassStep
<1> QED
  BY <1>2, <1>3, <1>4, <1>5 DEF Next

\* The pass.
LEMMA PassStaysTyped ==
  ASSUME Support, ValueInv, [Next]_vars
  PROVE  PassTypes'
<1>1. CASE UNCHANGED passVars
  BY <1>1 DEF passVars, ValueInv, PassTypes
<1>2. CASE UNCHANGED vars \/ Server \/ Reading \/ User
  BY <1>1, <1>2
     DEF vars, Server, Arrive, Renumber, ElsewhereExpunged, ElsewhereMarked, Untouched,
         Reading, BodyFetched, BodyFetchFails, StoreHydratedBody, ReaderOnly,
         User, ClearCache, OpenMessage, MutateMessage, HideMessage
<1>3. CASE \E u \in Uids : UploadFlags(u) \/ UploadMove(u)
  BY <1>1, <1>3 DEF UploadFlags, UploadMove
<1>4. CASE PassStops \/ PassStep \/ \E mode \in {"full", "quick"} : StartPass(mode)
  BY <1>3, <1>4, ReadsAreTyped, PassStepsAreTyped DEF PassStep, ValueInv
<1> QED
  BY <1>2, <1>4 DEF Next

\* Fetches on demand.
LEMMA ReaderStaysTyped ==
  ASSUME Support, ValueInv, [Next]_vars
  PROVE  reader' \in Readers
<1>1. CASE UNCHANGED reader
  BY <1>1 DEF ValueInv
<1>2. CASE UNCHANGED vars \/ Server
  BY <1>1, <1>2
     DEF vars, Server, Arrive, Renumber, ElsewhereExpunged, ElsewhereMarked, Untouched
<1>3. CASE User \/ Reading
  BY <1>1, <1>3, ReaderIsTyped DEF User, MutateMessage, HideMessage
<1>4. CASE ApplyHistoryPage \/ \E withBodies \in BOOLEAN : ApplyForwardPage(withBodies)
  BY <1>4, ApplyKeepsValues DEF ApplyHistoryPage, ApplyForwardPage
<1>5. CASE PassStops \/ PassStep \/ \E mode \in {"full", "quick"} : StartPass(mode)
  BY <1>1, <1>4, <1>5
     DEF PassStep, PassStops, StartPass, Examine, SearchAndFetch, SkipQuietFolder,
         FetchMailboxIndex, ReconcileMailboxIndex, UploadFlags, UploadMove, OperationRefused,
         FlushDone, LoadWindow, FetchHistoryPage, PassFails, CacheKept
<1> QED
  BY <1>2, <1>3, <1>5 DEF Next

\* Letters read on the server, texts, and the bound of the events.
LEMMA OthersStayTyped ==
  ASSUME Support, ValueInv, [Next]_vars, Support'
  PROVE  OtherTypes'
<1>1. events' \in 0 .. MaxEvents
  <2>1. events' = events \/ Event
    BY DEF Next, vars, Server, Arrive, Renumber, ElsewhereExpunged, ElsewhereMarked,
           User, MutateMessage, HideMessage, ClearCache, OpenMessage, Reading, BodyFetched,
           BodyFetchFails, StoreHydratedBody, ReaderOnly, PassStep, PassStops, StartPass,
           Examine, SearchAndFetch, SkipQuietFolder, ApplyForwardPage, FetchMailboxIndex,
           ReconcileMailboxIndex, UploadFlags, UploadMove, OperationRefused, FlushDone,
           LoadWindow, FetchHistoryPage, ApplyHistoryPage, PassFails, Rest
  <2> QED
    BY <2>1, MailCacheAssumption DEF Event, ValueInv, OtherTypes
<1>2. srvRead' \subseteq 1 .. arrived'
  <2>1. srvRead \subseteq 1 .. arrived /\ arrived \in Nat /\ box \subseteq 1 .. arrived
    BY DEF ValueInv, OtherTypes, Support, IdentityInv, ServerInv
  <2>2. CASE srvRead' = srvRead /\ arrived' \in {arrived, arrived + 1}
    BY <2>1, <2>2
  <2>3. ASSUME NEW l \in box, ElsewhereMarked(l)
        PROVE  srvRead' \subseteq 1 .. arrived'
    BY <2>1, <2>3 DEF ElsewhereMarked
  <2>4. ASSUME NEW u \in Uids, UploadFlags(u)
        PROVE  srvRead' \subseteq 1 .. arrived'
    <3>1. u \in Present => LetterAt(u) \in box
      BY PresentIsFinite DEF Support, IdentityInv
    <3> QED
      BY <2>1, <2>4, <3>1 DEF UploadFlags
  <2>5. \/ srvRead' = srvRead /\ arrived' \in {arrived, arrived + 1}
        \/ \E l \in box : ElsewhereMarked(l)
        \/ \E u \in Uids : UploadFlags(u)
    BY DEF Next, vars, serverVars, Server, Arrive, Renumber, ElsewhereExpunged,
           User, MutateMessage, HideMessage, ClearCache, OpenMessage, Reading, BodyFetched,
           BodyFetchFails, StoreHydratedBody, ReaderOnly, PassStep, PassStops, StartPass,
           Examine, SearchAndFetch, SkipQuietFolder, ApplyForwardPage, FetchMailboxIndex,
           ReconcileMailboxIndex, UploadMove, OperationRefused, FlushDone,
           LoadWindow, FetchHistoryPage, ApplyHistoryPage, PassFails, Rest
  <2> QED
    BY <2>2, <2>3, <2>4, <2>5
<1>3. body' \in [Letters -> 0 .. MaxLetters]
  <2>1. [GenuineBodies]_vars
    BY IdentityStep DEF Support
  <2>2. body \in [Letters -> 0 .. MaxLetters] /\ Letters \subseteq 0 .. MaxLetters
        /\ 0 \in 0 .. MaxLetters
    BY MailCacheAssumption DEF ValueInv, OtherTypes, Letters
  <2>3. \A l \in Letters : body'[l] \in {0, l, body[l]}
    BY <2>1 DEF GenuineBodies, vars
  <2>4. body' = [l \in Letters |-> body'[l]]
    BY DEF Support, IdentityInv
  <2>5. \A l \in Letters : body'[l] \in 0 .. MaxLetters
    BY <2>2, <2>3
  <2> QED
    BY <2>4, <2>5
<1> QED
  BY <1>1, <1>2, <1>3 DEF OtherTypes

\* The UIDs of the folder change with the server's steps alone.
LEMMA UidStep ==
  ASSUME ServerInv, UidInv, [Next]_vars
  PROVE  /\ UidInv'
         /\ \/ validity' = validity + 1
            \/ /\ validity' = validity
               /\ \A u \in Present' \ Present :
                    u \in Nat \ {0} /\ \A l, w : Bears(l, validity, w) => w < u
<1>1. CASE Server
  BY <1>1, ServerKeepsUids
<1>2. CASE UNCHANGED <<validity, uid>> /\ box' \subseteq box
  BY <1>2 DEF UidInv, Present
<1>3. ~Server => UNCHANGED <<validity, uid>> /\ box' \subseteq box
  BY DEF Next, vars, serverVars, User, MutateMessage, HideMessage, ClearCache, OpenMessage,
         Reading, BodyFetched, BodyFetchFails, StoreHydratedBody, ReaderOnly, PassStep,
         PassStops, StartPass, Examine, SearchAndFetch, SkipQuietFolder, ApplyForwardPage,
         FetchMailboxIndex, ReconcileMailboxIndex, UploadFlags, UploadMove, OperationRefused,
         FlushDone, LoadWindow, FetchHistoryPage, ApplyHistoryPage, PassFails, Rest
<1> QED
  BY <1>1, <1>2, <1>3

\* The inductive invariant of the types: with those of the rows and of the server.
THEOREM ValueInvHolds == Spec => [](Support /\ ValueInv)
<1>1. Support /\ ValueInv /\ [Next]_vars => (Support /\ ValueInv)'
  <2> SUFFICES ASSUME Support, ValueInv, [Next]_vars PROVE Support' /\ ValueInv'
    OBVIOUS
  <2>1. Support'
    BY IntentStep, IdentityStep, UidStep DEF Support, IdentityInv
  <2>2. RowValues' /\ CountTypes' /\ PassTypes' /\ reader' \in Readers /\ OtherTypes'
    BY <2>1, RowsStayTyped, PassStaysTyped, ReaderStaysTyped, OthersStayTyped
  <2> QED
    BY <2>1, <2>2 DEF ValueInv
<1> QED
  BY <1>1, ValuesInit, PTL DEF Spec

\* Every variable has its type.
THEOREM TypesHold == Spec => []TypeOK
<1>1. Support /\ ValueInv => TypeOK
  BY TypesJoin
<1> QED
  BY <1>1, ValueInvHolds, PTL

-----------------------------------------------------------------------------
(***************************************************************************)
(* The counters.                                                           *)
(***************************************************************************)

\* Counting the UIDs of a set, of its part and of a set without one of its members.
LEMMA CountsOfUids ==
  ASSUME NEW S, S \subseteq Uids
  PROVE  /\ IsFiniteSet(S) /\ Cardinality(S) \in Nat
         /\ \A u : Cardinality(S \cup {u}) = IF u \in S THEN Cardinality(S) ELSE Cardinality(S) + 1
         /\ \A u : Cardinality(S \ {u}) = IF u \in S THEN Cardinality(S) - 1 ELSE Cardinality(S)
         /\ \A u \in S : Cardinality(S) - 1 \in Nat
         /\ \A T : T \subseteq S => Cardinality(T) <= Cardinality(S) /\ Cardinality(T) \in Nat
                                    /\ Cardinality(S \ T) = Cardinality(S) - Cardinality(T)
         /\ \A T : T \subseteq Uids /\ S \cap T = {} =>
              Cardinality(S \cup T) = Cardinality(S) + Cardinality(T)
<1>1. IsFiniteSet(Uids)
  BY MailCacheAssumption, FS_Interval DEF Uids
<1>2. \A T : T \subseteq Uids => IsFiniteSet(T) /\ Cardinality(T) \in Nat
  BY <1>1, FS_Subset, FS_CardinalityType
<1>3. ASSUME NEW u
      PROVE  /\ Cardinality(S \cup {u}) = IF u \in S THEN Cardinality(S) ELSE Cardinality(S) + 1
             /\ Cardinality(S \ {u}) = IF u \in S THEN Cardinality(S) - 1 ELSE Cardinality(S)
  BY <1>2, FS_AddElement, FS_RemoveElement
<1>4. ASSUME NEW u \in S PROVE Cardinality(S) - 1 \in Nat
  <2>1. S \ {u} \subseteq Uids
    OBVIOUS
  <2> QED
    BY <1>2, <1>3, <2>1
<1>5. ASSUME NEW T, T \subseteq S
      PROVE  /\ Cardinality(T) <= Cardinality(S) /\ Cardinality(T) \in Nat
             /\ Cardinality(S \ T) = Cardinality(S) - Cardinality(T)
  <2>1. S \cap T = T /\ T \subseteq Uids
    BY <1>5
  <2>2. Cardinality(S \ T) = Cardinality(S) - Cardinality(S \cap T)
    BY <1>2, FS_Difference
  <2>3. Cardinality(T) <= Cardinality(S)
    BY <1>2, <1>5, FS_Subset
  <2> QED
    BY <1>2, <2>1, <2>2, <2>3
<1>6. ASSUME NEW T, T \subseteq Uids, S \cap T = {}
      PROVE  Cardinality(S \cup T) = Cardinality(S) + Cardinality(T)
  <2>1. Cardinality(S \cup T) = Cardinality(S) + Cardinality(T) - Cardinality(S \cap T)
    BY <1>2, <1>6, FS_Union
  <2>2. Cardinality(S \cap T) = 0
    BY <1>6, FS_EmptySet
  <2> QED
    BY <1>2, <1>6, <2>1, <2>2
<1> QED
  BY <1>2, <1>3, <1>4, <1>5, <1>6

\* A complete and coherent snapshot: what it lists less the rows that are hidden, and the
\* rows beside it that wait for upload.
LEMMA ApplyCounts ==
  ASSUME Support, ValueInv, NEW withBodies, IsConsistent(answer),
         ApplyImapSnapshot(answer, withBodies)
  PROVE  CountersAreExact'
<1> SUFFICES ASSUME view'.known PROVE CountersAreExact'
  BY DEF CountersAreExact
<1> DEFINE D == DOMAIN answer.mail
           i == Merged(answer)
           left == Kept(answer) \ Stale(answer)
           outside == {u \in DOMAIN i \ D : HasOp(u)}
           shown == {u \in outside : ~i[u].hidden}
           H == {u \in D : i[u].hidden}
           N == UnseenIn(answer)
           R == UnreadOf(i, D \cup shown)
           count == answer.total - Cardinality(H) + Cardinality(shown)
           new == answer.unread - Cardinality(N) + Cardinality(R)
<1>1. /\ answer.complete /\ answer.unread = Cardinality(N)
      /\ view' = [known |-> TRUE, uids |-> D, unseen |-> N]
      /\ answer.total = Cardinality(D)
  BY DEF ApplyImapSnapshot, NoView, IsConsistent
<1>2. total' = Max0(count) /\ unread' = Clamp(new, Max0(count)) /\ inst' = i
  BY <1>1 DEF ApplyImapSnapshot, Project
<1>3. /\ i = [u \in left \cup D |-> IF u \in D THEN Incoming(answer, u) ELSE inst[u]]
      /\ left = {u \in Kept(answer) : u \in D \/ HasOp(u)}
  BY <1>1 DEF Merged, Stale
<1>4. D \subseteq Uids /\ Cached \subseteq Uids /\ left \subseteq Cached
  BY AnswerIsTyped, RowsAreTyped DEF ValueInv, Kept
<1>5. /\ DOMAIN i = left \cup D /\ outside = (left \cup D) \ D
  <2> HIDE DEF D
  <2> QED
    BY <1>3
<1>6. Cached' = left \cup D
  BY <1>2, <1>5 DEF Cached
<1>7. Visible' = (D \ H) \cup shown /\ (D \ H) \cap shown = {} /\ H \subseteq D
  <2>1. Visible' = {u \in left \cup D : ~i[u].hidden}
    BY <1>2, <1>6 DEF Visible
  <2> HIDE DEF i, left, D
  <2> QED
    BY <1>5, <2>1
<1>8. UnreadOf(inst', Cached') = R /\ R \subseteq Visible'
  <2>1. R = {u \in D \cup shown : ~i[u].hidden /\ ~i[u].seen}
    BY DEF UnreadOf
  <2>2. UnreadOf(inst', Cached') = {u \in left \cup D : ~i[u].hidden /\ ~i[u].seen}
    BY <1>2, <1>6 DEF UnreadOf
  <2> HIDE DEF i, left, D, R
  <2> QED
    BY <1>5, <1>7, <2>1, <2>2
<1>9. /\ (view'.uids \ Cached') \cup Visible' = Visible'
      /\ (view'.unseen \ Cached') \cup UnreadOf(inst', Cached') = R
  <2>1. N \subseteq D
    BY DEF UnseenIn
  <2> HIDE DEF i, left, D, R, N
  <2> QED
    BY <1>1, <1>6, <1>8, <2>1
<1>10. shown \subseteq Uids /\ Visible' \subseteq Uids
  <2> HIDE DEF i, left, D
  <2> QED
    BY <1>4, <1>5, <1>7
<1> HIDE DEF i, left, D, outside, shown, H, R, N
<1>11. count = Cardinality(Visible') /\ count \in Nat
  <2>1. Cardinality(D \ H) = Cardinality(D) - Cardinality(H) /\ Cardinality(H) \in Nat
        /\ Cardinality(D) \in Nat
    BY <1>4, <1>7, CountsOfUids
  <2>2. Cardinality((D \ H) \cup shown) = Cardinality(D \ H) + Cardinality(shown)
    BY <1>4, <1>7, <1>10, CountsOfUids
  <2>3. Cardinality(shown) \in Nat /\ Cardinality(Visible') \in Nat
    BY <1>10, CountsOfUids
  <2> QED
    BY <1>1, <1>7, <2>1, <2>2, <2>3
<1>12. new = Cardinality(R) /\ new \in Nat /\ new <= count
  <2>1. N \subseteq Uids
    BY <1>4 DEF N, UnseenIn, D
  <2>2. Cardinality(N) \in Nat
    BY <2>1, CountsOfUids
  <2>3. Cardinality(R) \in Nat /\ Cardinality(R) <= Cardinality(Visible')
    BY <1>8, <1>10, CountsOfUids
  <2> QED
    BY <1>1, <1>11, <2>2, <2>3
<1> HIDE DEF count, new
<1>13. Max0(count) = count
  BY <1>11, FloorsAreNat
<1>14. Clamp(new, count) = new
  BY <1>11, <1>12, FloorsAreNat
<1> QED
  BY <1>2, <1>9, <1>11, <1>12, <1>13, <1>14 DEF CountersAreExact

\* A complete index: what it lists and is not cached, and the rows that are shown.
LEMMA ReconcileCounts ==
  ASSUME Support, ValueInv, ReconcileIndex(answer)
  PROVE  CountersAreExact'
<1> DEFINE D == DOMAIN answer.mail
           left == Cached \ Gone(answer)
           i == [u \in left |-> IF u \in D
                   THEN [inst[u] EXCEPT !.seen = Overlay(u, answer.mail[u].seen)]
                   ELSE inst[u]]
           outside == {u \in DOMAIN i \ D : ~i[u].hidden}
           inside == DOMAIN i \cap D
           H == {u \in inside : i[u].hidden}
           N == UnseenIn(answer)
           R == UnreadOf(i, DOMAIN i)
           count == Cardinality(D) + Cardinality(outside) - Cardinality(H)
           new == Cardinality(N \ inside) + Cardinality(R)
<1>1. /\ inst' = i
      /\ total' = Max0(count) /\ unread' = Clamp(new, Max0(count))
      /\ view' = [known |-> TRUE, uids |-> D, unseen |-> N]
  BY DEF ReconcileIndex
<1>2. D \subseteq Uids /\ left \subseteq Uids /\ N \subseteq D
  BY AnswerIsTyped, RowsAreTyped DEF ValueInv, UnseenIn
<1>3. DOMAIN i = left /\ Cached' = left
  BY <1>1 DEF Cached
<1> DEFINE X == (D \ left) \cup {u \in left : ~i[u].hidden}
           Y == (N \ left) \cup R
<1>4. R = {u \in left : ~i[u].hidden /\ ~i[u].seen}
  BY <1>3 DEF UnreadOf
<1>5. /\ (view'.uids \ Cached') \cup Visible' = X
      /\ (view'.unseen \ Cached') \cup UnreadOf(inst', Cached') = Y
  BY <1>1, <1>3 DEF Visible
<1>6. /\ inside = left \cap D /\ outside = {u \in left \ D : ~i[u].hidden}
      /\ H = {u \in left \cap D : i[u].hidden}
  BY <1>3
<1> HIDE DEF i, left, D, N, R
<1>7. /\ X = (D \ H) \cup outside /\ (D \ H) \cap outside = {} /\ H \subseteq D
      /\ Y = (N \ inside) \cup R /\ (N \ inside) \cap R = {} /\ Y \subseteq X
      /\ outside \subseteq Uids /\ N \ inside \subseteq Uids /\ R \subseteq Uids /\ X \subseteq Uids
  BY <1>2, <1>4, <1>6
<1> HIDE DEF outside, inside, H, X, Y
<1>8. count = Cardinality(X) /\ count \in Nat
  <2>1. /\ Cardinality(D \ H) = Cardinality(D) - Cardinality(H)
        /\ Cardinality(H) \in Nat /\ Cardinality(D) \in Nat
    BY <1>2, <1>7, CountsOfUids
  <2>2. Cardinality((D \ H) \cup outside) = Cardinality(D \ H) + Cardinality(outside)
    BY <1>2, <1>7, CountsOfUids
  <2>3. Cardinality(outside) \in Nat /\ Cardinality(X) \in Nat
    BY <1>7, CountsOfUids
  <2> QED
    BY <1>7, <2>1, <2>2, <2>3
<1>9. new = Cardinality(Y) /\ new \in Nat /\ new <= count
  <2>1. Cardinality((N \ inside) \cup R) = Cardinality(N \ inside) + Cardinality(R)
    BY <1>7, CountsOfUids
  <2>2. Cardinality(Y) <= Cardinality(X) /\ Cardinality(Y) \in Nat
    BY <1>7, CountsOfUids
  <2> QED
    BY <1>7, <1>8, <2>1, <2>2
<1> HIDE DEF count, new
<1>10. Max0(count) = count /\ Clamp(new, count) = new
  <2>1. Max0(count) = count
    BY <1>8, FloorsAreNat
  <2> QED
    BY <1>8, <1>9, <2>1, FloorsAreNat
<1> QED
  BY <1>1, <1>5, <1>8, <1>9, <1>10 DEF CountersAreExact

\* A row that is marked, hidden or shown again, and the count of one more or one less.
LEMMA OperationCounts ==
  ASSUME Support, ValueInv, CountersAreExact, NEW u \in Uids,
         \/ OperationRefused(u) \/ HideMessage(u)
         \/ \E read \in BOOLEAN : MutateMessage(u, read)
  PROVE  CountersAreExact'
<1> DEFINE X == (view.uids \ Cached) \cup Visible
           Y == (view.unseen \ Cached) \cup UnreadOf(inst, Cached)
<1>1. view' = view
  BY DEF OperationRefused, HideMessage, MutateMessage
<1> SUFFICES ASSUME view.known
             PROVE  total' = Cardinality(X)' /\ unread' = Cardinality(Y)'
  BY <1>1 DEF CountersAreExact
<1>2. total = Cardinality(X) /\ unread = Cardinality(Y)
  BY DEF CountersAreExact
<1>3. X \subseteq Uids /\ Y \subseteq Uids
  <2>1. view.uids \subseteq Uids /\ view.unseen \subseteq Uids /\ Cached \subseteq Uids
    BY RowsAreTyped DEF ValueInv, CountTypes
  <2> QED
    BY <2>1 DEF Visible, UnreadOf
<1>4. /\ Cardinality(X) \in Nat /\ Cardinality(Y) \in Nat
      /\ Cardinality(X \cup {u}) = IF u \in X THEN Cardinality(X) ELSE Cardinality(X) + 1
      /\ Cardinality(Y \cup {u}) = IF u \in Y THEN Cardinality(Y) ELSE Cardinality(Y) + 1
      /\ Cardinality(X \ {u}) = IF u \in X THEN Cardinality(X) - 1 ELSE Cardinality(X)
      /\ Cardinality(Y \ {u}) = IF u \in Y THEN Cardinality(Y) - 1 ELSE Cardinality(Y)
      /\ u \in X => Max0(Cardinality(X) - 1) = Cardinality(X) - 1
      /\ u \in Y => Max0(Cardinality(Y) - 1) = Cardinality(Y) - 1
  <2> HIDE DEF X, Y
  <2> QED
    BY <1>3, CountsOfUids DEF Max0
<1>5. u \in Cached =>
        /\ u \in X <=> ~inst[u].hidden
        /\ u \in Y <=> ~inst[u].hidden /\ ~inst[u].seen
  BY DEF Visible, UnreadOf
<1>6. ASSUME Cached' = Cached, \A w \in Cached : w # u => inst'[w] = inst[w], u \in Cached
      PROVE  /\ X' = IF inst'[u].hidden THEN X \ {u} ELSE X \cup {u}
             /\ Y' = IF inst'[u].hidden \/ inst'[u].seen THEN Y \ {u} ELSE Y \cup {u}
  BY <1>1, <1>6 DEF Visible, UnreadOf
<1> HIDE DEF X, Y
<1>7. ASSUME UNCHANGED <<inst, total, unread>>
      PROVE  total' = Cardinality(X)' /\ unread' = Cardinality(Y)'
  BY <1>1, <1>2, <1>7 DEF X, Y, Visible, UnreadOf, Cached
<1>8. CASE HideMessage(u)
  <2>1. /\ u \in Cached /\ ~inst[u].hidden /\ inst' = [inst EXCEPT ![u].hidden = TRUE]
        /\ total' = Max0(total - 1)
        /\ unread' = IF inst[u].seen THEN unread ELSE Max0(unread - 1)
    BY <1>8 DEF HideMessage, Visible
  <2>2. /\ Cached' = Cached /\ \A w \in Cached : w # u => inst'[w] = inst[w]
        /\ inst'[u].hidden = TRUE /\ inst'[u].seen = inst[u].seen
    BY <2>1, OneRowChanges DEF Support
  <2>3. X' = X \ {u} /\ Y' = Y \ {u}
    BY <1>6, <2>1, <2>2
  <2> QED
    BY <1>2, <1>4, <1>5, <2>1, <2>3
<1>9. ASSUME NEW read \in BOOLEAN, MutateMessage(u, read)
      PROVE  total' = Cardinality(X)' /\ unread' = Cardinality(Y)'
  <2>1. /\ u \in Cached /\ ~inst[u].hidden /\ inst' = [inst EXCEPT ![u].seen = read]
        /\ total' = total
        /\ unread' = IF inst[u].seen = read THEN unread
                       ELSE IF read THEN Max0(unread - 1) ELSE unread + 1
    BY <1>9 DEF MutateMessage, Visible
  <2>2. /\ Cached' = Cached /\ \A w \in Cached : w # u => inst'[w] = inst[w]
        /\ inst'[u].seen = read /\ inst'[u].hidden = inst[u].hidden
    BY <2>1, OneRowChanges DEF Support
  <2>3. X' = X \cup {u} /\ Y' = IF read THEN Y \ {u} ELSE Y \cup {u}
    BY <1>6, <2>1, <2>2
  <2>4. inst[u].seen \in BOOLEAN
    BY <2>1 DEF ValueInv, RowValues
  <2> QED
    BY <1>2, <1>4, <1>5, <2>1, <2>3, <2>4
<1>10. CASE OperationRefused(u)
  <2>1. CASE UNCHANGED <<inst, total, unread>>
    BY <1>7, <2>1
  <2>2. CASE ~UNCHANGED <<inst, total, unread>>
    <3>1. /\ u \in Cached /\ inst[u].hidden /\ inst' = [inst EXCEPT ![u].hidden = FALSE]
          /\ total' = total + 1
          /\ unread' = IF inst[u].seen THEN unread ELSE unread + 1
      BY <1>10, <2>2 DEF OperationRefused, Restore
    <3>2. /\ Cached' = Cached /\ \A w \in Cached : w # u => inst'[w] = inst[w]
          /\ inst'[u].hidden = FALSE /\ inst'[u].seen = inst[u].seen
      BY <3>1, OneRowChanges DEF Support
    <3>3. X' = X \cup {u} /\ Y' = IF inst[u].seen THEN Y \ {u} ELSE Y \cup {u}
      BY <1>6, <3>1, <3>2
    <3> QED
      BY <1>2, <1>4, <1>5, <3>1, <3>3
  <2> QED
    BY <2>1, <2>2
<1> QED
  BY <1>8, <1>9, <1>10

\* Every step keeps the counters exact.
LEMMA CountStep ==
  Support /\ ValueInv /\ CountersAreExact /\ [Next]_vars => CountersAreExact'
<1> SUFFICES ASSUME Support, ValueInv, CountersAreExact, [Next]_vars PROVE CountersAreExact'
  OBVIOUS
<1>1. CASE UNCHANGED cacheVars
  <2>1. UNCHANGED <<inst, total, unread, view>>
    BY <1>1 DEF cacheVars, countVars
  <2> QED
    BY <2>1 DEF CountersAreExact, Cached, Visible, UnreadOf
<1>2. CASE UNCHANGED vars \/ Server \/ Reading
  BY <1>1, <1>2
     DEF vars, Server, Arrive, Renumber, ElsewhereExpunged, ElsewhereMarked, Untouched,
         Reading, BodyFetched, BodyFetchFails, StoreHydratedBody, ReaderOnly
<1>3. CASE User
  BY <1>1, <1>3, OperationCounts DEF User, ClearCache, OpenMessage
<1>4. CASE PassStops \/ \E mode \in {"full", "quick"} : StartPass(mode)
  BY <1>1, <1>4 DEF PassStops, StartPass, CacheKept
<1>5. CASE PassStep
  <2>1. CASE ApplyHistoryPage \/ \E withBodies \in BOOLEAN : ApplyForwardPage(withBodies)
    BY <2>1, ApplyCounts DEF ApplyHistoryPage, ApplyForwardPage
  <2>2. CASE ReconcileMailboxIndex
    BY <1>1, <2>2, ReconcileCounts DEF ReconcileMailboxIndex
  <2>3. ASSUME NEW u \in Uids, UploadFlags(u) \/ UploadMove(u) \/ OperationRefused(u)
        PROVE  CountersAreExact'
    BY <1>1, <2>3, OperationCounts DEF UploadFlags, UploadMove
  <2>4. CASE \/ Examine \/ SearchAndFetch \/ SkipQuietFolder \/ FetchMailboxIndex
             \/ FlushDone \/ LoadWindow \/ FetchHistoryPage \/ PassFails
    BY <1>1, <2>4 DEF Examine, SearchAndFetch, SkipQuietFolder, FetchMailboxIndex, FlushDone,
                      LoadWindow, FetchHistoryPage, PassFails, CacheKept
  <2> QED
    BY <1>5, <2>1, <2>2, <2>3, <2>4 DEF PassStep
<1> QED
  BY <1>2, <1>3, <1>4, <1>5 DEF Next

\* Marks, moves, uploads and refusals in any order, by the user or at the server's, leave
\* the counters of the folder those of its last complete listing with every change applied
\* once.
THEOREM CountersAlwaysExact == Spec => []CountersAreExact
<1>1. Init => CountersAreExact
  BY DEF Init, CountersAreExact, NoView
<1> QED
  BY <1>1, CountStep, ValueInvHolds, PTL DEF Spec

-----------------------------------------------------------------------------
(***************************************************************************)
(* No hole.                                                                *)
(***************************************************************************)

\* The cursor is the highest UID the cache has seen, and the server gave it.
CursorInv ==
  /\ cursor.validity <= validity /\ answer.validity <= validity
  /\ cursor.last # 0 => \E l \in Letters : Bears(l, cursor.validity, cursor.last)
  /\ \A u \in Cached : u <= cursor.last

\* An answer lists everything the folder still has from low, which it excludes, up to the
\* UIDs that it lists; or from those up to high.
FillsFrom(low) ==
  answer.validity = validity =>
    \A u \in Present, d \in DOMAIN answer.mail : low < u /\ u <= d => u \in DOMAIN answer.mail
FillsUpTo(high) ==
  answer.validity = validity =>
    \A u \in Present, d \in DOMAIN answer.mail : d <= u /\ u < high => u \in DOMAIN answer.mail
FillsBetween ==
  answer.validity = validity =>
    \A u \in Present, d, e \in DOMAIN answer.mail : d <= u /\ u <= e => u \in DOMAIN answer.mail

\* New mail: the page lies right above the cursor, or nothing of the cache survives it.
ForwardInv ==
  /\ pc \in {"examine", "search"} =>
       /\ plan.expect = cursor.validity
       /\ plan.since = cursor.last \/ (plan.since = 0 /\ cursor.validity # validity)
  /\ pc = "received" =>
       /\ plan.expect = cursor.validity
       /\ plan.since = 0 =>
            (cursor.last = 0 \/ cursor.validity # answer.validity) /\ FillsBetween
       /\ plan.since # 0 =>
            /\ plan.since = cursor.last /\ cursor.validity = answer.validity /\ ~answer.complete
            /\ \A d \in DOMAIN answer.mail : d > cursor.last
            /\ FillsFrom(cursor.last)

\* An index lists what the folder still has up to the cursor.
IndexInv ==
  /\ pc = "index" => plan.expect = cursor.validity
  /\ pc = "indexed" =>
       /\ answer.validity = cursor.validity
       /\ answer.validity = validity =>
            \A u \in Present : u <= cursor.last => u \in DOMAIN answer.mail

\* History: the page lies right below a row of the cache.
HistoryInv ==
  /\ pc \in {"history", "older", "olderReceived"} =>
       plan.expect = cursor.validity /\ plan.before \in Cached
  /\ pc = "older" => ~answer.complete
  /\ pc = "olderReceived" =>
       /\ answer.validity = cursor.validity /\ ~answer.complete
       /\ \A d \in DOMAIN answer.mail : d < plan.before
       /\ FillsUpTo(plan.before)

\* Between a row of the cache and the cursor nothing is missing.
Solid ==
  cursor.validity = validity =>
    \A u \in Present, c \in Cached : c <= u /\ u <= cursor.last => u \in Cached

HoleInv == CursorInv /\ ForwardInv /\ IndexInv /\ HistoryInv /\ Solid

Base == Support /\ ValueInv

\* An empty cache has no hole.
LEMMA HoleInit == Init => HoleInv
<1> SUFFICES ASSUME Init PROVE HoleInv
  OBVIOUS
<1>1. /\ Cached = {} /\ cursor = [validity |-> 0, last |-> 0] /\ validity = 1
      /\ answer.validity = 0 /\ pc = "idle"
  BY DEF Init, Cached, Empty, NoAnswer
<1> QED
  BY <1>1 DEF HoleInv, CursorInv, ForwardInv, IndexInv, HistoryInv, Solid

\* The numbers in play.
LEMMA HoleTypes ==
  ASSUME Base, HoleInv
  PROVE  /\ validity \in Nat \ {0} /\ cursor.validity \in Nat /\ answer.validity \in Nat
         /\ cursor.last \in 0 .. MaxLetters /\ Uids \subseteq Nat /\ MaxLetters \in Nat
         /\ Cached \subseteq Uids /\ Present \subseteq Uids /\ DOMAIN answer.mail \subseteq Uids
         /\ (cursor.last = 0 \/ cursor.validity = 0) => Cached = {} /\ cursor.last = 0
         /\ plan.since \in Nat /\ plan.before \in Nat
         /\ \A d \in DOMAIN answer.mail : \E l : Bears(l, answer.validity, d)
<1>1. /\ validity \in Nat \ {0} /\ cursor.validity \in Nat /\ answer.validity \in Nat
      /\ cursor.last \in 0 .. MaxLetters /\ Uids \subseteq Nat /\ MaxLetters \in Nat
      /\ Cached \subseteq Uids /\ Present \subseteq Uids /\ DOMAIN answer.mail \subseteq Uids
      /\ plan.since \in Nat /\ plan.before \in Nat
  <2>1. validity \in Nat \ {0} /\ MaxLetters \in Nat /\ Uids \subseteq Nat
    BY MailCacheAssumption DEF Base, Support, IdentityInv, ServerInv, Validities, Uids
  <2>2. cursor.validity \in Nat /\ cursor.last \in 0 .. MaxLetters
    BY DEF Base, ValueInv, CountTypes
  <2>3. answer.validity \in Nat /\ DOMAIN answer.mail \subseteq Uids
    BY AnswerIsTyped DEF Base, ValueInv
  <2>4. plan.since \in Nat /\ plan.before \in Nat
    BY PlanChanges DEF Base, ValueInv, PassTypes
  <2>5. Cached \subseteq Uids /\ Present \subseteq Uids
    BY RowsAreTyped, PresentIsFinite DEF Base, Support, IdentityInv
  <2> QED
    BY <2>1, <2>2, <2>3, <2>4, <2>5
<1>2. ASSUME cursor.last = 0 PROVE Cached = {}
  <2>1. \A u \in Uids : u > 0
    BY DEF Uids
  <2> QED
    BY <1>1, <1>2, <2>1 DEF HoleInv, CursorInv
<1>3. ASSUME cursor.validity = 0 PROVE cursor.last = 0
  BY <1>3 DEF HoleInv, CursorInv, Bears
<1>4. \A d \in DOMAIN answer.mail : \E l : Bears(l, answer.validity, d)
  BY DEF Base, Support, IdentityInv, AnswerInv, IsBorne
<1> QED
  BY <1>1, <1>2, <1>3, <1>4

\* The server's steps, and the uploads: letters go, and come above all that was numbered.
LEMMA ServerKeepsNoHole ==
  ASSUME Base, HoleInv, [Next]_vars, UNCHANGED <<inst, cursor, answer, plan, pc>>
  PROVE  HoleInv'
<1>1. \A l, v, u : Bears(l, v, u) => Bears(l, v, u)'
  <2>1. CASE Arrive
    BY <2>1, ArriveStep DEF Base, Support, IdentityInv
  <2>2. CASE Renumber
    BY <2>2, RenumberStep DEF Base, Support, IdentityInv
  <2>3. ~Arrive /\ ~Renumber => UNCHANGED <<validity, uid, arrived>>
    BY DEF Next, vars, serverVars, Server, ElsewhereExpunged, ElsewhereMarked,
           User, MutateMessage, HideMessage, ClearCache, OpenMessage,
           Reading, BodyFetched, BodyFetchFails, StoreHydratedBody, ReaderOnly, PassStep,
           PassStops, StartPass, Examine, SearchAndFetch, SkipQuietFolder, ApplyForwardPage,
           FetchMailboxIndex, ReconcileMailboxIndex, UploadFlags, UploadMove, OperationRefused,
           FlushDone, LoadWindow, FetchHistoryPage, ApplyHistoryPage, PassFails, Rest
  <2> QED
    BY <2>1, <2>2, <2>3 DEF Bears
<1>2. Cached' = Cached
  BY DEF Cached
<1>3. CASE validity' = validity + 1
  <2>1. /\ cursor.validity <= validity' /\ cursor.validity # validity'
        /\ answer.validity <= validity' /\ answer.validity # validity'
    BY <1>3, HoleTypes DEF HoleInv, CursorInv
  <2>2. CursorInv'
    BY <1>1, <1>2, <2>1 DEF HoleInv, CursorInv
  <2>3. Solid' /\ \A n : FillsFrom(n)' /\ FillsUpTo(n)'
    BY <2>1 DEF Solid, FillsFrom, FillsUpTo
  <2>4. FillsBetween' /\ FillsFrom(cursor.last)' /\ FillsUpTo(plan.before)'
    BY <2>1 DEF FillsBetween, FillsFrom, FillsUpTo
  <2>5. ForwardInv' /\ IndexInv' /\ HistoryInv'
    BY <1>2, <2>1, <2>4 DEF HoleInv, ForwardInv, IndexInv, HistoryInv
  <2> QED
    BY <2>2, <2>3, <2>5 DEF HoleInv
<1>4. CASE /\ validity' = validity
           /\ \A u \in Present' \ Present :
                u \in Nat \ {0} /\ \A l, w : Bears(l, validity, w) => w < u
  <2>1. CursorInv'
    BY <1>1, <1>2, <1>4 DEF HoleInv, CursorInv
  <2>2. ASSUME cursor.validity = validity, NEW u \in Present', u <= cursor.last
        PROVE  u \in Present
    <3> SUFFICES ASSUME u \notin Present PROVE FALSE
      OBVIOUS
    <3>1. u \in Nat \ {0} /\ \A l, w : Bears(l, validity, w) => w < u
      BY <1>4
    <3>2. PICK l \in Letters : Bears(l, validity, cursor.last)
      BY <2>2, <3>1, HoleTypes DEF HoleInv, CursorInv
    <3>3. cursor.last < u
      BY <3>1, <3>2
    <3> QED
      BY <2>2, <3>1, <3>3, HoleTypes
  <2>3. ASSUME answer.validity = validity, NEW u \in Present', NEW d \in DOMAIN answer.mail,
               u <= d
        PROVE  u \in Present
    <3> SUFFICES ASSUME u \notin Present PROVE FALSE
      OBVIOUS
    <3>1. u \in Nat \ {0} /\ \A l, w : Bears(l, validity, w) => w < u
      BY <1>4
    <3>2. d < u /\ d \in Nat
      BY <2>3, <3>1, HoleTypes
    <3> QED
      BY <2>3, <3>1, <3>2
  <2>4. Solid'
    BY <1>2, <1>4, <2>2 DEF HoleInv, Solid
  <2>5. (FillsBetween => FillsBetween') /\ (FillsFrom(cursor.last) => FillsFrom(cursor.last)')
    BY <1>4, <2>3 DEF FillsBetween, FillsFrom
  <2>6. ForwardInv'
    BY <1>4, <2>5 DEF HoleInv, ForwardInv
  <2>7. IndexInv'
    BY <1>4, <2>2 DEF HoleInv, IndexInv
  <2>8. HistoryInv'
    <3>1. ASSUME pc = "olderReceived" PROVE FillsUpTo(plan.before)'
      <4>1. /\ plan.before \in Cached /\ answer.validity = cursor.validity
            /\ FillsUpTo(plan.before)
        BY <3>1 DEF HoleInv, HistoryInv
      <4>2. plan.before <= cursor.last /\ plan.before \in Nat /\ cursor.last \in Nat
        BY <4>1, HoleTypes DEF HoleInv, CursorInv
      <4>3. ASSUME answer.validity = validity, NEW u \in Present', u < plan.before
            PROVE  u \in Present
        <5>1. u \in Present' \ Present => u \in Nat
          BY <1>4
        <5>2. u \in Nat => u <= cursor.last
          BY <4>2, <4>3
        <5> QED
          BY <2>2, <4>1, <4>3, <5>1, <5>2
      <4> QED
        BY <1>4, <4>1, <4>3 DEF FillsUpTo
    <3> QED
      BY <1>2, <3>1 DEF HoleInv, HistoryInv
  <2> QED
    BY <2>1, <2>4, <2>6, <2>7, <2>8 DEF HoleInv
<1> QED
  BY <1>3, <1>4, UidStep DEF Base, Support, IdentityInv

\* A cache solid up to its cursor has no hole.
LEMMA SolidIsNoHole ==
  ASSUME Base, HoleInv
  PROVE  NoHole
<1> SUFFICES ASSUME cursor.validity = validity, Cached # {},
                    NEW u \in Present, Min(Cached) <= u, u <= cursor.last
             PROVE  u \in Cached
  BY DEF NoHole
<1>1. Cached \subseteq Nat
  BY HoleTypes
<1>2. Min(Cached) \in Cached
  BY <1>1, MinIsLeast
<1> QED
  BY <1>2 DEF HoleInv, Solid

\* A pass that has ended, or goes on with nothing in its hands.
LEMMA EmptyHands ==
  ASSUME Base, HoleInv, UNCHANGED <<validity, uid, box, arrived, cursor>>, Cached' = Cached,
         answer' = NoAnswer \/ answer' = answer, pc' \in {"idle", "flush", "window"}
  PROVE  HoleInv'
<1>1. answer'.validity <= validity
  BY HoleTypes DEF HoleInv, CursorInv, NoAnswer
<1>2. CursorInv' /\ Solid'
  BY <1>1 DEF HoleInv, CursorInv, Solid, Bears, Present
<1>3. ForwardInv' /\ IndexInv' /\ HistoryInv'
  BY DEF ForwardInv, IndexInv, HistoryInv
<1> QED
  BY <1>2, <1>3 DEF HoleInv

\* A row is marked, hidden or shown again while a pass is under way.
LEMMA RowChangesKeepNoHole ==
  ASSUME Base, HoleInv, UNCHANGED <<validity, uid, box, arrived, cursor, answer, plan, pc>>,
         Cached' = Cached
  PROVE  HoleInv'
<1>1. Present' = Present
  BY DEF Present
<1>2. CursorInv' /\ Solid'
  BY <1>1 DEF HoleInv, CursorInv, Solid, Bears
<1>3. (FillsBetween => FillsBetween') /\ (FillsFrom(cursor.last) => FillsFrom(cursor.last)')
      /\ (FillsUpTo(plan.before) => FillsUpTo(plan.before)')
  BY <1>1 DEF FillsBetween, FillsFrom, FillsUpTo
<1>4. ForwardInv' /\ IndexInv' /\ HistoryInv'
  BY <1>1, <1>3 DEF HoleInv, ForwardInv, IndexInv, HistoryInv
<1> QED
  BY <1>2, <1>4 DEF HoleInv

\* A page of new mail, as the server answers it.
LEMMA SearchKeepsNoHole ==
  ASSUME Base, HoleInv, SearchAndFetch
  PROVE  HoleInv'
<1>1. /\ pc = "search" /\ answer.validity = validity
      /\ UNCHANGED <<validity, uid, box, arrived, inst, cursor>>
  BY DEF SearchAndFetch, CacheKept, Rest, cacheVars, serverVars
<1>2. Present' = Present /\ Cached' = Cached
  BY <1>1 DEF Present, Cached
<1>3. plan.expect = cursor.validity
      /\ (plan.since = cursor.last \/ (plan.since = 0 /\ cursor.validity # validity))
  BY <1>1 DEF HoleInv, ForwardInv
<1>4. CASE plan.expect \notin {0, validity} /\ plan.since # 0
  <2>1. pc' = "examine" /\ answer' = NoAnswer /\ plan' = [plan EXCEPT !.since = 0]
    BY <1>4 DEF SearchAndFetch, Goto
  <2>2. plan'.expect = plan.expect /\ plan'.since = 0
    BY <2>1 DEF Base, ValueInv, PassTypes, Plans
  <2>3. answer'.validity <= validity
    BY <2>1, HoleTypes DEF NoAnswer
  <2>4. CursorInv' /\ Solid'
    BY <1>1, <1>2, <2>3 DEF HoleInv, CursorInv, Solid, Bears
  <2>5. ForwardInv' /\ IndexInv' /\ HistoryInv'
    BY <1>1, <1>3, <1>4, <2>1, <2>2 DEF ForwardInv, IndexInv, HistoryInv
  <2> QED
    BY <2>4, <2>5 DEF HoleInv
<1>5. CASE ~(plan.expect \notin {0, validity} /\ plan.since # 0)
  <2> DEFINE full == plan.since = 0 /\ Cardinality(Present) <= PageSize
             D == ForwardPage(plan.since)
  <2>1. /\ pc' = "received" /\ plan' = plan
        /\ answer' = [answer EXCEPT !.complete = full, !.mail = MailAt(D)]
    BY <1>5 DEF SearchAndFetch, Goto
  <2>2. DOMAIN MailAt(D) = D
    BY DEF MailAt
  <2>3. answer'.validity = validity /\ answer'.complete = full /\ DOMAIN answer'.mail = D
    <3> HIDE DEF full, D
    <3>1. answer' = [validity |-> answer.validity, total |-> answer.total,
                     unread |-> answer.unread, complete |-> full, mail |-> MailAt(D)]
      BY <2>1 DEF Base, Support, IdentityInv, AnswerInv
    <3> QED
      BY <1>1, <2>2, <3>1
  <2>4. Present \subseteq Nat /\ IsFiniteSet(Present) /\ PageSize \in Nat
        /\ \A S : S \subseteq Present => IsFiniteSet(S)
    BY PresentIsFinite, MailCacheAssumption DEF Base, Support, IdentityInv
  <2>5. CursorInv' /\ Solid'
    BY <1>1, <1>2, <2>3, HoleTypes DEF HoleInv, CursorInv, Solid, Bears
  <2>6. CASE plan.since = 0
    <3>1. D = Newest(Present, PageSize)
      BY <2>6 DEF ForwardPage
    <3>2. cursor.last = 0 \/ cursor.validity # answer'.validity
      BY <1>3, <2>3, <2>6
    <3> HIDE DEF D, full
    <3>3. \A u \in Present, d \in D : d <= u => u \in D
      BY <2>4, <3>1, PagesAreContiguous
    <3>4. FillsBetween'
      BY <1>2, <2>3, <3>3 DEF FillsBetween
    <3>5. ForwardInv' /\ IndexInv' /\ HistoryInv'
      BY <1>1, <1>3, <2>1, <2>6, <3>2, <3>4 DEF ForwardInv, IndexInv, HistoryInv
    <3> QED
      BY <2>5, <3>5 DEF HoleInv
  <2>7. CASE plan.since # 0
    <3> DEFINE U == {u \in Present : u > plan.since}
    <3>1. D = Oldest(U, PageSize) /\ ~full
      BY <2>7 DEF ForwardPage
    <3>2. plan.since = cursor.last /\ cursor.validity = validity
      BY <1>3, <1>5, <2>7, HoleTypes
    <3>3. U \subseteq Present
      OBVIOUS
    <3>4. \A d \in D : d > cursor.last /\ d \in U
      BY <3>1, <3>2 DEF Oldest
    <3>5. ASSUME NEW u \in Present, NEW d \in D, cursor.last < u, u <= d
          PROVE  u \in D
      <4>1. u \in U
        BY <2>4, <3>2, <3>5, HoleTypes
      <4> HIDE DEF U, D
      <4>2. U \subseteq Nat /\ IsFiniteSet(U)
        BY <2>4, <3>3
      <4> QED
        BY <2>4, <3>1, <3>5, <4>1, <4>2, PagesAreContiguous
    <3> HIDE DEF D, full
    <3>6. FillsFrom(cursor.last)'
      BY <1>1, <1>2, <2>3, <3>5 DEF FillsFrom
    <3>7. ForwardInv' /\ IndexInv' /\ HistoryInv'
      BY <1>1, <1>3, <2>1, <2>3, <2>7, <3>1, <3>2, <3>4, <3>6 DEF ForwardInv, IndexInv, HistoryInv
    <3> QED
      BY <2>5, <3>7 DEF HoleInv
  <2> QED
    BY <2>6, <2>7
<1> QED
  BY <1>4, <1>5

\* The index, and a page of history, as the server answers them.
LEMMA FetchKeepsNoHole ==
  ASSUME Base, HoleInv, FetchMailboxIndex \/ FetchHistoryPage
  PROVE  HoleInv'
<1>1. UNCHANGED <<validity, uid, box, arrived, inst, cursor>>
  BY DEF FetchMailboxIndex, FetchHistoryPage, CacheKept, Rest, cacheVars, serverVars
<1>2. Present' = Present /\ Cached' = Cached
  BY <1>1 DEF Present, Cached
<1>3. CASE validity # plan.expect
  BY <1>1, <1>2, <1>3, EmptyHands DEF FetchMailboxIndex, FetchHistoryPage, PassEnds
<1>4. CASE FetchMailboxIndex /\ validity = plan.expect
  <2>1. /\ pc = "index" /\ pc' = "indexed" /\ plan' = plan
        /\ answer' = [validity |-> validity, total |-> Cardinality(Present), unread |-> 0,
                      complete |-> FALSE, mail |-> MailAt(Present)]
    BY <1>4 DEF FetchMailboxIndex, Goto, NoAnswer
  <2>2. answer'.validity = validity /\ DOMAIN answer'.mail = Present
    BY <2>1 DEF MailAt
  <2>3. cursor.validity = validity
    BY <1>4, <2>1 DEF HoleInv, IndexInv
  <2>4. CursorInv' /\ Solid'
    BY <1>1, <1>2, <2>2, HoleTypes DEF HoleInv, CursorInv, Solid, Bears
  <2>5. ForwardInv' /\ IndexInv' /\ HistoryInv'
    BY <1>1, <1>2, <2>1, <2>2, <2>3 DEF ForwardInv, IndexInv, HistoryInv
  <2> QED
    BY <2>4, <2>5 DEF HoleInv
<1>5. CASE FetchHistoryPage /\ validity = plan.expect
  <2> DEFINE U == {u \in Present : u < plan.before}
             D == Newest(U, PageSize)
  <2>1. /\ pc = "older" /\ answer.validity = validity
        /\ pc' = "olderReceived" /\ plan' = plan /\ answer' = [answer EXCEPT !.mail = MailAt(D)]
    BY <1>5 DEF FetchHistoryPage, Goto
  <2>2. DOMAIN MailAt(D) = D
    BY DEF MailAt
  <2>3. answer'.validity = validity /\ answer'.complete = answer.complete /\ DOMAIN answer'.mail = D
    <3> HIDE DEF D
    <3>1. answer' = [validity |-> answer.validity, total |-> answer.total,
                     unread |-> answer.unread, complete |-> answer.complete, mail |-> MailAt(D)]
      BY <2>1 DEF Base, Support, IdentityInv, AnswerInv
    <3> QED
      BY <2>1, <2>2, <3>1
  <2>4. plan.expect = cursor.validity /\ plan.before \in Cached /\ ~answer.complete
    BY <2>1 DEF HoleInv, HistoryInv
  <2>5. Present \subseteq Nat /\ PageSize \in Nat /\ U \subseteq Present /\ IsFiniteSet(U)
    <3>1. U \subseteq Present
      OBVIOUS
    <3> HIDE DEF U
    <3> QED
      BY <3>1, PresentIsFinite, MailCacheAssumption DEF Base, Support, IdentityInv
  <2>6. \A d \in D : d < plan.before
    BY DEF Newest
  <2>7. ASSUME NEW u \in Present, NEW d \in D, d <= u, u < plan.before
        PROVE  u \in D
    <3>1. u \in U
      BY <2>7
    <3> HIDE DEF U
    <3> QED
      BY <2>5, <2>7, <3>1, PagesAreContiguous
  <2> HIDE DEF D
  <2>8. FillsUpTo(plan.before)'
    BY <1>2, <2>1, <2>3, <2>7 DEF FillsUpTo
  <2>9. CursorInv' /\ Solid'
    BY <1>1, <1>2, <2>3, HoleTypes DEF HoleInv, CursorInv, Solid, Bears
  <2>10. ForwardInv' /\ IndexInv' /\ HistoryInv'
    BY <1>1, <1>2, <1>5, <2>1, <2>3, <2>4, <2>6, <2>8 DEF ForwardInv, IndexInv, HistoryInv
  <2> QED
    BY <2>9, <2>10 DEF HoleInv
<1> QED
  BY <1>3, <1>4, <1>5

\* A pass starts, selects the folder, or looks for history.
LEMMA PlansKeepNoHole ==
  ASSUME Base, HoleInv,
         Examine \/ LoadWindow \/ \E mode \in {"full", "quick"} : StartPass(mode)
  PROVE  HoleInv'
<1>1. UNCHANGED <<validity, uid, box, arrived, inst, cursor>>
  BY DEF Examine, LoadWindow, StartPass, CacheKept, Rest, cacheVars, serverVars
<1>2. Present' = Present /\ Cached' = Cached
  BY <1>1 DEF Present, Cached
<1>3. ASSUME answer'.validity <= validity
      PROVE  CursorInv' /\ Solid'
  BY <1>1, <1>2, <1>3 DEF HoleInv, CursorInv, Solid, Bears
<1>4. CASE Examine
  <2>1. /\ pc \in {"examine", "history"} /\ plan' = plan
        /\ pc' = IF pc = "examine" THEN "search" ELSE "older"
        /\ answer'.validity = validity /\ ~answer'.complete
    BY <1>4 DEF Examine, Goto, NoAnswer
  <2>2. CursorInv' /\ Solid'
    BY <1>3, <2>1, HoleTypes
  <2>3. ForwardInv' /\ IndexInv' /\ HistoryInv'
    BY <1>1, <1>2, <2>1 DEF HoleInv, ForwardInv, IndexInv, HistoryInv
  <2> QED
    BY <2>2, <2>3 DEF HoleInv
<1>5. CASE LoadWindow
  <2>1. CASE pc' = "idle" /\ plan' = NoPlan /\ answer' = NoAnswer
    BY <1>1, <1>2, <2>1, EmptyHands
  <2>2. CASE /\ cursor.validity = plan.expect /\ BackfillBefore # 0
             /\ pc' = "history" /\ answer' = answer
             /\ plan' = [plan EXCEPT !.before = BackfillBefore]
    <3>1. BackfillBefore \in Cached
      <4>1. WindowUids \subseteq Cached /\ WindowUids # {} /\ BackfillBefore = Min(WindowUids)
        BY <2>2 DEF BackfillBefore, WindowUids, Visible
      <4>2. WindowUids \subseteq Nat
        BY <4>1, HoleTypes
      <4> QED
        BY <4>1, <4>2, MinIsLeast
    <3>2. plan'.before = BackfillBefore /\ plan'.expect = plan.expect
      BY <2>2 DEF Base, ValueInv, PassTypes, Plans
    <3>3. CursorInv' /\ Solid'
      BY <1>3, <2>2 DEF HoleInv, CursorInv
    <3>4. ForwardInv' /\ IndexInv' /\ HistoryInv'
      BY <1>1, <1>2, <2>2, <3>1, <3>2 DEF ForwardInv, IndexInv, HistoryInv
    <3> QED
      BY <3>3, <3>4 DEF HoleInv
  <2> QED
    BY <1>5, <2>1, <2>2 DEF LoadWindow, Goto, PassEnds
<1>6. ASSUME NEW mode \in {"full", "quick"}, StartPass(mode)
      PROVE  HoleInv'
  <2>1. /\ pc' = "examine" /\ answer' = answer
        /\ plan'.expect = cursor.validity /\ plan'.since = cursor.last
    BY <1>6 DEF StartPass, Goto, NoPlan
  <2>2. CursorInv' /\ Solid'
    BY <1>3, <2>1 DEF HoleInv, CursorInv
  <2>3. ForwardInv' /\ IndexInv' /\ HistoryInv'
    BY <1>1, <2>1 DEF ForwardInv, IndexInv, HistoryInv
  <2> QED
    BY <2>2, <2>3 DEF HoleInv
<1> QED
  BY <1>4, <1>5, <1>6

\* What a snapshot makes of the cursor and of the set of rows.
LEMMA ApplyMovesCursor ==
  ASSUME Base, HoleInv, NEW withBodies, ApplyImapSnapshot(answer, withBodies),
         UNCHANGED <<validity, uid, box, arrived>>, answer' = NoAnswer
  PROVE  /\ CursorInv' /\ cursor'.validity = answer.validity
         /\ Cached' = (Kept(answer) \ Stale(answer)) \cup DOMAIN answer.mail
         /\ Kept(answer) \subseteq Cached
         /\ Kept(answer) # {} => Kept(answer) = Cached /\ cursor.validity = answer.validity
         /\ cursor'.last \in DOMAIN answer.mail \cup
                             {IF cursor.validity = answer.validity THEN cursor.last ELSE 0}
         /\ cursor.validity = answer.validity => cursor.last <= cursor'.last
         /\ cursor'.last \in Nat /\ \A d \in DOMAIN answer.mail : d <= cursor'.last
<1> DEFINE D == DOMAIN answer.mail
           known == IF cursor.validity = answer.validity THEN cursor.last ELSE 0
           S == D \cup {known}
<1>1. /\ cursor' = [validity |-> answer.validity, last |-> Max(S)]
      /\ Cached' = (Kept(answer) \ Stale(answer)) \cup D
  BY DEF ApplyImapSnapshot, Merged, Cached
<1>2. Kept(answer) # {} => Kept(answer) = Cached /\ cursor.validity = answer.validity
  BY HoleTypes DEF Kept, IdentityChanged
<1>3. Kept(answer) \subseteq Cached
  BY DEF Kept
<1>4. known \in 0 .. MaxLetters /\ D \subseteq Uids
  BY HoleTypes
<1>5. Max(S) \in S /\ \A y \in S : y <= Max(S)
  <2>1. S \in SUBSET (0 .. MaxLetters) /\ S \subseteq Nat /\ S # {}
    <3> HIDE DEF D, known
    <3> QED
      BY <1>4 DEF Uids
  <2>2. IsFiniteSet(0 .. MaxLetters)
    BY MailCacheAssumption, FS_Interval
  <2> HIDE DEF S
  <2>3. IsFiniteSet(S)
    BY <2>1, <2>2, FS_Subset
  <2>4. Max(S) \in S /\ \A y \in S : Max(S) >= y
    BY <2>1, <2>3, MaxIsGreatest
  <2> QED
    BY <2>1, <2>4
<1>6. known \in S /\ D \subseteq S
  OBVIOUS
<1>7. cursor'.last \in D \cup {known} /\ known <= cursor'.last /\ cursor'.last \in Nat
      /\ \A d \in D : d <= cursor'.last
  <2>1. S = D \cup {known} /\ D \subseteq Nat /\ known \in Nat
    BY HoleTypes
  <2>2. cursor'.last = Max(S)
    BY <1>1
  <2> HIDE DEF D, known, S
  <2>3. Max(S) \in Nat
    BY <1>5, <2>1
  <2> QED
    BY <1>5, <1>6, <2>1, <2>2, <2>3
<1>8. CursorInv'
  <2>1. cursor'.validity <= validity /\ answer'.validity <= validity
    BY <1>1, HoleTypes DEF HoleInv, CursorInv, NoAnswer
  <2>2. cursor'.last # 0 => \E l \in Letters : Bears(l, answer.validity, cursor'.last)
    <3>1. CASE cursor'.last \in D
      <4>1. PICK l : Bears(l, answer.validity, cursor'.last)
        BY <3>1, HoleTypes
      <4>2. l \in Letters
        BY <4>1, BorneIsTyped DEF Base, Support, IdentityInv
      <4> QED
        BY <4>1, <4>2
    <3>2. CASE cursor'.last = known
      BY <3>2 DEF HoleInv, CursorInv
    <3> QED
      BY <1>7, <3>1, <3>2
  <2>3. \A u \in Cached' : u <= cursor'.last
    <3>1. ASSUME NEW u \in Kept(answer)
          PROVE  u <= cursor'.last
      <4>1. u \in Cached /\ cursor.validity = answer.validity
        BY <1>2
      <4>2. u <= known /\ u \in Nat /\ known \in Nat
        BY <4>1, HoleTypes DEF HoleInv, CursorInv
      <4> HIDE DEF known
      <4> QED
        BY <1>7, <4>2
    <3> HIDE DEF D, known
    <3> QED
      BY <1>1, <1>7, <3>1
  <2> QED
    BY <1>1, <2>1, <2>2, <2>3 DEF CursorInv, Bears
<1> QED
  BY <1>1, <1>2, <1>3, <1>7, <1>8

\* A page of new mail.
LEMMA ForwardKeepsNoHole ==
  ASSUME Base, HoleInv, NEW withBodies \in BOOLEAN, ApplyForwardPage(withBodies)
  PROVE  HoleInv'
<1> DEFINE D == DOMAIN answer.mail
           limited == HasFollowUp /\ plan.page + 1 >= ForwardPages
           again == HasFollowUp /\ ~limited
<1>1. /\ pc = "received" /\ ApplyImapSnapshot(answer, withBodies)
      /\ UNCHANGED <<validity, uid, box, arrived>> /\ answer' = NoAnswer
      /\ plan' = [plan EXCEPT !.page = IF again THEN @ + 1 ELSE 0,
                              !.since = IF again THEN Max(D) ELSE 0,
                              !.expect = answer.validity, !.remote = answer.total,
                              !.forward = limited]
      /\ pc' = IF again THEN "examine" ELSE IF answer.complete THEN "flush" ELSE "index"
  BY DEF ApplyForwardPage, Goto, Rest, serverVars
<1>2. plan'.expect = answer.validity /\ plan'.since = IF again THEN Max(D) ELSE 0
  <2>1. plan \in Plans
    BY DEF Base, ValueInv, PassTypes
  <2> HIDE DEF D, again, limited
  <2> QED
    BY <1>1, <2>1 DEF Plans
<1>3. /\ CursorInv' /\ cursor'.validity = answer.validity
      /\ Cached' = (Kept(answer) \ Stale(answer)) \cup D
      /\ Kept(answer) \subseteq Cached
      /\ Kept(answer) # {} => Kept(answer) = Cached /\ cursor.validity = answer.validity
      /\ cursor'.last \in D \cup {IF cursor.validity = answer.validity THEN cursor.last ELSE 0}
      /\ cursor.validity = answer.validity => cursor.last <= cursor'.last
      /\ cursor'.last \in Nat /\ \A d \in D : d <= cursor'.last
  BY <1>1, ApplyMovesCursor
<1>4. Present' = Present /\ D \subseteq Nat /\ Present \subseteq Nat /\ Cached \subseteq Nat
  BY <1>1, HoleTypes DEF Present
<1>5. CASE plan.since = 0
  <2>1. (cursor.last = 0 \/ cursor.validity # answer.validity) /\ FillsBetween
    BY <1>1, <1>5 DEF HoleInv, ForwardInv
  <2>2. Cached' = D
    <3>1. Kept(answer) = {}
      BY <1>3, <2>1, HoleTypes
    <3> QED
      BY <1>3, <3>1
  <2>3. D # {} => cursor'.last \in D
    <3>1. ASSUME D # {}, cursor'.last = 0 PROVE FALSE
      <4>1. \A d \in D : d > 0
        BY HoleTypes DEF Uids
      <4> QED
        BY <1>3, <1>4, <3>1, <4>1
    <3> QED
      BY <1>3, <2>1, <3>1
  <2>4. Solid'
    BY <1>1, <1>3, <1>4, <2>1, <2>2, <2>3 DEF Solid, FillsBetween
  <2>5. ~again
    BY <1>5 DEF HasFollowUp
  <2>6. ForwardInv' /\ IndexInv' /\ HistoryInv'
    <3> HIDE DEF again
    <3> QED
      BY <1>1, <1>2, <1>3, <2>5 DEF ForwardInv, IndexInv, HistoryInv
  <2> QED
    BY <1>3, <2>4, <2>6 DEF HoleInv
<1>6. CASE plan.since # 0
  <2>1. /\ plan.since = cursor.last /\ cursor.validity = answer.validity /\ ~answer.complete
        /\ \A d \in D : d > cursor.last
        /\ FillsFrom(cursor.last)
    BY <1>1, <1>6 DEF HoleInv, ForwardInv
  <2>2. Cached' = Cached \cup D
    <3>1. Kept(answer) = Cached /\ Stale(answer) = {}
      BY <2>1 DEF Kept, Stale, IdentityChanged, Base, Support, IdentityInv, CacheInv
    <3> QED
      BY <1>3, <3>1
  <2>3. cursor'.last \in D \cup {cursor.last} /\ cursor.last \in Nat
    BY <1>3, <2>1, HoleTypes
  <2>4. Solid'
    <3> SUFFICES ASSUME answer.validity = validity, NEW u \in Present, NEW c \in Cached \cup D,
                        c <= u, u <= cursor'.last
                 PROVE  u \in Cached \cup D
      BY <1>1, <1>3, <1>4, <2>2 DEF Solid
    <3>1. CASE u <= cursor.last
      <4>1. c \in Cached
        BY <1>4, <2>1, <2>3, <3>1
      <4> QED
        BY <2>1, <3>1, <4>1 DEF HoleInv, Solid
    <3>2. CASE cursor.last < u
      <4>1. cursor'.last \in D
        BY <1>4, <2>3, <3>2
      <4> QED
        BY <2>1, <3>2, <4>1 DEF FillsFrom
    <3> QED
      BY <1>4, <2>3, <3>1, <3>2
  <2>5. again => Max(D) = cursor'.last
    <3>1. again => D # {}
      <4>1. Cardinality({}) = 0
        BY FS_EmptySet
      <4> QED
        BY <4>1, MailCacheAssumption DEF HasFollowUp
    <3>2. D # {} => Max(D) \in D /\ \A d \in D : d <= Max(D)
      BY HoleTypes, LastOfAnswer
    <3>3. D # {} => cursor'.last \in D
      BY <1>3, <1>4, <2>1, <2>3
    <3> HIDE DEF D, again
    <3>4. ASSUME D # {} PROVE Max(D) = cursor'.last
      <4>1. Max(D) \in Nat /\ cursor'.last \in Nat
        BY <1>4, <3>2, <3>3, <3>4
      <4>2. Max(D) <= cursor'.last /\ cursor'.last <= Max(D)
        BY <1>3, <3>2, <3>3, <3>4
      <4> QED
        BY <4>1, <4>2
    <3> QED
      BY <3>1, <3>4
  <2>6. ForwardInv' /\ IndexInv' /\ HistoryInv'
    <3> HIDE DEF again, D
    <3> QED
      BY <1>1, <1>2, <1>3, <2>5 DEF ForwardInv, IndexInv, HistoryInv
  <2> QED
    BY <1>3, <2>4, <2>6 DEF HoleInv
<1> QED
  BY <1>5, <1>6

\* A page of history.
LEMMA HistoryKeepsNoHole ==
  ASSUME Base, HoleInv, ApplyHistoryPage
  PROVE  HoleInv'
<1> DEFINE D == DOMAIN answer.mail
<1>1. /\ pc = "olderReceived" /\ ApplyImapSnapshot(answer, FALSE)
      /\ UNCHANGED <<validity, uid, box, arrived>> /\ answer' = NoAnswer
      /\ pc' \in {"idle", "window"}
  BY DEF ApplyHistoryPage, Goto, Rest, serverVars, PassEnds
<1>2. /\ plan.before \in Cached /\ answer.validity = cursor.validity /\ ~answer.complete
      /\ \A d \in D : d < plan.before
      /\ FillsUpTo(plan.before)
  BY <1>1 DEF HoleInv, HistoryInv
<1>3. /\ CursorInv' /\ cursor'.validity = answer.validity
      /\ Cached' = (Kept(answer) \ Stale(answer)) \cup D
      /\ cursor'.last \in D \cup {cursor.last} /\ cursor.last <= cursor'.last
      /\ cursor'.last \in Nat
  BY <1>1, <1>2, ApplyMovesCursor
<1>4. Cached' = Cached \cup D
  <2>1. Kept(answer) = Cached /\ Stale(answer) = {}
    BY <1>2 DEF Kept, Stale, IdentityChanged, Base, Support, IdentityInv, CacheInv
  <2> QED
    BY <1>3, <2>1
<1>5. /\ Present' = Present /\ D \subseteq Nat /\ Present \subseteq Nat /\ Cached \subseteq Nat
      /\ cursor.last \in Nat
  BY <1>1, HoleTypes DEF Present
<1>6. cursor'.last = cursor.last /\ plan.before <= cursor.last
  <2>1. plan.before <= cursor.last
    BY <1>2 DEF HoleInv, CursorInv
  <2>2. cursor'.last \notin D
    <3> SUFFICES ASSUME cursor'.last \in D PROVE FALSE
      OBVIOUS
    <3>1. cursor'.last < plan.before /\ plan.before \in Nat
      BY <1>2, <1>5
    <3> QED
      BY <1>3, <1>5, <2>1, <3>1
  <2> QED
    BY <1>3, <2>1, <2>2
<1>7. Solid'
  <2> SUFFICES ASSUME answer.validity = validity, NEW u \in Present, NEW c \in Cached \cup D,
                      c <= u, u <= cursor.last
               PROVE  u \in Cached \cup D
    BY <1>1, <1>3, <1>4, <1>5, <1>6 DEF Solid
  <2>1. CASE c \in Cached \/ plan.before <= u
    BY <1>2, <2>1 DEF HoleInv, Solid
  <2>2. CASE c \in D /\ u < plan.before
    BY <1>2, <2>2 DEF FillsUpTo
  <2>3. plan.before \in Nat /\ u \in Nat
    BY <1>2, <1>5
  <2> QED
    BY <2>1, <2>2, <2>3
<1>8. ForwardInv' /\ IndexInv' /\ HistoryInv'
  BY <1>1 DEF ForwardInv, IndexInv, HistoryInv
<1> QED
  BY <1>3, <1>7, <1>8 DEF HoleInv

\* An index removes only what the folder does not have.
LEMMA ReconcileKeepsNoHole ==
  ASSUME Base, HoleInv, ReconcileMailboxIndex
  PROVE  HoleInv'
<1>1. /\ pc = "indexed" /\ UNCHANGED <<validity, uid, box, arrived>>
      /\ answer' = NoAnswer /\ pc' \in {"idle", "flush"}
  BY DEF ReconcileMailboxIndex, Goto, Rest, serverVars, PassEnds
<1>2. CASE IdentityChanged(answer)
  <2>1. UNCHANGED cursor /\ Cached' = Cached
    BY <1>2 DEF ReconcileMailboxIndex, cacheVars, Cached
  <2> QED
    BY <1>1, <2>1, EmptyHands
<1>3. CASE ~IdentityChanged(answer)
  <2>1. Cached' = Cached \ Gone(answer) /\ cursor' = cursor
    BY <1>3 DEF ReconcileMailboxIndex, ReconcileIndex, Cached
  <2>2. Gone(answer) \cap DOMAIN answer.mail = {}
    BY DEF Gone
  <2>3. /\ answer.validity = cursor.validity
        /\ answer.validity = validity =>
             \A u \in Present : u <= cursor.last => u \in DOMAIN answer.mail
    BY <1>1 DEF HoleInv, IndexInv
  <2>4. Present' = Present
    BY <1>1 DEF Present
  <2>5. answer'.validity <= validity
    BY <1>1, HoleTypes DEF NoAnswer
  <2>6. CursorInv' /\ Solid'
    BY <1>1, <2>1, <2>2, <2>3, <2>4, <2>5 DEF HoleInv, CursorInv, Solid, Bears
  <2>7. ForwardInv' /\ IndexInv' /\ HistoryInv'
    BY <1>1 DEF ForwardInv, IndexInv, HistoryInv
  <2> QED
    BY <2>6, <2>7 DEF HoleInv
<1> QED
  BY <1>2, <1>3

\* Every step keeps every page bordering on the cache, and the cache solid.
LEMMA HoleStep == Base /\ HoleInv /\ [Next]_vars => HoleInv'
<1> SUFFICES ASSUME Base, HoleInv, [Next]_vars PROVE HoleInv'
  OBVIOUS
<1>1. CASE UNCHANGED <<inst, cursor, answer, plan, pc>>
  BY <1>1, ServerKeepsNoHole
<1>2. CASE UNCHANGED vars \/ Server \/ Reading
  BY <1>1, <1>2
     DEF vars, Server, Arrive, Renumber, ElsewhereExpunged, ElsewhereMarked, Untouched,
         Reading, BodyFetched, BodyFetchFails, StoreHydratedBody, ReaderOnly, cacheVars,
         passVars
<1>3. ASSUME NEW u \in Uids,
             OperationRefused(u) \/ HideMessage(u) \/ \E read \in BOOLEAN : MutateMessage(u, read)
      PROVE  HoleInv'
  <2>1. Cached' = Cached
    <3>1. \/ inst' = inst
          \/ /\ u \in Cached
             /\ \E value \in BOOLEAN : \/ inst' = [inst EXCEPT ![u].seen = value]
                                      \/ inst' = [inst EXCEPT ![u].hidden = value]
      BY <1>3 DEF OperationRefused, Restore, HideMessage, MutateMessage, Visible
    <3> QED
      BY <3>1, OneRowChanges DEF Cached, Base, Support
  <2>2. CASE OperationRefused(u)
    BY <2>1, <2>2, EmptyHands DEF OperationRefused, PassEnds, serverVars
  <2>3. CASE HideMessage(u) \/ \E read \in BOOLEAN : MutateMessage(u, read)
    BY <2>1, <2>3, RowChangesKeepNoHole DEF HideMessage, MutateMessage, serverVars, passVars
  <2> QED
    BY <1>3, <2>2, <2>3
<1>4. CASE User
  BY <1>1, <1>3, <1>4 DEF User, ClearCache, OpenMessage, cacheVars, passVars
<1>5. CASE SkipQuietFolder \/ FlushDone \/ PassFails \/ PassStops
  <2>1. /\ UNCHANGED <<validity, uid, box, arrived, cursor, inst>>
        /\ answer' = NoAnswer \/ answer' = answer
        /\ pc' \in {"idle", "flush", "window"}
    BY <1>5 DEF SkipQuietFolder, FlushDone, PassFails, PassStops, PassEnds, Goto, CacheKept,
                Rest, cacheVars, serverVars
  <2> QED
    BY <2>1, EmptyHands DEF Cached
<1>6. CASE PassStops \/ \E mode \in {"full", "quick"} : StartPass(mode)
  BY <1>5, <1>6, PlansKeepNoHole
<1>7. CASE \E u \in Uids : UploadFlags(u) \/ UploadMove(u)
  BY <1>1, <1>7 DEF UploadFlags, UploadMove, cacheVars, passVars
<1>8. CASE PassStep
  BY <1>3, <1>5, <1>7, <1>8, PlansKeepNoHole, SearchKeepsNoHole, FetchKeepsNoHole,
     ForwardKeepsNoHole, HistoryKeepsNoHole, ReconcileKeepsNoHole DEF PassStep
<1> QED
  BY <1>2, <1>4, <1>6, <1>8 DEF Next

\* The inductive invariant of the walk over the folder: every page in a pass's hands borders
\* on the cache, whatever has arrived, gone or been renumbered since it was asked for.
THEOREM HoleInvHolds == Spec => [](Base /\ HoleInv)
<1>1. Spec => []Base
  BY ValueInvHolds, PTL DEF Base
<1> QED
  BY <1>1, HoleInit, HoleStep, PTL DEF Spec

\* Between the oldest row of the cache and the cursor no letter that the folder has is
\* missing, for every size and number of pages (fetch_messages_on_session,
\* fetch_messages_before_on_session, next_incremental_plan, next_backfill_before_uid).
THEOREM NoHoleEver == Spec => []NoHole
<1>1. Base /\ HoleInv => NoHole
  BY SolidIsNoHole
<1> QED
  BY <1>1, HoleInvHolds, PTL

-----------------------------------------------------------------------------
(***************************************************************************)
(* What a pass leaves behind.                                              *)
(***************************************************************************)

\* A row that is hidden waits to be moved, or the folder has its letter no longer.
HiddenIsGone ==
  cursor.validity = validity =>
    \A u \in Cached : inst[u].hidden => u \in moving \/ u \notin Present

\* The server changes, or a reader, or a pass that only reads.
LEMMA ServerKeepsHidden ==
  ASSUME Base, HoleInv, HiddenIsGone, [Next]_vars, UNCHANGED <<inst, cursor, moving>>
  PROVE  HiddenIsGone'
<1>1. CASE validity' = validity + 1
  <2>1. cursor.validity # validity'
    BY <1>1, HoleTypes DEF HoleInv, CursorInv
  <2> QED
    BY <2>1 DEF HiddenIsGone
<1>2. CASE /\ validity' = validity
           /\ \A u \in Present' \ Present :
                u \in Nat \ {0} /\ \A l, w : Bears(l, validity, w) => w < u
  <2> SUFFICES ASSUME cursor.validity = validity, NEW u \in Cached, inst[u].hidden,
                      u \in Present', u \notin Present
               PROVE  FALSE
    BY <1>2 DEF HiddenIsGone, Cached
  <2>1. Bears(inst[u].letter, validity, u)
    BY DEF Base, Support, IdentityInv, CacheInv
  <2>2. u \in Nat /\ u < u
    BY <1>2, <2>1
  <2> QED
    BY <2>2
<1> QED
  BY <1>1, <1>2, UidStep DEF Base, Support, IdentityInv

\* A move that was carried out, or refused, and a row that is marked or hidden.
LEMMA OperationsKeepHidden ==
  ASSUME Base, HiddenIsGone, NEW u \in Uids,
         \/ UploadMove(u) \/ OperationRefused(u) \/ HideMessage(u)
         \/ \E read \in BOOLEAN : MutateMessage(u, read)
  PROVE  HiddenIsGone'
<1>1. UNCHANGED <<validity, uid, cursor>>
  BY DEF UploadMove, OperationRefused, HideMessage, MutateMessage, cacheVars, serverVars
<1>2. CASE UploadMove(u)
  <2>1. /\ inst' = inst /\ moving' = moving \ {u}
        /\ box' = IF u \in Present THEN box \ {LetterAt(u)} ELSE box
    BY <1>2 DEF UploadMove, cacheVars
  <2>2. Present' \subseteq Present
    BY <1>1, <2>1 DEF Present
  <2>3. u \notin Present'
    <3> SUFFICES ASSUME u \in Present' PROVE FALSE
      OBVIOUS
    <3>1. u \in Present
      BY <2>2
    <3>2. PICK l \in box : l # LetterAt(u) /\ uid[validity][l] = u
      BY <1>1, <2>1, <3>1 DEF Present
    <3>3. LetterAt(u) \in box /\ uid[validity][LetterAt(u)] = u
      BY <3>1, PresentIsFinite DEF Base, Support, IdentityInv
    <3>4. /\ validity \in Validities /\ l \in Letters /\ LetterAt(u) \in Letters
          /\ uid[validity][l] # 0
      BY <3>2, <3>3, MailCacheAssumption DEF Base, Support, IdentityInv, ServerInv, Letters
    <3> QED
      BY <3>2, <3>3, <3>4 DEF Base, Support, IdentityInv, ServerInv
  <2> QED
    BY <1>1, <2>1, <2>2, <2>3 DEF HiddenIsGone, Cached
<1>3. ASSUME Present' = Present, Cached' = Cached, moving \ {u} \subseteq moving',
             \A w \in Cached : w # u => inst'[w] = inst[w],
             u \in Cached /\ inst'[u].hidden => u \in moving' \/ (inst[u].hidden /\ u \notin moving)
      PROVE  HiddenIsGone'
  BY <1>1, <1>3 DEF HiddenIsGone
<1>4. CASE OperationRefused(u)
  <2>1. Present' = Present
    BY <1>4 DEF OperationRefused, serverVars, Present
  <2>2. CASE UNCHANGED <<moving, inst>>
    BY <1>3, <2>1, <2>2 DEF Cached
  <2>3. CASE flag[u] = "none" /\ moving' = moving \ {u} /\ Restore(u)
    <3>1. u \in moving /\ u \in Cached /\ inst[u].hidden
      BY <1>4, <2>3 DEF OperationRefused, HasOp, Base, Support, IntentInv, IntentIsShown
    <3>2. inst' = [inst EXCEPT ![u].hidden = FALSE]
      BY <2>3, <3>1 DEF Restore
    <3>3. Cached' = Cached /\ inst'[u].hidden = FALSE /\ \A w \in Cached : w # u => inst'[w] = inst[w]
      BY <3>1, <3>2, OneRowChanges DEF Base, Support
    <3> QED
      BY <1>3, <2>1, <2>3, <3>3
  <2> QED
    BY <1>4, <2>2, <2>3 DEF OperationRefused
<1>5. CASE HideMessage(u)
  <2>1. /\ Present' = Present /\ u \in Cached /\ moving' = moving \cup {u}
        /\ inst' = [inst EXCEPT ![u].hidden = TRUE]
    BY <1>5 DEF HideMessage, serverVars, Present, Visible
  <2>2. Cached' = Cached /\ \A w \in Cached : w # u => inst'[w] = inst[w]
    BY <2>1, OneRowChanges DEF Base, Support
  <2> QED
    BY <1>3, <2>1, <2>2
<1>6. ASSUME NEW read \in BOOLEAN, MutateMessage(u, read)
      PROVE  HiddenIsGone'
  <2>1. /\ Present' = Present /\ u \in Cached /\ ~inst[u].hidden /\ moving' = moving
        /\ inst' = [inst EXCEPT ![u].seen = read]
    BY <1>6 DEF MutateMessage, serverVars, Present, Visible
  <2>2. /\ Cached' = Cached /\ inst'[u].hidden = inst[u].hidden
        /\ \A w \in Cached : w # u => inst'[w] = inst[w]
    BY <2>1, OneRowChanges DEF Base, Support
  <2> QED
    BY <1>3, <2>1, <2>2
<1> QED
  BY <1>2, <1>4, <1>5, <1>6

\* A page shows again what nobody moves, and an index removes rows.
LEMMA AnswersKeepHidden ==
  ASSUME Base, HoleInv, HiddenIsGone, UNCHANGED <<validity, uid, box>>,
         \/ \E withBodies \in BOOLEAN : ApplyImapSnapshot(answer, withBodies)
         \/ ReconcileIndex(answer)
  PROVE  HiddenIsGone'
<1> DEFINE D == DOMAIN answer.mail
<1>1. Present' = Present
  BY DEF Present
<1>2. ASSUME NEW withBodies \in BOOLEAN, ApplyImapSnapshot(answer, withBodies)
      PROVE  HiddenIsGone'
  <2> DEFINE left == Kept(answer) \ Stale(answer)
  <2>1. /\ inst' = [u \in left \cup D |-> IF u \in D THEN Incoming(answer, u) ELSE inst[u]]
        /\ moving' = moving \cap left /\ cursor'.validity = answer.validity
    BY <1>2 DEF ApplyImapSnapshot, CascadeOps, Merged
  <2>2. Kept(answer) # {} => Kept(answer) = Cached /\ cursor.validity = answer.validity
    BY HoleTypes DEF Kept, IdentityChanged
  <2>3. Stale(answer) \cap D = {} /\ \A u \in moving : u \notin Stale(answer)
    BY DEF Stale, HasOp
  <2>4. \A u \in D : Incoming(answer, u).hidden => u \in Kept(answer) /\ u \in moving
    BY DEF Incoming
  <2> HIDE DEF D
  <2>5. ASSUME answer.validity = validity, NEW u \in left \cup D, inst'[u].hidden,
               u \notin moving', u \in Present
        PROVE  FALSE
    <3>1. CASE u \in D
      <4>1. inst'[u] = Incoming(answer, u)
        BY <2>1, <3>1
      <4> QED
        BY <2>1, <2>3, <2>4, <2>5, <3>1, <4>1
    <3>2. CASE u \notin D
      <4>1. inst'[u] = inst[u] /\ u \in left
        BY <2>1, <2>5, <3>2
      <4> QED
        BY <2>1, <2>2, <2>5, <4>1 DEF HiddenIsGone
    <3> QED
      BY <3>1, <3>2
  <2>6. Cached' = left \cup D
    BY <2>1 DEF Cached
  <2> QED
    BY <1>1, <2>1, <2>5, <2>6 DEF HiddenIsGone
<1>3. CASE ReconcileIndex(answer)
  <2> DEFINE left == Cached \ Gone(answer)
             Row(u) == IF u \in D THEN [inst[u] EXCEPT !.seen = Overlay(u, answer.mail[u].seen)]
                       ELSE inst[u]
  <2>1. /\ inst' = [u \in left |-> Row(u)] /\ moving' = moving \cap left /\ cursor' = cursor
    BY <1>3 DEF ReconcileIndex, CascadeOps
  <2>2. Cached' = left
    BY <2>1 DEF Cached
  <2>3. \A u \in left : Row(u).hidden = inst[u].hidden
    BY DEF Base, Support, IntentInv, RowsAreRows
  <2> HIDE DEF Row
  <2> QED
    BY <1>1, <2>1, <2>2, <2>3 DEF HiddenIsGone
<1> QED
  BY <1>2, <1>3

\* Every step keeps it so.
LEMMA HiddenStep == Base /\ HoleInv /\ HiddenIsGone /\ [Next]_vars => HiddenIsGone'
<1> SUFFICES ASSUME Base, HoleInv, HiddenIsGone, [Next]_vars PROVE HiddenIsGone'
  OBVIOUS
<1>1. CASE UNCHANGED <<inst, cursor, moving>>
  BY <1>1, ServerKeepsHidden
<1>2. CASE UNCHANGED vars \/ Server \/ Reading
  BY <1>1, <1>2
     DEF vars, Server, Arrive, Renumber, ElsewhereExpunged, ElsewhereMarked, Untouched,
         Reading, BodyFetched, BodyFetchFails, StoreHydratedBody, ReaderOnly, cacheVars, opVars
<1>3. CASE User
  BY <1>1, <1>3, OperationsKeepHidden DEF User, ClearCache, OpenMessage, cacheVars, opVars
<1>4. CASE PassStops \/ \E mode \in {"full", "quick"} : StartPass(mode)
  BY <1>1, <1>4 DEF PassStops, StartPass, CacheKept, cacheVars, opVars
<1>5. CASE PassStep
  <2>1. CASE ApplyHistoryPage \/ \E withBodies \in BOOLEAN : ApplyForwardPage(withBodies)
    BY <2>1, AnswersKeepHidden DEF ApplyHistoryPage, ApplyForwardPage, Rest, serverVars
  <2>2. CASE ReconcileMailboxIndex
    BY <1>1, <2>2, AnswersKeepHidden DEF ReconcileMailboxIndex, Rest, serverVars, cacheVars, opVars
  <2>3. ASSUME NEW u \in Uids, UploadFlags(u) \/ UploadMove(u) \/ OperationRefused(u)
        PROVE  HiddenIsGone'
    BY <1>1, <2>3, OperationsKeepHidden DEF UploadFlags, cacheVars
  <2>4. CASE \/ Examine \/ SearchAndFetch \/ SkipQuietFolder \/ FetchMailboxIndex
             \/ FlushDone \/ LoadWindow \/ FetchHistoryPage \/ PassFails
    BY <1>1, <2>4 DEF Examine, SearchAndFetch, SkipQuietFolder, FetchMailboxIndex, FlushDone,
                      LoadWindow, FetchHistoryPage, PassFails, CacheKept, cacheVars, opVars
  <2> QED
    BY <1>5, <2>1, <2>2, <2>3, <2>4 DEF PassStep
<1> QED
  BY <1>2, <1>3, <1>4, <1>5 DEF Next

\* What the user has moved away stays out of sight only as long as the move waits or was
\* carried out: a refused move, a renumbered folder or a page never leaves a letter of the
\* folder behind a hidden row (hide_message_instance, restore_message_instance).
THEOREM HiddenIsAlwaysGone == Spec => []HiddenIsGone
<1>1. Init => HiddenIsGone
  BY DEF Init, HiddenIsGone, Cached, Empty
<1> QED
  BY <1>1, HoleInvHolds, HiddenStep, PTL DEF Spec

\* No choice of the user is on its way, and the counters are those of the folder.
NothingWaits == \A u \in Uids : ~HasOp(u)
Counted == total = Cardinality(Present) /\ unread = Cardinality(Unseen)

\* The cache is a stretch of the folder as it is, up to the cursor.
UpToDate ==
  /\ cursor.validity = validity /\ Cached \subseteq Present
  /\ \A u \in Cached : ~inst[u].hidden /\ inst[u].seen = (u \notin Unseen)
  /\ \A u \in Present, c \in Cached : c <= u /\ u <= cursor.last => u \in Cached

\* What the server answers of a flag is what SEARCH UNSEEN says of it.
LEMMA SeenIsNotUnseen ==
  ASSUME ServerInv, UidInv, NEW U, U \subseteq Present, NEW u \in U
  PROVE  MailAt(U)[u].seen = (u \notin Unseen)
<1>1. LetterAt(u) \in box /\ uid[validity][LetterAt(u)] = u /\ u \in Uids
  BY PresentIsFinite
<1>2. \A l \in box : uid[validity][l] = u => l = LetterAt(u)
  <2>1. u # 0 /\ validity \in Validities /\ box \subseteq Letters
    BY <1>1, MailCacheAssumption DEF ServerInv, Letters, Uids
  <2> QED
    BY <1>1, <2>1 DEF ServerInv
<1>3. (LetterAt(u) \in srvRead) <=> (u \notin Unseen)
  BY <1>1, <1>2 DEF Unseen
<1>4. MailAt(U)[u].seen = (LetterAt(u) \in srvRead)
  BY DEF MailAt
<1> QED
  BY <1>3, <1>4

\* An index of the folder as it is.
LEMMA IndexStep ==
  ASSUME Base, HoleInv, HiddenIsGone, NothingWaits, ReconcileMailboxIndex,
         answer.validity = validity, answer.mail = MailAt(Present)
  PROVE  UpToDate' /\ Counted' /\ NothingWaits' /\ Cached' = Cached \cap Present
<1> DEFINE left == Cached \cap Present
           Row(u) == [inst[u] EXCEPT !.seen = Overlay(u, answer.mail[u].seen)]
<1>1. /\ DOMAIN answer.mail = Present /\ Present \subseteq Uids /\ Cached \subseteq Uids
      /\ Unseen \subseteq Present
  BY HoleTypes, PresentIsFinite DEF MailAt, Base, Support, IdentityInv
<1>2. cursor.validity = validity /\ ~IdentityChanged(answer)
  <2>1. answer.validity = cursor.validity
    BY DEF ReconcileMailboxIndex, HoleInv, IndexInv
  <2> QED
    BY <2>1 DEF IdentityChanged, Base, Support, IdentityInv, CacheInv
<1>3. ReconcileIndex(answer) /\ UNCHANGED <<validity, uid, box, srvRead>>
  BY <1>2 DEF ReconcileMailboxIndex, Rest, serverVars
<1>4. Present' = Present /\ Unseen' = Unseen /\ validity' = validity
  BY <1>3 DEF Present, Unseen
<1>5. Cached \ Gone(answer) = left
  BY <1>1 DEF Gone, NothingWaits
<1>6. inst' = [u \in left |-> Row(u)]
  <2>1. inst' = [u \in Cached \ Gone(answer) |-> IF u \in DOMAIN answer.mail THEN Row(u) ELSE inst[u]]
    BY <1>3 DEF ReconcileIndex
  <2> HIDE DEF Row
  <2> QED
    BY <1>1, <1>5, <2>1
<1>7. ASSUME NEW u \in left
      PROVE  Row(u).hidden = FALSE /\ Row(u).seen = (u \notin Unseen)
  <2>1. inst[u] = [letter |-> inst[u].letter, validity |-> inst[u].validity,
                   seen |-> inst[u].seen, hidden |-> inst[u].hidden]
    BY DEF Base, Support, IntentInv, RowsAreRows
  <2>2. Row(u).hidden = inst[u].hidden /\ Row(u).seen = Overlay(u, answer.mail[u].seen)
    BY <2>1
  <2>3. u \notin moving /\ flag[u] = "none"
    BY <1>1 DEF NothingWaits, HasOp
  <2>4. inst[u].hidden = FALSE
    <3>1. inst[u].hidden \in BOOLEAN
      BY DEF Base, ValueInv, RowValues
    <3> QED
      BY <1>2, <2>3, <3>1 DEF HiddenIsGone
  <2>5. Overlay(u, answer.mail[u].seen) = answer.mail[u].seen
    BY <2>3 DEF Overlay
  <2>6. answer.mail[u].seen = (u \notin Unseen)
    BY SeenIsNotUnseen DEF Base, Support, IdentityInv
  <2> QED
    BY <2>2, <2>4, <2>5, <2>6
<1> HIDE DEF Row
<1>8. /\ Cached' = left
      /\ \A u \in left : inst'[u].hidden = FALSE /\ inst'[u].seen = (u \notin Unseen)
  BY <1>6, <1>7 DEF Cached
<1>9. UpToDate'
  <2>1. cursor' = cursor
    BY <1>3 DEF ReconcileIndex
  <2>2. \A u \in Present, c \in left : c <= u /\ u <= cursor.last => u \in left
    BY <1>2 DEF HoleInv, Solid
  <2> HIDE DEF left
  <2>3. /\ Cached' \subseteq Present
        /\ \A u \in Cached' : ~inst'[u].hidden /\ inst'[u].seen = (u \notin Unseen)
    BY <1>8 DEF left
  <2> QED
    BY <1>2, <1>4, <1>8, <2>1, <2>2, <2>3 DEF UpToDate
<1>10. NothingWaits'
  <2>1. flag' = [u \in Uids |-> IF u \in left THEN flag[u] ELSE "none"] /\ moving' = moving \cap left
    <3>1. CascadeOps(left)
      BY <1>3, <1>5, <1>8 DEF ReconcileIndex, Cached
    <3> QED
      BY <3>1 DEF CascadeOps
  <2> HIDE DEF left
  <2> QED
    BY <2>1 DEF NothingWaits, HasOp
<1>11. Counted'
  <2> DEFINE R == {u \in left : u \in Unseen}
             count == Cardinality(Present) + Cardinality({}) - Cardinality({})
             new == Cardinality(Unseen \ left) + Cardinality(R)
  <2>1. /\ DOMAIN inst' = left
        /\ {u \in DOMAIN inst' \ DOMAIN answer.mail : ~inst'[u].hidden} = {}
        /\ DOMAIN inst' \cap DOMAIN answer.mail = left
        /\ {u \in left : inst'[u].hidden} = {}
    BY <1>1, <1>8 DEF Cached
  <2>2. UnseenIn(answer) = Unseen
    <3>1. \A u \in Present : answer.mail[u].seen = (u \notin Unseen)
      BY SeenIsNotUnseen DEF Base, Support, IdentityInv
    <3> QED
      BY <1>1, <3>1 DEF UnseenIn
  <2>3. UnreadOf(inst', left) = R
    BY <1>8 DEF UnreadOf
  <2>4. total' = Max0(count) /\ unread' = Clamp(new, Max0(count))
    <3> DEFINE i == [u \in Cached \ Gone(answer) |->
                       IF u \in DOMAIN answer.mail
                         THEN [inst[u] EXCEPT !.seen = Overlay(u, answer.mail[u].seen)]
                         ELSE inst[u]]
               outside == {u \in DOMAIN i \ DOMAIN answer.mail : ~i[u].hidden}
               inside == DOMAIN i \cap DOMAIN answer.mail
               n == Cardinality(DOMAIN answer.mail) + Cardinality(outside)
                      - Cardinality({u \in inside : i[u].hidden})
               m == Cardinality(UnseenIn(answer) \ inside) + Cardinality(UnreadOf(i, DOMAIN i))
    <3>1. inst' = i /\ total' = Max0(n) /\ unread' = Clamp(m, Max0(n))
      BY <1>3 DEF ReconcileIndex
    <3> HIDE DEF i
    <3>2. DOMAIN i = left /\ outside = {} /\ inside = left /\ {u \in inside : i[u].hidden} = {}
      BY <2>1, <3>1
    <3>3. n = count
      BY <1>1, <3>2
    <3>4. m = new
      BY <2>2, <2>3, <3>1, <3>2
    <3> HIDE DEF n, m
    <3> QED
      BY <3>1, <3>3, <3>4
  <2>5. /\ Cardinality(Present) \in Nat /\ Cardinality(Unseen) \in Nat
        /\ Cardinality(Unseen) <= Cardinality(Present)
    BY <1>1, CountsOfUids
  <2>6. count = Cardinality(Present)
    BY <2>5, FS_EmptySet
  <2>7. new = Cardinality(Unseen)
    <3>1. R \subseteq Unseen /\ Unseen \ left = Unseen \ R /\ Unseen \subseteq Uids
      BY <1>1
    <3> HIDE DEF R, left
    <3>2. Cardinality(Unseen \ R) = Cardinality(Unseen) - Cardinality(R) /\ Cardinality(R) \in Nat
      BY <3>1, CountsOfUids
    <3> QED
      BY <2>5, <3>1, <3>2
  <2> HIDE DEF count, new
  <2>8. Max0(count) = count /\ Clamp(new, count) = new
    <3>1. count \in Nat /\ new \in Nat /\ new <= count
      BY <2>5, <2>6, <2>7
    <3>2. Max0(count) = count
      BY <3>1, FloorsAreNat
    <3>3. Clamp(new, count) = new
      BY <3>1, FloorsAreNat
    <3> QED
      BY <3>2, <3>3
  <2> QED
    BY <1>4, <2>4, <2>6, <2>7, <2>8 DEF Counted
<1> QED
  BY <1>8, <1>9, <1>10, <1>11

\* An index of the folder as it is, applied when nothing waits for upload, makes the cache
\* the folder's own letters and flags from its oldest row up to the cursor, with the counters of the
\* whole folder (reconcile_imap_mailbox_index), whatever earlier passes have left there.
IndexUpdates ==
  ReconcileMailboxIndex /\ NothingWaits /\ answer.validity = validity /\ answer.mail = MailAt(Present)
    => UpToDate' /\ Counted' /\ NothingWaits'

\* Every index does that, whatever the passes before it have left (reconcile_imap_mailbox_index).
THEOREM IndexBringsUpToDate == Spec => [][IndexUpdates]_vars
<1>1. Base /\ HoleInv /\ HiddenIsGone /\ [Next]_vars => [IndexUpdates]_vars
  BY IndexStep DEF IndexUpdates
<1> QED
  BY <1>1, HoleInvHolds, HiddenIsAlwaysGone, PTL DEF Spec

\* The answer in a pass's hands is what the server would say now.
Current ==
  /\ pc \in {"search", "received", "older", "olderReceived"} =>
       /\ answer.validity = validity
       /\ answer.total = Cardinality(Present) /\ answer.unread = Cardinality(Unseen)
       /\ DOMAIN answer.mail \subseteq Present /\ answer.mail = MailAt(DOMAIN answer.mail)
  /\ pc = "indexed" => answer.validity = validity /\ answer.mail = MailAt(Present)

\* The folder is shown as it is, and what is under way will not say otherwise.
Settled == Converged /\ Counted /\ NothingWaits /\ Current

\* Another client, the server or the user changes the folder.
Disturbs ==
  \/ Server
  \/ \E u \in Uids : HideMessage(u) \/ \E read \in BOOLEAN : MutateMessage(u, read)

\* A page that tells nothing new changes no row and no counter.
LEMMA SettledSnapshot ==
  ASSUME Base, HoleInv, Settled, pc \in {"received", "olderReceived"},
         NEW withBodies, ApplyImapSnapshot(answer, withBodies),
         UNCHANGED <<validity, uid, box, srvRead>>
  PROVE  Converged' /\ Counted' /\ NothingWaits'
<1> DEFINE D == DOMAIN answer.mail
           i == Merged(answer)
<1>1. /\ cursor.validity = validity /\ Visible = Present /\ answer.validity = validity
      /\ answer.total = Cardinality(Present) /\ answer.unread = Cardinality(Unseen)
      /\ D \subseteq Present /\ answer.mail = MailAt(D)
      /\ \A u \in Visible : inst[u].seen = (u \notin Unseen)
      /\ Present' = Present /\ Unseen' = Unseen
  BY DEF Settled, Converged, Current, Present, Unseen
<1>2. /\ D \subseteq Cached /\ Cached \subseteq Uids /\ Present \subseteq Uids
      /\ Visible \subseteq Cached /\ Unseen \subseteq Present
  BY <1>1, HoleTypes, PresentIsFinite DEF Visible, Base, Support, IdentityInv
<1>3. Kept(answer) = Cached
  BY <1>1 DEF Kept, IdentityChanged, Base, Support, IdentityInv, CacheInv
<1>4. Stale(answer) = {}
  <2>1. CASE answer.complete
    <3>1. cursor.last = 0
      BY <1>1, <2>1 DEF HoleInv, ForwardInv, HistoryInv
    <3> QED
      BY <1>3, <3>1, HoleTypes DEF Stale
  <2> QED
    BY <2>1 DEF Stale
<1>5. /\ \A u \in Uids : u \notin moving /\ flag[u] = "none" /\ ~HasOp(u)
  BY DEF Settled, NothingWaits, HasOp
<1>6. DOMAIN i = Cached
  <2>1. DOMAIN i = Cached \cup D
    BY <1>3, <1>4 DEF Merged
  <2> QED
    BY <1>2, <2>1
<1>7. ASSUME NEW u \in D
      PROVE  /\ i[u].hidden = FALSE /\ i[u].seen = answer.mail[u].seen
             /\ answer.mail[u].seen = (u \notin Unseen)
  <2>1. u \in Uids /\ u \in Kept(answer)
    BY <1>2, <1>3
  <2>2. i[u] = Incoming(answer, u)
    BY <1>2, <1>3, <1>4 DEF Merged
  <2>3. Incoming(answer, u).hidden = FALSE
    BY <1>5, <2>1 DEF Incoming
  <2>4. Incoming(answer, u).seen = answer.mail[u].seen
    BY <1>5, <2>1 DEF Incoming, Overlay
  <2>5. answer.mail[u].seen = (u \notin Unseen)
    <3> HIDE DEF D
    <3>1. MailAt(D)[u].seen = (u \notin Unseen)
      BY <1>1, SeenIsNotUnseen DEF Base, Support, IdentityInv
    <3> QED
      BY <1>1, <3>1
  <2> QED
    BY <2>2, <2>3, <2>4, <2>5
<1>8. ASSUME NEW u \in Cached, u \notin D
      PROVE  i[u] = inst[u]
  BY <1>3, <1>4, <1>8 DEF Merged
<1>9. /\ inst' = i /\ cursor'.validity = validity
      /\ CascadeOps(Cached) /\ Project(answer, i)
  BY <1>1, <1>3, <1>4 DEF ApplyImapSnapshot
<1> HIDE DEF i
<1>10. Cached' = Cached
  BY <1>6, <1>9 DEF Cached
<1>11. Visible' = Visible
  <2>1. D \subseteq Visible
    BY <1>1
  <2>2. ASSUME NEW u \in Cached PROVE inst'[u].hidden <=> inst[u].hidden
    <3>1. CASE u \in D
      BY <1>7, <1>9, <2>1, <3>1 DEF Visible
    <3>2. CASE u \notin D
      BY <1>8, <1>9, <3>2
    <3> QED
      BY <3>1, <3>2
  <2> QED
    BY <1>10, <2>2 DEF Visible
<1>12. Converged'
  <2>1. ASSUME NEW u \in Visible PROVE inst'[u].seen = (u \notin Unseen)
    <3>1. CASE u \in D
      BY <1>7, <1>9, <3>1
    <3>2. CASE u \notin D
      BY <1>1, <1>2, <1>8, <1>9, <3>2
    <3> QED
      BY <3>1, <3>2
  <2>2. validity' = validity
    OBVIOUS
  <2> QED
    BY <1>1, <1>9, <1>11, <2>1, <2>2 DEF Converged
<1>13. NothingWaits'
  BY <1>5, <1>9 DEF CascadeOps, NothingWaits, HasOp
<1>14. Counted'
  <2> DEFINE outside == {u \in DOMAIN i \ D : HasOp(u)}
             shown == IF answer.complete THEN {u \in outside : ~i[u].hidden} ELSE {}
             H == {u \in D : i[u].hidden}
             R == UnreadOf(i, D \cup shown)
             N == UnseenIn(answer)
             count == answer.total - Cardinality(H) + Cardinality(shown)
             new == answer.unread - Cardinality(N) + Cardinality(R)
  <2>1. outside = {} /\ shown = {}
    BY <1>2, <1>5, <1>6
  <2>2. H = {}
    BY <1>7
  <2>3. R = N
    <3>1. \A u \in D : ~i[u].hidden /\ ~i[u].seen <=> ~answer.mail[u].seen
      BY <1>7
    <3>2. R = {u \in D : ~i[u].hidden /\ ~i[u].seen}
      BY <2>1 DEF UnreadOf
    <3> QED
      BY <3>1, <3>2 DEF UnseenIn
  <2>4. total' = Max0(count) /\ unread' = Clamp(new, Max0(count))
    <3>1. outside = {} => total' = Max0(count) /\ unread' = Clamp(new, Max0(count))
      BY <1>9 DEF Project
    <3> QED
      BY <2>1, <3>1
  <2>5. /\ Cardinality(Present) \in Nat /\ Cardinality(Unseen) \in Nat
        /\ Cardinality(Unseen) <= Cardinality(Present) /\ Cardinality(N) \in Nat
    <3>1. N \subseteq Uids
      BY <1>2 DEF UnseenIn
    <3> HIDE DEF N
    <3> QED
      BY <1>2, <3>1, CountsOfUids
  <2> HIDE DEF H, shown, R, N, D
  <2>6. count = Cardinality(Present)
    BY <1>1, <2>1, <2>2, <2>5, FS_EmptySet
  <2>7. new = Cardinality(Unseen)
    BY <1>1, <2>3, <2>5
  <2> HIDE DEF count, new
  <2>8. Max0(count) = count
    BY <2>5, <2>6, FloorsAreNat
  <2>9. Clamp(new, count) = new
    BY <2>5, <2>6, <2>7, FloorsAreNat
  <2> QED
    BY <1>1, <2>4, <2>6, <2>7, <2>8, <2>9 DEF Counted
<1> QED
  BY <1>12, <1>13, <1>14

\* The server's answers say what the server has.
LEMMA AnswersAreCurrent ==
  ASSUME Base, Current, Examine \/ SearchAndFetch \/ FetchMailboxIndex \/ FetchHistoryPage
  PROVE  Current' /\ UNCHANGED <<opVars, cacheVars>> /\ UNCHANGED <<validity, uid, box, srvRead>>
<1>1. /\ UNCHANGED <<opVars, cacheVars>> /\ UNCHANGED <<validity, uid, box, srvRead>>
      /\ Present' = Present /\ Unseen' = Unseen
  BY DEF Examine, SearchAndFetch, FetchMailboxIndex, FetchHistoryPage, CacheKept, Rest,
         serverVars, Present, Unseen
<1> SUFFICES Current'
  BY <1>1
<1>2. \A U : MailAt(U)' = MailAt(U) /\ DOMAIN MailAt(U) = U
  BY <1>1 DEF MailAt, LetterAt
<1>3. answer = [validity |-> answer.validity, total |-> answer.total, unread |-> answer.unread,
                complete |-> answer.complete, mail |-> answer.mail]
  BY DEF Base, Support, IdentityInv, AnswerInv
<1>4. ASSUME NEW U, U \subseteq Present, pc' \in {"received", "olderReceived"},
             answer'.validity = validity, answer'.mail = MailAt(U),
             answer'.total = Cardinality(Present), answer'.unread = Cardinality(Unseen)
      PROVE  Current'
  BY <1>1, <1>2, <1>4 DEF Current
<1>5. CASE Examine
  <2>1. /\ answer'.validity = validity /\ answer'.total = Cardinality(Present)
        /\ answer'.unread = Cardinality(Unseen) /\ answer'.mail = Empty
        /\ pc' \in {"search", "older"}
    BY <1>5 DEF Examine, NoAnswer, Goto
  <2>2. Empty = MailAt({}) /\ DOMAIN Empty = {}
    BY DEF Empty, MailAt
  <2> QED
    BY <1>1, <1>2, <2>1, <2>2 DEF Current
<1>6. CASE SearchAndFetch
  <2>1. CASE pc' = "examine"
    BY <2>1 DEF Current
  <2>2. CASE pc' # "examine"
    <3> DEFINE full == plan.since = 0 /\ Cardinality(Present) <= PageSize
               U == ForwardPage(plan.since)
    <3>1. /\ pc = "search" /\ pc' = "received" /\ answer.validity = validity
          /\ answer' = [answer EXCEPT !.complete = full, !.mail = MailAt(U)]
      BY <1>6, <2>2 DEF SearchAndFetch, Goto
    <3>2. U \subseteq Present
      BY DEF ForwardPage, Newest, Oldest
    <3> HIDE DEF full, U
    <3>3. answer' = [validity |-> answer.validity, total |-> answer.total,
                     unread |-> answer.unread, complete |-> full, mail |-> MailAt(U)]
      BY <1>3, <3>1
    <3>4. answer.total = Cardinality(Present) /\ answer.unread = Cardinality(Unseen)
      BY <3>1 DEF Current
    <3>5. /\ answer'.validity = validity /\ answer'.mail = MailAt(U)
          /\ answer'.total = Cardinality(Present) /\ answer'.unread = Cardinality(Unseen)
      BY <3>1, <3>3, <3>4
    <3> QED
      BY <1>4, <3>1, <3>2, <3>5
  <2> QED
    BY <2>1, <2>2
<1>7. CASE FetchMailboxIndex
  <2>1. CASE pc' = "idle"
    BY <2>1 DEF Current
  <2>2. CASE pc' # "idle"
    <3>1. /\ pc' = "indexed" /\ answer'.validity = validity /\ answer'.mail = MailAt(Present)
      BY <1>7, <2>2 DEF FetchMailboxIndex, Goto, NoAnswer, PassEnds
    <3> QED
      BY <1>1, <1>2, <3>1 DEF Current
  <2> QED
    BY <2>1, <2>2
<1>8. CASE FetchHistoryPage
  <2>1. CASE pc' = "idle"
    BY <2>1 DEF Current
  <2>2. CASE pc' # "idle"
    <3> DEFINE U == Newest({u \in Present : u < plan.before}, PageSize)
    <3>1. /\ pc = "older" /\ pc' = "olderReceived" /\ answer.validity = validity
          /\ answer' = [answer EXCEPT !.mail = MailAt(U)]
      BY <1>8, <2>2 DEF FetchHistoryPage, Goto, PassEnds
    <3>2. U \subseteq Present
      BY DEF Newest
    <3> HIDE DEF U
    <3>3. answer' = [validity |-> answer.validity, total |-> answer.total,
                     unread |-> answer.unread, complete |-> answer.complete, mail |-> MailAt(U)]
      BY <1>3, <3>1
    <3>4. answer.total = Cardinality(Present) /\ answer.unread = Cardinality(Unseen)
      BY <3>1 DEF Current
    <3>5. /\ answer'.validity = validity /\ answer'.mail = MailAt(U)
          /\ answer'.total = Cardinality(Present) /\ answer'.unread = Cardinality(Unseen)
      BY <3>1, <3>3, <3>4
    <3> QED
      BY <1>4, <3>1, <3>2, <3>5
  <2> QED
    BY <2>1, <2>2
<1> QED
  BY <1>5, <1>6, <1>7, <1>8

\* Nothing but a change of the folder unsettles it.
LEMMA SettledStep ==
  Base /\ HoleInv /\ HiddenIsGone /\ Settled /\ [Next]_vars /\ ~Disturbs => Settled'
<1> SUFFICES ASSUME Base, HoleInv, HiddenIsGone, Settled, [Next]_vars, ~Disturbs
             PROVE  Settled'
  OBVIOUS
<1>1. ASSUME UNCHANGED <<opVars, cacheVars>>, UNCHANGED <<validity, uid, box, srvRead>>, Current'
      PROVE  Settled'
  <2>1. UNCHANGED <<flag, moving, inst, cursor, total, unread>>
    BY <1>1 DEF opVars, cacheVars, countVars
  <2>2. Present' = Present /\ Unseen' = Unseen /\ Visible' = Visible /\ validity' = validity
    BY <1>1, <2>1 DEF Present, Unseen, Visible, Cached
  <2>3. Converged' /\ Counted' /\ NothingWaits'
    BY <2>1, <2>2 DEF Settled, Converged, Counted, NothingWaits, HasOp
  <2> QED
    BY <1>1, <2>3 DEF Settled
<1>2. ASSUME UNCHANGED <<opVars, cacheVars>>, UNCHANGED serverVars,
             UNCHANGED <<pc, answer>> \/ pc' \in {"idle", "examine", "flush", "window", "history"}
      PROVE  Settled'
  <2>1. UNCHANGED <<validity, uid, box, srvRead>>
    BY <1>2 DEF serverVars
  <2>2. Current'
    <3>1. CASE UNCHANGED <<pc, answer>>
      <4>1. Present' = Present /\ Unseen' = Unseen
        BY <2>1 DEF Present, Unseen
      <4>2. MailAt(Present)' = MailAt(Present) /\ MailAt(DOMAIN answer.mail)' = MailAt(DOMAIN answer.mail)
        BY <2>1, <3>1, <4>1 DEF MailAt, LetterAt
      <4> QED
        BY <2>1, <3>1, <4>1, <4>2 DEF Settled, Current
    <3>2. CASE pc' \in {"idle", "examine", "flush", "window", "history"}
      BY <3>2 DEF Current
    <3> QED
      BY <1>2, <3>1, <3>2
  <2> QED
    BY <1>1, <1>2, <2>1, <2>2
<1>3. \A u \in Uids : u \notin moving /\ flag[u] = "none" /\ ~HasOp(u)
  BY DEF Settled, NothingWaits, HasOp
<1>4. CASE UNCHANGED vars \/ Reading \/ ClearCache \/ \E u \in Uids : OpenMessage(u)
  BY <1>2, <1>4 DEF vars, Reading, BodyFetched, BodyFetchFails, StoreHydratedBody, ReaderOnly,
                    ClearCache, OpenMessage, passVars
<1>5. CASE PassStops \/ \E mode \in {"full", "quick"} : StartPass(mode)
  BY <1>2, <1>5 DEF PassStops, StartPass, CacheKept, PassEnds, Goto, Rest
<1>6. CASE SkipQuietFolder \/ FlushDone \/ LoadWindow \/ PassFails
  BY <1>2, <1>6 DEF SkipQuietFolder, FlushDone, LoadWindow, PassFails, CacheKept, PassEnds, Goto,
                    Rest
<1>7. CASE Examine \/ SearchAndFetch \/ FetchMailboxIndex \/ FetchHistoryPage
  BY <1>1, <1>7, AnswersAreCurrent DEF Settled
<1>8. ASSUME NEW u \in Uids, UploadFlags(u) \/ UploadMove(u) \/ OperationRefused(u)
      PROVE  FALSE
  BY <1>3, <1>8 DEF UploadFlags, UploadMove, OperationRefused
<1>9. ASSUME NEW withBodies \in BOOLEAN, ApplyForwardPage(withBodies)
      PROVE  Settled'
  <2>1. /\ pc = "received" /\ ApplyImapSnapshot(answer, withBodies)
        /\ UNCHANGED <<validity, uid, box, srvRead>> /\ pc' \in {"examine", "flush", "index"}
    BY <1>9 DEF ApplyForwardPage, Goto, Rest, serverVars
  <2>2. Converged' /\ Counted' /\ NothingWaits'
    BY <2>1, SettledSnapshot
  <2> QED
    BY <2>1, <2>2 DEF Settled, Current
<1>10. CASE ApplyHistoryPage
  <2>1. /\ pc = "olderReceived" /\ ApplyImapSnapshot(answer, FALSE)
        /\ UNCHANGED <<validity, uid, box, srvRead>> /\ pc' \in {"idle", "window"}
    BY <1>10 DEF ApplyHistoryPage, Goto, Rest, serverVars, PassEnds
  <2>2. Converged' /\ Counted' /\ NothingWaits'
    BY <2>1, SettledSnapshot
  <2> QED
    BY <2>1, <2>2 DEF Settled, Current
<1>11. CASE ReconcileMailboxIndex
  <2>1. /\ pc = "indexed" /\ pc' \in {"idle", "flush"} /\ answer.validity = validity
        /\ answer.mail = MailAt(Present) /\ UNCHANGED <<validity, uid, box, srvRead>>
    BY <1>11 DEF ReconcileMailboxIndex, Goto, PassEnds, Rest, serverVars, Settled, Current
  <2>2. UpToDate' /\ Counted' /\ NothingWaits' /\ Cached' = Cached \cap Present
    BY <1>11, <2>1, IndexStep DEF Settled
  <2>3. Present' = Present /\ Visible = Present
    BY <2>1 DEF Present, Settled, Converged
  <2>4. Visible' = Present'
    BY <2>2, <2>3 DEF UpToDate, Visible
  <2>5. Converged'
    BY <2>2, <2>4 DEF Converged, UpToDate, Visible
  <2> QED
    BY <2>1, <2>2, <2>5 DEF Settled, Current
<1> QED
  BY <1>4, <1>5, <1>6, <1>7, <1>8, <1>9, <1>10, <1>11 DEF Next, User, PassStep, Disturbs

\* Passes leave a folder alone that is shown as it is: quick or full, whole, cancelled or
\* refused, with any pages and any history, they change no row that is shown, no flag and no
\* counter until the folder itself changes (synchronize_account, run again and again by the
\* maintenance timer).
SettledUnlessDisturbed == Settled /\ ~Disturbs => Settled'

\* No step but those of the server, the other clients and the user unsettles a folder
\* (synchronize_account).
THEOREM SettledStays == Spec => [][SettledUnlessDisturbed]_vars
<1>1. Base /\ HoleInv /\ HiddenIsGone /\ [Next]_vars => [SettledUnlessDisturbed]_vars
  BY SettledStep DEF SettledUnlessDisturbed
<1> QED
  BY <1>1, HoleInvHolds, HiddenIsAlwaysGone, PTL DEF Spec

\* An index settles a folder of which nothing is missing in the cache.
IndexSettles ==
  ReconcileMailboxIndex /\ NothingWaits /\ Present \subseteq Cached /\ answer.validity = validity
      /\ answer.mail = MailAt(Present)
    => Settled'

\* Every index that finds the whole folder in the cache leaves it settled: with SettledStays,
\* the safety half of CacheConverges (reconcile_imap_mailbox_index).
THEOREM CompleteIndexSettles == Spec => [][IndexSettles]_vars
<1>1. ASSUME Base, HoleInv, HiddenIsGone, NothingWaits, ReconcileMailboxIndex,
             Present \subseteq Cached, answer.validity = validity, answer.mail = MailAt(Present)
      PROVE  Settled'
  <2>1. UpToDate' /\ Counted' /\ NothingWaits' /\ Cached' = Cached \cap Present
    BY <1>1, IndexStep
  <2>2. Present' = Present /\ pc' \in {"idle", "flush"}
    BY <1>1 DEF ReconcileMailboxIndex, Rest, serverVars, Present, Goto, PassEnds
  <2>3. Visible' = Present'
    BY <1>1, <2>1, <2>2 DEF UpToDate, Visible
  <2>4. Converged' /\ Current'
    BY <2>1, <2>2, <2>3 DEF Converged, UpToDate, Visible, Current
  <2> QED
    BY <2>1, <2>4 DEF Settled
<1>2. Base /\ HoleInv /\ HiddenIsGone /\ [Next]_vars => [IndexSettles]_vars
  BY <1>1 DEF IndexSettles
<1> QED
  BY <1>2, HoleInvHolds, HiddenIsAlwaysGone, PTL DEF Spec

\* A page of the newest that is not full holds all there is.
LEMMA ShortPageIsAll ==
  ASSUME NEW U, U \subseteq Nat, IsFiniteSet(U), NEW n \in Nat, Cardinality(Newest(U, n)) < n
  PROVE  Newest(U, n) = U
<1> DEFINE P == Newest(U, n)
           Out == U \ P
<1>1. P \subseteq U /\ IsFiniteSet(P) /\ IsFiniteSet(Out) /\ Out \subseteq Nat
  <2>1. P \in SUBSET U /\ Out \in SUBSET U
    BY DEF Newest
  <2> HIDE DEF P
  <2> QED
    BY <2>1, FS_Subset
<1> SUFFICES ASSUME Out # {} PROVE FALSE
  BY <1>1
<1> DEFINE u == Max(Out)
           Above == {w \in U : w > u}
<1>2. u \in Out /\ \A y \in Out : u >= y
  <2> HIDE DEF Out
  <2> QED
    BY <1>1, MaxIsGreatest
<1> HIDE DEF u
<1>3. Above \subseteq P
  <2> SUFFICES ASSUME NEW w \in U, w > u, w \notin P PROVE FALSE
    OBVIOUS
  <2>1. w \in Out /\ w \in Nat /\ u \in Nat
    BY <1>1, <1>2
  <2>2. u >= w
    BY <1>2, <2>1
  <2> QED
    BY <2>1, <2>2
<1>4. ~(Cardinality(Above) < n)
  BY <1>2 DEF Newest
<1>5. Cardinality(Above) <= Cardinality(P) /\ Cardinality(P) \in Nat /\ Cardinality(Above) \in Nat
  <2> HIDE DEF Above, P
  <2> QED
    BY <1>1, <1>3, FS_Subset, FS_CardinalityType
<1> HIDE DEF Above
<1> QED
  BY <1>4, <1>5

\* A page of history that is not full is the last one.
ShortInv ==
  pc = "olderReceived" /\ answer.validity = validity /\ Cardinality(DOMAIN answer.mail) < PageSize =>
    \A u \in Present : u < plan.before => u \in DOMAIN answer.mail

LEMMA ShortStep == Base /\ HoleInv /\ ShortInv /\ [Next]_vars => ShortInv'
<1> SUFFICES ASSUME Base, HoleInv, ShortInv, [Next]_vars, pc' = "olderReceived" PROVE ShortInv'
  BY DEF ShortInv
<1>1. CASE FetchHistoryPage
  <2> DEFINE U == {u \in Present : u < plan.before}
  <2>1. /\ plan' = plan /\ UNCHANGED <<validity, uid, box>>
        /\ answer' = [answer EXCEPT !.mail = MailAt(Newest(U, PageSize))]
    BY <1>1 DEF FetchHistoryPage, Goto, PassEnds, Rest, serverVars
  <2>2. Present' = Present
    BY <2>1 DEF Present
  <2>3. DOMAIN answer'.mail = Newest(U, PageSize)
    <3>1. answer = [validity |-> answer.validity, total |-> answer.total, unread |-> answer.unread,
                    complete |-> answer.complete, mail |-> answer.mail]
      BY DEF Base, Support, IdentityInv, AnswerInv
    <3>2. DOMAIN MailAt(Newest(U, PageSize)) = Newest(U, PageSize)
      BY DEF MailAt
    <3> HIDE DEF U
    <3> QED
      BY <2>1, <3>1, <3>2
  <2>4. U \subseteq Nat /\ IsFiniteSet(U) /\ PageSize \in Nat
    <3>1. U \subseteq Uids
      BY HoleTypes
    <3> QED
      BY <3>1, PresentIsFinite, MailCacheAssumption DEF Base, Support, IdentityInv
  <2>5. Cardinality(Newest(U, PageSize)) < PageSize => Newest(U, PageSize) = U
    <3> HIDE DEF U
    <3> QED
      BY <2>4, ShortPageIsAll
  <2> QED
    BY <2>1, <2>2, <2>3, <2>5 DEF ShortInv
<1>2. CASE UNCHANGED <<pc, plan, answer>>
  <2>1. /\ plan.before \in Cached /\ answer.validity = cursor.validity
    BY <1>2 DEF HoleInv, HistoryInv
  <2>2. Bears(inst[plan.before].letter, answer.validity, plan.before) /\ plan.before \in Nat
    BY <2>1, HoleTypes DEF Base, Support, IdentityInv, CacheInv
  <2>3. CASE validity' = validity + 1
    <3>1. answer.validity # validity'
      BY <2>3, HoleTypes DEF HoleInv, CursorInv
    <3> QED
      BY <1>2, <3>1 DEF ShortInv
  <2>4. CASE /\ validity' = validity
             /\ \A u \in Present' \ Present :
                  u \in Nat \ {0} /\ \A l, w : Bears(l, validity, w) => w < u
    <3>1. ASSUME answer.validity = validity, NEW u \in Present', u < plan.before
          PROVE  u \in Present
      <4>1. u \notin Present => u \in Nat /\ plan.before < u
        BY <2>2, <2>4, <3>1
      <4> QED
        BY <2>2, <3>1, <4>1
    <3> QED
      BY <1>2, <2>4, <3>1 DEF ShortInv
  <2> QED
    BY <2>3, <2>4, UidStep DEF Base, Support, IdentityInv
<1>3. CASE UNCHANGED vars \/ Server \/ Reading \/ User
  BY <1>2, <1>3
     DEF vars, Server, Arrive, Renumber, ElsewhereExpunged, ElsewhereMarked, Untouched,
         Reading, BodyFetched, BodyFetchFails, StoreHydratedBody, ReaderOnly,
         User, MutateMessage, HideMessage, ClearCache, OpenMessage, passVars
<1>4. CASE PassStops \/ \E mode \in {"full", "quick"} : StartPass(mode)
  BY <1>4 DEF PassStops, StartPass, PassEnds, Goto
<1>5. CASE PassStep /\ ~FetchHistoryPage
  <2>1. CASE \E withBodies \in BOOLEAN : ApplyForwardPage(withBodies)
    BY <2>1 DEF ApplyForwardPage, Goto
  <2>2. CASE \E u \in Uids : UploadFlags(u) \/ UploadMove(u) \/ OperationRefused(u)
    BY <2>2 DEF UploadFlags, UploadMove, OperationRefused, PassEnds, passVars
  <2> QED
    BY <1>5, <2>1, <2>2
       DEF PassStep, Examine, SearchAndFetch, SkipQuietFolder, FetchMailboxIndex,
           ReconcileMailboxIndex, FlushDone, LoadWindow, ApplyHistoryPage, PassFails, Goto, PassEnds
<1> QED
  BY <1>1, <1>3, <1>4, <1>5 DEF Next

\* A pass takes a page that is not full for the end of the history, and is right: the cache
\* then has every letter the folder has up to the cursor, although letters arrive and go
\* between the pages ("A short page therefore proves that no still-older page exists",
\* sync_service.rs:939).
HistoryEnds ==
  ApplyHistoryPage /\ answer.validity = validity /\ Cardinality(DOMAIN answer.mail) < PageSize
    => \A u \in Present' : u <= cursor'.last => u \in Cached'

\* The last page of history leaves nothing out, ever (backfill_mailbox_history).
THEOREM HistoryEndsWhole == Spec => [][HistoryEnds]_vars
<1>1. ASSUME Base, HoleInv, ShortInv, [Next]_vars, ApplyHistoryPage, answer.validity = validity,
             Cardinality(DOMAIN answer.mail) < PageSize,
             NEW u \in Present', u <= cursor'.last
      PROVE  u \in Cached'
  <2>1. /\ pc = "olderReceived" /\ ApplyImapSnapshot(answer, FALSE) /\ answer' = NoAnswer
        /\ UNCHANGED <<validity, uid, box, arrived>>
    BY <1>1 DEF ApplyHistoryPage, Rest, serverVars, PassEnds
  <2>2. Present' = Present /\ plan.before \in Cached /\ answer.validity = cursor.validity
        /\ ~answer.complete
    BY <1>1, <2>1 DEF Present, HoleInv, HistoryInv
  <2>3. /\ Cached' = (Kept(answer) \ Stale(answer)) \cup DOMAIN answer.mail
        /\ cursor'.validity = answer.validity
    BY <1>1, <2>1, ApplyMovesCursor
  <2>4. Kept(answer) = Cached /\ Stale(answer) = {}
    BY <1>1, <2>2 DEF Kept, Stale, IdentityChanged, Base, Support, IdentityInv, CacheInv
  <2>5. CASE u < plan.before
    BY <1>1, <2>1, <2>2, <2>3, <2>5 DEF ShortInv
  <2>6. CASE plan.before <= u
    <3>1. Solid' /\ plan.before \in Cached'
      BY <1>1, <2>2, <2>3, <2>4, HoleStep DEF HoleInv
    <3> QED
      BY <1>1, <2>1, <2>2, <2>3, <2>6, <3>1 DEF Solid
  <2>7. plan.before \in Nat /\ u \in Nat
    BY <1>1, <2>2, HoleTypes
  <2> QED
    BY <2>5, <2>6, <2>7
<1>2. Base /\ HoleInv /\ ShortInv /\ [Next]_vars => [HistoryEnds]_vars
  BY <1>1 DEF HistoryEnds
<1>3. Spec => []ShortInv
  <2>1. Init => ShortInv
    BY DEF Init, ShortInv
  <2> QED
    BY <2>1, HoleInvHolds, ShortStep, PTL DEF Spec
<1> QED
  BY <1>2, <1>3, HoleInvHolds, PTL DEF Spec

================================================================================
