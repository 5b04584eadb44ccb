---------------------------- MODULE AccountsProofs ----------------------------
(***************************************************************************)
(* Proofs about Accounts, for any accounts, addresses and references:      *)
(* types, the agreement of the two stores, and one account for an address. *)
(*                                                                         *)
(* StoresAgree is not inductive: a step deletes a set of references, and   *)
(* that harms nobody only because no two holders (accounts, the command on *)
(* the main thread) share one.  AccountsInv adds that, and what each state *)
(* of an account says of its references.                                   *)
(***************************************************************************)
EXTENDS Accounts, TLAPS

\* The states in which an account has two references, or one that serves as both.
Holding == {"provisioned", "saved", "undo", "inserted", "live"}

RefsByState ==
  \A a \in Accounts :
    /\ state[a] \in Holding => incoming[a] \in Refs /\ outgoing[a] \in Refs
    /\ state[a] \notin Holding => incoming[a] = NoRef /\ outgoing[a] = NoRef

\* No reference has two holders.
RefsAreApart ==
  /\ \A a, b \in Accounts : a # b => RefsOf(a) \cap RefsOf(b) = {}
  /\ \A a \in Accounts : RefsOf(a) \cap command.refs = {}

CommandInOrder ==
  /\ command.op \in {"none", "deleted", "removing"} => command.refs = {}
  /\ command.op # "none" => command.account \in Accounts

\* What create_account has written by now.
SecretsByState ==
  \A a \in Accounts :
    /\ state[a] = "provisioned" => store[incoming[a]] # "none"
    /\ state[a] \in {"saved", "inserted", "live"} => \A r \in RefsOf(a) : store[r] # "none"

NoOrphan ==
  \A r \in Refs : store[r] # "none" =>
    r \in command.refs \/ \E a \in Listed \cup Provisional : r \in RefsOf(a)

AccountsInv ==
  /\ AccountsTypeOK /\ RefsByState /\ RefsAreApart /\ CommandInOrder
  /\ SecretsByState /\ NoOrphan

-----------------------------------------------------------------------------
\* The references create_account and update_credentials take are nobody's.
LEMMA FreshIsFree ==
  ASSUME TwoRefsAreFree
  PROVE  /\ Fresh \in FreeRefs /\ FreshOther \in FreeRefs /\ FreshOther # Fresh
         /\ Fresh \in Refs /\ FreshOther \in Refs
<1>1. Fresh \in FreeRefs
  BY DEF TwoRefsAreFree, Fresh
<1>2. FreshOther \in FreeRefs \ {Fresh}
  BY <1>1 DEF TwoRefsAreFree, FreshOther
<1> QED
  BY <1>1, <1>2 DEF FreeRefs

\* What it means to be nobody's.
LEMMA FreeIsApart ==
  ASSUME NEW r \in FreeRefs
  PROVE  /\ r \in Refs /\ store[r] = "none" /\ r \notin command.refs
         /\ \A a \in Accounts : r \notin RefsOf(a)
BY DEF FreeRefs

\* The invariant says what the run checks.
LEMMA AccountsInvImpliesStoresAgree == AccountsInv => StoresAgree
<1> SUFFICES ASSUME AccountsInv PROVE StoresAgree
  OBVIOUS
<1> USE AccountsAssumption DEF AccountsInv, AccountsTypeOK
<1>1. ASSUME NEW a \in Listed
      PROVE  RefsOf(a) # {} /\ \A r \in RefsOf(a) : store[r] # "none"
  <2>1. a \in Accounts /\ state[a] \in {"inserted", "live"}
    BY <1>1 DEF Listed
  <2>2. incoming[a] \in RefsOf(a)
    BY <2>1 DEF RefsByState, Holding, RefsOf
  <2> QED
    BY <2>1, <2>2 DEF SecretsByState
<1> QED
  BY <1>1 DEF StoresAgree, NoOrphan

-----------------------------------------------------------------------------
LEMMA AccountsInitInv == AccountsInit => AccountsInv
BY AccountsAssumption
   DEF AccountsInit, AccountsInv, AccountsTypeOK, RefsByState, RefsAreApart, CommandInOrder,
       SecretsByState, NoOrphan, Holding, RefsOf, NoCommand, AccountState, Secret, Operation

\* Every step keeps the types.
LEMMA AccountsTypeStep ==
  ASSUME AccountsInv, AccountsNext
  PROVE  AccountsTypeOK'
<1> USE AccountsAssumption
    DEF AccountsInv, AccountsTypeOK, AccountState, Secret, Operation, Become, Delete
<1>1. ASSUME NEW a \in Accounts,
             CheckDuplicate(a) \/ ValidationFails(a) \/ ProvisionFails(a) \/ CreateReturns(a)
      PROVE  AccountsTypeOK'
  BY <1>1 DEF CheckDuplicate, ValidationFails, ProvisionFails, CreateReturns
<1>2. ASSUME NEW a \in Accounts, NEW layout \in Layouts, ProvisionIncoming(a, layout)
      PROVE  AccountsTypeOK'
  <2>1. Fresh \in Refs /\ FreshOther \in Refs
    BY <1>2, FreshIsFree DEF ProvisionIncoming
  <2> QED
    BY <1>2, <2>1 DEF ProvisionIncoming
<1>3. ASSUME NEW a \in Accounts, ProvisionOutgoing(a)
      PROVE  AccountsTypeOK'
  BY <1>3 DEF ProvisionOutgoing
<1>4. ASSUME NEW a \in Accounts, InsertAccount(a)
      PROVE  AccountsTypeOK'
  BY <1>4 DEF InsertAccount
<1>5. ASSUME NEW a \in Accounts, UndoProvision(a)
      PROVE  AccountsTypeOK'
  BY <1>5 DEF UndoProvision
<1>6. ASSUME NEW a \in Accounts, NEW secret \in {"old", "current"}, SwapCredentials(a, secret)
      PROVE  AccountsTypeOK'
  <2>1. Fresh \in Refs /\ FreshOther \in Refs
    BY <1>6, FreshIsFree DEF SwapCredentials
  <2>2. RefsOf(a) \subseteq Refs
    BY DEF RefsOf
  <2> QED
    BY <1>6, <2>1, <2>2 DEF SwapCredentials
<1>7. ASSUME NEW a \in Accounts, BeginRemove(a) \/ UpdateAccount(a) \/ PasswordChanges(a)
      PROVE  AccountsTypeOK'
  BY <1>7 DEF BeginRemove, UpdateAccount, PasswordChanges
<1>8. CASE DeleteOldCredentials \/ UpdateReturns \/ RemoveReturns
  <2>1. NoCommand \in [op : Operation, account : Accounts \cup {NoAccount}, refs : SUBSET Refs]
    BY DEF NoCommand
  <2>2. CASE DeleteOldCredentials
    BY <2>2 DEF DeleteOldCredentials
  <2>3. CASE UpdateReturns
    BY <2>1, <2>3 DEF UpdateReturns
  <2>4. CASE RemoveReturns
    BY <2>1, <2>4 DEF RemoveReturns
  <2> QED
    BY <1>8, <2>2, <2>3, <2>4
<1>9. CASE DeleteRow
  <2>1. command.account \in Accounts
    BY <1>9 DEF DeleteRow, CommandInOrder
  <2>2. RefsOf(command.account) \subseteq Refs
    BY <2>1 DEF RefsOf
  <2> QED
    BY <1>9, <2>1, <2>2 DEF DeleteRow
<1>10. ASSUME NEW k \in Readers, ReadSecret(k) \/ \E a \in Accounts : ReadRef(k, a)
       PROVE  AccountsTypeOK'
  BY <1>10 DEF ReadSecret, ReadRef
<1> QED
  BY <1>1, <1>2, <1>3, <1>4, <1>5, <1>6, <1>7, <1>8, <1>9, <1>10 DEF AccountsNext


-----------------------------------------------------------------------------
\* Every step keeps the rest of the invariant.  References only move: from nobody to an
\* account, from an account to the command, and from either to nobody.
LEMMA AccountsInvStep ==
  ASSUME AccountsInv, AccountsNext
  PROVE  AccountsInv'
<1>0. AccountsTypeOK'
  BY AccountsTypeStep
<1> DEFINE Rest == RefsByState /\ RefsAreApart /\ CommandInOrder /\ SecretsByState /\ NoOrphan
<1> SUFFICES Rest'
  BY <1>0 DEF AccountsInv
<1> USE AccountsAssumption DEF AccountsInv, Become, Holding, Listed, Provisional, RefsOf
<1>1. ASSUME NEW a \in Accounts,
             CheckDuplicate(a) \/ ValidationFails(a)
      PROVE  Rest'
  <2>1. /\ UNCHANGED <<incoming, outgoing, store, command>>
        /\ state[a] \notin Holding /\ state'[a] \in {"refused", "checked"}
        /\ \A b \in Accounts : b # a => state'[b] = state[b]
    BY <1>1 DEF CheckDuplicate, ValidationFails, AccountsTypeOK
  <2>2. RefsByState' /\ RefsAreApart' /\ CommandInOrder'
    BY <2>1 DEF RefsByState, RefsAreApart, CommandInOrder
  <2>3. SecretsByState'
    BY <2>1 DEF SecretsByState
  <2>4. NoOrphan'
    BY <2>1 DEF NoOrphan
  <2> QED
    BY <2>2, <2>3, <2>4
<1>2. ASSUME NEW a \in Accounts, ProvisionFails(a) \/ CreateReturns(a) \/ InsertAccount(a)
      PROVE  Rest'
  <2>1. /\ UNCHANGED <<incoming, outgoing, store, command>>
        /\ \A b \in Accounts : b # a => state'[b] = state[b]
        /\ \/ state[a] = "provisioned" /\ state'[a] = "undo"
           \/ state[a] = "inserted" /\ state'[a] = "live"
           \/ state[a] = "saved" /\ state'[a] \in {"inserted", "undo"}
    BY <1>2 DEF ProvisionFails, CreateReturns, InsertAccount, AccountsTypeOK
  <2>2. RefsByState' /\ RefsAreApart' /\ CommandInOrder'
    BY <2>1 DEF RefsByState, RefsAreApart, CommandInOrder
  <2>3. SecretsByState'
    BY <2>1 DEF SecretsByState
  <2>4. NoOrphan'
    BY <2>1 DEF NoOrphan
  <2> QED
    BY <2>2, <2>3, <2>4
<1>3. ASSUME NEW a \in Accounts, NEW layout \in Layouts, ProvisionIncoming(a, layout)
      PROVE  Rest'
  <2>1. /\ Fresh \in FreeRefs /\ FreshOther \in FreeRefs /\ FreshOther # Fresh
        /\ Fresh \in Refs /\ FreshOther \in Refs
    BY <1>3, FreshIsFree DEF ProvisionIncoming
  <2>2. \A r \in {Fresh, FreshOther} :
          /\ r \in Refs /\ store[r] = "none" /\ r \notin command.refs
          /\ \A b \in Accounts : r \notin {incoming[b], outgoing[b]} \ {NoRef}
    BY <2>1, FreeIsApart
  <2> HIDE <2>1
  <2>3. state[a] = "checked" /\ incoming[a] = NoRef /\ outgoing[a] = NoRef
    BY <1>3 DEF ProvisionIncoming, RefsByState
  <2>4. RefsByState' /\ CommandInOrder'
    BY <1>3, <2>2, <2>3 DEF ProvisionIncoming, RefsByState, CommandInOrder, AccountsTypeOK, AccountState
  <2>5. RefsAreApart'
    BY <1>3, <2>2, <2>3 DEF ProvisionIncoming, RefsAreApart, AccountsTypeOK
  <2>6. SecretsByState'
    BY <1>3, <2>2, <2>3 DEF ProvisionIncoming, SecretsByState, AccountsTypeOK, AccountState
  <2>7. NoOrphan'
    BY <1>3, <2>2, <2>3 DEF ProvisionIncoming, NoOrphan, AccountsTypeOK, AccountState
  <2> QED
    BY <2>4, <2>5, <2>6, <2>7
<1>4. ASSUME NEW a \in Accounts, ProvisionOutgoing(a)
      PROVE  Rest'
  <2>1. /\ UNCHANGED <<incoming, outgoing, command>>
        /\ state[a] = "provisioned" /\ state'[a] = "saved"
        /\ \A b \in Accounts : b # a => state'[b] = state[b]
        /\ store'[outgoing[a]] = "current" /\ outgoing[a] \in Refs
        /\ \A r \in Refs : r # outgoing[a] => store'[r] = store[r]
    BY <1>4 DEF ProvisionOutgoing, AccountsTypeOK, RefsByState
  <2>2. RefsByState' /\ RefsAreApart' /\ CommandInOrder'
    BY <2>1 DEF RefsByState, RefsAreApart, CommandInOrder
  <2>3. SecretsByState'
    BY <2>1 DEF SecretsByState, RefsByState
  <2>4. NoOrphan'
    BY <2>1 DEF NoOrphan
  <2> QED
    BY <2>2, <2>3, <2>4
<1>5. ASSUME NEW a \in Accounts, UndoProvision(a)
      PROVE  Rest'
  <2>1. RefsByState' /\ RefsAreApart' /\ CommandInOrder'
    BY <1>5 DEF UndoProvision, AccountsTypeOK, RefsByState, RefsAreApart, CommandInOrder
  <2>2. SecretsByState'
    BY <1>5 DEF UndoProvision, Delete, AccountsTypeOK, RefsByState, RefsAreApart, SecretsByState
  <2>3. NoOrphan'
    BY <1>5 DEF UndoProvision, Delete, AccountsTypeOK, NoOrphan
  <2> QED
    BY <2>1, <2>2, <2>3
<1>6. ASSUME NEW a \in Accounts, NEW secret \in {"old", "current"}, SwapCredentials(a, secret)
      PROVE  Rest'
  <2>1. /\ Fresh \in FreeRefs /\ FreshOther \in FreeRefs /\ FreshOther # Fresh
        /\ Fresh \in Refs /\ FreshOther \in Refs
    BY <1>6, FreshIsFree DEF SwapCredentials
  <2>2. \A r \in {Fresh, FreshOther} :
          /\ r \in Refs /\ store[r] = "none" /\ r \notin command.refs
          /\ \A b \in Accounts : r \notin {incoming[b], outgoing[b]} \ {NoRef}
    BY <2>1, FreeIsApart
  <2> HIDE <2>1
  <2>3. command.refs = {}
    BY <1>6 DEF SwapCredentials, Idle, NoCommand
  <2>4. RefsByState' /\ CommandInOrder'
    BY <1>6, <2>2 DEF SwapCredentials, RefsByState, CommandInOrder, AccountsTypeOK
  <2>5. RefsAreApart'
    <3>1. /\ incoming'[a] = Fresh /\ outgoing'[a] = FreshOther
          /\ command'.refs = {incoming[a], outgoing[a]} \ {NoRef}
          /\ \A b \in Accounts : b # a => /\ incoming'[b] = incoming[b]
                                         /\ outgoing'[b] = outgoing[b]
      BY <1>6 DEF SwapCredentials, AccountsTypeOK
    <3>2. \A b \in Accounts : b # a =>
            ({incoming'[a], outgoing'[a]} \ {NoRef}) \cap ({incoming'[b], outgoing'[b]} \ {NoRef}) = {}
      BY <2>2, <3>1
    <3>3. \A b, c \in Accounts : b # c =>
            ({incoming'[b], outgoing'[b]} \ {NoRef}) \cap ({incoming'[c], outgoing'[c]} \ {NoRef}) = {}
      BY <3>1, <3>2 DEF RefsAreApart
    <3>4. \A b \in Accounts : ({incoming'[b], outgoing'[b]} \ {NoRef}) \cap command'.refs = {}
      BY <2>2, <3>1 DEF RefsAreApart
    <3> QED
      BY <3>3, <3>4 DEF RefsAreApart
  <2>6. SecretsByState'
    BY <1>6, <2>2 DEF SwapCredentials, SecretsByState, RefsByState, AccountsTypeOK
  <2>7. NoOrphan'
    BY <1>6, <2>2, <2>3 DEF SwapCredentials, NoOrphan, AccountsTypeOK
  <2> QED
    BY <2>4, <2>5, <2>6, <2>7
<1>7. ASSUME NEW a \in Accounts, BeginRemove(a) \/ UpdateAccount(a)
      PROVE  Rest'
  BY <1>7 DEF BeginRemove, UpdateAccount, Idle, NoCommand,
              RefsByState, RefsAreApart, CommandInOrder, SecretsByState, NoOrphan
<1>8. ASSUME NEW a \in Accounts, PasswordChanges(a)
      PROVE  Rest'
  <2>1. \A r \in Refs : store'[r] = "none" <=> store[r] = "none"
    BY <1>8 DEF PasswordChanges, AccountsTypeOK
  <2>2. UNCHANGED <<state, incoming, outgoing, command>>
    BY <1>8 DEF PasswordChanges
  <2> QED
    BY <2>1, <2>2 DEF RefsByState, RefsAreApart, CommandInOrder, SecretsByState, NoOrphan
<1>9. CASE DeleteOldCredentials \/ UpdateReturns \/ RemoveReturns
  <2>0. UNCHANGED <<state, incoming, outgoing>>
    BY <1>9 DEF DeleteOldCredentials, UpdateReturns, RemoveReturns
  <2>1. command'.refs = {} /\ (command'.op # "none" => command'.account \in Accounts)
    <3>1. CASE DeleteOldCredentials
      <4>1. /\ command'.refs = {} /\ command'.account = command.account
            /\ command.op = "swapped"
        BY <3>1 DEF DeleteOldCredentials, AccountsTypeOK
      <4> QED
        BY <4>1 DEF CommandInOrder
    <3>2. CASE UpdateReturns \/ RemoveReturns
      BY <3>2 DEF UpdateReturns, RemoveReturns, NoCommand
    <3> QED
      BY <1>9, <3>1, <3>2
  <2>2. \A r \in Refs : store'[r] = IF r \in command.refs THEN "none" ELSE store[r]
    BY <1>9 DEF DeleteOldCredentials, UpdateReturns, RemoveReturns, Delete, CommandInOrder,
                AccountsTypeOK
  <2>3. SecretsByState'
    BY <2>0, <2>2 DEF SecretsByState, RefsByState, RefsAreApart
  <2> QED
    BY <2>0, <2>1, <2>2, <2>3 DEF RefsByState, RefsAreApart, CommandInOrder, NoOrphan
<1>10. CASE DeleteRow
  <2>1. command.account \in Accounts /\ command.op = "removing" /\ command.refs = {}
    BY <1>10 DEF DeleteRow, CommandInOrder
  <2>2. command'.refs = {incoming[command.account], outgoing[command.account]} \ {NoRef}
        /\ command'.op = "unlisted" /\ command'.account = command.account
    BY <1>10, <2>1 DEF DeleteRow, AccountsTypeOK
  <2>3. /\ store' = store /\ state'[command.account] = "removed"
        /\ incoming'[command.account] = NoRef /\ outgoing'[command.account] = NoRef
        /\ \A b \in Accounts : b # command.account =>
             /\ state'[b] = state[b]
             /\ incoming'[b] = incoming[b] /\ outgoing'[b] = outgoing[b]
    BY <1>10, <2>1 DEF DeleteRow, AccountsTypeOK
  <2>4. RefsByState' /\ CommandInOrder'
    BY <2>1, <2>2, <2>3 DEF RefsByState, CommandInOrder
  <2>5. RefsAreApart'
    BY <2>1, <2>2, <2>3 DEF RefsAreApart
  <2>6. SecretsByState'
    BY <2>1, <2>3 DEF SecretsByState
  <2>7. NoOrphan'
    BY <2>1, <2>2, <2>3 DEF NoOrphan
  <2> QED
    BY <2>4, <2>5, <2>6, <2>7
<1>11. ASSUME NEW k \in Readers, ReadSecret(k) \/ \E a \in Accounts : ReadRef(k, a)
       PROVE  Rest'
  BY <1>11 DEF ReadSecret, ReadRef,
               RefsByState, RefsAreApart, CommandInOrder, SecretsByState, NoOrphan
<1> HIDE DEF Rest
<1> QED
  BY <1>1, <1>2, <1>3, <1>4, <1>5, <1>6, <1>7, <1>8, <1>9, <1>10, <1>11 DEF AccountsNext

-----------------------------------------------------------------------------
\* The invariant of Accounts, for any number of accounts and references, whatever the
\* commands overtake.
THEOREM AccountsInvHolds == AccountsSpec => []AccountsInv
<1>1. AccountsInv /\ [AccountsNext]_accountVars => AccountsInv'
  <2>1. ASSUME AccountsInv, UNCHANGED accountVars PROVE AccountsInv'
    BY <2>1 DEF accountVars, AccountsInv, AccountsTypeOK, RefsByState, RefsAreApart,
                CommandInOrder, SecretsByState, NoOrphan, Holding, Listed, Provisional, RefsOf
  <2> QED
    BY <2>1, AccountsInvStep
<1> QED
  BY <1>1, AccountsInitInv, PTL DEF AccountsSpec

\* The variables of Accounts have their types.
THEOREM AccountsTypesHold == AccountsSpec => []AccountsTypeOK
BY AccountsInvHolds, PTL DEF AccountsInv

\* The accounts table and the secret store agree, although nothing is atomic across them:
\* no account without its secrets, and no secret without an account or a running command.
THEOREM StoresAlwaysAgree == AccountsSpec => []StoresAgree
BY AccountsInvHolds, AccountsInvImpliesStoresAgree, PTL

\* Two create_account commands that overtake each other do not add one address twice: the
\* second look at the address, in the transaction that inserts the row, is enough.
THEOREM OneAccountForAnAddress == AccountsSpec => []OneAccountPerAddress
<1>1. AccountsInit => OneAccountPerAddress
  BY DEF AccountsInit, OneAccountPerAddress, Listed
<1>2. OneAccountPerAddress /\ AccountsTypeOK /\ [AccountsNext]_accountVars
        => OneAccountPerAddress'
  <2> SUFFICES ASSUME OneAccountPerAddress, AccountsTypeOK, [AccountsNext]_accountVars
               PROVE  OneAccountPerAddress'
    OBVIOUS
  <2>1. CASE Listed' \subseteq Listed
    BY <2>1 DEF OneAccountPerAddress
  <2>2. ASSUME NEW a \in Accounts, InsertAccount(a)
        PROVE  OneAccountPerAddress'
    <3>1. CASE Taken(a)
      BY <2>2, <3>1, <2>1 DEF InsertAccount, Become, Listed, AccountsTypeOK
    <3>2. CASE ~Taken(a)
      <4>1. Listed' \subseteq Listed \cup {a}
        BY <2>2 DEF InsertAccount, Become, Listed, AccountsTypeOK
      <4> QED
        BY <3>2, <4>1 DEF Taken, OneAccountPerAddress
    <3> QED
      BY <3>1, <3>2
  <2>3. ASSUME ~\E a \in Accounts : InsertAccount(a)
        PROVE  Listed' \subseteq Listed
    <3>1. CASE UNCHANGED accountVars
      BY <3>1 DEF accountVars, Listed
    <3>2. ASSUME NEW a \in Accounts,
                 \/ CheckDuplicate(a) \/ ValidationFails(a) \/ ProvisionOutgoing(a)
                 \/ ProvisionFails(a) \/ UndoProvision(a) \/ CreateReturns(a)
          PROVE  Listed' \subseteq Listed
      BY <3>2 DEF CheckDuplicate, ValidationFails, ProvisionOutgoing, ProvisionFails,
                  UndoProvision, CreateReturns, Become, Listed, AccountsTypeOK
    <3>3. ASSUME NEW a \in Accounts, NEW layout \in Layouts, ProvisionIncoming(a, layout)
          PROVE  Listed' \subseteq Listed
      BY <3>3 DEF ProvisionIncoming, Become, Listed, AccountsTypeOK
    <3>4. ASSUME NEW a \in Accounts, NEW secret \in {"old", "current"}, SwapCredentials(a, secret)
          PROVE  Listed' \subseteq Listed
      BY <3>4 DEF SwapCredentials, Listed
    <3>5. ASSUME NEW a \in Accounts, BeginRemove(a) \/ UpdateAccount(a) \/ PasswordChanges(a)
          PROVE  Listed' \subseteq Listed
      BY <3>5 DEF BeginRemove, UpdateAccount, PasswordChanges, Listed
    <3>6. CASE DeleteOldCredentials \/ UpdateReturns \/ RemoveReturns
      BY <3>6 DEF DeleteOldCredentials, UpdateReturns, RemoveReturns, Listed
    <3>7. CASE DeleteRow
      BY <3>7 DEF DeleteRow, Become, Listed, AccountsTypeOK
    <3>8. ASSUME NEW k \in Readers, ReadSecret(k) \/ \E a \in Accounts : ReadRef(k, a)
          PROVE  Listed' \subseteq Listed
      BY <3>8 DEF ReadSecret, ReadRef, Listed
    <3> QED
      BY <2>3, <3>1, <3>2, <3>3, <3>4, <3>5, <3>6, <3>7, <3>8 DEF AccountsNext
  <2> QED
    BY <2>1, <2>2, <2>3
<1> QED
  BY <1>1, <1>2, AccountsTypesHold, PTL DEF AccountsSpec
===============================================================================
