------------------------------- MODULE Accounts -------------------------------
(***************************************************************************)
(* The accounts table and the secret store beside it (account_service,     *)
(* LocalSecretStore, remove_account), which no transaction covers          *)
(* together: commands write to both in an order of their own, and readers  *)
(* (load_incoming_session) look a reference up in one and its secret in    *)
(* the other.                                                              *)
(*                                                                         *)
(* create_account is asynchronous and may run several times at once; the   *)
(* other commands run one at a time, on the main thread, each in the steps *)
(* between which it holds no lock.  A secret is "current" while the server *)
(* accepts it.  An account is never created twice: its id is a new UUID.   *)
(*                                                                         *)
(* The commands tell the synchronisation what happened as they return;     *)
(* Realtime composes these actions with what they do there.                *)
(***************************************************************************)
CONSTANTS
  Accounts,    \* ids of accounts
  Address,     \* provider and e-mail address of an account
  Refs,        \* references of secrets (UUIDs: one is reused only when nobody has it)
  NoRef,
  Layouts,     \* how a new account stores its secrets: "shared" or "separate"
  Readers,     \* callers of load_incoming_session
  NoAccount

ASSUME AccountsAssumption ==
  /\ NoRef \notin Refs /\ NoAccount \notin Accounts
  /\ Layouts \subseteq {"shared", "separate"}

VARIABLES
  state,               \* where each account is in its life
  incoming, outgoing,  \* its references, of the row or still of create_account alone
  wanted,              \* accounts enabled and with the policy "automatic"
  store,               \* the credentials table
  command,             \* the command on the main thread and the references it has to delete
  loading              \* the reference each reader has read from the accounts table

accountVars == <<state, incoming, outgoing, wanted, store, command, loading>>

AccountState == {"absent", "checked", "provisioned", "saved", "undo", "inserted",
                 "live", "removed", "refused"}
Secret == {"none", "old", "current"}
Operation == {"none", "swapped", "deleted", "removing", "unlisted"}
NoCommand == [op |-> "none", account |-> NoAccount, refs |-> {}]

AccountsTypeOK ==
  /\ state \in [Accounts -> AccountState]
  /\ incoming \in [Accounts -> Refs \cup {NoRef}]
  /\ outgoing \in [Accounts -> Refs \cup {NoRef}]
  /\ wanted \subseteq Accounts
  /\ store \in [Refs -> Secret]
  /\ command \in [op : Operation, account : Accounts \cup {NoAccount},
                  refs : SUBSET Refs]
  /\ loading \in [Readers -> Refs \cup {NoRef}]

AccountsInit ==
  /\ state = [a \in Accounts |-> "absent"]
  /\ incoming = [a \in Accounts |-> NoRef] /\ outgoing = [a \in Accounts |-> NoRef]
  /\ wanted = {}
  /\ store = [r \in Refs |-> "none"]
  /\ command = NoCommand
  /\ loading = [r \in Readers |-> NoRef]

\* The accounts that have a row.
Listed == {a \in Accounts : state[a] \in {"inserted", "live"}}

\* create_account holds references that no row has yet.
Provisional == {a \in Accounts : state[a] \in {"provisioned", "saved", "undo"}}

RefsOf(a) == {incoming[a], outgoing[a]} \ {NoRef}

FreeRefs ==
  {r \in Refs : /\ store[r] = "none" /\ r \notin command.refs
                /\ \A a \in Accounts : r \notin RefsOf(a)
                /\ \A k \in Readers : loading[k] # r}
TwoRefsAreFree == \E r, s \in FreeRefs : r # s
Fresh == CHOOSE r \in FreeRefs : TRUE
FreshOther == CHOOSE r \in FreeRefs \ {Fresh} : TRUE

Taken(a) == \E b \in Listed : Address[b] = Address[a]

Delete(R) == store' = [r \in Refs |-> IF r \in R THEN "none" ELSE store[r]]

Become(a, next) == state' = [state EXCEPT ![a] = next]

-----------------------------------------------------------------------------
(***************************************************************************)
(* create_account.                                                         *)
(***************************************************************************)

\* The address is looked up before anything is asked of the network.
CheckDuplicate(a) ==
  /\ state[a] = "absent"
  /\ Become(a, IF Taken(a) THEN "refused" ELSE "checked")
  /\ UNCHANGED <<incoming, outgoing, wanted, store, command, loading>>

\* The input is not valid, an endpoint refuses the credential, or the first write to the
\* store fails.
ValidationFails(a) ==
  /\ state[a] = "checked"
  /\ Become(a, "refused")
  /\ UNCHANGED <<incoming, outgoing, wanted, store, command, loading>>

\* The endpoints have accepted the credentials; the incoming secret is written.
ProvisionIncoming(a, layout) ==
  /\ state[a] = "checked" /\ TwoRefsAreFree
  /\ store' = [store EXCEPT ![Fresh] = "current"]
  /\ incoming' = [incoming EXCEPT ![a] = Fresh]
  /\ outgoing' = [outgoing EXCEPT ![a] = IF layout = "shared" THEN Fresh ELSE FreshOther]
  /\ Become(a, IF layout = "shared" THEN "saved" ELSE "provisioned")
  /\ UNCHANGED <<wanted, command, loading>>

ProvisionOutgoing(a) ==
  /\ state[a] = "provisioned"
  /\ store' = [store EXCEPT ![outgoing[a]] = "current"]
  /\ Become(a, "saved")
  /\ UNCHANGED <<incoming, outgoing, wanted, command, loading>>

\* The second write fails.
ProvisionFails(a) ==
  /\ state[a] = "provisioned"
  /\ Become(a, "undo")
  /\ UNCHANGED <<incoming, outgoing, wanted, store, command, loading>>

\* Database::create_account looks the address up again in its transaction, which may
\* also fail for a reason of its own.
InsertAccount(a) ==
  /\ state[a] = "saved"
  /\ \/ ~Taken(a) /\ Become(a, "inserted") /\ wanted' = wanted \cup {a}
     \/ Become(a, "undo") /\ UNCHANGED wanted
  /\ UNCHANGED <<incoming, outgoing, store, command, loading>>

\* Compensation: the provisional entries are deleted.
UndoProvision(a) ==
  /\ state[a] = "undo"
  /\ Delete(RefsOf(a))
  /\ incoming' = [incoming EXCEPT ![a] = NoRef]
  /\ outgoing' = [outgoing EXCEPT ![a] = NoRef]
  /\ Become(a, "refused")
  /\ UNCHANGED <<wanted, command, loading>>

\* The command returns the account, and the interface knows it from now on.
CreateReturns(a) ==
  /\ state[a] = "inserted"
  /\ Become(a, "live")
  /\ UNCHANGED <<incoming, outgoing, wanted, store, command, loading>>

-----------------------------------------------------------------------------
(***************************************************************************)
(* Commands on the main thread.                                            *)
(***************************************************************************)

Idle == command = NoCommand

\* The old entries are deleted before the row refers to the new ones.
DeleteBeforeSwap(a, secret) ==
  /\ Idle /\ state[a] = "live" /\ TwoRefsAreFree
  /\ Delete(RefsOf(a))
  /\ command' = [op |-> "swapped", account |-> a, refs |-> {Fresh, FreshOther}]
  /\ UNCHANGED <<state, incoming, outgoing, wanted, loading>>

\* update_credentials, under the database lock: new entries are written, then the row
\* refers to them.  When a write fails the new entries are deleted and nothing is changed.
SwapCredentials(a, secret) ==
  /\ Idle /\ state[a] = "live" /\ TwoRefsAreFree
  /\ store' = [store EXCEPT ![Fresh] = secret, ![FreshOther] = secret]
  /\ incoming' = [incoming EXCEPT ![a] = Fresh]
  /\ outgoing' = [outgoing EXCEPT ![a] = FreshOther]
  /\ command' = [op |-> "swapped", account |-> a, refs |-> RefsOf(a)]
  /\ UNCHANGED <<state, wanted, loading>>

\* The lock is released; the old entries are deleted.
DeleteOldCredentials ==
  /\ command.op = "swapped"
  /\ Delete(command.refs)
  /\ command' = [command EXCEPT !.op = "deleted", !.refs = {}]
  /\ UNCHANGED <<state, incoming, outgoing, wanted, loading>>

UpdateReturns ==
  /\ command.op = "deleted"
  /\ command' = NoCommand
  /\ UNCHANGED <<state, incoming, outgoing, wanted, store, loading>>

\* remove_account begins with SyncCoordinator.cancel.
BeginRemove(a) ==
  /\ Idle /\ state[a] = "live"
  /\ command' = [op |-> "removing", account |-> a, refs |-> {}]
  /\ UNCHANGED <<state, incoming, outgoing, wanted, store, loading>>

\* The references are read and the row is deleted under one lock.
DeleteRow ==
  /\ command.op = "removing"
  /\ LET a == command.account IN
       /\ command' = [command EXCEPT !.op = "unlisted", !.refs = RefsOf(a)]
       /\ Become(a, "removed")
       /\ incoming' = [incoming EXCEPT ![a] = NoRef]
       /\ outgoing' = [outgoing EXCEPT ![a] = NoRef]
       /\ wanted' = wanted \ {a}
  /\ UNCHANGED <<store, loading>>

\* The entries of the removed account are deleted and the command returns.
RemoveReturns ==
  /\ command.op = "unlisted"
  /\ Delete(command.refs)
  /\ command' = NoCommand
  /\ UNCHANGED <<state, incoming, outgoing, wanted, loading>>

\* update_account: the account is enabled or disabled, or its policy changes.
UpdateAccount(a) ==
  /\ Idle /\ state[a] = "live"
  /\ wanted' = IF a \in wanted THEN wanted \ {a} ELSE wanted \cup {a}
  /\ UNCHANGED <<state, incoming, outgoing, store, command, loading>>

-----------------------------------------------------------------------------
(***************************************************************************)
(* load_incoming_session, and the server.                                  *)
(***************************************************************************)

\* The reference is read under the database lock.
ReadRef(k, a) ==
  /\ loading[k] = NoRef /\ a \in Listed
  /\ loading' = [loading EXCEPT ![k] = incoming[a]]
  /\ UNCHANGED <<state, incoming, outgoing, wanted, store, command>>

\* The secret is read without it, and may be gone.
ReadSecret(k) ==
  /\ loading[k] # NoRef
  /\ loading' = [loading EXCEPT ![k] = NoRef]
  /\ UNCHANGED <<state, incoming, outgoing, wanted, store, command>>

\* The user changes the password of an address at the provider.
SecretsFor(a) == UNION {RefsOf(b) : b \in {c \in Accounts : Address[c] = Address[a]}}

PasswordChanges(a) ==
  /\ store' = [r \in Refs |-> IF r \in SecretsFor(a) /\ store[r] = "current"
                                THEN "old" ELSE store[r]]
  /\ UNCHANGED <<state, incoming, outgoing, wanted, command, loading>>

-----------------------------------------------------------------------------
AccountsNext ==
  \/ \E a \in Accounts :
       \/ CheckDuplicate(a) \/ ValidationFails(a) \/ ProvisionOutgoing(a)
       \/ ProvisionFails(a) \/ InsertAccount(a) \/ UndoProvision(a) \/ CreateReturns(a)
       \/ \E layout \in Layouts : ProvisionIncoming(a, layout)
       \/ \E secret \in {"old", "current"} : SwapCredentials(a, secret)
       \/ BeginRemove(a) \/ UpdateAccount(a) \/ PasswordChanges(a)
       \/ \E k \in Readers : ReadRef(k, a)
  \/ DeleteOldCredentials \/ UpdateReturns \/ DeleteRow \/ RemoveReturns
  \/ \E k \in Readers : ReadSecret(k)

AccountsSpec == AccountsInit /\ [][AccountsNext]_accountVars

-----------------------------------------------------------------------------
(***************************************************************************)
(* Properties.                                                             *)
(***************************************************************************)

\* The two stores agree although nothing is atomic across them: every reference of an
\* account has its secret, and every secret belongs to an account or to a command that
\* is still running and will delete or adopt it.
StoresAgree ==
  /\ \A a \in Listed : RefsOf(a) # {} /\ \A r \in RefsOf(a) : store[r] # "none"
  /\ \A r \in Refs : store[r] # "none" =>
       r \in command.refs \/ \E a \in Listed \cup Provisional : r \in RefsOf(a)

\* Two create_account commands that overtake each other do not add one address twice.
OneAccountPerAddress ==
  \A a, b \in Listed : Address[a] = Address[b] => a = b
=============================================================================
