-------------------------- MODULE AbstractDelivery --------------------------
(***************************************************************************)
(* What the outbox promises its user, without tasks, databases or          *)
(* restarts: every message has a status, and at most one copy of it is     *)
(* handed to the network for each order of the user to send it.  A         *)
(* message may be called delivered only when the copy of the present order *)
(* was taken, and undelivered only when there is no such copy; everything  *)
(* else has to be called unknown.                                          *)
(***************************************************************************)
EXTENDS Naturals

CONSTANT Items

VARIABLES
  status,  \* what the user is told of each message
  order,   \* how often the user renewed the order to send it
  flight,  \* <<message, order>> of the copies under way
  taken    \* <<message, order>> of the copies the server has accepted

vars == <<status, order, flight, taken>>

Status == {"none", "waiting", "trying", "delivered", "undelivered", "unknown",
           "withdrawn", "orphaned", "gone"}

Init ==
  /\ status \in [Items -> {"none", "waiting"}]
  /\ order = [i \in Items |-> 0]
  /\ flight = {} /\ taken = {}

Present(i) == <<i, order[i]>>

\* One message changes its status, and nothing else happens.
Becomes(i, from, to) ==
  /\ status[i] \in from
  /\ status' = [status EXCEPT ![i] = to]
  /\ UNCHANGED <<order, flight, taken>>

Submit(i)   == Becomes(i, {"none"}, "waiting")
Attempt(i)  == Becomes(i, {"waiting"}, "trying")
Doubt(i)    == Becomes(i, {"trying"}, "unknown")
Withdraw(i) == Becomes(i, {"waiting", "undelivered", "unknown"}, "withdrawn")
Retry(i)    == Becomes(i, {"undelivered"}, "waiting")
Abandon(i)  == Becomes(i, {"orphaned"}, "gone")
Deliver(i)  == Present(i) \in taken /\ Becomes(i, {"trying"}, "delivered")
Fail(i)     == /\ Present(i) \notin flight \cup taken
               /\ Becomes(i, {"trying"}, "undelivered")

\* Sending again what may have arrived takes a new order of the user.
RetryUnknown(i) ==
  /\ status[i] = "unknown"
  /\ status' = [status EXCEPT ![i] = "waiting"]
  /\ order' = [order EXCEPT ![i] = @ + 1]
  /\ UNCHANGED <<flight, taken>>

Emit(i) ==
  /\ status[i] \in {"trying", "orphaned"}
  /\ Present(i) \notin flight \cup taken
  /\ flight' = flight \cup {Present(i)}
  /\ UNCHANGED <<status, order, taken>>

Take(c) ==
  /\ c \in flight
  /\ flight' = flight \ {c} /\ taken' = taken \cup {c}
  /\ UNCHANGED <<status, order>>

Refuse(i) ==
  /\ status[i] \in {"trying", "orphaned"} /\ Present(i) \in flight
  /\ flight' = flight \ {Present(i)}
  /\ UNCHANGED <<status, order, taken>>

\* Everything under way is interrupted at once.
Interrupt ==
  /\ status' = [i \in Items |-> CASE status[i] = "trying"   -> "unknown"
                                  [] status[i] = "orphaned" -> "gone"
                                  [] OTHER                  -> status[i]]
  /\ UNCHANGED <<order, flight, taken>>

\* The account is removed with all its messages; some attempts outlive it.
Remove ==
  /\ \E outliving \in SUBSET {i \in Items : status[i] = "trying"} :
       status' = [i \in Items |-> CASE status[i] = "none" -> "none"
                                    [] i \in outliving    -> "orphaned"
                                    [] OTHER              -> "gone"]
  /\ UNCHANGED <<order, flight, taken>>

Next ==
  \/ \E i \in Items :
       \/ Submit(i) \/ Attempt(i) \/ Doubt(i) \/ Withdraw(i) \/ Retry(i)
       \/ RetryUnknown(i) \/ Abandon(i) \/ Deliver(i) \/ Fail(i)
       \/ Emit(i) \/ Refuse(i)
  \/ \E c \in flight : Take(c)
  \/ Interrupt
  \/ Remove

Spec == Init /\ [][Next]_vars
=============================================================================
