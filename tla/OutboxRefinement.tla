-------------------------- MODULE OutboxRefinement --------------------------
(***************************************************************************)
(* The outbox implements AbstractDelivery.                                 *)
(***************************************************************************)
EXTENDS Outbox

StatusOf(i) ==
  CASE row[i] \in {"unused", "composing"} -> "none"
    [] row[i] = "queued"          -> "waiting"
    [] row[i] = "sending"         -> "trying"
    [] row[i] = "sent"            -> "delivered"
    [] row[i] = "failed"          -> "undelivered"
    [] row[i] = "outcome_unknown" -> "unknown"
    [] row[i] = "cancelled"       -> "withdrawn"
    [] OTHER -> IF \E w \in Workers : Delivering(w) /\ job[w] = i
                  THEN "orphaned" ELSE "gone"

Orders(transmissions) == {<<t.item, t.decision>> : t \in transmissions}

Delivery == INSTANCE AbstractDelivery WITH
  status <- [i \in Items |-> StatusOf(i)],
  order  <- decision,
  flight <- Orders(wire),
  taken  <- Orders(accepted)

\* Whatever tasks, retries, crashes and database errors do, the user is told
\* what AbstractDelivery allows: no second copy without a new order, sent only
\* after acceptance, failed only when nothing of the order is under way.
ImplementsDelivery == Delivery!Spec
=============================================================================
