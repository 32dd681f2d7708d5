--------------------------- MODULE OrderLifecycle ---------------------------
(* What the order service promises its callers, with no outbox, broker or  *)
(* process in sight: an order moves through its statuses one stage at a    *)
(* time, a stage is announced by an event recorded in the same step, and   *)
(* a new order waits for payment only once its event has been handled.     *)
EXTENDS OrderStatuses

CONSTANTS Orders,        \* order ids
          SeedStatus     \* the orders there are to begin with

VARIABLES status,        \* orders.status, Absent for an id without a row
          recorded       \* the <<order, event>> pairs recorded so far

lifecycleVars == <<status, recorded>>

LifecycleInit == /\ status = SeedStatus
                 /\ recorded = {}

\* POST /orders/
Place(o) == /\ status[o] = Absent
            /\ status' = [status EXCEPT ![o] = "created"]
            /\ recorded' = recorded \cup {<<o, Created>>}

\* The order.created consumer.
AwaitPayment(o) == /\ status[o] = "created"
                   /\ status' = [status EXCEPT ![o] = "pending_payment"]
                   /\ UNCHANGED recorded

\* POST /orders/{id}/pay, /ready-to-ship, /shipped, /delivered
Advance(o, e) == /\ status[o] = Endpoint[e].expected
                 /\ status' = [status EXCEPT ![o] = Endpoint[e].next]
                 /\ recorded' = recorded \cup {<<o, e>>}

LifecycleNext == \E o \in Orders : \/ Place(o)
                                   \/ AwaitPayment(o)
                                   \/ \E e \in TransitionEvents : Advance(o, e)

LifecycleSpec == LifecycleInit /\ [][LifecycleNext]_lifecycleVars
=============================================================================
