--------------------------- MODULE OrderStatuses ---------------------------
(* The tables of the order life cycle: the statuses an order can have, the *)
(* events the services exchange, what each API endpoint requires and sets, *)
(* and what each event handler sets.                                       *)
EXTENDS Naturals

Statuses == {"created", "pending_payment", "in_preparation",
             "ready_to_ship", "shipped", "delivered"}

\* The status of an order id that has no row.
Absent == "absent"

Created == "order.created"

\* The events of the four status endpoints.
TransitionEvents == {"order.paid", "order.ready.to.ship",
                     "order.shipped", "order.delivered"}

Events == {Created} \cup TransitionEvents

\* ORDER_STATUS_RANK: how the consumers order the statuses.
Rank == [s \in Statuses |->
           CASE s = "created"         -> 0
             [] s = "pending_payment" -> 1
             [] s = "in_preparation"  -> 2
             [] s = "ready_to_ship"   -> 3
             [] s = "shipped"         -> 4
             [] s = "delivered"       -> 5]

\* The status each endpoint requires (expected_status) and the one it sets
\* (next_status), keyed by the event it enqueues.
Endpoint == [e \in TransitionEvents |->
    CASE e = "order.paid" ->
             [expected |-> "pending_payment", next |-> "in_preparation"]
      [] e = "order.ready.to.ship" ->
             [expected |-> "in_preparation", next |-> "ready_to_ship"]
      [] e = "order.shipped" ->
             [expected |-> "ready_to_ship", next |-> "shipped"]
      [] e = "order.delivered" ->
             [expected |-> "shipped", next |-> "delivered"]]

\* The status the handler of each event sets.
Target == [e \in Events |->
    CASE e = Created               -> "pending_payment"
      [] e = "order.paid"          -> "in_preparation"
      [] e = "order.ready.to.ship" -> "ready_to_ship"
      [] e = "order.shipped"       -> "shipped"
      [] e = "order.delivered"     -> "delivered"]

\* The rank an order has at the least once an event of it is recorded: the
\* API records order.created with a new order, and the others together with
\* the status they announce.
Floor(e) == IF e = Created THEN 0 ELSE Rank[Target[e]]

\* The order has a row, and its status is at least the given rank.
AtLeast(s, r) == s \in Statuses /\ Rank[s] >= r
=============================================================================
