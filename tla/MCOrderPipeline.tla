-------------------------- MODULE MCOrderPipeline --------------------------
(* Instances of the pipeline for model checking.                           *)
EXTENDS OrderPipeline, TLC

CONSTANTS o1, o2,              \* orders
          w1, w2,              \* API workers
          created, paid, ready, shipped, delivered   \* consumers

TwoOrders == {o1, o2}
OneOrder == {o1}

\* No seeded orders; and an order the seed job left, on its way to the customer.
NoneSeeded == (o1 :> Absent) @@ (o2 :> Absent)
OneFree == o1 :> Absent
SecondSeeded == (o1 :> Absent) @@ (o2 :> "shipped")

OneWorker == {w1}
TwoWorkers == {w1, w2}
AllConsumers == {created, paid, ready, shipped, delivered}
FirstConsumers == {created, paid}
EndConsumers == {created, delivered}

Queues == (created :> Created) @@ (paid :> "order.paid")
          @@ (ready :> "order.ready.to.ship") @@ (shipped :> "order.shipped")
          @@ (delivered :> "order.delivered")

CreatedConsumer == {created}

AllQueues == Queues
FirstQueues == [c \in FirstConsumers |-> Queues[c]]
EndQueues == [c \in EndConsumers |-> Queues[c]]

AllBound == Events
FirstBound == {Created, "order.paid"}
NoneBound == {}
Nobody == {}
CreatedBound == {Created}
AllCalls == TransitionEvents
PayOnly == {"order.paid"}
PayAndReady == {"order.paid", "order.ready.to.ship"}
=============================================================================
