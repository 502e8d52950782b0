---------------------------- MODULE EventDelivery ----------------------------
(***************************************************************************)
(* The whole path of an event of @gremion/events: the producer's outbox    *)
(* and its relays (OutboxRelay), the stream (JetStream), the consumer with *)
(* its inbox and the dead-letter stream (InboxConsumer), and the two       *)
(* recovery verbs of the runbook (outbox-requeue, dlq-replay).             *)
(***************************************************************************)
EXTENDS OutboxRelay, InboxConsumer

deliveryVars == <<outboxVars, inboxVars, brokerVars>>

DeliveryInit == BrokerInit /\ RelayInit /\ InboxInit

ProducerSteps == RelayNext /\ UNCHANGED inboxVars
ConsumerSteps == InboxNext /\ UNCHANGED outboxVars
BrokerSteps == WindowSlides /\ UNCHANGED <<outboxVars, inboxVars>>

DeliveryNext == ProducerSteps \/ ConsumerSteps \/ BrokerSteps

DeliverySpec == DeliveryInit /\ [][DeliveryNext]_deliveryVars
-----------------------------------------------------------------------------
\* The durable consumer is done with a copy of e.
Passed(e) == \E i \in 1 .. Len(stream) : i < cursor /\ stream[i].ev = e

\* Per-aggregate order end to end: the effect of an event is committed only when
\* the consumer is done with every earlier version of its aggregate (applied,
\* skipped or dead-lettered); a version that is still retrying, or not published
\* yet, is never overtaken (DUE_SQL and max_ack_pending 1 together).
EffectsInOrder == [][\A f \in Events : handled'[f] # handled[f] =>
                       \A d \in Events : Earlier(d, f) => Passed(d)]_deliveryVars

\* At least once, end to end: a row the producer may forget about (published) is
\* settled at the consumer, dead-lettered, or still to be delivered.
PublishedNotLost == \A e \in Events : outbox[e].state = "published" =>
                      inbox[e] \in Settled \/ DeadLettered(e) \/ StoredFrom(e, cursor)
=============================================================================
