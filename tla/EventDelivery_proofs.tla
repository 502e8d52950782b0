------------------------ MODULE EventDelivery_proofs -------------------------
(***************************************************************************)
(* Proofs about the whole path of an event, EventDelivery, for any events, *)
(* relays, consumer processes and limits.                                  *)
(*                                                                         *)
(* The consumer's invariant is inherited: to the consumer the relays are   *)
(* publishers like any other, so DeliverySpec implements ConsumerSpec.     *)
(* The relays' invariant is not, because dlq-replay publishes into their   *)
(* stream too; it survives while the stream is the one they published to,  *)
(* because a replay is stored behind the original of its event and never   *)
(* under a row's identifier.  What is promised end to end needs both.      *)
(***************************************************************************)
EXTENDS EventDelivery, OutboxRelay_proofs, InboxConsumer_proofs

\* The relays' invariant holds while the stream has not been deleted.
DeliveryInv == ConsumerInv /\ (epoch = 0 => RelayInv)
-----------------------------------------------------------------------------
\* To the consumer, the producer's steps are arrivals.
LEMMA DeliveryIsConsumer ==
  ASSUME [DeliveryNext]_deliveryVars
  PROVE  [ConsumerNext]_consumerVars
<1>1. CASE ProducerSteps
  <2>1. UNCHANGED inboxVars /\ RelayNext
    BY <1>1 DEF ProducerSteps
  <2>2. CASE UNCHANGED brokerVars
    BY <2>1, <2>2 DEF consumerVars
  <2>3. CASE \E e \in Events : Room(RowMsg(e)) /\ Publish(RowMsg(e))
    <3>1. \E e \in Events : Arrives(e)
      BY <2>1, <2>3 DEF Arrives
    <3> QED BY <3>1 DEF ConsumerNext
  <2> QED BY <2>1, <2>2, <2>3, RelayPublishesRows
<1>2. CASE ConsumerSteps
  BY <1>2 DEF ConsumerSteps, ConsumerNext
<1>3. CASE BrokerSteps
  BY <1>3 DEF BrokerSteps, ConsumerNext
<1>4. CASE UNCHANGED deliveryVars
  BY <1>4 DEF deliveryVars, consumerVars
<1> QED BY <1>1, <1>2, <1>3, <1>4 DEF DeliveryNext

\* The whole path implements the consumer's specification: whatever is proved of
\* the consumer (one effect per event, newest wins, nothing lost, the contract)
\* holds behind the outbox and its relays.
THEOREM PathImplementsConsumer == DeliverySpec => ConsumerSpec
<1>1. DeliveryInit => ConsumerInit
  BY DEF DeliveryInit, ConsumerInit
<1>2. [DeliveryNext]_deliveryVars => [ConsumerNext]_consumerVars
  BY DeliveryIsConsumer
<1> QED BY <1>1, <1>2, PTL DEF DeliverySpec, ConsumerSpec
-----------------------------------------------------------------------------
\* A step that leaves the outbox alone, loses no message, stores none under a
\* row's identifier and keeps the versions in order keeps the relays' invariant.
LEMMA OutboxAlone ==
  ASSUME RelayInv, UNCHANGED outboxVars, BrokerTypeOK',
         \A x : Stored(x) => Stored(x)',
         \A e \in Events : Stored(RowMsg(e))' => Stored(RowMsg(e)),
         VersionsInOrder'
  PROVE  RelayInv'
<1>1. TableInv'
  BY TableInvStep DEF RelayInv
<1>2. outbox' = outbox /\ writes' = writes
  BY DEF outboxVars
<1>3. WrittenStored' /\ PublishedStored'
  BY <1>2 DEF RelayInv, StreamInv, WrittenStored, PublishedStored, RowMsg
<1>4. HoldsBack'
  BY <1>2 DEF RelayInv, StreamInv, HoldsBack, Earlier, RowMsg
<1> QED BY <1>1, <1>3, <1>4 DEF RelayInv, StreamInv

\* Only a replay, or the loss of the stream, is the consumer's side changing it.
LEMMA ConsumerSideOfBroker ==
  ASSUME InboxNext
  PROVE  UNCHANGED brokerVars \/ (\E d \in dlq : ReplayDeadLetter(d)) \/ StreamRecreated
<1>1. ASSUME NEW w \in Workers, Deliver(w) \/ Fails(w)
      PROVE  UNCHANGED brokerVars
  BY <1>1 DEF Deliver, Fails, ApplyFails, FailureUnrecorded, DlqPublishFails, MarkFails, Dies
<1>2. ASSUME NEW w \in Workers, Works(w)
      PROVE  UNCHANGED brokerVars
  BY <1>2 DEF Works, Processes, SkipsStale, SkipsTest, FindsDuplicate, FindsInvalid, Acks,
              RecordFailure, PublishesDlq, MarksDeadLettered, Terminates
<1>3. ASSUME \/ AckWaitExpires \/ Exhausted \/ \E p \in replaying : ReplayDeletes(p) \/ ReplayDies(p)
      PROVE  UNCHANGED brokerVars
  BY <1>3 DEF AckWaitExpires, Exhausted, ReplayDeletes, ReplayDies
<1> QED BY <1>1, <1>2, <1>3 DEF InboxNext

\* Only the loss of the stream moves the epoch.
LEMMA EpochMoves ==
  ASSUME InboxNext, ~StreamRecreated
  PROVE  epoch' = epoch
  BY DEF InboxNext, Works, Fails, Deliver, Processes, SkipsStale, SkipsTest, FindsDuplicate, FindsInvalid,
         Acks, RecordFailure, PublishesDlq, MarksDeadLettered, Terminates, ApplyFails, FailureUnrecorded,
         DlqPublishFails, MarkFails, Dies, AckWaitExpires, Exhausted, ReplayDeadLetter, ReplayDeletes,
         ReplayDies, worldVars

\* dlq-replay stores its copy behind the original, so it overtakes nobody, and
\* under an identifier of its own, so no row looks published by it.
LEMMA ReplayKeepsRelay ==
  ASSUME ConsumerInv, RelayInv, UNCHANGED outboxVars, NEW d \in dlq, ReplayDeadLetter(d)
  PROVE  RelayInv'
<1> DEFINE m == [ev |-> stream[d.seq].ev, r |-> d.n]
<1>1. BrokerTypeOK /\ d.n \in Nat /\ d.n # 0 /\ d.seq \in 1 .. Len(stream) /\ Publish(m)
  BY DEF ConsumerInv, ConsumerTypeOK, Letters, ReplayDeadLetter, Replayable
<1>2. Len(stream) \in Nat /\ stream[d.seq].ev \in Events
  BY <1>1, StreamTyped
<1>3. m \in MsgId /\ m.ev = stream[d.seq].ev /\ m.r # 0
  BY <1>1, <1>2 DEF MsgId
<1> HIDE DEF m
<1>4. /\ BrokerTypeOK'
      /\ Len(stream') \in Nat /\ Len(stream) <= Len(stream')
      /\ \A i \in 1 .. Len(stream) : stream'[i] = stream[i]
      /\ \A i \in 1 .. Len(stream') : i \in 1 .. Len(stream) \/ (i = Len(stream) + 1 /\ stream'[i] = m)
  BY <1>1, <1>3, PublishAppends
<1>5. (\A x : Stored(x) => Stored(x)') /\ (\A x : Stored(x)' => Stored(x) \/ x = m)
  BY <1>1, <1>3, PublishKeeps
<1>6. \A e \in Events : Stored(RowMsg(e))' => Stored(RowMsg(e))
  <2>1. \A e \in Events : RowMsg(e) # m
    BY <1>3 DEF RowMsg
  <2> QED BY <1>5, <2>1 DEF RowMsg
<1>7. VersionsInOrder'
  <2> SUFFICES ASSUME NEW i \in 1 .. Len(stream'), NEW c \in Events, Earlier(c, stream'[i].ev)
               PROVE  \E j \in 1 .. i - 1 : stream'[j].ev = c
    BY DEF VersionsInOrder, Earlier
  <2>1. PICK k \in 1 .. Len(stream) : k <= i /\ stream[k].ev = stream'[i].ev
    <3>1. CASE i \in 1 .. Len(stream)
      BY <1>4, <3>1
    <3>2. CASE i = Len(stream) + 1 /\ stream'[i] = m
      BY <1>1, <1>2, <1>3, <3>2
    <3> QED BY <1>4, <3>1, <3>2
  <2>2. PICK j \in 1 .. k - 1 : stream[j].ev = c
    BY <2>1 DEF RelayInv, StreamInv, VersionsInOrder
  <2>3. j \in 1 .. Len(stream) /\ j \in 1 .. i - 1
    BY <1>2, <1>4, <2>1, <2>2
  <2> QED BY <1>4, <2>2, <2>3
<1> QED BY <1>4, <1>5, <1>6, <1>7, OutboxAlone

\* The stream does not change and the outbox does not either.
LEMMA RelayStutters ==
  ASSUME RelayInv, UNCHANGED outboxVars, stream' = stream, window' \in Nat \ {0}
  PROVE  RelayInv'
<1>1. BrokerTypeOK' /\ (\A x : Stored(x) <=> Stored(x)')
  BY DEF RelayInv, StreamInv, BrokerTypeOK, Stored
<1>2. \A e \in Events : Stored(RowMsg(e))' => Stored(RowMsg(e))
  BY <1>1 DEF RowMsg
<1>3. VersionsInOrder'
  BY DEF RelayInv, StreamInv, VersionsInOrder, Earlier
<1> QED BY <1>1, <1>2, <1>3, OutboxAlone

\* DeliveryInv is an invariant of the whole path.
THEOREM DeliveryInvariant == DeliverySpec => []DeliveryInv
<1>1. DeliveryInit => DeliveryInv
  <2>1. DeliveryInit => ConsumerInit /\ OutboxInit
    BY DEF DeliveryInit, ConsumerInit, OutboxInit
  <2> QED BY <2>1, ConsumerInvInit, RelayInvInit DEF DeliveryInv
<1>2. DeliveryInv /\ [DeliveryNext]_deliveryVars => (epoch = 0 => RelayInv)'
  <2> SUFFICES ASSUME DeliveryInv, [DeliveryNext]_deliveryVars, epoch' = 0
               PROVE  RelayInv'
    OBVIOUS
  <2>1. ConsumerInv /\ epoch \in Nat /\ window \in Nat \ {0}
    BY DEF DeliveryInv, ConsumerInv, ConsumerTypeOK, BrokerTypeOK
  <2>2. CASE ProducerSteps
    <3>1. epoch' = epoch
      BY <2>2 DEF ProducerSteps, inboxVars, worldVars
    <3>2. RelayInv /\ [OutboxNext]_relayVars
      BY <2>2, <3>1 DEF DeliveryInv, ProducerSteps, OutboxNext
    <3> QED BY <3>2, RelayInvStep
  <2>3. CASE ConsumerSteps
    <3>1. InboxNext /\ UNCHANGED outboxVars
      BY <2>3 DEF ConsumerSteps
    <3>2. epoch = 0 /\ ~StreamRecreated
      <4>1. StreamRecreated => epoch' = epoch + 1
        BY DEF StreamRecreated
      <4> QED BY <2>1, <3>1, <4>1, EpochMoves
    <3>3. RelayInv
      BY <3>2 DEF DeliveryInv
    <3>4. CASE UNCHANGED brokerVars
      <4>1. stream' = stream /\ window' = window
        BY <3>4 DEF brokerVars
      <4> QED BY <2>1, <3>1, <3>3, <4>1, RelayStutters
    <3>5. CASE \E d \in dlq : ReplayDeadLetter(d)
      BY <2>1, <3>1, <3>3, <3>5, ReplayKeepsRelay
    <3> QED BY <3>1, <3>2, <3>4, <3>5, ConsumerSideOfBroker
  <2>4. CASE BrokerSteps
    <3>1. UNCHANGED outboxVars /\ stream' = stream /\ window' \in Nat \ {0} /\ epoch' = epoch
      BY <2>1, <2>4 DEF BrokerSteps, WindowSlides, inboxVars, worldVars
    <3> QED BY <3>1, RelayStutters DEF DeliveryInv
  <2>5. CASE UNCHANGED deliveryVars
    <3>1. UNCHANGED outboxVars /\ stream' = stream /\ window' = window /\ epoch' = epoch
      BY <2>5 DEF deliveryVars, inboxVars, worldVars, brokerVars
    <3> QED BY <2>1, <3>1, RelayStutters DEF DeliveryInv
  <2> QED BY <2>2, <2>3, <2>4, <2>5 DEF DeliveryNext
<1>3. DeliverySpec => []ConsumerInv
  BY PathImplementsConsumer, ConsumerInvariant, PTL
<1> QED BY <1>1, <1>2, <1>3, PTL DEF DeliverySpec, DeliveryInv
-----------------------------------------------------------------------------
\* At least once, end to end: as long as the stream exists, a row the producer
\* may forget about is settled at the consumer, dead-lettered or still to be
\* delivered, whatever crashed on either side (relay.ts, consumer.ts, recovery.ts).
THEOREM PublishedIsDelivered == DeliverySpec => [](epoch = 0 => PublishedNotLost)
<1>1. DeliveryInv => (epoch = 0 => PublishedNotLost)
  <2> SUFFICES ASSUME ConsumerInv, RelayInv, NEW e \in Events, outbox[e].state = "published"
               PROVE  inbox[e] \in Settled \/ DeadLettered(e) \/ StoredFrom(e, cursor)
    BY DEF DeliveryInv, PublishedNotLost
  <2>1. PICK i \in 1 .. Len(stream) : stream[i] = RowMsg(e)
    BY DEF RelayInv, StreamInv, PublishedStored, Stored
  <2>2. stream[i].ev = e
    BY <2>1 DEF RowMsg
  <2>3. Len(stream) \in Nat /\ cursor \in Nat
    BY StreamTyped DEF ConsumerInv, ConsumerTypeOK
  <2>4. CASE i < cursor
    BY <2>2, <2>4 DEF ConsumerInv, PassedAccounted, Accounted, Kept, DeadLettered
  <2>5. CASE i >= cursor
    BY <2>2, <2>5 DEF StoredFrom
  <2> QED BY <2>3, <2>4, <2>5
<1> QED BY <1>1, DeliveryInvariant, PTL

\* Per-aggregate order end to end: as long as the stream exists, an effect is
\* committed only when the consumer is done with every earlier version (DUE_SQL,
\* max_ack_pending 1, and a replay that cannot jump the queue).
THEOREM EffectsAreInOrder == ASSUME MaxEpoch = 0 PROVE DeliverySpec => EffectsInOrder
<1> DEFINE Ordered == \A f \in Events : handled'[f] # handled[f] =>
                        \A d \in Events : Earlier(d, f) => Passed(d)
<1>1. DeliveryInv /\ epoch = 0 /\ [DeliveryNext]_deliveryVars => [Ordered]_deliveryVars
  <2> SUFFICES ASSUME ConsumerInv, RelayInv, epoch = 0, [DeliveryNext]_deliveryVars,
                      NEW f \in Events, handled'[f] # handled[f],
                      NEW d \in Events, Earlier(d, f)
               PROVE  Passed(d)
    BY DEF DeliveryInv
  <2>1. [ConsumerNext]_consumerVars /\ handled' # handled
    BY DeliveryIsConsumer
  <2>2. PICK w \in Workers : Processes(w)
    BY <2>1, OnlyThreeSettle DEF SkipsStale, SkipsTest
  <2>3. f = worker[w].ev /\ worker[w].pc = "apply"
    BY <2>2 DEF Processes, Claims, At, ConsumerInv, ConsumerTypeOK
  <2>4. worker[w].epoch = 0
    BY DEF ConsumerInv, ConsumerTypeOK, NoneAhead, Delivery
  <2>5. /\ worker[w].seq \in 1 .. Len(stream) /\ worker[w].seq <= cursor
        /\ stream[worker[w].seq].ev = f
    BY <2>3, <2>4 DEF ConsumerInv, DeliveryKnown, Current
  <2>6. PICK j \in 1 .. worker[w].seq - 1 : stream[j].ev = d
    BY <2>5 DEF RelayInv, StreamInv, VersionsInOrder
  <2>7. Len(stream) \in Nat /\ cursor \in Nat
    BY StreamTyped DEF ConsumerInv, ConsumerTypeOK
  <2>8. j \in 1 .. Len(stream) /\ j < cursor
    BY <2>5, <2>6, <2>7
  <2> QED BY <2>6, <2>8 DEF Passed
<1>2. DeliverySpec => [](epoch = 0)
  <2>1. DeliveryInit => epoch = 0
    BY DEF DeliveryInit, InboxInit
  <2>2. epoch = 0 /\ [DeliveryNext]_deliveryVars => (epoch = 0)'
    <3> SUFFICES ASSUME epoch = 0, [DeliveryNext]_deliveryVars PROVE epoch' = 0
      OBVIOUS
    <3>1. ~StreamRecreated
      BY DEF StreamRecreated
    <3>2. InboxNext => epoch' = epoch
      BY <3>1, EpochMoves
    <3> QED BY <3>2 DEF DeliveryNext, ProducerSteps, ConsumerSteps, BrokerSteps, deliveryVars, inboxVars, worldVars
  <2> QED BY <2>1, <2>2, PTL DEF DeliverySpec
<1> QED BY <1>1, <1>2, DeliveryInvariant, PTL DEF DeliverySpec, EffectsInOrder
=============================================================================
