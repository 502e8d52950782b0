------------------------ MODULE InboxConsumer_proofs -------------------------
(***************************************************************************)
(* Proofs about InboxConsumer, for every set of events, kinds and          *)
(* processes and every limit: the effect of an event is committed once and *)
(* in version order, the inbox implements DeliveryContract, dlq-replay     *)
(* republishes its entry's own event, and nothing the durable consumer is  *)
(* done with is lost.                                                      *)
(*                                                                         *)
(* The last one is the hard one.  A dead letter saves an event only while  *)
(* the stream it came from exists and no replay of it is stored, so        *)
(* ConsumerInv follows an entry of the present stream from the moment it   *)
(* is stored (before the message is terminated) until the entry is deleted *)
(* (after its replay is stored behind the cursor).                         *)
(***************************************************************************)
EXTENDS InboxConsumer, TLAPS

\* The process works on a message of the stream that exists now.
Current(w) == worker[w].pc # "idle" /\ worker[w].epoch = epoch

\* The durable consumer is at a message of the stream, or behind its end.
CursorInStream == cursor <= Len(stream) + 1

\* A process knows the event of its message, which is not ahead of the cursor.
DeliveryKnown == \A w \in Workers : Current(w) =>
                   /\ worker[w].seq \in 1 .. Len(stream) /\ worker[w].seq <= cursor
                   /\ stream[worker[w].seq].ev = worker[w].ev

\* No process holds a message of a later stream.
NoneAhead == \A w \in Workers : worker[w].epoch <= epoch

\* A process that is about to acknowledge has a settled inbox row.
AckedIsSettled == \A w \in Workers : At(w, "ack") => inbox[worker[w].ev] \in Settled

\* The entries of the DLQ are numbered, and an advisory of the present stream
\* names its event's message.
Letters == \A d \in dlq : /\ d.n \in 1 .. dlqSeq /\ d.epoch <= epoch
                          /\ d.kind = "advisory" /\ d.epoch = epoch =>
                               d.seq \in 1 .. Len(stream) /\ stream[d.seq].ev = d.ev

LettersDistinct == \A c, d \in dlq : c.n = d.n => c = d

\* A replay that is about to delete its entry has stored that entry's event.
ReplayStored == \A p \in replaying :
                  /\ p.n \in 1 .. dlqSeq
                  /\ \A d \in dlq : d.n = p.n => /\ d.ev = p.ev
                                                 /\ d.epoch = epoch => Stored([ev |-> p.ev, r |-> p.n])

\* No message is the replay of an entry that does not exist yet.
ReplayNumbers == \A i \in 1 .. Len(stream) : stream[i].r <= dlqSeq

\* An entry of the present stream holds e, and its replay is not stored.
Kept(e) == \E d \in dlq : d.ev = e /\ d.epoch = epoch /\ ~Stored([ev |-> e, r |-> d.n])

\* Event e is settled, dead-lettered, or stored at sequence lo or later.
Accounted(e, lo) == inbox[e] \in Settled \/ Kept(e) \/ StoredFrom(e, lo)

\* A process that is about to terminate its message may do so.
Terminable == \A w \in Workers : Current(w) /\ worker[w].pc \in {"mark", "term"} =>
                Accounted(worker[w].ev, worker[w].seq + 1)

\* What the durable consumer is done with is accounted for.
PassedAccounted == \A i \in 1 .. Len(stream) : i < cursor => Accounted(stream[i].ev, cursor)

\* An effect is counted with the row that records it, and its version.
EffectsRecorded == \A e \in Events : /\ handled[e] = IF inbox[e] = "processed" THEN 1 ELSE 0
                                     /\ inbox[e] = "processed" => Ver[e] <= applied[Agg[e]]

ConsumerInv == /\ ConsumerTypeOK /\ CursorInStream /\ DeliveryKnown /\ NoneAhead
               /\ AckedIsSettled /\ Letters /\ LettersDistinct /\ ReplayStored
               /\ ReplayNumbers /\ Terminable /\ PassedAccounted /\ EffectsRecorded
-----------------------------------------------------------------------------

\* A publish adds its message at the end of the stream, unless the broker
\* remembers it; either way the message is stored.
LEMMA PublishAppends ==
  ASSUME BrokerTypeOK, NEW m \in MsgId, Publish(m)
  PROVE  /\ BrokerTypeOK'
         /\ Len(stream) \in Nat /\ Len(stream') \in Nat /\ Len(stream) <= Len(stream')
         /\ \A i \in 1 .. Len(stream) : stream'[i] = stream[i]
         /\ \A i \in 1 .. Len(stream') : i \in 1 .. Len(stream) \/ (i = Len(stream) + 1 /\ stream'[i] = m)
         /\ Stored(m)'
         /\ ~Stored(m) => Len(stream') = Len(stream) + 1 /\ stream'[Len(stream) + 1] = m
<1>0. stream \in Seq(MsgId) /\ window \in Nat \ {0} /\ window' = window /\ Len(stream) \in Nat
  BY DEF BrokerTypeOK, Publish
<1>1. CASE Held(m)
  <2>1. stream' = stream /\ Stored(m)
    BY <1>0, <1>1 DEF Publish, Held, Stored
  <2> QED BY <1>0, <2>1 DEF BrokerTypeOK, Stored
<1>2. CASE ~Held(m)
  <2>1. stream' = Append(stream, m)
    BY <1>2 DEF Publish
  <2>2. /\ stream' \in Seq(MsgId) /\ Len(stream') = Len(stream) + 1
        /\ \A i \in 1 .. Len(stream) : stream'[i] = stream[i]
        /\ stream'[Len(stream) + 1] = m
    BY <1>0, <2>1
  <2> QED BY <1>0, <2>2 DEF BrokerTypeOK, Stored
<1> QED BY <1>1, <1>2

\* What a publish leaves true: stored messages stay, and only m is new.
LEMMA PublishKeeps ==
  ASSUME BrokerTypeOK, NEW m \in MsgId, Publish(m)
  PROVE  /\ \A x : Stored(x) => Stored(x)'
         /\ \A x : Stored(x)' => Stored(x) \/ x = m
         /\ \A e, lo : StoredFrom(e, lo) => StoredFrom(e, lo)'
<1>1. /\ Len(stream) \in Nat /\ Len(stream') \in Nat /\ Len(stream) <= Len(stream')
      /\ \A i \in 1 .. Len(stream) : i \in 1 .. Len(stream') /\ stream'[i] = stream[i]
      /\ \A i \in 1 .. Len(stream') : i \in 1 .. Len(stream) \/ stream'[i] = m
  BY PublishAppends
<1>2. \A x : Stored(x) => Stored(x)'
  BY <1>1 DEF Stored
<1>3. \A x : Stored(x)' => Stored(x) \/ x = m
  BY <1>1 DEF Stored
<1>4. \A e, lo : StoredFrom(e, lo) => StoredFrom(e, lo)'
  BY <1>1 DEF StoredFrom
<1> QED BY <1>2, <1>3, <1>4

\* An event that is stored from lo on, and not at lo, is stored from lo + 1 on.
LEMMA StoredBehind ==
  ASSUME NEW e, NEW lo \in Nat, StoredFrom(e, lo), Len(stream) \in Nat,
         lo \in 1 .. Len(stream) => stream[lo].ev # e
  PROVE  StoredFrom(e, lo + 1)
<1>1. PICK i \in 1 .. Len(stream) : i >= lo /\ stream[i].ev = e
  BY DEF StoredFrom
<1>2. i >= lo + 1
  BY <1>1
<1> QED BY <1>1, <1>2 DEF StoredFrom

LEMMA StreamTyped ==
  ASSUME BrokerTypeOK
  PROVE  /\ Len(stream) \in Nat
         /\ \A i \in 1 .. Len(stream) : stream[i] \in MsgId /\ stream[i].ev \in Events /\ stream[i].r \in Nat
<1>1. stream \in Seq(MsgId)
  BY DEF BrokerTypeOK
<1>2. Len(stream) \in Nat /\ \A i \in 1 .. Len(stream) : stream[i] \in MsgId
  BY <1>1
<1> QED BY <1>2 DEF MsgId

\* What is accounted for stays so while no settled row is opened, no entry is
\* deleted and the stream does not change.
LEMMA AccountedStays ==
  ASSUME stream' = stream, epoch' = epoch, dlq \subseteq dlq',
         \A e \in Events : inbox[e] \in Settled => inbox'[e] \in Settled
  PROVE  \A e \in Events : \A lo : Accounted(e, lo) => Accounted(e, lo)'
<1> TAKE e \in Events
<1> TAKE lo
<1>1. Kept(e) => Kept(e)'
  BY DEF Kept, Stored
<1>2. StoredFrom(e, lo) => StoredFrom(e, lo)'
  BY DEF StoredFrom
<1> QED BY <1>1, <1>2 DEF Accounted
-----------------------------------------------------------------------------
\* Before the first message nothing is handled, delivered or dead-lettered.
LEMMA ConsumerInvInit == ConsumerInit => ConsumerInv
<1> SUFFICES ASSUME ConsumerInit
             PROVE  ConsumerInv
  OBVIOUS
<1> USE EventsAssumption, ConsumerAssumption DEF ConsumerInit, BrokerInit, InboxInit, Idle
<1>1. ConsumerTypeOK
  <2>1. BrokerTypeOK
    BY DEF BrokerTypeOK
  <2>2. worker \in [Workers -> Delivery]
    BY DEF Delivery, Step
  <2>3. inbox \in [Events -> InboxState] /\ applied \in [Aggregates -> Nat] /\ handled \in [Events -> Nat]
    BY DEF InboxState
  <2>4. \A w \in Workers : worker[w].pc # "idle" => worker[w].ev \in Events
    OBVIOUS
  <2>5. cursor \in Nat \ {0} /\ dcount \in Nat /\ epoch \in Nat /\ dlqSeq \in Nat
    OBVIOUS
  <2>6. dlq \subseteq Entry /\ replaying \subseteq [n : Nat, ev : Events] /\ kindOf \in Kinds
    OBVIOUS
  <2>7. out \in BOOLEAN
    OBVIOUS
  <2> QED BY <2>1, <2>2, <2>3, <2>4, <2>5, <2>6, <2>7, Zenon DEF ConsumerTypeOK
<1>2. Len(stream) = 0
  OBVIOUS
<1>3. CursorInStream /\ DeliveryKnown /\ NoneAhead /\ AckedIsSettled /\ Terminable
  BY <1>2 DEF CursorInStream, DeliveryKnown, NoneAhead, AckedIsSettled, Terminable, Current, At
<1>4. Letters /\ LettersDistinct /\ ReplayStored /\ ReplayNumbers /\ PassedAccounted
  BY <1>2 DEF Letters, LettersDistinct, ReplayStored, ReplayNumbers, PassedAccounted
<1>5. EffectsRecorded
  BY DEF EffectsRecorded
<1> QED BY <1>1, <1>3, <1>4, <1>5 DEF ConsumerInv

\* The stream stays, no entry is deleted, no settled row is opened: what most
\* steps of a process have in common.
Gentle == /\ stream' = stream /\ epoch' = epoch
          /\ dlq \subseteq dlq'
          /\ \A e \in Events : inbox[e] \in Settled => inbox'[e] \in Settled

\* A process moves on to x.
LEMMA WorkerMoves ==
  ASSUME ConsumerInv, Gentle, cursor' \in Nat, cursor <= cursor',
         NEW w \in Workers, NEW x \in Delivery, worker' = [worker EXCEPT ![w] = x],
         x.pc # "idle" => x.ev \in Events,
         x.epoch <= epoch,
         x.pc # "idle" /\ x.epoch = epoch =>
           x.seq \in 1 .. Len(stream) /\ x.seq <= cursor /\ stream[x.seq].ev = x.ev,
         x.pc = "ack" => inbox'[x.ev] \in Settled,
         x.pc \in {"mark", "term"} /\ x.epoch = epoch => Accounted(x.ev, x.seq + 1)'
  PROVE  /\ worker' \in [Workers -> Delivery]
         /\ \A v \in Workers : worker'[v].pc # "idle" => worker'[v].ev \in Events
         /\ DeliveryKnown' /\ NoneAhead' /\ AckedIsSettled' /\ Terminable'
<1>1. worker \in [Workers -> Delivery] /\ cursor \in Nat
  BY DEF ConsumerInv, ConsumerTypeOK
<1>2. /\ worker' \in [Workers -> Delivery]
      /\ worker'[w] = x
      /\ \A v \in Workers \ {w} : worker'[v] = worker[v]
  BY <1>1
<1>3. \A v \in Workers : worker'[v].pc # "idle" => worker'[v].ev \in Events
  BY <1>2 DEF ConsumerInv, ConsumerTypeOK
<1>4. NoneAhead'
  BY <1>2 DEF ConsumerInv, NoneAhead, Gentle
<1>5. DeliveryKnown'
  <2> SUFFICES ASSUME NEW v \in Workers, Current(v)'
               PROVE  /\ worker'[v].seq \in 1 .. Len(stream) /\ worker'[v].seq <= cursor'
                      /\ stream[worker'[v].seq].ev = worker'[v].ev
    BY DEF DeliveryKnown, Gentle
  <2>1. CASE v = w
    BY <2>1, <1>1, <1>2 DEF Current, Gentle, Delivery
  <2>2. CASE v # w
    BY <2>2, <1>1, <1>2 DEF ConsumerInv, DeliveryKnown, Current, Gentle, Delivery
  <2> QED BY <2>1, <2>2
<1>6. AckedIsSettled'
  <2> SUFFICES ASSUME NEW v \in Workers, worker'[v].pc = "ack"
               PROVE  inbox'[worker'[v].ev] \in Settled
    BY DEF AckedIsSettled, At
  <2>1. CASE v = w
    BY <2>1, <1>2
  <2>2. CASE v # w
    <3>1. inbox[worker[v].ev] \in Settled /\ worker[v].ev \in Events
      BY <2>2, <1>2 DEF ConsumerInv, ConsumerTypeOK, AckedIsSettled, At
    <3> QED BY <3>1, <2>2, <1>2 DEF Gentle
  <2> QED BY <2>1, <2>2
<1>7. Terminable'
  <2> SUFFICES ASSUME NEW v \in Workers, Current(v)', worker'[v].pc \in {"mark", "term"}
               PROVE  Accounted(worker[v].ev, worker[v].seq + 1)'
    BY DEF Terminable
  <2>1. CASE v = w
    <3>1. x.pc \in {"mark", "term"} /\ x.epoch = epoch
      BY <2>1, <1>2 DEF Current, Gentle
    <3>2. Accounted(x.ev, x.seq + 1)'
      BY <3>1
    <3> QED BY <3>2, <2>1, <1>2
  <2>2. CASE v # w
    <3>1. worker'[v] = worker[v]
      BY <2>2, <1>2
    <3>2. Current(v) /\ worker[v].pc \in {"mark", "term"} /\ worker[v].ev \in Events
      BY <3>1, <1>3 DEF Current, Gentle
    <3>3. Accounted(worker[v].ev, worker[v].seq + 1)
      BY <3>2 DEF ConsumerInv, Terminable
    <3>4. \A e \in Events : \A lo : Accounted(e, lo) => Accounted(e, lo)'
      BY AccountedStays DEF Gentle
    <3> QED BY <3>1, <3>2, <3>3, <3>4
  <2> QED BY <2>1, <2>2
<1> QED BY <1>2, <1>3, <1>4, <1>5, <1>6, <1>7

LEMMA CursorStays ==
  ASSUME ConsumerInv, Gentle, cursor' = cursor
  PROVE  CursorInStream' /\ PassedAccounted'
<1>1. \A e \in Events : \A lo : Accounted(e, lo) => Accounted(e, lo)'
  BY AccountedStays DEF Gentle
<1>3. \A i \in 1 .. Len(stream) : stream[i].ev \in Events
  BY StreamTyped DEF ConsumerInv, ConsumerTypeOK
<1>4. CursorInStream'
  BY DEF ConsumerInv, CursorInStream, Gentle
<1>5. PassedAccounted'
  <2> SUFFICES ASSUME NEW i \in 1 .. Len(stream), i < cursor
               PROVE  Accounted(stream[i].ev, cursor)'
    BY DEF PassedAccounted, Gentle
  <2>1. Accounted(stream[i].ev, cursor) /\ stream[i].ev \in Events
    BY <1>3 DEF ConsumerInv, PassedAccounted
  <2>2. Accounted(stream[i].ev, cursor)'
    BY <1>1, <2>1 DEF Gentle
  <2> QED BY <2>2
<1> QED BY <1>4, <1>5

\* The durable consumer is done with a message whose event is accounted for.
LEMMA CursorAdvances ==
  ASSUME ConsumerInv, Gentle, cursor <= Len(stream), cursor' = cursor + 1,
         NEW e \in Events, stream[cursor].ev = e,
         NEW lo \in Nat, lo = cursor + 1, Accounted(e, lo)'
  PROVE  CursorInStream' /\ PassedAccounted'
<1>1. \A c \in Events : \A l : Accounted(c, l) => Accounted(c, l)'
  BY AccountedStays DEF Gentle
<1>2. cursor \in Nat \ {0} /\ Len(stream) \in Nat
  BY StreamTyped DEF ConsumerInv, ConsumerTypeOK
<1>3. \A i \in 1 .. Len(stream) : stream[i].ev \in Events
  BY StreamTyped DEF ConsumerInv, ConsumerTypeOK
<1>4. CursorInStream'
  BY <1>2 DEF CursorInStream, Gentle
<1>5. PassedAccounted'
  <2> SUFFICES ASSUME NEW i \in 1 .. Len(stream), i < lo
               PROVE  Accounted(stream[i].ev, lo)'
    BY DEF PassedAccounted, Gentle
  <2>1. CASE stream[i].ev = e
    BY <2>1 DEF Gentle
  <2>2. CASE stream[i].ev # e
    <3>1. i < cursor
      BY <2>2, <1>2
    <3>2. Accounted(stream[i].ev, cursor)
      BY <3>1 DEF ConsumerInv, PassedAccounted
    <3>3. Accounted(stream[i].ev, lo)
      BY <3>2, <2>2, <1>2, StoredBehind DEF Accounted
    <3>4. stream[i].ev \in Events
      BY <1>3
    <3> QED BY <3>3, <3>4, <1>1 DEF Gentle
  <2> QED BY <2>1, <2>2
<1> QED BY <1>4, <1>5

LEMMA DlqStays ==
  ASSUME ConsumerInv, stream' = stream, epoch' = epoch, UNCHANGED dlqVars
  PROVE  Letters' /\ LettersDistinct' /\ ReplayStored' /\ ReplayNumbers'
BY DEF ConsumerInv, dlqVars, Letters, LettersDistinct, ReplayStored, ReplayNumbers, Stored

\* A new entry has a number of its own, and keeps its event.
LEMMA EntryStored ==
  ASSUME ConsumerInv, NEW kind \in {"consumer", "advisory"}, NEW e \in Events, NEW seq \in Nat,
         StoreEntry(kind, e, seq), stream' = stream, epoch' = epoch, replaying' = replaying,
         kind = "advisory" => seq \in 1 .. Len(stream) /\ stream[seq].ev = e
  PROVE  /\ dlq' \subseteq Entry /\ dlqSeq' \in Nat /\ dlq \subseteq dlq'
         /\ Letters' /\ LettersDistinct' /\ ReplayStored' /\ ReplayNumbers'
         /\ Kept(e)'
<1> DEFINE new == [n |-> dlqSeq + 1, kind |-> kind, ev |-> e, seq |-> seq, epoch |-> epoch, len |-> Len(stream)]
<1>1. dlq' = dlq \cup {new} /\ dlqSeq' = dlqSeq + 1
  BY DEF StoreEntry, EntryOf
<1>2. stream \in Seq(MsgId) /\ Len(stream) \in Nat /\ dlqSeq \in Nat /\ epoch \in Nat /\ dlq \subseteq Entry
  BY DEF ConsumerInv, ConsumerTypeOK, BrokerTypeOK
<1>3. new \in Entry /\ dlq' \subseteq Entry /\ dlqSeq' \in Nat /\ dlq \subseteq dlq'
  BY <1>1, <1>2 DEF Entry
<1>4. \A d \in dlq : d.n \in 1 .. dlqSeq /\ d.n # dlqSeq + 1 /\ d.epoch <= epoch
  BY <1>2 DEF ConsumerInv, Letters
<1>5. Letters'
  <2>1. ASSUME NEW d \in dlq'
        PROVE  /\ d.n \in 1 .. dlqSeq' /\ d.epoch <= epoch
               /\ d.kind = "advisory" /\ d.epoch = epoch => d.seq \in 1 .. Len(stream) /\ stream[d.seq].ev = d.ev
    <3>1. CASE d \in dlq
      BY <3>1, <1>1, <1>2 DEF ConsumerInv, Letters
    <3>2. CASE d = new
      BY <3>2, <1>1, <1>2
    <3> QED BY <3>1, <3>2, <1>1
  <2> QED BY <2>1 DEF Letters
<1>6. LettersDistinct'
  BY <1>1, <1>4 DEF ConsumerInv, LettersDistinct
<1>7. ReplayStored'
  <2> SUFFICES ASSUME NEW p \in replaying
               PROVE  /\ p.n \in 1 .. dlqSeq'
                      /\ \A d \in dlq' : d.n = p.n => /\ d.ev = p.ev
                                                      /\ d.epoch = epoch => Stored([ev |-> p.ev, r |-> p.n])
    BY DEF ReplayStored, Stored
  <2>0. p.n \in 1 .. dlqSeq
    BY DEF ConsumerInv, ReplayStored
  <2>1. p.n # dlqSeq + 1
    BY <2>0, <1>2
  <2>2. \A d \in dlq' : d.n = p.n => d \in dlq
    BY <1>1, <2>1
  <2>3. \A d \in dlq : d.n = p.n => d.ev = p.ev /\ (d.epoch = epoch => Stored([ev |-> p.ev, r |-> p.n]))
    BY DEF ConsumerInv, ReplayStored
  <2>4. p.n \in 1 .. dlqSeq'
    BY <2>0, <1>1, <1>2
  <2> QED BY <2>2, <2>3, <2>4
<1>8. ReplayNumbers'
  <2>1. \A i \in 1 .. Len(stream) : stream[i].r \in Nat
    BY StreamTyped DEF ConsumerInv, ConsumerTypeOK
  <2> QED BY <1>1, <1>2, <2>1 DEF ConsumerInv, ReplayNumbers
<1>9. Kept(e)'
  <2>1. ~Stored([ev |-> e, r |-> dlqSeq + 1])
    BY <1>2 DEF ConsumerInv, ReplayNumbers, Stored
  <2>2. new \in dlq' /\ new.ev = e /\ new.epoch = epoch' /\ new.n = dlqSeq + 1
    BY <1>1
  <2> QED BY <2>1, <2>2 DEF Kept, Stored
<1> QED BY <1>3, <1>5, <1>6, <1>7, <1>8, <1>9

LEMMA EffectsStay ==
  ASSUME ConsumerInv, applied' = applied, handled' = handled,
         \A e \in Events : inbox'[e] = "processed" <=> inbox[e] = "processed"
  PROVE  EffectsRecorded'
BY DEF ConsumerInv, EffectsRecorded

LEMMA StepType ==
  ASSUME ConsumerTypeOK, UNCHANGED <<worldVars, brokerVars>>,
         inbox' \in [Events -> InboxState], applied' \in [Aggregates -> Nat], handled' \in [Events -> Nat],
         worker' \in [Workers -> Delivery],
         \A v \in Workers : worker'[v].pc # "idle" => worker'[v].ev \in Events,
         cursor' \in Nat \ {0}, dcount' \in Nat, out' \in BOOLEAN,
         dlq' \subseteq Entry, dlqSeq' \in Nat, replaying' = replaying
  PROVE  ConsumerTypeOK'
<1>1. BrokerTypeOK' /\ epoch' \in Nat /\ kindOf' \in Kinds /\ replaying' \subseteq [n : Nat, ev : Events]
  BY DEF ConsumerTypeOK, BrokerTypeOK, worldVars, brokerVars
<1> QED BY <1>1, Zenon DEF ConsumerTypeOK
-----------------------------------------------------------------------------
\* A step of one process that leaves the stream, the cursor and the DLQ alone.
LEMMA ProcessStep ==
  ASSUME ConsumerInv, NEW w \in Workers, NEW x \in Delivery, worker' = [worker EXCEPT ![w] = x],
         UNCHANGED <<cursor, worldVars, dlqVars, brokerVars>>,
         dcount' \in Nat, out' \in BOOLEAN,
         inbox' \in [Events -> InboxState], applied' \in [Aggregates -> Nat], handled' \in [Events -> Nat],
         \A e \in Events : inbox[e] \in Settled => inbox'[e] \in Settled,
         EffectsRecorded',
         x.pc # "idle" => x.ev \in Events,
         x.epoch <= epoch,
         x.pc # "idle" /\ x.epoch = epoch =>
           x.seq \in 1 .. Len(stream) /\ x.seq <= cursor /\ stream[x.seq].ev = x.ev,
         x.pc = "ack" => inbox'[x.ev] \in Settled,
         x.pc \in {"mark", "term"} /\ x.epoch = epoch => Accounted(x.ev, x.seq + 1)
  PROVE  ConsumerInv'
<1>1. Gentle /\ cursor' = cursor /\ stream' = stream /\ epoch' = epoch /\ dlq' = dlq /\ dlqSeq' = dlqSeq /\ replaying' = replaying
  BY DEF Gentle, worldVars, dlqVars, brokerVars
<1>2. cursor \in Nat \ {0} /\ dlq \subseteq Entry /\ dlqSeq \in Nat /\ ConsumerTypeOK
  BY DEF ConsumerInv, ConsumerTypeOK
<1>3. x.pc \in {"mark", "term"} /\ x.epoch = epoch => Accounted(x.ev, x.seq + 1)'
  BY <1>1, AccountedStays DEF Gentle
<1>0. cursor' \in Nat /\ cursor <= cursor'
  BY <1>1, <1>2
<1>4. /\ worker' \in [Workers -> Delivery]
      /\ \A v \in Workers : worker'[v].pc # "idle" => worker'[v].ev \in Events
      /\ DeliveryKnown' /\ NoneAhead' /\ AckedIsSettled' /\ Terminable'
  BY <1>0, <1>1, <1>3, WorkerMoves
<1>5. CursorInStream' /\ PassedAccounted'
  BY <1>1, CursorStays
<1>6. Letters' /\ LettersDistinct' /\ ReplayStored' /\ ReplayNumbers'
  BY <1>1, DlqStays
<1>7. ConsumerTypeOK'
  BY <1>1, <1>2, <1>4, StepType
<1> QED BY <1>4, <1>5, <1>6, <1>7 DEF ConsumerInv

\* A process goes on to its next step with the same delivery.
LEMMA GotoStep ==
  ASSUME ConsumerInv, NEW w \in Workers, NEW pc \in Step, Goto(w, pc), ~At(w, "idle"),
         UNCHANGED <<cursor, worldVars, dlqVars, brokerVars>>,
         dcount' \in Nat, out' \in BOOLEAN,
         inbox' \in [Events -> InboxState], applied' \in [Aggregates -> Nat], handled' \in [Events -> Nat],
         \A e \in Events : inbox[e] \in Settled => inbox'[e] \in Settled,
         EffectsRecorded',
         pc = "ack" => inbox'[worker[w].ev] \in Settled,
         pc \in {"mark", "term"} => At(w, "mark")
  PROVE  ConsumerInv'
<1> DEFINE x == [worker[w] EXCEPT !.pc = pc]
<1>1. worker[w] \in Delivery /\ worker[w].ev \in Events /\ worker \in [Workers -> Delivery]
  BY DEF ConsumerInv, ConsumerTypeOK, At
<1>2. /\ x \in Delivery /\ x.ev = worker[w].ev /\ x.seq = worker[w].seq /\ x.epoch = worker[w].epoch /\ x.pc = pc
  BY <1>1 DEF Delivery
<1>3. worker' = [worker EXCEPT ![w] = x]
  BY DEF Goto
<1>4. x.epoch <= epoch
  BY <1>2 DEF ConsumerInv, NoneAhead
<1>5. x.epoch = epoch => x.seq \in 1 .. Len(stream) /\ x.seq <= cursor /\ stream[x.seq].ev = x.ev
  BY <1>2 DEF ConsumerInv, DeliveryKnown, Current, At
<1>6. x.pc \in {"mark", "term"} /\ x.epoch = epoch => Accounted(x.ev, x.seq + 1)
  BY <1>2 DEF ConsumerInv, Terminable, Current, At
<1>7. (x.pc # "idle" => x.ev \in Events) /\ (x.pc = "ack" => inbox'[x.ev] \in Settled)
  BY <1>1, <1>2
<1> HIDE DEF x
<1> QED BY <1>2, <1>3, <1>4, <1>5, <1>6, <1>7, ProcessStep

\* A process is done with its delivery and pulls again.
LEMMA DoneStep ==
  ASSUME ConsumerInv, NEW w \in Workers, Done(w),
         UNCHANGED <<cursor, worldVars, dlqVars, brokerVars>>,
         dcount' \in Nat, out' \in BOOLEAN,
         inbox' \in [Events -> InboxState], applied' \in [Aggregates -> Nat], handled' \in [Events -> Nat],
         \A e \in Events : inbox[e] \in Settled => inbox'[e] \in Settled,
         EffectsRecorded'
  PROVE  ConsumerInv'
<1>1. Idle \in Delivery /\ Idle.pc = "idle" /\ Idle.epoch = 0
  BY DEF Idle, Delivery, Step
<1>2. worker' = [worker EXCEPT ![w] = Idle]
  BY DEF Done
<1>3. 0 <= epoch
  BY DEF ConsumerInv, ConsumerTypeOK
<1> QED BY <1>1, <1>2, <1>3, ProcessStep
-----------------------------------------------------------------------------
(* The steps of InboxNext *)

LEMMA DeliverKeeps ==
  ASSUME ConsumerInv, NEW w \in Workers, Deliver(w)
  PROVE  ConsumerInv'
<1> DEFINE x == [pc |-> "apply", ev |-> stream[cursor].ev, seq |-> cursor, count |-> dcount + 1, epoch |-> epoch]
<1>1. cursor \in Nat \ {0} /\ dcount \in Nat /\ epoch \in Nat
  BY DEF ConsumerInv, ConsumerTypeOK
<1>2. cursor \in 1 .. Len(stream) /\ stream[cursor].ev \in Events
  BY <1>1, StreamTyped DEF ConsumerInv, ConsumerTypeOK, Deliver
<1>3. x \in Delivery
  BY <1>1, <1>2 DEF Delivery, Step
<1>4. /\ worker' = [worker EXCEPT ![w] = x]
      /\ UNCHANGED <<cursor, worldVars, dlqVars, brokerVars>>
      /\ UNCHANGED <<inbox, applied, handled>>
      /\ dcount' \in Nat
  BY <1>1 DEF Deliver, tableVars
<1>5. out' \in BOOLEAN
  BY DEF Deliver
<1>6. /\ inbox' \in [Events -> InboxState] /\ applied' \in [Aggregates -> Nat] /\ handled' \in [Events -> Nat]
      /\ \A e \in Events : inbox[e] \in Settled => inbox'[e] \in Settled
  BY <1>4 DEF ConsumerInv, ConsumerTypeOK
<1>7. EffectsRecorded'
  BY <1>4, EffectsStay
<1>8. /\ x.pc = "apply" /\ x.ev \in Events /\ x.epoch = epoch /\ epoch <= epoch /\ cursor <= cursor
      /\ x.seq \in 1 .. Len(stream) /\ x.seq = cursor /\ stream[x.seq].ev = x.ev
  BY <1>1, <1>2
<1> HIDE DEF x
<1> QED BY <1>3, <1>4, <1>5, <1>6, <1>7, <1>8, ProcessStep

\* One inbox row changes, and not from a settled state.
LEMMA RowStep ==
  ASSUME ConsumerInv, NEW e \in Events, NEW s \in InboxState,
         inbox' = [inbox EXCEPT ![e] = s], s = inbox[e] \/ inbox[e] \notin Settled
  PROVE  /\ inbox' \in [Events -> InboxState]
         /\ \A d \in Events : inbox[d] \in Settled => inbox'[d] \in Settled
         /\ inbox'[e] = s
         /\ \A d \in Events \ {e} : inbox'[d] = inbox[d]
BY DEF ConsumerInv, ConsumerTypeOK

\* apply() commits: the row of the event is settled, with or without an effect.
LEMMA SettleKeeps ==
  ASSUME ConsumerInv, NEW w \in Workers, Processes(w) \/ SkipsStale(w) \/ SkipsTest(w)
  PROVE  ConsumerInv'
<1> DEFINE e == worker[w].ev
<1>1. ~At(w, "idle") /\ inbox[e] \notin Settled
  BY DEF Processes, SkipsStale, SkipsTest, Claims, At
<1>2. e \in Events
  BY <1>1 DEF ConsumerInv, ConsumerTypeOK, At
<1>3. PICK s \in Settled : inbox' = [inbox EXCEPT ![e] = s]
  BY DEF Processes, SkipsStale, SkipsTest, Settled
<1>4. s \in InboxState /\ "ack" \in Step
  BY DEF InboxState, Step
<1>5. /\ inbox' \in [Events -> InboxState]
      /\ \A d \in Events : inbox[d] \in Settled => inbox'[d] \in Settled
      /\ inbox'[e] = s
      /\ \A d \in Events \ {e} : inbox'[d] = inbox[d]
  BY <1>1, <1>2, <1>3, <1>4, RowStep
<1>6. Goto(w, "ack") /\ UNCHANGED <<durableVars, worldVars, dlqVars, brokerVars>>
  BY DEF Processes, SkipsStale, SkipsTest
<1>7. /\ applied' \in [Aggregates -> Nat] /\ handled' \in [Events -> Nat] /\ EffectsRecorded'
  <2>0. /\ applied \in [Aggregates -> Nat] /\ handled \in [Events -> Nat] /\ EffectsRecorded
        /\ \A d \in Events : Agg[d] \in Aggregates /\ Ver[d] \in Nat
    BY EventsAssumption DEF ConsumerInv, ConsumerTypeOK, Aggregates
  <2>1. CASE Processes(w)
    <3>1. /\ inbox' = [inbox EXCEPT ![e] = "processed"]
          /\ applied' = [applied EXCEPT ![Agg[e]] = Ver[e]]
          /\ handled' = [handled EXCEPT ![e] = @ + 1]
          /\ applied[Agg[e]] <= Ver[e]
      BY <2>1 DEF Processes, Fresh
    <3>2. handled[e] = 0
      BY <1>1, <1>2, <2>0 DEF EffectsRecorded, Settled
    <3>3. /\ applied' \in [Aggregates -> Nat] /\ handled' \in [Events -> Nat]
          /\ handled'[e] = 1 /\ \A d \in Events \ {e} : handled'[d] = handled[d]
          /\ \A d \in Events : applied[Agg[d]] <= applied'[Agg[d]]
          /\ applied'[Agg[e]] = Ver[e]
      BY <1>2, <2>0, <3>1, <3>2
    <3>4. inbox'[e] = "processed"
      BY <1>2, <3>1 DEF ConsumerInv, ConsumerTypeOK
    <3>5. ASSUME NEW d \in Events
          PROVE  /\ handled'[d] = IF inbox'[d] = "processed" THEN 1 ELSE 0
                 /\ inbox'[d] = "processed" => Ver[d] <= applied'[Agg[d]]
      <4>1. CASE d = e
        BY <4>1, <2>0, <3>3, <3>4
      <4>2. CASE d # e
        <5>1. applied[Agg[d]] \in Nat /\ applied'[Agg[d]] \in Nat /\ Ver[d] \in Nat
          BY <2>0, <3>3
        <5> QED BY <4>2, <5>1, <2>0, <3>3, <1>5 DEF EffectsRecorded
      <4> QED BY <4>1, <4>2
    <3> QED BY <3>3, <3>5 DEF EffectsRecorded
  <2>2. CASE SkipsStale(w) \/ SkipsTest(w)
    <3>1. applied' = applied /\ handled' = handled
      BY <2>2 DEF SkipsStale, SkipsTest
    <3>2. inbox' = [inbox EXCEPT ![e] = "skipped_stale"] \/ inbox' = [inbox EXCEPT ![e] = "skipped_test"]
      BY <2>2 DEF SkipsStale, SkipsTest
    <3>3. inbox'[e] # "processed"
      BY <3>2, <1>2 DEF ConsumerInv, ConsumerTypeOK
    <3>4. \A d \in Events : inbox'[d] = "processed" <=> inbox[d] = "processed"
      BY <3>3, <1>1, <1>5 DEF Settled
    <3> QED BY <2>0, <3>1, <3>4, EffectsStay
  <2> QED BY <2>1, <2>2
<1>8. UNCHANGED <<cursor, worldVars, dlqVars, brokerVars>> /\ dcount' \in Nat
  BY <1>6 DEF durableVars, ConsumerInv, ConsumerTypeOK
<1>9. out' \in BOOLEAN
  <2>1. out' = out /\ out \in BOOLEAN
    BY <1>6 DEF durableVars, ConsumerInv, ConsumerTypeOK
  <2> QED BY <2>1
<1>10. inbox'[worker[w].ev] \in Settled
  BY <1>5
<1> HIDE DEF e
<1> QED BY <1>1, <1>4, <1>5, <1>6, <1>7, <1>8, <1>9, <1>10, GotoStep

\* The tables, the cursor and the DLQ are left alone: a process goes on.
LEMMA SameTables ==
  ASSUME ConsumerInv, UNCHANGED tableVars
  PROVE  /\ inbox' \in [Events -> InboxState] /\ applied' \in [Aggregates -> Nat] /\ handled' \in [Events -> Nat]
         /\ \A e \in Events : inbox[e] \in Settled => inbox'[e] \in Settled
         /\ EffectsRecorded'
<1>1. UNCHANGED <<inbox, applied, handled>>
  BY DEF tableVars
<1>2. EffectsRecorded'
  BY <1>1, EffectsStay
<1> QED BY <1>1, <1>2 DEF ConsumerInv, ConsumerTypeOK

LEMMA SameDurable ==
  ASSUME ConsumerInv, UNCHANGED durableVars
  PROVE  cursor' = cursor /\ dcount' \in Nat /\ out' \in BOOLEAN
<1>1. UNCHANGED <<cursor, dcount, out>>
  BY DEF durableVars
<1>2. dcount \in Nat /\ out \in BOOLEAN
  BY DEF ConsumerInv, ConsumerTypeOK
<1> QED BY <1>1, <1>2

\* The claim finds a settled row, or a message that is not for this consumer,
\* or the handler throws.
LEMMA LookKeeps ==
  ASSUME ConsumerInv, NEW w \in Workers, FindsDuplicate(w) \/ FindsInvalid(w) \/ ApplyFails(w)
  PROVE  ConsumerInv'
<1>1. ~At(w, "idle") /\ UNCHANGED <<tableVars, durableVars, worldVars, dlqVars, brokerVars>>
  BY DEF FindsDuplicate, FindsInvalid, ApplyFails, At
<1>2. PICK pc \in {"ack", "invalid", "failed"} : Goto(w, pc) /\ (pc = "ack" => inbox[worker[w].ev] \in Settled)
  BY DEF FindsDuplicate, FindsInvalid, ApplyFails
<1>3. pc \in Step /\ pc \notin {"mark", "term"}
  BY DEF Step
<1>4. cursor' = cursor /\ dcount' \in Nat /\ out' \in BOOLEAN
  BY <1>1, SameDurable
<1>5. inbox' = inbox
  BY <1>1 DEF tableVars
<1>6. /\ inbox' \in [Events -> InboxState] /\ applied' \in [Aggregates -> Nat] /\ handled' \in [Events -> Nat]
      /\ \A e \in Events : inbox[e] \in Settled => inbox'[e] \in Settled
      /\ EffectsRecorded'
  BY <1>1, SameTables
<1>7. UNCHANGED <<cursor, worldVars, dlqVars, brokerVars>> /\ (pc = "ack" => inbox'[worker[w].ev] \in Settled)
  BY <1>1, <1>2, <1>4, <1>5
<1> QED BY <1>1, <1>2, <1>3, <1>4, <1>6, <1>7, GotoStep

\* nak() leaves the durable consumer well-formed.
LEMMA NakStep ==
  ASSUME ConsumerInv, NEW w \in Workers, Nak(w)
  PROVE  Done(w) /\ cursor' = cursor /\ dcount' \in Nat /\ out' \in BOOLEAN
<1>1. Done(w) /\ cursor' = cursor /\ dcount' = dcount
  BY DEF Nak
<1>2. dcount \in Nat
  BY DEF ConsumerInv, ConsumerTypeOK
<1>3. out' \in BOOLEAN
  BY DEF Nak
<1> QED BY <1>1, <1>2, <1>3

\* The failure path, up to the dead letter.
LEMMA FailureKeeps ==
  ASSUME ConsumerInv, NEW w \in Workers, RecordFailure(w) \/ FailureUnrecorded(w)
  PROVE  ConsumerInv'
<1>1. /\ ~At(w, "idle") /\ AfterFailure(w)
      /\ UNCHANGED <<applied, handled, worldVars, dlqVars, brokerVars>>
  BY DEF RecordFailure, FailureUnrecorded, At, tableVars
<1>2. worker[w].ev \in Events
  BY <1>1 DEF ConsumerInv, ConsumerTypeOK, At
<1>3. /\ inbox' \in [Events -> InboxState]
      /\ \A e \in Events : inbox[e] \in Settled => inbox'[e] \in Settled
      /\ EffectsRecorded'
  <2>1. CASE RecordFailure(w)
    <3> DEFINE e == worker[w].ev
    <3>1. inbox \in [Events -> InboxState] /\ inbox' = [inbox EXCEPT ![e] = FailedState(inbox[e])]
      BY <2>1 DEF RecordFailure, ConsumerInv, ConsumerTypeOK
    <3>2. /\ FailedState(inbox[e]) \in InboxState
          /\ FailedState(inbox[e]) = inbox[e] \/ inbox[e] \notin Settled
          /\ FailedState(inbox[e]) = "processed" <=> inbox[e] = "processed"
      BY <1>2, <3>1 DEF FailedState, InboxState, Settled
    <3>3. /\ inbox' \in [Events -> InboxState]
          /\ \A d \in Events : inbox[d] \in Settled => inbox'[d] \in Settled
          /\ inbox'[e] = FailedState(inbox[e])
          /\ \A d \in Events \ {e} : inbox'[d] = inbox[d]
      BY <1>2, <3>1, <3>2, RowStep
    <3>4. \A d \in Events : inbox'[d] = "processed" <=> inbox[d] = "processed"
      BY <3>2, <3>3
    <3> QED BY <1>1, <3>3, <3>4, EffectsStay
  <2>2. CASE FailureUnrecorded(w)
    <3>1. UNCHANGED tableVars
      BY <2>2 DEF FailureUnrecorded
    <3> QED BY <3>1, SameTables
  <2> QED BY <2>1, <2>2
<1>4. applied' \in [Aggregates -> Nat] /\ handled' \in [Events -> Nat]
  BY <1>1 DEF ConsumerInv, ConsumerTypeOK
<1>5. CASE Goto(w, "dlq") /\ UNCHANGED durableVars
  <2>1. cursor' = cursor /\ dcount' \in Nat /\ out' \in BOOLEAN /\ "dlq" \in Step
    BY <1>5, SameDurable DEF Step
  <2>2. UNCHANGED <<cursor, worldVars, dlqVars, brokerVars>>
    BY <1>1, <2>1
  <2> QED BY <1>1, <1>3, <1>4, <1>5, <2>1, <2>2, GotoStep
<1>6. CASE Nak(w)
  <2>1. Done(w) /\ cursor' = cursor /\ dcount' \in Nat /\ out' \in BOOLEAN
    BY <1>6, NakStep
  <2>2. UNCHANGED <<cursor, worldVars, dlqVars, brokerVars>>
    BY <1>1, <2>1
  <2> QED BY <1>3, <1>4, <2>1, <2>2, DoneStep
<1> QED BY <1>1, <1>5, <1>6 DEF AfterFailure

LEMMA MarkKeeps ==
  ASSUME ConsumerInv, NEW w \in Workers, MarksDeadLettered(w)
  PROVE  ConsumerInv'
<1> DEFINE e == worker[w].ev
           s == IF inbox[e] = "failed" THEN "dead_lettered" ELSE inbox[e]
<1>1. /\ ~At(w, "idle") /\ At(w, "mark") /\ Goto(w, "term") /\ "term" \in Step
      /\ UNCHANGED <<applied, handled, durableVars, worldVars, dlqVars, brokerVars>>
  BY DEF MarksDeadLettered, At, Step
<1>2. e \in Events
  BY <1>1 DEF ConsumerInv, ConsumerTypeOK, At
<1>3. inbox \in [Events -> InboxState] /\ inbox' = [inbox EXCEPT ![e] = s]
  BY DEF MarksDeadLettered, ConsumerInv, ConsumerTypeOK
<1>4. s \in InboxState /\ (s = inbox[e] \/ inbox[e] \notin Settled) /\ (s = "processed" <=> inbox[e] = "processed")
  BY <1>2, <1>3 DEF InboxState, Settled
<1>5. /\ inbox' \in [Events -> InboxState]
      /\ \A d \in Events : inbox[d] \in Settled => inbox'[d] \in Settled
      /\ inbox'[e] = s
      /\ \A d \in Events \ {e} : inbox'[d] = inbox[d]
  BY <1>2, <1>3, <1>4, RowStep
<1>6. EffectsRecorded'
  <2>1. \A d \in Events : inbox'[d] = "processed" <=> inbox[d] = "processed"
    BY <1>4, <1>5
  <2> QED BY <1>1, <2>1, EffectsStay
<1>7. applied' \in [Aggregates -> Nat] /\ handled' \in [Events -> Nat]
  BY <1>1 DEF ConsumerInv, ConsumerTypeOK
<1>8. cursor' = cursor /\ dcount' \in Nat /\ out' \in BOOLEAN
  BY <1>1, SameDurable
<1>9. UNCHANGED <<cursor, worldVars, dlqVars, brokerVars>>
  BY <1>1, <1>8
<1> QED BY <1>1, <1>5, <1>6, <1>7, <1>8, <1>9, GotoStep

\* A mark that throws, and a process that dies: the delivery is forgotten.
LEMMA ForgetKeeps ==
  ASSUME ConsumerInv, NEW w \in Workers, MarkFails(w) \/ Dies(w)
  PROVE  ConsumerInv'
<1>1. UNCHANGED <<tableVars, worldVars, dlqVars, brokerVars>>
  BY DEF MarkFails, Dies
<1>2. Done(w) /\ cursor' = cursor /\ dcount' \in Nat /\ out' \in BOOLEAN
  <2>1. CASE MarkFails(w)
    BY <2>1, NakStep DEF MarkFails
  <2>2. CASE Dies(w)
    BY <2>2, SameDurable DEF Dies
  <2> QED BY <2>1, <2>2
<1>3. UNCHANGED <<cursor, worldVars, dlqVars, brokerVars>>
  BY <1>1, <1>2
<1>4. /\ inbox' \in [Events -> InboxState] /\ applied' \in [Aggregates -> Nat] /\ handled' \in [Events -> Nat]
      /\ \A e \in Events : inbox[e] \in Settled => inbox'[e] \in Settled
      /\ EffectsRecorded'
  BY <1>1, SameTables
<1> QED BY <1>2, <1>3, <1>4, DoneStep

\* A step that leaves the tables and the cursor alone while the DLQ may get an
\* entry about the message of w.
LEMMA DlqStep ==
  ASSUME ConsumerInv, NEW w \in Workers, At(w, "dlq") \/ At(w, "invalid"),
         UNCHANGED <<tableVars, cursor, worldVars, replaying, brokerVars>>, dcount' \in Nat, out' \in BOOLEAN,
         NEW x \in Delivery, worker' = [worker EXCEPT ![w] = x],
         NEW e \in Events, e = worker[w].ev, NEW q \in Nat, q = worker[w].seq,
         \/ StoreEntry("consumer", e, q) /\ x = [worker[w] EXCEPT !.pc = x.pc] /\ x.pc \in {"mark", "term"}
         \/ (StoreEntry("consumer", e, q) \/ UNCHANGED <<dlq, dlqSeq>>) /\ x = Idle
  PROVE  ConsumerInv'
<1>1. /\ UNCHANGED <<inbox, applied, handled, cursor, epoch, replaying, stream>>
      /\ UNCHANGED <<worldVars, brokerVars>>
  BY DEF tableVars, worldVars, brokerVars
<1>2. worker \in [Workers -> Delivery] /\ worker[w].ev \in Events /\ worker[w].seq \in Nat /\ worker[w].pc # "idle"
  <2>1. worker \in [Workers -> Delivery] /\ worker[w].ev \in Events /\ worker[w].pc # "idle"
    BY DEF ConsumerInv, ConsumerTypeOK, At
  <2> QED BY <2>1 DEF Delivery
<1>3. /\ dlq' \subseteq Entry /\ dlqSeq' \in Nat /\ dlq \subseteq dlq'
      /\ Letters' /\ LettersDistinct' /\ ReplayStored' /\ ReplayNumbers'
      /\ StoreEntry("consumer", e, q) => Kept(e)'
  <2>1. CASE StoreEntry("consumer", e, q)
    BY <2>1, <1>1, EntryStored
  <2>2. CASE UNCHANGED <<dlq, dlqSeq>>
    <3>1. UNCHANGED dlqVars
      BY <2>2, <1>1 DEF dlqVars
    <3>2. Letters' /\ LettersDistinct' /\ ReplayStored' /\ ReplayNumbers'
      BY <1>1, <3>1, DlqStays
    <3>3. dlqSeq \in Nat /\ dlq \subseteq Entry
      BY DEF ConsumerInv, ConsumerTypeOK
    <3>4. ~StoreEntry("consumer", e, q)
      BY <2>2, <3>3 DEF StoreEntry
    <3> QED BY <2>2, <3>2, <3>3, <3>4
  <2> QED BY <2>1, <2>2
<1>4. Gentle /\ cursor' \in Nat \ {0} /\ cursor <= cursor'
  BY <1>1, <1>3 DEF Gentle, ConsumerInv, ConsumerTypeOK
<1>5. /\ x.pc # "idle" => x.ev \in Events
      /\ x.epoch <= epoch
      /\ x.pc # "idle" /\ x.epoch = epoch =>
           x.seq \in 1 .. Len(stream) /\ x.seq <= cursor /\ stream[x.seq].ev = x.ev
      /\ x.pc # "ack"
      /\ x.pc # "idle" => x.ev = worker[w].ev
  <2>1. CASE x = Idle
    BY <2>1 DEF Idle, ConsumerInv, ConsumerTypeOK
  <2>2. CASE x = [worker[w] EXCEPT !.pc = x.pc] /\ x.pc \in {"mark", "term"}
    <3>1. x.ev = worker[w].ev /\ x.seq = worker[w].seq /\ x.epoch = worker[w].epoch
      BY <1>2, <2>2 DEF Delivery
    <3>2. worker[w].epoch <= epoch
      BY DEF ConsumerInv, NoneAhead
    <3>3. worker[w].epoch = epoch => /\ worker[w].seq \in 1 .. Len(stream) /\ worker[w].seq <= cursor
                                     /\ stream[worker[w].seq].ev = worker[w].ev
      BY <1>2 DEF ConsumerInv, DeliveryKnown, Current
    <3> QED BY <1>2, <2>2, <3>1, <3>2, <3>3
  <2> QED BY <2>1, <2>2
<1>6. x.pc \in {"mark", "term"} => Accounted(x.ev, x.seq + 1)'
  <2> SUFFICES ASSUME x.pc \in {"mark", "term"}
               PROVE  Kept(x.ev)'
    BY DEF Accounted
  <2>1. x # Idle /\ x.ev = e
    BY <1>5 DEF Idle
  <2> QED BY <2>1, <1>3
<1>7. /\ worker' \in [Workers -> Delivery]
      /\ \A v \in Workers : worker'[v].pc # "idle" => worker'[v].ev \in Events
      /\ DeliveryKnown' /\ NoneAhead' /\ AckedIsSettled' /\ Terminable'
  <2>1. cursor' \in Nat
    BY <1>4
  <2> QED BY <2>1, <1>4, <1>5, <1>6, WorkerMoves
<1>8. CursorInStream' /\ PassedAccounted'
  BY <1>1, <1>4, CursorStays
<1>9. /\ inbox' \in [Events -> InboxState] /\ applied' \in [Aggregates -> Nat] /\ handled' \in [Events -> Nat]
      /\ EffectsRecorded'
  BY SameTables
<1>10. ConsumerTypeOK'
  BY <1>1, <1>3, <1>4, <1>7, <1>9, StepType DEF ConsumerInv
<1> QED BY <1>3, <1>7, <1>8, <1>9, <1>10 DEF ConsumerInv

LEMMA DlqPublishKeeps ==
  ASSUME ConsumerInv, NEW w \in Workers, PublishesDlq(w) \/ DlqPublishFails(w)
  PROVE  ConsumerInv'
<1> DEFINE e == worker[w].ev
           q == worker[w].seq
<1>1. At(w, "dlq") \/ At(w, "invalid")
  BY DEF PublishesDlq, DlqPublishFails
<1>2. worker \in [Workers -> Delivery] /\ worker[w] \in Delivery /\ e \in Events
  BY <1>1 DEF ConsumerInv, ConsumerTypeOK, At
<1>3. q \in Nat
  BY <1>2 DEF Delivery
<1>4. CASE PublishesDlq(w)
  <2> DEFINE pc == IF At(w, "dlq") THEN "mark" ELSE "term"
             x == [worker[w] EXCEPT !.pc = pc]
  <2>1. x \in Delivery /\ x.pc = pc
    BY <1>2 DEF Delivery, Step
  <2>2. /\ StoreEntry("consumer", e, q) /\ worker' = [worker EXCEPT ![w] = x]
        /\ UNCHANGED <<tableVars, durableVars, worldVars, replaying, brokerVars>>
    BY <1>4 DEF PublishesDlq, Goto
  <2>3. cursor' = cursor /\ dcount' \in Nat /\ out' \in BOOLEAN
    BY <2>2, SameDurable
  <2>4. UNCHANGED <<tableVars, cursor, worldVars, replaying, brokerVars>>
    BY <2>2, <2>3
  <2>5. x.pc \in {"mark", "term"} /\ x = [worker[w] EXCEPT !.pc = x.pc]
    BY <2>1
  <2> HIDE DEF x
  <2> QED BY <1>1, <1>2, <1>3, <2>1, <2>2, <2>3, <2>4, <2>5, DlqStep
<1>5. CASE DlqPublishFails(w)
  <2>1. /\ StoreEntry("consumer", e, q) \/ UNCHANGED <<dlq, dlqSeq>>
        /\ Nak(w)
        /\ UNCHANGED <<tableVars, worldVars, replaying, brokerVars>>
    BY <1>5 DEF DlqPublishFails
  <2>2. Done(w) /\ cursor' = cursor /\ dcount' \in Nat /\ out' \in BOOLEAN
    BY <2>1, NakStep
  <2>3. Idle \in Delivery /\ worker' = [worker EXCEPT ![w] = Idle]
    BY <2>2 DEF Done, Idle, Delivery, Step
  <2>4. UNCHANGED <<tableVars, cursor, worldVars, replaying, brokerVars>>
    BY <2>1, <2>2
  <2> QED BY <1>1, <1>2, <1>3, <2>1, <2>2, <2>3, <2>4, DlqStep
<1> QED BY <1>4, <1>5

\* ack() and term(): the message may be left behind.
LEMMA FinishKeeps ==
  ASSUME ConsumerInv, NEW w \in Workers, Acks(w) \/ Terminates(w)
  PROVE  ConsumerInv'
<1>1. /\ At(w, "ack") \/ At(w, "term")
      /\ Finish(w) /\ Done(w) /\ UNCHANGED <<tableVars, worldVars, dlqVars, brokerVars>>
  BY DEF Acks, Terminates
<1>2. /\ inbox' \in [Events -> InboxState] /\ applied' \in [Aggregates -> Nat] /\ handled' \in [Events -> Nat]
      /\ \A e \in Events : inbox[e] \in Settled => inbox'[e] \in Settled
      /\ EffectsRecorded'
  BY <1>1, SameTables
<1>3. CASE ~Awaited(w)
  <2>1. cursor' = cursor /\ dcount' \in Nat /\ out' \in BOOLEAN
    BY <1>1, <1>3, SameDurable DEF Finish
  <2>2. UNCHANGED <<cursor, worldVars, dlqVars, brokerVars>>
    BY <1>1, <2>1
  <2> QED BY <1>1, <1>2, <2>1, <2>2, DoneStep
<1>4. CASE Awaited(w)
  <2>1. cursor' = cursor + 1 /\ dcount' = 0 /\ worker[w].seq = cursor /\ Current(w)
    BY <1>1, <1>4 DEF Finish, Awaited, Current, At
  <2>2. out' \in BOOLEAN
    BY <1>1, <1>4 DEF Finish
  <2>3. cursor \in Nat \ {0} /\ cursor \in 1 .. Len(stream) /\ stream[cursor].ev = worker[w].ev /\ worker[w].ev \in Events
    BY <2>1 DEF ConsumerInv, ConsumerTypeOK, DeliveryKnown, Current
  <2>4. PICK e \in Events, lo \in Nat : e = worker[w].ev /\ lo = cursor + 1
    BY <2>3
  <2>5. Accounted(e, lo)
    BY <1>1, <2>1, <2>4 DEF ConsumerInv, AckedIsSettled, Terminable, Accounted, At
  <2>6. Gentle /\ UNCHANGED <<worldVars, brokerVars>> /\ replaying' = replaying /\ UNCHANGED dlqVars /\ epoch' = epoch /\ stream' = stream
    BY <1>1, <1>2 DEF Gentle, worldVars, dlqVars, brokerVars
  <2>7. Accounted(e, lo)'
    BY <2>5, <2>6, AccountedStays DEF Gentle
  <2>8. CursorInStream' /\ PassedAccounted'
    BY <2>1, <2>3, <2>4, <2>6, <2>7, CursorAdvances
  <2>9. Letters' /\ LettersDistinct' /\ ReplayStored' /\ ReplayNumbers'
    BY <2>6, DlqStays
  <2>10. Idle \in Delivery /\ worker' = [worker EXCEPT ![w] = Idle] /\ Idle.pc = "idle" /\ Idle.epoch = 0
    BY <1>1 DEF Done, Idle, Delivery, Step
  <2>11. cursor' \in Nat \ {0} /\ cursor' \in Nat /\ cursor <= cursor' /\ 0 <= epoch /\ dcount' \in Nat
    BY <2>1, <2>3 DEF ConsumerInv, ConsumerTypeOK
  <2>12. /\ worker' \in [Workers -> Delivery]
         /\ \A v \in Workers : worker'[v].pc # "idle" => worker'[v].ev \in Events
         /\ DeliveryKnown' /\ NoneAhead' /\ AckedIsSettled' /\ Terminable'
    BY <2>6, <2>10, <2>11, WorkerMoves
  <2>13. dlq' \subseteq Entry /\ dlqSeq' \in Nat
    BY <2>6 DEF dlqVars, ConsumerInv, ConsumerTypeOK
  <2>14. ConsumerTypeOK'
    BY <1>2, <2>2, <2>6, <2>11, <2>12, <2>13, StepType DEF ConsumerInv
  <2> QED BY <1>2, <2>8, <2>9, <2>12, <2>14 DEF ConsumerInv
<1> QED BY <1>3, <1>4

\* No process moves: what is said of the deliveries stays true.
LEMMA WorkersStay ==
  ASSUME ConsumerInv, Gentle, worker' = worker, cursor' \in Nat, cursor <= cursor'
  PROVE  /\ worker' \in [Workers -> Delivery]
         /\ \A v \in Workers : worker'[v].pc # "idle" => worker'[v].ev \in Events
         /\ DeliveryKnown' /\ NoneAhead' /\ AckedIsSettled' /\ Terminable'
<1>1. /\ worker \in [Workers -> Delivery] /\ cursor \in Nat
      /\ \A v \in Workers : worker[v].pc # "idle" => worker[v].ev \in Events
  BY DEF ConsumerInv, ConsumerTypeOK
<1>2. NoneAhead'
  BY DEF ConsumerInv, NoneAhead, Gentle
<1>3. DeliveryKnown'
  <2> SUFFICES ASSUME NEW v \in Workers, Current(v)
               PROVE  /\ worker[v].seq \in 1 .. Len(stream) /\ worker[v].seq <= cursor'
                      /\ stream[worker[v].seq].ev = worker[v].ev
    BY DEF DeliveryKnown, Gentle, Current
  <2>1. /\ worker[v].seq \in 1 .. Len(stream) /\ worker[v].seq <= cursor
        /\ stream[worker[v].seq].ev = worker[v].ev
    BY DEF ConsumerInv, DeliveryKnown
  <2> QED BY <2>1, <1>1
<1>4. AckedIsSettled'
  BY <1>1 DEF ConsumerInv, AckedIsSettled, At, Gentle
<1>5. Terminable'
  <2> SUFFICES ASSUME NEW v \in Workers, Current(v), worker[v].pc \in {"mark", "term"}
               PROVE  Accounted(worker[v].ev, worker[v].seq + 1)'
    BY DEF Terminable, Current, Gentle
  <2>1. Accounted(worker[v].ev, worker[v].seq + 1) /\ worker[v].ev \in Events
    BY <1>1 DEF ConsumerInv, Terminable
  <2>2. \A e \in Events : \A lo : Accounted(e, lo) => Accounted(e, lo)'
    BY AccountedStays DEF Gentle
  <2> QED BY <2>1, <2>2
<1> QED BY <1>1, <1>2, <1>3, <1>4, <1>5

\* MaxDeliver is exhausted: the server's advisory accounts for the event.
LEMMA ExhaustedKeeps ==
  ASSUME ConsumerInv, Exhausted
  PROVE  ConsumerInv'
<1>1. /\ cursor <= Len(stream) /\ cursor' = cursor + 1 /\ dcount' = 0
      /\ UNCHANGED <<tableVars, worker, worldVars, replaying, brokerVars>>
  BY DEF Exhausted
<1>2. /\ cursor \in Nat \ {0} /\ Len(stream) \in Nat
      /\ \A i \in 1 .. Len(stream) : stream[i].ev \in Events
  BY StreamTyped DEF ConsumerInv, ConsumerTypeOK
<1>3. PICK e \in Events, q \in Nat, lo \in Nat : e = stream[cursor].ev /\ q = cursor /\ lo = cursor + 1
  BY <1>1, <1>2
<1>4. StoreEntry("advisory", e, q) /\ q \in 1 .. Len(stream) /\ stream[q].ev = e
  BY <1>1, <1>2, <1>3 DEF Exhausted
<1>5. stream' = stream /\ epoch' = epoch /\ replaying' = replaying /\ worker' = worker
  BY <1>1 DEF worldVars, brokerVars
<1>6. /\ dlq' \subseteq Entry /\ dlqSeq' \in Nat /\ dlq \subseteq dlq'
      /\ Letters' /\ LettersDistinct' /\ ReplayStored' /\ ReplayNumbers'
      /\ Kept(e)'
  BY <1>4, <1>5, EntryStored
<1>7. /\ inbox' \in [Events -> InboxState] /\ applied' \in [Aggregates -> Nat] /\ handled' \in [Events -> Nat]
      /\ \A d \in Events : inbox[d] \in Settled => inbox'[d] \in Settled
      /\ EffectsRecorded'
  BY <1>1, SameTables
<1>8. Gentle /\ cursor' \in Nat \ {0} /\ cursor' \in Nat /\ cursor <= cursor' /\ dcount' \in Nat
  BY <1>1, <1>2, <1>5, <1>6, <1>7 DEF Gentle
<1>9. Accounted(e, lo)'
  BY <1>6 DEF Accounted
<1>10. CursorInStream' /\ PassedAccounted'
  BY <1>1, <1>3, <1>8, <1>9, CursorAdvances
<1>11. /\ worker' \in [Workers -> Delivery]
       /\ \A v \in Workers : worker'[v].pc # "idle" => worker'[v].ev \in Events
       /\ DeliveryKnown' /\ NoneAhead' /\ AckedIsSettled' /\ Terminable'
  BY <1>5, <1>8, WorkersStay
<1>12. out' \in BOOLEAN
  <2>1. out' = out /\ out \in BOOLEAN
    BY DEF Exhausted, ConsumerInv, ConsumerTypeOK
  <2> QED BY <2>1
<1>13. ConsumerTypeOK'
  BY <1>1, <1>5, <1>6, <1>7, <1>8, <1>11, <1>12, StepType DEF ConsumerInv
<1> QED BY <1>6, <1>7, <1>10, <1>11, <1>13 DEF ConsumerInv

\* The ack wait expires, or an identifier leaves the window: nothing that
\* ConsumerInv speaks of but the flag and the window changes.
LEMMA TimePassesKeeps ==
  ASSUME ConsumerInv, AckWaitExpires \/ (WindowSlides /\ UNCHANGED inboxVars)
  PROVE  ConsumerInv'
<1>1. /\ UNCHANGED <<tableVars, worker, cursor, dcount, worldVars, dlqVars>> /\ stream' = stream
  BY DEF AckWaitExpires, WindowSlides, inboxVars, durableVars, brokerVars
<1>2. UNCHANGED <<epoch, kindOf, replaying, dlq, dlqSeq, dlqVars>>
  BY <1>1 DEF worldVars, dlqVars
<1>3. /\ inbox' \in [Events -> InboxState] /\ applied' \in [Aggregates -> Nat] /\ handled' \in [Events -> Nat]
      /\ \A d \in Events : inbox[d] \in Settled => inbox'[d] \in Settled
      /\ EffectsRecorded'
  BY <1>1, SameTables
<1>4. Gentle /\ cursor' = cursor /\ cursor' \in Nat /\ cursor <= cursor' /\ cursor' \in Nat \ {0} /\ dcount' \in Nat
  BY <1>1, <1>2, <1>3 DEF Gentle, ConsumerInv, ConsumerTypeOK
<1>5. /\ worker' \in [Workers -> Delivery]
      /\ \A v \in Workers : worker'[v].pc # "idle" => worker'[v].ev \in Events
      /\ DeliveryKnown' /\ NoneAhead' /\ AckedIsSettled' /\ Terminable'
  BY <1>1, <1>4, WorkersStay
<1>6. CursorInStream' /\ PassedAccounted'
  BY <1>4, CursorStays
<1>7. Letters' /\ LettersDistinct' /\ ReplayStored' /\ ReplayNumbers'
  BY <1>1, <1>2, DlqStays
<1>8. BrokerTypeOK'
  BY DEF AckWaitExpires, WindowSlides, brokerVars, BrokerTypeOK, ConsumerInv, ConsumerTypeOK
<1>9. out' \in BOOLEAN
  <2>1. out' = FALSE \/ out' = out
    BY DEF AckWaitExpires, inboxVars, durableVars
  <2>2. out \in BOOLEAN
    BY DEF ConsumerInv, ConsumerTypeOK
  <2> QED BY <2>1, <2>2
<1>10. /\ epoch' \in Nat /\ kindOf' \in Kinds /\ dlq' \subseteq Entry /\ dlqSeq' \in Nat
       /\ replaying' \subseteq [n : Nat, ev : Events]
  BY <1>2 DEF ConsumerInv, ConsumerTypeOK
<1>11. ConsumerTypeOK'
  BY <1>3, <1>4, <1>5, <1>8, <1>9, <1>10, Zenon DEF ConsumerTypeOK
<1> QED BY <1>3, <1>5, <1>6, <1>7, <1>11 DEF ConsumerInv

\* A publish keeps every event accounted for: the only dead letter it may
\* supersede is the one whose replay it stores behind the cursor.
LEMMA PublishAccounts ==
  ASSUME ConsumerInv, NEW m \in MsgId, Publish(m), UNCHANGED <<epoch, dlq, inbox>>
  PROVE  \A e \in Events, lo \in Nat : lo <= Len(stream) + 1 /\ Accounted(e, lo) => Accounted(e, lo)'
<1> SUFFICES ASSUME NEW e \in Events, NEW lo \in Nat, lo <= Len(stream) + 1, Accounted(e, lo)
             PROVE  Accounted(e, lo)'
  OBVIOUS
<1>0. BrokerTypeOK
  BY DEF ConsumerInv, ConsumerTypeOK
<1>1. CASE inbox[e] \in Settled
  BY <1>1 DEF Accounted
<1>2. CASE StoredFrom(e, lo)
  BY <1>0, <1>2, PublishKeeps DEF Accounted
<1>3. CASE Kept(e)
  <2>1. PICK d \in dlq : d.ev = e /\ d.epoch = epoch /\ ~Stored([ev |-> e, r |-> d.n])
    BY <1>3 DEF Kept
  <2>2. CASE m = [ev |-> e, r |-> d.n]
    <3>1. m.ev = e /\ ~Stored(m)
      BY <2>1, <2>2
    <3>2. Len(stream) \in Nat /\ Len(stream') = Len(stream) + 1 /\ stream'[Len(stream) + 1] = m
      BY <1>0, <3>1, PublishAppends
    <3>3. StoredFrom(e, lo)'
      BY <3>1, <3>2 DEF StoredFrom
    <3> QED BY <3>3 DEF Accounted
  <2>3. CASE m # [ev |-> e, r |-> d.n]
    <3>1. ~Stored([ev |-> e, r |-> d.n])'
      BY <1>0, <2>1, <2>3, PublishKeeps
    <3>2. Kept(e)'
      BY <2>1, <3>1 DEF Kept
    <3> QED BY <3>2 DEF Accounted
  <2> QED BY <2>2, <2>3
<1> QED BY <1>1, <1>2, <1>3 DEF Accounted

\* A publish of an event, or of the replay of an existing entry.
LEMMA PublishKeepsInv ==
  ASSUME ConsumerInv, NEW m \in MsgId, Publish(m), m.r <= dlqSeq,
         UNCHANGED <<tableVars, worker, durableVars, worldVars, dlq, dlqSeq>>,
         \A p \in replaying' : p \in replaying \/
           /\ p \in [n : Nat, ev : Events] /\ p.n \in 1 .. dlqSeq
           /\ \A d \in dlq : d.n = p.n => d.ev = p.ev
           /\ m = [ev |-> p.ev, r |-> p.n]
  PROVE  ConsumerInv'
<1>0. BrokerTypeOK /\ UNCHANGED <<inbox, applied, handled, worker, cursor, dcount, out, epoch, kindOf, dlq, dlqSeq>>
  BY DEF ConsumerInv, ConsumerTypeOK, tableVars, durableVars, worldVars
<1>1. /\ BrokerTypeOK'
      /\ Len(stream) \in Nat /\ Len(stream') \in Nat /\ Len(stream) <= Len(stream')
      /\ \A i \in 1 .. Len(stream) : stream'[i] = stream[i]
      /\ \A i \in 1 .. Len(stream') : i \in 1 .. Len(stream) \/ (i = Len(stream) + 1 /\ stream'[i] = m)
      /\ Stored(m)'
  BY <1>0, PublishAppends
<1>2. \A e \in Events, lo \in Nat : lo <= Len(stream) + 1 /\ Accounted(e, lo) => Accounted(e, lo)'
  BY <1>0, PublishAccounts
<1>3. \A x : Stored(x) => Stored(x)'
  BY <1>0, PublishKeeps
<1>4. replaying' \subseteq [n : Nat, ev : Events]
  <2>1. replaying \subseteq [n : Nat, ev : Events]
    BY DEF ConsumerInv, ConsumerTypeOK
  <2> QED BY <2>1
<1>5. ConsumerTypeOK'
  <2>1. ConsumerTypeOK
    BY DEF ConsumerInv
  <2> QED BY <1>0, <1>1, <1>4, <2>1, Zenon DEF ConsumerTypeOK
<1>6. /\ cursor \in Nat \ {0} /\ cursor <= Len(stream) + 1
      /\ \A v \in Workers : worker[v].pc # "idle" => worker[v].ev \in Events
  BY DEF ConsumerInv, ConsumerTypeOK, CursorInStream
<1>7. CursorInStream' /\ NoneAhead' /\ AckedIsSettled' /\ LettersDistinct' /\ EffectsRecorded'
  <2>1. CursorInStream'
    BY <1>0, <1>1, <1>6 DEF CursorInStream
  <2>2. NoneAhead' /\ AckedIsSettled' /\ LettersDistinct' /\ EffectsRecorded'
    BY <1>0 DEF ConsumerInv, NoneAhead, AckedIsSettled, At, LettersDistinct, EffectsRecorded
  <2> QED BY <2>1, <2>2
<1>8. DeliveryKnown'
  <2> SUFFICES ASSUME NEW v \in Workers, Current(v)
               PROVE  /\ worker[v].seq \in 1 .. Len(stream') /\ worker[v].seq <= cursor
                      /\ stream'[worker[v].seq].ev = worker[v].ev
    BY <1>0 DEF DeliveryKnown, Current
  <2>1. /\ worker[v].seq \in 1 .. Len(stream) /\ worker[v].seq <= cursor
        /\ stream[worker[v].seq].ev = worker[v].ev
    BY DEF ConsumerInv, DeliveryKnown
  <2> QED BY <1>1, <2>1
<1>9. Letters'
  <2> SUFFICES ASSUME NEW d \in dlq
               PROVE  /\ d.n \in 1 .. dlqSeq /\ d.epoch <= epoch
                      /\ d.kind = "advisory" /\ d.epoch = epoch =>
                           d.seq \in 1 .. Len(stream') /\ stream'[d.seq].ev = d.ev
    BY <1>0 DEF Letters
  <2>1. /\ d.n \in 1 .. dlqSeq /\ d.epoch <= epoch
        /\ d.kind = "advisory" /\ d.epoch = epoch => d.seq \in 1 .. Len(stream) /\ stream[d.seq].ev = d.ev
    BY DEF ConsumerInv, Letters
  <2> QED BY <1>1, <2>1
<1>10. ReplayStored'
  <2> SUFFICES ASSUME NEW p \in replaying'
               PROVE  /\ p.n \in 1 .. dlqSeq
                      /\ \A d \in dlq : d.n = p.n => /\ d.ev = p.ev
                                                     /\ d.epoch = epoch => Stored([ev |-> p.ev, r |-> p.n])'
    BY <1>0 DEF ReplayStored
  <2>1. CASE p \in replaying
    BY <2>1, <1>3 DEF ConsumerInv, ReplayStored
  <2>2. CASE p \notin replaying
    BY <2>2, <1>1
  <2> QED BY <2>1, <2>2
<1>11. ReplayNumbers'
  BY <1>0, <1>1 DEF ConsumerInv, ReplayNumbers
<1>12. Terminable'
  <2> SUFFICES ASSUME NEW v \in Workers, Current(v), worker[v].pc \in {"mark", "term"}
               PROVE  Accounted(worker[v].ev, worker[v].seq + 1)'
    BY <1>0 DEF Terminable, Current
  <2>1. /\ Accounted(worker[v].ev, worker[v].seq + 1) /\ worker[v].ev \in Events
        /\ worker[v].seq \in 1 .. Len(stream)
    BY <1>6 DEF ConsumerInv, Terminable, DeliveryKnown
  <2>2. PICK e \in Events, lo \in Nat : e = worker[v].ev /\ lo = worker[v].seq + 1 /\ lo <= Len(stream) + 1
    BY <1>1, <2>1
  <2>3. Accounted(e, lo)'
    BY <2>1, <2>2, <1>2
  <2> QED BY <2>2, <2>3, <1>0
<1>13. PassedAccounted'
  <2> SUFFICES ASSUME NEW i \in 1 .. Len(stream'), i < cursor
               PROVE  Accounted(stream[i].ev, cursor)'
    BY <1>0 DEF PassedAccounted
  <2>1. i \in 1 .. Len(stream)
    BY <1>1, <1>6
  <2>2. Accounted(stream[i].ev, cursor) /\ stream[i].ev \in Events
    BY <1>0, <2>1, StreamTyped DEF ConsumerInv, PassedAccounted
  <2>3. PICK e \in Events : e = stream[i].ev
    BY <2>2
  <2>4. Accounted(e, cursor)'
    <3>1. PICK lo \in Nat : lo = cursor
      BY <1>6
    <3>2. Accounted(e, lo)'
      BY <2>2, <2>3, <3>1, <1>2, <1>6
    <3> QED BY <3>1, <3>2, <1>0
  <2> QED BY <1>1, <2>1, <2>3, <2>4
<1> QED BY <1>5, <1>7, <1>8, <1>9, <1>10, <1>11, <1>12, <1>13 DEF ConsumerInv

LEMMA ArrivesKeeps ==
  ASSUME ConsumerInv, NEW e \in Events, Arrives(e)
  PROVE  ConsumerInv'
<1>1. RowMsg(e) \in MsgId /\ Publish(RowMsg(e)) /\ RowMsg(e).r = 0
  BY DEF Arrives, RowMsg, MsgId
<1>2. UNCHANGED <<tableVars, worker, durableVars, worldVars, dlq, dlqSeq>> /\ replaying' = replaying
  BY DEF Arrives, inboxVars, dlqVars
<1>3. 0 <= dlqSeq
  BY DEF ConsumerInv, ConsumerTypeOK
<1> QED BY <1>1, <1>2, <1>3, PublishKeepsInv

\* dlq-replay: an entry it may replay names its own event's message.
LEMMA ReplayKeeps ==
  ASSUME ConsumerInv, NEW d \in dlq, ReplayDeadLetter(d)
  PROVE  ConsumerInv'
<1> DEFINE m == [ev |-> stream[d.seq].ev, r |-> d.n]
<1>1. /\ d.n \in 1 .. dlqSeq /\ d.seq \in 1 .. Len(stream) /\ dlqSeq \in Nat
      /\ d.kind = "consumer" => stream[d.seq].ev = d.ev
      /\ d.epoch = epoch
  BY DEF ConsumerInv, ConsumerTypeOK, Letters, ReplayDeadLetter, Replayable
<1>2. stream[d.seq].ev = d.ev
  <2>1. d.kind \in {"consumer", "advisory"}
    BY DEF ConsumerInv, ConsumerTypeOK, Entry
  <2>2. d.kind = "advisory" => stream[d.seq].ev = d.ev
    BY <1>1 DEF ConsumerInv, Letters
  <2> QED BY <1>1, <2>1, <2>2
<1>3. stream[d.seq].ev \in Events /\ d.n \in Nat
  BY <1>1, StreamTyped DEF ConsumerInv, ConsumerTypeOK
<1>4. m \in MsgId /\ m.r <= dlqSeq /\ m.ev = d.ev
  BY <1>1, <1>2, <1>3 DEF MsgId
<1>5. /\ Publish(m)
      /\ replaying' = replaying \cup {[n |-> d.n, ev |-> m.ev]}
      /\ UNCHANGED <<tableVars, worker, durableVars, worldVars, dlq, dlqSeq>>
  BY DEF ReplayDeadLetter
<1>6. ASSUME NEW p \in replaying', p \notin replaying
      PROVE  /\ p \in [n : Nat, ev : Events] /\ p.n \in 1 .. dlqSeq
             /\ \A c \in dlq : c.n = p.n => c.ev = p.ev
             /\ m = [ev |-> p.ev, r |-> p.n]
  <2>1. p = [n |-> d.n, ev |-> stream[d.seq].ev]
    BY <1>5, <1>6
  <2>2. p \in [n : Nat, ev : Events] /\ p.n = d.n /\ p.ev = d.ev
    BY <2>1, <1>2, <1>3
  <2>3. \A c \in dlq : c.n = d.n => c = d
    BY DEF ConsumerInv, LettersDistinct
  <2> QED BY <2>2, <2>3, <1>1, <1>2
<1> HIDE DEF m
<1> QED BY <1>4, <1>5, <1>6, PublishKeepsInv

\* The entry is deleted, or the command dies first.
LEMMA ReplayEndKeeps ==
  ASSUME ConsumerInv, NEW p \in replaying, ReplayDeletes(p) \/ ReplayDies(p)
  PROVE  ConsumerInv'
<1>1. /\ UNCHANGED <<tableVars, worker, durableVars, worldVars, dlqSeq, brokerVars>>
      /\ replaying' = replaying \ {p}
      /\ dlq' \subseteq dlq /\ \A d \in dlq : d.n # p.n => d \in dlq'
  BY DEF ReplayDeletes, ReplayDies
<1>2. UNCHANGED <<inbox, applied, handled, cursor, dcount, out, epoch, kindOf, stream, window>>
  BY <1>1 DEF tableVars, durableVars, worldVars, brokerVars
<1>3. \A e \in Events : \A lo : Accounted(e, lo) => Accounted(e, lo)'
  <2> TAKE e \in Events
  <2> TAKE lo
  <2>1. Kept(e) => Kept(e)'
    <3> SUFFICES ASSUME NEW d \in dlq, d.ev = e, d.epoch = epoch, ~Stored([ev |-> e, r |-> d.n])
                 PROVE  Kept(e)'
      BY DEF Kept
    <3>1. d.n # p.n
      BY DEF ConsumerInv, ReplayStored
    <3>2. d \in dlq'
      BY <1>1, <3>1
    <3> QED BY <1>2, <3>2 DEF Kept, Stored
  <2>2. StoredFrom(e, lo) => StoredFrom(e, lo)'
    BY <1>2 DEF StoredFrom
  <2> QED BY <1>2, <2>1, <2>2 DEF Accounted
<1>4. ConsumerTypeOK'
  <2>1. dlq' \subseteq Entry /\ replaying' \subseteq [n : Nat, ev : Events] /\ BrokerTypeOK'
    BY <1>1, <1>2 DEF ConsumerInv, ConsumerTypeOK, BrokerTypeOK
  <2>2. ConsumerTypeOK /\ dlqSeq' = dlqSeq /\ worker' = worker
    BY <1>1 DEF ConsumerInv
  <2> QED BY <1>2, <2>1, <2>2, Zenon DEF ConsumerTypeOK
<1>5. CursorInStream' /\ DeliveryKnown' /\ NoneAhead' /\ AckedIsSettled' /\ EffectsRecorded'
  BY <1>1, <1>2 DEF ConsumerInv, CursorInStream, DeliveryKnown, NoneAhead, AckedIsSettled, At, Current, EffectsRecorded
<1>6. Letters' /\ LettersDistinct' /\ ReplayStored' /\ ReplayNumbers'
  BY <1>1, <1>2 DEF ConsumerInv, Letters, LettersDistinct, ReplayStored, ReplayNumbers, Stored
<1>7. Terminable'
  <2> SUFFICES ASSUME NEW v \in Workers, Current(v), worker[v].pc \in {"mark", "term"}
               PROVE  Accounted(worker[v].ev, worker[v].seq + 1)'
    BY <1>1, <1>2 DEF Terminable, Current
  <2>1. Accounted(worker[v].ev, worker[v].seq + 1) /\ worker[v].ev \in Events
    BY DEF ConsumerInv, ConsumerTypeOK, Terminable, Current
  <2> QED BY <1>1, <1>3, <2>1
<1>8. PassedAccounted'
  <2> SUFFICES ASSUME NEW i \in 1 .. Len(stream), i < cursor
               PROVE  Accounted(stream[i].ev, cursor)'
    BY <1>2 DEF PassedAccounted
  <2>1. Accounted(stream[i].ev, cursor) /\ stream[i].ev \in Events
    BY StreamTyped DEF ConsumerInv, ConsumerTypeOK, PassedAccounted
  <2> QED BY <1>2, <1>3, <2>1
<1> QED BY <1>4, <1>5, <1>6, <1>7, <1>8 DEF ConsumerInv

\* The stream is recreated: no delivery and no entry is of the new stream.
LEMMA RecreatedKeeps ==
  ASSUME ConsumerInv, StreamRecreated
  PROVE  ConsumerInv'
<1>1. /\ epoch' = epoch + 1 /\ stream' = << >> /\ window' = 1
      /\ cursor' = 1 /\ dcount' = 0 /\ out' = FALSE
      /\ UNCHANGED <<inbox, applied, handled, worker, kindOf, dlq, dlqSeq, replaying>>
  BY DEF StreamRecreated, tableVars, dlqVars
<1>2. epoch \in Nat /\ dlq \subseteq Entry /\ worker \in [Workers -> Delivery] /\ ConsumerTypeOK
  BY DEF ConsumerInv, ConsumerTypeOK
<1>3. Len(stream') = 0
  BY <1>1
<1>4. \A v \in Workers : worker[v].epoch \in Nat /\ worker[v].epoch <= epoch /\ worker[v].epoch # epoch + 1
  <2>1. \A v \in Workers : worker[v].epoch \in Nat
    BY <1>2 DEF Delivery
  <2> QED BY <1>2, <2>1 DEF ConsumerInv, NoneAhead
<1>5. \A d \in dlq : d.epoch \in Nat /\ d.epoch <= epoch /\ d.epoch # epoch + 1
  <2>1. \A d \in dlq : d.epoch \in Nat
    BY <1>2 DEF Entry
  <2> QED BY <1>2, <2>1 DEF ConsumerInv, Letters
<1>6. ConsumerTypeOK'
  <2>1. BrokerTypeOK'
    BY <1>1 DEF BrokerTypeOK
  <2>2. cursor' \in Nat \ {0} /\ dcount' \in Nat /\ epoch' \in Nat
    BY <1>1, <1>2
  <2>3. out' \in BOOLEAN
    BY <1>1, Zenon
  <2> QED BY <1>1, <1>2, <2>1, <2>2, <2>3, Zenon DEF ConsumerTypeOK
<1>7. CursorInStream' /\ DeliveryKnown' /\ NoneAhead' /\ AckedIsSettled' /\ Terminable'
  <2>1. \A v \in Workers : ~Current(v)'
    BY <1>1, <1>4 DEF Current
  <2>2. NoneAhead'
    BY <1>1, <1>2, <1>4 DEF NoneAhead
  <2> QED BY <1>1, <1>3, <2>1, <2>2 DEF ConsumerInv, CursorInStream, DeliveryKnown, AckedIsSettled, At, Terminable
<1>8. Letters' /\ LettersDistinct' /\ ReplayStored'
  <2>1. Letters'
    BY <1>1, <1>2, <1>5 DEF ConsumerInv, Letters
  <2>2. LettersDistinct'
    BY <1>1 DEF ConsumerInv, LettersDistinct
  <2>3. ReplayStored'
    BY <1>1, <1>5 DEF ConsumerInv, ReplayStored
  <2> QED BY <2>1, <2>2, <2>3
<1>9. ReplayNumbers' /\ PassedAccounted'
  BY <1>3 DEF ReplayNumbers, PassedAccounted
<1>10. EffectsRecorded'
  BY <1>1 DEF ConsumerInv, EffectsRecorded
<1> QED BY <1>6, <1>7, <1>8, <1>9, <1>10 DEF ConsumerInv
-----------------------------------------------------------------------------
\* Every step of the consumer, the server and the operator keeps ConsumerInv.
LEMMA InboxNextKeeps ==
  ASSUME ConsumerInv, InboxNext
  PROVE  ConsumerInv'
<1>1. ASSUME NEW w \in Workers, Works(w)
      PROVE  ConsumerInv'
  BY <1>1, SettleKeeps, LookKeeps, FinishKeeps, FailureKeeps, DlqPublishKeeps, MarkKeeps DEF Works
<1>2. ASSUME NEW w \in Workers, Fails(w)
      PROVE  ConsumerInv'
  BY <1>2, LookKeeps, FailureKeeps, DlqPublishKeeps, ForgetKeeps DEF Fails
<1> QED BY <1>1, <1>2, DeliverKeeps, TimePassesKeeps, ExhaustedKeeps, ReplayKeeps, ReplayEndKeeps, RecreatedKeeps
        DEF InboxNext

LEMMA ConsumerStutters ==
  ASSUME ConsumerInv, UNCHANGED <<inboxVars, brokerVars>>
  PROVE  ConsumerInv'
<1>1. UNCHANGED <<kindOf, inbox, applied, handled, worker, cursor, dcount, out, epoch, dlq, dlqSeq, replaying, stream, window>>
  BY DEF inboxVars, tableVars, durableVars, worldVars, dlqVars, brokerVars
<1>2. ConsumerTypeOK'
  <2>1. BrokerTypeOK' /\ ConsumerTypeOK
    BY <1>1 DEF ConsumerInv, ConsumerTypeOK, BrokerTypeOK
  <2> QED BY <1>1, <2>1, Zenon DEF ConsumerTypeOK
<1>3. CursorInStream' /\ DeliveryKnown' /\ NoneAhead' /\ AckedIsSettled' /\ EffectsRecorded'
  BY <1>1 DEF ConsumerInv, CursorInStream, DeliveryKnown, NoneAhead, AckedIsSettled, At, Current, EffectsRecorded
<1>4. Letters' /\ LettersDistinct' /\ ReplayStored' /\ ReplayNumbers'
  BY <1>1 DEF ConsumerInv, Letters, LettersDistinct, ReplayStored, ReplayNumbers, Stored
<1>5. \A e \in Events : \A lo : Accounted(e, lo) => Accounted(e, lo)'
  BY <1>1, AccountedStays
<1>6. Terminable'
  <2> SUFFICES ASSUME NEW v \in Workers, Current(v), worker[v].pc \in {"mark", "term"}
               PROVE  Accounted(worker[v].ev, worker[v].seq + 1)'
    BY <1>1 DEF Terminable, Current
  <2>1. Accounted(worker[v].ev, worker[v].seq + 1) /\ worker[v].ev \in Events
    BY DEF ConsumerInv, ConsumerTypeOK, Terminable, Current
  <2> QED BY <1>1, <1>5, <2>1
<1>7. PassedAccounted'
  <2> SUFFICES ASSUME NEW i \in 1 .. Len(stream), i < cursor
               PROVE  Accounted(stream[i].ev, cursor)'
    BY <1>1 DEF PassedAccounted
  <2>1. Accounted(stream[i].ev, cursor) /\ stream[i].ev \in Events
    BY StreamTyped DEF ConsumerInv, ConsumerTypeOK, PassedAccounted
  <2> QED BY <1>1, <1>5, <2>1
<1> QED BY <1>2, <1>3, <1>4, <1>6, <1>7 DEF ConsumerInv

\* ConsumerInv is an invariant of the consumer, whatever arrives, expires, dies
\* or is replayed, and however often the stream is recreated.
THEOREM ConsumerInvariant == ConsumerSpec => []ConsumerInv
<1>1. ConsumerInv /\ [ConsumerNext]_consumerVars => ConsumerInv'
  <2> SUFFICES ASSUME ConsumerInv, [ConsumerNext]_consumerVars
               PROVE  ConsumerInv'
    OBVIOUS
  <2>1. CASE InboxNext
    BY <2>1, InboxNextKeeps
  <2>2. CASE \E e \in Events : Arrives(e)
    BY <2>2, ArrivesKeeps
  <2>3. CASE WindowSlides /\ UNCHANGED inboxVars
    BY <2>3, TimePassesKeeps
  <2>4. CASE UNCHANGED consumerVars
    BY <2>4, ConsumerStutters DEF consumerVars
  <2> QED BY <2>1, <2>2, <2>3, <2>4 DEF ConsumerNext
<1> QED BY <1>1, ConsumerInvInit, PTL DEF ConsumerSpec
-----------------------------------------------------------------------------
\* The inbox, the version guard, the durable consumer and the dead letters keep
\* their types.
THEOREM ConsumerTypeCorrect == ConsumerSpec => []ConsumerTypeOK
<1>1. ConsumerInv => ConsumerTypeOK
  BY DEF ConsumerInv
<1> QED BY <1>1, ConsumerInvariant, PTL

\* The handler's effect of an event is committed at most once: it is committed
\* with the processed row, and no step reopens a processed row.
THEOREM EffectOnce == ConsumerSpec => []HandledOnce
<1>1. ConsumerInv => HandledOnce
  <2> SUFFICES ASSUME ConsumerInv, NEW e \in Events
               PROVE  handled[e] <= 1
    BY DEF HandledOnce
  <2>1. handled[e] = 0 \/ handled[e] = 1
    BY DEF ConsumerInv, EffectsRecorded
  <2> QED BY <2>1
<1> QED BY <1>1, ConsumerInvariant, PTL

\* A message the durable consumer is done with is settled, dead-lettered or
\* stored again behind the cursor.
THEOREM ConsumerLosesNothing == ConsumerSpec => []NothingLost
<1>1. ConsumerInv => NothingLost
  <2> SUFFICES ASSUME ConsumerInv, NEW i \in 1 .. Len(stream), i < cursor
               PROVE  inbox[stream[i].ev] \in Settled \/ DeadLettered(stream[i].ev) \/ StoredFrom(stream[i].ev, cursor)
    BY DEF NothingLost
  <2>1. Accounted(stream[i].ev, cursor)
    BY DEF ConsumerInv, PassedAccounted
  <2>2. Kept(stream[i].ev) => DeadLettered(stream[i].ev)
    BY DEF Kept, DeadLettered
  <2> QED BY <2>1, <2>2 DEF Accounted
<1> QED BY <1>1, ConsumerInvariant, PTL

\* dlq-replay deletes an entry only after it republished that entry's own event.
THEOREM ReplayIsOfEntry == ConsumerSpec => []ReplaysItsOwnEvent
<1>1. ConsumerInv => ReplaysItsOwnEvent
  BY DEF ConsumerInv, ReplayStored, ReplaysItsOwnEvent
<1> QED BY <1>1, ConsumerInvariant, PTL
-----------------------------------------------------------------------------
\* A step that is not one of the three that settle a row leaves the effects, the
\* versions and every row's fate alone.
LEMMA OnlyThreeSettle ==
  ASSUME ConsumerInv, [ConsumerNext]_consumerVars,
         \A w \in Workers : ~Processes(w) /\ ~SkipsStale(w) /\ ~SkipsTest(w)
  PROVE  /\ UNCHANGED <<kindOf, applied, handled>>
         /\ \A e \in Events : Fate(inbox'[e]) = Fate(inbox[e])
<1> USE DEF tableVars, worldVars
<1>1. ASSUME UNCHANGED <<kindOf, inbox, applied, handled>>
      PROVE  /\ UNCHANGED <<kindOf, applied, handled>>
             /\ \A e \in Events : Fate(inbox'[e]) = Fate(inbox[e])
  BY <1>1
<1>2. ASSUME NEW w \in Workers, RecordFailure(w)
      PROVE  /\ UNCHANGED <<kindOf, applied, handled>>
             /\ \A e \in Events : Fate(inbox'[e]) = Fate(inbox[e])
  <2>1. \A s \in InboxState : Fate(FailedState(s)) = Fate(s)
    BY DEF InboxState, Settled, FailedState, Fate
  <2>2. inbox \in [Events -> InboxState] /\ inbox' = [inbox EXCEPT ![worker[w].ev] = FailedState(@)]
    BY <1>2 DEF ConsumerInv, ConsumerTypeOK, RecordFailure
  <2>3. \A e \in Events : inbox'[e] = inbox[e] \/ inbox'[e] = FailedState(inbox[e])
    BY <2>2
  <2> QED BY <1>2, <2>1, <2>2, <2>3 DEF RecordFailure
<1>3. ASSUME NEW w \in Workers, MarksDeadLettered(w)
      PROVE  /\ UNCHANGED <<kindOf, applied, handled>>
             /\ \A e \in Events : Fate(inbox'[e]) = Fate(inbox[e])
  <2>1. Fate("failed") = Fate("dead_lettered")
    BY DEF Fate
  <2>2. \A e \in Events : inbox'[e] = inbox[e] \/ (inbox[e] = "failed" /\ inbox'[e] = "dead_lettered")
    BY <1>3 DEF ConsumerInv, ConsumerTypeOK, MarksDeadLettered
  <2> QED BY <1>3, <2>1, <2>2 DEF MarksDeadLettered
<1>4. ASSUME NEW w \in Workers, Deliver(w) \/ Works(w) \/ Fails(w)
      PROVE  /\ UNCHANGED <<kindOf, applied, handled>>
             /\ \A e \in Events : Fate(inbox'[e]) = Fate(inbox[e])
  <2>1. CASE Deliver(w)
    BY <2>1, <1>1 DEF Deliver
  <2>2. CASE FindsDuplicate(w) \/ FindsInvalid(w) \/ Acks(w) \/ PublishesDlq(w) \/ Terminates(w)
    BY <2>2, <1>1 DEF FindsDuplicate, FindsInvalid, Acks, PublishesDlq, Terminates
  <2>3. CASE Fails(w)
    BY <2>3, <1>1 DEF Fails, ApplyFails, FailureUnrecorded, DlqPublishFails, MarkFails, Dies
  <2> QED BY <1>2, <1>3, <1>4, <2>1, <2>2, <2>3 DEF Works
<1>5. ASSUME \/ AckWaitExpires \/ Exhausted \/ (\E d \in dlq : ReplayDeadLetter(d))
             \/ (\E p \in replaying : ReplayDeletes(p) \/ ReplayDies(p)) \/ StreamRecreated
      PROVE  UNCHANGED <<kindOf, inbox, applied, handled>>
  BY <1>5 DEF AckWaitExpires, Exhausted, ReplayDeadLetter, ReplayDeletes, ReplayDies, StreamRecreated
<1>6. ASSUME \/ (\E e \in Events : Arrives(e)) \/ (WindowSlides /\ UNCHANGED inboxVars) \/ UNCHANGED consumerVars
      PROVE  UNCHANGED <<kindOf, inbox, applied, handled>>
  BY <1>6 DEF Arrives, consumerVars, inboxVars
<1> QED BY <1>1, <1>4, <1>5, <1>6 DEF ConsumerNext, InboxNext

\* A handler's effect is committed only while no later version of its aggregate
\* was handled.
THEOREM NewestWins == ConsumerSpec => NeverOverwritten
<1> DEFINE Step1 == \A e \in Events : handled'[e] # handled[e] =>
                      \A d \in Events : handled[d] > 0 => ~Earlier(e, d)
<1>1. ConsumerInv /\ [ConsumerNext]_consumerVars => [Step1]_consumerVars
  <2> SUFFICES ASSUME ConsumerInv, [ConsumerNext]_consumerVars,
                      NEW e \in Events, handled'[e] # handled[e],
                      NEW d \in Events, handled[d] > 0
               PROVE  ~Earlier(e, d)
    OBVIOUS
  <2>1. handled' # handled
    OBVIOUS
  <2>2. PICK w \in Workers : Processes(w)
    BY <2>1, OnlyThreeSettle DEF SkipsStale, SkipsTest
  <2>3. e = worker[w].ev /\ Fresh(e)
    BY <2>2 DEF Processes, ConsumerInv, ConsumerTypeOK
  <2>4. Ver[d] <= applied[Agg[d]]
    BY DEF ConsumerInv, EffectsRecorded
  <2>5. Ver[d] \in Nat /\ Ver[e] \in Nat /\ applied[Agg[e]] \in Nat
    BY EventsAssumption DEF ConsumerInv, ConsumerTypeOK, Aggregates
  <2> QED BY <2>3, <2>4, <2>5 DEF Fresh, Earlier
<1> QED BY <1>1, ConsumerInvariant, PTL DEF ConsumerSpec, NeverOverwritten

\* A step of the consumer is a step of the contract, or leaves its state alone.
LEMMA ContractStep ==
  ASSUME ConsumerInv, [ConsumerNext]_consumerVars
  PROVE  [Contract!ContractNext]_(Contract!contractVars)
<1> DEFINE F == [e \in Events |-> Fate(inbox[e])]
           R == {e \in Events : kindOf[e] = "test"}
<1>0. /\ inbox \in [Events -> InboxState] /\ applied \in [Aggregates -> Nat]
      /\ \A w \in Workers : worker[w].pc # "idle" => worker[w].ev \in Events
  BY DEF ConsumerInv, ConsumerTypeOK
<1>1. /\ \A s \in InboxState \ Settled : Fate(s) = "open"
      /\ Fate("processed") = "applied" /\ Fate("skipped_stale") = "dropped" /\ Fate("skipped_test") = "dropped"
  BY DEF InboxState, Settled, Fate
<1>2. ASSUME NEW w \in Workers, Claims(w)
      PROVE  worker[w].ev \in Events /\ F[worker[w].ev] = "open"
  BY <1>0, <1>1, <1>2 DEF Claims, At
<1>3. ASSUME NEW e \in Events, NEW s, inbox' = [inbox EXCEPT ![e] = s]
      PROVE  F' = [F EXCEPT ![e] = Fate(s)]
  BY <1>0, <1>3
<1>4. ASSUME NEW w \in Workers, Processes(w)
      PROVE  Contract!ContractNext
  <2> DEFINE e == worker[w].ev
  <2>1. e \in Events /\ F[e] = "open"
    BY <1>2, <1>4 DEF Processes
  <2>2. F' = [F EXCEPT ![e] = "applied"]
    <3>1. inbox' = [inbox EXCEPT ![e] = "processed"]
      BY <1>4 DEF Processes
    <3> HIDE DEF F, e
    <3>2. F' = [F EXCEPT ![e] = Fate("processed")]
      BY <1>3, <2>1, <3>1
    <3> QED BY <1>1, <3>2
  <2>3. R' = R /\ e \notin R /\ applied[Agg[e]] <= Ver[e] /\ applied' = [applied EXCEPT ![Agg[e]] = Ver[e]]
    BY <1>4 DEF Processes, Fresh, worldVars
  <2> QED BY <2>1, <2>2, <2>3 DEF Contract!ContractNext, Contract!ApplyEvent
<1>5. ASSUME NEW w \in Workers, SkipsStale(w) \/ SkipsTest(w)
      PROVE  Contract!ContractNext
  <2> DEFINE e == worker[w].ev
  <2>1. e \in Events /\ F[e] = "open"
    BY <1>2, <1>5 DEF SkipsStale, SkipsTest
  <2>2. F' = [F EXCEPT ![e] = "dropped"]
    BY <1>1, <1>3, <1>5, <2>1 DEF SkipsStale, SkipsTest
  <2>3. R' = R /\ applied' = applied
    BY <1>5 DEF SkipsStale, SkipsTest, worldVars
  <2>4. e \in R \/ applied[Agg[e]] > Ver[e]
    <3>1. CASE SkipsStale(w)
      <4>1. applied[Agg[e]] \in Nat /\ Ver[e] \in Nat
        BY <1>0, <2>1, EventsAssumption DEF Aggregates
      <4> QED BY <3>1, <4>1 DEF SkipsStale, Fresh
    <3>2. CASE SkipsTest(w)
      BY <3>2, <2>1 DEF SkipsTest
    <3> QED BY <1>5, <3>1, <3>2
  <2> QED BY <2>1, <2>2, <2>3, <2>4 DEF Contract!ContractNext, Contract!DropEvent
<1>6. ASSUME \A w \in Workers : ~Processes(w) /\ ~SkipsStale(w) /\ ~SkipsTest(w)
      PROVE  UNCHANGED Contract!contractVars
  <2>1. F' = F /\ R' = R /\ applied' = applied
    BY <1>6, OnlyThreeSettle
  <2> QED BY <2>1 DEF Contract!contractVars
<1> QED BY <1>4, <1>5, <1>6

\* The inbox implements the contract: every event is applied at most once, in
\* version order, and dropped only for a later version or a test run.
THEOREM ConsumerRefines == ConsumerSpec => ImplementsContract
<1>1. ConsumerInit => Contract!ContractInit
  <2> SUFFICES ASSUME ConsumerInit
               PROVE  Contract!ContractInit
    OBVIOUS
  <2>1. Fate("none") = "open"
    BY DEF Fate
  <2> QED BY <2>1 DEF ConsumerInit, InboxInit, Aggregates, Contract!ContractInit
<1>2. ConsumerInv /\ [ConsumerNext]_consumerVars => [Contract!ContractNext]_(Contract!contractVars)
  BY ContractStep
<1> QED BY <1>1, <1>2, ConsumerInvariant, PTL DEF ConsumerSpec, ImplementsContract, Contract!ContractSpec
=============================================================================
