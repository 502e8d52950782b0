---------------------------- MODULE InboxConsumer ----------------------------
(***************************************************************************)
(* The consuming side of @gremion/events: one durable JetStream consumer   *)
(* (ack explicit, max_ack_pending 1, MaxDeliver), the processes that pull  *)
(* from it, the inbox and applied_aggregate_version tables of their        *)
(* database, the dead-letter stream, and the operator's dlq-replay         *)
(* (consumer.ts, recovery.ts, sql/plumbing.sql).                           *)
(*                                                                         *)
(* Every transaction of apply() locks the inbox row, then the version row, *)
(* and reads nothing it has not locked, so it is one atomic step here.     *)
(* Each call that leaves the process between two transactions (DLQ         *)
(* publish, ack, nak, term) is a step of its own, and the process may die  *)
(* before any of them.                                                     *)
(***************************************************************************)
EXTENDS JetStream, FiniteSets

CONSTANTS Kinds,         \* the kinds the events may have: a set of functions from events to kinds
          Workers,       \* the processes that pull from the durable consumer
          MaxDeliver,    \* consumer.ts maxDeliver
          MaxDlq,        \* bound: no dead letter is stored past this DLQ sequence
          MaxEpoch       \* bound: how often the stream may be deleted and recreated

ASSUME ConsumerAssumption == /\ Kinds \subseteq [Events -> {"plain", "test", "foreign", "malformed"}]
                             /\ MaxDeliver \in Nat \ {0}
                             /\ MaxDlq \in Nat /\ MaxEpoch \in Nat

VARIABLES kindOf,      \* kindOf[e]: "plain", "test" (a test-run event at a consumer that reaches
                       \* people), "foreign" (another tenant's) or "malformed" (no valid envelope)
          inbox,       \* inbox[e]: processing_state of the row, "none" when there is no row
          applied,     \* applied[a]: applied_version of the aggregate, 0 when there is no row
          handled,     \* handled[e]: how often a handler's effect was committed (history)
          worker,      \* worker[w]: what a process is doing, and for which delivery
          cursor,      \* the durable consumer: the first stream sequence not finished yet
          dcount,      \* the durable consumer: how often that message was delivered
          out,         \* the durable consumer: its last delivery is neither answered nor expired
          epoch,       \* how often the stream was deleted and recreated
          dlq,         \* the stored entries of the DLQ stream
          dlqSeq,      \* the last sequence of the DLQ stream
          replaying    \* the dlq-replay commands between their PubAck and their delete

tableVars == <<inbox, applied, handled>>
durableVars == <<cursor, dcount, out>>
dlqVars == <<dlq, dlqSeq, replaying>>
worldVars == <<epoch, kindOf>>
inboxVars == <<tableVars, worker, durableVars, worldVars, dlqVars>>
consumerVars == <<inboxVars, brokerVars>>

Aggregates == {Agg[e] : e \in Events}
Settled == {"processed", "skipped_stale", "skipped_test"}
InboxState == Settled \cup {"none", "failed", "dead_lettered"}
Step == {"idle", "apply", "failed", "ack", "invalid", "dlq", "mark", "term"}
Delivery == [pc : Step, ev : Events \cup {0}, seq : Nat, count : Nat, epoch : Nat]
Entry == [n : Nat, kind : {"consumer", "advisory"}, ev : Events, seq : Nat, epoch : Nat, len : Nat]
Idle == [pc |-> "idle", ev |-> 0, seq |-> 0, count |-> 0, epoch |-> 0]

ConsumerTypeOK == /\ BrokerTypeOK
                  /\ kindOf \in Kinds
                  /\ inbox \in [Events -> InboxState]
                  /\ applied \in [Aggregates -> Nat]
                  /\ handled \in [Events -> Nat]
                  /\ worker \in [Workers -> Delivery]
                  /\ \A w \in Workers : worker[w].pc # "idle" => worker[w].ev \in Events
                  /\ cursor \in Nat \ {0} /\ dcount \in Nat /\ out \in BOOLEAN
                  /\ epoch \in Nat
                  /\ dlq \subseteq Entry /\ dlqSeq \in Nat
                  /\ replaying \subseteq [n : Nat, ev : Events]

InboxInit == /\ kindOf \in Kinds
             /\ inbox = [e \in Events |-> "none"]
             /\ applied = [a \in Aggregates |-> 0]
             /\ handled = [e \in Events |-> 0]
             /\ worker = [w \in Workers |-> Idle]
             /\ cursor = 1 /\ dcount = 0 /\ out = FALSE
             /\ epoch = 0
             /\ dlq = {} /\ dlqSeq = 0 /\ replaying = {}
-----------------------------------------------------------------------------
(* The durable consumer on the server *)

\* max_ack_pending 1: the next message, or a further delivery of the same one.
Deliver(w) == /\ worker[w].pc = "idle"
              /\ cursor <= Len(stream)
              /\ ~out
              /\ dcount < MaxDeliver
              /\ dcount' = dcount + 1
              /\ out' = TRUE
              /\ worker' = [worker EXCEPT ![w] = [pc |-> "apply", ev |-> stream[cursor].ev, seq |-> cursor,
                                                  count |-> dcount + 1, epoch |-> epoch]]
              /\ UNCHANGED <<tableVars, cursor, worldVars, dlqVars, brokerVars>>

\* The ack wait of the outstanding delivery passes: its process died, or its
\* working() heartbeats did not arrive.
AckWaitExpires == /\ out
                  /\ out' = FALSE
                  /\ UNCHANGED <<tableVars, worker, cursor, dcount, worldVars, dlqVars, brokerVars>>

\* What the DLQ stream stores about a message.
EntryOf(kind, e, seq) == [n |-> dlqSeq + 1, kind |-> kind, ev |-> e, seq |-> seq,
                          epoch |-> epoch, len |-> Len(stream)]

StoreEntry(kind, e, seq) == /\ dlqSeq < MaxDlq
                            /\ dlqSeq' = dlqSeq + 1
                            /\ dlq' = dlq \cup {EntryOf(kind, e, seq)}

\* MaxDeliver is exhausted: the server moves on and its advisory is stored in the DLQ stream.
Exhausted == /\ cursor <= Len(stream)
             /\ ~out
             /\ dcount >= MaxDeliver
             /\ StoreEntry("advisory", stream[cursor].ev, cursor)
             /\ cursor' = cursor + 1
             /\ dcount' = 0
             /\ UNCHANGED <<tableVars, worker, out, worldVars, replaying, brokerVars>>

\* The server still waits for an answer to the message of the delivery of w.
Awaited(w) == worker[w].epoch = epoch /\ worker[w].seq = cursor

\* ack() or term() arrives: the message is finished (a late answer changes nothing).
Finish(w) == IF Awaited(w) THEN cursor' = cursor + 1 /\ dcount' = 0 /\ out' = FALSE
                           ELSE UNCHANGED durableVars

Goto(w, pc) == worker' = [worker EXCEPT ![w].pc = pc]
Done(w) == worker' = [worker EXCEPT ![w] = Idle]

\* nak(delay): the message may be delivered again.
Nak(w) == /\ Done(w)
          /\ out' = (out /\ ~Awaited(w))
          /\ UNCHANGED <<cursor, dcount>>
-----------------------------------------------------------------------------
(* processMessage: apply() commits *)

At(w, pc) == worker[w].pc = pc

\* Fault: the ON CONFLICT of the claim has no WHERE, so a settled row is claimed again.
ClaimsSettled(w) == /\ At(w, "apply")
                    /\ kindOf[worker[w].ev] \in {"plain", "test"}

\* claimSql takes the inbox row: there is none, or it is not settled.
Claims(w) == /\ At(w, "apply")
             /\ kindOf[worker[w].ev] \in {"plain", "test"}
             /\ inbox[worker[w].ev] \notin Settled

\* Fault: the version guard is dropped.
AlwaysFresh(e) == applied[Agg[e]] \in Nat /\ Ver[e] \in Nat

\* versionSql: the version is not older than the one applied.
Fresh(e) == applied[Agg[e]] <= Ver[e]

\* The handler's effect, the version and the inbox row commit together.
Processes(w) == LET e == worker[w].ev
                IN  /\ Claims(w) /\ kindOf[e] = "plain" /\ Fresh(e)
                    /\ inbox' = [inbox EXCEPT ![e] = "processed"]
                    /\ applied' = [applied EXCEPT ![Agg[e]] = Ver[e]]
                    /\ handled' = [handled EXCEPT ![e] = @ + 1]
                    /\ Goto(w, "ack")
                    /\ UNCHANGED <<durableVars, worldVars, dlqVars, brokerVars>>

SkipsStale(w) == LET e == worker[w].ev
                 IN  /\ Claims(w) /\ kindOf[e] = "plain" /\ ~Fresh(e)
                     /\ inbox' = [inbox EXCEPT ![e] = "skipped_stale"]
                     /\ Goto(w, "ack")
                     /\ UNCHANGED <<applied, handled, durableVars, worldVars, dlqVars, brokerVars>>

SkipsTest(w) == LET e == worker[w].ev
                IN  /\ Claims(w) /\ kindOf[e] = "test"
                    /\ inbox' = [inbox EXCEPT ![e] = "skipped_test"]
                    /\ Goto(w, "ack")
                    /\ UNCHANGED <<applied, handled, durableVars, worldVars, dlqVars, brokerVars>>

\* The claim returns no row: the event is settled already.
FindsDuplicate(w) == /\ At(w, "apply")
                     /\ kindOf[worker[w].ev] \in {"plain", "test"}
                     /\ inbox[worker[w].ev] \in Settled
                     /\ Goto(w, "ack")
                     /\ UNCHANGED <<tableVars, durableVars, worldVars, dlqVars, brokerVars>>

\* No valid envelope, or the event of another tenant.
FindsInvalid(w) == /\ At(w, "apply")
                   /\ kindOf[worker[w].ev] \in {"foreign", "malformed"}
                   /\ Goto(w, "invalid")
                   /\ UNCHANGED <<tableVars, durableVars, worldVars, dlqVars, brokerVars>>

Acks(w) == /\ At(w, "ack")
           /\ Finish(w)
           /\ Done(w)
           /\ UNCHANGED <<tableVars, worldVars, dlqVars, brokerVars>>
-----------------------------------------------------------------------------
(* processMessage: apply() throws *)

\* The handler or the database fails; the transaction is rolled back.
ApplyFails(w) == /\ At(w, "apply")
                 /\ kindOf[worker[w].ev] # "malformed"
                 /\ Goto(w, "failed")
                 /\ UNCHANGED <<tableVars, durableVars, worldVars, dlqVars, brokerVars>>

\* Fault: a failed delivery that is not the last one is acknowledged.
AcksFailure(w) == IF worker[w].count >= MaxDeliver
                  THEN Goto(w, "dlq") /\ UNCHANGED durableVars
                  ELSE Finish(w) /\ Done(w)

\* After the failure: dead-letter the last delivery, ask for another one otherwise.
AfterFailure(w) == IF worker[w].count >= MaxDeliver
                   THEN Goto(w, "dlq") /\ UNCHANGED durableVars
                   ELSE Nak(w)

\* Fault: recordFailure leaves the row in the state of the claim.
LeavesReceived(s) == IF s \in {"none", "failed"} THEN "received" ELSE s

\* What failSql makes of a row.  It also matches a dead_lettered row, but leaves
\* dead_lettered_at set, so inbox_state_times_check rejects that UPDATE.
FailedState(s) == IF s \in {"none", "failed"} THEN "failed" ELSE s

\* recordFailure commits.
RecordFailure(w) == /\ At(w, "failed")
                    /\ inbox' = [inbox EXCEPT ![worker[w].ev] = FailedState(@)]
                    /\ AfterFailure(w)
                    /\ UNCHANGED <<applied, handled, worldVars, dlqVars, brokerVars>>

\* recordFailure throws too (the database is away): reported and swallowed.
FailureUnrecorded(w) == /\ At(w, "failed")
                        /\ AfterFailure(w)
                        /\ UNCHANGED <<tableVars, worldVars, dlqVars, brokerVars>>

\* publishDlq resolves.
PublishesDlq(w) == /\ At(w, "dlq") \/ At(w, "invalid")
                   /\ StoreEntry("consumer", worker[w].ev, worker[w].seq)
                   /\ Goto(w, IF At(w, "dlq") THEN "mark" ELSE "term")
                   /\ UNCHANGED <<tableVars, durableVars, worldVars, replaying, brokerVars>>

\* Fault: the message is terminated although its dead letter may not be stored.
TerminatesAnyway(w) == /\ At(w, "dlq") \/ At(w, "invalid")
                       /\ \/ StoreEntry("consumer", worker[w].ev, worker[w].seq)
                          \/ UNCHANGED <<dlq, dlqSeq>>
                       /\ Goto(w, "term")
                       /\ UNCHANGED <<tableVars, durableVars, worldVars, replaying, brokerVars>>

\* publishDlq throws, whether or not the entry was stored: nothing is terminated.
DlqPublishFails(w) == /\ At(w, "dlq") \/ At(w, "invalid")
                      /\ \/ StoreEntry("consumer", worker[w].ev, worker[w].seq)
                         \/ UNCHANGED <<dlq, dlqSeq>>
                      /\ Nak(w)
                      /\ UNCHANGED <<tableVars, worldVars, replaying, brokerVars>>

\* Fault: markDeadLettered does not look at the state of the row.
MarksAnyRow(w) == /\ At(w, "mark")
                  /\ inbox' = [inbox EXCEPT ![worker[w].ev] = "dead_lettered"]
                  /\ Goto(w, "term")
                  /\ UNCHANGED <<applied, handled, durableVars, worldVars, dlqVars, brokerVars>>

\* markDeadLettered commits: only a received or failed row is marked.
MarksDeadLettered(w) == /\ At(w, "mark")
                        /\ inbox' = [inbox EXCEPT ![worker[w].ev] = IF @ = "failed" THEN "dead_lettered" ELSE @]
                        /\ Goto(w, "term")
                        /\ UNCHANGED <<applied, handled, durableVars, worldVars, dlqVars, brokerVars>>

\* markDeadLettered throws: the message is left to the server's advisory.
MarkFails(w) == /\ At(w, "mark")
                /\ Nak(w)
                /\ UNCHANGED <<tableVars, worldVars, dlqVars, brokerVars>>

Terminates(w) == /\ At(w, "term")
                 /\ Finish(w)
                 /\ Done(w)
                 /\ UNCHANGED <<tableVars, worldVars, dlqVars, brokerVars>>

\* The process dies, or its ack or term is lost.
Dies(w) == /\ ~At(w, "idle")
           /\ Done(w)
           /\ UNCHANGED <<tableVars, durableVars, worldVars, dlqVars, brokerVars>>
-----------------------------------------------------------------------------
(* The operator and the stream *)

\* Fault: the time of the original is not compared with the time of the entry.
ReplayableUnchecked(d) == /\ d.seq \in 1 .. Len(stream)
                          /\ d.kind = "consumer" => stream[d.seq].ev = d.ev

\* The original named by entry d is there, is d's event (a consumer entry says
\* which), and was not stored after d.
Replayable(d) == /\ d.seq \in 1 .. Len(stream)
                 /\ d.kind = "consumer" => stream[d.seq].ev = d.ev
                 /\ d.epoch = epoch /\ d.seq <= d.len

\* Fault: the replay publishes under the event id itself.
ReplaysUnderRowId(d) == /\ d \in dlq
                        /\ Replayable(d)
                        /\ LET m == RowMsg(stream[d.seq].ev)
                           IN  /\ Room(m)
                               /\ Publish(m)
                               /\ replaying' = replaying \cup {[n |-> d.n, ev |-> m.ev]}
                        /\ UNCHANGED <<tableVars, worker, durableVars, worldVars, dlq, dlqSeq>>

\* dlq-replay: the original is republished as <event id>.r<n> and the PubAck arrives.
ReplayDeadLetter(d) == /\ d \in dlq
                       /\ Replayable(d)
                       /\ LET m == [ev |-> stream[d.seq].ev, r |-> d.n]
                          IN  /\ Room(m)
                              /\ Publish(m)
                              /\ replaying' = replaying \cup {[n |-> d.n, ev |-> m.ev]}
                       /\ UNCHANGED <<tableVars, worker, durableVars, worldVars, dlq, dlqSeq>>

\* Fault: the entry is kept after its replay.
ReplayKeepsEntry(p) == /\ p \in replaying
                       /\ replaying' = replaying \ {p}
                       /\ UNCHANGED <<dlq, tableVars, worker, durableVars, worldVars, dlqSeq, brokerVars>>

\* ... and the entry is deleted.
ReplayDeletes(p) == /\ p \in replaying
                    /\ dlq' = {d \in dlq : d.n # p.n}
                    /\ replaying' = replaying \ {p}
                    /\ UNCHANGED <<tableVars, worker, durableVars, worldVars, dlqSeq, brokerVars>>

\* The command dies before the delete, or never learns of the PubAck.
ReplayDies(p) == /\ p \in replaying
                 /\ replaying' = replaying \ {p}
                 /\ UNCHANGED <<tableVars, worker, durableVars, worldVars, dlq, dlqSeq, brokerVars>>

\* The stream is deleted and recreated, and with it the durable consumer; the DLQ stays.
StreamRecreated == /\ epoch < MaxEpoch
                   /\ epoch' = epoch + 1
                   /\ stream' = << >> /\ window' = 1
                   /\ cursor' = 1 /\ dcount' = 0 /\ out' = FALSE
                   /\ UNCHANGED <<tableVars, worker, kindOf, dlqVars>>
-----------------------------------------------------------------------------
Works(w) == \/ Processes(w) \/ SkipsStale(w) \/ SkipsTest(w) \/ FindsDuplicate(w)
            \/ FindsInvalid(w) \/ Acks(w) \/ RecordFailure(w) \/ PublishesDlq(w)
            \/ MarksDeadLettered(w) \/ Terminates(w)

Fails(w) == \/ ApplyFails(w) \/ FailureUnrecorded(w) \/ DlqPublishFails(w)
            \/ MarkFails(w) \/ Dies(w)

InboxNext == \/ \E w \in Workers : Deliver(w) \/ Works(w) \/ Fails(w)
             \/ AckWaitExpires \/ Exhausted
             \/ \E d \in dlq : ReplayDeadLetter(d)
             \/ \E p \in replaying : ReplayDeletes(p) \/ ReplayDies(p)
             \/ StreamRecreated

\* A publisher (the relay, outbox-replay) stores a message.
Arrives(e) == /\ Room(RowMsg(e))
              /\ Publish(RowMsg(e))
              /\ UNCHANGED inboxVars

ConsumerNext == \/ InboxNext
                \/ \E e \in Events : Arrives(e)
                \/ WindowSlides /\ UNCHANGED inboxVars

ConsumerInit == BrokerInit /\ InboxInit

ConsumerSpec == ConsumerInit /\ [][ConsumerNext]_consumerVars
-----------------------------------------------------------------------------
(* Properties *)

\* The handler's effect of an event is committed at most once, however often the
\* event is delivered, redelivered to a second process or replayed.
HandledOnce == \A e \in Events : handled[e] <= 1

\* A newer state is never overwritten by an older one: a handler's effect is
\* committed only while no later version of the aggregate was handled.
NeverOverwritten == [][\A e \in Events : handled'[e] # handled[e] =>
                         \A d \in Events : handled[d] > 0 => ~Earlier(e, d)]_consumerVars

\* A dead letter of e exists that no replay has republished into the stream.
DeadLettered(e) == \E d \in dlq : d.ev = e /\ ~Stored([ev |-> e, r |-> d.n])

\* Nothing is lost: a message the durable consumer is done with is settled in
\* the inbox, dead-lettered, or stored again where it is still to be delivered.
NothingLost == \A i \in 1 .. Len(stream) : i < cursor =>
                 LET e == stream[i].ev
                 IN  inbox[e] \in Settled \/ DeadLettered(e) \/ StoredFrom(e, cursor)

\* dlq-replay deletes an entry only after it republished that entry's own event,
\* also when the stream was recreated and its sequences started again.
ReplaysItsOwnEvent == \A p \in replaying : \A d \in dlq : d.n = p.n => d.ev = p.ev

\* The abstract fate of an inbox row.
Fate(s) == CASE s = "processed" -> "applied"
             [] s \in {"skipped_stale", "skipped_test"} -> "dropped"
             [] OTHER -> "open"

Contract == INSTANCE DeliveryContract WITH testRuns <- {e \in Events : kindOf[e] = "test"},
                                           fate <- [e \in Events |-> Fate(inbox[e])],
                                           newest <- applied

\* The consumer implements the contract of apply-once, newest-wins delivery.
ImplementsContract == Contract!ContractSpec
=============================================================================
