----------------------------- MODULE OutboxRelay -----------------------------
(***************************************************************************)
(* The producing side of @gremion/events: the transactional outbox table   *)
(* of one service database and the relays that publish it (enqueue.ts,     *)
(* relay.ts, backoff.ts, recovery.ts requeueOutbox).                       *)
(*                                                                         *)
(* One pass of a relay is ONE database transaction.  Its writes are kept   *)
(* in `writes' and reach the table only at COMMIT; the publishes it makes  *)
(* are visible at once.  A relay whose transaction died on the server      *)
(* while its publish is still under way is a "zombie": that publish may    *)
(* land after the advisory lock went to another relay.                     *)
(***************************************************************************)
EXTENDS JetStream, FiniteSets

CONSTANTS Relays,        \* the relay processes of one database (blue and green overlap)
          MaxAttempts,   \* relay.ts maxAttempts
          BatchSize,     \* relay.ts batchSize, the LIMIT of DUE_SQL
          FailLimit      \* failures in a row after which a pass leaves the rest alone (3)

ASSUME RelayAssumption == /\ MaxAttempts \in Nat \ {0}
                          /\ BatchSize \in Nat \ {0}
                          /\ FailLimit \in Nat \ {0}

VARIABLES outbox,    \* outbox[e]: [state, attempts, due]
          relay,     \* relay[r]: "idle", "begun", "pass", "zombie"
          batch,     \* batch[r]: the rows of the pass not handled yet
          writes,    \* writes[r]: the uncommitted rows of the pass (a partial function)
          fails      \* fails[r]: consecutiveFailures

outboxVars == <<outbox, relay, batch, writes, fails>>
relayVars == <<outboxVars, brokerVars>>

RelayState == {"pending", "published", "dead_lettered"}
Row == [state : RelayState \cup {"absent"}, attempts : 0 .. MaxAttempts, due : BOOLEAN]
AbsentRow == [state |-> "absent", attempts |-> 0, due |-> FALSE]
NoWrites == [e \in {} |-> AbsentRow]

RelayTypeOK == /\ outbox \in [Events -> Row]
               /\ relay \in [Relays -> {"idle", "begun", "pass", "zombie"}]
               /\ batch \in [Relays -> SUBSET Events]
               /\ \A r \in Relays : /\ DOMAIN writes[r] \subseteq Events
                                    /\ \A e \in DOMAIN writes[r] : writes[r][e] \in Row
               /\ DOMAIN writes = Relays
               /\ fails \in [Relays -> 0 .. FailLimit]

RelayInit == /\ outbox = [e \in Events |-> AbsentRow]
             /\ relay = [r \in Relays |-> "idle"]
             /\ batch = [r \in Relays |-> {}]
             /\ writes = [r \in Relays |-> NoWrites]
             /\ fails = [r \in Relays |-> 0]
-----------------------------------------------------------------------------
(* The producer and the operator *)

\* enqueue(tx, ...) and the COMMIT of the caller's transaction.  The version is
\* the row_version of the aggregate row the same transaction has locked, so the
\* row of an earlier version is committed first.
Enqueue(e) == /\ outbox[e].state = "absent"
              /\ \A d \in Events : Earlier(d, e) => outbox[d].state # "absent"
              /\ outbox' = [outbox EXCEPT ![e] = [state |-> "pending", attempts |-> 0, due |-> TRUE]]
              /\ UNCHANGED <<relay, batch, writes, fails, brokerVars>>

\* next_attempt_at <= now() becomes true.
BackoffElapses(e) == /\ outbox[e].state = "pending"
                     /\ ~outbox[e].due
                     /\ outbox' = [outbox EXCEPT ![e].due = TRUE]
                     /\ UNCHANGED <<relay, batch, writes, fails, brokerVars>>

\* events outbox-requeue: dead_lettered -> pending, the counters cleared.
RequeueOutbox(e) == /\ outbox[e].state = "dead_lettered"
                    /\ outbox' = [outbox EXCEPT ![e] = [state |-> "pending", attempts |-> 0, due |-> TRUE]]
                    /\ UNCHANGED <<relay, batch, writes, fails, brokerVars>>
-----------------------------------------------------------------------------
(* One relay pass *)

\* The transaction-scoped advisory lock is held by some relay.
LockHeld == \E r \in Relays : relay[r] = "pass"

\* Fault: DUE_SQL without its NOT EXISTS.
DueUnordered(e) == outbox[e].state = "pending" /\ outbox[e].due

\* Fault: only a pending earlier version holds a row back, not a dead-lettered one.
DuePastDeadLetters(e) == /\ DueUnordered(e)
                         /\ ~ \E p \in Events : Earlier(p, e) /\ outbox[p].state = "pending"

\* DUE_SQL: pending, due, and no unpublished earlier version of its aggregate.
Due(e) == /\ outbox[e].state = "pending"
          /\ outbox[e].due
          /\ ~ \E p \in Events : Earlier(p, e) /\ outbox[p].state \in {"pending", "dead_lettered"}

\* ORDER BY event_time, event_id LIMIT batchSize.
FirstOf(S, n) == {e \in S : Cardinality({d \in S : d < e}) < n}

\* The rows one pass selects.
DueRows == FirstOf({e \in Events : Due(e)}, BatchSize)

\* runOnce opens its transaction (inTenantTx); now() is fixed here.
BeginPass(r) == /\ relay[r] = "idle"
                /\ relay' = [relay EXCEPT ![r] = "begun"]
                /\ UNCHANGED <<outbox, batch, writes, fails, brokerVars>>

\* pg_try_advisory_xact_lock answers false: the pass does nothing.
LockRefused(r) == /\ relay[r] = "begun"
                  /\ LockHeld
                  /\ relay' = [relay EXCEPT ![r] = "idle"]
                  /\ UNCHANGED <<outbox, batch, writes, fails, brokerVars>>

\* The lock is taken and the due rows are selected FOR UPDATE.
SelectDue(r) == /\ relay[r] = "begun"
                /\ ~LockHeld
                /\ relay' = [relay EXCEPT ![r] = "pass"]
                /\ batch' = [batch EXCEPT ![r] = DueRows]
                /\ writes' = [writes EXCEPT ![r] = NoWrites]
                /\ fails' = [fails EXCEPT ![r] = 0]
                /\ UNCHANGED <<outbox, brokerVars>>

\* The UPDATE of one row inside the pass's transaction.
Write(r, e, row) == writes' = [writes EXCEPT ![r] = [d \in DOMAIN writes[r] \cup {e} |->
                                                       IF d = e THEN row ELSE writes[r][d]]]

\* The pass is over: runOnce's locals are gone.
EndPass(r) == /\ relay' = [relay EXCEPT ![r] = "idle"]
              /\ batch' = [batch EXCEPT ![r] = {}]
              /\ writes' = [writes EXCEPT ![r] = NoWrites]
              /\ fails' = [fails EXCEPT ![r] = 0]

\* The loop of the pass is at row e.
AtRow(r, e) == /\ relay[r] = "pass"
               /\ fails[r] < FailLimit
               /\ e \in batch[r] /\ \A d \in batch[r] : e <= d

\* The publish of m lands at the broker, or is lost on its way.
MayPublish(m) == \/ Room(m) /\ Publish(m)
                 \/ UNCHANGED brokerVars

\* The row the relay writes once the broker answered with a PubAck.
PublishedRow(e) == [state |-> "published", attempts |-> outbox[e].attempts, due |-> outbox[e].due]

\* Fault: one attempt too many before the row is given up.
FailedRowOverrun(e) == LET attempt == outbox[e].attempts + 1
                           dead == attempt > MaxAttempts
                       IN  [state |-> IF dead THEN "dead_lettered" ELSE "pending",
                            attempts |-> attempt,
                            due |-> dead /\ outbox[e].due]

\* Fault: a failed attempt is not counted.
FailedRowUncounted(e) == [state |-> "pending", attempts |-> outbox[e].attempts, due |-> FALSE]

\* The row the relay writes after attempt_count + 1 attempts failed.
FailedRow(e) == LET attempt == outbox[e].attempts + 1
                    dead == attempt >= MaxAttempts
                IN  [state |-> IF dead THEN "dead_lettered" ELSE "pending",
                     attempts |-> attempt,
                     due |-> dead /\ outbox[e].due]

\* Fault: the row is marked without waiting for the PubAck.
MarkedUnacked(r, e) == /\ AtRow(r, e)
                       /\ MayPublish(RowMsg(e))
                       /\ Write(r, e, PublishedRow(e))
                       /\ batch' = [batch EXCEPT ![r] = @ \ {e}]
                       /\ fails' = [fails EXCEPT ![r] = 0]
                       /\ UNCHANGED <<outbox, relay>>

\* publishRow resolves: the row is marked published in the open transaction.
PublishAcked(r, e) == /\ AtRow(r, e)
                      /\ Room(RowMsg(e)) /\ Publish(RowMsg(e))
                      /\ Write(r, e, PublishedRow(e))
                      /\ batch' = [batch EXCEPT ![r] = @ \ {e}]
                      /\ fails' = [fails EXCEPT ![r] = 0]
                      /\ UNCHANGED <<outbox, relay>>

\* publishRow rejects for a reason of the row, or times out with a healthy
\* broker (the message may be stored all the same): one attempt is burned.
PublishRefused(r, e) == /\ AtRow(r, e)
                        /\ MayPublish(RowMsg(e))
                        /\ Write(r, e, FailedRow(e))
                        /\ batch' = [batch EXCEPT ![r] = @ \ {e}]
                        /\ fails' = [fails EXCEPT ![r] = @ + 1]
                        /\ UNCHANGED <<outbox, relay>>

\* publishRow rejects for a reason of the connection: nothing is counted and the
\* rest of the batch is left for a later pass.
TransportFails(r, e) == /\ AtRow(r, e)
                        /\ MayPublish(RowMsg(e))
                        /\ batch' = [batch EXCEPT ![r] = {}]
                        /\ UNCHANGED <<outbox, relay, writes, fails>>

\* The loop is over (all rows handled, or too many failures in a row): COMMIT.
CommitPass(r) == /\ relay[r] = "pass"
                 /\ batch[r] = {} \/ fails[r] >= FailLimit
                 /\ outbox' = [e \in Events |-> IF e \in DOMAIN writes[r] THEN writes[r][e] ELSE outbox[e]]
                 /\ EndPass(r)
                 /\ UNCHANGED brokerVars

\* The process dies, or a statement of the transaction throws: ROLLBACK.
RollbackPass(r) == /\ relay[r] \in {"begun", "pass"}
                   /\ EndPass(r)
                   /\ UNCHANGED <<outbox, brokerVars>>

\* The server ends the transaction (and frees the lock) while the relay awaits
\* the PubAck of row e.
LoseTransaction(r, e) == /\ AtRow(r, e)
                         /\ relay' = [relay EXCEPT ![r] = "zombie"]
                         /\ batch' = [batch EXCEPT ![r] = {e}]
                         /\ writes' = [writes EXCEPT ![r] = NoWrites]
                         /\ fails' = [fails EXCEPT ![r] = 0]
                         /\ UNCHANGED <<outbox, brokerVars>>

\* The publish of the lost transaction lands late, or never; the UPDATE that
\* follows throws and the pass is over.
LatePublish(r, e) == /\ relay[r] = "zombie" /\ e \in batch[r]
                     /\ MayPublish(RowMsg(e))
                     /\ EndPass(r)
                     /\ UNCHANGED outbox
-----------------------------------------------------------------------------
Publishing(r, e) == \/ PublishAcked(r, e) \/ PublishRefused(r, e) \/ TransportFails(r, e)
                    \/ LoseTransaction(r, e) \/ LatePublish(r, e)

Pass(r) == \/ BeginPass(r) \/ LockRefused(r) \/ SelectDue(r)
           \/ \E e \in Events : Publishing(r, e)
           \/ CommitPass(r) \/ RollbackPass(r)

RelayNext == \/ \E e \in Events : Enqueue(e) \/ BackoffElapses(e) \/ RequeueOutbox(e)
             \/ \E r \in Relays : Pass(r)

OutboxNext == RelayNext \/ (WindowSlides /\ UNCHANGED outboxVars)

OutboxInit == BrokerInit /\ RelayInit

OutboxSpec == OutboxInit /\ [][OutboxNext]_relayVars
-----------------------------------------------------------------------------
(* Properties *)

\* The type invariant of the outbox, the relays and the broker.
OutboxTypeOK == BrokerTypeOK /\ RelayTypeOK

\* A row marked `published' is stored in the stream, whatever crashed, timed out
\* or was rolled back on the way: runOnce marks a row only after its PubAck.
PublishedStored == \A e \in Events : outbox[e].state = "published" => Stored(RowMsg(e))

\* The relay cannot overtake: a message of a later version is stored only behind
\* a copy of every earlier version of its aggregate, even when a transaction is
\* lost in mid-publish and another relay takes over (the NOT EXISTS of DUE_SQL).
VersionsInOrder == \A i \in 1 .. Len(stream) : \A d \in Events :
                     Earlier(d, stream[i].ev) => \E j \in 1 .. i - 1 : stream[j].ev = d

\* A row the relay gave up on, or has not published yet, holds back every later
\* event of its aggregate until it is requeued and published.
HoldsBack == \A d, f \in Events :
               Earlier(d, f) /\ Stored(RowMsg(f)) => outbox[d].state = "published"
-----------------------------------------------------------------------------
(* Fairness: the poll loop of a relay goes on, whatever it meets; the broker   *)
(* answers for a row that is tried again and again, with success or refusal;   *)
(* and passes stop dying and losing their transactions.                        *)
PollStep(r) == \/ BeginPass(r) \/ LockRefused(r) \/ SelectDue(r) \/ CommitPass(r)
               \/ \E e \in Events : LatePublish(r, e)

RelayFairness ==
  /\ \A r \in Relays : WF_relayVars(PollStep(r))
  /\ \A e \in Events : SF_relayVars(\E r \in Relays : PublishAcked(r, e) \/ PublishRefused(r, e))
  /\ <>[][\A r \in Relays : ~RollbackPass(r) /\ \A e \in Events : ~LoseTransaction(r, e)]_relayVars

OutboxLiveSpec == /\ OutboxSpec
                  /\ RelayFairness
                  /\ \A e \in Events : WF_relayVars(BackoffElapses(e))

\* No row wedges the outbox: a row that is pending is published, or the relays
\* give up on it or on an earlier version of its aggregate.
RowsSettle == \A e \in Events : []<>(\/ outbox[e].state # "pending"
                                     \/ \E d \in Events : Earlier(d, e) /\ outbox[d].state = "dead_lettered")
=============================================================================
