------------------------- MODULE OutboxRelay_proofs --------------------------
(***************************************************************************)
(* Proofs about OutboxRelay, for every set of events, relays and limits.   *)
(*                                                                         *)
(* None of the three safety properties is inductive: a commit relies on    *)
(* what its pass saw.  The invariant has two layers.  TableInv is about    *)
(* the outbox table and the passes, and holds whatever the broker does:    *)
(* one relay holds the lock, the rows it selected or wrote are still       *)
(* pending, and every earlier version of a row that some relay may         *)
(* publish, now or late, is published.  StreamInv relates the table and    *)
(* the open pass to the stream.                                            *)
(***************************************************************************)
EXTENDS OutboxRelay, TLAPS

\* At most one relay holds the advisory lock.
OneHolder == \A r, s \in Relays : relay[r] = "pass" /\ relay[s] = "pass" => r = s

\* Only an open pass has uncommitted writes; those rows and the rows still to be
\* handled are pending in the table.
PassRows == \A r \in Relays :
              /\ relay[r] # "pass" => DOMAIN writes[r] = {}
              /\ \A e \in DOMAIN writes[r] : outbox[e].state = "pending" /\ writes[r][e].state # "absent"
              /\ relay[r] = "pass" => \A e \in batch[r] : outbox[e].state = "pending"

\* Every earlier version of a row some relay has published or is about to
\* publish is published.
BatchReady == \A r \in Relays : \A e \in batch[r] \cup DOMAIN writes[r] : \A d \in Events :
                Earlier(d, e) => outbox[d].state = "published"

\* Rows are enqueued in version order, and marked published in version order.
RowsInOrder == \A d, e \in Events : Earlier(d, e) =>
                 /\ outbox[e].state # "absent" => outbox[d].state # "absent"
                 /\ outbox[e].state = "published" => outbox[d].state = "published"

\* A pending row has an attempt left, committed or not.
AttemptLeft == /\ \A e \in Events : outbox[e].state = "pending" => outbox[e].attempts < MaxAttempts
               /\ \A r \in Relays : \A e \in DOMAIN writes[r] :
                    writes[r][e].state = "pending" => writes[r][e].attempts < MaxAttempts

TableInv == RelayTypeOK /\ OneHolder /\ PassRows /\ BatchReady /\ RowsInOrder /\ AttemptLeft

\* A row the open pass wrote as published is stored.
WrittenStored == \A r \in Relays : \A e \in DOMAIN writes[r] :
                   writes[r][e].state = "published" => Stored(RowMsg(e))

StreamInv == BrokerTypeOK /\ WrittenStored /\ PublishedStored /\ VersionsInOrder /\ HoldsBack

RelayInv == TableInv /\ StreamInv
-----------------------------------------------------------------------------
(* The table and the passes *)

LEMMA TableInvInit == RelayInit => TableInv
<1> SUFFICES ASSUME RelayInit
             PROVE  TableInv
  OBVIOUS
<1> USE EventsAssumption, RelayAssumption DEF RelayInit, AbsentRow, NoWrites
<1>1. RelayTypeOK
  BY DEF RelayTypeOK, Row, RelayState
<1>2. OneHolder /\ PassRows /\ BatchReady /\ RowsInOrder /\ AttemptLeft
  BY DEF OneHolder, PassRows, BatchReady, RowsInOrder, AttemptLeft
<1> QED
  BY <1>1, <1>2 DEF TableInv

\* Steps that change one row of the table, and never a published one.
LEMMA TableStep ==
  ASSUME TableInv, NEW e \in Events, NEW row \in Row,
         outbox' = [outbox EXCEPT ![e] = row],
         UNCHANGED <<relay, batch, writes, fails>>,
         row.state = "pending", row.attempts < MaxAttempts,
         outbox[e].state # "published",
         outbox[e].state = "absent" => \A d \in Events : Earlier(d, e) => outbox[d].state # "absent"
  PROVE  TableInv'
<1>1. RelayTypeOK'
  BY DEF TableInv, RelayTypeOK
<1>2. \A d \in Events : /\ outbox[d].state = "published" <=> outbox'[d].state = "published"
                        /\ outbox[d].state = "pending" => outbox'[d].state = "pending"
                        /\ outbox[d].state # "absent" => outbox'[d].state # "absent"
                        /\ d # e => outbox'[d] = outbox[d]
  BY DEF TableInv, RelayTypeOK
<1>3. OneHolder'
  BY DEF TableInv, OneHolder
<1>4. PassRows'
  BY <1>2 DEF TableInv, PassRows, RelayTypeOK
<1>5. BatchReady'
  BY <1>2 DEF TableInv, BatchReady, Earlier
<1>6. RowsInOrder'
  <2> SUFFICES ASSUME NEW d \in Events, NEW f \in Events, Earlier(d, f)
               PROVE  /\ outbox'[f].state # "absent" => outbox'[d].state # "absent"
                      /\ outbox'[f].state = "published" => outbox'[d].state = "published"
    BY DEF RowsInOrder, Earlier
  <2> QED
    BY <1>2 DEF TableInv, RowsInOrder
<1>7. AttemptLeft'
  BY <1>2 DEF TableInv, AttemptLeft, RelayTypeOK
<1> QED
  BY <1>1, <1>3, <1>4, <1>5, <1>6, <1>7 DEF TableInv

\* Opening a transaction, or giving up on a lock that is taken, moves one relay
\* and nothing else.
LEMMA LockKeeps ==
  ASSUME TableInv, NEW r \in Relays, NEW pc \in {"idle", "begun"}, relay[r] # "pass",
         relay' = [relay EXCEPT ![r] = pc],
         UNCHANGED <<outbox, batch, writes, fails>>
  PROVE  TableInv'
<1>1. \A s \in Relays : relay'[s] = "pass" <=> relay[s] = "pass"
  BY DEF TableInv, RelayTypeOK
<1>2. RelayTypeOK'
  BY DEF TableInv, RelayTypeOK
<1>3. OneHolder' /\ PassRows'
  BY <1>1 DEF TableInv, OneHolder, PassRows
<1>4. BatchReady' /\ RowsInOrder' /\ AttemptLeft'
  BY DEF TableInv, BatchReady, RowsInOrder, AttemptLeft, Earlier
<1> QED
  BY <1>2, <1>3, <1>4 DEF TableInv

\* Taking the lock and reading the due rows: DUE_SQL selects pending rows whose
\* earlier versions are all published.
LEMMA SelectKeeps ==
  ASSUME TableInv, NEW r \in Relays, SelectDue(r)
  PROVE  TableInv'
<1> USE RelayAssumption
<1>1. \A s \in Relays : /\ relay'[s] = IF s = r THEN "pass" ELSE relay[s]
                        /\ batch'[s] = IF s = r THEN DueRows ELSE batch[s]
                        /\ writes'[s] = IF s = r THEN NoWrites ELSE writes[s]
  BY DEF TableInv, RelayTypeOK, SelectDue
<1>2. DOMAIN NoWrites = {} /\ outbox' = outbox
  BY DEF NoWrites, SelectDue
<1>3. DueRows \subseteq {e \in Events : Due(e)}
  BY DEF DueRows, FirstOf
<1>4. RelayTypeOK'
  BY <1>1, <1>2, <1>3 DEF TableInv, RelayTypeOK, SelectDue
<1>5. OneHolder'
  BY <1>1 DEF OneHolder, SelectDue, LockHeld
<1>6. PassRows'
  BY <1>1, <1>2, <1>3 DEF TableInv, PassRows, Due
<1>7. \A e \in DueRows, d \in Events : Earlier(d, e) => outbox[d].state = "published"
  <2> SUFFICES ASSUME NEW e \in DueRows, NEW d \in Events, Earlier(d, e)
               PROVE  outbox[d].state = "published"
    OBVIOUS
  <2>1. e \in Events /\ outbox[e].state = "pending" /\ outbox[d].state \notin {"pending", "dead_lettered"}
    BY <1>3 DEF Due
  <2>2. outbox[d].state # "absent"
    BY <2>1 DEF TableInv, RowsInOrder
  <2>3. outbox[d].state \in {"absent", "pending", "published", "dead_lettered"}
    BY DEF TableInv, RelayTypeOK, Row, RelayState
  <2> QED
    BY <2>1, <2>2, <2>3
<1>8. BatchReady'
  BY <1>1, <1>2, <1>7 DEF TableInv, BatchReady, Earlier
<1>9. RowsInOrder' /\ AttemptLeft'
  BY <1>1, <1>2 DEF TableInv, RowsInOrder, AttemptLeft, Earlier
<1> QED
  BY <1>4, <1>5, <1>6, <1>8, <1>9 DEF TableInv

\* The relay is at row e: it is pending and its earlier versions are published.
LEMMA AtRowFacts ==
  ASSUME TableInv, NEW r \in Relays, NEW e \in Events, AtRow(r, e)
  PROVE  /\ outbox[e].state = "pending"
         /\ \A d \in Events : Earlier(d, e) => outbox[d].state = "published"
  BY DEF TableInv, PassRows, BatchReady, AtRow

\* What a pass writes for a pending row, published or failed, is a row of the
\* table, and one that stays pending has an attempt left.
LEMMA RowsAreRows ==
  ASSUME TableInv, NEW e \in Events, outbox[e].state = "pending"
  PROVE  /\ PublishedRow(e) \in Row /\ PublishedRow(e).state = "published"
         /\ FailedRow(e) \in Row /\ FailedRow(e).state \in {"pending", "dead_lettered"}
         /\ FailedRow(e).state = "pending" => FailedRow(e).attempts < MaxAttempts
<1>1. /\ outbox[e] \in Row /\ outbox[e].attempts \in Nat /\ outbox[e].attempts < MaxAttempts
      /\ outbox[e].due \in BOOLEAN
  BY RelayAssumption DEF TableInv, RelayTypeOK, AttemptLeft, Row
<1>2. outbox[e].attempts + 1 \in 0 .. MaxAttempts
  BY <1>1, RelayAssumption
<1>3. PublishedRow(e) \in Row /\ PublishedRow(e).state = "published"
  BY <1>1, RelayAssumption DEF PublishedRow, Row, RelayState
<1>4. CASE outbox[e].attempts + 1 >= MaxAttempts
  <2>1. FailedRow(e) = [state |-> "dead_lettered", attempts |-> outbox[e].attempts + 1, due |-> outbox[e].due]
    BY <1>4, <1>1 DEF FailedRow
  <2> QED
    BY <1>1, <1>2, <1>3, <2>1 DEF Row, RelayState
<1>5. CASE ~(outbox[e].attempts + 1 >= MaxAttempts)
  <2>1. FailedRow(e) = [state |-> "pending", attempts |-> outbox[e].attempts + 1, due |-> FALSE]
    BY <1>5 DEF FailedRow
  <2>2. outbox[e].attempts + 1 < MaxAttempts
    BY <1>1, <1>5, RelayAssumption
  <2> QED
    BY <1>1, <1>2, <1>3, <2>1, <2>2 DEF Row, RelayState
<1> QED
  BY <1>4, <1>5

\* What the writes of the passes are after the UPDATE of one row.
LEMMA WriteOne ==
  ASSUME TableInv, NEW r \in Relays, NEW e \in Events, NEW row, Write(r, e, row)
  PROVE  /\ DOMAIN writes' = Relays
         /\ \A s \in Relays : s # r => writes'[s] = writes[s]
         /\ DOMAIN writes'[r] = DOMAIN writes[r] \cup {e}
         /\ writes'[r][e] = row
         /\ \A d \in DOMAIN writes[r] : d # e => writes'[r][d] = writes[r][d]
<1>1. DOMAIN writes = Relays
  BY DEF TableInv, RelayTypeOK
<1>2. writes'[r] = [d \in DOMAIN writes[r] \cup {e} |-> IF d = e THEN row ELSE writes[r][d]]
  BY <1>1 DEF Write
<1> QED
  BY <1>1, <1>2 DEF Write

\* One row of the loop, handled by a write to the open transaction.
LEMMA RowWritten ==
  ASSUME TableInv, NEW r \in Relays, NEW e \in Events, AtRow(r, e),
         NEW row \in Row, Write(r, e, row), row.state # "absent",
         row.state = "pending" => row.attempts < MaxAttempts,
         batch' = [batch EXCEPT ![r] = @ \ {e}],
         NEW n \in 0 .. FailLimit, fails' = [fails EXCEPT ![r] = n],
         UNCHANGED <<outbox, relay>>
  PROVE  TableInv'
<1>1. /\ outbox[e].state = "pending"
      /\ \A d \in Events : Earlier(d, e) => outbox[d].state = "published"
  BY AtRowFacts
<1>2. /\ DOMAIN writes' = Relays
      /\ \A s \in Relays : s # r => writes'[s] = writes[s]
      /\ DOMAIN writes'[r] = DOMAIN writes[r] \cup {e}
      /\ writes'[r][e] = row
      /\ \A d \in DOMAIN writes[r] : d # e => writes'[r][d] = writes[r][d]
  BY WriteOne
<1>3. relay[r] = "pass" /\ e \in batch[r] /\ \A s \in Relays : batch'[s] \subseteq batch[s]
  BY DEF AtRow, TableInv, RelayTypeOK
<1>4. RelayTypeOK'
  BY <1>2 DEF TableInv, RelayTypeOK
<1>5. OneHolder' /\ RowsInOrder'
  BY DEF TableInv, OneHolder, RowsInOrder, Earlier
<1>6. BatchReady'
  BY <1>2, <1>3 DEF TableInv, BatchReady, Earlier
<1>7. PassRows'
  BY <1>1, <1>2, <1>3 DEF TableInv, PassRows
<1>8. AttemptLeft'
  <2>1. ASSUME NEW s \in Relays, NEW d \in DOMAIN writes'[s], writes'[s][d].state = "pending"
        PROVE  writes'[s][d].attempts < MaxAttempts
    <3>1. CASE s = r /\ d = e
      BY <1>2, <2>1, <3>1
    <3>2. CASE ~(s = r /\ d = e)
      <4>1. d \in DOMAIN writes[s] /\ writes'[s][d] = writes[s][d]
        BY <1>2, <3>2
      <4> QED
        BY <2>1, <4>1 DEF TableInv, AttemptLeft
    <3> QED
      BY <3>1, <3>2
  <2> QED
    BY <2>1 DEF TableInv, AttemptLeft
<1> QED
  BY <1>4, <1>5, <1>6, <1>7, <1>8 DEF TableInv

\* A pass ends, or shrinks to the one publish still under way, without touching
\* the table.
LEMMA PassShrinks ==
  ASSUME TableInv, NEW r \in Relays, NEW pc \in {"idle", "zombie"}, NEW B \in SUBSET batch[r],
         relay' = [relay EXCEPT ![r] = pc],
         batch' = [batch EXCEPT ![r] = B],
         writes' = [writes EXCEPT ![r] = NoWrites],
         fails' = [fails EXCEPT ![r] = 0],
         outbox' = outbox
  PROVE  TableInv'
<1> USE RelayAssumption
<1>0. \A s \in Relays : /\ relay'[s] = IF s = r THEN pc ELSE relay[s]
                        /\ batch'[s] = IF s = r THEN B ELSE batch[s]
                        /\ writes'[s] = IF s = r THEN NoWrites ELSE writes[s]
  BY DEF TableInv, RelayTypeOK
<1>1. DOMAIN NoWrites = {}
  BY DEF NoWrites
<1>2. RelayTypeOK'
  BY <1>0, <1>1 DEF TableInv, RelayTypeOK
<1>3. OneHolder' /\ RowsInOrder'
  BY <1>0 DEF TableInv, OneHolder, RowsInOrder, Earlier
<1>4. PassRows'
  BY <1>0, <1>1 DEF TableInv, PassRows
<1>5. BatchReady'
  BY <1>0, <1>1 DEF TableInv, BatchReady, Earlier
<1>6. AttemptLeft'
  BY <1>0, <1>1 DEF TableInv, AttemptLeft
<1> QED
  BY <1>2, <1>3, <1>4, <1>5, <1>6 DEF TableInv

\* What a commit does to the table: a row it touches was pending, so nothing
\* that is published changes.
LEMMA CommitTable ==
  ASSUME TableInv, NEW r \in Relays, CommitPass(r)
  PROVE  /\ \A e \in Events : outbox'[e] = IF e \in DOMAIN writes[r] THEN writes[r][e] ELSE outbox[e]
         /\ \A e \in Events : /\ outbox[e].state = "published" => outbox'[e] = outbox[e] /\ e \notin DOMAIN writes[r]
                              /\ outbox[e].state # "absent" <=> outbox'[e].state # "absent"
<1>1. \A e \in Events : outbox'[e] = IF e \in DOMAIN writes[r] THEN writes[r][e] ELSE outbox[e]
  BY DEF CommitPass
<1> QED
  BY <1>1 DEF TableInv, PassRows

LEMMA CommitKeeps ==
  ASSUME TableInv, NEW r \in Relays, CommitPass(r)
  PROVE  TableInv'
<1> USE RelayAssumption
<1>1. \A s \in Relays : /\ relay'[s] = IF s = r THEN "idle" ELSE relay[s]
                        /\ batch'[s] = IF s = r THEN {} ELSE batch[s]
                        /\ writes'[s] = IF s = r THEN NoWrites ELSE writes[s]
  BY DEF TableInv, RelayTypeOK, CommitPass, EndPass
<1>2. DOMAIN NoWrites = {}
  BY DEF NoWrites
<1>3. \A e \in Events : outbox'[e] = IF e \in DOMAIN writes[r] THEN writes[r][e] ELSE outbox[e]
  BY CommitTable
<1>4. \A e \in Events : /\ outbox[e].state = "published" => outbox'[e].state = "published"
                        /\ outbox[e].state # "absent" <=> outbox'[e].state # "absent"
  BY CommitTable
<1>5. RelayTypeOK'
  <2>1. outbox' \in [Events -> Row]
    BY <1>3 DEF TableInv, RelayTypeOK, CommitPass
  <2> QED
    BY <1>1, <1>2, <2>1 DEF TableInv, RelayTypeOK, CommitPass, EndPass
<1>6. OneHolder'
  BY <1>1 DEF TableInv, OneHolder
<1>7. PassRows'
  <2>1. \A s \in Relays : relay'[s] # "pass"
    BY <1>1 DEF TableInv, OneHolder, CommitPass
  <2>2. \A s \in Relays : DOMAIN writes'[s] = {}
    BY <1>1, <1>2, <2>1 DEF TableInv, PassRows
  <2> QED
    BY <2>1, <2>2 DEF PassRows
<1>8. BatchReady'
  BY <1>1, <1>2, <1>4 DEF TableInv, BatchReady, Earlier
<1>9. RowsInOrder'
  <2> SUFFICES ASSUME NEW d \in Events, NEW e \in Events, Earlier(d, e)
               PROVE  /\ outbox'[e].state # "absent" => outbox'[d].state # "absent"
                      /\ outbox'[e].state = "published" => outbox'[d].state = "published"
    BY DEF RowsInOrder, Earlier
  <2>1. e \in DOMAIN writes[r] => outbox[d].state = "published"
    BY DEF TableInv, BatchReady
  <2> QED
    BY <1>3, <1>4, <2>1 DEF TableInv, RowsInOrder
<1>10. AttemptLeft'
  BY <1>1, <1>2, <1>3 DEF TableInv, AttemptLeft
<1> QED
  BY <1>5, <1>6, <1>7, <1>8, <1>9, <1>10 DEF TableInv

\* A row that is handled, whatever the broker answers.
LEMMA PublishingKeeps ==
  ASSUME TableInv, NEW r \in Relays, NEW e \in Events, Publishing(r, e)
  PROVE  TableInv'
<1> USE RelayAssumption
<1>0. fails[r] \in 0 .. FailLimit
  BY DEF TableInv, RelayTypeOK
<1>1. CASE PublishAcked(r, e)
  <2>1. outbox[e].state = "pending"
    BY <1>1, AtRowFacts DEF PublishAcked
  <2>2. PublishedRow(e) \in Row /\ PublishedRow(e).state = "published"
    BY <2>1, RowsAreRows
  <2>3. 0 \in 0 .. FailLimit
    OBVIOUS
  <2> QED
    BY <1>1, <2>2, <2>3, RowWritten DEF PublishAcked
<1>2. CASE PublishRefused(r, e)
  <2>1. outbox[e].state = "pending"
    BY <1>2, AtRowFacts DEF PublishRefused
  <2>2. /\ FailedRow(e) \in Row /\ FailedRow(e).state \in {"pending", "dead_lettered"}
        /\ FailedRow(e).state = "pending" => FailedRow(e).attempts < MaxAttempts
    BY <2>1, RowsAreRows
  <2>3. fails[r] + 1 \in 0 .. FailLimit
    BY <1>0, <1>2 DEF PublishRefused, AtRow
  <2>4. fails' = [fails EXCEPT ![r] = fails[r] + 1]
    BY <1>2 DEF PublishRefused
  <2> QED
    BY <1>2, <2>2, <2>3, <2>4, RowWritten DEF PublishRefused
<1>3. CASE TransportFails(r, e)
  <2>1. \A s \in Relays : batch'[s] \subseteq batch[s]
    BY <1>3 DEF TransportFails, TableInv, RelayTypeOK
  <2>2. RelayTypeOK'
    BY <1>3 DEF TransportFails, TableInv, RelayTypeOK
  <2>3. OneHolder' /\ RowsInOrder' /\ AttemptLeft'
    BY <1>3 DEF TransportFails, TableInv, OneHolder, RowsInOrder, AttemptLeft, Earlier
  <2>4. PassRows' /\ BatchReady'
    BY <1>3, <2>1 DEF TransportFails, TableInv, PassRows, BatchReady, Earlier
  <2> QED
    BY <2>2, <2>3, <2>4 DEF TableInv
<1>4. CASE LoseTransaction(r, e)
  <2>1. {e} \in SUBSET batch[r]
    BY <1>4 DEF LoseTransaction, AtRow
  <2> QED
    BY <1>4, <2>1, PassShrinks DEF LoseTransaction
<1>5. CASE LatePublish(r, e)
  <2>1. {} \in SUBSET batch[r]
    OBVIOUS
  <2> QED
    BY <1>5, <2>1, PassShrinks DEF LatePublish, EndPass
<1> QED
  BY <1>1, <1>2, <1>3, <1>4, <1>5 DEF Publishing

\* The two steps that make a row pending again, and the one that makes it due.
LEMMA RowStepKeeps ==
  ASSUME TableInv, NEW e \in Events, Enqueue(e) \/ BackoffElapses(e) \/ RequeueOutbox(e)
  PROVE  /\ TableInv'
         /\ outbox[e].state # "published" /\ outbox'[e].state = "pending"
         /\ \A d \in Events : d # e => outbox'[d] = outbox[d]
<1> USE RelayAssumption
<1>0. outbox \in [Events -> Row]
  BY DEF TableInv, RelayTypeOK
<1>1. [state |-> "pending", attempts |-> 0, due |-> TRUE] \in Row /\ 0 < MaxAttempts
  BY DEF Row, RelayState
<1>2. CASE Enqueue(e)
  BY <1>0, <1>1, <1>2, TableStep DEF Enqueue
<1>3. CASE BackoffElapses(e)
  <2> DEFINE row == [outbox[e] EXCEPT !.due = TRUE]
  <2>1. outbox[e] \in Row /\ outbox[e].attempts < MaxAttempts
    BY <1>3 DEF BackoffElapses, TableInv, RelayTypeOK, AttemptLeft
  <2>2. row \in Row /\ row.state = "pending" /\ row.attempts < MaxAttempts
    BY <1>3, <2>1 DEF BackoffElapses, Row
  <2>3. outbox' = [outbox EXCEPT ![e] = row]
    BY <1>3 DEF BackoffElapses
  <2> HIDE DEF row
  <2> QED
    BY <1>0, <1>3, <2>2, <2>3, TableStep DEF BackoffElapses
<1>4. CASE RequeueOutbox(e)
  BY <1>0, <1>1, <1>4, TableStep DEF RequeueOutbox
<1> QED
  BY <1>2, <1>3, <1>4

LEMMA PassKeeps ==
  ASSUME TableInv, NEW r \in Relays, Pass(r)
  PROVE  TableInv'
<1>1. CASE BeginPass(r)
  BY <1>1, LockKeeps DEF BeginPass
<1>2. CASE LockRefused(r)
  BY <1>2, LockKeeps DEF LockRefused
<1>3. CASE SelectDue(r)
  BY <1>3, SelectKeeps
<1>4. CASE \E e \in Events : Publishing(r, e)
  BY <1>4, PublishingKeeps
<1>5. CASE CommitPass(r)
  BY <1>5, CommitKeeps
<1>6. CASE RollbackPass(r)
  <2>1. {} \in SUBSET batch[r]
    OBVIOUS
  <2> QED
    BY <1>6, <2>1, PassShrinks DEF RollbackPass, EndPass
<1> QED
  BY <1>1, <1>2, <1>3, <1>4, <1>5, <1>6 DEF Pass

\* TableInv is inductive, whatever happens to the stream.
LEMMA TableInvStep ==
  ASSUME TableInv, RelayNext \/ UNCHANGED outboxVars
  PROVE  TableInv'
<1>1. CASE RelayNext
  BY <1>1, RowStepKeeps, PassKeeps DEF RelayNext
<1>2. CASE UNCHANGED outboxVars
  <2>1. UNCHANGED <<outbox, relay, batch, writes, fails>>
    BY <1>2 DEF outboxVars
  <2> QED
    BY <2>1 DEF TableInv, RelayTypeOK, OneHolder, PassRows, BatchReady, RowsInOrder, AttemptLeft, Earlier
<1> QED
  BY <1>1, <1>2
-----------------------------------------------------------------------------
(* The stream *)

\* A publish that lands, or does not, only ever adds m at the end of the stream.
LEMMA StreamGrows ==
  ASSUME BrokerTypeOK, NEW m \in MsgId, Publish(m) \/ UNCHANGED brokerVars
  PROVE  /\ BrokerTypeOK'
         /\ Len(stream) \in Nat /\ Len(stream') \in Nat
         /\ Len(stream) <= Len(stream')
         /\ \A i \in 1 .. Len(stream) : stream'[i] = stream[i]
         /\ \A i \in 1 .. Len(stream') : i \in 1 .. Len(stream) \/ (i = Len(stream) + 1 /\ stream'[i] = m)
<1>1. CASE stream' = stream
  BY <1>1 DEF BrokerTypeOK, Publish, brokerVars
<1>2. CASE stream' = Append(stream, m)
  <2>1. stream \in Seq(MsgId)
    BY DEF BrokerTypeOK
  <2>2. /\ stream' \in Seq(MsgId)
        /\ Len(stream') = Len(stream) + 1
        /\ \A i \in 1 .. Len(stream) : stream'[i] = stream[i]
        /\ stream'[Len(stream) + 1] = m
    BY <1>2, <2>1
  <2>3. Len(stream) \in Nat
    BY <2>1
  <2>4. window' = window
    BY DEF Publish, brokerVars
  <2> QED
    BY <2>2, <2>3, <2>4 DEF BrokerTypeOK
<1> QED
  BY <1>1, <1>2 DEF Publish, brokerVars

\* What is stored stays stored.
LEMMA StoredStays ==
  ASSUME BrokerTypeOK, NEW m \in MsgId, Publish(m) \/ UNCHANGED brokerVars
  PROVE  \A x : Stored(x) => Stored(x)'
<1> QED
  BY StreamGrows DEF Stored

\* A publish that reaches the broker leaves the message stored, also when the
\* broker recognises a duplicate.
LEMMA PublishStores ==
  ASSUME BrokerTypeOK, NEW m \in MsgId, Publish(m)
  PROVE  Stored(m)'
<1>1. CASE Held(m)
  BY <1>1 DEF Held, Stored, Publish, BrokerTypeOK
<1>2. CASE ~Held(m)
  <2>1. stream \in Seq(MsgId) /\ stream' = Append(stream, m)
    BY <1>2 DEF Publish, BrokerTypeOK
  <2>2. Len(stream') = Len(stream) + 1 /\ Len(stream) \in Nat /\ stream'[Len(stream) + 1] = m
    BY <2>1
  <2> QED
    BY <2>2 DEF Stored
<1> QED
  BY <1>1, <1>2

\* A step of the producing side leaves the broker alone or publishes a row.
LEMMA RelayPublishesRows ==
  ASSUME RelayNext
  PROVE  UNCHANGED brokerVars \/ \E e \in Events : Room(RowMsg(e)) /\ Publish(RowMsg(e))
<1>1. ASSUME NEW e \in Events, Enqueue(e) \/ BackoffElapses(e) \/ RequeueOutbox(e)
      PROVE  UNCHANGED brokerVars
  BY <1>1 DEF Enqueue, BackoffElapses, RequeueOutbox
<1>2. ASSUME NEW r \in Relays, \/ BeginPass(r) \/ LockRefused(r) \/ SelectDue(r)
                               \/ CommitPass(r) \/ RollbackPass(r)
      PROVE  UNCHANGED brokerVars
  BY <1>2 DEF BeginPass, LockRefused, SelectDue, CommitPass, RollbackPass
<1>3. ASSUME NEW r \in Relays, NEW e \in Events, Publishing(r, e)
      PROVE  UNCHANGED brokerVars \/ (Room(RowMsg(e)) /\ Publish(RowMsg(e)))
  BY <1>3 DEF Publishing, PublishAcked, PublishRefused, TransportFails, LoseTransaction, LatePublish, MayPublish
<1> QED
  BY <1>1, <1>2, <1>3 DEF RelayNext, Pass

\* The stream stays, no row becomes or ceases to be published, and no pass
\* writes anything.
LEMMA StreamSame ==
  ASSUME StreamInv, stream' = stream, window' \in Nat \ {0},
         \A e \in Events : outbox'[e].state = "published" <=> outbox[e].state = "published",
         \A r \in Relays : writes'[r] = writes[r] \/ DOMAIN writes'[r] = {}
  PROVE  StreamInv'
<1>1. BrokerTypeOK' /\ VersionsInOrder'
  BY DEF StreamInv, BrokerTypeOK, VersionsInOrder, Earlier
<1>2. \A x : Stored(x) <=> Stored(x)'
  BY DEF Stored
<1>3. WrittenStored'
  BY <1>2 DEF StreamInv, WrittenStored, RowMsg
<1>4. PublishedStored' /\ HoldsBack'
  BY <1>2 DEF StreamInv, PublishedStored, HoldsBack, Earlier, RowMsg
<1> QED
  BY <1>1, <1>3, <1>4 DEF StreamInv

\* A publish of row e, or a lost one, while every earlier version of e is
\* published: the stream stays in version order.
LEMMA PublishStep ==
  ASSUME StreamInv, NEW e \in Events, outbox' = outbox,
         Publish(RowMsg(e)) \/ UNCHANGED brokerVars,
         \A d \in Events : Earlier(d, e) => outbox[d].state = "published"
  PROVE  /\ BrokerTypeOK' /\ PublishedStored' /\ VersionsInOrder' /\ HoldsBack'
         /\ \A x : Stored(x) => Stored(x)'
<1>0. BrokerTypeOK /\ RowMsg(e) \in MsgId
  BY DEF StreamInv, RowMsg, MsgId
<1>1. \A x : Stored(x) => Stored(x)'
  BY <1>0, StoredStays
<1>2. /\ BrokerTypeOK'
      /\ Len(stream) \in Nat /\ Len(stream') \in Nat
      /\ Len(stream) <= Len(stream')
      /\ \A i \in 1 .. Len(stream) : stream'[i] = stream[i]
      /\ \A i \in 1 .. Len(stream') : i \in 1 .. Len(stream) \/ (i = Len(stream) + 1 /\ stream'[i] = RowMsg(e))
  BY <1>0, StreamGrows
<1>3. PublishedStored'
  BY <1>1 DEF StreamInv, PublishedStored, RowMsg
<1>4. VersionsInOrder'
  <2> SUFFICES ASSUME NEW i \in 1 .. Len(stream'), NEW d \in Events, Earlier(d, stream'[i].ev)
               PROVE  \E j \in 1 .. i - 1 : stream'[j].ev = d
    BY DEF VersionsInOrder, Earlier
  <2>1. CASE i \in 1 .. Len(stream)
    <3>1. PICK j \in 1 .. i - 1 : stream[j].ev = d
      BY <1>2, <2>1 DEF StreamInv, VersionsInOrder
    <3>2. j \in 1 .. Len(stream)
      BY <2>1, <1>2
    <3> QED
      BY <1>2, <3>1, <3>2
  <2>2. CASE i = Len(stream) + 1 /\ stream'[i] = RowMsg(e)
    <3>1. outbox[d].state = "published"
      BY <2>2 DEF RowMsg
    <3>2. PICK j \in 1 .. Len(stream) : stream[j] = RowMsg(d)
      BY <3>1 DEF StreamInv, PublishedStored, Stored
    <3>3. j \in 1 .. i - 1 /\ stream'[j].ev = d
      BY <1>2, <2>2, <3>2 DEF RowMsg
    <3> QED
      BY <3>3
  <2> QED
    BY <1>2, <2>1, <2>2
<1>5. HoldsBack'
  <2> SUFFICES ASSUME NEW d \in Events, NEW f \in Events, Earlier(d, f), Stored(RowMsg(f))'
               PROVE  outbox[d].state = "published"
    BY DEF HoldsBack, Earlier, RowMsg
  <2>1. Stored(RowMsg(f)) \/ RowMsg(f) = RowMsg(e)
    BY <1>2 DEF Stored
  <2>2. RowMsg(f) = RowMsg(e) => f = e
    BY DEF RowMsg
  <2> QED
    BY <2>1, <2>2 DEF StreamInv, HoldsBack
<1> QED
  BY <1>1, <1>2, <1>3, <1>4, <1>5

\* A row that is handled: it is published only behind its earlier versions, and
\* written as published only when it is stored.
LEMMA PublishingStream ==
  ASSUME RelayInv, NEW r \in Relays, NEW e \in Events, Publishing(r, e)
  PROVE  StreamInv'
<1>0. TableInv /\ StreamInv /\ BrokerTypeOK /\ RowMsg(e) \in MsgId /\ DOMAIN writes = Relays
  BY DEF RelayInv, StreamInv, RowMsg, MsgId, TableInv, RelayTypeOK
<1>1. /\ \A d \in Events : Earlier(d, e) => outbox[d].state = "published"
      /\ outbox' = outbox /\ (Publish(RowMsg(e)) \/ UNCHANGED brokerVars)
  <2>1. e \in batch[r]
    BY DEF Publishing, PublishAcked, PublishRefused, TransportFails, LoseTransaction, LatePublish, AtRow
  <2>2. \A d \in Events : Earlier(d, e) => outbox[d].state = "published"
    BY <1>0, <2>1 DEF TableInv, BatchReady
  <2> QED
    BY <2>2 DEF Publishing, PublishAcked, PublishRefused, TransportFails, LoseTransaction, LatePublish, MayPublish
<1>2. /\ BrokerTypeOK' /\ PublishedStored' /\ VersionsInOrder' /\ HoldsBack'
      /\ \A x : Stored(x) => Stored(x)'
  BY <1>0, <1>1, PublishStep
<1>3. ASSUME NEW row, Write(r, e, row), row.state = "published" => Stored(RowMsg(e))'
      PROVE  WrittenStored'
  <2>1. /\ DOMAIN writes' = Relays
        /\ \A s \in Relays : s # r => writes'[s] = writes[s]
        /\ DOMAIN writes'[r] = DOMAIN writes[r] \cup {e}
        /\ writes'[r][e] = row
        /\ \A d \in DOMAIN writes[r] : d # e => writes'[r][d] = writes[r][d]
    BY <1>0, <1>3, WriteOne
  <2> SUFFICES ASSUME NEW s \in Relays, NEW d \in DOMAIN writes'[s], writes'[s][d].state = "published"
               PROVE  Stored(RowMsg(d))'
    BY DEF WrittenStored, RowMsg
  <2>2. CASE s = r /\ d = e
    BY <1>3, <2>1, <2>2
  <2>3. CASE ~(s = r /\ d = e)
    <3>1. d \in DOMAIN writes[s] /\ writes'[s][d] = writes[s][d]
      BY <2>1, <2>3
    <3> QED
      BY <1>0, <1>2, <3>1 DEF StreamInv, WrittenStored
  <2> QED
    BY <2>2, <2>3
<1>4. CASE PublishAcked(r, e)
  <2>1. Stored(RowMsg(e))'
    BY <1>0, <1>4, PublishStores DEF PublishAcked
  <2>2. WrittenStored'
    BY <1>3, <1>4, <2>1 DEF PublishAcked
  <2> QED
    BY <1>2, <2>2 DEF StreamInv
<1>5. CASE PublishRefused(r, e)
  <2>1. outbox[e].state = "pending"
    BY <1>0, <1>5, AtRowFacts DEF PublishRefused
  <2>2. FailedRow(e).state # "published"
    BY <1>0, <2>1, RowsAreRows
  <2>3. WrittenStored'
    BY <1>3, <1>5, <2>2 DEF PublishRefused
  <2> QED
    BY <1>2, <2>3 DEF StreamInv
<1>6. CASE TransportFails(r, e) \/ LoseTransaction(r, e) \/ LatePublish(r, e)
  <2>1. \A s \in Relays : writes'[s] = writes[s] \/ DOMAIN writes'[s] = {}
    BY <1>0, <1>6 DEF TransportFails, LoseTransaction, LatePublish, EndPass, NoWrites
  <2>2. WrittenStored'
    BY <1>0, <1>2, <2>1 DEF StreamInv, WrittenStored, RowMsg
  <2> QED
    BY <1>2, <2>2 DEF StreamInv
<1> QED
  BY <1>4, <1>5, <1>6 DEF Publishing

\* A commit marks published only what is stored.
LEMMA CommitStream ==
  ASSUME RelayInv, NEW r \in Relays, CommitPass(r)
  PROVE  StreamInv'
<1>0. TableInv /\ StreamInv /\ DOMAIN writes = Relays /\ stream' = stream /\ window' = window
  BY DEF RelayInv, CommitPass, brokerVars, TableInv, RelayTypeOK
<1>1. \A e \in Events : /\ outbox[e].state = "published" => outbox'[e].state = "published"
                        /\ outbox'[e].state = "published" => Stored(RowMsg(e))
  BY <1>0, CommitTable DEF StreamInv, WrittenStored, PublishedStored
<1>2. \A x : Stored(x) <=> Stored(x)'
  BY <1>0 DEF Stored
<1>3. BrokerTypeOK' /\ VersionsInOrder'
  BY <1>0 DEF StreamInv, BrokerTypeOK, VersionsInOrder, Earlier
<1>4. WrittenStored'
  <2>1. \A s \in Relays : writes'[s] = writes[s] \/ DOMAIN writes'[s] = {}
    BY <1>0 DEF CommitPass, EndPass, NoWrites
  <2> QED
    BY <1>0, <1>2, <2>1 DEF StreamInv, WrittenStored, RowMsg
<1>5. PublishedStored' /\ HoldsBack'
  BY <1>0, <1>1, <1>2 DEF StreamInv, PublishedStored, HoldsBack, Earlier, RowMsg
<1> QED
  BY <1>3, <1>4, <1>5 DEF StreamInv

LEMMA RelayInvInit == OutboxInit => RelayInv
<1> SUFFICES ASSUME OutboxInit
             PROVE  RelayInv
  OBVIOUS
<1>1. TableInv
  BY TableInvInit DEF OutboxInit
<1> USE EventsAssumption DEF OutboxInit, BrokerInit, RelayInit, AbsentRow, NoWrites
<1>2. BrokerTypeOK /\ WrittenStored
  BY DEF BrokerTypeOK, WrittenStored
<1>3. PublishedStored /\ VersionsInOrder /\ HoldsBack
  BY DEF PublishedStored, VersionsInOrder, HoldsBack, Stored
<1> QED
  BY <1>1, <1>2, <1>3 DEF RelayInv, StreamInv

\* RelayInv is inductive.
LEMMA RelayInvStep == RelayInv /\ [OutboxNext]_relayVars => RelayInv'
<1> SUFFICES ASSUME RelayInv, [OutboxNext]_relayVars
             PROVE  RelayInv'
  OBVIOUS
<1>0. TableInv /\ StreamInv /\ window \in Nat \ {0} /\ DOMAIN writes = Relays
  BY DEF RelayInv, StreamInv, BrokerTypeOK, TableInv, RelayTypeOK
<1>1. TableInv'
  BY <1>0, TableInvStep DEF OutboxNext, relayVars
<1>2. ASSUME NEW e \in Events, Enqueue(e) \/ BackoffElapses(e) \/ RequeueOutbox(e)
      PROVE  StreamInv'
  <2>1. stream' = stream /\ window' = window /\ writes' = writes
    BY <1>2 DEF Enqueue, BackoffElapses, RequeueOutbox, brokerVars
  <2>2. \A d \in Events : outbox'[d].state = "published" <=> outbox[d].state = "published"
    BY <1>0, <1>2, RowStepKeeps
  <2> QED
    BY <1>0, <2>1, <2>2, StreamSame
<1>3. ASSUME NEW r \in Relays, Pass(r)
      PROVE  StreamInv'
  <2>1. CASE BeginPass(r) \/ LockRefused(r) \/ SelectDue(r) \/ RollbackPass(r)
    <3>1. /\ stream' = stream /\ window' = window /\ outbox' = outbox
          /\ \A s \in Relays : writes'[s] = writes[s] \/ DOMAIN writes'[s] = {}
      BY <1>0, <2>1 DEF BeginPass, LockRefused, SelectDue, RollbackPass, EndPass, NoWrites, brokerVars
    <3> QED
      BY <1>0, <3>1, StreamSame
  <2> QED
    BY <1>3, <2>1, PublishingStream, CommitStream DEF Pass
<1>4. ASSUME (WindowSlides /\ UNCHANGED outboxVars) \/ UNCHANGED relayVars
      PROVE  StreamInv'
  <2>1. stream' = stream /\ window' \in Nat \ {0} /\ outbox' = outbox /\ writes' = writes
    BY <1>0, <1>4 DEF WindowSlides, relayVars, outboxVars, brokerVars
  <2> QED
    BY <1>0, <2>1, StreamSame
<1>5. StreamInv'
  BY <1>2, <1>3, <1>4 DEF OutboxNext, RelayNext
<1> QED
  BY <1>1, <1>5 DEF RelayInv
-----------------------------------------------------------------------------
\* The inductive invariant holds of every behaviour of the outbox and its relays.
THEOREM RelayInvariant == OutboxSpec => []RelayInv
<1> QED
  BY RelayInvInit, RelayInvStep, PTL DEF OutboxSpec

\* Every row, pass and message keeps its type: in particular no row ever counts
\* more than maxAttempts attempts, and the failure counter of a pass stays
\* within its limit (runOnce).
THEOREM TypeCorrect == OutboxSpec => []OutboxTypeOK
<1>1. RelayInv => OutboxTypeOK
  BY DEF RelayInv, TableInv, StreamInv, OutboxTypeOK
<1> QED
  BY <1>1, RelayInvariant, PTL

\* A row marked published is stored in the stream, for any number of relays,
\* crashes, lost transactions and lost PubAcks (runOnce's mark after the PubAck).
THEOREM PublishedIsStored == OutboxSpec => []PublishedStored
<1>1. RelayInv => PublishedStored
  BY DEF RelayInv, TableInv, StreamInv, OutboxTypeOK
<1> QED
  BY <1>1, RelayInvariant, PTL

\* No later version is ever stored before the earlier ones, whichever relays
\* overlap (DUE_SQL's NOT EXISTS under the advisory lock).
THEOREM NeverOvertakes == OutboxSpec => []VersionsInOrder
<1>1. RelayInv => VersionsInOrder
  BY DEF RelayInv, TableInv, StreamInv, OutboxTypeOK
<1> QED
  BY <1>1, RelayInvariant, PTL

\* An unpublished or dead-lettered row holds back its successors (DUE_SQL).
THEOREM DeadLetterHoldsBack == OutboxSpec => []HoldsBack
<1>1. RelayInv => HoldsBack
  BY DEF RelayInv, TableInv, StreamInv, OutboxTypeOK
<1> QED
  BY <1>1, RelayInvariant, PTL
=============================================================================
