-------------------------- MODULE ConsumerRecovery ---------------------------
(***************************************************************************)
(* The dead-letter runbook (docs/runbooks/dead-letter.md, steps 1 and 2)   *)
(* over InboxConsumer: messages arrive and deliveries fail in every way    *)
(* the consumer handles, until the cause is fixed; from then on nothing    *)
(* fails, the consumer keeps pulling and the operator replays every dead   *)
(* letter.                                                                 *)
(***************************************************************************)
EXTENDS InboxConsumer

CONSTANT MaxArrivals   \* bound: how many messages arrive before the repair

VARIABLE repaired      \* the cause of the failures is fixed

recoveryVars == <<consumerVars, repaired>>

RecoveryInit == ConsumerInit /\ repaired = FALSE

\* The delivery the server waits for is in the hands of a live process.
InHand == \E w \in Workers : worker[w].pc # "idle" /\ Awaited(w)

Troubled == /\ ~repaired
            /\ \/ \E w \in Workers : Deliver(w) \/ Works(w) \/ Fails(w)
               \/ AckWaitExpires \/ Exhausted
               \/ \E e \in Events : Len(stream) < MaxArrivals /\ Arrives(e)
            /\ UNCHANGED repaired

Repair == /\ ~repaired
          /\ repaired' = TRUE
          /\ UNCHANGED consumerVars

Pulls(w) == repaired /\ (Deliver(w) \/ Works(w)) /\ UNCHANGED repaired
ServerMovesOn == repaired /\ ((AckWaitExpires /\ ~InHand) \/ Exhausted) /\ UNCHANGED repaired

\* One command at a time, the oldest entry first (the order dlq-list prints).
ReplaysNext == /\ repaired /\ replaying = {}
               /\ \E d \in dlq : (\A c \in dlq : d.n <= c.n) /\ ReplayDeadLetter(d)
               /\ UNCHANGED repaired
DeletesReplayed == repaired /\ (\E p \in replaying : ReplayDeletes(p)) /\ UNCHANGED repaired

RecoveryNext == \/ Troubled \/ Repair
                \/ \E w \in Workers : Pulls(w)
                \/ ServerMovesOn \/ ReplaysNext \/ DeletesReplayed

\* The pull loop and the server never stop; the operator works through the list.
RecoverySpec == /\ RecoveryInit /\ [][RecoveryNext]_recoveryVars
                /\ \A w \in Workers : WF_recoveryVars(Pulls(w))
                /\ WF_recoveryVars(ServerMovesOn)
                /\ WF_recoveryVars(ReplaysNext) /\ WF_recoveryVars(DeletesReplayed)

\* After the fix every event of the stream is settled, the dead-lettered ones
\* through their replay: "the consumer's inbox row (dead_lettered) is claimed
\* again" (or the event ends skipped_stale), whatever failed before.
EventsSettle == \A e \in Events :
                  (repaired /\ StoredFrom(e, 1)) ~> inbox[e] \in Settled

\* ... and the DLQ stream is empty in the end, so that the gauges return to 0.
DeadLettersClear == repaired ~> (dlq = {} /\ \A e \in Events : inbox[e] \notin {"failed", "dead_lettered"})
=============================================================================
