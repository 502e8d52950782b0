---------------------------- MODULE OutboxReplay -----------------------------
(***************************************************************************)
(* The rebuild of a lost stream from the outbox (TRD-422, step 4 of        *)
(* docs/runbooks/dead-letter.md): events outbox-replay (recovery.ts        *)
(* replayOutbox) pages through the `published' rows by the key             *)
(* (published_at, event_id) and republishes each under its own event_id.   *)
(* It takes no lock: the relays go on meanwhile.                           *)
(*                                                                         *)
(* OutboxRelay is extended by the time each pass began, because the row's  *)
(* published_at is now(), the START of the relay's transaction; the time   *)
(* of its COMMIT is kept beside it as history.                             *)
(***************************************************************************)
EXTENDS OutboxRelay

CONSTANTS PageSize,    \* recovery.ts batchSize, the LIMIT of one page
          MaxClock     \* bound: how many passes begin

ASSUME ReplayAssumption == PageSize \in Nat \ {0} /\ MaxClock \in Nat

VARIABLES clock,       \* the time of the last BEGIN
          began,       \* began[r]: now() of the transaction of relay r
          publishedAt, \* publishedAt[e]: published_at of a published row, 0 before
          committedAt, \* history: the time row e was committed as published, 0 before
          replay       \* the replay: [pc, page, full, after, first, sent]

timeVars == <<clock, began, publishedAt, committedAt>>
replayVars == <<relayVars, timeVars, replay>>

\* No row is read; `first' and `sent' are history: the rows that were published
\* when the command started, and the rows it republished, in order.
NoReplay(pc) == [pc |-> pc, page |-> {}, full |-> FALSE, after |-> <<0, 0>>, first |-> {}, sent |-> << >>]

ReplayTypeOK == /\ RelayTypeOK /\ BrokerTypeOK
                /\ clock \in 0 .. MaxClock
                /\ began \in [Relays -> 0 .. MaxClock]
                /\ publishedAt \in [Events -> 0 .. MaxClock]
                /\ committedAt \in [Events -> 0 .. MaxClock]
                /\ replay.pc \in {"healthy", "lost", "read", "publish", "done"}
                /\ replay.page \subseteq Events /\ replay.first \subseteq Events
                /\ replay.full \in BOOLEAN
                /\ replay.sent \in Seq(Events)

ReplayInit == /\ OutboxInit
              /\ clock = 0
              /\ began = [r \in Relays |-> 0]
              /\ publishedAt = [e \in Events |-> 0]
              /\ committedAt = [e \in Events |-> 0]
              /\ replay = NoReplay("healthy")
-----------------------------------------------------------------------------
(* The relays, with the time of their transactions *)

TimedBegin(r) == /\ clock < MaxClock
                 /\ BeginPass(r)
                 /\ clock' = clock + 1
                 /\ began' = [began EXCEPT ![r] = clock + 1]
                 /\ UNCHANGED <<publishedAt, committedAt, replay>>

\* The rows the transaction of relay r commits as published.
CommitsPublished(r) == {e \in DOMAIN writes[r] : writes[r][e].state = "published"}

TimedCommit(r) == /\ CommitPass(r)
                  /\ publishedAt' = [e \in Events |-> IF e \in CommitsPublished(r) THEN began[r] ELSE publishedAt[e]]
                  /\ committedAt' = [e \in Events |-> IF e \in CommitsPublished(r) THEN clock ELSE committedAt[e]]
                  /\ UNCHANGED <<clock, began, replay>>

OtherRelaySteps == /\ \/ \E e \in Events : Enqueue(e) \/ BackoffElapses(e) \/ RequeueOutbox(e)
                      \/ \E r \in Relays : \/ LockRefused(r) \/ SelectDue(r) \/ RollbackPass(r)
                                           \/ \E e \in Events : Publishing(r, e)
                      \/ WindowSlides /\ UNCHANGED outboxVars
                   /\ UNCHANGED <<timeVars, replay>>
-----------------------------------------------------------------------------
(* outbox-replay *)

\* The broker's volume is lost, or the stream is deleted, and it is created again.
StreamLost == /\ replay.pc = "healthy"
              /\ stream' = << >> /\ window' = 1
              /\ replay' = NoReplay("lost")
              /\ UNCHANGED <<outboxVars, timeVars>>

PublishedRows == {e \in Events : outbox[e].state = "published"}

\* Fault: the rows are read in the order of their event ids.
KeyOfEvent(e) == <<1, e>>

\* The key of ORDER BY published_at, event_id.
Key(e) == <<publishedAt[e], e>>
KeyLess(j, k) == j[1] < k[1] \/ (j[1] = k[1] /\ j[2] < k[2])

\* Fault: the page is keyed on published_at alone.
PageAfterTime(after) == LET rest == {e \in PublishedRows : publishedAt[e] > after[1]}
                        IN  {e \in rest : Cardinality({d \in rest : KeyLess(Key(d), Key(e))}) < PageSize}

\* The next page: the first PageSize published rows behind the key `after'.
PageAfter(after) == LET rest == {e \in PublishedRows : KeyLess(after, Key(e))}
                    IN  {e \in rest : Cardinality({d \in rest : KeyLess(Key(d), Key(e))}) < PageSize}

ReplayStarts == /\ replay.pc = "lost"
                /\ replay' = [NoReplay("read") EXCEPT !.first = PublishedRows]
                /\ UNCHANGED <<relayVars, timeVars>>

\* One SELECT, a transaction of its own; no row ends the command.
ReadPage == /\ replay.pc = "read"
            /\ LET page == PageAfter(replay.after)
               IN  replay' = [replay EXCEPT !.pc = IF page = {} THEN "done" ELSE "publish",
                                            !.page = page,
                                            !.full = (Cardinality(page) = PageSize)]
            /\ UNCHANGED <<relayVars, timeVars>>

\* publishRow of the next row of the page; behind a short page the command ends.
RepublishRow(e) == /\ replay.pc = "publish"
                   /\ e \in replay.page /\ \A d \in replay.page \ {e} : KeyLess(Key(e), Key(d))
                   /\ Room(RowMsg(e)) /\ Publish(RowMsg(e))
                   /\ replay' = [replay EXCEPT !.page = @ \ {e},
                                               !.after = Key(e),
                                               !.sent = Append(@, e),
                                               !.pc = IF replay.page # {e} THEN "publish"
                                                      ELSE IF replay.full THEN "read" ELSE "done"]
                   /\ UNCHANGED <<outboxVars, timeVars>>

\* A publish or a SELECT throws: the command fails and is run again from the start.
ReplayFails == /\ replay.pc \in {"read", "publish"}
               /\ replay' = NoReplay("lost")
               /\ UNCHANGED <<relayVars, timeVars>>
-----------------------------------------------------------------------------
ReplayNext == \/ \E r \in Relays : TimedBegin(r) \/ TimedCommit(r)
              \/ OtherRelaySteps
              \/ StreamLost \/ ReplayStarts \/ ReadPage \/ ReplayFails
              \/ \E e \in Events : RepublishRow(e)

ReplaySpec == ReplayInit /\ [][ReplayNext]_replayVars
-----------------------------------------------------------------------------
\* The rebuild is complete: every row that was published when outbox-replay
\* started is stored again when it ends, also rows of one pass that share their
\* published_at and straddle a page, and while relays commit new rows.
RebuildComplete == replay.pc = "done" => \A e \in replay.first : Stored(RowMsg(e))

\* Only passes that overlapped change places: a row that was committed before the
\* pass of another one began is replayed before it, whichever relays published
\* them (relay.ts writes published_at = now(), the start of the pass).
OnlyOverlapsReorder == \A i, j \in 1 .. Len(replay.sent) :
                         i < j => publishedAt[replay.sent[i]] <= committedAt[replay.sent[j]]

\* replayOutbox: "Republishes `published` rows, in publish order": the replay sends
\* no version of an aggregate behind a later one.  The code does not keep it with
\* two relays: the pass of the later version may have begun first.
InPublishOrder == \A i, j \in 1 .. Len(replay.sent) :
                    i < j => ~Earlier(replay.sent[j], replay.sent[i])
=============================================================================
