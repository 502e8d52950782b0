------------------------- MODULE OutboxReplay_proofs -------------------------
(***************************************************************************)
(* Proofs about OutboxReplay, for any events, relays and page size: the    *)
(* rebuild is complete although it takes no lock, and only rows whose      *)
(* passes overlapped may change places in it.                              *)
(*                                                                         *)
(* The relays' table invariant still holds when the stream is lost, and    *)
(* with it that a published row is never written again: its key            *)
(* (published_at, event_id) is fixed.  The heart of the proof is what a    *)
(* page is: a row behind the key that is not on the page is behind every   *)
(* row of the page, and the page is full (PageIsFull), so the command that *)
(* ends at a short page has left nothing out.                              *)
(***************************************************************************)
EXTENDS OutboxReplay, OutboxRelay_proofs, FiniteSetTheorems, WellFoundedInduction

\* The rows that exist are finitely many.
EnqueuedFinite == IsFiniteSet({e \in Events : outbox[e].state # "absent"})

\* Types of the times and of the replay's locals.
ReplayTypes == /\ clock \in Nat /\ began \in [Relays -> Nat]
               /\ publishedAt \in [Events -> Nat] /\ committedAt \in [Events -> Nat]
               /\ replay \in [pc : {"healthy", "lost", "read", "publish", "done"}, page : SUBSET Events,
                              full : BOOLEAN, after : Nat \X Nat, first : SUBSET Events, sent : Seq(Events)]

\* The rows the replay has to send and has read are published, and stay so.
RowsKept == replay.first \subseteq PublishedRows /\ replay.page \subseteq PublishedRows

\* Row e is still before the replay: behind its key, on its page, or behind a
\* full page.
Ahead(e) == \/ replay.pc = "read" /\ KeyLess(replay.after, Key(e))
            \/ replay.pc = "publish" /\ e \in replay.page
            \/ replay.pc = "publish" /\ replay.full /\ \A p \in replay.page : KeyLess(Key(p), Key(e))

\* Every row that was published at the start is stored again, or still ahead.
Swept == \A e \in replay.first : Stored(RowMsg(e)) \/ Ahead(e)

\* The rows were sent in the order of their keys, up to the key `after', and the
\* page is behind it.
SentSorted == /\ \A i, j \in 1 .. Len(replay.sent) :
                   i < j => KeyLess(Key(replay.sent[i]), Key(replay.sent[j]))
              /\ \A i \in 1 .. Len(replay.sent) :
                   /\ replay.sent[i] \in PublishedRows
                   /\ \/ Key(replay.sent[i]) = replay.after
                      \/ KeyLess(Key(replay.sent[i]), replay.after)
              /\ \A p \in replay.page : KeyLess(replay.after, Key(p))

ReplayInv == TableInv /\ BrokerTypeOK /\ EnqueuedFinite /\ ReplayTypes /\ RowsKept /\ Swept /\ SentSorted

\* A pass commits at the time it began or later.
TimesInOrder == /\ \A r \in Relays : began[r] <= clock
                /\ \A e \in Events : publishedAt[e] <= committedAt[e]
-----------------------------------------------------------------------------
(* Pages *)

\* The rows of S before e.
Below(e, S) == {d \in S : KeyLess(Key(d), Key(e))}

\* Keys are totally ordered: rows of one pass share published_at, not event_id.
LEMMA KeyOrder ==
  ASSUME publishedAt \in [Events -> Nat], NEW d \in Events, NEW e \in Events, NEW f \in Events
  PROVE  /\ ~KeyLess(Key(e), Key(e))
         /\ d # e => KeyLess(Key(d), Key(e)) \/ KeyLess(Key(e), Key(d))
         /\ ~(KeyLess(Key(d), Key(e)) /\ KeyLess(Key(e), Key(d)))
         /\ KeyLess(Key(d), Key(e)) /\ KeyLess(Key(e), Key(f)) => KeyLess(Key(d), Key(f))
<1>1. d \in Nat /\ e \in Nat /\ f \in Nat /\ publishedAt[d] \in Nat /\ publishedAt[e] \in Nat /\ publishedAt[f] \in Nat
  BY EventsAssumption
<1> QED
  BY <1>1 DEF KeyLess, Key

\* A finite set of rows has a first one.
LEMMA FirstRow ==
  ASSUME publishedAt \in [Events -> Nat], NEW S \in SUBSET Events, IsFiniteSet(S), S # {}
  PROVE  \E e \in S : \A d \in S : d # e => KeyLess(Key(e), Key(d))
<1> DEFINE T == {Below(e, S) : e \in S}
<1>1. IsWellFoundedOn(StrictSubsetOrdering(S), FiniteSubsetsOf(S))
  BY FS_StrictSubsetOrderingWellFounded
<1>2. FiniteSubsetsOf(S) = SUBSET S
  BY FS_FiniteSubsetsOfFinite
<1>3. T \subseteq FiniteSubsetsOf(S) /\ T # {}
  <2>1. \A e \in S : Below(e, S) \in SUBSET S
    BY DEF Below
  <2>2. T # {}
    OBVIOUS
  <2> QED
    BY <1>2, <2>1, <2>2
<1>4. PICK x \in T : \A y \in T : ~(<<y, x>> \in StrictSubsetOrdering(S))
  BY <1>1, <1>3, WFMin
<1>5. PICK e \in S : x = Below(e, S)
  BY <1>4
<1>6. ASSUME NEW d \in S, d # e, ~KeyLess(Key(e), Key(d))
      PROVE  FALSE
  <2>1. KeyLess(Key(d), Key(e))
    BY <1>6, KeyOrder
  <2>2. d \in Below(e, S) /\ d \notin Below(d, S)
    BY <2>1, KeyOrder DEF Below
  <2>3. Below(d, S) \subseteq Below(e, S)
    BY <2>1, KeyOrder DEF Below
  <2>4. <<Below(d, S), Below(e, S)>> \in StrictSubsetOrdering(S)
    <3>1. Below(d, S) \in SUBSET S /\ Below(e, S) \in SUBSET S /\ Below(d, S) # Below(e, S)
      BY <2>2 DEF Below
    <3> QED
      BY <2>3, <3>1 DEF StrictSubsetOrdering
  <2>5. Below(d, S) \in T
    OBVIOUS
  <2> QED
    BY <1>4, <1>5, <2>4, <2>5
<1> QED
  BY <1>6

\* ... and a last one.
LEMMA LastRow ==
  ASSUME publishedAt \in [Events -> Nat], NEW S \in SUBSET Events, IsFiniteSet(S), S # {}
  PROVE  \E e \in S : \A d \in S : d # e => KeyLess(Key(d), Key(e))
<1> DEFINE Above(e) == {d \in S : KeyLess(Key(e), Key(d))}
           T == {Above(e) : e \in S}
<1>1. IsWellFoundedOn(StrictSubsetOrdering(S), FiniteSubsetsOf(S))
  BY FS_StrictSubsetOrderingWellFounded
<1>2. FiniteSubsetsOf(S) = SUBSET S
  BY FS_FiniteSubsetsOfFinite
<1>3. T \subseteq FiniteSubsetsOf(S) /\ T # {}
  <2>1. \A e \in S : Above(e) \in SUBSET S
    OBVIOUS
  <2>2. T # {}
    OBVIOUS
  <2> QED
    BY <1>2, <2>1, <2>2
<1>4. PICK x \in T : \A y \in T : ~(<<y, x>> \in StrictSubsetOrdering(S))
  BY <1>1, <1>3, WFMin
<1>5. PICK e \in S : x = Above(e)
  BY <1>4
<1>6. ASSUME NEW d \in S, d # e, ~KeyLess(Key(d), Key(e))
      PROVE  FALSE
  <2>1. KeyLess(Key(e), Key(d))
    BY <1>6, KeyOrder
  <2>2. d \in Above(e) /\ d \notin Above(d)
    BY <2>1, KeyOrder
  <2>3. Above(d) \subseteq Above(e)
    BY <2>1, KeyOrder
  <2>4. <<Above(d), Above(e)>> \in StrictSubsetOrdering(S)
    <3>1. Above(d) \in SUBSET S /\ Above(e) \in SUBSET S /\ Above(d) # Above(e)
      BY <2>2
    <3> HIDE DEF Above
    <3> QED
      BY <2>3, <3>1 DEF StrictSubsetOrdering
  <2>5. Above(d) \in T
    OBVIOUS
  <2> QED
    BY <1>4, <1>5, <2>4, <2>5
<1> QED
  BY <1>6

\* What the first n rows of S leave out is behind all of them, and then they
\* are n: neither one too few nor one too many.
LEMMA PageIsFull ==
  ASSUME publishedAt \in [Events -> Nat], NEW S \in SUBSET Events, IsFiniteSet(S), NEW n \in Nat \ {0},
         NEW page, page = {e \in S : Cardinality(Below(e, S)) < n},
         NEW f \in S, f \notin page
  PROVE  /\ Cardinality(page) = n /\ page # {}
         /\ \A p \in page : KeyLess(Key(p), Key(f))
<1>1. \A e \in S : IsFiniteSet(Below(e, S)) /\ Cardinality(Below(e, S)) \in Nat
  <2> SUFFICES ASSUME NEW e \in S
               PROVE  IsFiniteSet(Below(e, S)) /\ Cardinality(Below(e, S)) \in Nat
    OBVIOUS
  <2>1. Below(e, S) \in SUBSET S
    BY DEF Below
  <2> QED
    BY <2>1, FS_Subset, FS_CardinalityType
<1>2. \A d, e \in S : KeyLess(Key(d), Key(e)) => Cardinality(Below(d, S)) <= Cardinality(Below(e, S))
  <2> SUFFICES ASSUME NEW d \in S, NEW e \in S, KeyLess(Key(d), Key(e))
               PROVE  Cardinality(Below(d, S)) <= Cardinality(Below(e, S))
    OBVIOUS
  <2>1. Below(d, S) \in SUBSET Below(e, S)
    BY KeyOrder DEF Below
  <2> QED
    BY <1>1, <2>1, FS_Subset
<1>3. \A p \in page, x \in S : x \notin page => KeyLess(Key(p), Key(x))
  <2> SUFFICES ASSUME NEW p \in page, NEW x \in S, x \notin page, ~KeyLess(Key(p), Key(x))
               PROVE  FALSE
    OBVIOUS
  <2>1. KeyLess(Key(x), Key(p)) /\ p \in S
    BY KeyOrder
  <2>2. Cardinality(Below(x, S)) < n
    BY <1>1, <1>2, <2>1
  <2> QED
    BY <2>2
<1>4. PICK x \in S \ page : \A d \in S \ page : d # x => KeyLess(Key(x), Key(d))
  <2>1. S \ page \in SUBSET S /\ S \ page # {} /\ S \ page \in SUBSET Events
    OBVIOUS
  <2>2. IsFiniteSet(S \ page)
    BY <2>1, FS_Subset
  <2> QED
    BY <2>1, <2>2, FirstRow
<1>5. Below(x, S) = page
  <2>1. \A d \in Below(x, S) : d \in page
    BY <1>4, KeyOrder DEF Below
  <2>2. \A d \in page : d \in Below(x, S)
    BY <1>3, <1>4 DEF Below
  <2> QED
    BY <2>1, <2>2
<1>6. Cardinality(page) \in Nat /\ Cardinality(page) >= n /\ IsFiniteSet(page)
  <2>1. Cardinality(Below(x, S)) \in Nat /\ ~(Cardinality(Below(x, S)) < n)
    BY <1>1, <1>4
  <2> QED
    BY <1>1, <1>5, <2>1
<1>7. page # {}
  BY <1>6, FS_EmptySet
<1>8. PICK y \in page : \A d \in page : d # y => KeyLess(Key(d), Key(y))
  BY <1>6, <1>7, LastRow
<1>9. Below(y, S) = page \ {y}
  <2>1. ASSUME NEW d \in Below(y, S)
        PROVE  d \in page /\ d # y
    <3>1. d \in S /\ y \in S /\ KeyLess(Key(d), Key(y)) /\ Cardinality(Below(y, S)) < n
      BY <2>1 DEF Below
    <3>2. Cardinality(Below(d, S)) < n
      BY <1>1, <1>2, <3>1
    <3> QED
      BY <3>1, <3>2, KeyOrder
  <2>2. \A d \in page \ {y} : d \in Below(y, S)
    BY <1>8 DEF Below
  <2> QED
    BY <2>1, <2>2
<1>10. Cardinality(page \ {y}) = Cardinality(page) - 1
  BY <1>6, <1>8, FS_RemoveElement
<1>11. Cardinality(page) - 1 < n
  <2>1. Cardinality(Below(y, S)) < n
    BY <1>8
  <2> QED
    BY <1>9, <1>10, <2>1
<1> QED
  BY <1>3, <1>6, <1>7, <1>11
-----------------------------------------------------------------------------
(* The relays go on *)

\* What a step of the producing side does to the rows: a published row is not
\* written again, and at most one row is new.
LEMMA RowsMove ==
  ASSUME TableInv, RelayNext \/ UNCHANGED outboxVars
  PROVE  /\ \A e \in Events : outbox[e].state = "published" => outbox'[e].state = "published"
         /\ \E f \in Events \cup {0} : \A e \in Events :
              outbox'[e].state # "absent" => outbox[e].state # "absent" \/ e = f
<1>1. ASSUME NEW f \in Events, Enqueue(f) \/ BackoffElapses(f) \/ RequeueOutbox(f)
      PROVE  /\ \A e \in Events : outbox[e].state = "published" => outbox'[e].state = "published"
             /\ \A e \in Events : outbox'[e].state # "absent" => outbox[e].state # "absent" \/ e = f
  BY <1>1, RowStepKeeps
<1>2. ASSUME NEW r \in Relays, CommitPass(r)
      PROVE  \A e \in Events : /\ outbox[e].state = "published" => outbox'[e].state = "published"
                               /\ outbox'[e].state # "absent" => outbox[e].state # "absent"
  BY <1>2, CommitTable
<1>3. ASSUME outbox' = outbox
      PROVE  \A e \in Events : /\ outbox[e].state = "published" => outbox'[e].state = "published"
                               /\ outbox'[e].state # "absent" => outbox[e].state # "absent"
  BY <1>3
<1>4. ASSUME NEW r \in Relays, Pass(r), ~CommitPass(r)
      PROVE  outbox' = outbox
  BY <1>4 DEF Pass, BeginPass, LockRefused, SelectDue, RollbackPass, Publishing, PublishAcked, PublishRefused,
              TransportFails, LoseTransaction, LatePublish
<1>5. CASE RelayNext
  <2>1. CASE \E f \in Events : Enqueue(f) \/ BackoffElapses(f) \/ RequeueOutbox(f)
    BY <1>1, <2>1
  <2>2. CASE \E r \in Relays : Pass(r)
    <3>1. \A e \in Events : /\ outbox[e].state = "published" => outbox'[e].state = "published"
                            /\ outbox'[e].state # "absent" => outbox[e].state # "absent"
      BY <1>2, <1>3, <1>4, <2>2
    <3>2. 0 \in Events \cup {0}
      OBVIOUS
    <3> QED
      BY <3>1, <3>2
  <2> QED
    BY <1>5, <2>1, <2>2 DEF RelayNext
<1>6. CASE UNCHANGED outboxVars
  <2>1. outbox' = outbox /\ 0 \in Events \cup {0}
    BY <1>6 DEF outboxVars
  <2> QED
    BY <1>3, <2>1
<1> QED
  BY <1>5, <1>6

\* What the broker's messages do in such a step.
LEMMA MessagesStay ==
  ASSUME BrokerTypeOK, RelayNext \/ WindowSlides \/ UNCHANGED brokerVars
  PROVE  BrokerTypeOK' /\ (\A x : Stored(x) => Stored(x)')
<1>1. CASE WindowSlides
  BY <1>1 DEF WindowSlides, BrokerTypeOK, Stored
<1>2. CASE UNCHANGED brokerVars
  BY <1>2 DEF brokerVars, BrokerTypeOK, Stored
<1>3. ASSUME NEW e \in Events, Publish(RowMsg(e))
      PROVE  BrokerTypeOK' /\ (\A x : Stored(x) => Stored(x)')
  <2>1. RowMsg(e) \in MsgId
    BY DEF RowMsg, MsgId
  <2> QED
    BY <1>3, <2>1, StreamGrows, StoredStays
<1> QED
  BY <1>1, <1>2, <1>3, RelayPublishesRows

\* A step of the producing side, the stream's window or the clock does not
\* disturb the replay.
LEMMA RelaySideKeeps ==
  ASSUME ReplayInv, replay' = replay,
         RelayNext \/ UNCHANGED outboxVars,
         RelayNext \/ WindowSlides \/ UNCHANGED brokerVars,
         clock' \in Nat, began' \in [Relays -> Nat], publishedAt' \in [Events -> Nat], committedAt' \in [Events -> Nat],
         \A e \in PublishedRows : publishedAt'[e] = publishedAt[e]
  PROVE  ReplayInv'
<1>1. TableInv'
  BY TableInvStep DEF ReplayInv
<1>2. BrokerTypeOK' /\ (\A x : Stored(x) => Stored(x)')
  BY MessagesStay DEF ReplayInv
<1>3. EnqueuedFinite'
  <2> DEFINE Old == {e \in Events : outbox[e].state # "absent"}
             New == {e \in Events : outbox'[e].state # "absent"}
  <2>1. PICK f : \A e \in Events : outbox'[e].state # "absent" => outbox[e].state # "absent" \/ e = f
    BY RowsMove DEF ReplayInv
  <2>2. IsFiniteSet(Old \cup {f})
    BY FS_AddElement DEF ReplayInv, EnqueuedFinite
  <2>3. New \in SUBSET (Old \cup {f})
    BY <2>1
  <2> QED
    BY <2>2, <2>3, FS_Subset DEF EnqueuedFinite
<1>4. ReplayTypes'
  BY DEF ReplayInv, ReplayTypes
<1>5. PublishedRows \subseteq PublishedRows' /\ \A e \in PublishedRows : Key(e)' = Key(e)
  BY RowsMove DEF ReplayInv, PublishedRows, Key
<1>6. RowsKept'
  BY <1>5 DEF ReplayInv, RowsKept
<1>7. Swept'
  <2> SUFFICES ASSUME NEW e \in replay.first
               PROVE  Stored(RowMsg(e))' \/ Ahead(e)'
    BY DEF Swept, RowMsg
  <2>1. e \in PublishedRows /\ replay.page \subseteq PublishedRows
    BY DEF ReplayInv, RowsKept
  <2>2. Ahead(e) => Ahead(e)'
    BY <1>5, <2>1 DEF Ahead
  <2> QED
    BY <1>2, <2>2 DEF ReplayInv, Swept
<1>8. SentSorted'
  <2>1. replay.page \subseteq PublishedRows /\ \A i \in 1 .. Len(replay.sent) : replay.sent[i] \in PublishedRows
    BY DEF ReplayInv, RowsKept, SentSorted
  <2> QED
    BY <1>5, <2>1 DEF ReplayInv, SentSorted
<1> QED
  BY <1>1, <1>2, <1>3, <1>4, <1>6, <1>7, <1>8 DEF ReplayInv
-----------------------------------------------------------------------------
(* The steps of outbox-replay *)

\* A step of the command leaves the table, the passes and the keys alone.
LEMMA CommandSide ==
  ASSUME ReplayInv, UNCHANGED <<outboxVars, timeVars>>
  PROVE  /\ TableInv' /\ EnqueuedFinite'
         /\ PublishedRows' = PublishedRows /\ \A e : Key(e)' = Key(e)
         /\ UNCHANGED <<outbox, clock, began, publishedAt, committedAt>>
<1>1. UNCHANGED <<outbox, clock, began, publishedAt, committedAt>>
  BY DEF outboxVars, timeVars
<1>2. TableInv'
  BY TableInvStep DEF ReplayInv
<1>3. EnqueuedFinite'
  BY <1>1 DEF ReplayInv, EnqueuedFinite
<1> QED
  BY <1>1, <1>2, <1>3 DEF PublishedRows, Key

\* The command has not read or sent anything.
LEMMA FreshCommand ==
  ASSUME ReplayInv, UNCHANGED <<outboxVars, timeVars>>, BrokerTypeOK',
         \/ replay' = NoReplay("lost")
         \/ replay' = [NoReplay("read") EXCEPT !.first = PublishedRows]
  PROVE  ReplayInv'
<1>1. /\ TableInv' /\ EnqueuedFinite'
      /\ PublishedRows' = PublishedRows /\ \A e : Key(e)' = Key(e)
      /\ UNCHANGED <<outbox, clock, began, publishedAt, committedAt>>
  BY CommandSide
<1>2. /\ replay' \in [pc : {"healthy", "lost", "read", "publish", "done"}, page : SUBSET Events,
                      full : BOOLEAN, after : Nat \X Nat, first : SUBSET Events, sent : Seq(Events)]
      /\ replay'.page = {} /\ replay'.sent = << >> /\ replay'.after = <<0, 0>>
      /\ replay'.first = {} \/ (replay'.pc = "read" /\ replay'.first = PublishedRows)
  <2>1. PublishedRows \in SUBSET Events /\ {} \in SUBSET Events /\ << >> \in Seq(Events) /\ <<0, 0>> \in Nat \X Nat
    BY DEF PublishedRows
  <2>2. PICK first \in {{}, PublishedRows}, pc \in {"lost", "read"} :
          /\ replay' = [pc |-> pc, page |-> {}, full |-> FALSE, after |-> <<0, 0>>, first |-> first, sent |-> << >>]
          /\ first = {} \/ pc = "read"
    BY DEF NoReplay
  <2> QED
    BY <2>1, <2>2
<1>3. ReplayTypes' /\ RowsKept' /\ SentSorted'
  BY <1>1, <1>2 DEF ReplayInv, ReplayTypes, RowsKept, SentSorted
<1>4. \A e \in PublishedRows : KeyLess(<<0, 0>>, Key(e))
  BY EventsAssumption DEF ReplayInv, ReplayTypes, PublishedRows, KeyLess, Key
<1>5. Swept'
  BY <1>1, <1>2, <1>4 DEF Swept, Ahead
<1> QED
  BY <1>1, <1>3, <1>5 DEF ReplayInv

\* One page is read: every row still ahead is on it or behind it, and then the
\* page is full.
LEMMA ReadPageKeeps ==
  ASSUME ReplayInv, ReadPage
  PROVE  ReplayInv'
<1> DEFINE rest == {e \in PublishedRows : KeyLess(replay.after, Key(e))}
           page == PageAfter(replay.after)
<1>1. /\ TableInv' /\ EnqueuedFinite'
      /\ PublishedRows' = PublishedRows /\ \A e : Key(e)' = Key(e)
      /\ UNCHANGED <<outbox, clock, began, publishedAt, committedAt>>
  BY CommandSide DEF ReadPage, relayVars
<1>2. stream' = stream /\ BrokerTypeOK'
  BY DEF ReplayInv, ReadPage, relayVars, brokerVars, BrokerTypeOK
<1>3. page = {e \in rest : Cardinality(Below(e, rest)) < PageSize} /\ rest \in SUBSET Events
  BY DEF PageAfter, Below, PublishedRows
<1>4. IsFiniteSet(rest)
  <2>1. rest \in SUBSET {e \in Events : outbox[e].state # "absent"}
    BY DEF PublishedRows
  <2> QED
    BY <2>1, FS_Subset DEF ReplayInv, EnqueuedFinite
<1>5. ASSUME NEW f \in rest, f \notin page
      PROVE  /\ Cardinality(page) = PageSize /\ page # {}
             /\ \A p \in page : KeyLess(Key(p), Key(f))
  <2>1. publishedAt \in [Events -> Nat] /\ PageSize \in Nat \ {0}
    BY ReplayAssumption DEF ReplayInv, ReplayTypes
  <2> HIDE DEF rest, page
  <2> QED
    BY <1>3, <1>4, <1>5, <2>1, PageIsFull
<1>6. page \subseteq rest /\ rest \subseteq PublishedRows /\ page \in SUBSET Events
  BY <1>3
<1>7. /\ replay'.pc = IF page = {} THEN "done" ELSE "publish"
      /\ replay'.page = page /\ replay'.full = (Cardinality(page) = PageSize)
      /\ replay'.after = replay.after /\ replay'.first = replay.first /\ replay'.sent = replay.sent
      /\ replay.pc = "read" /\ ReplayTypes'
  <2> HIDE DEF page
  <2>1. replay' = [replay EXCEPT !.pc = IF page = {} THEN "done" ELSE "publish",
                                 !.page = page,
                                 !.full = (Cardinality(page) = PageSize)]
    BY DEF ReadPage, page
  <2>2. (Cardinality(page) = PageSize) \in BOOLEAN /\ (IF page = {} THEN "done" ELSE "publish") \in {"done", "publish"}
    OBVIOUS
  <2>3. replay.pc = "read"
    BY DEF ReadPage
  <2> QED
    BY <1>1, <1>6, <2>1, <2>2, <2>3 DEF ReplayInv, ReplayTypes
<1> HIDE DEF page
<1>8. RowsKept'
  BY <1>1, <1>6, <1>7 DEF ReplayInv, RowsKept
<1>9. Swept'
  <2> SUFFICES ASSUME NEW e \in replay.first
               PROVE  Stored(RowMsg(e))' \/ Ahead(e)'
    BY <1>7 DEF Swept, RowMsg
  <2>1. CASE Stored(RowMsg(e))
    BY <1>2, <2>1 DEF Stored, RowMsg
  <2>2. CASE Ahead(e)
    <3>1. e \in rest
      BY <1>7, <2>2 DEF Ahead, ReplayInv, RowsKept
    <3>2. CASE e \in page
      BY <1>7, <3>2 DEF Ahead
    <3>3. CASE e \notin page
      <4>1. Cardinality(page) = PageSize /\ page # {} /\ \A p \in page : KeyLess(Key(p), Key(e))
        BY <1>5, <3>1, <3>3
      <4> QED
        BY <1>1, <1>7, <4>1 DEF Ahead
    <3> QED
      BY <3>2, <3>3
  <2> QED
    BY <2>1, <2>2 DEF ReplayInv, Swept
<1>10. SentSorted'
  BY <1>1, <1>6, <1>7 DEF ReplayInv, SentSorted
<1> QED
  BY <1>1, <1>2, <1>7, <1>8, <1>9, <1>10 DEF ReplayInv

\* The first row of the page is sent: it is stored, and the rest of the page and
\* what lies behind it are still ahead.
LEMMA RepublishKeeps ==
  ASSUME ReplayInv, NEW e \in Events, RepublishRow(e)
  PROVE  ReplayInv'
<1>1. /\ TableInv' /\ EnqueuedFinite'
      /\ PublishedRows' = PublishedRows /\ \A d : Key(d)' = Key(d)
      /\ UNCHANGED <<outbox, clock, began, publishedAt, committedAt>>
  BY CommandSide DEF RepublishRow
<1>2. /\ BrokerTypeOK' /\ (\A x : Stored(x) => Stored(x)') /\ Stored(RowMsg(e))'
  <2>1. RowMsg(e) \in MsgId /\ BrokerTypeOK /\ Publish(RowMsg(e))
    BY DEF RowMsg, MsgId, ReplayInv, RepublishRow
  <2> QED
    BY <2>1, StreamGrows, StoredStays, PublishStores
<1>3. /\ replay.pc = "publish" /\ e \in replay.page /\ e \in PublishedRows
      /\ \A d \in replay.page \ {e} : KeyLess(Key(e), Key(d))
  BY DEF RepublishRow, ReplayInv, RowsKept
<1>4. Key(e) \in Nat \X Nat /\ publishedAt \in [Events -> Nat]
  BY EventsAssumption DEF ReplayInv, ReplayTypes, Key
<1>5. /\ replay'.page = replay.page \ {e} /\ replay'.after = Key(e) /\ replay'.first = replay.first
      /\ replay'.full = replay.full /\ replay'.sent = Append(replay.sent, e)
      /\ replay'.pc = IF replay.page # {e} THEN "publish" ELSE IF replay.full THEN "read" ELSE "done"
      /\ ReplayTypes'
  <2>1. replay' = [replay EXCEPT !.page = @ \ {e}, !.after = Key(e), !.sent = Append(@, e),
                                 !.pc = IF replay.page # {e} THEN "publish"
                                        ELSE IF replay.full THEN "read" ELSE "done"]
    BY DEF RepublishRow
  <2>2. /\ replay \in [pc : {"healthy", "lost", "read", "publish", "done"}, page : SUBSET Events,
                       full : BOOLEAN, after : Nat \X Nat, first : SUBSET Events, sent : Seq(Events)]
        /\ clock' \in Nat /\ began' \in [Relays -> Nat] /\ publishedAt' \in [Events -> Nat] /\ committedAt' \in [Events -> Nat]
    BY <1>1 DEF ReplayInv, ReplayTypes
  <2>3. Append(replay.sent, e) \in Seq(Events) /\ replay.page \ {e} \in SUBSET Events
    BY <2>2
  <2> QED
    BY <1>4, <2>1, <2>2, <2>3 DEF ReplayTypes
<1>6. RowsKept'
  BY <1>1, <1>5 DEF ReplayInv, RowsKept
<1>7. Swept'
  <2> SUFFICES ASSUME NEW f \in replay.first, ~Stored(RowMsg(f))'
               PROVE  Ahead(f)'
    BY <1>5 DEF Swept, RowMsg
  <2>1. f # e /\ Ahead(f)
    BY <1>2 DEF ReplayInv, Swept
  <2>2. CASE f \in replay.page
    BY <1>5, <2>1, <2>2 DEF Ahead
  <2>3. CASE replay.full /\ \A p \in replay.page : KeyLess(Key(p), Key(f))
    <3>1. CASE replay.page # {e}
      BY <1>1, <1>5, <2>3, <3>1 DEF Ahead
    <3>2. CASE replay.page = {e}
      BY <1>1, <1>3, <1>5, <2>3, <3>2 DEF Ahead
    <3> QED
      BY <3>1, <3>2
  <2> QED
    BY <1>3, <2>1, <2>2, <2>3 DEF Ahead
<1>8. SentSorted'
  <2>1. /\ replay.sent \in Seq(Events) /\ Len(replay.sent) \in Nat
        /\ Len(replay'.sent) = Len(replay.sent) + 1 /\ replay'.sent[Len(replay.sent) + 1] = e
        /\ \A i \in 1 .. Len(replay.sent) : replay'.sent[i] = replay.sent[i] /\ replay.sent[i] \in Events
    <3>1. replay.sent \in Seq(Events) /\ replay'.sent = Append(replay.sent, e)
      BY <1>5 DEF ReplayInv, ReplayTypes
    <3> QED
      BY <3>1
  <2>2. KeyLess(replay.after, Key(e)) /\ replay.after \in Nat \X Nat
    BY <1>3 DEF ReplayInv, SentSorted, ReplayTypes
  <2>3. \A i \in 1 .. Len(replay.sent) : KeyLess(Key(replay.sent[i]), Key(e))
    <3> SUFFICES ASSUME NEW i \in 1 .. Len(replay.sent)
                 PROVE  KeyLess(Key(replay.sent[i]), Key(e))
      OBVIOUS
    <3>1. Key(replay.sent[i]) = replay.after \/ KeyLess(Key(replay.sent[i]), replay.after)
      BY DEF ReplayInv, SentSorted
    <3>2. Key(replay.sent[i]) \in Nat \X Nat
      BY <1>4, <2>1, EventsAssumption DEF Key
    <3> HIDE DEF Key
    <3> QED
      BY <1>4, <2>2, <3>1, <3>2 DEF KeyLess
  <2>4. \A i, j \in 1 .. Len(replay'.sent) : i < j => KeyLess(Key(replay'.sent[i]), Key(replay'.sent[j]))
    <3> SUFFICES ASSUME NEW i \in 1 .. Len(replay'.sent), NEW j \in 1 .. Len(replay'.sent), i < j
                 PROVE  KeyLess(Key(replay'.sent[i]), Key(replay'.sent[j]))
      OBVIOUS
    <3>1. i \in 1 .. Len(replay.sent) /\ (j \in 1 .. Len(replay.sent) \/ j = Len(replay.sent) + 1)
      BY <2>1
    <3> QED
      BY <2>1, <2>3, <3>1 DEF ReplayInv, SentSorted
  <2>5. \A i \in 1 .. Len(replay'.sent) :
          /\ replay'.sent[i] \in PublishedRows
          /\ Key(replay'.sent[i]) = Key(e) \/ KeyLess(Key(replay'.sent[i]), Key(e))
    <3> SUFFICES ASSUME NEW i \in 1 .. Len(replay'.sent)
                 PROVE  /\ replay'.sent[i] \in PublishedRows
                        /\ Key(replay'.sent[i]) = Key(e) \/ KeyLess(Key(replay'.sent[i]), Key(e))
      OBVIOUS
    <3>1. i \in 1 .. Len(replay.sent) \/ i = Len(replay.sent) + 1
      BY <2>1
    <3> QED
      BY <1>3, <2>1, <2>3, <3>1 DEF ReplayInv, SentSorted
  <2> QED
    BY <1>1, <1>3, <1>5, <2>4, <2>5 DEF SentSorted
<1> QED
  BY <1>1, <1>2, <1>5, <1>6, <1>7, <1>8 DEF ReplayInv
-----------------------------------------------------------------------------
LEMMA ReplayInvInit == ReplayInit => ReplayInv
<1> SUFFICES ASSUME ReplayInit
             PROVE  ReplayInv
  OBVIOUS
<1>1. TableInv /\ BrokerTypeOK
  BY TableInvInit DEF ReplayInit, OutboxInit, BrokerInit, BrokerTypeOK
<1>2. EnqueuedFinite
  <2>1. {e \in Events : outbox[e].state # "absent"} = {}
    BY DEF ReplayInit, OutboxInit, RelayInit, AbsentRow
  <2> QED
    BY <2>1, FS_EmptySet DEF EnqueuedFinite
<1>3. ReplayTypes
  BY DEF ReplayInit, ReplayTypes, NoReplay
<1>4. RowsKept /\ Swept /\ SentSorted
  BY DEF ReplayInit, NoReplay, RowsKept, Swept, SentSorted
<1> QED
  BY <1>1, <1>2, <1>3, <1>4 DEF ReplayInv

\* The relays' steps, with the time of their transactions.
LEMMA TimedKeeps ==
  ASSUME ReplayInv, (\E r \in Relays : TimedBegin(r) \/ TimedCommit(r)) \/ OtherRelaySteps
  PROVE  ReplayInv'
<1>0. /\ clock \in Nat /\ began \in [Relays -> Nat]
      /\ publishedAt \in [Events -> Nat] /\ committedAt \in [Events -> Nat]
  BY DEF ReplayInv, ReplayTypes
<1>1. ASSUME NEW r \in Relays, TimedBegin(r)
      PROVE  ReplayInv'
  <2>1. RelayNext
    BY <1>1 DEF TimedBegin, RelayNext, Pass
  <2> QED
    BY <1>0, <1>1, <2>1, RelaySideKeeps DEF TimedBegin
<1>2. ASSUME NEW r \in Relays, TimedCommit(r)
      PROVE  ReplayInv'
  <2>1. RelayNext
    BY <1>2 DEF TimedCommit, RelayNext, Pass
  <2>2. publishedAt' \in [Events -> Nat] /\ committedAt' \in [Events -> Nat]
    BY <1>0, <1>2 DEF TimedCommit
  <2>3. \A e \in PublishedRows : publishedAt'[e] = publishedAt[e]
    <3>1. \A e \in PublishedRows : e \in Events /\ e \notin DOMAIN writes[r]
      BY <1>2, CommitTable DEF TimedCommit, PublishedRows, ReplayInv
    <3> QED
      BY <1>2, <3>1 DEF TimedCommit, CommitsPublished
  <2> QED
    BY <1>0, <1>2, <2>1, <2>2, <2>3, RelaySideKeeps DEF TimedCommit
<1>3. CASE OtherRelaySteps
  <2>1. RelayNext \/ (WindowSlides /\ UNCHANGED outboxVars)
    BY <1>3 DEF OtherRelaySteps, RelayNext, Pass
  <2> QED
    BY <1>0, <1>3, <2>1, RelaySideKeeps DEF OtherRelaySteps, timeVars
<1> QED
  BY <1>1, <1>2, <1>3

\* ReplayInv is inductive, for any number of relays.
LEMMA ReplayInvStep == ReplayInv /\ [ReplayNext]_replayVars => ReplayInv'
<1> SUFFICES ASSUME ReplayInv, [ReplayNext]_replayVars
             PROVE  ReplayInv'
  OBVIOUS
<1>1. CASE StreamLost \/ ReplayStarts \/ ReplayFails
  <2>1. UNCHANGED <<outboxVars, timeVars>>
    BY <1>1 DEF StreamLost, ReplayStarts, ReplayFails, relayVars
  <2>2. BrokerTypeOK'
    <3>1. (stream' = << >> /\ window' = 1) \/ (stream' = stream /\ window' = window)
      BY <1>1 DEF StreamLost, ReplayStarts, ReplayFails, relayVars, brokerVars
    <3>2. << >> \in Seq(MsgId) /\ 1 \in Nat \ {0}
      OBVIOUS
    <3> QED
      BY <3>1, <3>2 DEF ReplayInv, BrokerTypeOK
  <2> QED
    BY <1>1, <2>1, <2>2, FreshCommand DEF StreamLost, ReplayStarts, ReplayFails
<1>2. CASE UNCHANGED replayVars
  <2>1. UNCHANGED <<outboxVars, brokerVars, timeVars, replay>>
    BY <1>2 DEF replayVars, relayVars
  <2>2. UNCHANGED <<clock, began, publishedAt, committedAt>>
    BY <2>1 DEF timeVars
  <2> QED
    BY <2>1, <2>2, RelaySideKeeps DEF ReplayInv, ReplayTypes
<1> QED
  BY <1>1, <1>2, TimedKeeps, ReadPageKeeps, RepublishKeeps DEF ReplayNext
-----------------------------------------------------------------------------
\* The inductive invariant holds of every behaviour of the replay and the relays
\* beside it.
THEOREM ReplayInvariant == ReplaySpec => []ReplayInv
<1> QED
  BY ReplayInvInit, ReplayInvStep, PTL DEF ReplaySpec

\* The rebuild is complete, whatever the page size, however many rows of one pass
\* share a published_at across a page, and whichever relays commit meanwhile
\* (replayOutbox: the key is (published_at, event_id), a short page ends it).
THEOREM RebuildIsComplete == ReplaySpec => []RebuildComplete
<1>1. ReplayInv => RebuildComplete
  BY DEF ReplayInv, Swept, Ahead, RebuildComplete
<1> QED
  BY <1>1, ReplayInvariant, PTL
-----------------------------------------------------------------------------
(* The order of the replay *)

LEMMA TimesKeep ==
  ASSUME ReplayInv, TimesInOrder, [ReplayNext]_replayVars
  PROVE  TimesInOrder'
<1>0. /\ clock \in Nat /\ began \in [Relays -> Nat]
      /\ publishedAt \in [Events -> Nat] /\ committedAt \in [Events -> Nat]
  BY DEF ReplayInv, ReplayTypes
<1>1. CASE UNCHANGED timeVars
  BY <1>1 DEF timeVars, TimesInOrder
<1>2. ASSUME NEW r \in Relays, TimedBegin(r)
      PROVE  TimesInOrder'
  BY <1>0, <1>2 DEF TimedBegin, TimesInOrder
<1>3. ASSUME NEW r \in Relays, TimedCommit(r)
      PROVE  TimesInOrder'
  BY <1>0, <1>3 DEF TimedCommit, TimesInOrder
<1> QED
  BY <1>1, <1>2, <1>3 DEF ReplayNext, OtherRelaySteps, StreamLost, ReplayStarts, ReadPage, ReplayFails,
                          RepublishRow, replayVars

\* The order of the replay, for any relays: a row committed before the pass of
\* another began is replayed before it.  Two relays whose passes overlap may be
\* replayed in either order (run replay_order), because published_at is the start
\* of the transaction (relay.ts: published_at = now()).
THEOREM ReplayReordersOnlyOverlaps == ReplaySpec => []OnlyOverlapsReorder
<1>1. ReplayInit => TimesInOrder
  BY DEF ReplayInit, TimesInOrder
<1>2. ReplayInv /\ TimesInOrder /\ [ReplayNext]_replayVars => TimesInOrder'
  BY TimesKeep
<1>3. ReplayInv /\ TimesInOrder => OnlyOverlapsReorder
  <2> SUFFICES ASSUME ReplayInv, TimesInOrder,
                      NEW i \in 1 .. Len(replay.sent), NEW j \in 1 .. Len(replay.sent), i < j
               PROVE  publishedAt[replay.sent[i]] <= committedAt[replay.sent[j]]
    BY DEF OnlyOverlapsReorder
  <2>1. /\ replay.sent[i] \in Events /\ replay.sent[j] \in Events
        /\ KeyLess(Key(replay.sent[i]), Key(replay.sent[j]))
    BY DEF ReplayInv, SentSorted, PublishedRows
  <2>2. /\ publishedAt[replay.sent[j]] \in Nat /\ publishedAt[replay.sent[i]] \in Nat
        /\ committedAt[replay.sent[j]] \in Nat
    BY <2>1 DEF ReplayInv, ReplayTypes
  <2>3. publishedAt[replay.sent[i]] <= publishedAt[replay.sent[j]]
    BY <2>1, <2>2 DEF KeyLess, Key
  <2> QED
    BY <2>1, <2>2, <2>3 DEF TimesInOrder
<1> QED
  BY <1>1, <1>2, <1>3, ReplayInvariant, PTL DEF ReplaySpec
=============================================================================
