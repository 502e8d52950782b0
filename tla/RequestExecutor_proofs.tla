----------------------- MODULE RequestExecutor_proofs -----------------------
(***************************************************************************)
(* Proofs about the request queue and its hosts, for every set of requests *)
(* and hosts and every choice of the durations that meets TimingBound.     *)
(*                                                                         *)
(* The two facts of interest, LiveRunIsHeld and OneRunPerCustomer, are not *)
(* inductive: that a live run is still held depends on how long ago its    *)
(* lease was granted, which the host only knows from below (it dates a     *)
(* renewal before sending it) and only while its clock runs.  ExecInv      *)
(* carries that knowledge through every phase of a host.                   *)
(***************************************************************************)
EXTENDS RequestExecutor, TLAPS

\* A customer has one running request at most (the partial unique index).
OneRunning ==
    \A q, r \in Requests :
        state[q] = "running" /\ state[r] = "running" /\ SlugOf[q] = SlugOf[r] => q = r

\* Nothing lives on a host that is between two runs.
Quiet ==
    \A h \in Hosts :
        pc[h] \in {"swept", "idle", "claiming", "verifying", "dispatch", "finishing"}
            => live[h] = {}

\* A claim that has not led to a run yet: as long as the host's clock allows a
\* start at all, the request is still its own and the lease no older than the
\* host believes.
Pending ==
    \A h \in Hosts :
        pc[h] \in {"verifying", "dispatch"} =>
            /\ cur[h] \in Requests
            /\ base[h] < Cap => Holds(h, cur[h]) /\ lease[cur[h]] <= base[h]
            /\ call[h] = "granted" /\ callAge[h] < Cap =>
                   Holds(h, cur[h]) /\ lease[cur[h]] <= callAge[h]

\* A supervised run: held, and its lease no older than the fence's clock says.
Supervised ==
    \A h \in Hosts :
        pc[h] \in {"running", "stopping"} =>
            /\ cur[h] \in Requests
            /\ live[h] \subseteq {cur[h]}
            /\ Holds(h, cur[h])
            /\ lease[cur[h]] <= base[h]
            /\ base[h] <= FenceSeconds + KillSeconds
            /\ callAge[h] <= base[h]
            /\ call[h] = "granted" => lease[cur[h]] <= callAge[h]

\* What a dead daemon left behind is still held, for a bounded time.
Orphaned ==
    \A h \in Hosts :
        pc[h] \in {"down", "boot"} =>
            \A r \in live[h] :
                Holds(h, r) /\ lease[r] <= FenceSeconds + KillSeconds + deadFor[h]

\* Only a host that waits for its handler, or for its first renewal, renews.
Calls ==
    \A h \in Hosts :
        /\ call[h] # "none" => pc[h] \in {"dispatch", "running"}
        /\ call[h] = "none" => callAge[h] = 0
        /\ pc[h] = "finishing" => cur[h] \in Requests /\ verdict[h] \in Final \cup {"aborted"}
        /\ pc[h] = "stopping" => verdict[h] \in Final \cup {"aborted"}

\* Every start is paid for by a claim.
Started ==
    /\ \A r \in Requests :
        /\ starts[r] <= Attempts
        /\ state[r] \in {"absent", "queued"} => starts[r] <= attempt[r] /\ attempt[r] < Attempts
        /\ state[r] = "running" => starts[r] <= attempt[r] + 1 /\ attempt[r] < Attempts
    /\ \A h \in Hosts :
        pc[h] \in {"verifying", "dispatch"} /\ Holds(h, cur[h]) => starts[cur[h]] <= attempt[cur[h]]

ExecInv ==
    /\ TypeOK
    /\ OneRunning
    /\ Quiet
    /\ Pending
    /\ Supervised
    /\ Orphaned
    /\ Calls
    /\ Started

----------------------------------------------------------------------------
USE RequestsAssumption, NoHostAssumption, DurationsAssumption, TimingBound
    DEF Holds, States, Phases, Verdicts, Final, Attempts, NoRequest, Cap, queue, daemon


\* requeue_own_requests runs on a host where nothing lives any more.
LEMMA RequeueOwnKeeps ==
  ASSUME ExecInv, NEW h \in Hosts, RequeueOwn(h)
  PROVE  ExecInv'
<1>1. \A r \in Requests :
        \/ UNCHANGED <<state[r], attempt[r], claimedBy[r], lease[r]>> /\ ~Holds(h, r)
        \/ /\ Holds(h, r) /\ attempt'[r] = attempt[r] + 1 /\ lease'[r] = 0
           /\ \/ attempt[r] + 1 < Attempts /\ state'[r] = "queued" /\ claimedBy'[r] = NoHost
              \/ attempt[r] + 1 >= Attempts /\ state'[r] = "dead" /\ claimedBy'[r] = claimedBy[r]
  BY DEF RequeueOwn, RequeuedState, RequeuedHolder, ExecInv, TypeOK
<1>2. /\ TypeOK' /\ OneRunning' /\ Quiet' /\ Pending' /\ Supervised' /\ Orphaned' /\ Calls'
  BY DEF RequeueOwn, RequeuedState, RequeuedHolder, ExecInv, OneRunning, Quiet, Pending, Supervised, Orphaned, Calls, Started, TypeOK
<1>3. Started'
  <2>1. ASSUME NEW r \in Requests
        PROVE /\ starts'[r] <= Attempts
              /\ state'[r] \in {"absent", "queued"} => starts'[r] <= attempt'[r] /\ attempt'[r] < Attempts
              /\ state'[r] = "running" => starts'[r] <= attempt'[r] + 1 /\ attempt'[r] < Attempts
    BY <1>1 DEF RequeueOwn, ExecInv, Started, TypeOK
  <2>2. ASSUME NEW g \in Hosts, pc'[g] \in {"verifying", "dispatch"}, Holds(g, cur[g])'
        PROVE starts'[cur'[g]] <= attempt'[cur'[g]]
    <3>1. g # h /\ pc[g] = pc'[g] /\ cur'[g] = cur[g] /\ starts' = starts /\ cur[g] \in Requests
      BY <2>2 DEF RequeueOwn, ExecInv, Pending, TypeOK
    <3>2. Holds(g, cur[g]) /\ attempt'[cur[g]] = attempt[cur[g]]
      BY <1>1, <2>2, <3>1
    <3> QED BY <2>2, <3>1, <3>2 DEF ExecInv, Started
  <2> QED BY <2>1, <2>2 DEF Started
<1> QED BY <1>2, <1>3 DEF ExecInv

\* A renewal only makes a lease younger, so it disturbs nobody's bound.
LEMMA DbRenewsKeeps ==
  ASSUME ExecInv, NEW h \in Hosts, DbRenews(h)
  PROVE  ExecInv'
<1>1. CASE Holds(h, cur[h]) /\ lease[cur[h]] <= LeaseSeconds
  <2>1. cur[h] \in Requests /\ pc[h] \in {"dispatch", "running"}
    BY DEF DbRenews, ExecInv, Calls, Pending, Supervised, TypeOK
  <2>2. /\ \A r \in Requests : lease'[r] <= lease[r]
        /\ lease'[cur[h]] = 0
        /\ call' = [call EXCEPT ![h] = "granted"]
        /\ lease' \in [Requests -> 0..Cap]
        /\ UNCHANGED <<state, attempt, claimedBy, age, pc, cur, base, callAge, verdict,
                       live, deadFor, crashes, starts>>
    BY <1>1, <2>1 DEF DbRenews, ExecInv, TypeOK
  <2>3. TypeOK' /\ OneRunning' /\ Quiet' /\ Calls' /\ Started'
    BY <2>1, <2>2 DEF ExecInv, OneRunning, Quiet, Pending, Supervised, Orphaned, Calls, Started, TypeOK
  <2>4. Pending'
    <3> SUFFICES ASSUME NEW g \in Hosts, pc[g] \in {"verifying", "dispatch"}
                 PROVE /\ cur[g] \in Requests
                       /\ base[g] < Cap => Holds(g, cur[g]) /\ lease'[cur[g]] <= base[g]
                       /\ call'[g] = "granted" /\ callAge[g] < Cap =>
                              Holds(g, cur[g]) /\ lease'[cur[g]] <= callAge[g]
      BY <2>2 DEF Pending
    <3>1. CASE g = h
      BY <1>1, <2>1, <2>2, <3>1 DEF ExecInv, Pending, TypeOK
    <3>2. CASE g # h
      <4>1. cur[g] \in Requests
        BY DEF ExecInv, Pending
      <4>2. call'[g] = call[g]
        BY <2>2, <3>2 DEF ExecInv, TypeOK
      <4>3. lease'[cur[g]] <= lease[cur[g]]
        BY <2>2, <4>1
      <4>4. lease'[cur[g]] \in Int /\ lease[cur[g]] \in Int
        <5>1. lease'[cur[g]] \in 0..Cap
          BY <2>2, <4>1
        <5>2. lease[cur[g]] \in 0..Cap
          BY <4>1 DEF ExecInv, TypeOK
        <5> QED BY <5>1, <5>2
      <4>5. base[g] \in Int /\ callAge[g] \in Int
        BY DEF ExecInv, TypeOK
      <4> QED BY <4>1, <4>2, <4>3, <4>4, <4>5 DEF ExecInv, Pending
    <3> QED BY <3>1, <3>2
  <2>5. Supervised'
    <3> SUFFICES ASSUME NEW g \in Hosts, pc[g] \in {"running", "stopping"}
                 PROVE /\ cur[g] \in Requests /\ live[g] \subseteq {cur[g]} /\ Holds(g, cur[g])
                       /\ lease'[cur[g]] <= base[g]
                       /\ base[g] <= FenceSeconds + KillSeconds /\ callAge[g] <= base[g]
                       /\ call'[g] = "granted" => lease'[cur[g]] <= callAge[g]
      BY <2>2 DEF Supervised
    <3>1. CASE g = h
      BY <1>1, <2>1, <2>2, <3>1 DEF ExecInv, Supervised, TypeOK
    <3>2. CASE g # h
      <4>1. cur[g] \in Requests
        BY DEF ExecInv, Supervised
      <4>2. call'[g] = call[g]
        BY <2>2, <3>2 DEF ExecInv, TypeOK
      <4>3. lease'[cur[g]] <= lease[cur[g]]
        BY <2>2, <4>1
      <4>4. lease'[cur[g]] \in Int /\ lease[cur[g]] \in Int
        <5>1. lease'[cur[g]] \in 0..Cap
          BY <2>2, <4>1
        <5>2. lease[cur[g]] \in 0..Cap
          BY <4>1 DEF ExecInv, TypeOK
        <5> QED BY <5>1, <5>2
      <4>5. base[g] \in Int /\ callAge[g] \in Int
        BY DEF ExecInv, TypeOK
      <4> QED BY <4>1, <4>2, <4>3, <4>4, <4>5 DEF ExecInv, Supervised
    <3> QED BY <3>1, <3>2
  <2>6. Orphaned'
    BY <2>2 DEF ExecInv, Orphaned, TypeOK
  <2> QED BY <2>3, <2>4, <2>5, <2>6 DEF ExecInv
<1>2. CASE ~(Holds(h, cur[h]) /\ lease[cur[h]] <= LeaseSeconds)
  BY <1>2 DEF DbRenews, ExecInv, OneRunning, Quiet, Pending, Supervised, Orphaned, Calls, Started, TypeOK
<1> QED BY <1>1, <1>2

\* A host that forgets a request on which nothing lives any more.
LEMMA ForgetKeeps ==
  ASSUME ExecInv, NEW h \in Hosts, NEW phase \in {"idle", "down"}, Leave(h, phase), live[h] = {},
         UNCHANGED <<queue, live, deadFor, starts>>, crashes' \in 0..MaxCrashes
  PROVE  ExecInv'
  BY DEF Leave, ExecInv, OneRunning, Quiet, Pending, Supervised, Orphaned, Calls, Started, TypeOK

\* The handler starts only when the lease is known to be younger than the fence.
LEMMA DispatchKeeps ==
  ASSUME ExecInv, NEW h \in Hosts, pc[h] = "dispatch", NEW since \in 0..Cap,
         since < FenceSeconds => Holds(h, cur[h]) /\ lease[cur[h]] <= since,
         Dispatch(h, since), UNCHANGED <<queue, deadFor, crashes>>
  PROVE  ExecInv'
<1>1. CASE since < FenceSeconds
  <2>1. /\ pc' = [pc EXCEPT ![h] = "running"]
        /\ base' = [base EXCEPT ![h] = since]
        /\ call' = [call EXCEPT ![h] = "none"]
        /\ callAge' = [callAge EXCEPT ![h] = 0]
        /\ live' = [live EXCEPT ![h] = {cur[h]}]
        /\ starts' = [starts EXCEPT ![cur[h]] = starts[cur[h]] + 1]
        /\ UNCHANGED <<cur, verdict, queue, deadFor, crashes>>
        /\ cur[h] \in Requests /\ Holds(h, cur[h]) /\ lease[cur[h]] <= since
        /\ starts[cur[h]] <= attempt[cur[h]] /\ attempt[cur[h]] < Attempts
        /\ since \in 0..Cap
    <3>1. cur[h] \in Requests /\ Holds(h, cur[h]) /\ lease[cur[h]] <= since
      BY <1>1 DEF ExecInv, Pending
    <3>2. starts[cur[h]] <= attempt[cur[h]] /\ attempt[cur[h]] < Attempts
      BY <3>1 DEF ExecInv, Started
    <3>3. live[h] = {}
      BY DEF ExecInv, Quiet
    <3> QED BY <1>1, <3>1, <3>2, <3>3 DEF Dispatch
  <2>2. TypeOK'
    <3>0. starts[cur[h]] \in Nat
      BY <2>1 DEF ExecInv, TypeOK
    <3>1. starts[cur[h]] + 1 \in Nat
      BY <3>0
    <3>2. starts' \in [Requests -> Nat]
      BY <2>1, <3>1 DEF ExecInv, TypeOK
    <3>3. live' \in [Hosts -> SUBSET Requests]
      BY <2>1 DEF ExecInv, TypeOK
    <3> QED BY <2>1, <3>2, <3>3 DEF ExecInv, TypeOK
  <2>3. OneRunning' /\ Quiet' /\ Pending' /\ Calls'
    BY <2>1 DEF ExecInv, OneRunning, Quiet, Pending, Supervised, Orphaned, Calls, Started, TypeOK
  <2>4. Supervised'
    BY <1>1, <2>1 DEF ExecInv, Supervised, TypeOK
  <2>5. Orphaned'
    <3>1. \A g \in Hosts : pc'[g] \in {"down", "boot"} => pc[g] = pc'[g] /\ live'[g] = live[g]
      BY <2>1 DEF ExecInv, TypeOK
    <3> QED BY <2>1, <3>1 DEF ExecInv, Orphaned
  <2>6. Started'
    <3>1. \A r \in Requests :
            starts'[r] = IF r = cur[h] THEN starts[r] + 1 ELSE starts[r]
      BY <2>1 DEF ExecInv, TypeOK
    <3>2. \A g \in Hosts : pc'[g] \in {"verifying", "dispatch"} /\ Holds(g, cur[g])' =>
            g # h /\ pc[g] = pc'[g] /\ Holds(g, cur[g]) /\ cur[g] # cur[h] /\ cur[g] \in Requests
      BY <2>1 DEF ExecInv, Pending, TypeOK
    <3>3. \A r \in Requests :
            /\ starts'[r] <= Attempts
            /\ state'[r] \in {"absent", "queued"} => starts'[r] <= attempt'[r] /\ attempt'[r] < Attempts
            /\ state'[r] = "running" => starts'[r] <= attempt'[r] + 1 /\ attempt'[r] < Attempts
      BY <2>1, <3>1 DEF ExecInv, Started, TypeOK
    <3>4. \A g \in Hosts :
            pc'[g] \in {"verifying", "dispatch"} /\ Holds(g, cur[g])' => starts'[cur'[g]] <= attempt'[cur'[g]]
      BY <2>1, <3>1, <3>2 DEF ExecInv, Started, TypeOK
    <3> QED BY <3>3, <3>4 DEF Started
  <2> QED BY <2>2, <2>3, <2>4, <2>5, <2>6 DEF ExecInv
<1>2. CASE ~(since < FenceSeconds)
  <2>1. Leave(h, "idle") /\ UNCHANGED <<queue, live, deadFor, starts>>
    BY <1>2 DEF Dispatch
  <2>2. live[h] = {} /\ crashes' \in 0..MaxCrashes
    BY DEF ExecInv, Quiet, TypeOK
  <2> QED BY <2>1, <2>2, ForgetKeeps
<1> QED BY <1>1, <1>2

\* The supervisor gives up waiting, for whatever reason.
LEMMA StopsKeeps ==
  ASSUME ExecInv, NEW h \in Hosts, HandlerReturns(h) \/ Aborts(h)
  PROVE  ExecInv'
<1>1. PICK v \in {"succeeded", "failed", "aborted"} : Stopping(h, v)
  BY DEF HandlerReturns, Aborts
<1> QED BY <1>1 DEF Stopping, ExecInv, OneRunning, Quiet, Pending, Supervised, Orphaned, Calls, Started, TypeOK

\* A finish that does not change the row, refused or lost.
LEMMA FinishFailsKeeps ==
  ASSUME ExecInv, NEW h \in Hosts, FinishRefused(h) \/ FinishLost(h)
  PROVE  ExecInv'
<1>1. PICK phase \in {"idle", "down"} : Leave(h, phase)
  BY DEF FinishRefused, FinishLost, AfterFinish
<1>2. /\ live[h] = {} /\ crashes' \in 0..MaxCrashes
      /\ UNCHANGED <<queue, live, deadFor, starts>>
  <2>1. live[h] = {}
    BY DEF FinishRefused, FinishLost, ExecInv, Quiet
  <2>2. crashes \in 0..MaxCrashes
    BY DEF ExecInv, TypeOK
  <2>3. CASE FinishRefused(h)
    BY <2>1, <2>2, <2>3 DEF FinishRefused
  <2>4. CASE FinishLost(h)
    BY <2>1, <2>2, <2>4 DEF FinishLost
  <2> QED BY <2>3, <2>4
<1> QED BY <1>1, <1>2, ForgetKeeps

\* A finish that is applied: the request is final, and nothing of it lives.
LEMMA FinishKeeps ==
  ASSUME ExecInv, NEW h \in Hosts, Finish(h)
  PROVE  ExecInv'
<1>1. PICK phase \in {"idle", "down"} : Leave(h, phase)
  BY DEF Finish, AfterFinish
<1>2. PICK s \in Final : state' = [state EXCEPT ![cur[h]] = s]
  BY DEF Finish, ExecInv, Calls
<1>3. /\ pc[h] = "finishing" /\ cur[h] \in Requests /\ live[h] = {} /\ Holds(h, cur[h])
      /\ lease' = [lease EXCEPT ![cur[h]] = 0]
      /\ UNCHANGED <<attempt, claimedBy, age, live, deadFor, crashes, starts>>
  BY DEF Finish, ExecInv, Calls, Quiet
<1>4. TypeOK' /\ OneRunning' /\ Quiet' /\ Calls'
  BY <1>1, <1>2, <1>3 DEF Leave, ExecInv, OneRunning, Quiet, Pending, Supervised, Orphaned, Calls, Started, TypeOK
<1>5. \A g \in Hosts : g # h => /\ UNCHANGED <<pc[g], cur[g], base[g], call[g], callAge[g], verdict[g], live[g]>>
                                /\ \A r \in Requests : Holds(g, r) => r # cur[h] /\ Holds(g, r)' /\ lease'[r] = lease[r]
  BY <1>1, <1>2, <1>3 DEF Leave, ExecInv, TypeOK
<1>6. Pending' /\ Supervised' /\ Orphaned' /\ Started'
  BY <1>1, <1>2, <1>3, <1>5 DEF Leave, ExecInv, OneRunning, Quiet, Pending, Supervised, Orphaned, Calls, Started, TypeOK
<1> QED BY <1>4, <1>6 DEF ExecInv

\* The renewal before the start was granted: it is dated when it was sent.
LEMMA DispatchRenewedKeeps ==
  ASSUME ExecInv, NEW h \in Hosts, DispatchRenewed(h)
  PROVE  ExecInv'
<1>1. callAge[h] \in 0..Cap
  BY DEF ExecInv, TypeOK
<1>2. callAge[h] < FenceSeconds => Holds(h, cur[h]) /\ lease[cur[h]] <= callAge[h]
  BY <1>1 DEF DispatchRenewed, ExecInv, Pending
<1>3. pc[h] = "dispatch" /\ Dispatch(h, callAge[h]) /\ UNCHANGED <<queue, deadFor, crashes>>
  BY DEF DispatchRenewed, RenewDate
<1> QED BY <1>1, <1>2, <1>3, DispatchKeeps

\* It was not answered: the fence counts from the claim.
LEMMA DispatchUnansweredKeeps ==
  ASSUME ExecInv, NEW h \in Hosts, DispatchUnanswered(h)
  PROVE  ExecInv'
<1>1. base[h] \in 0..Cap
  BY DEF ExecInv, TypeOK
<1>2. base[h] < FenceSeconds => Holds(h, cur[h]) /\ lease[cur[h]] <= base[h]
  BY <1>1 DEF DispatchUnanswered, ExecInv, Pending
<1>3. pc[h] = "dispatch" /\ Dispatch(h, base[h]) /\ UNCHANGED <<queue, deadFor, crashes>>
  BY DEF DispatchUnanswered
<1> QED BY <1>1, <1>2, <1>3, DispatchKeeps

----------------------------------------------------------------------------
(* The claim, which touches the rows of other hosts.                       *)

\* A row the claim leaves as it is.
Kept(r) ==
    /\ r \notin Lapsed
    /\ UNCHANGED <<attempt[r], claimedBy[r], lease[r]>>
    /\ state'[r] = state[r] \/ (state[r] = "queued" /\ state'[r] = "expired")
\* A row whose lease has lapsed and that is not picked.
Requeued(r) ==
    /\ state[r] = "running" /\ lease[r] > LeaseSeconds + GraceSeconds
    /\ attempt'[r] = attempt[r] + 1
    /\ lease'[r] = 0
    /\ claimedBy'[r] \in Hosts \cup {NoHost}
    /\ \/ attempt[r] + 1 < Attempts /\ state'[r] = "queued"
       \/ attempt[r] + 1 >= Attempts /\ state'[r] = "dead"
\* The row that is picked.
Taken(h, r) ==
    /\ state[r] = "running" => lease[r] > LeaseSeconds + GraceSeconds
    /\ state'[r] = "running" /\ claimedBy'[r] = h /\ lease'[r] = 0
    /\ attempt'[r] \in 0..2 /\ starts[r] <= attempt'[r]
    /\ \A o \in Requests : SlugOf[o] = SlugOf[r] /\ state'[o] = "running" => o = r

\* What a claim does to each row.
LEMMA ClaimRows ==
  ASSUME ExecInv, NEW h \in Hosts, NEW picked \in SUBSET Claimable,
         \A q, r \in picked : q = r, Tidied(h, picked)
  PROVE  \A r \in Requests :
             \/ r \in picked /\ Taken(h, r)
             \/ r \notin picked /\ (Kept(r) \/ Requeued(r))
<1> SUFFICES ASSUME NEW r \in Requests
             PROVE  \/ r \in picked /\ Taken(h, r)
                    \/ r \notin picked /\ (Kept(r) \/ Requeued(r))
  OBVIOUS
<1>1. /\ state[r] \in States /\ attempt[r] \in 0..Attempts /\ starts[r] \in Nat
      /\ claimedBy[r] \in Hosts \cup {NoHost} /\ lease[r] \in 0..Cap
      /\ state[r] \in {"absent", "queued"} => starts[r] <= attempt[r] /\ attempt[r] < Attempts
      /\ state[r] = "running" => starts[r] <= attempt[r] + 1 /\ attempt[r] < Attempts
  BY DEF ExecInv, TypeOK, Started
<1>2. /\ state'[r] = IF r \in picked THEN "running" ELSE TidiedState[r]
      /\ attempt'[r] = IF r \in Lapsed THEN attempt[r] + 1 ELSE attempt[r]
      /\ claimedBy'[r] = IF r \in picked THEN h
                         ELSE IF r \in Lapsed THEN RequeuedHolder(r) ELSE claimedBy[r]
      /\ lease'[r] = IF r \in picked \cup Lapsed THEN 0 ELSE lease[r]
  BY DEF Tidied
<1>3. TidiedState[r] = IF r \in Expired THEN "expired"
                       ELSE IF r \in Lapsed THEN RequeuedState(r) ELSE state[r]
  BY DEF TidiedState
<1>4. CASE r \notin picked /\ r \notin Lapsed
  BY <1>1, <1>2, <1>3, <1>4 DEF Kept, Expired
<1>5. CASE r \notin picked /\ r \in Lapsed
  BY <1>1, <1>2, <1>3, <1>5 DEF Requeued, Lapsed, Expired, RequeuedState, RequeuedHolder
<1>6. CASE r \in picked
  <2>1. TidiedState[r] = "queued"
        /\ \A o \in Requests : SlugOf[o] = SlugOf[r] => TidiedState[o] # "running"
    BY <1>6 DEF Claimable
  <2>2. \A o \in Requests : SlugOf[o] = SlugOf[r] /\ state'[o] = "running" => o = r
    <3> SUFFICES ASSUME NEW o \in Requests, SlugOf[o] = SlugOf[r], state'[o] = "running"
                 PROVE  o \in picked
      BY <1>6
    <3> QED BY <2>1 DEF Tidied
  <2>3. /\ state[r] = "running" => lease[r] > LeaseSeconds + GraceSeconds
        /\ attempt'[r] \in 0..2 /\ starts[r] <= attempt'[r]
    <3>1. CASE r \in Lapsed
      BY <1>1, <1>2, <1>3, <2>1, <3>1 DEF Lapsed, RequeuedState
    <3>2. CASE r \notin Lapsed
      BY <1>1, <1>2, <1>3, <2>1, <3>2 DEF Expired
    <3> QED BY <3>1, <3>2
  <2> QED BY <1>2, <1>6, <2>2, <2>3 DEF Taken
<1> QED BY <1>4, <1>5, <1>6

\* What the queue's own part of the invariant needs of a claim, and that a row
\* with a lease young enough to be somebody's live run is left alone.
LEMMA ClaimQueue ==
  ASSUME ExecInv, NEW h \in Hosts, NEW picked \in SUBSET Claimable,
         \A q, r \in picked : q = r, Tidied(h, picked)
  PROVE  /\ state' \in [Requests -> States]
         /\ attempt' \in [Requests -> 0..Attempts]
         /\ claimedBy' \in [Requests -> Hosts \cup {NoHost}]
         /\ lease' \in [Requests -> 0..Cap]
         /\ age' \in [Requests -> 0..(ExpireSeconds + 1)]
         /\ OneRunning'
         /\ \A r \in Requests :
              /\ state'[r] \in {"absent", "queued"} => starts[r] <= attempt'[r] /\ attempt'[r] < Attempts
              /\ state'[r] = "running" => starts[r] <= attempt'[r] + 1 /\ attempt'[r] < Attempts
         /\ \A g \in Hosts, r \in Requests :
              /\ Holds(g, r) /\ lease[r] <= LeaseSeconds + GraceSeconds =>
                     r \notin picked /\ Holds(g, r)' /\ lease'[r] = lease[r]
              /\ g # h /\ Holds(g, r)' => Holds(g, r) /\ attempt'[r] = attempt[r]
<1>1. \A r \in Requests :
        \/ r \in picked /\ Taken(h, r)
        \/ r \notin picked /\ (Kept(r) \/ Requeued(r))
  BY ClaimRows
<1>2. \A r \in Requests :
        /\ state[r] \in States /\ attempt[r] \in 0..Attempts /\ starts[r] \in Nat
        /\ claimedBy[r] \in Hosts \cup {NoHost} /\ lease[r] \in 0..Cap
        /\ state[r] \in {"absent", "queued"} => starts[r] <= attempt[r] /\ attempt[r] < Attempts
        /\ state[r] = "running" => starts[r] <= attempt[r] + 1 /\ attempt[r] < Attempts
  BY DEF ExecInv, TypeOK, Started
<1>3. \A r \in Requests :
        /\ state'[r] \in States /\ attempt'[r] \in 0..Attempts
        /\ claimedBy'[r] \in Hosts \cup {NoHost} /\ lease'[r] \in 0..Cap
        /\ state'[r] \in {"absent", "queued"} => starts[r] <= attempt'[r] /\ attempt'[r] < Attempts
        /\ state'[r] = "running" => starts[r] <= attempt'[r] + 1 /\ attempt'[r] < Attempts
  <2> SUFFICES ASSUME NEW r \in Requests
               PROVE  /\ state'[r] \in States /\ attempt'[r] \in 0..Attempts
                      /\ claimedBy'[r] \in Hosts \cup {NoHost} /\ lease'[r] \in 0..Cap
                      /\ state'[r] \in {"absent", "queued"} => starts[r] <= attempt'[r] /\ attempt'[r] < Attempts
                      /\ state'[r] = "running" => starts[r] <= attempt'[r] + 1 /\ attempt'[r] < Attempts
    OBVIOUS
  <2>1. CASE Taken(h, r)
    BY <1>2, <2>1 DEF Taken
  <2>2. CASE Kept(r)
    BY <1>2, <2>2 DEF Kept
  <2>3. CASE Requeued(r)
    BY <1>2, <2>3 DEF Requeued
  <2> QED BY <1>1, <2>1, <2>2, <2>3
<1>4. /\ state' \in [Requests -> States] /\ attempt' \in [Requests -> 0..Attempts]
      /\ claimedBy' \in [Requests -> Hosts \cup {NoHost}] /\ lease' \in [Requests -> 0..Cap]
  BY <1>3 DEF Tidied
<1>5. age' \in [Requests -> 0..(ExpireSeconds + 1)]
  BY DEF Tidied, ExecInv, TypeOK
<1>6. OneRunning'
  BY <1>1 DEF Taken, Kept, Requeued, ExecInv, OneRunning
<1>7. ASSUME NEW g \in Hosts, NEW r \in Requests, Holds(g, r), lease[r] <= LeaseSeconds + GraceSeconds
      PROVE  r \notin picked /\ Holds(g, r)' /\ lease'[r] = lease[r]
  <2>1. ~(lease[r] > LeaseSeconds + GraceSeconds) /\ state[r] = "running"
    <3>1. lease[r] \in Int
      BY <1>2
    <3> QED BY <1>7, <3>1
  <2>2. ~Taken(h, r) /\ ~Requeued(r)
    BY <2>1 DEF Taken, Requeued
  <2> QED BY <1>1, <1>7, <2>2 DEF Kept
<1>8. ASSUME NEW g \in Hosts, NEW r \in Requests, g # h, Holds(g, r)'
      PROVE  Holds(g, r) /\ attempt'[r] = attempt[r]
  BY <1>1, <1>8 DEF Taken, Kept, Requeued
<1> QED BY <1>3, <1>4, <1>5, <1>6, <1>7, <1>8

\* No claim touches a row on which something lives, or may soon: the other
\* hosts keep what they hold.
LEMMA ClaimOthers ==
  ASSUME ExecInv, NEW h \in Hosts, NEW picked \in SUBSET Claimable,
         \A q, r \in picked : q = r, Tidied(h, picked),
         NEW g \in Hosts, g # h,
         UNCHANGED <<pc[g], cur[g], base[g], call[g], callAge[g], live[g], deadFor[g]>>
  PROVE  /\ pc[g] \in {"verifying", "dispatch"} =>
              /\ cur[g] \in Requests
              /\ base[g] < Cap => Holds(g, cur[g])' /\ lease'[cur[g]] <= base[g]
              /\ call[g] = "granted" /\ callAge[g] < Cap =>
                     Holds(g, cur[g])' /\ lease'[cur[g]] <= callAge[g]
         /\ pc[g] \in {"running", "stopping"} =>
              /\ Holds(g, cur[g])' /\ lease'[cur[g]] = lease[cur[g]]
         /\ pc[g] \in {"down", "boot"} =>
              \A r \in live[g] : Holds(g, r)' /\ lease'[r] = lease[r]
<1>1. \A r \in Requests :
        Holds(g, r) /\ lease[r] <= LeaseSeconds + GraceSeconds => Holds(g, r)' /\ lease'[r] = lease[r]
  BY ClaimQueue
<1>2. /\ base[g] \in Int /\ callAge[g] \in Int
      /\ deadFor[g] \in Int /\ deadFor[g] <= RestartSeconds
      /\ \A r \in Requests : lease[r] \in Int
      /\ live[g] \subseteq Requests /\ cur[g] \in Requests \cup {NoRequest}
  BY DEF ExecInv, TypeOK
<1>3. ASSUME pc[g] \in {"verifying", "dispatch"}
      PROVE  /\ cur[g] \in Requests
             /\ base[g] < Cap => Holds(g, cur[g])' /\ lease'[cur[g]] <= base[g]
             /\ call[g] = "granted" /\ callAge[g] < Cap =>
                    Holds(g, cur[g])' /\ lease'[cur[g]] <= callAge[g]
  <2>1. /\ cur[g] \in Requests
        /\ base[g] < Cap => Holds(g, cur[g]) /\ lease[cur[g]] <= base[g]
        /\ call[g] = "granted" /\ callAge[g] < Cap => Holds(g, cur[g]) /\ lease[cur[g]] <= callAge[g]
    BY <1>3 DEF ExecInv, Pending
  <2>2. lease[cur[g]] \in Int
    BY <1>2, <2>1
  <2>3. /\ base[g] < Cap => lease[cur[g]] <= base[g] /\ lease[cur[g]] <= LeaseSeconds + GraceSeconds
        /\ call[g] = "granted" /\ callAge[g] < Cap =>
               lease[cur[g]] <= callAge[g] /\ lease[cur[g]] <= LeaseSeconds + GraceSeconds
    BY <1>2, <2>1, <2>2
  <2> QED BY <1>1, <2>1, <2>3
<1>4. ASSUME pc[g] \in {"running", "stopping"}
      PROVE  Holds(g, cur[g])' /\ lease'[cur[g]] = lease[cur[g]]
  <2>1. /\ cur[g] \in Requests /\ Holds(g, cur[g]) /\ lease[cur[g]] <= base[g]
        /\ base[g] <= FenceSeconds + KillSeconds
    BY <1>4 DEF ExecInv, Supervised
  <2>2. lease[cur[g]] <= LeaseSeconds + GraceSeconds
    <3>1. lease[cur[g]] \in Int /\ base[g] \in Int
      BY <1>2, <2>1
    <3> QED BY <2>1, <3>1
  <2> QED BY <1>1, <2>1, <2>2
<1>5. ASSUME pc[g] \in {"down", "boot"}, NEW r \in live[g]
      PROVE  Holds(g, r)' /\ lease'[r] = lease[r]
  <2>1. Holds(g, r) /\ lease[r] <= FenceSeconds + KillSeconds + deadFor[g] /\ r \in Requests
    BY <1>2, <1>5 DEF ExecInv, Orphaned
  <2>2. lease[r] <= LeaseSeconds + GraceSeconds
    <3>1. lease[r] \in Int /\ deadFor[g] \in Int /\ deadFor[g] <= RestartSeconds
      BY <1>2, <2>1
    <3> QED BY <2>1, <3>1
  <2> QED BY <1>1, <2>1, <2>2
<1> QED BY <1>3, <1>4, <1>5

\* A claim after which the host knows of no request: there was none, or the
\* answer was lost with the daemon.
LEMMA ClaimForgetsKeeps ==
  ASSUME ExecInv, NEW h \in Hosts, pc[h] = "claiming", NEW picked \in SUBSET Claimable,
         \A q, r \in picked : q = r, Tidied(h, picked),
         NEW phase \in {"idle", "down"}, Leave(h, phase),
         UNCHANGED <<live, deadFor, starts>>, crashes' \in 0..MaxCrashes
  PROVE  ExecInv'
<1>1. /\ live[h] = {}
      /\ pc'[h] = phase /\ cur'[h] = NoRequest /\ base'[h] = 0 /\ call'[h] = "none"
      /\ callAge'[h] = 0 /\ verdict'[h] = "none"
      /\ \A g \in Hosts \ {h} :
            UNCHANGED <<pc[g], cur[g], base[g], call[g], callAge[g], verdict[g], live[g], deadFor[g]>>
  BY DEF Leave, ExecInv, Quiet, TypeOK
<1>2. TypeOK'
  BY ClaimQueue DEF Leave, ExecInv, TypeOK
<1>3. OneRunning'
  BY ClaimQueue
<1>4. Quiet' /\ Calls'
  BY <1>1 DEF ExecInv, Quiet, Calls
<1>5. Pending' /\ Supervised' /\ Orphaned'
  BY <1>1, ClaimOthers DEF ExecInv, Pending, Supervised, Orphaned
<1>6. Started'
  BY <1>1, ClaimQueue DEF ExecInv, Started, Pending
<1> QED BY <1>2, <1>3, <1>4, <1>5, <1>6 DEF ExecInv

\* A claim that hands its request to the host.
LEMMA ClaimKeeps ==
  ASSUME ExecInv, NEW h \in Hosts, NEW r \in Requests, Claim(h, r)
  PROVE  ExecInv'
<1>0. /\ {r} \in SUBSET Claimable /\ \A p, q \in {r} : p = q
      /\ Tidied(h, {r})
  BY DEF Claim
<1>1. /\ live[h] = {} /\ call[h] = "none" /\ callAge[h] = 0 /\ base[h] \in 0..Cap
      /\ pc'[h] = "verifying" /\ cur'[h] = r
      /\ \A g \in Hosts \ {h} : UNCHANGED <<pc[g], cur[g]>>
      /\ UNCHANGED <<base, call, callAge, verdict, live, deadFor, crashes, starts>>
  BY DEF Claim, ExecInv, Quiet, Calls, TypeOK
<1>2. TypeOK'
  BY <1>0, <1>1, ClaimQueue DEF Claim, ExecInv, TypeOK
<1>3. OneRunning'
  BY <1>0, ClaimQueue
<1>4. Quiet' /\ Calls'
  BY <1>1 DEF ExecInv, Quiet, Calls
<1>5. Taken(h, r)
  BY <1>0, ClaimRows
<1>6. Pending'
  BY <1>0, <1>1, <1>5, ClaimOthers DEF Taken, ExecInv, Pending
<1>7. Supervised' /\ Orphaned'
  BY <1>0, <1>1, ClaimOthers DEF ExecInv, Supervised, Orphaned
<1>8. Started'
  <2>1. \A q \in Requests :
          /\ starts'[q] <= Attempts
          /\ state'[q] \in {"absent", "queued"} => starts'[q] <= attempt'[q] /\ attempt'[q] < Attempts
          /\ state'[q] = "running" => starts'[q] <= attempt'[q] + 1 /\ attempt'[q] < Attempts
    BY <1>0, <1>1, ClaimQueue DEF ExecInv, Started
  <2>2. ASSUME NEW g \in Hosts, pc'[g] \in {"verifying", "dispatch"}, Holds(g, cur[g])'
        PROVE  starts'[cur'[g]] <= attempt'[cur'[g]]
    <3>1. CASE g = h
      BY <1>1, <1>5, <3>1 DEF Taken
    <3>2. CASE g # h
      <4>1. pc'[g] = pc[g] /\ cur'[g] = cur[g] /\ cur[g] \in Requests
        BY <1>1, <2>2, <3>2 DEF ExecInv, Pending
      <4>2. \A q \in Requests : Holds(g, q)' => Holds(g, q) /\ attempt'[q] = attempt[q]
        BY <1>0, <3>2, ClaimQueue
      <4>3. Holds(g, cur[g]) /\ attempt'[cur[g]] = attempt[cur[g]]
        BY <2>2, <4>1, <4>2
      <4> QED BY <1>1, <2>2, <4>1, <4>3 DEF ExecInv, Started
    <3> QED BY <3>1, <3>2
  <2> QED BY <2>1, <2>2 DEF Started
<1> QED BY <1>2, <1>3, <1>4, <1>6, <1>7, <1>8 DEF ExecInv

\* A claim that finds nothing.
LEMMA ClaimNothingKeeps ==
  ASSUME ExecInv, NEW h \in Hosts, ClaimNothing(h)
  PROVE  ExecInv'
<1>1. crashes' \in 0..MaxCrashes
  BY DEF ClaimNothing, ExecInv, TypeOK
<1>2. /\ pc[h] = "claiming" /\ {} \in SUBSET Claimable /\ \A q, r \in {} : q = r
      /\ Tidied(h, {}) /\ Leave(h, "idle") /\ UNCHANGED <<live, deadFor, starts>>
  BY DEF ClaimNothing
<1> QED BY <1>1, <1>2, ClaimForgetsKeeps

\* A claim whose answer is lost.
LEMMA ClaimUnansweredKeeps ==
  ASSUME ExecInv, NEW h \in Hosts, NEW r \in Requests, ClaimUnanswered(h, r)
  PROVE  ExecInv'
<1>1. crashes' \in 0..MaxCrashes
  <2>1. crashes \in 0..MaxCrashes
    BY DEF ExecInv, TypeOK
  <2> QED BY <2>1 DEF ClaimUnanswered
<1>2. /\ pc[h] = "claiming" /\ {r} \in SUBSET Claimable /\ \A p, q \in {r} : p = q
      /\ Tidied(h, {r}) /\ Leave(h, "down") /\ UNCHANGED <<live, deadFor, starts>>
  BY DEF ClaimUnanswered
<1> QED BY <1>1, <1>2, ClaimForgetsKeeps

----------------------------------------------------------------------------
(* The clock.                                                              *)

\* Everything ages by one second at most, and what counts towards a deadline
\* by exactly one.
LEMMA TickKeeps ==
  ASSUME ExecInv, Tick
  PROVE  ExecInv'
<1>1. /\ \A r \in Requests : lease[r] \in 0..Cap /\ age[r] \in 0..(ExpireSeconds + 1)
      /\ \A h \in Hosts : base[h] \in 0..Cap /\ callAge[h] \in 0..Cap /\ deadFor[h] \in 0..RestartSeconds
  BY DEF ExecInv, TypeOK
<1>2. \A r \in Requests : lease'[r] \in 0..Cap /\ lease'[r] <= lease[r] + 1
  BY <1>1 DEF Tick, Older
<1>3. \A r \in Requests : age'[r] \in 0..(ExpireSeconds + 1)
  BY <1>1 DEF Tick, Older
<1>4. \A h \in Hosts :
        /\ base'[h] \in 0..Cap
        /\ pc[h] \in {"verifying", "dispatch", "running", "stopping"} =>
               base'[h] = IF base[h] < Cap THEN base[h] + 1 ELSE base[h]
  BY <1>1 DEF Tick, Older
<1>5. \A h \in Hosts :
        /\ callAge'[h] \in 0..Cap
        /\ call[h] = "none" => callAge'[h] = callAge[h]
        /\ call[h] # "none" => callAge'[h] = IF callAge[h] < Cap THEN callAge[h] + 1 ELSE callAge[h]
  BY <1>1 DEF Tick, Older
<1>6. \A h \in Hosts :
        /\ deadFor'[h] \in 0..RestartSeconds
        /\ pc[h] \in {"down", "boot"} /\ live[h] # {} => deadFor'[h] = deadFor[h] + 1
  BY <1>1 DEF Tick, InTime
<1>7. /\ UNCHANGED <<state, attempt, claimedBy, pc, cur, call, verdict, live, crashes, starts>>
      /\ \A h \in Hosts : pc[h] \in {"running", "stopping"} => base[h] < FenceSeconds + KillSeconds
  BY DEF Tick, InTime
<1>8. TypeOK'
  <2>1. /\ lease' \in [Requests -> 0..Cap] /\ age' \in [Requests -> 0..(ExpireSeconds + 1)]
        /\ base' \in [Hosts -> 0..Cap] /\ callAge' \in [Hosts -> 0..Cap]
        /\ deadFor' \in [Hosts -> 0..RestartSeconds]
    BY <1>2, <1>3, <1>4, <1>5, <1>6 DEF Tick
  <2> QED BY <1>7, <2>1 DEF ExecInv, TypeOK
<1>9. OneRunning' /\ Quiet' /\ Started'
  BY <1>7 DEF ExecInv, OneRunning, Quiet, Started
<1>10. Calls'
  BY <1>5, <1>7 DEF ExecInv, Calls
<1>11. Pending'
  <2> SUFFICES ASSUME NEW h \in Hosts, pc[h] \in {"verifying", "dispatch"}
               PROVE  /\ cur[h] \in Requests
                      /\ base'[h] < Cap => Holds(h, cur[h]) /\ lease'[cur[h]] <= base'[h]
                      /\ call[h] = "granted" /\ callAge'[h] < Cap =>
                             Holds(h, cur[h]) /\ lease'[cur[h]] <= callAge'[h]
    BY <1>7 DEF Pending
  <2>1. /\ cur[h] \in Requests
        /\ base[h] < Cap => Holds(h, cur[h]) /\ lease[cur[h]] <= base[h]
        /\ call[h] = "granted" /\ callAge[h] < Cap => Holds(h, cur[h]) /\ lease[cur[h]] <= callAge[h]
    BY DEF ExecInv, Pending
  <2>2. /\ lease[cur[h]] \in Int /\ lease'[cur[h]] \in Int /\ lease'[cur[h]] <= lease[cur[h]] + 1
        /\ base[h] \in Int /\ callAge[h] \in Int
    <3>1. /\ lease[cur[h]] \in 0..Cap /\ lease'[cur[h]] \in 0..Cap
          /\ lease'[cur[h]] <= lease[cur[h]] + 1
          /\ base[h] \in 0..Cap /\ callAge[h] \in 0..Cap
      BY <1>1, <1>2, <2>1
    <3> QED BY <3>1
  <2> QED BY <1>4, <1>5, <2>1, <2>2
<1>12. Supervised'
  <2> SUFFICES ASSUME NEW h \in Hosts, pc[h] \in {"running", "stopping"}
               PROVE  /\ cur[h] \in Requests /\ live[h] \subseteq {cur[h]} /\ Holds(h, cur[h])
                      /\ lease'[cur[h]] <= base'[h]
                      /\ base'[h] <= FenceSeconds + KillSeconds /\ callAge'[h] <= base'[h]
                      /\ call[h] = "granted" => lease'[cur[h]] <= callAge'[h]
    BY <1>7 DEF Supervised
  <2>1. /\ cur[h] \in Requests /\ live[h] \subseteq {cur[h]} /\ Holds(h, cur[h])
        /\ lease[cur[h]] <= base[h] /\ callAge[h] <= base[h]
        /\ call[h] = "granted" => lease[cur[h]] <= callAge[h]
    BY DEF ExecInv, Supervised
  <2>2. /\ lease[cur[h]] \in Int /\ lease'[cur[h]] \in Int /\ lease'[cur[h]] <= lease[cur[h]] + 1
        /\ base[h] \in Int /\ callAge[h] \in Int
    <3>1. /\ lease[cur[h]] \in 0..Cap /\ lease'[cur[h]] \in 0..Cap
          /\ lease'[cur[h]] <= lease[cur[h]] + 1
          /\ base[h] \in 0..Cap /\ callAge[h] \in 0..Cap
      BY <1>1, <1>2, <2>1
    <3> QED BY <3>1
  <2>3. base[h] < FenceSeconds + KillSeconds /\ base[h] < Cap /\ callAge[h] < Cap
    BY <1>7, <2>1, <2>2
  <2>4. base'[h] = base[h] + 1
    BY <1>4, <2>3
  <2>5. /\ callAge'[h] = callAge[h] \/ callAge'[h] = callAge[h] + 1
        /\ call[h] = "granted" => callAge'[h] = callAge[h] + 1
    BY <1>5, <2>3
  <2> QED BY <2>1, <2>2, <2>3, <2>4, <2>5
<1>13. Orphaned'
  <2> SUFFICES ASSUME NEW h \in Hosts, pc[h] \in {"down", "boot"}, NEW r \in live[h]
               PROVE  Holds(h, r) /\ lease'[r] <= FenceSeconds + KillSeconds + deadFor'[h]
    BY <1>7 DEF Orphaned
  <2>1. Holds(h, r) /\ lease[r] <= FenceSeconds + KillSeconds + deadFor[h] /\ r \in Requests
    BY DEF ExecInv, Orphaned, TypeOK
  <2>2. /\ lease[r] \in Int /\ lease'[r] \in Int /\ lease'[r] <= lease[r] + 1 /\ deadFor[h] \in Int
    BY <1>1, <1>2, <2>1
  <2>3. deadFor'[h] = deadFor[h] + 1
    BY <1>6
  <2> QED BY <2>1, <2>2, <2>3
<1> QED BY <1>8, <1>9, <1>10, <1>11, <1>12, <1>13 DEF ExecInv

\* Nothing is queued, claimed or alive when the platform is installed.
LEMMA ExecInvInit ==
  ASSUME Init
  PROVE  ExecInv
  BY DEF Init, ExecInv, OneRunning, Quiet, Pending, Supervised, Orphaned, Calls, Started, TypeOK

\* A new request is nobody's yet.
LEMMA SubmitKeeps ==
  ASSUME ExecInv, NEW r \in Requests, Submit(r)
  PROVE  ExecInv'
  BY DEF Submit, ExecInv, OneRunning, Quiet, Pending, Supervised, Orphaned, Calls, Started, TypeOK

----------------------------------------------------------------------------
(* Every step, and the theorems.                                           *)

\* One step of a host.
LEMMA HostStepKeeps ==
  ASSUME ExecInv, NEW h \in Hosts, HostStep(h)
  PROVE  ExecInv'
<1>1. CASE Boot(h)
  BY <1>1 DEF Boot, ExecInv, OneRunning, Quiet, Pending, Supervised, Orphaned, Calls, Started, TypeOK
<1>2. CASE Sweep(h)
  BY <1>2 DEF Sweep, ExecInv, OneRunning, Quiet, Pending, Supervised, Orphaned, Calls, Started, TypeOK
<1>3. CASE RequeueOwn(h)
  BY <1>3, RequeueOwnKeeps
<1>4. CASE StartClaim(h)
  BY <1>4 DEF StartClaim, ExecInv, OneRunning, Quiet, Pending, Supervised, Orphaned, Calls, Started, TypeOK
<1>5. CASE ClaimNothing(h)
  BY <1>5, ClaimNothingKeeps
<1>6. CASE \E r \in Requests : Claim(h, r)
  BY <1>6, ClaimKeeps
<1>7. CASE VerifyOk(h)
  BY <1>7 DEF VerifyOk, ExecInv, OneRunning, Quiet, Pending, Supervised, Orphaned, Calls, Started, TypeOK
<1>8. CASE VerifyStops(h)
  BY <1>8 DEF VerifyStops, ExecInv, OneRunning, Quiet, Pending, Supervised, Orphaned, Calls, Started, TypeOK
<1>9. CASE StartRenew(h)
  BY <1>9 DEF StartRenew, ExecInv, OneRunning, Quiet, Pending, Supervised, Orphaned, Calls, Started, TypeOK
<1>10. CASE DbRenews(h)
  BY <1>10, DbRenewsKeeps
<1>11. CASE DispatchRenewed(h)
  BY <1>11, DispatchRenewedKeeps
<1>12. CASE DispatchRefused(h)
  BY <1>12 DEF DispatchRefused, Leave, ExecInv, OneRunning, Quiet, Pending, Supervised, Orphaned, Calls, Started, TypeOK
<1>13. CASE DispatchUnanswered(h)
  BY <1>13, DispatchUnansweredKeeps
<1>14. CASE Renewed(h)
  BY <1>14 DEF Renewed, RenewDate, ExecInv, OneRunning, Quiet, Pending, Supervised, Orphaned, Calls, Started, TypeOK
<1>15. CASE RenewUnanswered(h)
  BY <1>15 DEF RenewUnanswered, ExecInv, OneRunning, Quiet, Pending, Supervised, Orphaned, Calls, Started, TypeOK
<1>16. CASE HandlerReturns(h) \/ Aborts(h)
  BY <1>16, StopsKeeps
<1>17. CASE Stopped(h)
  BY <1>17 DEF Stopped, ExecInv, OneRunning, Quiet, Pending, Supervised, Orphaned, Calls, Started, TypeOK
<1>18. CASE Finish(h)
  BY <1>18, FinishKeeps
<1>19. CASE FinishRefused(h)
  BY <1>19, FinishFailsKeeps
<1>20. CASE DeadMan(h)
  BY <1>20 DEF DeadMan, ExecInv, OneRunning, Quiet, Pending, Supervised, Orphaned, Calls, Started, TypeOK
<1> QED
  BY <1>1, <1>2, <1>3, <1>4, <1>5, <1>6, <1>7, <1>8, <1>9, <1>10, <1>11, <1>12, <1>13,
     <1>14, <1>15, <1>16, <1>17, <1>18, <1>19, <1>20 DEF HostStep

\* One fault of a host.
LEMMA HostFaultKeeps ==
  ASSUME ExecInv, NEW h \in Hosts, HostFault(h)
  PROVE  ExecInv'
<1>1. CASE \E r \in Requests : ClaimUnanswered(h, r)
  BY <1>1, ClaimUnansweredKeeps
<1>2. CASE StopUnconfirmed(h)
  BY <1>2 DEF StopUnconfirmed, Leave, ExecInv, OneRunning, Quiet, Pending, Supervised, Orphaned, Calls, Started, TypeOK
<1>3. CASE FinishLost(h)
  BY <1>3, FinishFailsKeeps
<1>4. CASE Dies(h)
  BY <1>4 DEF Dies, Leave, ExecInv, OneRunning, Quiet, Pending, Supervised, Orphaned, Calls, Started, TypeOK
<1>5. CASE Signalled(h)
  BY <1>5 DEF Signalled, Leave, ExecInv, OneRunning, Quiet, Pending, Supervised, Orphaned, Calls, Started, TypeOK
<1> QED BY <1>1, <1>2, <1>3, <1>4, <1>5 DEF HostFault

\* ExecInv is an invariant of every execution: no interleaving of hosts,
\* crashes, lost answers and the clock breaks it.
THEOREM ExecInvariant == Spec => []ExecInv
<1>1. Init => ExecInv
  BY ExecInvInit
<1>2. ExecInv /\ [Next]_vars => ExecInv'
  <2> SUFFICES ASSUME ExecInv, [Next]_vars
               PROVE  ExecInv'
    OBVIOUS
  <2>1. CASE \E r \in Requests : Submit(r)
    BY <2>1, SubmitKeeps
  <2>2. CASE \E h \in Hosts : HostStep(h) \/ HostFault(h)
    BY <2>2, HostStepKeeps, HostFaultKeeps
  <2>3. CASE Tick
    BY <2>3, TickKeeps
  <2>4. CASE UNCHANGED vars
    BY <2>4 DEF vars, ExecInv, OneRunning, Quiet, Pending, Supervised, Orphaned, Calls, Started, TypeOK
  <2> QED BY <2>1, <2>2, <2>3, <2>4 DEF Next
<1> QED BY <1>1, <1>2, PTL DEF Spec

\* The queue's rows and the daemons' state keep their types; in particular no
\* attempt counter passes three and no age its cap.
THEOREM TypeCorrect == Spec => []TypeOK
<1>1. ExecInv => TypeOK
  BY DEF ExecInv
<1> QED BY <1>1, ExecInvariant, PTL

\* The queue never disowns a live run (the lease, its grace period, the fence,
\* the sweep and the dead-man switch of gremion-executor together).
THEOREM RunIsHeld == Spec => []LiveRunIsHeld
<1>1. ExecInv => LiveRunIsHeld
  <2> SUFFICES ASSUME ExecInv, NEW h \in Hosts, NEW r \in live[h]
               PROVE  Holds(h, r)
    BY DEF LiveRunIsHeld
  <2>1. pc[h] \in Phases
    BY DEF ExecInv, TypeOK
  <2>2. pc[h] \in {"down", "boot", "running", "stopping"}
    BY <2>1 DEF ExecInv, Quiet
  <2> QED BY <2>2 DEF ExecInv, Supervised, Orphaned
<1> QED BY <1>1, ExecInvariant, PTL

\* Two live runs of one customer are the same run: both are held, a customer
\* has one running request, and a request has one holder.
THEOREM OneRun == Spec => []OneRunPerCustomer
<1>1. ExecInv /\ LiveRunIsHeld => OneRunPerCustomer
  BY DEF ExecInv, OneRunning, LiveRunIsHeld, OneRunPerCustomer, TypeOK
<1> QED BY <1>1, ExecInvariant, RunIsHeld, PTL

\* A handler is started three times at most for one request.
THEOREM ThreeStarts == Spec => []ThreeStartsAtMost
<1>1. ExecInv => ThreeStartsAtMost
  BY DEF ExecInv, Started, ThreeStartsAtMost
<1> QED BY <1>1, ExecInvariant, PTL

============================================================================
