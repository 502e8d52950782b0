-------------------------- MODULE RequestExecutor --------------------------
(***************************************************************************)
(* The operator request queue of gremion_platform (the SQL functions of    *)
(* platform migrations 0009, 0010, 0011 and 0014) and the host daemon that *)
(* works it off (infra/host/bin/gremion-executor --loop).                  *)
(*                                                                         *)
(* A host claims a request under a lease, verifies it, and runs its        *)
(* handler; a renewer renews the lease meanwhile.  A host that cannot      *)
(* renew fences itself: it kills the handler and its containers before     *)
(* the database gives the request to somebody else.  Containers outlive    *)
(* the process that started them, so a killed daemon leaves them behind    *)
(* until its dead-man switch or the sweep of the next start kills them.    *)
(*                                                                         *)
(* Time is kept as ages ("now minus a timestamp"), each capped where no    *)
(* comparison tells larger values apart, and 0 while nothing reads it.     *)
(* The database clock and the monotonic clocks of the hosts are taken to   *)
(* advance at the same rate.                                               *)
(***************************************************************************)
EXTENDS Integers, FiniteSets

CONSTANTS
    Requests,       \* request ids; uuidv7, so in the order of submission
    Hosts,          \* host ids, one --loop daemon each (executor.lock)
    NoHost,         \* claimed_by IS NULL
    SlugOf,         \* request -> customer_slug
    Council,        \* the requests submitted by submit_council_module_request
    LeaseSeconds,   \* LEASE_SECONDS
    GraceSeconds,   \* the "60 seconds" of claim_provisioning_request
    FenceSeconds,   \* FENCE_SECONDS
    KillSeconds,    \* from the fence to "handler and containers confirmed gone"
    RestartSeconds, \* from the death of a daemon to the end of its successor's sweep
    ExpireSeconds,  \* the "30 minutes" after which a queued request expires
    MaxCrashes      \* bound on the daemon deaths and lost calls explored

\* A request id is a positive number, so that NoRequest is none.
ASSUME RequestsAssumption == Requests \subseteq Nat \ {0}
ASSUME NoHostAssumption == NoHost \notin Hosts
ASSUME DurationsAssumption ==
    /\ LeaseSeconds \in Nat /\ GraceSeconds \in Nat /\ FenceSeconds \in Nat
    /\ KillSeconds \in Nat /\ RestartSeconds \in Nat /\ ExpireSeconds \in Nat
    /\ MaxCrashes \in Nat
\* The timing bound in the header of gremion-executor, with the restart of a
\* killed daemon added to it.
ASSUME TimingBound ==
    FenceSeconds + KillSeconds + RestartSeconds <= LeaseSeconds + GraceSeconds

NoRequest == 0
Attempts == 3
Final == {"succeeded", "failed", "refused", "expired", "dead"}

VARIABLES
    state,      \* provisioning_request.state; "absent" before its INSERT
    attempt,    \* provisioning_request.attempt
    claimedBy,  \* provisioning_request.claimed_by
    lease,      \* while running: now() - (lease_until - LeaseSeconds)
    age,        \* now() - created_at, while the request waits in the queue
    pc,         \* where the daemon of a host is
    cur,        \* RUN_ID: the request it works on
    base,       \* MONO - (start of the last successful renewal, or of the claim)
    call,       \* the renewal under way: none, sent, granted or refused
    callAge,    \* MONO - (start of that renewal)
    verdict,    \* what finish will be called with
    live,       \* requests with a live handler process or container on a host
    deadFor,    \* seconds since the daemon died leaving something alive
    crashes,    \* daemon deaths and lost calls so far
    starts      \* history: how often the handler of a request was started

queue == <<state, attempt, claimedBy, lease, age>>
daemon == <<pc, cur, base, call, callAge, verdict>>
vars == <<state, attempt, claimedBy, lease, age, pc, cur, base, call, callAge,
          verdict, live, deadFor, crashes, starts>>

Cap == LeaseSeconds + GraceSeconds + 1
Older(n, cap) == IF n < cap THEN n + 1 ELSE n

States == Final \cup {"absent", "queued", "running"}
Phases == {"down", "boot", "swept", "idle", "claiming", "verifying",
           "dispatch", "running", "stopping", "finishing"}
Verdicts == {"none", "succeeded", "failed", "refused", "aborted"}

Init ==
    /\ state = [r \in Requests |-> "absent"]
    /\ attempt = [r \in Requests |-> 0]
    /\ claimedBy = [r \in Requests |-> NoHost]
    /\ lease = [r \in Requests |-> 0]
    /\ age = [r \in Requests |-> 0]
    /\ pc = [h \in Hosts |-> "down"]
    /\ cur = [h \in Hosts |-> NoRequest]
    /\ base = [h \in Hosts |-> 0]
    /\ call = [h \in Hosts |-> "none"]
    /\ callAge = [h \in Hosts |-> 0]
    /\ verdict = [h \in Hosts |-> "none"]
    /\ live = [h \in Hosts |-> {}]
    /\ deadFor = [h \in Hosts |-> 0]
    /\ crashes = 0
    /\ starts = [r \in Requests |-> 0]

----------------------------------------------------------------------------
(* The queue: one operator per SQL function.  Each function is a           *)
(* transaction; SKIP LOCKED and the partial unique index on running rows   *)
(* make concurrent ones equivalent to some order of them.                  *)

InFlight(slug) ==
    \E q \in Requests :
        /\ SlugOf[q] = slug
        /\ \/ state[q] = "running"
           \/ state[q] = "queued" /\ (attempt[q] > 0 \/ age[q] <= ExpireSeconds)

\* submit_provisioning_request, and submit_council_module_request, which also
\* refuses a customer that has a request in flight.
Submit(r) ==
    /\ state[r] = "absent"
    /\ \A q \in Requests : q < r => state[q] # "absent"
    /\ r \in Council => ~InFlight(SlugOf[r])
    /\ state' = [state EXCEPT ![r] = "queued"]
    /\ UNCHANGED <<attempt, claimedBy, lease, age, daemon, live, deadFor, crashes, starts>>

Expired == {r \in Requests : state[r] = "queued" /\ attempt[r] = 0 /\ age[r] > ExpireSeconds}

\* Fault: a lapsed lease is re-queued at once (migration 0010's condition).
LapsedAtOnce == {r \in Requests : state[r] = "running" /\ lease[r] > LeaseSeconds}
\* Fault: nobody re-queues what a host left running.
LapsedNever == {}
Lapsed == {r \in Requests : state[r] = "running" /\ lease[r] > LeaseSeconds + GraceSeconds}

\* Fault: one attempt too many before a request is dead.
RequeuedStateLate(r) == IF attempt[r] + 1 > Attempts THEN "dead" ELSE "queued"
\* provisioning_requeue: back to the queue, dead the third time.
RequeuedState(r) == IF attempt[r] + 1 >= Attempts THEN "dead" ELSE "queued"
RequeuedHolder(r) == IF attempt[r] + 1 >= Attempts THEN claimedBy[r] ELSE NoHost

\* The states after claim_provisioning_request has expired and re-queued.
TidiedState ==
    [r \in Requests |-> IF r \in Expired THEN "expired"
                        ELSE IF r \in Lapsed THEN RequeuedState(r) ELSE state[r]]

Claimable ==
    {r \in Requests :
        /\ TidiedState[r] = "queued"
        /\ \A o \in Requests : SlugOf[o] = SlugOf[r] => TidiedState[o] # "running"}

\* renew_provisioning_lease and finish_provisioning_request act only on a row
\* that is still running under the calling host.
Holds(h, r) == state[r] = "running" /\ claimedBy[r] = h

----------------------------------------------------------------------------
(* The daemon of one host.                                                 *)

\* cleanup_work and release_lock: the daemon forgets the request.
Leave(h, phase) ==
    /\ pc' = [pc EXCEPT ![h] = phase]
    /\ cur' = [cur EXCEPT ![h] = NoRequest]
    /\ base' = [base EXCEPT ![h] = 0]
    /\ call' = [call EXCEPT ![h] = "none"]
    /\ callAge' = [callAge EXCEPT ![h] = 0]
    /\ verdict' = [verdict EXCEPT ![h] = "none"]

\* systemd starts gremion-executor --loop.
Boot(h) ==
    /\ pc[h] = "down"
    /\ pc' = [pc EXCEPT ![h] = "boot"]
    /\ UNCHANGED <<queue, cur, base, call, callAge, verdict, live, deadFor, crashes, starts>>

\* Under the host lock, every container of this host's requests is killed and
\* confirmed gone.
Sweep(h) ==
    /\ pc[h] = "boot"
    /\ pc' = [pc EXCEPT ![h] = "swept"]
    /\ live' = [live EXCEPT ![h] = {}]
    /\ deadFor' = [deadFor EXCEPT ![h] = 0]
    /\ UNCHANGED <<queue, cur, base, call, callAge, verdict, crashes, starts>>

\* Fault: a restart does not count as an attempt.
RequeueOwnUncounted(h) ==
    LET own == {r \in Requests : Holds(h, r)}
    IN  /\ pc[h] = "swept"
        /\ pc' = [pc EXCEPT ![h] = "idle"]
        /\ state' = [r \in Requests |-> IF r \in own THEN RequeuedState(r) ELSE state[r]]
        /\ claimedBy' = [r \in Requests |-> IF r \in own THEN RequeuedHolder(r) ELSE claimedBy[r]]
        /\ lease' = [r \in Requests |-> IF r \in own THEN 0 ELSE lease[r]]
        /\ UNCHANGED <<attempt, age, cur, base, call, callAge, verdict, live, deadFor, crashes, starts>>

\* requeue_own_requests: what this host held when it died.
RequeueOwn(h) ==
    LET own == {r \in Requests : Holds(h, r)}
    IN  /\ pc[h] = "swept"
        /\ pc' = [pc EXCEPT ![h] = "idle"]
        /\ state' = [r \in Requests |-> IF r \in own THEN RequeuedState(r) ELSE state[r]]
        /\ attempt' = [r \in Requests |-> IF r \in own THEN attempt[r] + 1 ELSE attempt[r]]
        /\ claimedBy' = [r \in Requests |-> IF r \in own THEN RequeuedHolder(r) ELSE claimedBy[r]]
        /\ lease' = [r \in Requests |-> IF r \in own THEN 0 ELSE lease[r]]
        /\ UNCHANGED <<age, cur, base, call, callAge, verdict, live, deadFor, crashes, starts>>

\* one_cycle: the host lock is taken and the clock read before the claim.
StartClaim(h) ==
    /\ pc[h] = "idle"
    /\ pc' = [pc EXCEPT ![h] = "claiming"]
    /\ UNCHANGED <<queue, cur, base, call, callAge, verdict, live, deadFor, crashes, starts>>

\* What every claim does to the rows before it picks one; `picked` becomes
\* running under h, lease starting now.
Tidied(h, picked) ==
    /\ state' = [r \in Requests |-> IF r \in picked THEN "running" ELSE TidiedState[r]]
    /\ attempt' = [r \in Requests |-> IF r \in Lapsed THEN attempt[r] + 1 ELSE attempt[r]]
    /\ claimedBy' = [r \in Requests |-> IF r \in picked THEN h
                                        ELSE IF r \in Lapsed THEN RequeuedHolder(r)
                                        ELSE claimedBy[r]]
    /\ lease' = [r \in Requests |-> IF r \in picked \cup Lapsed THEN 0 ELSE lease[r]]
    /\ age' = [r \in Requests |-> IF r \in picked \cup Expired THEN 0 ELSE age[r]]

\* A concurrent claim of the same customer has won: the unique index on running
\* rows rejects this one (the unique_violation of claim_provisioning_request).
Outrun(h) ==
    \E g \in Hosts \ {h}, q \in Requests :
        /\ pc[g] = "verifying" /\ state[cur[g]] = "running"
        /\ TidiedState[q] = "queued" /\ SlugOf[q] = SlugOf[cur[g]]

\* claim_provisioning_request returns no row.
ClaimNothing(h) ==
    /\ pc[h] = "claiming"
    /\ Claimable = {} \/ Outrun(h)
    /\ Tidied(h, {})
    /\ Leave(h, "idle")
    /\ UNCHANGED <<live, deadFor, crashes, starts>>

\* claim_provisioning_request takes the oldest request of a free customer.
Claim(h, r) ==
    /\ pc[h] = "claiming"
    /\ r \in Claimable
    /\ \A o \in Claimable : r <= o
    /\ Tidied(h, {r})
    /\ pc' = [pc EXCEPT ![h] = "verifying"]
    /\ cur' = [cur EXCEPT ![h] = r]
    /\ UNCHANGED <<base, call, callAge, verdict, live, deadFor, crashes, starts>>

\* The claim commits but its answer is lost: the daemon dies and holds a
\* request it does not know of.
ClaimUnanswered(h, r) ==
    /\ pc[h] = "claiming"
    /\ crashes < MaxCrashes
    /\ r \in Claimable
    /\ \A o \in Claimable : r <= o
    /\ Tidied(h, {r})
    /\ Leave(h, "down")
    /\ crashes' = crashes + 1
    /\ UNCHANGED <<live, deadFor, starts>>

\* request-verify says ok and mark_provisioning_request_verified is accepted.
VerifyOk(h) ==
    /\ pc[h] = "verifying"
    /\ Holds(h, cur[h])
    /\ pc' = [pc EXCEPT ![h] = "dispatch"]
    /\ UNCHANGED <<queue, cur, base, call, callAge, verdict, live, deadFor, crashes, starts>>

\* request-verify refuses or cannot decide, the mark is rejected, or no handler
\* is registered: nothing runs.
VerifyStops(h) ==
    /\ pc[h] = "verifying"
    /\ pc' = [pc EXCEPT ![h] = "finishing"]
    /\ \E v \in {"refused", "failed"} : verdict' = [verdict EXCEPT ![h] = v]
    /\ UNCHANGED <<queue, cur, base, call, callAge, live, deadFor, crashes, starts>>

----------------------------------------------------------------------------
(* Renewals.  try_renew reads the clock before the call.                   *)

StartRenew(h) ==
    /\ pc[h] \in {"dispatch", "running"}
    /\ call[h] = "none"
    /\ call' = [call EXCEPT ![h] = "sent"]
    /\ callAge' = [callAge EXCEPT ![h] = 0]
    /\ UNCHANGED <<queue, pc, cur, base, verdict, live, deadFor, crashes, starts>>

\* renew_provisioning_lease grants or refuses.
DbRenews(h) ==
    /\ call[h] = "sent"
    /\ IF Holds(h, cur[h]) /\ lease[cur[h]] <= LeaseSeconds
       THEN /\ lease' = [lease EXCEPT ![cur[h]] = 0]
            /\ call' = [call EXCEPT ![h] = "granted"]
       ELSE /\ call' = [call EXCEPT ![h] = "refused"]
            /\ UNCHANGED lease
    /\ UNCHANGED <<state, attempt, claimedBy, age, pc, cur, base, callAge, verdict,
                   live, deadFor, crashes, starts>>

\* The handler is started in its own process group, unless the fence has
\* already passed since `since`.
Dispatch(h, since) ==
    IF since < FenceSeconds
    THEN /\ pc' = [pc EXCEPT ![h] = "running"]
         /\ base' = [base EXCEPT ![h] = since]
         /\ call' = [call EXCEPT ![h] = "none"]
         /\ callAge' = [callAge EXCEPT ![h] = 0]
         /\ live' = [live EXCEPT ![h] = live[h] \cup {cur[h]}]
         /\ starts' = [starts EXCEPT ![cur[h]] = @ + 1]
         /\ UNCHANGED <<cur, verdict>>
    ELSE Leave(h, "idle") /\ UNCHANGED <<live, starts>>

\* Fault: the renewal is dated when its answer arrives.
RenewDateLate(h) == 0
\* The renewal is dated when it was sent.
RenewDate(h) == callAge[h]

\* The renewal before the handler starts is answered: granted.
DispatchRenewed(h) ==
    /\ pc[h] = "dispatch" /\ call[h] = "granted"
    /\ Dispatch(h, RenewDate(h))
    /\ UNCHANGED <<queue, deadFor, crashes>>

\* ... refused: the request is no longer ours, nothing runs, no finish.
DispatchRefused(h) ==
    /\ pc[h] = "dispatch" /\ call[h] = "refused"
    /\ Leave(h, "idle")
    /\ UNCHANGED <<queue, live, deadFor, crashes, starts>>

\* ... not answered: the fence counts from the claim.
DispatchUnanswered(h) ==
    /\ pc[h] = "dispatch" /\ call[h] # "none"
    /\ Dispatch(h, base[h])
    /\ UNCHANGED <<queue, deadFor, crashes>>

\* The renewer, or a step marker, learns that the lease was renewed.
Renewed(h) ==
    /\ pc[h] = "running" /\ call[h] = "granted"
    /\ base' = [base EXCEPT ![h] = RenewDate(h)]
    /\ call' = [call EXCEPT ![h] = "none"]
    /\ callAge' = [callAge EXCEPT ![h] = 0]
    /\ UNCHANGED <<queue, pc, cur, verdict, live, deadFor, crashes, starts>>

\* A renewal times out; the fence keeps counting.
RenewUnanswered(h) ==
    /\ pc[h] = "running" /\ call[h] # "none"
    /\ call' = [call EXCEPT ![h] = "none"]
    /\ callAge' = [callAge EXCEPT ![h] = 0]
    /\ UNCHANGED <<queue, pc, cur, base, verdict, live, deadFor, crashes, starts>>

----------------------------------------------------------------------------
(* The end of a run.                                                       *)

\* supervise_handler stops waiting; stop_request kills the renewer first.
Stopping(h, v) ==
    /\ pc[h] = "running"
    /\ pc' = [pc EXCEPT ![h] = "stopping"]
    /\ verdict' = [verdict EXCEPT ![h] = v]
    /\ call' = [call EXCEPT ![h] = "none"]
    /\ callAge' = [callAge EXCEPT ![h] = 0]
    /\ UNCHANGED <<queue, cur, base, live, deadFor, crashes, starts>>

HandlerReturns(h) == \E v \in {"succeeded", "failed"} : Stopping(h, v)

\* The supervisor aborts the run: a renewal was refused, or the fence is reached.
\* (Under TimingBound a running host holds its request, so it is always the fence.)
Aborts(h) ==
    /\ call[h] = "refused" \/ base[h] >= FenceSeconds
    /\ Stopping(h, "aborted")

\* stop_request has confirmed that group and containers are gone.
Stopped(h) ==
    /\ pc[h] = "stopping"
    /\ pc' = [pc EXCEPT ![h] = "finishing"]
    /\ base' = [base EXCEPT ![h] = 0]
    /\ live' = [live EXCEPT ![h] = {}]
    /\ UNCHANGED <<queue, cur, call, callAge, verdict, deadFor, crashes, starts>>

\* Not confirmed: the request is left running and the daemon exits.
StopUnconfirmed(h) ==
    /\ pc[h] = "stopping"
    /\ crashes < MaxCrashes
    /\ Leave(h, "down")
    /\ crashes' = crashes + 1
    /\ UNCHANGED <<queue, live, deadFor, starts>>

\* An aborted run survives a finish that fails; any other one makes the daemon
\* die.
AfterFinish(h, answered) ==
    IF answered \/ verdict[h] = "aborted" THEN Leave(h, "idle") ELSE Leave(h, "down")

\* finish_provisioning_request is applied; the answer may be lost.
Finish(h) ==
    /\ pc[h] = "finishing"
    /\ Holds(h, cur[h])
    /\ state' = [state EXCEPT ![cur[h]] = IF verdict[h] = "aborted" THEN "failed" ELSE verdict[h]]
    /\ lease' = [lease EXCEPT ![cur[h]] = 0]
    /\ \E answered \in BOOLEAN : AfterFinish(h, answered)
    /\ UNCHANGED <<attempt, claimedBy, age, live, deadFor, crashes, starts>>

\* ... is refused, because the request is no longer ours.
FinishRefused(h) ==
    /\ pc[h] = "finishing"
    /\ ~Holds(h, cur[h])
    /\ AfterFinish(h, FALSE)
    /\ UNCHANGED <<queue, live, deadFor, crashes, starts>>

\* ... never reaches the database.
FinishLost(h) ==
    /\ pc[h] = "finishing"
    /\ crashes < MaxCrashes
    /\ AfterFinish(h, FALSE)
    /\ crashes' = crashes + 1
    /\ UNCHANGED <<queue, live, deadFor, starts>>

----------------------------------------------------------------------------
(* Failures and the clock.                                                 *)

\* SIGKILL of the daemon, or any die: whatever the handler started lives on.
Dies(h) ==
    /\ pc[h] # "down"
    /\ crashes < MaxCrashes
    /\ Leave(h, "down")
    /\ crashes' = crashes + 1
    /\ UNCHANGED <<queue, live, deadFor, starts>>

\* INT, TERM or HUP: on_signal kills everything, the request stays running.
Signalled(h) ==
    /\ pc[h] \notin {"down", "boot"}
    /\ crashes < MaxCrashes
    /\ Leave(h, "down")
    /\ live' = [live EXCEPT ![h] = {}]
    /\ crashes' = crashes + 1
    /\ UNCHANGED <<queue, deadFor, starts>>

\* The renewer, a dead-man switch, finds its daemon gone.
DeadMan(h) ==
    /\ pc[h] \in {"down", "boot"}
    /\ live[h] # {}
    /\ live' = [live EXCEPT ![h] = {}]
    /\ deadFor' = [deadFor EXCEPT ![h] = 0]
    /\ UNCHANGED <<queue, daemon, crashes, starts>>

\* The reaction times of the daemon and of its restart: time cannot pass a
\* deadline by which something that still lives must be gone.
InTime(h) ==
    /\ pc[h] \in {"running", "stopping"} => base[h] < FenceSeconds + KillSeconds
    /\ pc[h] \in {"down", "boot"} /\ live[h] # {} => deadFor[h] < RestartSeconds

Tick ==
    /\ \A h \in Hosts : InTime(h)
    /\ lease' = [r \in Requests |-> IF state[r] = "running" THEN Older(lease[r], Cap) ELSE lease[r]]
    /\ age' = [r \in Requests |-> IF state[r] = "queued" /\ attempt[r] = 0
                                  THEN Older(age[r], ExpireSeconds + 1) ELSE age[r]]
    /\ base' = [h \in Hosts |-> IF pc[h] \in {"claiming", "verifying", "dispatch", "running", "stopping"}
                                THEN Older(base[h], Cap) ELSE base[h]]
    /\ callAge' = [h \in Hosts |-> IF call[h] # "none" THEN Older(callAge[h], Cap) ELSE callAge[h]]
    /\ deadFor' = [h \in Hosts |-> IF pc[h] \in {"down", "boot"} /\ live[h] # {}
                                   THEN deadFor[h] + 1 ELSE deadFor[h]]
    /\ UNCHANGED <<state, attempt, claimedBy, pc, cur, call, verdict, live, crashes, starts>>

HostStep(h) ==
    \/ Boot(h) \/ Sweep(h) \/ RequeueOwn(h)
    \/ StartClaim(h) \/ ClaimNothing(h)
    \/ \E r \in Requests : Claim(h, r)
    \/ VerifyOk(h) \/ VerifyStops(h)
    \/ StartRenew(h) \/ DbRenews(h)
    \/ DispatchRenewed(h) \/ DispatchRefused(h) \/ DispatchUnanswered(h)
    \/ Renewed(h) \/ RenewUnanswered(h)
    \/ HandlerReturns(h) \/ Aborts(h)
    \/ Stopped(h) \/ Finish(h) \/ FinishRefused(h) \/ DeadMan(h)

HostFault(h) ==
    \/ \E r \in Requests : ClaimUnanswered(h, r)
    \/ StopUnconfirmed(h) \/ FinishLost(h) \/ Dies(h) \/ Signalled(h)

Next ==
    \/ \E r \in Requests : Submit(r)
    \/ \E h \in Hosts : HostStep(h) \/ HostFault(h)
    \/ Tick

Spec == Init /\ [][Next]_vars

\* What systemd (Restart=on-failure), the polling loop and timeout(1) around
\* every call guarantee, and the assumption that a handler returns.
Fairness ==
    /\ WF_vars(Tick)
    /\ \A h \in Hosts :
        /\ WF_vars(Boot(h)) /\ WF_vars(Sweep(h)) /\ WF_vars(RequeueOwn(h))
        /\ WF_vars(StartClaim(h))
        /\ WF_vars(ClaimNothing(h) \/ \E r \in Requests : Claim(h, r))
        /\ WF_vars(VerifyOk(h) \/ VerifyStops(h))
        /\ WF_vars(StartRenew(h)) /\ WF_vars(DbRenews(h))
        /\ WF_vars(DispatchRenewed(h) \/ DispatchRefused(h) \/ DispatchUnanswered(h))
        /\ WF_vars(HandlerReturns(h) \/ Aborts(h))
        /\ WF_vars(Stopped(h)) /\ WF_vars(Finish(h) \/ FinishRefused(h))
        /\ WF_vars(DeadMan(h))

FairSpec == Spec /\ Fairness

----------------------------------------------------------------------------
TypeOK ==
    /\ state \in [Requests -> States]
    /\ attempt \in [Requests -> 0..Attempts]
    /\ claimedBy \in [Requests -> Hosts \cup {NoHost}]
    /\ lease \in [Requests -> 0..Cap]
    /\ age \in [Requests -> 0..(ExpireSeconds + 1)]
    /\ pc \in [Hosts -> Phases]
    /\ cur \in [Hosts -> Requests \cup {NoRequest}]
    /\ base \in [Hosts -> 0..Cap]
    /\ call \in [Hosts -> {"none", "sent", "granted", "refused"}]
    /\ callAge \in [Hosts -> 0..Cap]
    /\ verdict \in [Hosts -> Verdicts]
    /\ live \in [Hosts -> SUBSET Requests]
    /\ deadFor \in [Hosts -> 0..RestartSeconds]
    /\ crashes \in 0..MaxCrashes
    /\ starts \in [Requests -> Nat]

\* Never two runs of one customer at a time: whatever crashes, lapses or is
\* lost, two live handlers or containers, on any hosts, that work on the same
\* customer are one and the same run (migration 0011, "must never let a second
\* run of the same customer start while the first can still write").
OneRunPerCustomer ==
    \A g, h \in Hosts : \A q \in live[g], r \in live[h] :
        SlugOf[q] = SlugOf[r] => g = h /\ q = r

\* The queue never disowns a live run: a request that is final or back in the
\* queue has nothing left alive (a finished request is retryable at once), and
\* a running one is alive only on the host that holds it.
LiveRunIsHeld ==
    \A h \in Hosts : \A r \in live[h] : Holds(h, r)

\* A request that keeps failing is run three times at most, then it is dead
\* (provisioning_requeue).
ThreeStartsAtMost ==
    \A r \in Requests : starts[r] <= Attempts

\* No request is forgotten: one that is queued or running, even one left
\* running by a daemon that died or whose finish was lost, becomes final.
EveryRequestSettles ==
    \A r \in Requests : state[r] \in {"queued", "running"} ~> state[r] \in Final

============================================================================
