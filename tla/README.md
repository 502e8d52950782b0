# Gremion: TLA+ models and proofs

Gremion runs the software of many small organisations ("customers", "tenants") from one
repository: a kernel service, modules with a database each, a user interface, an event bus
(NATS JetStream) between them, and host tooling that provisions and maintains the customers.
Six of its parts decide whether anything is lost, repeated, done twice at the same time, left
half-done or shown to the wrong customer, and they are hard to test because they depend on
crashes, timeouts and overlapping processes:

1. **event delivery** (`packages/events`): transactional outbox, relay, stream, inbox,
   dead letters, and the operator's recovery commands;
2. **the operator request queue** (`gremion_platform.provisioning_request`) and the host daemon
   **gremion-executor** that works it off under a lease;
3. **the customer lifecycle** (`packages/provisioning`, `customer-ops.sh`, `gremion-vendor-mail`): what
   the executor's handlers do: create, suspend, resume, enable, disable, reconcile;
4. **the module lifecycle** (`packages/tenant-store`): a module's database, its platform row and its switch;
5. **broker accounts** (`packages/nats-auth`): which keys the NATS server admits;
6. **tenant resolution** (`gremion-ui` registry, `tenancy-core`): which tenant a host is served as.

This directory models them, checks them with TLC and proves their safety properties with TLAPS for
every value of the constants. The repository is far larger (user interface, modules, generated clients);
the inventory below has the rest, with the order in which it is to be modelled.

## 1. Inventory

State, operations and interaction per component. "Hard" is what a test hardly reaches.

| Component | State | Operations | Interacts with | Hard | Correct when |
|---|---|---|---|---|---|
| Outbox and relay (`packages/events/src/enqueue.ts`, `relay.ts`) | table `outbox` (relay_state, attempt_count, next_attempt_at, published_at) | enqueue, poll, runOnce, outbox-requeue | module transaction, PostgreSQL advisory lock, JetStream | overlapping relays, lost PubAck, transaction lost in mid-publish, crash before COMMIT | nothing marked unless stored; versions in order; no row retried for ever |
| Inbox consumer (`consumer.ts`) | table `inbox`, the durable's cursor and delivery count, DLQ stream | processMessage, record failure, dead-letter, mark, term, advisory on exhaustion | JetStream, module handler in one transaction | redelivery while the handler runs, lost ack, database away, death between three systems | effect once; newer never overwritten; nothing lost without a trace |
| Recovery verbs (`recovery.ts`, `cli.ts`) | none of their own | outbox-requeue, outbox-replay, dlq-replay, dlq-list | all of the above while they run | paging without a lock, recreated stream, death between republish and delete | rebuild complete and in order; an entry replays its own event |
| Request queue (platform migrations 0009, 0010, 0011, 0014) | `provisioning_request` (state, attempt, claimed_by, lease_until) | submit, submit_council, claim (expires and re-queues), renew, mark verified, finish, requeue_own | control panel, council, executor | two claims at once, lapse against renewal, expiry | one running request per customer; three attempts |
| gremion-executor (`infra/host/bin/gremion-executor`) | RUN_ID, renewal clock, handler process, containers | sweep, claim, verify, renew, dispatch, supervise, fence, stop, finish, signals | queue, docker, systemd | cut off from the database, late answers, killed daemon with live containers | no run outlives its lease; no two runs of a customer |
| Provisioning ledger and customer lifecycle (`packages/provisioning`, `infra/host/lib/customer-ops.sh`) | `provisioning_step`, control row, realm, broker account, mail principal, router file, setup flag | create (phases A, host, B, activation), suspend, resume, enable, disable, reconcile, delete | runs inside the executor's handlers; Keycloak, mail server, broker, edge | crash between a step and its ledger row; half a suspend; rotation against the stamp | a ledger row is never ahead of its step; active is whole; suspended is locked; a rerun converges |
| Module lifecycle and migration runner (`packages/tenant-store`) | `plt.module_database`, `plt.module_enablement`, the database itself, migration ledger | enable, disable, purge, export, migrate | called by the customer lifecycle; read by the level-1 gate | a stop between row, database and switch; requests in flight when the dump is taken | switch, row and database agree; only a racing write can be lost |
| Relay host (`services/kernel-api/src/outbox/relay-host.ts`) | set of running relays | start, stop, refresh | control database, relays | a database that appears or disappears while relays start | one relay per database in the end, none for a dropped one |
| Module switch, runtime registry, consumer state (`gremion-ui/src/lib/server`) | desired and applied module state | switch, reconcile | module lifecycle, consumers | reconcile against a newer switch | applied state follows the last switch |
| Tenant registry, domains and pools (`gremion-ui`, `packages/tenancy-core`) | control rows, two resolution caches, eviction epoch, LISTEN connection, pool registry | resolve by host, slug, id; status flips; add, remove, move hosts; evict one or all | control database NOTIFY, every app process | a resolution in flight across an eviction; a lost notification; a pool pushed out under a cached context | stale only until notified; caches converge; a pool outlives its entries |
| Governance and protocols (`decision-rule.ts`, `quorum.ts`, `protocols/`) | protocols, resolutions, attendance | draft, add resolution, publish (adopt) | votes, elections, Nextcloud | publish writes from a snapshot taken before long awaits; rounding, zero and abstention edges | a published protocol has every resolution numbered and decided under its quorum |
| Org-unit outbox (`governance/org-unit-event-*.ts`) | a second, older outbox | enqueue, relay | JetStream | the same as the first | the same as the first |
| Erasure orchestrator | per-module erasure status | start, fan out, resume | erasure ports | one module of several fails | complete only when every module is |
| nats-auth (`packages/nats-auth`) | seed files, accounts file, the server's keys, the loaded marker, the store's lock | ensureTenantAccount, init | customer lifecycle; NATS server | failure or death between any two of file, reload, revocation, seed, marker | no key without its seed; an evicted module stays out; no other tenant is lost; the set is served |
| kernel-api, remaining UI, modules (finance, content, publishing, calendar, board, vault, votes, elections, files, messaging) | tables behind authorisation | mostly single-row requests | event delivery | publishing's dispatch, the content workflow | (candidates after the above) |
| Ports, storage, routers, catalogue, clients, templates, compose files, panels | little or none | rendering, parsing, adapters | - | - | not a subject for model checking |

`PROJECT.json` has the same list with files and status, and every hazard with its line.

## 2. Modules

```
JetStream            one stream, its de-duplication window (external: how the code uses the broker)
 |- OutboxRelay      outbox table and relays                    -> OutboxRelay_proofs
 |   `- OutboxReplay + the clock of published_at, the loss of
 |                   the stream, events outbox-replay           -> OutboxReplay_proofs
 |- InboxConsumer    durable, inbox, dead letters, dlq-replay   -> InboxConsumer_proofs
 |   |               --refines--> DeliveryContract
 |   `- ConsumerRecovery   the dead-letter runbook, with fairness
 `- EventDelivery    OutboxRelay and InboxConsumer over the
                     same stream                                -> EventDelivery_proofs

RequestExecutor      request queue and executor daemons         -> RequestExecutor_proofs

ModuleLifecycle      one module's database, platform row and switch
 `- CustomerLifecycle   the verbs of one customer, seven stores -> CustomerLifecycle_proofs

BrokerAccounts       seeds, accounts file, NATS server, marker  -> BrokerAccounts_proofs
TenantResolution     control rows, caches, eviction, pools      -> TenantResolution_proofs
```

The `MC*` modules only give constants their values. An operator whose comment begins with "Mutation", or that
stands right above the definition it varies, is a deliberately wrong variant of it: with it in place TLC must find the named property
violated (`mutants` in `PROJECT.json`), which shows that the property looks at that code.

### JetStream
`stream` is the sequence of stored messages, and a message is its Nats-Msg-Id: the relay publishes
a row under its event id, dlq-replay under `<event id>.r<n>`. `window` is where the two-minute
de-duplication window starts; `WindowSlides` lets it move at any time, so every property holds
whether or not the broker recognises a duplicate. `MaxStream` bounds the length; when it is reached,
a publish that would store a new message cannot be answered positively.

### OutboxRelay
| Code | Model |
|---|---|
| INSERT by the module's transaction | `Enqueue` (rows of an aggregate are committed in version order) |
| `setTimeout(poll)`, BEGIN | `BeginPass` |
| `pg_try_advisory_xact_lock` | `LockRefused`, `SelectDue` (guard `~LockHeld`) |
| `DUE_SQL` with NOT EXISTS on earlier versions, ORDER BY event_time, LIMIT | `Due`, `DueRows` |
| `js.publish` answered, refused, transport error | `PublishAcked`, `PublishRefused`, `TransportFails`; in the two failures the message may still be stored |
| attempt_count + 1, backoff, dead_lettered | `FailedRow` |
| COMMIT, or ROLLBACK, or death | `CommitPass`, `RollbackPass` |
| the session is lost while a publish is under way | `LoseTransaction`, then `LatePublish` by the "zombie" |
| `outbox-requeue` | `RequeueOutbox` |

Writes are kept apart (`writes[r]`) until the commit, as the transaction does. Events are numbered by
(event_time, event_id), and `Ver` is free of that order, so a later version may have the earlier
event_time, which is the case the NOT EXISTS is for.

### InboxConsumer, DeliveryContract
`kindOf[e]` is what the envelope of an event turns out to be (plain, of a test run, another tenant's, malformed); it is
chosen at the start from `Kinds` and never changes.
`worker[w]` is a delivery in the hands of a process and the step it is at; `cursor`, `dcount`, `out` are
the durable (max_ack_pending 1). `AckWaitExpires` lets the server give the message to another process
while the first still works, with the late one's answers ignored (`Awaited`) but its transactions not.
`Processes`, `SkipsStale`, `SkipsTest`, `FindsDuplicate`, `FindsInvalid` are the outcomes of the
transaction of `processMessage`; `ApplyFails`, `RecordFailure`, `FailureUnrecorded`, `PublishesDlq`,
`DlqPublishFails`, `MarksDeadLettered`, `MarkFails`, `Terminates`, `Dies` follow the failure path one external
system at a time. `Exhausted` is the server's MAX_DELIVERIES advisory and the entry it leads to. `ReplayDeadLetter` /
`ReplayDeletes` / `ReplayDies` are dlq-replay; `StreamRecreated` starts the sequences again while the DLQ
survives. `handled` counts committed effects and is history.

`DeliveryContract` is what a module author may rely on: an event is open until it is applied or
dropped, once and for ever; it is applied only if no newer version of its aggregate was; a test run is
never applied. `ImplementsContract` maps an inbox row to that fate.

### OutboxReplay
Adds `publishedAt`, the start of the publishing transaction (`now()`), `committedAt` (history: its commit), the loss
of the stream, and the paging of `replayOutbox` by (published_at, event_id) while any number of relays go on.

### ConsumerRecovery, EventDelivery
`ConsumerRecovery` is the dead-letter runbook: anything fails in any way until `Repair`; from then on
nothing fails and the operator works through dlq-list. `EventDelivery` composes producer, relay,
stream, consumer and replay; no component's step is changed, each leaves the other's variables alone.

### RequestExecutor
| Code | Model |
|---|---|
| `submit_provisioning_request`, `submit_council_module_request` | `Submit` |
| `claim_provisioning_request`: expire, re-queue lapsed, pick, running | `Tidied` with `ClaimNothing` / `Claim` / `ClaimUnanswered` (one transaction) |
| `renew_provisioning_lease` | `StartRenew`, `DbRenews`, then its answer: `DispatchRenewed`, `DispatchRefused`, `DispatchUnanswered`, `Renewed`, `RenewUnanswered`, `Aborts` |
| verification, `mark_request_verified` | `VerifyOk`, `VerifyStops` |
| handler's end, fence, lost lease | `HandlerReturns`, `Aborts`, then `Stopped` or `StopUnconfirmed` |
| `finish_provisioning_request` | `Finish`, `FinishRefused`, `FinishLost` |
| start: sweep, `requeue_own_requests` | `Boot`, `Sweep`, `RequeueOwn` |
| SIGKILL, `on_signal`, the renewer's dead-man switch | `Dies`, `Signalled`, `DeadMan` |

Time is discrete and kept as ages. `Tick` may not pass a deadline by which the code has killed what
still lives (`InTime`). `live[h]` is what runs on a host, containers included: it survives the daemon.

**Assumptions, all stated as ASSUME or in comments.** `TimingBound`: fence + kill + restart <= lease +
grace. The header of gremion-executor gives the first two (480 + 35 + 10 + 30 + 20 < 600 + 60); the
restart of a killed daemon and its sweep (systemd `Restart=on-failure`, `RestartSec=5s`) has to fit in
the remaining 85 seconds as well, or the dead-man switch has to fire within them. The clocks of the database and of the hosts run at the same
rate. A call is applied atomically, before the host goes on or never, though its answer may be lost or
late. One renewal is outstanding at a time.

### ModuleLifecycle
| Code | Model |
|---|---|
| level-1 gate, the user's transaction | `Admit`, then `Commit` at any later time |
| `enableModule`: row, roles and database, migrations and grants, switch | `EnRow`, `EnDb`, `EnMigrate`, `EnSwitch` |
| `disableModule`: row and switch off, is there a database, `pg_dump`, record, DROP, `dropped` | `DisRow`, `DisLook`, `DisDump`, `DisRecord`, `DisDrop`, `DisDropped` |

Every durable write is a step, so that the caller's fault can stop a run before each. `raced` is history:
the requests in flight when a dump was taken. The migration runner is one idempotent step.

### CustomerLifecycle
One program counter, because the queue and the host lock let one verb run on a customer at a time. The
verb begins at `Entry[verb]` and passes through the steps of `customer-ops.sh` and of the container it
calls:

| Verb | Steps |
|---|---|
| create | `Register`, `BindHost`; phase A `RunStep`/`AppendDone` per kind; `RealmSmtp`, `Stamp`, `RecordHostStep`; `PhaseB`, `Invite`, `MarkInvited`, `AppendAccounts`; `EnableRequested`, the module steps, `EnsureBroker`, `MarkSetup`; `WriteRouter`; `Activate` |
| suspend | `SuspendStatus`, `DisableRealm`, `LogoutAll`, `EvictModules`, `Unstamp`, `DeletePrincipal` |
| resume | `RealmSmtp`, `Stamp`, `ResumeCheck`, `EnableRealm`, `EnsureBroker`, `ResumeStatus`, `ResumeExit`; on a failed container `Unstamp`, `DeletePrincipal` |
| enable, disable | `ModuleCheck`, the module steps, `EnsureBroker` |
| reconcile --apply | `Reconcile` (rotate), `Stamp`, `Verify` |

`Fault` fails the step about to be made or kills the run; a failed resume container may also lead to the
host's revocation. `BreakGlass` lets every verb be run on the host in any state; with it FALSE only what
`PanelOffers` starts. Users log in and write. The broker is
seen here as one atomic converge; `BrokerAccounts` opens it up.

Two checks look at the sender in the realm, and they differ. `Stamped` is that of the mail step
(`gremion-vendor-mail:320`) and of `assertSmtpStamped`: address, host, port, STARTTLS and that some password is set.
`Healthy` is that of the report of reconcile (`reconcile.ts:297`), which reads `auth` as well; with it alone
`Reconcile` decides whether to rotate. Neither can read the password, of which the model says whether it is the
principal's (`current`), one that a rotation has replaced (`stale`), or one that somebody typed in (`edited`);
`CanSend` is what the mail server demands. `SenderDrifts` is a hand edit of a field the mail step reads, of `auth`
alone, or of the password alone; an edit that happens to be a repair is not modelled.

### BrokerAccounts
A key is (tenant, owner, which seed); `seeds` are the files, `file` what is rendered, `server` what the
running server admits, `marker` the hash of the bytes last known to be loaded. `EnsureSeed`, `Render`,
`WriteAccounts`, `Reload`, `assertRevoked`, `removeModuleSeed`, `ensureStreams`, `WriteMarker`, `Return` are
`ensureTenantAccount` in order; `Fail` is any await that throws (the lock is released), `Die` a killed
container (the lock stays until it is stale). `nats-auth init` is a run of its own (`Deploy`: lock, `initRender`,
`WriteAccounts`, `Return`) beside those of the tenants; `ServerRestart` happens at any time.

`SeedStore.lock` is the code's four calls: `Start` is the first mkdir, or, when the directory is there, the stat that
finds it stale; `ClearLock` the rm of whatever directory is there by then; `TakeOver` the second mkdir. Other runs come
between any two. A lock is stale when its run died, or, with `Slow`, when its run has lived for ten minutes. `release()`
removes only the run's own (`Released`). `robbed` is history: some run lost its lock while it lived, because its
lock was old or because two runs cleared one stale lock, the second of them that of the first. The safety
properties are about behaviours up to that moment; section 5 has what happens after it.

### TenantResolution
One app process; replicas share nothing but the control database. Control rows change in transactions that
also notify (`updateTenantStatus`, `addTenantDomain`, `removeTenantDomain`, `setPrimaryDomain`); the notification is
in `feed` until `ReceiveNotify`, or in `lost` when nobody listened. A resolution is `Lookup` (a miss, the epoch
captured), `ReadRow`, `ReadPrimaryHost`, `Finish` (the pool, and both cache writes unless the epoch moved). The
epoch is kept as the bit `moved` of each resolution, which is all the code compares. Time counts down in the
entries (TTL) and in pools that were pushed out (grace). `pools` maps each tenant in the LRU registry to
the tenants used less recently, so the one that maps to the empty set is pushed out first. A cache hit is not
a no-op for them: every use of a cached context goes through `getDb` (`db.ts:30`), which makes the tenant's pool the
most recent, re-creates one that was pushed out or evicted, and may push out another.

## 3. Runs

| Run | Shows |
|---|---|
| `relay` | two overlapping relays: `PublishedStored`, `VersionsInOrder`, `HoldsBack`, and `RowsSettle`: every row is published or given up |
| `outbox_replay` | two relays: `RebuildComplete`, and `OnlyOverlapsReorder`: rows change places only when the passes that published them overlapped |
| `replay_order` | *violation*: `InPublishOrder`, with two relays a version is sent before an earlier one |
| `consumer_concurrent` | two processes: `HandledOnce`, `NeverOverwritten`, `NothingLost`, `ReplaysItsOwnEvent`, refinement of `DeliveryContract`; dead letters, replays, a recreated stream; two plain versions, a test run beside a malformed event, or a foreign event beside a plain one |
| `consumer_recovery` | `EventsSettle`, `DeadLettersClear`: the runbook ends, with a test-run event among the others |
| `delivery` | `PublishedNotLost`, `EffectsInOrder` end to end, three versions of one aggregate, one malformed |
| `one_run` | `LiveRunIsHeld`, `OneRunPerCustomer`, `ThreeStartsAtMost` on two hosts |
| `queue_live` | `EveryRequestSettles` |
| `customer_lifecycle` | `ActiveIsServable`, `LedgerTellsTruth`, `HealthySends`, `SuspendedIsLocked`, `BrokerFollowsSwitch`, `RowFindsDatabase`, `OnlyRacingWritesLost`, `InvitedNeverAgain`, `RerunConverges` |
| `broker_accounts` | while no live run is robbed of its lock: `NoKeyWithoutSeed`, `EvictedStaysOut`, `FileKeepsEveryTenant` |
| `broker_marker` | *violation*: `EnsuredIsServed`, a run may return without the server serving its set |
| `tenant_resolution` | `StaleOnlyUntilNotified`, `CachesConverge`, `PoolOutlivesEntry` |

**Bounds and why they suffice.** Two versions of one aggregate are the smallest case in which order,
staleness and holding back can fail; the relay runs add an event of a second aggregate so that a batch
mixes them. Two relays and two workers give every pairwise overlap. MaxDeliver 2 has a first and a last
delivery, MaxAttempts 2 a retry and a give-up. The stream is long enough for every event, or for both
versions of an aggregate and a duplicate or replay. `MaxEpoch` 1 recreates the stream once. For the executor, two requests of one
customer on two hosts compete; the durations are the smallest that keep fence < lease, a grace, and a
restart apart (2/1/1/1/1), and `MaxCrashes` bounds deaths and lost calls, not lapses, so that three attempts are
reached. Bounds cut behaviours only through guards that name them.
`MaxFaults` 2 lets one run stop, another verb stop on what it left, and a third converge; one user write is
enough because writes do not interact. `MaxKeys` 2 is one seed and its replacement after a disable. The broker runs
have `CONSTRAINT Undisturbed` (`~robbed`): once set `robbed` stays set, and every invariant of theirs holds
trivially in such a state, so nothing that could violate one is cut. They have three runs, of two tenants and
of init, which is what a double takeover takes: the run that died, or one after it, and two that saw its lock.
In `tenant_resolution` two tenants and two hosts let a host move from one to the other, one pool is the limit
so that every second resolution pushes one out, TTL and grace of one tick are equal as in the code, two
changes of the control rows give a move (remove and add), or a flip and its reversal; a second resolution
in flight adds no case for the caches because the epoch is global (each resolution meets evictions alone);
with two in flight and one change the invariants were checked as well (9.4 million states, before `getDb` was added).
The run starts with host `h1` in the hands of tenant `a` (`MCResolutionSpec`): the tenants are interchangeable, so
the other initial states only rename them; symmetry itself is not used because of `CachesConverge`.
`CHECK_DEADLOCK FALSE` appears where the bounds, or a finished operator, really end the behaviour.
Symmetry is used over interchangeable relays (of `outbox_replay` and `replay_order`), workers, hosts and broker tenants, in runs without liveness only.

**Fairness.** Relay: the poll loop reschedules itself whatever happens, so each relay goes on (WF of `PollStep`, nothing
about which relay gets the lock); the broker keeps answering for a row that is tried again and again by any relay, with
success or refusal (SF), and transactions stop being lost eventually: without that nothing is ever committed. Nothing is assumed about
success. Runbook: after the repair the pull loop, the server's redelivery and the operator go on (WF).
Executor: systemd restarts the daemon, the loop polls, `timeout(1)` ends every call, the clock advances
(WF), and the handler returns or is fenced; no fairness on losses, deaths, renewals' answers or
submissions.
Customer lifecycle: the run that holds the lock goes on (WF of the verb's next step); nothing is assumed of
faults, logins or the start of verbs. `RerunConverges` speaks of runs that meet no further fault, in the states each
verb is meant for (`Fit`): a create whose sender looks stamped and cannot send, the invitation still to be mailed, is a case for
reconcile or for an operator, not for the rerun.
Tenant resolution: the clock runs and a read that was sent is answered or fails (WF); nothing is assumed of
the listener, which may stay down for ever.

## 4. Proofs

Every safety invariant and every action property of the passing runs is a theorem, for every value of the
constants that meets the ASSUMEs of the modules; two theorems have a further hypothesis, which is
given with them and which the run shares (a stream that is not deleted). None of the
interesting ones is inductive; each proof module begins with the invariant that is, as a conjunction of
named parts, which held when TLC was run on it with the run's instance. The step that keeps it has one lemma per part or
per action, and each property follows from the invariant in a few lines.

**`OutboxRelay_proofs`** (`RelayInvariant`, `TypeCorrect`, `PublishedIsStored`, `NeverOvertakes`,
`DeadLetterHoldsBack`; from `EventsAssumption` and `RelayAssumption`). A commit relies on what the pass saw.
The invariant has two layers. `TableInv` is about the table and the passes and holds whatever the broker
does: one relay holds the lock (`OneHolder`), the rows of an open pass are still pending (`PassRows`), every
earlier version of a row anyone may still publish, a zombie included, is published (`BatchReady`), which is why
a late publish is harmless, rows are enqueued and marked in version order (`RowsInOrder`), and a
pending row has an attempt left (`AttemptLeft`). `StreamInv` relates table and open pass to the stream. The first layer alone is what survives
the loss of the stream, and is used again by the replay.

**`OutboxReplay_proofs`** (`ReplayInvariant`, `RebuildIsComplete`, `ReplayReordersOnlyOverlaps`; from
`ReplayAssumption` besides). A published row is never written again, so its key (published_at, event_id) is fixed. `PageIsFull`
says what a page is: a row behind the key that is not on the page is behind all of it, and the page is then full; hence
a command that ends at a short page has left nothing out (`Swept`), for any number of relays that go on
meanwhile. Rows of one pass share published_at; with the event id left out of the key the proof fails.
`ReplayReordersOnlyOverlaps` is what is true of the order for any number of relays: a row that was committed before
the pass of another one began is sent before it. What was sent is sorted by key over all pages (`SentSorted`), and a
pass begins no later than it commits (`TimesInOrder`).

**`InboxConsumer_proofs`** (`ConsumerInvariant`, `ConsumerTypeCorrect`, `EffectOnce`, `ConsumerLosesNothing`,
`ReplayIsOfEntry`, `NewestWins`, `ConsumerRefines`; from `ConsumerAssumption`). `ConsumerLosesNothing` is the hard one: a dead letter
saves an event only while the stream it came from exists and no replay of it is stored, so `ConsumerInv` follows
an entry from the moment it is stored, before the message is terminated (`Terminable`), until it
is deleted, after its replay is stored behind the cursor (`ReplayStored`, `PassedAccounted`). A process whose
message belongs to a stream that was deleted (`Current`) promises nothing. `ConsumerRefines` shows the initial
states and each action to implement `DeliveryContract`.

**`EventDelivery_proofs`** (`PathImplementsConsumer`, `DeliveryInvariant`, `PublishedIsDelivered`, `EffectsAreInOrder`). To
the consumer the relays are publishers like any other, so the composition implements `ConsumerSpec` and
inherits its invariant. The relays' invariant is not inherited, because dlq-replay publishes into their stream; it is kept
because a replay is stored behind its original and never under a row's identifier. Both results
are about the stream the relays published to: the first says so with `epoch = 0`, the second, an action
property, with `MaxEpoch = 0`. After a stream is deleted and made again the outbox is ahead of it until outbox-replay has run.

**`RequestExecutor_proofs`** (`ExecInvariant`, `TypeCorrect`, `RunIsHeld`, `OneRun`, `ThreeStarts`) holds for any
hosts and requests and every choice of durations that meets `TimingBound`. `LiveRunIsHeld` depends on the
age of a lease, which a host knows only from one side: it dates a renewal before it sends it. `ExecInv`
carries "the lease is no older than the host believes" through each phase: `Pending` (claimed, not
started), `Supervised` (running or stopping, within fence + kill), `Orphaned` (daemon dead, within
fence + kill + dead time), so that no lease of a live run reaches lease + grace. `OneRunning` is the
partial unique index; together they give one run per customer. `Started` pays every start with a claim.

**`CustomerLifecycle_proofs`**, which covers `ModuleLifecycle` as well (`CustInvariant`, `CustTypeCorrect`,
`ServedIsWhole`, `LedgerIsTrue`, `HealthIsGood`, `SuspendLocks`, `BrokerIsAsSwitched`, `ModuleAgrees`,
`DisableLosesOnlyRaces`, `OneInvitation`), holds for any set of writes and number of faults, with or without verbs run
past the panel (`BoundsAssumption`). `CustInv` says for every statement what an earlier statement of the same run has
established and no other verb can undo: `ModuleInv` and `ExportInv` for a module's row, switch, database
and dump, `LedgerInv` and `InviteInv` for create, `MailInv` for principal, stamp and password (a realm
whose `auth` is right has not lost its password to a rotation, because a rotation on right fields needs `auth` to be wrong), `StatusInv` for what an
activated customer keeps, `LockInv` for suspend, `SwitchInv` for the broker; `VerbAt` says which verb can be where.

**`BrokerAccounts_proofs`** (`BrokerInvariant`, `BrokerTypeCorrect`, `KeysHaveSeeds`, `EvictionHolds`,
`NoTenantDropped`; from `MaxKeysAssumption` and `ActorsAssumption`) holds for any tenants and modules, with slow runs and
without. `BrokerInv` is `BrokerTypeOK /\ (~robbed => SafeInv)`. Before a run is robbed, a run past the lock is its holder
(`LockInv`), although any number of others may be about to clear a lock or to take it: clearing sets `robbed` or meets a
lock nobody living holds. So the bytes a run has rendered are those of the store without what it is about to drop
(`BytesInv`), although it deletes seeds on the way; `FileInv`, `RevokedInv`, `RemovedInv` and `SetInv` add what file, server and store
have taken over after each step.

**`TenantResolution_proofs`** (`ResolutionInvariant`, `ResolutionTypeCorrect`, `StaleIsExcused`, `PoolIsThere`; from
`NoneAssumption`, `GraceAssumption` and `BoundsAssumption`) holds for any tenants, hosts and resolutions in flight. What a resolution has read is a
promise to the cache: while its epoch has not moved it agrees with the rows, or its tenant is one a notification is
due for (`ReadsFresh`). `PoolsOutlive` is the other half: a pool has at least as long to live as the entry that holds it,
and needs the grace to be equal to the TTL. The registry keeps for each pool the set of those used less
recently (`IsRegistry`); that a full one has a least recent pool to push out is a lemma (`LeastRecent`), and with it the
registry stays within POOL_REGISTRY_MAX (`RegistryInv`).

Only model-checked:
* liveness (`RowsSettle`, `EventsSettle`, `DeadLettersClear`, `EveryRequestSettles`, `RerunConverges`,
  `CachesConverge`): fairness and ENABLED are out of the prover's reach;
* `EnsuredIsServed` and `InPublishOrder`, which are violated (section 5).

## 5. Findings and observations

* **Loaded marker** (`broker_marker`, `packages/nats-auth/src/ensure.ts:187`). The marker keeps the hash of the
  last run that finished and is not cleared when another file is written or loaded. A disable that
  reloaded and then failed before it removed the seed leaves the server without the module; when `nats-auth init`, or a run that
  fails before its own reload, then renders the old bytes from the store, file and marker agree again, and the next
  enable returns without a reload: the module's key is refused. In the other direction `assertRevoked` fails on every rerun. A
  server restart or a run that changes the bytes repairs it. Writing an empty marker before the accounts file would close it.
* **Replay order** (`replay_order`, `packages/events/src/relay.ts:263`). `published_at` is the start of the relay's
  transaction, which is before the advisory lock. With two overlapping relays, one that begins first and gets the lock
  second publishes version 2 with the smaller timestamp; outbox-replay then sends version 2 first and version 1 ends
  `skipped_stale`. The comment of `replayOutbox` and the name of its test speak of publish order. `clock_timestamp()` in
  the UPDATE would close it. `OnlyOverlapsReorder` says, and `ReplayReordersOnlyOverlaps` proves, that overlapping
  passes are the only way.
* Lock takeover (`packages/nats-auth/src/store.ts:196`). The stat and the rm of a stale lock are two calls. Two runs see
  the lock a dead run left; the first removes it and a run takes the lock; the second removes that fresh lock, takes its own,
  renders, and returns; the robbed run then writes the file it had rendered before, without the other tenant's users. This is
  the lost update the comment of `lock` excludes, and no run lives for ten minutes in it. TLC finds it in 20 steps as a
  violation of `NoLostUpdate` (`MCBrokerAccounts.cfg` with `Slow = FALSE`, that invariant and no constraint). `release()` compares
  the owner's stamp; the takeover does not.
  `FileKeepsEveryTenant` and the other two are therefore about behaviours in which no live run is robbed.
* Interrupted rotation (`infra/host/bin/gremion-vendor-mail:320`). `reconcile --apply` rotates when the report finds `auth`
  wrong, although the fields the mail step reads are right. Stopped between `principals issue --rotate` (line 331) and the
  update of the realm (line 340), it leaves a realm that create and resume take for stamped, with a password the mail server
  no longer accepts; the comment at line 251 expects a crash there to leave it unstamped. Only another `reconcile --apply`
  repairs it. TLC finds it in 13 steps as a violation of `StampedSends` (`MCCustomer.cfg` with that invariant). What
  does hold is `HealthySends`: what the report calls healthy was never left behind by a rotation.
* A password that was edited by hand is seen by no check: the report is green, the realm does not send, and no verb
  repairs it short of `gremion-vendor-mail realm-smtp --rotate`.
* Stalled gauge. A comment in `consumer.ts` names the advisory and the stalled gauge as backstops; the gauge
  counts inbox rows, and there is none when the database was away on every delivery.
* Resume. `customer-ops.sh:389` revokes the fresh principal after a failed container because "The customer is
  still suspended"; the container may have set `active` before it failed, and an active customer is then left
  without a sender. `ActiveIsServable` therefore does not speak of the sender.
* A create or reconcile run by hand on a suspended customer issues its principal again;
  `SuspendedIsLocked` is about the end of a suspend.
* `registry.ts:597` says that no cached handle outlives a status transition; a resolution in flight re-creates
  pool and Keycloak client after the eviction (the epoch guards the two caches). The request that made the
  resolution is served from them; later requests are not.
* A request that takes its context just before the entry's end may query after the pool's grace;
  `PoolOutlivesEntry` is about cached entries. `getDb` is modelled while the entry is there; one from a request that
  outlives its entry re-creates the pool, which is not modelled.
* `failSql` also matches dead_lettered rows but leaves `dead_lettered_at` set, so the table's CHECK
  rejects the update and the failure is not recorded; the row keeps its state (modelled in `FailedState`).
* outbox-replay takes no lock: a row whose pass commits after the replay read past its key is not
  republished. `RebuildComplete` is therefore about the rows published when the command starts.

## 6. Not modelled in the modelled parts

Bodies, subjects, validation messages, tracing, metrics text, `ensureConsumer`'s comparison of an
existing durable, `--since` of outbox-replay and the CLI's binding check; in the executor `--once`, evidence,
arguments and their purge, events, the audit log, the handlers themselves; a resubmission with the same
idempotency key is a stutter. A statement that PostgreSQL still executes after `timeout(1)` ended its
client is not modelled and is listed as a hazard. In the consumer, `recordFailure`'s commit and the nak that follows
are one step (a death between them is a redelivery without a nak, which `AckWaitExpires` also gives), and dlq-replay
compares an entry with the stream by its event: the code compares `Gremion-Event-Id` headers, and two messages that both lack the
header (`recovery.ts:238`) compare equal there.

In the customer lifecycle: the delete pipeline with the statuses `deleting` and `deleted`, the relay mail
transport (no principal per customer), DPIA records and the gate's evidence, the container fingerprint, the
sections of the realm contract besides the sender, the template sentinel among the sender's fields. In the module lifecycle: the runner's own lock and
ledger, purge, modules without a database. In `nats-auth`: permissions per flow, seed encoding, file modes, a run
that fails between the mkdir of its lock and the stamp in it (its lock is left as by a death). In
the registry: readiness, rate limit, the handles besides pools, deletion; the end of a resolution (pool and the two
cache writes) is one step, although other resolutions may run in the microtasks between them. Everything listed as
`not_modelled` in `PROJECT.json` is user interface, rendering, generated code or single-row requests, except
what the plan names.

## 7. Plan

1. Proofs that are left: `PublishedNotLost` across the deletion of a stream followed by a complete outbox-replay, which
   needs `EventDelivery` and `OutboxReplay` composed; the safety of the dead-letter runbook as an instance of
   `ConsumerInv`.
2. `ProtocolAdoption`: publish against concurrent edits, the numbering of resolutions; with it the
   majority and quorum arithmetic against a reference definition.
3. Late statements in `RequestExecutor`: a claim, renewal or finish applied after its client gave up.
4. The migration runner's lock and ledger, purge, the delete pipeline; the module switch's reconciler and
   the relay host's supervisor on top of `ModuleLifecycle`.
5. Org-unit outbox as a second implementation of the relay's promises; erasure fan-out; publishing's
   dispatch and the content workflow; the finance store's postings.
