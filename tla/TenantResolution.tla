--------------------------- MODULE TenantResolution ---------------------------
(* Which tenant a host is served as: the control rows (tenant, tenant_domain)  *)
(* and one app process of gremion-ui with its two resolution caches, the pools *)
(* behind the cached contexts, and the LISTEN connection that tells it to evict*)
(* (replicas share nothing but the control database, so one is enough).  The   *)
(* rows are changed by other processes.  A resolution awaits two reads of the  *)
(* control database; evictions, expiry and other resolutions run in between.   *)
(* Time is what is left: an entry counts down its TTL, a pool its drain.       *)
EXTENDS Naturals, Sequences, FiniteSets

CONSTANTS
  Tenants, Hosts, None,
  Requests,       \* the resolutions that may be in flight at once
  RESOLUTION_CACHE_TTL_MS, EVICTED_POOL_DRAIN_GRACE_MS,
  POOL_REGISTRY_MAX,
  MaxWrites       \* bound: changes of the control rows

ASSUME NoneAssumption == None \notin Tenants \cup Hosts
ASSUME GraceAssumption ==
  /\ RESOLUTION_CACHE_TTL_MS \in Nat \ {0}
  /\ EVICTED_POOL_DRAIN_GRACE_MS = RESOLUTION_CACHE_TTL_MS
ASSUME BoundsAssumption == POOL_REGISTRY_MAX \in Nat \ {0} /\ MaxWrites \in Nat

VARIABLES
  status,     \* tenant.status; what is not active does not resolve
  owner,      \* the tenant of each host's tenant_domain row
  primary,    \* the host whose row is_primary, per tenant
  writes,     \* changes made so far
  listening,  \* whether the LISTEN connection is up
  feed,       \* notifications on their way to this process
  lost,       \* tenants of which a notification never came
  bySlug,     \* _resolutionCache
  byHost,     \* _hostResolutionCache
  pools,      \* the pool registry: for each of its keys, those used less recently
  res         \* the resolutions in flight

rowVars == <<status, owner, primary, writes>>
feedVars == <<listening, feed, lost>>
cacheVars == <<bySlug, byHost, pools>>
resolutionVars == <<rowVars, feedVars, cacheVars, res>>

\* A pool that is still registered; once pushed out it has its grace left.
Registered == EVICTED_POOL_DRAIN_GRACE_MS + 1
NoEntry == [id |-> None, primary |-> None, left |-> 0, pool |-> 0]
Entry == [id : Tenants \cup {None}, primary : Hosts \cup {None},
          left : 0..RESOLUTION_CACHE_TTL_MS, pool : 0..Registered]
Idle == [pc |-> "idle", host |-> None, id |-> None, primary |-> None, moved |-> FALSE]

ResolutionTypeOK ==
  /\ status \in [Tenants -> {"active", "suspended"}]
  /\ owner \in [Hosts -> Tenants \cup {None}] /\ primary \in [Tenants -> Hosts \cup {None}]
  /\ writes \in 0..MaxWrites
  /\ listening \in BOOLEAN /\ feed \in Seq(Tenants) /\ lost \subseteq Tenants
  /\ bySlug \in [Tenants -> Entry] /\ byHost \in [Hosts -> Entry]
  /\ DOMAIN pools \subseteq Tenants /\ pools \in [DOMAIN pools -> SUBSET DOMAIN pools]
  /\ Cardinality(DOMAIN pools) <= POOL_REGISTRY_MAX
  /\ res \in [Requests -> [pc : {"idle", "row", "primary", "finish"}, host : Hosts \cup {None},
                           id : Tenants \cup {None}, primary : Hosts \cup {None}, moved : BOOLEAN]]

\* Every tenant has been provisioned, its primary host first; the process has booted, listening or not.
ResolutionInit ==
  /\ status = [t \in Tenants |-> "active"]
  /\ owner \in [Hosts -> Tenants]
  /\ primary \in [Tenants -> Hosts \cup {None}]
  /\ \A t \in Tenants : LET hosts == {h \in Hosts : owner[h] = t}
                         IN  IF hosts = {} THEN primary[t] = None ELSE primary[t] \in hosts
  /\ writes = 0 /\ listening \in BOOLEAN /\ feed = << >> /\ lost = {}
  /\ bySlug = [t \in Tenants |-> NoEntry] /\ byHost = [h \in Hosts |-> NoEntry]
  /\ pools = [t \in {} |-> {}] /\ res = [r \in Requests |-> Idle]

-----------------------------------------------------------------------------
(* Writes of the control rows, each in one transaction with its pg_notify.    *)

Notify(t) ==
  /\ writes < MaxWrites /\ writes' = writes + 1
  /\ feed' = IF listening THEN Append(feed, t) ELSE feed
  /\ lost' = IF listening THEN lost ELSE lost \cup {t}
  /\ UNCHANGED <<listening, cacheVars, res>>

\* flipTenantStatus and updateTenantStatus.
updateTenantStatus(t) ==
  /\ status' = [status EXCEPT ![t] = IF @ = "active" THEN "suspended" ELSE "active"]
  /\ Notify(t)
  /\ UNCHANGED <<owner, primary>>

\* A host of another tenant is refused.
addTenantDomain(t, h, isPrimary) ==
  /\ owner[h] \in {None, t}
  /\ owner' = [owner EXCEPT ![h] = t]
  /\ primary' = IF isPrimary THEN [primary EXCEPT ![t] = h] ELSE primary
  /\ Notify(t)
  /\ UNCHANGED status

\* The primary host goes last.
removeTenantDomain(t, h) ==
  /\ owner[h] = t
  /\ primary[t] # h \/ \A o \in Hosts \ {h} : owner[o] # t
  /\ owner' = [owner EXCEPT ![h] = None]
  /\ primary' = IF primary[t] = h THEN [primary EXCEPT ![t] = None] ELSE primary
  /\ Notify(t)
  /\ UNCHANGED status

setPrimaryDomain(t, h) ==
  /\ owner[h] = t
  /\ primary' = [primary EXCEPT ![t] = h]
  /\ Notify(t)
  /\ UNCHANGED <<status, owner>>

-----------------------------------------------------------------------------
(* Eviction.                                                                  *)

\* Mutation: the resolutions in flight do not learn of the eviction.
FaultBumpEvictionEpoch == UNCHANGED res

\* Every resolution in flight will find that the epoch has moved.
bumpEvictionEpoch ==
  res' = [r \in Requests |-> IF res[r].pc = "idle" THEN res[r] ELSE [res[r] EXCEPT !.moved = TRUE]]

Drop(cache, ids) == [k \in DOMAIN cache |-> IF cache[k].id \in ids THEN NoEntry ELSE cache[k]]

\* The registry without some of its keys.
Without(registry, ids) == [t \in DOMAIN registry \ ids |-> registry[t] \ ids]

\* evictTenantRuntime, for each of the ids: both caches, then the pool.
Evict(ids) ==
  /\ bumpEvictionEpoch
  /\ bySlug' = Drop(bySlug, ids) /\ byHost' = Drop(byHost, ids)
  /\ pools' = Without(pools, ids)

\* The listener's callback.
ReceiveNotify ==
  /\ feed # << >>
  /\ Evict({Head(feed)})
  /\ feed' = Tail(feed)
  /\ UNCHANGED <<rowVars, listening, lost>>

\* POST /api/internal/evict: every tenant the caches name.
evictAllTenantRuntimes ==
  /\ Evict({bySlug[t].id : t \in Tenants} \cup {byHost[h].id : h \in Hosts})
  /\ UNCHANGED <<rowVars, feedVars>>

ListenerDrops ==
  /\ listening /\ listening' = FALSE
  /\ lost' = lost \cup {feed[i] : i \in DOMAIN feed} /\ feed' = << >>
  /\ UNCHANGED <<rowVars, cacheVars, res>>

ListenerReconnects ==
  /\ ~listening /\ listening' = TRUE
  /\ UNCHANGED <<rowVars, feed, lost, cacheVars, res>>

-----------------------------------------------------------------------------
(* resolveTenantByHost, resolveTenantBySlug, resolveTenantById.               *)

\* Mutation: an entry is good for as long as it is there.
FaultServes(entry) == entry.id # None

\* cached && cached.expiresAt > Date.now()
Serves(entry) == entry.id # None /\ entry.left > 0

\* A miss; what a hit leads to is getDb.  The epoch is captured before the first read.
Lookup(r, key) ==
  /\ res[r].pc = "idle"
  /\ IF key \in Hosts THEN ~Serves(byHost[key]) ELSE ~Serves(bySlug[key])
  /\ res' = [res EXCEPT ![r] = [Idle EXCEPT !.pc = "row",
                                            !.host = IF key \in Hosts THEN key ELSE None,
                                            !.id = IF key \in Hosts THEN None ELSE key]]
  /\ UNCHANGED <<rowVars, feedVars, cacheVars>>

\* The row, joined over tenant_domain for a host.  Unknown or not active: what
\* the cache still holds under the key goes, and null is returned.
ReadRow(r) ==
  /\ res[r].pc = "row"
  /\ LET h == res[r].host
         t == IF h # None THEN owner[h] ELSE res[r].id
         ok == t # None /\ status[t] = "active"
     IN /\ res' = [res EXCEPT ![r] = IF ok THEN [@ EXCEPT !.pc = "primary", !.id = t] ELSE Idle]
        /\ byHost' = IF ~ok /\ h # None THEN [byHost EXCEPT ![h] = NoEntry] ELSE byHost
        /\ bySlug' = IF ~ok /\ h = None THEN [bySlug EXCEPT ![t] = NoEntry] ELSE bySlug
  /\ UNCHANGED <<rowVars, feedVars, pools>>

ReadPrimaryHost(r) ==
  /\ res[r].pc = "primary"
  /\ res' = [res EXCEPT ![r].pc = "finish", ![r].primary = primary[res[r].id]]
  /\ UNCHANGED <<rowVars, feedVars, cacheVars>>

\* getPoolForTenant: the pool becomes the most recent one; one pool too many
\* pushes the least recent out.
Pooled(t) == [u \in DOMAIN pools \cup {t} |->
                IF u = t THEN DOMAIN pools \ {t} ELSE pools[u] \ {t}]

\* Mutation: the registry has no limit.
FaultPushedOut(t) == None

PushedOut(t) == IF Cardinality(DOMAIN Pooled(t)) > POOL_REGISTRY_MAX
                THEN CHOOSE u \in DOMAIN Pooled(t) : Pooled(t)[u] = {} ELSE None

\* Mutation: a pool that is pushed out is drained at once.
FaultDispose(cache, t) ==
  [k \in DOMAIN cache |-> IF t # None /\ cache[k].id = t /\ cache[k].pool = Registered
                          THEN [cache[k] EXCEPT !.pool = 0] ELSE cache[k]]

\* dispose("evict"): the contexts that hold the pool keep it for the grace.
Dispose(cache, t) ==
  [k \in DOMAIN cache |-> IF t # None /\ cache[k].id = t /\ cache[k].pool = Registered
                          THEN [cache[k] EXCEPT !.pool = EVICTED_POOL_DRAIN_GRACE_MS] ELSE cache[k]]

\* A request that a cached context serves asks for its pool, at every use: the
\* pool is made anew if it has been pushed out, and may push out another.
getDb(t) ==
  /\ \E entry \in {bySlug[u] : u \in Tenants} \cup {byHost[h] : h \in Hosts} : entry.id = t /\ Serves(entry)
  /\ pools' = Without(Pooled(t), {PushedOut(t)})
  /\ bySlug' = Dispose(bySlug, PushedOut(t)) /\ byHost' = Dispose(byHost, PushedOut(t))
  /\ UNCHANGED <<rowVars, feedVars, res>>

\* buildTenantContext's last part and both cache writes, which are discarded
\* when the epoch has moved.
Finish(r) ==
  /\ res[r].pc = "finish"
  /\ LET t == res[r].id
         h == res[r].host
         entry == [id |-> t, primary |-> res[r].primary,
                   left |-> RESOLUTION_CACHE_TTL_MS, pool |-> Registered]
         keep == ~res[r].moved
     IN /\ pools' = Without(Pooled(t), {PushedOut(t)})
        /\ bySlug' = [k \in Tenants |-> IF keep /\ k = t THEN entry ELSE Dispose(bySlug, PushedOut(t))[k]]
        /\ byHost' = [k \in Hosts |-> IF keep /\ k = h THEN entry ELSE Dispose(byHost, PushedOut(t))[k]]
  /\ res' = [res EXCEPT ![r] = Idle]
  /\ UNCHANGED <<rowVars, feedVars>>

\* The control database is away: 503.
ResolutionFails(r) ==
  /\ res[r].pc \in {"row", "primary"}
  /\ res' = [res EXCEPT ![r] = Idle]
  /\ UNCHANGED <<rowVars, feedVars, cacheVars>>

\* Time passes for the entries and for the pools that have been pushed out.
Aged(cache) ==
  [k \in DOMAIN cache |->
     [cache[k] EXCEPT !.left = IF @ > 0 THEN @ - 1 ELSE 0,
                      !.pool = IF @ \in 1..EVICTED_POOL_DRAIN_GRACE_MS THEN @ - 1 ELSE @]]

Tick ==
  /\ bySlug' = Aged(bySlug) /\ byHost' = Aged(byHost)
  /\ UNCHANGED <<rowVars, feedVars, pools, res>>

-----------------------------------------------------------------------------
ControlWrite ==
  \E t \in Tenants :
    \/ updateTenantStatus(t)
    \/ \E h \in Hosts : \/ addTenantDomain(t, h, TRUE) \/ addTenantDomain(t, h, FALSE)
                        \/ removeTenantDomain(t, h) \/ setPrimaryDomain(t, h)

Resolve(r) == ReadRow(r) \/ ReadPrimaryHost(r) \/ Finish(r)

ResolutionNext ==
  \/ ControlWrite \/ ReceiveNotify \/ evictAllTenantRuntimes \/ ListenerDrops \/ ListenerReconnects
  \/ \E r \in Requests : Resolve(r) \/ ResolutionFails(r) \/ \E k \in Tenants \cup Hosts : Lookup(r, k)
  \/ \E t \in Tenants : getDb(t)
  \/ Tick

\* The clock runs, and a read that was sent is answered or fails.  Nothing is
\* assumed of the listener.
ResolutionFairness ==
  WF_resolutionVars(Tick) /\ \A r \in Requests : WF_resolutionVars(Resolve(r))

ResolutionSpec == ResolutionInit /\ [][ResolutionNext]_resolutionVars /\ ResolutionFairness

-----------------------------------------------------------------------------
\* What an entry says agrees with the control rows.
Agrees(entry) == status[entry.id] = "active" /\ primary[entry.id] = entry.primary
HostAgrees(h) == Agrees(byHost[h]) /\ owner[h] = byHost[h].id

StaleTenants ==
  {t \in Tenants : Serves(bySlug[t]) /\ ~Agrees(bySlug[t])}
    \cup {byHost[h].id : h \in {x \in Hosts : Serves(byHost[x]) /\ ~HostAgrees(x)}}

\* No host is served as a tenant that does not own it, and no tenant that is
\* not active is served at all, once the notification has arrived: a cached
\* context that disagrees with the control rows is that of a tenant whose
\* eviction is still on its way, or was lost.  In particular no resolution that
\* was in flight puts back what an eviction has dropped.
StaleOnlyUntilNotified == StaleTenants \subseteq lost \cup {feed[i] : i \in DOMAIN feed}

\* Lost notifications, too: once the control rows stop changing the caches come
\* to agree with them and stay so (the TTL is the backstop).
CachesConverge == <>[](StaleTenants = {})

\* pool-registry.ts: a cached context's pool is never drained underneath it
\* because other tenants pushed it out, however the two expiries interleave.
PoolOutlivesEntry ==
  /\ \A t \in Tenants : Serves(bySlug[t]) => bySlug[t].pool > 0
  /\ \A h \in Hosts : Serves(byHost[h]) => byHost[h].pool > 0
=============================================================================
