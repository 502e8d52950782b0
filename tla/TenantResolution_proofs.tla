----------------------- MODULE TenantResolution_proofs ------------------------
(***************************************************************************)
(* Proofs about TenantResolution, for every set of tenants, hosts and      *)
(* resolutions in flight and every TTL: a cached context that disagrees    *)
(* with the control rows is that of a tenant whose notification is on its  *)
(* way or was lost, and a cached context's pool outlives it.               *)
(*                                                                         *)
(* What a resolution in flight has read is a promise to the cache: while   *)
(* the epoch has not moved it agrees with the rows, or its tenant is one   *)
(* of those a notification is due for (ReadsFresh).  An arriving           *)
(* notification moves the epoch of every resolution in flight, so none     *)
(* carries a stale read across it.                                         *)
(*                                                                         *)
(* The pool registry stays within its limit because its order by use is    *)
(* kept, so that there is always a least recent pool to push out.          *)
(***************************************************************************)
EXTENDS TenantResolution, FiniteSetTheorems, WellFoundedInduction, TLAPS

Flight == [pc : {"idle", "row", "primary", "finish"}, host : Hosts \cup {None},
           id : Tenants \cup {None}, primary : Hosts \cup {None}, moved : BOOLEAN]

\* The types the other parts rest on; the pool registry has an invariant of its own.
Types ==
  /\ status \in [Tenants -> {"active", "suspended"}]
  /\ owner \in [Hosts -> Tenants \cup {None}] /\ primary \in [Tenants -> Hosts \cup {None}]
  /\ feed \in Seq(Tenants) /\ lost \subseteq Tenants
  /\ bySlug \in [Tenants -> Entry] /\ byHost \in [Hosts -> Entry]
  /\ res \in [Requests -> Flight]

\* The tenants a notification is due for, or was lost.
Due == lost \cup {feed[i] : i \in DOMAIN feed}

\* A resolution knows its key, and from the row on its tenant.
FlightKnown ==
  \A r \in Requests : /\ res[r].pc = "row" => res[r].host \in Hosts \/ res[r].id \in Tenants
                      /\ res[r].pc \in {"primary", "finish"} => res[r].id \in Tenants

\* What a resolution has read, while no eviction has come in between.
ReadsFresh ==
  \A r \in Requests : res[r].pc \in {"primary", "finish"} /\ ~res[r].moved /\ res[r].id \notin Due =>
    /\ status[res[r].id] = "active"
    /\ res[r].host # None => owner[res[r].host] = res[r].id
    /\ res[r].pc = "finish" => primary[res[r].id] = res[r].primary

\* The first cache holds each tenant's context under the tenant itself.
SlugIsOwn == \A t \in Tenants : bySlug[t].id \in {t, None}

\* What the caches serve agrees with the rows, but for the tenants due.
CachesFresh ==
  /\ \A t \in Tenants : Serves(bySlug[t]) /\ t \notin Due => Agrees(bySlug[t])
  /\ \A h \in Hosts : Serves(byHost[h]) /\ byHost[h].id \notin Due => HostAgrees(h)

\* A pool has at least as long to live as the entry that holds it.
PoolsOutlive ==
  /\ \A t \in Tenants : Serves(bySlug[t]) => bySlug[t].pool >= bySlug[t].left
  /\ \A h \in Hosts : Serves(byHost[h]) => byHost[h].pool >= byHost[h].left

\* A pool registry: finitely many tenants' pools, ordered by their use.
IsRegistry(registry) ==
  /\ DOMAIN registry \subseteq Tenants /\ IsFiniteSet(DOMAIN registry)
  /\ registry \in [DOMAIN registry -> SUBSET DOMAIN registry]
  /\ \A t \in DOMAIN registry : t \notin registry[t] /\ \A u \in registry[t] : registry[u] \subseteq registry[t]

\* The registry within its limit, and the types that nothing else rests on.
RegistryInv == /\ IsRegistry(pools) /\ Cardinality(DOMAIN pools) <= POOL_REGISTRY_MAX
               /\ writes \in 0..MaxWrites /\ listening \in BOOLEAN

ResolutionInv == Types /\ FlightKnown /\ ReadsFresh /\ SlugIsOwn /\ CachesFresh /\ PoolsOutlive
-----------------------------------------------------------------------------
\* Every notification in the feed names a tenant that is due.
LEMMA DueIs ==
  ASSUME feed \in Seq(Tenants)
  PROVE  Due = lost \cup {feed[i] : i \in 1 .. Len(feed)}
BY DEF Due

\* A write of the control rows makes its tenant due, whether or not it is heard of.
LEMMA NotifyStep ==
  ASSUME Types, NEW t \in Tenants, Notify(t)
  PROVE  /\ feed' \in Seq(Tenants) /\ lost' \subseteq Tenants
         /\ Due' = Due \cup {t}
         /\ UNCHANGED <<bySlug, byHost, res>>
<1>1. feed \in Seq(Tenants) /\ lost \subseteq Tenants /\ UNCHANGED <<bySlug, byHost, res>>
  BY DEF Types, Notify, cacheVars
<1>2. CASE listening
  <2>1. feed' = Append(feed, t) /\ lost' = lost
    BY <1>2 DEF Notify
  <2>2. /\ feed' \in Seq(Tenants) /\ Len(feed) \in Nat /\ Len(feed') = Len(feed) + 1
        /\ feed'[Len(feed) + 1] = t /\ \A i \in 1 .. Len(feed) : feed'[i] = feed[i]
    BY <1>1, <2>1
  <2>3. Due' = lost \cup {feed'[i] : i \in 1 .. Len(feed')}
    BY <2>1, <2>2 DEF Due
  <2>4. {feed'[i] : i \in 1 .. Len(feed')} = {feed[i] : i \in 1 .. Len(feed)} \cup {t}
    BY <2>2
  <2> QED BY <1>1, <2>1, <2>2, <2>3, <2>4, DueIs
<1>3. CASE ~listening
  BY <1>1, <1>3 DEF Notify, Due
<1> QED BY <1>2, <1>3

\* A notification that arrives takes only its own tenant from the due ones.
LEMMA HeadLeaves ==
  ASSUME feed \in Seq(Tenants), feed # << >>, feed' = Tail(feed), lost' = lost
  PROVE  /\ feed' \in Seq(Tenants) /\ Head(feed) \in Tenants
         /\ Due' \subseteq Due /\ Due \subseteq Due' \cup {Head(feed)}
<1>1. /\ Len(feed) \in Nat \ {0} /\ feed' \in Seq(Tenants) /\ Len(feed') = Len(feed) - 1
      /\ \A i \in 1 .. Len(feed') : feed'[i] = feed[i + 1]
      /\ Head(feed) = feed[1] /\ Head(feed) \in Tenants
  OBVIOUS
<1>2. Due' = lost \cup {feed'[i] : i \in 1 .. Len(feed')}
  <2>1. DOMAIN feed' = 1 .. Len(feed')
    BY <1>1
  <2> QED BY <2>1, Zenon DEF Due
<1>3. \A i \in 1 .. Len(feed') : i + 1 \in 1 .. Len(feed)
  BY <1>1
<1>4. \A i \in 1 .. Len(feed) : i = 1 \/ (i - 1 \in 1 .. Len(feed') /\ feed'[i - 1] = feed[i])
  BY <1>1
<1>5. {feed'[i] : i \in 1 .. Len(feed')} \subseteq {feed[i] : i \in 1 .. Len(feed)}
  BY <1>1, <1>3
<1>6. {feed[i] : i \in 1 .. Len(feed)} \subseteq {feed'[i] : i \in 1 .. Len(feed')} \cup {Head(feed)}
  <2> SUFFICES ASSUME NEW i \in 1 .. Len(feed)
               PROVE  feed[i] \in {feed'[j] : j \in 1 .. Len(feed')} \cup {Head(feed)}
    OBVIOUS
  <2>1. CASE i = 1
    BY <1>1, <2>1
  <2>2. CASE i # 1
    <3>1. PICK j \in 1 .. Len(feed') : feed'[j] = feed[i]
      BY <1>4, <2>2
    <3> QED BY <3>1
  <2> QED BY <2>1, <2>2
<1> QED BY <1>1, <1>2, <1>5, <1>6, DueIs

LEMMA NoEntryIs == NoEntry \in Entry /\ NoEntry.id = None /\ ~Serves(NoEntry)
<1>1. NoEntry \in Entry
  BY GraceAssumption DEF NoEntry, Entry, Registered
<1> QED BY <1>1 DEF NoEntry, Serves

\* A change of the rows of one tenant: the others' rows stay as they are.
RowsOf(t) ==
  /\ \A u \in Tenants : u # t => status'[u] = status[u] /\ primary'[u] = primary[u]
  /\ \A h \in Hosts : \A u \in Tenants : u # t /\ owner[h] = u => owner'[h] = u

LEMMA WriteStep ==
  ASSUME Types, NEW t \in Tenants,
         \/ updateTenantStatus(t)
         \/ \E h \in Hosts : \/ addTenantDomain(t, h, TRUE) \/ addTenantDomain(t, h, FALSE)
                             \/ removeTenantDomain(t, h) \/ setPrimaryDomain(t, h)
  PROVE  /\ RowsOf(t) /\ Notify(t)
         /\ status' \in [Tenants -> {"active", "suspended"}]
         /\ owner' \in [Hosts -> Tenants \cup {None}] /\ primary' \in [Tenants -> Hosts \cup {None}]
<1>1. CASE updateTenantStatus(t)
  BY <1>1 DEF Types, updateTenantStatus, RowsOf
<1>2. ASSUME NEW h \in Hosts, addTenantDomain(t, h, TRUE) \/ addTenantDomain(t, h, FALSE)
      PROVE  /\ RowsOf(t) /\ Notify(t)
             /\ status' \in [Tenants -> {"active", "suspended"}]
             /\ owner' \in [Hosts -> Tenants \cup {None}] /\ primary' \in [Tenants -> Hosts \cup {None}]
  BY <1>2, NoneAssumption DEF Types, addTenantDomain, RowsOf
<1>3. ASSUME NEW h \in Hosts, removeTenantDomain(t, h)
      PROVE  /\ RowsOf(t) /\ Notify(t)
             /\ status' \in [Tenants -> {"active", "suspended"}]
             /\ owner' \in [Hosts -> Tenants \cup {None}] /\ primary' \in [Tenants -> Hosts \cup {None}]
  BY <1>3 DEF Types, removeTenantDomain, RowsOf
<1>4. ASSUME NEW h \in Hosts, setPrimaryDomain(t, h)
      PROVE  /\ RowsOf(t) /\ Notify(t)
             /\ status' \in [Tenants -> {"active", "suspended"}]
             /\ owner' \in [Hosts -> Tenants \cup {None}] /\ primary' \in [Tenants -> Hosts \cup {None}]
  BY <1>4 DEF Types, setPrimaryDomain, RowsOf
<1> QED BY <1>1, <1>2, <1>3, <1>4

\* A write of the rows: what was cached or read of its tenant is excused by the
\* notification, and nobody else's rows have changed.
LEMMA WriteKeeps ==
  ASSUME ResolutionInv, ControlWrite
  PROVE  ResolutionInv'
<1>1. PICK t \in Tenants :
        \/ updateTenantStatus(t)
        \/ \E h \in Hosts : \/ addTenantDomain(t, h, TRUE) \/ addTenantDomain(t, h, FALSE)
                            \/ removeTenantDomain(t, h) \/ setPrimaryDomain(t, h)
  BY DEF ControlWrite
<1>2. Types
  BY DEF ResolutionInv
<1>3. /\ RowsOf(t) /\ Notify(t)
      /\ status' \in [Tenants -> {"active", "suspended"}]
      /\ owner' \in [Hosts -> Tenants \cup {None}] /\ primary' \in [Tenants -> Hosts \cup {None}]
  BY <1>1, <1>2, WriteStep
<1>4. /\ feed' \in Seq(Tenants) /\ lost' \subseteq Tenants /\ Due' = Due \cup {t}
      /\ UNCHANGED <<bySlug, byHost, res>>
  BY <1>2, <1>3, NotifyStep
<1>5. Types'
  BY <1>2, <1>3, <1>4 DEF Types
<1>6. FlightKnown' /\ SlugIsOwn' /\ PoolsOutlive'
  BY <1>4 DEF ResolutionInv, FlightKnown, SlugIsOwn, PoolsOutlive, Serves
<1>7. ReadsFresh'
  <2> SUFFICES ASSUME NEW r \in Requests, res[r].pc \in {"primary", "finish"}, ~res[r].moved, res[r].id \notin Due \cup {t}
               PROVE  /\ status'[res[r].id] = "active"
                      /\ res[r].host # None => owner'[res[r].host] = res[r].id
                      /\ res[r].pc = "finish" => primary'[res[r].id] = res[r].primary
    BY <1>4 DEF ReadsFresh
  <2>1. res[r].id \in Tenants /\ res[r].id # t /\ res[r].host \in Hosts \cup {None}
    BY <1>2 DEF ResolutionInv, FlightKnown, Types, Flight
  <2>2. /\ status[res[r].id] = "active"
        /\ res[r].host # None => owner[res[r].host] = res[r].id
        /\ res[r].pc = "finish" => primary[res[r].id] = res[r].primary
    BY DEF ResolutionInv, ReadsFresh
  <2> QED BY <1>3, <2>1, <2>2 DEF RowsOf
<1>8. CachesFresh'
  <2>1. ASSUME NEW u \in Tenants, Serves(bySlug[u]), u \notin Due \cup {t}
        PROVE  Agrees(bySlug[u])'
    <3>1. bySlug[u].id = u /\ Agrees(bySlug[u])
      BY <2>1 DEF ResolutionInv, SlugIsOwn, CachesFresh, Serves
    <3> QED BY <1>3, <1>4, <2>1, <3>1 DEF RowsOf, Agrees
  <2>2. ASSUME NEW h \in Hosts, Serves(byHost[h]), byHost[h].id \notin Due \cup {t}
        PROVE  HostAgrees(h)'
    <3>1. HostAgrees(h) /\ byHost[h].id \in Tenants /\ byHost[h].id # t
      BY <1>2, <2>2 DEF ResolutionInv, CachesFresh, Serves, Types, Entry
    <3> QED BY <1>3, <1>4, <3>1 DEF RowsOf, HostAgrees, Agrees
  <2> QED BY <1>4, <2>1, <2>2 DEF CachesFresh, Serves
<1> QED BY <1>5, <1>6, <1>7, <1>8 DEF ResolutionInv
-----------------------------------------------------------------------------
\* An eviction drops the contexts of its tenants and moves every epoch.
LEMMA EvictKeeps ==
  ASSUME ResolutionInv, NEW ids, Evict(ids), UNCHANGED <<status, owner, primary>>,
         feed' \in Seq(Tenants), lost' \subseteq Tenants, Due \subseteq Due' \cup ids
  PROVE  ResolutionInv'
<1>1. Types
  BY DEF ResolutionInv
<1>2. /\ bySlug' = [t \in Tenants |-> IF bySlug[t].id \in ids THEN NoEntry ELSE bySlug[t]]
      /\ byHost' = [h \in Hosts |-> IF byHost[h].id \in ids THEN NoEntry ELSE byHost[h]]
      /\ res' = [r \in Requests |-> IF res[r].pc = "idle" THEN res[r] ELSE [res[r] EXCEPT !.moved = TRUE]]
  BY <1>1 DEF Evict, Drop, bumpEvictionEpoch, Types
<1>3. /\ \A t \in Tenants : \/ bySlug'[t] = NoEntry
                            \/ bySlug'[t] = bySlug[t] /\ bySlug[t].id \notin ids
      /\ \A h \in Hosts : \/ byHost'[h] = NoEntry
                          \/ byHost'[h] = byHost[h] /\ byHost[h].id \notin ids
  BY <1>2
<1>4. \A r \in Requests : /\ res'[r] \in Flight
                          /\ res'[r].pc = res[r].pc /\ res'[r].host = res[r].host /\ res'[r].id = res[r].id
                          /\ res[r].pc # "idle" => res'[r].moved
  BY <1>1, <1>2 DEF Types, Flight
<1>5. Types'
  <2>1. bySlug' \in [Tenants -> Entry] /\ byHost' \in [Hosts -> Entry]
    BY <1>1, <1>2, <1>3, NoEntryIs DEF Types
  <2>2. res' \in [Requests -> Flight]
    BY <1>2, <1>4
  <2> QED BY <1>1, <2>1, <2>2 DEF Types
<1>6. FlightKnown'
  BY <1>4 DEF ResolutionInv, FlightKnown
<1>7. ReadsFresh'
  BY <1>4 DEF ReadsFresh
<1>8. SlugIsOwn' /\ PoolsOutlive'
  BY <1>3, NoEntryIs DEF ResolutionInv, SlugIsOwn, PoolsOutlive
<1>9. CachesFresh'
  <2>1. ASSUME NEW u \in Tenants, Serves(bySlug'[u]), u \notin Due'
        PROVE  Agrees(bySlug[u])'
    <3>1. bySlug'[u] = bySlug[u] /\ bySlug[u].id \notin ids
      BY <1>3, <2>1, NoEntryIs
    <3>2. bySlug[u].id = u
      BY <2>1, <3>1 DEF ResolutionInv, SlugIsOwn, Serves
    <3>3. Agrees(bySlug[u])
      BY <2>1, <3>1, <3>2 DEF ResolutionInv, CachesFresh
    <3> QED BY <3>1, <3>3 DEF Agrees
  <2>2. ASSUME NEW h \in Hosts, Serves(byHost'[h]), byHost'[h].id \notin Due'
        PROVE  HostAgrees(h)'
    <3>1. byHost'[h] = byHost[h] /\ byHost[h].id \notin ids
      BY <1>3, <2>2, NoEntryIs
    <3>2. HostAgrees(h)
      BY <2>2, <3>1 DEF ResolutionInv, CachesFresh
    <3> QED BY <3>1, <3>2 DEF HostAgrees, Agrees
  <2> QED BY <2>1, <2>2 DEF CachesFresh, Serves
<1> QED BY <1>5, <1>6, <1>7, <1>8, <1>9 DEF ResolutionInv

LEMMA EvictionsKeep ==
  ASSUME ResolutionInv, ReceiveNotify \/ evictAllTenantRuntimes
  PROVE  ResolutionInv'
<1>1. feed \in Seq(Tenants) /\ lost \subseteq Tenants
  BY DEF ResolutionInv, Types
<1>2. CASE ReceiveNotify
  <2>1. /\ feed # << >> /\ feed' = Tail(feed) /\ lost' = lost
        /\ Evict({Head(feed)}) /\ UNCHANGED <<status, owner, primary>>
    BY <1>2 DEF ReceiveNotify, rowVars
  <2>2. feed' \in Seq(Tenants) /\ Due \subseteq Due' \cup {Head(feed)}
    BY <1>1, <2>1, HeadLeaves
  <2> QED BY <1>1, <2>1, <2>2, EvictKeeps
<1>3. CASE evictAllTenantRuntimes
  <2> DEFINE ids == {bySlug[t].id : t \in Tenants} \cup {byHost[h].id : h \in Hosts}
  <2>1. Evict(ids) /\ UNCHANGED <<status, owner, primary, feed, lost>>
    BY <1>3 DEF evictAllTenantRuntimes, rowVars, feedVars
  <2>2. Due' = Due
    BY <2>1 DEF Due
  <2> HIDE DEF ids
  <2> QED BY <1>1, <2>1, <2>2, EvictKeeps
<1> QED BY <1>2, <1>3

\* Whatever the listener, the clock of the pools and idle requests do: the rows,
\* the caches and the reads stay, and so do the tenants that are due.
LEMMA SameKeeps ==
  ASSUME ResolutionInv, UNCHANGED <<status, owner, primary, bySlug, byHost, res>>,
         feed' \in Seq(Tenants), lost' \subseteq Tenants, Due' = Due
  PROVE  ResolutionInv'
<1>1. Types'
  BY DEF ResolutionInv, Types
<1>2. FlightKnown' /\ SlugIsOwn' /\ PoolsOutlive'
  BY DEF ResolutionInv, FlightKnown, SlugIsOwn, PoolsOutlive, Serves
<1>3. ReadsFresh'
  BY DEF ResolutionInv, ReadsFresh
<1>4. CachesFresh'
  BY DEF ResolutionInv, CachesFresh, Serves, HostAgrees, Agrees
<1> QED BY <1>1, <1>2, <1>3, <1>4 DEF ResolutionInv

LEMMA ListenerKeeps ==
  ASSUME ResolutionInv, ListenerDrops \/ ListenerReconnects \/ UNCHANGED resolutionVars
  PROVE  ResolutionInv'
<1>1. feed \in Seq(Tenants) /\ lost \subseteq Tenants
  BY DEF ResolutionInv, Types
<1>2. UNCHANGED <<status, owner, primary, bySlug, byHost, res>>
  BY DEF ListenerDrops, ListenerReconnects, resolutionVars, rowVars, cacheVars
<1>3. CASE ListenerDrops
  <2>1. lost' = lost \cup {feed[i] : i \in DOMAIN feed} /\ feed' = << >>
    BY <1>3 DEF ListenerDrops
  <2>2. feed' \in Seq(Tenants) /\ DOMAIN feed' = {}
    BY <2>1
  <2>3. Due' = Due
    BY <2>1, <2>2 DEF Due
  <2>4. lost' \subseteq Tenants
    BY <1>1, <2>1
  <2> QED BY <1>2, <2>2, <2>3, <2>4, SameKeeps
<1>4. CASE ListenerReconnects \/ UNCHANGED resolutionVars
  <2>1. feed' = feed /\ lost' = lost
    BY <1>4 DEF ListenerReconnects, resolutionVars, feedVars
  <2>2. Due' = Due
    BY <2>1 DEF Due
  <2> QED BY <1>1, <1>2, <2>1, <2>2, SameKeeps
<1> QED BY <1>3, <1>4

\* Time passes: an entry loses its last moment before its pool does.
LEMMA TickKeeps ==
  ASSUME ResolutionInv, Tick
  PROVE  ResolutionInv'
<1>1. Types /\ UNCHANGED <<status, owner, primary, feed, lost, res>>
  BY DEF ResolutionInv, Tick, rowVars, feedVars
<1>2. Due' = Due
  BY <1>1 DEF Due
<1>3. ASSUME NEW e \in Entry, NEW f,
             f = [e EXCEPT !.left = IF @ > 0 THEN @ - 1 ELSE 0,
                           !.pool = IF @ \in 1..EVICTED_POOL_DRAIN_GRACE_MS THEN @ - 1 ELSE @]
      PROVE  /\ f \in Entry /\ f.id = e.id /\ f.primary = e.primary
             /\ Serves(f) => Serves(e) /\ (e.pool >= e.left => f.pool >= f.left)
  <2>1. /\ e.left \in 0..RESOLUTION_CACHE_TTL_MS /\ e.pool \in 0..Registered
        /\ RESOLUTION_CACHE_TTL_MS \in Nat /\ EVICTED_POOL_DRAIN_GRACE_MS \in Nat
        /\ Registered = EVICTED_POOL_DRAIN_GRACE_MS + 1
    BY GraceAssumption DEF Entry, Registered
  <2>2. /\ f.left = (IF e.left > 0 THEN e.left - 1 ELSE 0)
        /\ f.pool = (IF e.pool \in 1..EVICTED_POOL_DRAIN_GRACE_MS THEN e.pool - 1 ELSE e.pool)
        /\ f.id = e.id /\ f.primary = e.primary
    BY <1>3 DEF Entry
  <2>3. f.left \in 0..RESOLUTION_CACHE_TTL_MS /\ f.pool \in 0..Registered
    BY <2>1, <2>2
  <2>4. f \in Entry
    BY <1>3, <2>2, <2>3 DEF Entry
  <2>5. Serves(f) => Serves(e) /\ (e.pool >= e.left => f.pool >= f.left)
    BY <2>1, <2>2 DEF Serves
  <2> QED BY <2>2, <2>4, <2>5
<1>4. \A t \in Tenants : /\ bySlug'[t] \in Entry /\ bySlug'[t].id = bySlug[t].id /\ bySlug'[t].primary = bySlug[t].primary
                         /\ Serves(bySlug'[t]) => /\ Serves(bySlug[t])
                                                  /\ bySlug[t].pool >= bySlug[t].left => bySlug'[t].pool >= bySlug'[t].left
  BY <1>1, <1>3 DEF Tick, Aged, Types
<1>5. \A h \in Hosts : /\ byHost'[h] \in Entry /\ byHost'[h].id = byHost[h].id /\ byHost'[h].primary = byHost[h].primary
                       /\ Serves(byHost'[h]) => /\ Serves(byHost[h])
                                                /\ byHost[h].pool >= byHost[h].left => byHost'[h].pool >= byHost'[h].left
  BY <1>1, <1>3 DEF Tick, Aged, Types
<1>6. Types'
  <2>1. bySlug' \in [Tenants -> Entry] /\ byHost' \in [Hosts -> Entry]
    BY <1>1, <1>4, <1>5 DEF Tick, Aged, Types
  <2> QED BY <1>1, <2>1 DEF Types
<1>7. FlightKnown' /\ ReadsFresh'
  BY <1>1, <1>2 DEF ResolutionInv, FlightKnown, ReadsFresh
<1>8. SlugIsOwn' /\ PoolsOutlive'
  BY <1>4, <1>5 DEF ResolutionInv, SlugIsOwn, PoolsOutlive
<1>9. CachesFresh'
  BY <1>1, <1>2, <1>4, <1>5 DEF ResolutionInv, CachesFresh, HostAgrees, Agrees
<1> QED BY <1>6, <1>7, <1>8, <1>9 DEF ResolutionInv
-----------------------------------------------------------------------------
\* A step of one resolution: the other resolutions are as they were.
LEMMA FlightStep ==
  ASSUME ResolutionInv, NEW r \in Requests, NEW f \in Flight, res' = [res EXCEPT ![r] = f],
         UNCHANGED <<status, owner, primary, feed, lost>>,
         f.pc = "row" => f.host \in Hosts \/ f.id \in Tenants,
         f.pc \in {"primary", "finish"} => f.id \in Tenants,
         f.pc \in {"primary", "finish"} /\ ~f.moved /\ f.id \notin Due =>
           /\ status[f.id] = "active"
           /\ f.host # None => owner[f.host] = f.id
           /\ f.pc = "finish" => primary[f.id] = f.primary
  PROVE  /\ res' \in [Requests -> Flight] /\ Due' = Due
         /\ FlightKnown' /\ ReadsFresh'
<1>1. res \in [Requests -> Flight]
  BY DEF ResolutionInv, Types
<1>2. res'[r] = f /\ res' \in [Requests -> Flight] /\ \A q \in Requests : q # r => res'[q] = res[q]
  BY <1>1
<1>3. Due' = Due
  BY DEF Due
<1>4. FlightKnown'
  BY <1>2 DEF ResolutionInv, FlightKnown
<1>5. ReadsFresh'
  <2> SUFFICES ASSUME NEW q \in Requests, res'[q].pc \in {"primary", "finish"}, ~res'[q].moved, res'[q].id \notin Due
               PROVE  /\ status[res'[q].id] = "active"
                      /\ res'[q].host # None => owner[res'[q].host] = res'[q].id
                      /\ res'[q].pc = "finish" => primary[res'[q].id] = res'[q].primary
    BY <1>3 DEF ReadsFresh
  <2>1. CASE q = r
    BY <1>2, <2>1
  <2>2. CASE q # r
    BY <1>2, <2>2 DEF ResolutionInv, ReadsFresh
  <2> QED BY <2>1, <2>2
<1> QED BY <1>2, <1>3, <1>4, <1>5

\* The caches may only lose entries.
LEMMA CachesShrink ==
  ASSUME ResolutionInv, UNCHANGED <<status, owner, primary>>, Due' = Due,
         bySlug' \in [Tenants -> Entry], byHost' \in [Hosts -> Entry],
         \A t \in Tenants : bySlug'[t] \in {bySlug[t], NoEntry},
         \A h \in Hosts : byHost'[h] \in {byHost[h], NoEntry}
  PROVE  SlugIsOwn' /\ CachesFresh' /\ PoolsOutlive'
<1>1. SlugIsOwn' /\ PoolsOutlive'
  BY NoEntryIs DEF ResolutionInv, SlugIsOwn, PoolsOutlive
<1>2. CachesFresh'
  BY NoEntryIs DEF ResolutionInv, CachesFresh, HostAgrees, Agrees
<1> QED BY <1>1, <1>2

LEMMA IdleIs == Idle \in Flight /\ Idle.pc = "idle"
BY DEF Idle, Flight

\* A miss begins a resolution; a read of the primary host; a failed read.
LEMMA LookupKeeps ==
  ASSUME ResolutionInv, NEW r \in Requests, NEW key \in Tenants \cup Hosts, Lookup(r, key)
  PROVE  ResolutionInv'
<1> DEFINE f == [Idle EXCEPT !.pc = "row", !.host = IF key \in Hosts THEN key ELSE None,
                             !.id = IF key \in Hosts THEN None ELSE key]
<1>1. /\ f \in Flight /\ f.pc = "row" /\ (f.host \in Hosts \/ f.id \in Tenants)
  BY DEF Idle, Flight
<1>2. res' = [res EXCEPT ![r] = f] /\ UNCHANGED <<status, owner, primary, feed, lost, bySlug, byHost>>
  BY DEF Lookup, rowVars, feedVars, cacheVars
<1> HIDE DEF f
<1>3. res' \in [Requests -> Flight] /\ Due' = Due /\ FlightKnown' /\ ReadsFresh'
  BY <1>1, <1>2, FlightStep
<1>4. SlugIsOwn' /\ CachesFresh' /\ PoolsOutlive'
  BY <1>2, <1>3, CachesShrink DEF ResolutionInv, Types
<1>5. Types'
  BY <1>2, <1>3 DEF ResolutionInv, Types
<1> QED BY <1>3, <1>4, <1>5 DEF ResolutionInv

LEMMA PrimaryKeeps ==
  ASSUME ResolutionInv, NEW r \in Requests, ReadPrimaryHost(r)
  PROVE  ResolutionInv'
<1> DEFINE f == [res[r] EXCEPT !.pc = "finish", !.primary = primary[res[r].id]]
<1>1. Types /\ res[r] \in Flight /\ res[r].pc = "primary" /\ res[r].id \in Tenants
  BY DEF ResolutionInv, Types, FlightKnown, ReadPrimaryHost
<1>2. primary[res[r].id] \in Hosts \cup {None}
  BY <1>1 DEF Types
<1>3. /\ f \in Flight /\ f.pc = "finish" /\ f.host = res[r].host /\ f.id = res[r].id
      /\ f.moved = res[r].moved /\ f.primary = primary[res[r].id]
  BY <1>1, <1>2 DEF Flight
<1>4. res' = [res EXCEPT ![r] = f] /\ UNCHANGED <<status, owner, primary, feed, lost, bySlug, byHost>>
  BY <1>1 DEF ReadPrimaryHost, rowVars, feedVars, cacheVars, Types
<1> HIDE DEF f
<1>5. ~f.moved /\ f.id \notin Due =>
        /\ status[f.id] = "active"
        /\ f.host # None => owner[f.host] = f.id
        /\ f.pc = "finish" => primary[f.id] = f.primary
  BY <1>1, <1>3 DEF ResolutionInv, ReadsFresh
<1>6. res' \in [Requests -> Flight] /\ Due' = Due /\ FlightKnown' /\ ReadsFresh'
  BY <1>1, <1>3, <1>4, <1>5, FlightStep
<1>7. SlugIsOwn' /\ CachesFresh' /\ PoolsOutlive'
  BY <1>1, <1>4, <1>6, CachesShrink DEF Types
<1>8. Types'
  BY <1>1, <1>4, <1>6 DEF Types
<1> QED BY <1>6, <1>7, <1>8 DEF ResolutionInv

LEMMA FailsKeeps ==
  ASSUME ResolutionInv, NEW r \in Requests, ResolutionFails(r)
  PROVE  ResolutionInv'
<1>1. res' = [res EXCEPT ![r] = Idle] /\ UNCHANGED <<status, owner, primary, feed, lost, bySlug, byHost>>
  BY DEF ResolutionFails, rowVars, feedVars, cacheVars
<1>2. res' \in [Requests -> Flight] /\ Due' = Due /\ FlightKnown' /\ ReadsFresh'
  BY <1>1, FlightStep, IdleIs
<1>3. SlugIsOwn' /\ CachesFresh' /\ PoolsOutlive'
  BY <1>1, <1>2, CachesShrink DEF ResolutionInv, Types
<1>4. Types'
  BY <1>1, <1>2 DEF ResolutionInv, Types
<1> QED BY <1>2, <1>3, <1>4 DEF ResolutionInv

\* The row is read as it is now; a tenant that does not resolve leaves the cache.
LEMMA RowKeeps ==
  ASSUME ResolutionInv, NEW r \in Requests, ReadRow(r)
  PROVE  ResolutionInv'
<1> DEFINE h == res[r].host
           t == IF h # None THEN owner[h] ELSE res[r].id
           ok == t # None /\ status[t] = "active"
           f == IF ok THEN [res[r] EXCEPT !.pc = "primary", !.id = t] ELSE Idle
<1>1. Types /\ res[r] \in Flight /\ res[r].pc = "row" /\ (h \in Hosts \/ res[r].id \in Tenants)
  BY DEF ResolutionInv, Types, FlightKnown, ReadRow
<1>2. h \in Hosts \cup {None} /\ t \in Tenants \cup {None} /\ (h # None => h \in Hosts) /\ (h = None => t \in Tenants)
  BY <1>1, NoneAssumption DEF Types, Flight
<1>3. /\ res' = [res EXCEPT ![r] = f]
      /\ byHost' = IF ~ok /\ h # None THEN [byHost EXCEPT ![h] = NoEntry] ELSE byHost
      /\ bySlug' = IF ~ok /\ h = None THEN [bySlug EXCEPT ![t] = NoEntry] ELSE bySlug
      /\ UNCHANGED <<status, owner, primary, feed, lost>>
  BY <1>1 DEF ReadRow, rowVars, feedVars, Types
<1>4. /\ f \in Flight
      /\ ok => f.pc = "primary" /\ f.id = t /\ f.host = h
      /\ ~ok => f.pc = "idle"
  BY <1>1, <1>2, IdleIs DEF Flight
<1>5. ok => t \in Tenants /\ status[t] = "active" /\ (h # None => owner[h] = t)
  BY <1>2
<1>6. /\ f.pc # "row"
      /\ f.pc \in {"primary", "finish"} =>
           /\ f.pc = "primary" /\ f.id \in Tenants
           /\ status[f.id] = "active" /\ (f.host # None => owner[f.host] = f.id)
  BY <1>4, <1>5
<1>7. /\ bySlug' \in [Tenants -> Entry] /\ byHost' \in [Hosts -> Entry]
      /\ \A u \in Tenants : bySlug'[u] \in {bySlug[u], NoEntry}
      /\ \A g \in Hosts : byHost'[g] \in {byHost[g], NoEntry}
  BY <1>1, <1>2, <1>3, NoEntryIs DEF Types
<1> HIDE DEF f, ok, t, h
<1>8. res' \in [Requests -> Flight] /\ Due' = Due /\ FlightKnown' /\ ReadsFresh'
  BY <1>3, <1>4, <1>6, FlightStep
<1>9. SlugIsOwn' /\ CachesFresh' /\ PoolsOutlive'
  BY <1>3, <1>7, <1>8, CachesShrink
<1>10. Types'
  BY <1>1, <1>3, <1>7, <1>8 DEF Types
<1> QED BY <1>8, <1>9, <1>10 DEF ResolutionInv

\* dispose changes how long pools live, to the grace, and nothing else.
LEMMA DisposeStep ==
  ASSUME NEW e \in Entry, NEW f, NEW c \in BOOLEAN,
         f = IF c /\ e.pool = Registered THEN [e EXCEPT !.pool = EVICTED_POOL_DRAIN_GRACE_MS] ELSE e
  PROVE  /\ f \in Entry /\ f.id = e.id /\ f.primary = e.primary /\ f.left = e.left
         /\ e.pool >= e.left => f.pool >= f.left
<1>1. /\ e.left \in 0..RESOLUTION_CACHE_TTL_MS
      /\ RESOLUTION_CACHE_TTL_MS \in Nat /\ EVICTED_POOL_DRAIN_GRACE_MS = RESOLUTION_CACHE_TTL_MS
      /\ Registered = EVICTED_POOL_DRAIN_GRACE_MS + 1
  BY GraceAssumption DEF Entry, Registered
<1>2. CASE c /\ e.pool = Registered
  <2>1. f = [e EXCEPT !.pool = EVICTED_POOL_DRAIN_GRACE_MS]
    BY <1>2
  <2>2. EVICTED_POOL_DRAIN_GRACE_MS \in 0..Registered
    BY <1>1
  <2>3. f \in Entry /\ f.id = e.id /\ f.primary = e.primary /\ f.left = e.left /\ f.pool = EVICTED_POOL_DRAIN_GRACE_MS
    BY <2>1, <2>2 DEF Entry
  <2> QED BY <1>1, <2>3
<1>3. CASE ~(c /\ e.pool = Registered)
  BY <1>3
<1> QED BY <1>2, <1>3

\* The contexts of a pool that is pushed out keep all but the pool's time, and that suffices.
LEMMA DisposedCaches ==
  ASSUME Types, NEW out
  PROVE  /\ \A k \in Tenants :
              /\ Dispose(bySlug, out)[k] \in Entry /\ Dispose(bySlug, out)[k].id = bySlug[k].id
              /\ Dispose(bySlug, out)[k].primary = bySlug[k].primary /\ Dispose(bySlug, out)[k].left = bySlug[k].left
              /\ bySlug[k].pool >= bySlug[k].left => Dispose(bySlug, out)[k].pool >= Dispose(bySlug, out)[k].left
         /\ \A k \in Hosts :
              /\ Dispose(byHost, out)[k] \in Entry /\ Dispose(byHost, out)[k].id = byHost[k].id
              /\ Dispose(byHost, out)[k].primary = byHost[k].primary /\ Dispose(byHost, out)[k].left = byHost[k].left
              /\ byHost[k].pool >= byHost[k].left => Dispose(byHost, out)[k].pool >= Dispose(byHost, out)[k].left
<1>1. \A k \in Tenants :
        /\ Dispose(bySlug, out)[k] \in Entry /\ Dispose(bySlug, out)[k].id = bySlug[k].id
        /\ Dispose(bySlug, out)[k].primary = bySlug[k].primary /\ Dispose(bySlug, out)[k].left = bySlug[k].left
        /\ bySlug[k].pool >= bySlug[k].left => Dispose(bySlug, out)[k].pool >= Dispose(bySlug, out)[k].left
  <2> TAKE k \in Tenants
  <2>1. bySlug[k] \in Entry /\ DOMAIN bySlug = Tenants
    BY DEF Types
  <2>2. Dispose(bySlug, out)[k] = IF (out # None /\ bySlug[k].id = out) /\ bySlug[k].pool = Registered
                                  THEN [bySlug[k] EXCEPT !.pool = EVICTED_POOL_DRAIN_GRACE_MS] ELSE bySlug[k]
    BY <2>1 DEF Dispose
  <2>3. (out # None /\ bySlug[k].id = out) \in BOOLEAN
    OBVIOUS
  <2> QED BY <2>1, <2>2, <2>3, DisposeStep
<1>2. \A k \in Hosts :
        /\ Dispose(byHost, out)[k] \in Entry /\ Dispose(byHost, out)[k].id = byHost[k].id
        /\ Dispose(byHost, out)[k].primary = byHost[k].primary /\ Dispose(byHost, out)[k].left = byHost[k].left
        /\ byHost[k].pool >= byHost[k].left => Dispose(byHost, out)[k].pool >= Dispose(byHost, out)[k].left
  <2> TAKE k \in Hosts
  <2>1. byHost[k] \in Entry /\ DOMAIN byHost = Hosts
    BY DEF Types
  <2>2. Dispose(byHost, out)[k] = IF (out # None /\ byHost[k].id = out) /\ byHost[k].pool = Registered
                                  THEN [byHost[k] EXCEPT !.pool = EVICTED_POOL_DRAIN_GRACE_MS] ELSE byHost[k]
    BY <2>1 DEF Dispose
  <2>3. (out # None /\ byHost[k].id = out) \in BOOLEAN
    OBVIOUS
  <2> QED BY <2>1, <2>2, <2>3, DisposeStep
<1> QED BY <1>1, <1>2

\* A request asks for its pool.
LEMMA GetDbKeeps ==
  ASSUME ResolutionInv, NEW t \in Tenants, getDb(t)
  PROVE  ResolutionInv'
<1> DEFINE out == PushedOut(t)
<1>1. Types
  BY DEF ResolutionInv
<1>2. /\ bySlug' = Dispose(bySlug, out) /\ byHost' = Dispose(byHost, out)
      /\ UNCHANGED <<status, owner, primary, feed, lost, res>>
  BY DEF getDb, rowVars, feedVars
<1> HIDE DEF out
<1>3. DOMAIN bySlug' = Tenants /\ bySlug' = [k \in Tenants |-> bySlug'[k]]
      /\ DOMAIN byHost' = Hosts /\ byHost' = [h \in Hosts |-> byHost'[h]]
  BY <1>1, <1>2 DEF Dispose, Types
<1>4. \A k \in Tenants :
        /\ bySlug'[k] \in Entry /\ bySlug'[k].id = bySlug[k].id
        /\ bySlug'[k].primary = bySlug[k].primary /\ bySlug'[k].left = bySlug[k].left
        /\ bySlug[k].pool >= bySlug[k].left => bySlug'[k].pool >= bySlug'[k].left
  BY <1>1, <1>2, DisposedCaches
<1>5. \A k \in Hosts :
        /\ byHost'[k] \in Entry /\ byHost'[k].id = byHost[k].id
        /\ byHost'[k].primary = byHost[k].primary /\ byHost'[k].left = byHost[k].left
        /\ byHost[k].pool >= byHost[k].left => byHost'[k].pool >= byHost'[k].left
  BY <1>1, <1>2, DisposedCaches
<1>6. Types'
  BY <1>1, <1>2, <1>3, <1>4, <1>5 DEF Types
<1>7. Due' = Due
  BY <1>2 DEF Due
<1>8. FlightKnown' /\ ReadsFresh'
  BY <1>2, <1>7 DEF ResolutionInv, FlightKnown, ReadsFresh
<1>9. SlugIsOwn' /\ PoolsOutlive'
  BY <1>4, <1>5 DEF ResolutionInv, SlugIsOwn, PoolsOutlive, Serves
<1>10. CachesFresh'
  BY <1>2, <1>4, <1>5, <1>7 DEF ResolutionInv, CachesFresh, HostAgrees, Agrees, Serves
<1> QED BY <1>6, <1>8, <1>9, <1>10 DEF ResolutionInv

\* The context is cached while no eviction came in between.
LEMMA FinishKeeps ==
  ASSUME ResolutionInv, NEW r \in Requests, Finish(r)
  PROVE  ResolutionInv'
<1> DEFINE t == res[r].id
           h == res[r].host
           entry == [id |-> t, primary |-> res[r].primary, left |-> RESOLUTION_CACHE_TTL_MS, pool |-> Registered]
           keep == ~res[r].moved
           out == PushedOut(t)
<1>1. Types /\ res[r] \in Flight /\ res[r].pc = "finish" /\ t \in Tenants
  BY DEF ResolutionInv, Types, FlightKnown, Finish
<1>2. /\ entry \in Entry /\ entry.pool >= entry.left /\ entry.id = t /\ entry.primary = res[r].primary
  <2>1. /\ RESOLUTION_CACHE_TTL_MS \in 0..RESOLUTION_CACHE_TTL_MS /\ Registered \in 0..Registered
        /\ Registered >= RESOLUTION_CACHE_TTL_MS
    BY GraceAssumption DEF Registered
  <2>2. res[r].primary \in Hosts \cup {None}
    BY <1>1 DEF Flight
  <2> QED BY <1>1, <2>1, <2>2 DEF Entry
<1>3. /\ bySlug' = [k \in Tenants |-> IF keep /\ k = t THEN entry ELSE Dispose(bySlug, out)[k]]
      /\ byHost' = [k \in Hosts |-> IF keep /\ k = h THEN entry ELSE Dispose(byHost, out)[k]]
      /\ res' = [res EXCEPT ![r] = Idle] /\ UNCHANGED <<status, owner, primary, feed, lost>>
  BY DEF Finish, rowVars, feedVars
<1>4. keep /\ t \notin Due => /\ status[t] = "active" /\ primary[t] = res[r].primary
                              /\ h # None => owner[h] = t
  BY <1>1 DEF ResolutionInv, ReadsFresh
<1> HIDE DEF entry, out
<1>5. \A k \in Tenants :
        /\ Dispose(bySlug, out)[k] \in Entry /\ Dispose(bySlug, out)[k].id = bySlug[k].id
        /\ Dispose(bySlug, out)[k].primary = bySlug[k].primary /\ Dispose(bySlug, out)[k].left = bySlug[k].left
        /\ bySlug[k].pool >= bySlug[k].left => Dispose(bySlug, out)[k].pool >= Dispose(bySlug, out)[k].left
  BY <1>1, DisposedCaches
<1>6. \A k \in Hosts :
        /\ Dispose(byHost, out)[k] \in Entry /\ Dispose(byHost, out)[k].id = byHost[k].id
        /\ Dispose(byHost, out)[k].primary = byHost[k].primary /\ Dispose(byHost, out)[k].left = byHost[k].left
        /\ byHost[k].pool >= byHost[k].left => Dispose(byHost, out)[k].pool >= Dispose(byHost, out)[k].left
  BY <1>1, DisposedCaches
<1>7. \A k \in Tenants : \/ keep /\ k = t /\ bySlug'[k] = entry
                         \/ bySlug'[k] = Dispose(bySlug, out)[k]
  BY <1>3
<1>8. \A k \in Hosts : \/ keep /\ k = h /\ byHost'[k] = entry
                       \/ byHost'[k] = Dispose(byHost, out)[k]
  BY <1>3
<1>9. res' \in [Requests -> Flight] /\ Due' = Due /\ FlightKnown' /\ ReadsFresh'
  BY <1>3, FlightStep, IdleIs
<1>10. Types'
  <2>1. bySlug' \in [Tenants -> Entry] /\ byHost' \in [Hosts -> Entry]
    BY <1>2, <1>3, <1>5, <1>6, <1>7, <1>8
  <2> QED BY <1>1, <1>3, <1>9, <2>1 DEF Types
<1>11. SlugIsOwn' /\ PoolsOutlive'
  BY <1>2, <1>5, <1>6, <1>7, <1>8 DEF ResolutionInv, SlugIsOwn, PoolsOutlive, Serves
<1>12. CachesFresh'
  <2>1. ASSUME NEW u \in Tenants, Serves(bySlug'[u]), u \notin Due
        PROVE  Agrees(bySlug[u])'
    <3>1. CASE keep /\ u = t /\ bySlug'[u] = entry
      BY <1>2, <1>3, <1>4, <2>1, <3>1 DEF Agrees
    <3>2. CASE bySlug'[u] = Dispose(bySlug, out)[u]
      <4>1. Serves(bySlug[u]) /\ bySlug'[u].id = bySlug[u].id /\ bySlug'[u].primary = bySlug[u].primary
        BY <1>5, <2>1, <3>2 DEF Serves
      <4> QED BY <1>3, <2>1, <4>1 DEF ResolutionInv, CachesFresh, Agrees
    <3> QED BY <1>7, <3>1, <3>2
  <2>2. ASSUME NEW g \in Hosts, Serves(byHost'[g]), byHost'[g].id \notin Due
        PROVE  HostAgrees(g)'
    <3>1. CASE keep /\ g = h /\ byHost'[g] = entry
      <4>1. h # None
        BY <3>1, NoneAssumption
      <4> QED BY <1>2, <1>3, <1>4, <2>2, <3>1, <4>1 DEF HostAgrees, Agrees
    <3>2. CASE byHost'[g] = Dispose(byHost, out)[g]
      <4>1. Serves(byHost[g]) /\ byHost'[g].id = byHost[g].id /\ byHost'[g].primary = byHost[g].primary
        BY <1>6, <2>2, <3>2 DEF Serves
      <4> QED BY <1>3, <2>2, <4>1 DEF ResolutionInv, CachesFresh, HostAgrees, Agrees
    <3> QED BY <1>8, <3>1, <3>2
  <2> QED BY <1>9, <2>1, <2>2 DEF CachesFresh, Serves
<1> QED BY <1>9, <1>10, <1>11, <1>12 DEF ResolutionInv

LEMMA ResolutionInvInit == ResolutionInit => ResolutionInv
<1> SUFFICES ASSUME ResolutionInit
             PROVE  ResolutionInv
  OBVIOUS
<1>1. \A r \in Requests : res[r].pc = "idle"
  BY IdleIs DEF ResolutionInit
<1>2. Types
  BY NoEntryIs, IdleIs DEF ResolutionInit, Types
<1>3. FlightKnown /\ ReadsFresh
  BY <1>1 DEF FlightKnown, ReadsFresh
<1>4. SlugIsOwn /\ CachesFresh /\ PoolsOutlive
  BY NoEntryIs DEF ResolutionInit, SlugIsOwn, CachesFresh, PoolsOutlive
<1> QED BY <1>2, <1>3, <1>4 DEF ResolutionInv
-----------------------------------------------------------------------------
\* ResolutionInv holds however reads, writes, evictions, expiries and lost
\* connections interleave.
THEOREM ResolutionInvariant == ResolutionSpec => []ResolutionInv
<1>1. ResolutionInv /\ [ResolutionNext]_resolutionVars => ResolutionInv'
  BY WriteKeeps, EvictionsKeep, ListenerKeeps, TickKeeps, LookupKeeps, RowKeeps, PrimaryKeeps,
     FinishKeeps, FailsKeeps, GetDbKeeps DEF ResolutionNext, Resolve
<1> QED BY <1>1, ResolutionInvInit, PTL DEF ResolutionSpec

\* A cached context that disagrees with the control rows is that of a tenant whose
\* notification is on its way or was lost.
THEOREM StaleIsExcused == ResolutionSpec => []StaleOnlyUntilNotified
<1>1. ResolutionInv => StaleOnlyUntilNotified
  <2> SUFFICES ASSUME ResolutionInv
               PROVE  StaleTenants \subseteq Due
    BY DEF StaleOnlyUntilNotified, Due
  <2> QED BY DEF ResolutionInv, StaleTenants, CachesFresh
<1> QED BY <1>1, ResolutionInvariant, PTL

\* The pool of a context that is served has not been drained.
THEOREM PoolIsThere == ResolutionSpec => []PoolOutlivesEntry
<1>1. ResolutionInv => PoolOutlivesEntry
  <2> SUFFICES ASSUME ResolutionInv
               PROVE  PoolOutlivesEntry
    OBVIOUS
  <2>1. /\ \A t \in Tenants : bySlug[t].left \in Nat /\ bySlug[t].pool \in Nat
        /\ \A h \in Hosts : byHost[h].left \in Nat /\ byHost[h].pool \in Nat
    BY GraceAssumption DEF ResolutionInv, Types, Entry, Registered
  <2> QED BY <2>1 DEF ResolutionInv, PoolsOutlive, PoolOutlivesEntry, Serves
<1> QED BY <1>1, ResolutionInvariant, PTL
-----------------------------------------------------------------------------
(* The pool registry *)

LEMMA WithoutIs ==
  ASSUME NEW registry, NEW ids, IsRegistry(registry)
  PROVE  /\ DOMAIN Without(registry, ids) = DOMAIN registry \ ids
         /\ IsRegistry(Without(registry, ids))
<1> DEFINE D == DOMAIN registry
           W == Without(registry, ids)
<1>1. DOMAIN W = D \ ids /\ W = [t \in D \ ids |-> registry[t] \ ids] /\ \A t \in D \ ids : W[t] = registry[t] \ ids
  BY DEF Without
<1>2. IsFiniteSet(D \ ids)
  BY FS_Difference DEF IsRegistry
<1>3. W \in [D \ ids -> SUBSET (D \ ids)]
  BY <1>1 DEF IsRegistry
<1>4. \A t \in D \ ids : t \notin W[t] /\ \A u \in W[t] : W[u] \subseteq W[t]
  BY <1>1 DEF IsRegistry
<1> QED BY <1>1, <1>2, <1>3, <1>4 DEF IsRegistry

LEMMA PooledIs ==
  ASSUME NEW t \in Tenants, IsRegistry(pools)
  PROVE  /\ DOMAIN Pooled(t) = DOMAIN pools \cup {t}
         /\ IsRegistry(Pooled(t))
<1> DEFINE D == DOMAIN pools
           P == Pooled(t)
<1>1. /\ DOMAIN P = D \cup {t}
      /\ P = [u \in D \cup {t} |-> IF u = t THEN D \ {t} ELSE pools[u] \ {t}]
      /\ P[t] = D \ {t} /\ \A u \in D : u # t => P[u] = pools[u] \ {t}
  BY DEF Pooled
<1>2. IsFiniteSet(D \cup {t})
  BY FS_AddElement DEF IsRegistry
<1>3. P \in [D \cup {t} -> SUBSET (D \cup {t})]
  BY <1>1 DEF IsRegistry
<1>4. \A u \in D \cup {t} : u \notin P[u] /\ \A v \in P[u] : P[v] \subseteq P[u]
  BY <1>1 DEF IsRegistry
<1> QED BY <1>1, <1>2, <1>3, <1>4 DEF IsRegistry

\* A registry that holds a pool has a least recent one.
LEMMA LeastRecent ==
  ASSUME NEW registry, IsRegistry(registry), DOMAIN registry # {}
  PROVE  \E t \in DOMAIN registry : registry[t] = {}
<1> DEFINE D == DOMAIN registry
           T == {registry[t] : t \in D}
<1>1. IsWellFoundedOn(StrictSubsetOrdering(D), FiniteSubsetsOf(D))
  BY FS_StrictSubsetOrderingWellFounded DEF IsRegistry
<1>2. FiniteSubsetsOf(D) = SUBSET D
  BY FS_FiniteSubsetsOfFinite DEF IsRegistry
<1>3. T \subseteq FiniteSubsetsOf(D) /\ T # {}
  BY <1>2 DEF IsRegistry
<1>4. PICK x \in T : \A y \in T : ~(<<y, x>> \in StrictSubsetOrdering(D))
  BY <1>1, <1>3, WFMin
<1>5. PICK t \in D : x = registry[t]
  BY <1>4
<1>6. ASSUME NEW u \in registry[t]
      PROVE  FALSE
  <2>1. /\ u \in D /\ registry[u] \in SUBSET D /\ registry[t] \in SUBSET D
        /\ registry[u] \subseteq registry[t] /\ registry[u] # registry[t]
    BY <1>5 DEF IsRegistry
  <2>2. <<registry[u], registry[t]>> \in StrictSubsetOrdering(D)
    BY <2>1 DEF StrictSubsetOrdering
  <2> QED BY <1>4, <1>5, <2>1, <2>2
<1> QED BY <1>6

\* A pool is added, and one too many pushes one out.
LEMMA FinishBounded ==
  ASSUME NEW t \in Tenants, IsRegistry(pools), Cardinality(DOMAIN pools) <= POOL_REGISTRY_MAX,
         pools' = Without(Pooled(t), {PushedOut(t)})
  PROVE  IsRegistry(pools') /\ Cardinality(DOMAIN pools') <= POOL_REGISTRY_MAX
<1> DEFINE D == DOMAIN pools
           P == DOMAIN Pooled(t)
<1>1. P = D \cup {t} /\ IsRegistry(Pooled(t)) /\ IsFiniteSet(P) /\ IsFiniteSet(D)
  BY PooledIs DEF IsRegistry
<1>2. IsRegistry(pools') /\ DOMAIN pools' = P \ {PushedOut(t)}
  BY <1>1, WithoutIs
<1>3. /\ Cardinality(P) \in Nat /\ Cardinality(D) \in Nat /\ POOL_REGISTRY_MAX \in Nat
      /\ Cardinality(P) <= Cardinality(D) + 1
  BY <1>1, FS_CardinalityType, FS_AddElement, BoundsAssumption
<1>4. CASE Cardinality(P) > POOL_REGISTRY_MAX
  <2>1. PushedOut(t) = CHOOSE u \in P : Pooled(t)[u] = {}
    BY <1>4 DEF PushedOut
  <2>2. P # {}
    BY <1>1
  <2>3. PushedOut(t) \in P
    BY <1>1, <2>1, <2>2, LeastRecent
  <2>4. Cardinality(P \ {PushedOut(t)}) = Cardinality(P) - 1
    BY <1>1, <2>3, FS_RemoveElement
  <2> QED BY <1>2, <1>3, <2>4
<1>5. CASE ~(Cardinality(P) > POOL_REGISTRY_MAX)
  <2>1. PushedOut(t) = None
    BY <1>5 DEF PushedOut
  <2>2. P \ {PushedOut(t)} = P
    BY <1>1, <2>1, NoneAssumption DEF IsRegistry
  <2> QED BY <1>2, <1>3, <1>5, <2>2
<1> QED BY <1>4, <1>5

\* An eviction leaves no more pools than there were.
LEMMA EvictBounded ==
  ASSUME NEW ids, IsRegistry(pools), Cardinality(DOMAIN pools) <= POOL_REGISTRY_MAX, Evict(ids)
  PROVE  IsRegistry(pools') /\ Cardinality(DOMAIN pools') <= POOL_REGISTRY_MAX
<1>1. pools' = Without(pools, ids)
  BY DEF Evict
<1>2. DOMAIN pools' = DOMAIN pools \ ids /\ IsRegistry(pools')
  BY <1>1, WithoutIs
<1>3. IsFiniteSet(DOMAIN pools) /\ DOMAIN pools' \subseteq DOMAIN pools
  BY <1>2 DEF IsRegistry
<1>4. /\ Cardinality(DOMAIN pools') <= Cardinality(DOMAIN pools)
      /\ Cardinality(DOMAIN pools) \in Nat /\ Cardinality(DOMAIN pools') \in Nat
  BY <1>2, <1>3, FS_Subset, FS_CardinalityType DEF IsRegistry
<1> QED BY <1>2, <1>4, BoundsAssumption

LEMMA RegistryInit == ResolutionInit => RegistryInv
<1> SUFFICES ASSUME ResolutionInit
             PROVE  RegistryInv
  OBVIOUS
<1>1. DOMAIN pools = {} /\ pools \in [{} -> SUBSET {}] /\ writes = 0 /\ listening \in BOOLEAN
  BY DEF ResolutionInit
<1>2. IsRegistry(pools)
  BY <1>1, FS_EmptySet DEF IsRegistry
<1> QED BY <1>1, <1>2, FS_EmptySet, BoundsAssumption DEF RegistryInv

LEMMA RegistryStep ==
  ASSUME ResolutionInv, RegistryInv, [ResolutionNext]_resolutionVars
  PROVE  RegistryInv'
<1>1. CASE ControlWrite
  <2>1. pools' = pools /\ listening' = listening /\ writes < MaxWrites /\ writes' = writes + 1
    BY <1>1 DEF ControlWrite, updateTenantStatus, addTenantDomain, removeTenantDomain, setPrimaryDomain, Notify, cacheVars
  <2> QED BY <2>1, BoundsAssumption DEF RegistryInv
<1>2. CASE ReceiveNotify \/ evictAllTenantRuntimes
  <2>1. writes' = writes /\ listening' = listening /\ \E ids : Evict(ids)
    BY <1>2 DEF ReceiveNotify, evictAllTenantRuntimes, rowVars, feedVars
  <2> QED BY <2>1, EvictBounded DEF RegistryInv
<1>3. ASSUME NEW r \in Requests, Finish(r)
      PROVE  RegistryInv'
  <2>1. /\ res[r].id \in Tenants /\ writes' = writes /\ listening' = listening
        /\ pools' = Without(Pooled(res[r].id), {PushedOut(res[r].id)})
    BY <1>3 DEF Finish, ResolutionInv, FlightKnown, rowVars, feedVars
  <2> QED BY <2>1, FinishBounded DEF RegistryInv
<1>4. CASE ListenerDrops \/ ListenerReconnects
  BY <1>4 DEF ListenerDrops, ListenerReconnects, rowVars, cacheVars, RegistryInv
<1>5. CASE Tick \/ UNCHANGED resolutionVars
  BY <1>5 DEF Tick, resolutionVars, rowVars, feedVars, cacheVars, RegistryInv
<1>6. ASSUME NEW r \in Requests,
             \/ ReadRow(r) \/ ReadPrimaryHost(r) \/ ResolutionFails(r)
             \/ \E k \in Tenants \cup Hosts : Lookup(r, k)
      PROVE  RegistryInv'
  BY <1>6 DEF ReadRow, ReadPrimaryHost, ResolutionFails, Lookup, rowVars, feedVars, cacheVars, RegistryInv
<1>7. ASSUME NEW t \in Tenants, getDb(t)
      PROVE  RegistryInv'
  <2>1. pools' = Without(Pooled(t), {PushedOut(t)}) /\ writes' = writes /\ listening' = listening
    BY <1>7 DEF getDb, rowVars, feedVars
  <2> QED BY <2>1, FinishBounded DEF RegistryInv
<1> QED BY <1>1, <1>2, <1>3, <1>4, <1>5, <1>6, <1>7 DEF ResolutionNext, Resolve

\* Rows, caches, reads and registry keep their types; in particular the registry
\* never holds more than POOL_REGISTRY_MAX pools, which bounds the connections.
THEOREM ResolutionTypeCorrect == ResolutionSpec => []ResolutionTypeOK
<1>1. RegistryInv /\ ResolutionInv /\ [ResolutionNext]_resolutionVars => RegistryInv'
  BY RegistryStep
<1>2. ResolutionInv /\ RegistryInv => ResolutionTypeOK
  BY DEF ResolutionInv, RegistryInv, Types, Flight, IsRegistry, ResolutionTypeOK
<1> QED BY <1>1, <1>2, RegistryInit, ResolutionInvariant, PTL DEF ResolutionSpec
=============================================================================
