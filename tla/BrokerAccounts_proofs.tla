------------------------ MODULE BrokerAccounts_proofs -------------------------
(***************************************************************************)
(* Proofs about BrokerAccounts, for every set of tenants and modules and   *)
(* every number of keys: as long as no run is robbed of the store's lock,  *)
(* nobody is admitted on a key whose seed is gone, what a run evicted      *)
(* stays out, and no run drops another tenant's users from the accounts    *)
(* file.                                                                   *)
(*                                                                         *)
(* The argument: mkdir lets one run past the lock, wherever runs died and  *)
(* whichever took a lock over, so that the bytes a run has rendered are    *)
(* those of the store until it ends (BytesInv), although it deletes seeds  *)
(* on the way; and a tenant whose run returned holds the seeds of its set  *)
(* and no others until its next run (EnsuredInv).                          *)
(***************************************************************************)
EXTENDS BrokerAccounts, TLAPS

\* A run that has not passed SeedStore.lock.
Waiting == {"idle", "clear", "take"}

Rendered == {"write", "reload", "revoked", "remove", "marker", "release"}

\* A run past the lock has it.
LockInv(r) == run[r].pc \notin Waiting => lock = r

Held(k) == seeds[k[1]][k[2]] = k[3]

\* From the rendering on, the bytes are those of the store without what is to be dropped, ...
BytesInv(r) ==
  run[r].pc \in Rendered =>
    \A k \in Keys : k \in run[r].bytes <=> Held(k) /\ ~(k[1] = r /\ k[2] \in run[r].pending)

\* ... which is all that the tenant's set does not name.
SetInv(t) ==
  run[t].pc \in Rendered =>
    /\ \A o \in Owners : seeds[t][o] # 0 => o \in usersFor(run[t].want) \cup {ADMIN_DIR} \cup run[t].pending
    /\ \A o \in usersFor(run[t].want) \cup {ADMIN_DIR} : seeds[t][o] # 0 /\ o \notin run[t].pending

\* The bytes are in the file once they are written, ...
FileInv(r) == run[r].pc \in Rendered \ {"write"} => file = run[r].bytes

\* ... the dropped keys are refused once that was asked, ...
RevokedInv(t) ==
  run[t].pc \in {"remove", "marker", "release"} =>
    \A k \in server : ~(k[1] = t /\ k[2] \in run[t].pending)

\* ... and their seeds are gone before the run returns.
RemovedInv(t) ==
  run[t].pc \in {"marker", "release"} => \A m \in run[t].pending : seeds[t][m] = 0

\* What holds of one run, init's or a tenant's.
RunInv(r) == /\ LockInv(r) /\ BytesInv(r) /\ FileInv(r)
             /\ r \in Tenants => SetInv(r) /\ RevokedInv(r) /\ RemovedInv(r)

KeysSeeded == \A k \in server \cup file : Held(k)

\* A tenant whose last run returned: no run of it lives, and its seeds are those of its set.
EnsuredInv ==
  \A t \in Tenants : ensured[t].ok =>
    /\ At(t, "idle")
    /\ \A o \in Owners : seeds[t][o] # 0 <=> o \in usersFor(ensured[t].set) \cup {ADMIN_DIR}

SafeInv == /\ \A r \in Actors : RunInv(r)
           /\ KeysSeeded /\ EnsuredInv /\ NoLostUpdate

BrokerInv == BrokerTypeOK /\ (~robbed => SafeInv)
-----------------------------------------------------------------------------
LEMMA KeyFields ==
  \A k \in Keys : /\ k[1] \in Tenants /\ k[2] \in Owners /\ k[3] \in 1..MaxKeys
                  /\ k = <<k[1], k[2], k[3]>>
BY DEF Keys

LEMMA OwnersAre == /\ ADMIN_DIR \in Owners /\ KERNEL \in Owners /\ Modules \subseteq Owners
                   /\ Owners = Modules \cup {ADMIN_DIR, KERNEL}
BY DEF Owners

\* The store renders the keys of the seeds it holds, without the pending ones.
LEMMA StoreKeys ==
  ASSUME BrokerTypeOK, NEW t, NEW p
  PROVE  \A k : k \in stateFromStore(t, p) <=> k \in Keys /\ Held(k) /\ ~(k[1] = t /\ k[2] \in p)
<1> TAKE k
<1>1. ASSUME k \in stateFromStore(t, p)
      PROVE  k \in Keys /\ Held(k) /\ ~(k[1] = t /\ k[2] \in p)
  <2>1. k \in Keys /\ ~(k[1] = t /\ k[2] \in p)
    BY <1>1 DEF stateFromStore
  <2>2. PICK u \in Tenants, o \in Owners : k = <<u, o, seeds[u][o]>>
    BY <1>1 DEF stateFromStore, KeyOf
  <2> QED BY <2>1, <2>2 DEF Held
<1>2. ASSUME k \in Keys, Held(k), ~(k[1] = t /\ k[2] \in p)
      PROVE  k \in stateFromStore(t, p)
  <2>1. k[1] \in Tenants /\ k[2] \in Owners /\ k = KeyOf(k[1], k[2])
    BY <1>2, KeyFields DEF KeyOf, Held
  <2> QED BY <1>2, <2>1 DEF stateFromStore
<1> QED BY <1>1, <1>2

\* A seed that is held is a key.
LEMMA SeedIsKey ==
  ASSUME BrokerTypeOK, NEW t \in Tenants, NEW o \in Owners, seeds[t][o] # 0
  PROVE  /\ KeyOf(t, o) \in Keys /\ Held(KeyOf(t, o))
         /\ KeyOf(t, o)[1] = t /\ KeyOf(t, o)[2] = o
<1>1. seeds[t][o] \in 1..MaxKeys
  BY MaxKeysAssumption DEF BrokerTypeOK
<1> QED BY <1>1 DEF KeyOf, Keys, Held

Runs == [pc : Labels, want : SUBSET Modules, pending : SUBSET Modules, bytes : SUBSET Keys, loaded : BOOLEAN]

LEMMA RunsAre == BrokerTypeOK => run \in [Actors -> Runs]
BY DEF BrokerTypeOK, Runs

LEMMA TenantsAct == Tenants \subseteq Actors /\ Deploy \in Actors /\ Deploy \notin Tenants
BY ActorsAssumption DEF Actors

\* A run moves on to another statement.
LEMMA GotoStep ==
  ASSUME run \in [Actors -> Runs], NEW r \in Actors, NEW l \in Labels, Goto(r, l)
  PROVE  /\ run' \in [Actors -> Runs]
         /\ run'[r].pc = l /\ run'[r].want = run[r].want /\ run'[r].pending = run[r].pending
         /\ run'[r].bytes = run[r].bytes /\ run'[r].loaded = run[r].loaded
         /\ \A u \in Actors : u # r => run'[u] = run[u]
BY DEF Goto, Runs

\* A run begins, at the lock or past it.
LEMMA BeginStep ==
  ASSUME BrokerTypeOK, NEW r \in Actors, NEW want \in SUBSET Modules, NEW l \in Labels, Begins(r, want, l)
  PROVE  /\ run' \in [Actors -> Runs] /\ run'[r].pc = l
         /\ \A u \in Actors : u # r => run'[u] = run[u]
         /\ ensured' \in [Tenants -> [ok : BOOLEAN, set : SUBSET Modules]]
         /\ \A t \in Tenants : ensured'[t].ok => t # r /\ ensured'[t] = ensured[t]
<1>1. run \in [Actors -> Runs]
  BY RunsAre
<1>2. [Idle EXCEPT !.pc = l, !.want = want] \in Runs /\ [Idle EXCEPT !.pc = l, !.want = want].pc = l
  BY DEF Idle, Runs
<1>3. /\ run' \in [Actors -> Runs] /\ run'[r].pc = l
      /\ \A u \in Actors : u # r => run'[u] = run[u]
  BY <1>1, <1>2 DEF Begins
<1>4. /\ ensured' \in [Tenants -> [ok : BOOLEAN, set : SUBSET Modules]]
      /\ \A t \in Tenants : ensured'[t].ok => t # r /\ ensured'[t] = ensured[t]
  BY DEF Begins, Tells, BrokerTypeOK
<1> QED BY <1>3, <1>4

\* A run ends.
LEMMA EndStep ==
  ASSUME run \in [Actors -> Runs], NEW r \in Actors, run' = [run EXCEPT ![r] = Idle]
  PROVE  /\ run' \in [Actors -> Runs] /\ run'[r].pc = "idle"
         /\ \A u \in Actors : u # r => run'[u] = run[u]
BY DEF Idle, Runs, Labels

\* What a tenant's run renders.
LEMMA RenderStep ==
  ASSUME BrokerTypeOK, NEW t \in Tenants, Render(t)
  PROVE  /\ run' \in [Actors -> Runs]
         /\ run'[t].pc \in {"revoked", "write"} /\ run'[t].want = run[t].want
         /\ run'[t].pending = modulesOf(t) \ usersFor(run[t].want)
         /\ run'[t].bytes = stateFromStore(t, run'[t].pending)
         /\ run'[t].pc = "revoked" => file = run'[t].bytes
         /\ \A u \in Actors : u # t => run'[u] = run[u]
<1> DEFINE pending == modulesOf(t) \ usersFor(run[t].want)
           bytes == stateFromStore(t, pending)
           loaded == file = bytes /\ bytes \in marker
<1>1. run \in [Actors -> Runs] /\ t \in Actors
  BY RunsAre, TenantsAct
<1>2. pending \subseteq Modules
  BY DEF modulesOf, usersFor, Owners
<1>3. bytes \subseteq Keys
  BY DEF stateFromStore
<1>4. loaded \in BOOLEAN
  OBVIOUS
<1>5. run' = [run EXCEPT ![t] = [@ EXCEPT !.pc = IF loaded THEN "revoked" ELSE "write",
                                          !.pending = pending, !.bytes = bytes, !.loaded = loaded]]
  BY DEF Render
<1> HIDE DEF pending, bytes
<1>6. run'[t] = [run[t] EXCEPT !.pc = IF loaded THEN "revoked" ELSE "write",
                               !.pending = pending, !.bytes = bytes, !.loaded = loaded]
  BY <1>1, <1>5
<1>7. /\ run'[t].pc = IF loaded THEN "revoked" ELSE "write"
      /\ run'[t].want = run[t].want /\ run'[t].pending = pending /\ run'[t].bytes = bytes
  BY <1>1, <1>6 DEF Runs
<1>8. run'[t] \in Runs
  BY <1>1, <1>2, <1>3, <1>4, <1>6 DEF Runs, Labels
<1>9. run' \in [Actors -> Runs] /\ \A u \in Actors : u # t => run'[u] = run[u]
  BY <1>1, <1>5, <1>8
<1> QED BY <1>7, <1>9 DEF pending, bytes

\* What init's run renders.
LEMMA InitRenderStep ==
  ASSUME BrokerTypeOK, initRender
  PROVE  /\ run' \in [Actors -> Runs]
         /\ run'[Deploy].pc = "write" /\ run'[Deploy].bytes = stateFromStore(Deploy, {})
         /\ \A u \in Actors : u # Deploy => run'[u] = run[u]
<1>1. run \in [Actors -> Runs] /\ Deploy \in Actors
  BY RunsAre, TenantsAct
<1>2. stateFromStore(Deploy, {}) \in SUBSET Keys
  BY DEF stateFromStore
<1>3. PICK bytes \in SUBSET Keys : bytes = stateFromStore(Deploy, {})
  BY <1>2
<1>4. run' = [run EXCEPT ![Deploy] = [@ EXCEPT !.pc = "write", !.bytes = bytes]]
  BY <1>3 DEF initRender
<1>5. run'[Deploy] = [run[Deploy] EXCEPT !.pc = "write", !.bytes = bytes]
  BY <1>1, <1>4
<1>6. run'[Deploy] \in Runs /\ run'[Deploy].pc = "write" /\ run'[Deploy].bytes = bytes
  BY <1>1, <1>5 DEF Runs, Labels
<1>7. run' \in [Actors -> Runs] /\ \A u \in Actors : u # Deploy => run'[u] = run[u]
  BY <1>1, <1>4, <1>6
<1> QED BY <1>3, <1>6, <1>7
-----------------------------------------------------------------------------
\* Every step keeps the types, whoever has the lock.
LEMMA TenantTypes ==
  ASSUME BrokerTypeOK, NEW t \in Tenants, TenantStep(t)
  PROVE  BrokerTypeOK'
<1>1. run \in [Actors -> Runs] /\ t \in Actors
  BY RunsAre, TenantsAct
<1>2. ASSUME NEW want \in SUBSET Modules, Start(t, want)
      PROVE  BrokerTypeOK'
  <2>1. PICK l \in {"seeds", "clear"} : Begins(t, want, l) /\ lock' \in {lock, t}
    BY <1>2 DEF Start
  <2>2. /\ run' \in [Actors -> Runs]
        /\ ensured' \in [Tenants -> [ok : BOOLEAN, set : SUBSET Modules]]
    BY <1>1, <2>1, BeginStep DEF Labels
  <2> QED BY <1>1, <2>1, <2>2 DEF BrokerTypeOK, Begins, Runs
<1>3. ASSUME NEW o \in Owners, EnsureSeed(t, o)
      PROVE  BrokerTypeOK'
  <2>1. minted[t][o] + 1 \in 0..MaxKeys
    BY <1>3, MaxKeysAssumption DEF BrokerTypeOK, EnsureSeed
  <2>2. minted' \in [Tenants -> [Owners -> 0..MaxKeys]] /\ seeds' \in [Tenants -> [Owners -> 0..MaxKeys]]
    BY <1>3, <2>1 DEF BrokerTypeOK, EnsureSeed
  <2> QED BY <1>3, <2>2 DEF BrokerTypeOK, EnsureSeed
<1>4. CASE Render(t)
  BY <1>4, RenderStep DEF BrokerTypeOK, Runs, Render
<1>5. CASE Reload(t)
  <2>1. run' \in [Actors -> Runs]
    BY <1>1, <1>5, GotoStep DEF Reload, Labels
  <2> QED BY <1>5, <2>1 DEF BrokerTypeOK, Reload, Runs
<1>6. CASE assertRevoked(t) \/ ensureStreams(t)
  <2>1. CASE assertRevoked(t)
    BY <1>1, <2>1, GotoStep DEF BrokerTypeOK, assertRevoked, Runs, Labels
  <2>2. CASE ensureStreams(t)
    BY <1>1, <2>2, GotoStep DEF BrokerTypeOK, ensureStreams, Runs, Labels
  <2> QED BY <1>6, <2>1, <2>2
<1>7. ASSUME NEW m \in Modules, removeModuleSeed(t, m)
      PROVE  BrokerTypeOK'
  <2>1. seeds' = [seeds EXCEPT ![t][m] = 0] /\ m \in Owners /\ 0 \in 0..MaxKeys
    BY <1>7, MaxKeysAssumption, OwnersAre DEF removeModuleSeed
  <2>2. seeds' \in [Tenants -> [Owners -> 0..MaxKeys]]
    BY <2>1 DEF BrokerTypeOK
  <2> QED BY <1>7, <2>2 DEF BrokerTypeOK, removeModuleSeed
<1>8. CASE WriteMarker(t)
  <2>1. run' \in [Actors -> Runs]
    BY <1>1, <1>8, GotoStep DEF WriteMarker, Labels
  <2>2. \A bytes \in marker' : bytes \subseteq Keys
    BY <1>1, <1>8 DEF WriteMarker, Runs
  <2> QED BY <1>8, <2>1, <2>2 DEF BrokerTypeOK, WriteMarker, Runs
<1> QED BY <1>2, <1>3, <1>4, <1>5, <1>6, <1>7, <1>8 DEF TenantStep

LEMMA ActorTypes ==
  ASSUME BrokerTypeOK, NEW r \in Actors,
         ClearLock(r) \/ TakeOver(r) \/ WriteAccounts(r) \/ Return(r) \/ Fail(r) \/ Die(r)
  PROVE  BrokerTypeOK'
<1>1. run \in [Actors -> Runs]
  BY RunsAre
<1>2. CASE ClearLock(r) \/ TakeOver(r)
  <2>1. PICK l \in Labels : Goto(r, l)
    BY <1>2 DEF ClearLock, TakeOver, Labels
  <2>2. run' \in [Actors -> Runs]
    BY <1>1, <2>1, GotoStep
  <2>3. lock' \in Actors \cup {None, Left} /\ robbed' \in BOOLEAN
    BY <1>2 DEF ClearLock, TakeOver, BrokerTypeOK
  <2> QED BY <1>2, <2>2, <2>3 DEF BrokerTypeOK, ClearLock, TakeOver, Runs
<1>3. CASE WriteAccounts(r)
  <2>1. PICK l \in Labels : Goto(r, l)
    BY <1>3 DEF WriteAccounts, Labels
  <2>2. run' \in [Actors -> Runs] /\ file' \subseteq Keys
    BY <1>1, <1>3, <2>1, GotoStep DEF WriteAccounts, Runs
  <2> QED BY <1>3, <2>2 DEF BrokerTypeOK, WriteAccounts, Runs
<1>4. CASE Return(r)
  <2>1. run' \in [Actors -> Runs] /\ lock' \in Actors \cup {None, Left}
    BY <1>1, <1>4, EndStep DEF Return, Released, BrokerTypeOK
  <2>2. run[r].want \in SUBSET Modules
    BY <1>1 DEF Runs
  <2>3. ensured' \in [Tenants -> [ok : BOOLEAN, set : SUBSET Modules]]
    BY <1>4, <2>2 DEF Return, Tells, BrokerTypeOK
  <2> QED BY <1>4, <2>1, <2>3 DEF BrokerTypeOK, Return, Runs
<1>5. CASE Fail(r) \/ Die(r)
  <2>1. run' \in [Actors -> Runs] /\ lock' \in Actors \cup {None, Left}
    BY <1>1, <1>5, EndStep DEF Fail, Die, Released, BrokerTypeOK
  <2> QED BY <1>5, <2>1 DEF BrokerTypeOK, Fail, Die, Runs
<1> QED BY <1>2, <1>3, <1>4, <1>5

LEMMA TypesKept == BrokerTypeOK /\ [BrokerNext]_brokerVars => BrokerTypeOK'
<1> SUFFICES ASSUME BrokerTypeOK, [BrokerNext]_brokerVars
             PROVE  BrokerTypeOK'
  OBVIOUS
<1>1. CASE initAccounts
  <2>1. CASE Start(Deploy, {})
    <3>1. PICK l \in {"seeds", "clear"} : Begins(Deploy, {}, l) /\ lock' \in {lock, Deploy}
      BY <2>1 DEF Start
    <3>2. /\ run' \in [Actors -> Runs]
          /\ ensured' \in [Tenants -> [ok : BOOLEAN, set : SUBSET Modules]]
      BY <3>1, BeginStep, TenantsAct DEF Labels
    <3> QED BY <3>1, <3>2, TenantsAct DEF BrokerTypeOK, Begins, Runs
  <2>2. CASE initRender
    BY <2>2, InitRenderStep DEF BrokerTypeOK, initRender, Runs
  <2> QED BY <1>1, <2>1, <2>2 DEF initAccounts
<1>2. CASE ServerRestart \/ UNCHANGED brokerVars
  BY <1>2 DEF BrokerTypeOK, ServerRestart, brokerVars
<1> QED BY <1>1, <1>2, TenantTypes, ActorTypes DEF BrokerNext
-----------------------------------------------------------------------------
\* Beside a run past the lock all others wait.
LEMMA OnePasses ==
  ASSUME SafeInv, NEW r \in Actors, run[r].pc \notin Waiting
  PROVE  lock = r /\ \A u \in Actors : u # r => run[u].pc \in Waiting
BY DEF SafeInv, RunInv, LockInv

\* While no run has the lock all wait.
LEMMA FreeMeansWaiting ==
  ASSUME SafeInv, lock \notin Actors
  PROVE  \A u \in Actors : run[u].pc \in Waiting
BY DEF SafeInv, RunInv, LockInv

\* Of a run that waits nothing is to be shown.
LEMMA WaitingRun ==
  ASSUME NEW u \in Actors, run'[u].pc \in Waiting
  PROVE  RunInv(u)'
BY DEF RunInv, LockInv, BytesInv, FileInv, SetInv, RevokedInv, RemovedInv, Waiting, Rendered

\* A run that does not move while the seeds and the file stay, and the server
\* admits at most what it admitted or the file holds.
LEMMA QuietRun ==
  ASSUME BrokerTypeOK, NEW u \in Actors, RunInv(u), UNCHANGED <<seeds, file>>, server' \subseteq server \cup file,
         run'[u] = run[u], run[u].pc \notin Waiting => lock' = u
  PROVE  RunInv(u)'
<1>1. LockInv(u)' /\ FileInv(u)'
  BY DEF RunInv, LockInv, FileInv
<1>2. BytesInv(u)'
  BY DEF RunInv, BytesInv, Held
<1>3. ASSUME u \in Tenants
      PROVE  SetInv(u)' /\ RemovedInv(u)'
  BY <1>3 DEF RunInv, SetInv, RemovedInv, usersFor
<1>4. ASSUME u \in Tenants
      PROVE  RevokedInv(u)'
  <2> SUFFICES ASSUME run[u].pc \in {"remove", "marker", "release"}, NEW k \in server \cup file
               PROVE  ~(k[1] = u /\ k[2] \in run[u].pending)
    BY DEF RevokedInv
  <2>1. CASE k \in server
    BY <1>4, <2>1 DEF RunInv, RevokedInv
  <2>2. CASE k \in file
    BY <2>2 DEF RunInv, BytesInv, FileInv, Rendered, BrokerTypeOK
  <2> QED BY <2>1, <2>2
<1> QED BY <1>1, <1>2, <1>3, <1>4 DEF RunInv

\* What holds of the ensured tenants stays while no seed and no file changes and
\* none of them begins a run.
LEMMA EnsuredStays ==
  ASSUME BrokerTypeOK, SafeInv, UNCHANGED <<seeds, file>>, server' \subseteq server \cup file,
         \A t \in Tenants : ensured'[t].ok => ensured'[t] = ensured[t] /\ run'[t].pc = "idle"
  PROVE  KeysSeeded' /\ EnsuredInv' /\ NoLostUpdate'
<1>1. EnsuredInv'
  BY DEF SafeInv, EnsuredInv, At, usersFor
<1>2. NoLostUpdate'
  BY DEF SafeInv, NoLostUpdate, KeyOf, usersFor
<1>3. KeysSeeded'
  BY DEF SafeInv, KeysSeeded, Held
<1> QED BY <1>1, <1>2, <1>3

\* A tenant whose run lives has not been told anything.
LEMMA LivesUntold ==
  ASSUME SafeInv, NEW t \in Tenants, ~At(t, "idle")
  PROVE  ~ensured[t].ok
BY DEF SafeInv, EnsuredInv

\* Nothing but the place of one run changes, and that run is still waiting or waits again.
LEMMA WaitsOrQuits ==
  ASSUME BrokerTypeOK, SafeInv, NEW r \in Actors, UNCHANGED <<seeds, file, server>>,
         run'[r].pc \in Waiting, \A u \in Actors : u # r => run'[u] = run[u],
         \A u \in Actors : u # r /\ run[u].pc \notin Waiting => lock' = u
  PROVE  \A u \in Actors : RunInv(u)'
<1> TAKE u \in Actors
<1>1. CASE u = r
  BY <1>1, WaitingRun
<1>2. CASE u # r
  BY <1>2, QuietRun DEF SafeInv
<1> QED BY <1>1, <1>2
-----------------------------------------------------------------------------
\* A run begins: past a lock that is free, or to clear one that is stale.
LEMMA StartKeeps ==
  ASSUME BrokerTypeOK, SafeInv, NEW r \in Actors, NEW want \in SUBSET Modules, Start(r, want)
  PROVE  SafeInv'
<1>1. PICK l \in {"seeds", "clear"} : Begins(r, want, l)
  BY DEF Start
<1>2. /\ run' \in [Actors -> Runs] /\ run'[r].pc = l
      /\ \A u \in Actors : u # r => run'[u] = run[u]
      /\ \A t \in Tenants : ensured'[t].ok => t # r /\ ensured'[t] = ensured[t]
  BY <1>1, BeginStep DEF Labels
<1>3. UNCHANGED <<seeds, minted, file, server, marker>>
  BY <1>1 DEF Begins
<1>4. KeysSeeded' /\ EnsuredInv' /\ NoLostUpdate'
  <2>1. \A t \in Tenants : ensured'[t].ok => ensured'[t] = ensured[t] /\ run'[t].pc = "idle"
    BY <1>2, TenantsAct DEF SafeInv, EnsuredInv, At
  <2> QED BY <1>3, <2>1, EnsuredStays
<1>5. CASE lock = None /\ lock' = r
  <2>1. \A u \in Actors : run[u].pc \in Waiting
    BY <1>5, FreeMeansWaiting, ActorsAssumption
  <2>2. RunInv(r)'
    <3>1. run'[r].pc \in {"seeds", "clear"} /\ lock' = r
      BY <1>2, <1>5
    <3> QED BY <3>1 DEF RunInv, LockInv, BytesInv, FileInv, SetInv, RevokedInv, RemovedInv, Rendered
  <2>3. \A u \in Actors : RunInv(u)'
    BY <1>2, <2>1, <2>2, WaitingRun
  <2> QED BY <1>4, <2>3 DEF SafeInv
<1>6. CASE lock' = lock /\ Begins(r, want, "clear")
  <2>1. run'[r].pc = "clear"
    BY <1>6, BeginStep DEF Labels
  <2>2. \A u \in Actors : u # r /\ run[u].pc \notin Waiting => lock' = u
    BY <1>6 DEF SafeInv, RunInv, LockInv
  <2>3. \A u \in Actors : RunInv(u)'
    BY <1>2, <1>3, <2>1, <2>2, WaitsOrQuits DEF Waiting
  <2> QED BY <1>4, <2>3 DEF SafeInv
<1> QED BY <1>5, <1>6 DEF Start

\* The stale lock is removed, and it was nobody's.
LEMMA ClearKeeps ==
  ASSUME BrokerTypeOK, SafeInv, NEW r \in Actors, ClearLock(r), ~robbed'
  PROVE  SafeInv'
<1>1. /\ run[r].pc = "clear" /\ lock \notin Actors
      /\ UNCHANGED <<seeds, minted, file, server, marker, ensured>>
  BY DEF ClearLock, At
<1>2. run'[r].pc = "take" /\ \A u \in Actors : u # r => run'[u] = run[u]
  BY RunsAre, GotoStep DEF ClearLock, Labels
<1>3. \A u \in Actors : run[u].pc \in Waiting
  BY <1>1, FreeMeansWaiting
<1>4. \A u \in Actors : RunInv(u)'
  BY <1>2, <1>3, WaitingRun DEF Waiting
<1>5. \A t \in Tenants : ensured[t].ok => run'[t].pc = "idle"
  BY <1>1, <1>2, TenantsAct DEF SafeInv, EnsuredInv, At
<1> QED BY <1>1, <1>4, <1>5, EnsuredStays DEF SafeInv

\* The directory was removed and nobody has made it anew: the run passes.
LEMMA TakeKeeps ==
  ASSUME BrokerTypeOK, SafeInv, NEW r \in Actors, TakeOver(r)
  PROVE  SafeInv'
<1>1. /\ run[r].pc = "take" /\ lock = None /\ lock' = r
      /\ UNCHANGED <<seeds, minted, file, server, marker, ensured>>
  BY DEF TakeOver, At
<1>2. run'[r].pc = "seeds" /\ \A u \in Actors : u # r => run'[u] = run[u]
  BY RunsAre, GotoStep DEF TakeOver, Labels
<1>3. \A u \in Actors : run[u].pc \in Waiting
  BY <1>1, FreeMeansWaiting, ActorsAssumption
<1>4. RunInv(r)'
  BY <1>1, <1>2 DEF RunInv, LockInv, BytesInv, FileInv, SetInv, RevokedInv, RemovedInv, Rendered
<1>5. \A u \in Actors : RunInv(u)'
  BY <1>2, <1>3, <1>4, WaitingRun
<1>6. \A t \in Tenants : ensured[t].ok => run'[t].pc = "idle"
  BY <1>1, <1>2, TenantsAct DEF SafeInv, EnsuredInv, At
<1> QED BY <1>1, <1>5, <1>6, EnsuredStays DEF SafeInv

\* The run fails or dies, the lock released or left behind.
LEMMA StopKeeps ==
  ASSUME BrokerTypeOK, SafeInv, NEW r \in Actors, Fail(r) \/ Die(r)
  PROVE  SafeInv'
<1>1. /\ ~At(r, "idle") /\ run' = [run EXCEPT ![r] = Idle] /\ (lock # r => lock' = lock)
      /\ UNCHANGED <<seeds, minted, file, server, marker, ensured>>
  BY DEF Fail, Die, Released
<1>2. run'[r].pc = "idle" /\ \A u \in Actors : u # r => run'[u] = run[u]
  BY <1>1, RunsAre, EndStep
<1>3. \A u \in Actors : u # r /\ run[u].pc \notin Waiting => lock' = u
  BY <1>1 DEF SafeInv, RunInv, LockInv
<1>4. \A u \in Actors : RunInv(u)'
  BY <1>1, <1>2, <1>3, WaitsOrQuits DEF Waiting
<1>5. \A t \in Tenants : ensured[t].ok => run'[t].pc = "idle"
  BY <1>2, TenantsAct DEF SafeInv, EnsuredInv, At
<1> QED BY <1>1, <1>4, <1>5, EnsuredStays DEF SafeInv

\* A seed is created for an identity that has none, so that no key names it.
LEMMA SeedKeeps ==
  ASSUME BrokerTypeOK, SafeInv, NEW t \in Tenants, NEW o \in Owners, EnsureSeed(t, o)
  PROVE  SafeInv'
<1>1. /\ run[t].pc = "seeds" /\ seeds[t][o] = 0
      /\ seeds' = [seeds EXCEPT ![t][o] = minted[t][o] + 1]
      /\ UNCHANGED <<file, server, marker, lock, run, ensured>>
  BY DEF EnsureSeed, At, Missing
<1>2. \A u \in Tenants, p \in Owners : u # t \/ p # o => seeds'[u][p] = seeds[u][p]
  BY <1>1 DEF BrokerTypeOK
<1>3. KeysSeeded'
  <2> SUFFICES ASSUME NEW k \in server \cup file
               PROVE  Held(k)'
    BY <1>1 DEF KeysSeeded
  <2>1. k \in Keys /\ Held(k)
    BY DEF SafeInv, BrokerTypeOK, KeysSeeded
  <2>2. k[1] \in Tenants /\ k[2] \in Owners /\ k[3] # 0
    BY <2>1, KeyFields
  <2> QED BY <1>1, <1>2, <2>1, <2>2 DEF Held
<1>4. t \in Actors /\ lock = t /\ \A u \in Actors : u # t => run[u].pc \in Waiting
  BY <1>1, OnePasses, TenantsAct DEF Waiting
<1>5. RunInv(t)'
  BY <1>1, <1>4 DEF RunInv, LockInv, BytesInv, FileInv, SetInv, RevokedInv, RemovedInv, Rendered
<1>6. \A u \in Actors : RunInv(u)'
  BY <1>1, <1>4, <1>5, WaitingRun
<1>7. ~ensured[t].ok
  BY <1>1, LivesUntold DEF At
<1>8. EnsuredInv'
  BY <1>1, <1>2, <1>7 DEF SafeInv, EnsuredInv, At, usersFor
<1>9. NoLostUpdate'
  <2> SUFFICES ASSUME NEW u \in Tenants, ensured[u].ok,
                      NEW p \in usersFor(ensured[u].set) \cup {ADMIN_DIR}
               PROVE  KeyOf(u, p)' \in file
    BY <1>1 DEF NoLostUpdate, usersFor
  <2>1. KeyOf(u, p) \in file /\ u # t
    BY <1>7 DEF SafeInv, NoLostUpdate
  <2>2. p \in Owners
    BY OwnersAre DEF BrokerTypeOK, usersFor
  <2> QED BY <1>2, <2>1, <2>2 DEF KeyOf
<1> QED BY <1>3, <1>6, <1>8, <1>9 DEF SafeInv
-----------------------------------------------------------------------------
\* A step of the run past the lock that leaves the seeds, the file and what was
\* told alone: only what is said of that run is left to show.
LEMMA QuietStep ==
  ASSUME BrokerTypeOK, SafeInv, NEW r \in Actors, run[r].pc \notin Waiting,
         UNCHANGED <<seeds, file, ensured>>, server' \subseteq server \cup file,
         \A u \in Actors : u # r => run'[u] = run[u], RunInv(r)'
  PROVE  SafeInv'
<1>1. \A u \in Actors : u # r => run[u].pc \in Waiting
  BY OnePasses
<1>2. \A u \in Actors : RunInv(u)'
  BY <1>1, WaitingRun
<1>3. \A t \in Tenants : ensured[t].ok => run'[t].pc = "idle"
  <2> SUFFICES ASSUME NEW t \in Tenants, ensured[t].ok
               PROVE  run'[t].pc = "idle"
    OBVIOUS
  <2>1. run[t].pc = "idle" /\ t # r /\ t \in Actors
    BY TenantsAct DEF SafeInv, EnsuredInv, At, Waiting
  <2> QED BY <2>1
<1> QED BY <1>2, <1>3, EnsuredStays DEF SafeInv

\* The dropped modules are rendered out, their seeds kept.
LEMMA RenderKeeps ==
  ASSUME BrokerTypeOK, SafeInv, NEW t \in Tenants, Render(t)
  PROVE  SafeInv'
<1>1. /\ run[t].pc = "seeds" /\ Missing(t) = {}
      /\ UNCHANGED <<seeds, minted, file, server, marker, lock, ensured>>
  BY DEF Render, At
<1>2. /\ run'[t].pc \in {"revoked", "write"} /\ run'[t].want = run[t].want
      /\ run'[t].pending = modulesOf(t) \ usersFor(run[t].want)
      /\ run'[t].bytes = stateFromStore(t, run'[t].pending)
      /\ run'[t].pc = "revoked" => file = run'[t].bytes
      /\ \A u \in Actors : u # t => run'[u] = run[u]
  BY RenderStep
<1>3. t \in Actors /\ run[t].pc \notin Waiting
  BY <1>1, TenantsAct DEF Waiting
<1>4. LockInv(t)' /\ FileInv(t)' /\ RevokedInv(t)' /\ RemovedInv(t)'
  <2>1. lock = t
    BY <1>3, OnePasses
  <2> QED BY <1>1, <1>2, <2>1 DEF LockInv, FileInv, RevokedInv, RemovedInv, Rendered
<1>5. BytesInv(t)'
  <2>1. \A k \in Keys : k \in run'[t].bytes <=> Held(k) /\ ~(k[1] = t /\ k[2] \in run'[t].pending)
    BY <1>2, StoreKeys
  <2> QED BY <1>1, <2>1 DEF BytesInv, Held
<1>6. SetInv(t)'
  <2>1. \A o \in Owners : seeds[t][o] # 0 => o \in usersFor(run[t].want) \cup {ADMIN_DIR} \cup run'[t].pending
    BY <1>2 DEF modulesOf
  <2>2. \A o \in usersFor(run[t].want) \cup {ADMIN_DIR} : seeds[t][o] # 0 /\ o \notin run'[t].pending
    BY <1>1, <1>2 DEF Missing, modulesOf
  <2> QED BY <1>1, <1>2, <2>1, <2>2 DEF SetInv, usersFor
<1>7. RunInv(t)'
  BY <1>4, <1>5, <1>6 DEF RunInv
<1> QED BY <1>1, <1>2, <1>3, <1>7, QuietStep

\* init renders every seed of the store.
LEMMA InitRenderKeeps ==
  ASSUME BrokerTypeOK, SafeInv, initRender
  PROVE  SafeInv'
<1>1. run[Deploy].pc = "seeds" /\ UNCHANGED <<seeds, minted, file, server, marker, lock, ensured>>
  BY DEF initRender, At
<1>2. /\ run'[Deploy].pc = "write" /\ run'[Deploy].bytes = stateFromStore(Deploy, {})
      /\ \A u \in Actors : u # Deploy => run'[u] = run[u]
  BY InitRenderStep
<1>3. Deploy \in Actors /\ Deploy \notin Tenants /\ run[Deploy].pc \notin Waiting
  BY <1>1, TenantsAct DEF Waiting
<1>4. lock = Deploy
  BY <1>3, OnePasses
<1>5. BytesInv(Deploy)'
  <2>1. \A k \in Keys : k \in run'[Deploy].bytes <=> Held(k)
    BY <1>2, StoreKeys
  <2>2. \A k \in Keys : k[1] # Deploy
    BY <1>3, KeyFields
  <2> QED BY <1>1, <2>1, <2>2 DEF BytesInv, Held
<1>6. RunInv(Deploy)'
  BY <1>1, <1>2, <1>3, <1>4, <1>5 DEF RunInv, LockInv, FileInv, Rendered
<1> QED BY <1>1, <1>2, <1>3, <1>6, QuietStep

\* The rendered bytes replace the file: they hold the keys of every ensured tenant.
LEMMA WriteKeeps ==
  ASSUME BrokerTypeOK, SafeInv, NEW r \in Actors, WriteAccounts(r)
  PROVE  SafeInv'
<1>1. /\ run[r].pc = "write" /\ file' = run[r].bytes
      /\ UNCHANGED <<seeds, minted, server, marker, lock, ensured>>
  BY DEF WriteAccounts, At
<1>2. /\ run'[r].pc = (IF r = Deploy THEN "release" ELSE "reload")
      /\ run'[r].want = run[r].want /\ run'[r].pending = run[r].pending /\ run'[r].bytes = run[r].bytes
      /\ \A u \in Actors : u # r => run'[u] = run[u]
  BY RunsAre, GotoStep DEF WriteAccounts, Labels
<1>3. lock = r /\ \A u \in Actors : u # r => run[u].pc \in Waiting
  BY <1>1, OnePasses DEF Waiting
<1>4. run[r].bytes \subseteq Keys
  BY RunsAre DEF Runs
<1>5. \A k \in Keys : k \in run[r].bytes <=> Held(k) /\ ~(k[1] = r /\ k[2] \in run[r].pending)
  BY <1>1 DEF SafeInv, RunInv, BytesInv, Rendered
<1>6. LockInv(r)' /\ BytesInv(r)' /\ FileInv(r)'
  BY <1>1, <1>2, <1>3, <1>5 DEF LockInv, BytesInv, FileInv, Held
<1>7. ASSUME r \in Tenants
      PROVE  SetInv(r)' /\ RevokedInv(r)' /\ RemovedInv(r)'
  <2>1. run'[r].pc = "reload"
    BY <1>2, <1>7, TenantsAct
  <2>2. SetInv(r)
    BY <1>7 DEF SafeInv, RunInv
  <2>3. SetInv(r)'
    BY <1>1, <1>2, <2>2 DEF SetInv, Rendered, usersFor
  <2> QED BY <2>1, <2>3 DEF RevokedInv, RemovedInv
<1>8. \A u \in Actors : RunInv(u)'
  <2>1. RunInv(r)'
    BY <1>6, <1>7 DEF RunInv
  <2> QED BY <1>2, <1>3, <2>1, WaitingRun
<1>9. KeysSeeded'
  BY <1>1, <1>4, <1>5 DEF SafeInv, KeysSeeded, Held
<1>10. \A t \in Tenants : ensured[t].ok => t # r /\ run'[t].pc = "idle"
  BY <1>1, <1>2, TenantsAct DEF SafeInv, EnsuredInv, At
<1>11. EnsuredInv'
  BY <1>1, <1>10 DEF SafeInv, EnsuredInv, At, usersFor
<1>12. NoLostUpdate'
  <2> SUFFICES ASSUME NEW u \in Tenants, ensured[u].ok,
                      NEW p \in usersFor(ensured[u].set) \cup {ADMIN_DIR}
               PROVE  KeyOf(u, p) \in run[r].bytes
    BY <1>1 DEF NoLostUpdate, usersFor, KeyOf
  <2>1. p \in Owners
    BY OwnersAre DEF BrokerTypeOK, usersFor
  <2>2. seeds[u][p] # 0
    BY <2>1 DEF SafeInv, EnsuredInv
  <2>3. KeyOf(u, p) \in Keys /\ Held(KeyOf(u, p)) /\ KeyOf(u, p)[1] = u
    BY <2>1, <2>2, SeedIsKey
  <2> QED BY <1>5, <1>10, <2>3
<1> QED BY <1>8, <1>9, <1>11, <1>12 DEF SafeInv

\* The server loads the file, which admits none of the keys to be dropped.
LEMMA ReloadKeeps ==
  ASSUME BrokerTypeOK, SafeInv, NEW t \in Tenants, Reload(t)
  PROVE  SafeInv'
<1>1. /\ run[t].pc = "reload" /\ server' = file
      /\ UNCHANGED <<seeds, minted, file, marker, lock, ensured>>
  BY DEF Reload, At
<1>2. /\ run'[t].pc = "revoked"
      /\ run'[t].want = run[t].want /\ run'[t].pending = run[t].pending /\ run'[t].bytes = run[t].bytes
      /\ \A u \in Actors : u # t => run'[u] = run[u]
  BY RunsAre, GotoStep, TenantsAct DEF Reload, Labels
<1>3. t \in Actors /\ run[t].pc \notin Waiting /\ RunInv(t)
  BY <1>1, TenantsAct DEF Waiting, SafeInv
<1>4. LockInv(t)' /\ BytesInv(t)' /\ FileInv(t)'
  BY <1>1, <1>2, <1>3 DEF RunInv, LockInv, BytesInv, FileInv, Held, Rendered
<1>5. SetInv(t)' /\ RevokedInv(t)' /\ RemovedInv(t)'
  BY <1>1, <1>2, <1>3 DEF RunInv, SetInv, RevokedInv, RemovedInv, Rendered, usersFor
<1>6. RunInv(t)'
  BY <1>4, <1>5 DEF RunInv
<1> QED BY <1>1, <1>2, <1>3, <1>6, QuietStep

\* The run learns that every dropped key is refused.
LEMMA AssertKeeps ==
  ASSUME BrokerTypeOK, SafeInv, NEW t \in Tenants, assertRevoked(t)
  PROVE  SafeInv'
<1>1. /\ run[t].pc = "revoked" /\ \A m \in run[t].pending : KeyOf(t, m) \notin server
      /\ UNCHANGED <<seeds, minted, file, server, marker, lock, ensured>>
  BY DEF assertRevoked, At
<1>2. /\ run'[t].pc = "remove"
      /\ run'[t].want = run[t].want /\ run'[t].pending = run[t].pending /\ run'[t].bytes = run[t].bytes
      /\ \A u \in Actors : u # t => run'[u] = run[u]
  BY RunsAre, GotoStep, TenantsAct DEF assertRevoked, Labels
<1>3. t \in Actors /\ run[t].pc \notin Waiting /\ RunInv(t)
  BY <1>1, TenantsAct DEF Waiting, SafeInv
<1>4. LockInv(t)' /\ BytesInv(t)' /\ FileInv(t)'
  BY <1>1, <1>2, <1>3 DEF RunInv, LockInv, BytesInv, FileInv, Held, Rendered
<1>5. SetInv(t)' /\ RemovedInv(t)'
  BY <1>1, <1>2, <1>3 DEF RunInv, SetInv, RemovedInv, Rendered, usersFor
<1>6. RevokedInv(t)'
  <2> SUFFICES ASSUME NEW k \in server, k[1] = t, k[2] \in run[t].pending
               PROVE  FALSE
    BY <1>1, <1>2 DEF RevokedInv
  <2>1. k \in Keys /\ Held(k)
    BY DEF SafeInv, KeysSeeded, BrokerTypeOK
  <2>2. k = KeyOf(t, k[2])
    BY <2>1, KeyFields DEF KeyOf, Held
  <2> QED BY <1>1, <2>2
<1>7. RunInv(t)'
  BY <1>4, <1>5, <1>6 DEF RunInv
<1> QED BY <1>1, <1>2, <1>3, <1>7, QuietStep

\* The streams are there, and the marker is written unless the bytes were loaded.
LEMMA StreamsKeep ==
  ASSUME BrokerTypeOK, SafeInv, NEW t \in Tenants, ensureStreams(t) \/ WriteMarker(t)
  PROVE  SafeInv'
<1>1. /\ run[t].pc \in {"remove", "marker"}
      /\ run[t].pc = "remove" => \A m \in run[t].pending : seeds[t][m] = 0
      /\ UNCHANGED <<seeds, minted, file, server, lock, ensured>>
  BY DEF ensureStreams, WriteMarker, At
<1>2. PICK l \in {"marker", "release"} : Goto(t, l)
  BY DEF ensureStreams, WriteMarker
<1>3. /\ run'[t].pc = l
      /\ run'[t].want = run[t].want /\ run'[t].pending = run[t].pending /\ run'[t].bytes = run[t].bytes
      /\ \A u \in Actors : u # t => run'[u] = run[u]
  BY <1>2, RunsAre, GotoStep, TenantsAct DEF Labels
<1>4. t \in Actors /\ run[t].pc \notin Waiting /\ RunInv(t)
  BY <1>1, TenantsAct DEF Waiting, SafeInv
<1>5. LockInv(t)' /\ BytesInv(t)' /\ FileInv(t)'
  BY <1>1, <1>3, <1>4 DEF RunInv, LockInv, BytesInv, FileInv, Held, Rendered
<1>6. SetInv(t)' /\ RevokedInv(t)'
  BY <1>1, <1>3, <1>4 DEF RunInv, SetInv, RevokedInv, Rendered, usersFor
<1>7. RemovedInv(t)'
  <2>1. \A m \in run[t].pending : seeds[t][m] = 0
    BY <1>1, <1>4 DEF RunInv, RemovedInv
  <2> QED BY <1>1, <1>3, <2>1 DEF RemovedInv
<1>8. RunInv(t)'
  BY <1>5, <1>6, <1>7 DEF RunInv
<1> QED BY <1>1, <1>3, <1>4, <1>8, QuietStep

\* A dropped seed is deleted: neither the server nor the file admits its key.
LEMMA RemoveKeeps ==
  ASSUME BrokerTypeOK, SafeInv, NEW t \in Tenants, NEW m \in Modules, removeModuleSeed(t, m)
  PROVE  SafeInv'
<1>1. /\ run[t].pc = "remove" /\ m \in run[t].pending /\ m \in Owners
      /\ seeds' = [seeds EXCEPT ![t][m] = 0]
      /\ UNCHANGED <<minted, file, server, marker, lock, run, ensured>>
  BY OwnersAre DEF removeModuleSeed, At
<1>2. /\ \A u \in Tenants, p \in Owners : u # t \/ p # m => seeds'[u][p] = seeds[u][p]
      /\ seeds'[t][m] = 0
  BY <1>1 DEF BrokerTypeOK
<1>3. t \in Actors /\ run[t].pc \notin Waiting /\ RunInv(t)
  BY <1>1, TenantsAct DEF Waiting, SafeInv
<1>4. /\ \A k \in Keys : k \in run[t].bytes <=> Held(k) /\ ~(k[1] = t /\ k[2] \in run[t].pending)
      /\ file = run[t].bytes
      /\ \A o \in Owners : seeds[t][o] # 0 => o \in usersFor(run[t].want) \cup {ADMIN_DIR} \cup run[t].pending
      /\ \A o \in usersFor(run[t].want) \cup {ADMIN_DIR} : seeds[t][o] # 0 /\ o \notin run[t].pending
      /\ \A k \in server : ~(k[1] = t /\ k[2] \in run[t].pending)
  BY <1>1, <1>3 DEF RunInv, BytesInv, SetInv, FileInv, RevokedInv, Rendered
<1>5. \A k \in Keys : ~(k[1] = t /\ k[2] \in run[t].pending) => (Held(k)' <=> Held(k))
  BY <1>1, <1>2, KeyFields DEF Held
<1>6. KeysSeeded'
  <2> SUFFICES ASSUME NEW k \in server \cup file
               PROVE  Held(k)'
    BY <1>1 DEF KeysSeeded
  <2>1. k \in Keys /\ Held(k) /\ ~(k[1] = t /\ k[2] \in run[t].pending)
    BY <1>4 DEF SafeInv, KeysSeeded, BrokerTypeOK
  <2> QED BY <1>5, <2>1
<1>7. LockInv(t)' /\ FileInv(t)' /\ RevokedInv(t)' /\ RemovedInv(t)'
  BY <1>1, <1>3 DEF RunInv, LockInv, FileInv, RevokedInv, RemovedInv
<1>8. BytesInv(t)'
  BY <1>1, <1>4, <1>5 DEF BytesInv
<1>9. SetInv(t)'
  <2>1. \A o \in Owners : seeds'[t][o] # 0 => o \in usersFor(run[t].want) \cup {ADMIN_DIR} \cup run[t].pending
    BY <1>2, <1>4
  <2>2. \A o \in usersFor(run[t].want) \cup {ADMIN_DIR} : seeds'[t][o] # 0 /\ o \notin run[t].pending
    <3> SUFFICES ASSUME NEW o \in usersFor(run[t].want) \cup {ADMIN_DIR}
                 PROVE  seeds'[t][o] # 0 /\ o \notin run[t].pending
      OBVIOUS
    <3>1. o \in Owners
      BY <1>3, RunsAre, OwnersAre DEF usersFor, Runs
    <3>2. o # m /\ seeds[t][o] # 0 /\ o \notin run[t].pending
      BY <1>1, <1>4
    <3> QED BY <1>2, <3>1, <3>2
  <2> QED BY <1>1, <2>1, <2>2 DEF SetInv, usersFor
<1>10. \A u \in Actors : RunInv(u)'
  <2>1. RunInv(t)'
    BY <1>7, <1>8, <1>9 DEF RunInv
  <2>2. \A u \in Actors : u # t => run[u].pc \in Waiting
    BY <1>3, OnePasses
  <2> QED BY <1>1, <2>1, <2>2, WaitingRun
<1>11. ~ensured[t].ok
  BY <1>1, LivesUntold DEF At
<1>12. EnsuredInv'
  BY <1>1, <1>2, <1>11 DEF SafeInv, EnsuredInv, At, usersFor
<1>13. NoLostUpdate'
  <2> SUFFICES ASSUME NEW u \in Tenants, ensured[u].ok,
                      NEW p \in usersFor(ensured[u].set) \cup {ADMIN_DIR}
               PROVE  KeyOf(u, p)' \in file
    BY <1>1 DEF NoLostUpdate, usersFor
  <2>1. KeyOf(u, p) \in file /\ u # t
    BY <1>11 DEF SafeInv, NoLostUpdate
  <2>2. p \in Owners
    BY OwnersAre DEF BrokerTypeOK, usersFor
  <2> QED BY <1>2, <2>1, <2>2 DEF KeyOf
<1> QED BY <1>6, <1>10, <1>12, <1>13 DEF SafeInv

\* The run returns: a tenant's seeds are those of its set, and the file holds
\* their keys; init has told nobody anything.
LEMMA ReturnKeeps ==
  ASSUME BrokerTypeOK, SafeInv, NEW r \in Actors, Return(r)
  PROVE  SafeInv'
<1>1. /\ run[r].pc = "release" /\ run' = [run EXCEPT ![r] = Idle]
      /\ Tells(r, [ok |-> TRUE, set |-> run[r].want])
      /\ UNCHANGED <<seeds, minted, file, server, marker>>
  BY DEF Return, At
<1>2. run'[r].pc = "idle" /\ \A u \in Actors : u # r => run'[u] = run[u]
  BY <1>1, RunsAre, EndStep
<1>3. \A u \in Actors : u # r => run[u].pc \in Waiting
  BY <1>1, OnePasses DEF Waiting
<1>4. \A u \in Actors : RunInv(u)'
  BY <1>2, <1>3, WaitingRun DEF Waiting
<1>5. KeysSeeded'
  BY <1>1 DEF SafeInv, KeysSeeded, Held
<1>6. CASE r \notin Tenants
  <2>1. \A t \in Tenants : ensured'[t] = ensured[t]
    BY <1>1, <1>6 DEF Tells
  <2>2. \A t \in Tenants : ensured'[t].ok => run'[t].pc = "idle"
    BY <1>2, <1>6, <2>1, TenantsAct DEF SafeInv, EnsuredInv, At
  <2> QED BY <1>1, <1>4, <2>1, <2>2, EnsuredStays DEF SafeInv
<1>7. CASE r \in Tenants
  <2>1. /\ ensured'[r].set = run[r].want
        /\ \A t \in Tenants : t # r => ensured'[t] = ensured[t]
    BY <1>1, <1>7 DEF Tells
  <2>2. /\ \A k \in Keys : k \in run[r].bytes <=> Held(k) /\ ~(k[1] = r /\ k[2] \in run[r].pending)
        /\ file = run[r].bytes
        /\ \A o \in Owners : seeds[r][o] # 0 => o \in usersFor(run[r].want) \cup {ADMIN_DIR} \cup run[r].pending
        /\ \A o \in usersFor(run[r].want) \cup {ADMIN_DIR} : seeds[r][o] # 0 /\ o \notin run[r].pending
        /\ \A m \in run[r].pending : seeds[r][m] = 0
    BY <1>1, <1>7 DEF SafeInv, RunInv, BytesInv, SetInv, FileInv, RemovedInv, Rendered
  <2>3. \A o \in Owners : seeds[r][o] # 0 <=> o \in usersFor(run[r].want) \cup {ADMIN_DIR}
    BY <2>2
  <2>4. EnsuredInv'
    BY <1>1, <1>2, <2>1, <2>3, TenantsAct DEF SafeInv, EnsuredInv, At, usersFor
  <2>5. \A o \in usersFor(run[r].want) \cup {ADMIN_DIR} : KeyOf(r, o) \in file
    <3> SUFFICES ASSUME NEW o \in usersFor(run[r].want) \cup {ADMIN_DIR}
                 PROVE  KeyOf(r, o) \in file
      OBVIOUS
    <3>1. o \in Owners
      BY RunsAre, OwnersAre DEF usersFor, Runs
    <3>2. KeyOf(r, o) \in Keys /\ Held(KeyOf(r, o)) /\ KeyOf(r, o)[2] = o
      BY <1>7, <2>2, <3>1, SeedIsKey
    <3> QED BY <2>2, <3>2
  <2>6. NoLostUpdate'
    BY <1>1, <2>1, <2>5 DEF SafeInv, NoLostUpdate, KeyOf, usersFor
  <2> QED BY <1>4, <1>5, <2>4, <2>6 DEF SafeInv
<1> QED BY <1>6, <1>7

\* The server restarts, or nothing happens.
LEMMA RestartKeeps ==
  ASSUME BrokerTypeOK, SafeInv, ServerRestart \/ UNCHANGED brokerVars
  PROVE  SafeInv'
<1>1. UNCHANGED <<seeds, minted, file, marker, lock, run, ensured>> /\ server' \in {server, file}
  BY DEF ServerRestart, brokerVars
<1>2. \A u \in Actors : RunInv(u)'
  <2> TAKE u \in Actors
  <2>1. RunInv(u) /\ (run[u].pc \notin Waiting => lock' = u)
    BY <1>1 DEF SafeInv, RunInv, LockInv
  <2> QED BY <1>1, <2>1, QuietRun
<1>3. \A t \in Tenants : ensured[t].ok => run[t].pc = "idle"
  BY DEF SafeInv, EnsuredInv, At
<1> QED BY <1>1, <1>2, <1>3, EnsuredStays DEF SafeInv

LEMMA BrokerInvInit == BrokerInit => BrokerInv
<1> SUFFICES ASSUME BrokerInit
             PROVE  BrokerInv
  OBVIOUS
<1>1. /\ \A r \in Actors : run[r].pc = "idle"
      /\ \A t \in Tenants : ~ensured[t].ok
  BY DEF BrokerInit, Idle
<1>2. run \in [Actors -> Runs]
  BY DEF BrokerInit, Idle, Runs, Labels
<1>3. seeds \in [Tenants -> [Owners -> 0..MaxKeys]] /\ minted \in [Tenants -> [Owners -> 0..MaxKeys]]
  BY MaxKeysAssumption DEF BrokerInit
<1>4. BrokerTypeOK
  BY <1>2, <1>3 DEF BrokerInit, BrokerTypeOK, Runs
<1>5. \A r \in Actors : RunInv(r)
  BY <1>1 DEF RunInv, LockInv, BytesInv, FileInv, SetInv, RevokedInv, RemovedInv, Waiting, Rendered
<1>6. KeysSeeded /\ EnsuredInv /\ NoLostUpdate
  BY <1>1 DEF BrokerInit, KeysSeeded, EnsuredInv, NoLostUpdate
<1> QED BY <1>4, <1>5, <1>6 DEF BrokerInv, SafeInv

\* A robbed run stays robbed.
LEMMA RobbedForGood == BrokerTypeOK /\ [BrokerNext]_brokerVars /\ ~robbed' => ~robbed
BY DEF BrokerTypeOK, BrokerNext, TenantStep, initAccounts, brokerVars, Start, Begins, EnsureSeed, Render, Reload,
       assertRevoked, removeModuleSeed, ensureStreams, WriteMarker, initRender, ClearLock, TakeOver,
       WriteAccounts, Return, Fail, Die, ServerRestart
-----------------------------------------------------------------------------
\* BrokerInv holds whichever runs of whichever tenants failed or died, whichever
\* locks were taken over, and whenever the server restarted.
THEOREM BrokerInvariant == BrokerSpec => []BrokerInv
<1>1. BrokerInv /\ [BrokerNext]_brokerVars => BrokerInv'
  <2> SUFFICES ASSUME BrokerInv, [BrokerNext]_brokerVars
               PROVE  BrokerInv'
    OBVIOUS
  <2>1. BrokerTypeOK /\ BrokerTypeOK'
    BY TypesKept DEF BrokerInv
  <2> SUFFICES ASSUME ~robbed'
               PROVE  SafeInv'
    BY <2>1 DEF BrokerInv
  <2>2. SafeInv
    BY <2>1, RobbedForGood DEF BrokerInv
  <2>3. ASSUME NEW t \in Tenants, TenantStep(t)
        PROVE  SafeInv'
    BY <2>1, <2>2, <2>3, TenantsAct, StartKeeps, SeedKeeps, RenderKeeps, ReloadKeeps, AssertKeeps,
       RemoveKeeps, StreamsKeep DEF TenantStep
  <2>4. ASSUME NEW r \in Actors,
               ClearLock(r) \/ TakeOver(r) \/ WriteAccounts(r) \/ Return(r) \/ Fail(r) \/ Die(r)
        PROVE  SafeInv'
    BY <2>1, <2>2, <2>4, ClearKeeps, TakeKeeps, WriteKeeps, ReturnKeeps, StopKeeps
  <2>5. CASE initAccounts
    BY <2>1, <2>2, <2>5, TenantsAct, StartKeeps, InitRenderKeeps DEF initAccounts
  <2> QED BY <2>1, <2>2, <2>3, <2>4, <2>5, RestartKeeps DEF BrokerNext
<1> QED BY <1>1, BrokerInvInit, PTL DEF BrokerSpec

\* The store, the file, the server and the runs keep their types.
THEOREM BrokerTypeCorrect == BrokerSpec => []BrokerTypeOK
<1>1. BrokerInv => BrokerTypeOK
  BY DEF BrokerInv
<1> QED BY <1>1, BrokerInvariant, PTL

\* While no run is robbed of its lock nobody is admitted on a key whose seed was
\* thrown away, not by the server and not by the file a restart would load.
THEOREM KeysHaveSeeds == BrokerSpec => []NoKeyWithoutSeed
<1>1. BrokerInv => NoKeyWithoutSeed
  BY DEF BrokerInv, SafeInv, KeysSeeded, Held, NoKeyWithoutSeed
<1> QED BY <1>1, BrokerInvariant, PTL

\* Once a run for a tenant returned, none of the tenant's modules outside its set
\* is admitted until the tenant's next run begins, while no run is robbed.
THEOREM EvictionHolds == BrokerSpec => []EvictedStaysOut
<1>1. BrokerInv => EvictedStaysOut
  <2> SUFFICES ASSUME BrokerInv, ~robbed, NEW t \in Tenants, ensured[t].ok, NEW k \in server \cup file, k[1] = t
               PROVE  k[2] \in usersFor(ensured[t].set) \cup {ADMIN_DIR}
    BY DEF EvictedStaysOut
  <2>1. k \in Keys /\ seeds[k[1]][k[2]] = k[3] /\ EnsuredInv
    BY DEF BrokerInv, SafeInv, BrokerTypeOK, KeysSeeded, Held
  <2>2. k[2] \in Owners /\ seeds[t][k[2]] # 0
    BY <2>1, KeyFields
  <2> QED BY <2>1, <2>2 DEF EnsuredInv
<1> QED BY <1>1, BrokerInvariant, PTL

\* Once a run for a tenant returned, the file admits all of its set, whatever runs
\* for others and whatever init follow, wherever they died and whichever of them
\* took over a lock left behind, as long as none was robbed of its lock.
THEOREM NoTenantDropped == BrokerSpec => []FileKeepsEveryTenant
<1>1. BrokerInv => FileKeepsEveryTenant
  BY DEF BrokerInv, SafeInv, FileKeepsEveryTenant
<1> QED BY <1>1, BrokerInvariant, PTL
=============================================================================
