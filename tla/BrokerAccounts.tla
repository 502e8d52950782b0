---------------------------- MODULE BrokerAccounts ----------------------------
(* @gremion/nats-auth: which keys the NATS server admits.  ensureTenantAccount *)
(* works on four stores that no transaction joins: the seed files (the truth), *)
(* the accounts file rendered from all of them, the server that loads the file *)
(* only on a reload or a restart, and the marker that says which bytes it      *)
(* loaded.  Every write is a step; a run may fail at any of them (it releases  *)
(* the store's lock) or die (the lock is left behind).  `nats-auth init', which *)
(* every deploy runs, is a run beside those of the tenants.                    *)
EXTENDS Naturals

CONSTANTS
  Tenants, Modules,    \* the modules that have a broker user (FLOWS without the kernel)
  Deploy,              \* the run of nats-auth init
  None, Left,          \* no lock; the lock directory of a run that died
  Slow,                \* whether a run may live longer than staleMs (ten minutes)
  MaxKeys              \* bound: the seeds one identity may be given in its life

Actors == Tenants \cup {Deploy}

ASSUME MaxKeysAssumption == MaxKeys \in Nat \ {0} /\ Slow \in BOOLEAN
ASSUME ActorsAssumption == Deploy \notin Tenants /\ None \notin Actors /\ Left \notin Actors \cup {None}

VARIABLES
  seeds,     \* the seed each identity holds in the store, 0 when it has none
  minted,    \* the seeds each identity has been given so far
  file,      \* the keys in the accounts file
  server,    \* the keys the running server admits
  marker,    \* the bytes of the last reload known to have succeeded, if any
  lock,      \* the lock directory: whose it is, if there is one
  robbed,    \* history: whether a run lost its lock while it lived
  run,       \* each tenant's run of ensureTenantAccount, and that of init
  ensured    \* whether the tenant's last run returned, and its set

brokerVars == <<seeds, minted, file, server, marker, lock, robbed, run, ensured>>

ADMIN_DIR == "_admin"
KERNEL == "kernel"
Owners == Modules \cup {ADMIN_DIR, KERNEL}
Keys == Tenants \X Owners \X (1..MaxKeys)
Idle == [pc |-> "idle", want |-> {}, pending |-> {}, bytes |-> {}, loaded |-> FALSE]
Labels == {"idle", "clear", "take", "seeds", "write", "reload", "revoked", "remove", "marker", "release"}

BrokerTypeOK ==
  /\ seeds \in [Tenants -> [Owners -> 0..MaxKeys]]
  /\ minted \in [Tenants -> [Owners -> 0..MaxKeys]]
  /\ file \subseteq Keys /\ server \subseteq Keys
  /\ \A bytes \in marker : bytes \subseteq Keys
  /\ lock \in Actors \cup {None, Left} /\ robbed \in BOOLEAN
  /\ run \in [Actors -> [pc : Labels, want : SUBSET Modules, pending : SUBSET Modules,
                         bytes : SUBSET Keys, loaded : BOOLEAN]]
  /\ ensured \in [Tenants -> [ok : BOOLEAN, set : SUBSET Modules]]

\* nats-auth init ran on a fresh volume: SYS only.
BrokerInit ==
  /\ seeds = [t \in Tenants |-> [o \in Owners |-> 0]] /\ minted = seeds
  /\ file = {} /\ server = {} /\ marker = {}
  /\ lock = None /\ robbed = FALSE
  /\ run = [r \in Actors |-> Idle] /\ ensured = [t \in Tenants |-> [ok |-> FALSE, set |-> {}]]

-----------------------------------------------------------------------------
\* The users of one tenant for a module set; the kernel always.
usersFor(want) == want \cup {KERNEL}

modulesOf(t) == {o \in Owners \ {ADMIN_DIR} : seeds[t][o] # 0}

KeyOf(t, o) == <<t, o, seeds[t][o]>>

\* Every seed of every tenant, except the modules a run is about to drop.
stateFromStore(t, pending) ==
  {KeyOf(u, o) : u \in Tenants, o \in Owners} \cap {k \in Keys : ~(k[1] = t /\ k[2] \in pending)}

Missing(t) == {o \in {ADMIN_DIR} \cup usersFor(run[t].want) : seeds[t][o] = 0}

At(r, label) == run[r].pc = label

Goto(r, label) == run' = [run EXCEPT ![r].pc = label]

\* What a tenant was last told; init tells nobody anything.
Tells(r, answer) == ensured' = [t \in Tenants |-> IF t = r THEN answer ELSE ensured[t]]

-----------------------------------------------------------------------------
(* SeedStore.lock: mkdir, and when the directory is there and old, stat, rm   *)
(* and mkdir again, each a step that other runs come between.                 *)

\* The directory is older than staleMs: the run that made it died, or is slow.
Stale == lock = Left \/ (Slow /\ lock # None)

Begins(r, want, label) ==
  /\ run' = [run EXCEPT ![r] = [Idle EXCEPT !.pc = label, !.want = want]]
  /\ Tells(r, [ok |-> FALSE, set |-> {}])
  /\ UNCHANGED <<seeds, minted, file, server, marker, robbed>>

\* Mutation: the lock is taken without looking whether there is one.
FaultStart(r, want) ==
  /\ At(r, "idle")
  /\ lock' = r /\ Begins(r, want, "seeds")

\* The first mkdir takes a lock that is free; else stat, and a lock that is stale
\* is to be cleared.  A run that finds one younger gives up and has changed nothing.
Start(r, want) ==
  /\ At(r, "idle")
  /\ \/ lock = None /\ lock' = r /\ Begins(r, want, "seeds")
     \/ Stale /\ lock' = lock /\ Begins(r, want, "clear")

\* rmSync of whatever is there by now: the stale lock, or that of a run which
\* cleared it first and has taken its own.
ClearLock(r) ==
  /\ At(r, "clear")
  /\ lock' = None /\ robbed' = (robbed \/ lock \in Actors)
  /\ Goto(r, "take")
  /\ UNCHANGED <<seeds, minted, file, server, marker, ensured>>

\* The second mkdir; if another run was first this one gives up, as in Fail.
TakeOver(r) ==
  /\ At(r, "take") /\ lock = None
  /\ lock' = r
  /\ Goto(r, "seeds")
  /\ UNCHANGED <<seeds, minted, file, server, marker, robbed, ensured>>

\* release() removes only a lock that still bears the run's own stamp.
Released(r) == IF lock = r THEN None ELSE lock

-----------------------------------------------------------------------------
(* ensureTenantAccount({ tenant, modules }), under the lock.                 *)

\* Additive first: the admin's seed, then each user's, read or created.
EnsureSeed(t, o) ==
  /\ At(t, "seeds") /\ o \in Missing(t)
  /\ o = ADMIN_DIR \/ ADMIN_DIR \notin Missing(t)
  /\ minted[t][o] < MaxKeys
  /\ minted' = [minted EXCEPT ![t][o] = @ + 1]
  /\ seeds' = [seeds EXCEPT ![t][o] = minted[t][o] + 1]
  /\ UNCHANGED <<file, server, marker, lock, robbed, run, ensured>>

\* Mutation: the dropped modules' seeds are deleted before the file is rendered.
FaultRender(t) ==
  /\ At(t, "seeds") /\ Missing(t) = {}
  /\ LET pending == modulesOf(t) \ usersFor(run[t].want)
         bytes == stateFromStore(t, pending)
         loaded == file = bytes /\ bytes \in marker
     IN /\ seeds' = [seeds EXCEPT ![t] = [o \in Owners |-> IF o \in pending THEN 0 ELSE @[o]]]
        /\ run' = [run EXCEPT ![t] = [@ EXCEPT !.pc = IF loaded THEN "revoked" ELSE "write",
                                               !.bytes = bytes, !.loaded = loaded]]
  /\ UNCHANGED <<minted, file, server, marker, lock, robbed, ensured>>

\* Removals stay pending: rendered out, their seeds kept.  Unchanged bytes that
\* the marker says are loaded need neither a write nor a reload.
Render(t) ==
  /\ At(t, "seeds") /\ Missing(t) = {}
  /\ LET pending == modulesOf(t) \ usersFor(run[t].want)
         bytes == stateFromStore(t, pending)
         loaded == file = bytes /\ bytes \in marker
     IN run' = [run EXCEPT ![t] = [@ EXCEPT !.pc = IF loaded THEN "revoked" ELSE "write",
                                            !.pending = pending, !.bytes = bytes, !.loaded = loaded]]
  /\ UNCHANGED <<seeds, minted, file, server, marker, lock, robbed, ensured>>

\* The file as it was rendered; init is done with that.
WriteAccounts(r) ==
  /\ At(r, "write")
  /\ file' = run[r].bytes
  /\ Goto(r, IF r = Deploy THEN "release" ELSE "reload")
  /\ UNCHANGED <<seeds, minted, server, marker, lock, robbed, ensured>>

Reload(t) ==
  /\ At(t, "reload")
  /\ server' = file
  /\ Goto(t, "revoked")
  /\ UNCHANGED <<seeds, minted, file, marker, lock, robbed, ensured>>

\* Mutation: the reload's reply is taken for the revocation.
FaultAssertRevoked(t) ==
  /\ At(t, "revoked")
  /\ Goto(t, "remove")
  /\ UNCHANGED <<seeds, minted, file, server, marker, lock, robbed, ensured>>

\* Every dropped seed must now be refused by the server; if one is admitted the
\* run throws (it ends as Fail does, nothing else being changed).
assertRevoked(t) ==
  /\ At(t, "revoked")
  /\ \A m \in run[t].pending : KeyOf(t, m) \notin server
  /\ Goto(t, "remove")
  /\ UNCHANGED <<seeds, minted, file, server, marker, lock, robbed, ensured>>

removeModuleSeed(t, m) ==
  /\ At(t, "remove") /\ m \in run[t].pending /\ seeds[t][m] # 0
  /\ seeds' = [seeds EXCEPT ![t][m] = 0]
  /\ UNCHANGED <<minted, file, server, marker, lock, robbed, run, ensured>>

\* As the tenant's admin, which the server must admit for that.
ensureStreams(t) ==
  /\ At(t, "remove") /\ \A m \in run[t].pending : seeds[t][m] = 0
  /\ KeyOf(t, ADMIN_DIR) \in server
  /\ Goto(t, IF run[t].loaded THEN "release" ELSE "marker")
  /\ UNCHANGED <<seeds, minted, file, server, marker, lock, robbed, ensured>>

WriteMarker(t) ==
  /\ At(t, "marker")
  /\ marker' = {run[t].bytes}
  /\ Goto(t, "release")
  /\ UNCHANGED <<seeds, minted, file, server, lock, robbed, ensured>>

\* Mutation: the kernel is counted among the modules of the set.
FaultReturn(r) ==
  /\ At(r, "release")
  /\ lock' = Released(r)
  /\ Tells(r, [ok |-> TRUE, set |-> usersFor(run[r].want)])
  /\ run' = [run EXCEPT ![r] = Idle]
  /\ UNCHANGED <<seeds, minted, file, server, marker, robbed>>

Return(r) ==
  /\ At(r, "release")
  /\ lock' = Released(r)
  /\ Tells(r, [ok |-> TRUE, set |-> run[r].want])
  /\ run' = [run EXCEPT ![r] = Idle]
  /\ UNCHANGED <<seeds, minted, file, server, marker, robbed>>

\* Any call throws: the broker is unreachable, the disk is full, a dropped key is
\* still admitted, another run took the lock over.  The finally block releases it.
Fail(r) ==
  /\ ~At(r, "idle")
  /\ lock' = Released(r)
  /\ run' = [run EXCEPT ![r] = Idle]
  /\ UNCHANGED <<seeds, minted, file, server, marker, robbed, ensured>>

\* The container is killed: nothing is released.
Die(r) ==
  /\ ~At(r, "idle")
  /\ lock' = IF lock = r THEN Left ELSE lock
  /\ run' = [run EXCEPT ![r] = Idle]
  /\ UNCHANGED <<seeds, minted, file, server, marker, robbed, ensured>>

-----------------------------------------------------------------------------
\* `nats-auth init' under the lock: the bytes of every seed in the store, written
\* and not loaded.
initRender ==
  /\ At(Deploy, "seeds")
  /\ run' = [run EXCEPT ![Deploy] = [@ EXCEPT !.pc = "write", !.bytes = stateFromStore(Deploy, {})]]
  /\ UNCHANGED <<seeds, minted, file, server, marker, lock, robbed, ensured>>

\* The NATS server starts and reads the accounts file.
ServerRestart ==
  /\ server' = file
  /\ UNCHANGED <<seeds, minted, file, marker, lock, robbed, run, ensured>>

TenantStep(t) ==
  \/ \E want \in SUBSET Modules : Start(t, want)
  \/ \E o \in Owners : EnsureSeed(t, o)
  \/ Render(t) \/ Reload(t) \/ assertRevoked(t)
  \/ \E m \in Modules : removeModuleSeed(t, m)
  \/ ensureStreams(t) \/ WriteMarker(t)

initAccounts == Start(Deploy, {}) \/ initRender

BrokerNext == \/ \E t \in Tenants : TenantStep(t)
              \/ initAccounts
              \/ \E r \in Actors : ClearLock(r) \/ TakeOver(r) \/ WriteAccounts(r) \/ Return(r) \/ Fail(r) \/ Die(r)
              \/ ServerRestart

BrokerSpec == BrokerInit /\ [][BrokerNext]_brokerVars

-----------------------------------------------------------------------------
(* What holds while no run was robbed of its lock; NoLostUpdate says what the *)
(* code does otherwise.                                                      *)

\* Nobody is admitted on a key whose seed was thrown away, not by the server and
\* not by the file a restart would load: removeModuleSeed follows the revocation
\* (ensure.ts "Removals stay PENDING"), whichever run of whichever tenant wrote
\* the file last and wherever a run died.
NoKeyWithoutSeed == ~robbed => \A k \in server \cup file : seeds[k[1]][k[2]] = k[3]

\* Once a run for a tenant returned, the server admits none of the tenant's
\* modules outside the set it was given, until the tenant's next run begins:
\* suspending a customer or disabling a module really evicts, and no run of
\* another tenant, no init and no restart brings a key back.
EvictedStaysOut ==
  ~robbed => \A t \in Tenants : ensured[t].ok =>
    \A k \in server \cup file : k[1] = t => k[2] \in usersFor(ensured[t].set) \cup {ADMIN_DIR}

\* Once a run for a tenant returned, the accounts file admits all of the tenant's
\* set, whatever runs for others and whatever init follow (store.ts lock: "two
\* tenant-create runs rendering concurrently would each write an accounts file
\* missing the other's users (a lost update)").
NoLostUpdate ==
  \A t \in Tenants : ensured[t].ok =>
    \A o \in usersFor(ensured[t].set) \cup {ADMIN_DIR} : KeyOf(t, o) \in file

\* The lock of the store keeps it wherever runs fail and die, and also when a lock
\* left behind is taken over, as long as the takeover robs no live run.
FileKeepsEveryTenant == ~robbed => NoLostUpdate

\* What the header of ensure.ts says of a run that returned: "The result is that
\* set, exactly" on the running server too.
EnsuredIsServed ==
  ~robbed => \A t \in Tenants : ensured[t].ok =>
    \A o \in usersFor(ensured[t].set) : KeyOf(t, o) \in server
=============================================================================
