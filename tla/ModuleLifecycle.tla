--------------------------- MODULE ModuleLifecycle ---------------------------
(* The database of one module of one customer: enableModule and              *)
(* disableModule of @gremion/tenant-store/lifecycle, every durable write a   *)
(* step of its own, so that a run can stop between any two of them.  The     *)
(* platform row is written before each destructive step; the database itself *)
(* lives on another server.  Requests of the module's users are admitted by  *)
(* the level-1 switch and commit into the database whenever they get there.  *)
(* One run works on a customer at a time (the queue and the host lock, see   *)
(* RequestExecutor), so there is one program counter.                        *)
EXTENDS Naturals

CONSTANT Writes                 \* the writes users make through the module

VARIABLES
  pc,       \* the statement the run is about to execute
  row,      \* plt.module_database: its state and the export it records
  switch,   \* plt.module_enablement.state
  db,       \* the module database on its server
  dump,     \* the verified export the running disable has taken
  req,      \* what became of each user write
  raced,    \* writes in flight when a dump was taken
  lost      \* writes dropped with a database and in no recorded export

moduleVars == <<row, switch, db, dump, req, raced, lost>>

NoExport == [taken |-> FALSE, rows |-> {}]
NoRow == [state |-> "none", exp |-> NoExport]
NoDatabase == [there |-> FALSE, migrated |-> FALSE, data |-> {}]

ModuleTypeOK ==
  /\ row \in [state : {"none", "enabling", "enabled", "disabling", "dropped"},
              exp : [taken : BOOLEAN, rows : SUBSET Writes]]
  /\ switch \in {"none", "enabled", "disabled"}
  /\ db \in [there : BOOLEAN, migrated : BOOLEAN, data : SUBSET Writes]
  /\ dump \in [taken : BOOLEAN, rows : SUBSET Writes]
  /\ req \in [Writes -> {"new", "admitted", "committed", "refused"}]
  /\ raced \subseteq Writes /\ lost \subseteq Writes

ModuleInit ==
  /\ row = NoRow /\ switch = "none" /\ db = NoDatabase /\ dump = NoExport
  /\ req = [w \in Writes |-> "new"] /\ raced = {} /\ lost = {}

-----------------------------------------------------------------------------
(* The user side: the switch is read per request, the write commits later.   *)

\* The live per-request read of the switch; only an active customer resolves.
Admit(w, active) ==
  /\ req[w] = "new" /\ switch = "enabled" /\ active
  /\ req' = [req EXCEPT ![w] = "admitted"]
  /\ UNCHANGED <<row, switch, db, dump, raced, lost>>

\* The admitted request commits, or fails on a database that is gone.
Commit(w) ==
  /\ req[w] = "admitted"
  /\ req' = [req EXCEPT ![w] = IF db.migrated THEN "committed" ELSE "refused"]
  /\ db' = IF db.migrated THEN [db EXCEPT !.data = @ \cup {w}] ELSE db
  /\ UNCHANGED <<row, switch, dump, raced, lost>>

-----------------------------------------------------------------------------
(* enableModule; `next` is where the caller goes on.                         *)

\* Mutation: the run creates the database before the platform row exists.
FaultEnRow(next) ==
  /\ pc = "en_row"
  /\ db' = IF row.state = "none" THEN [db EXCEPT !.there = TRUE] ELSE db
  /\ row' = IF row.state = "none" /\ db.there THEN [row EXCEPT !.state = "enabling"] ELSE row
  /\ pc' = IF row.state = "none" /\ ~db.there THEN "en_row" ELSE "en_db"
  /\ UNCHANGED <<switch, dump, req, raced, lost>>

\* The row is inserted or re-opened before anything is created; a database
\* being disabled is refused, one that is enabled already is left alone.
EnRow(next) ==
  /\ pc = "en_row"
  /\ row' = IF row.state \in {"none", "dropped"} THEN [row EXCEPT !.state = "enabling"] ELSE row
  /\ pc' = CASE row.state = "disabling" -> "failed"
             [] row.state = "enabled" /\ ~db.there -> "failed"
             [] row.state = "enabled" /\ db.there -> IF switch = "enabled" THEN next ELSE "en_switch"
             [] OTHER -> "en_db"
  /\ UNCHANGED <<switch, db, dump, req, raced, lost>>

\* Roles, CREATE DATABASE unless it is there, the lock-down.
EnDb ==
  /\ pc = "en_db"
  /\ db' = [db EXCEPT !.there = TRUE]
  /\ pc' = "en_migrate"
  /\ UNCHANGED <<row, switch, dump, req, raced, lost>>

\* The migrations as the owner (what the runner has applied it skips), the grants.
EnMigrate ==
  /\ pc = "en_migrate"
  /\ db' = [db EXCEPT !.migrated = TRUE]
  /\ pc' = "en_switch"
  /\ UNCHANGED <<row, switch, dump, req, raced, lost>>

\* One transaction: the row to `enabled` and the switch on.
EnSwitch(next) ==
  /\ pc = "en_switch"
  /\ row.state \in {"enabling", "enabled"}
  /\ row' = [row EXCEPT !.state = "enabled"]
  /\ switch' = "enabled"
  /\ pc' = next
  /\ UNCHANGED <<db, dump, req, raced, lost>>

-----------------------------------------------------------------------------
(* disableModule: export first, then drop.                                   *)

\* Mutation: the switch goes off with the `dropped` row, not before the dump.
FaultDisRow(next) ==
  /\ pc = "dis_row"
  /\ row' = IF row.state \in {"none", "dropped"} THEN row
            ELSE [state |-> "disabling", exp |-> IF row.state = "disabling" THEN row.exp ELSE NoExport]
  /\ pc' = IF row.state \in {"none", "dropped"} THEN next ELSE "dis_look"
  /\ UNCHANGED <<switch, db, dump, req, raced, lost>>

\* Nothing to drop: only the switch.  Else one transaction: the row to
\* `disabling`, its export record cleared unless it was there already, and the
\* switch off.
DisRow(next) ==
  /\ pc = "dis_row"
  /\ switch' = IF switch = "enabled" THEN "disabled" ELSE switch
  /\ row' = IF row.state \in {"none", "dropped"} THEN row
            ELSE [state |-> "disabling", exp |-> IF row.state = "disabling" THEN row.exp ELSE NoExport]
  /\ pc' = IF row.state \in {"none", "dropped"} THEN next ELSE "dis_look"
  /\ UNCHANGED <<db, dump, req, raced, lost>>

\* No database: a drop whose `dropped` write is missing is finished, an enable
\* that never created one is forgotten.
DisLook(next) ==
  /\ pc = "dis_look"
  /\ row' = CASE db.there -> row
              [] ~db.there /\ row.exp.taken -> [row EXCEPT !.state = "dropped"]
              [] OTHER -> NoRow
  /\ pc' = IF db.there THEN "dis_dump" ELSE next
  /\ UNCHANGED <<switch, db, dump, req, raced, lost>>

\* pg_dump and its verification: a snapshot of what has committed.
DisDump ==
  /\ pc = "dis_dump"
  /\ dump' = [taken |-> TRUE, rows |-> db.data]
  /\ raced' = raced \cup {w \in Writes : req[w] = "admitted"}
  /\ pc' = "dis_record"
  /\ UNCHANGED <<row, switch, db, req, lost>>

\* The export into the row, while it is still `disabling`.
DisRecord ==
  /\ pc = "dis_record"
  /\ row.state = "disabling"
  /\ row' = [row EXCEPT !.exp = dump]
  /\ pc' = "dis_drop"
  /\ UNCHANGED <<switch, db, dump, req, raced, lost>>

\* The row is re-read and must hold this export; then DROP DATABASE.
DisDrop ==
  /\ pc = "dis_drop"
  /\ row.state = "disabling" /\ row.exp = dump /\ dump.taken
  /\ lost' = lost \cup (db.data \ row.exp.rows)
  /\ db' = NoDatabase
  /\ pc' = "dis_dropped"
  /\ UNCHANGED <<row, switch, dump, req, raced>>

DisDropped(next) ==
  /\ pc = "dis_dropped"
  /\ row' = [row EXCEPT !.state = "dropped"]
  /\ pc' = next
  /\ UNCHANGED <<switch, db, dump, req, raced, lost>>

ModuleStep(next) ==
  \/ EnRow(next) \/ EnDb \/ EnMigrate \/ EnSwitch(next)
  \/ DisRow(next) \/ DisLook(next) \/ DisDump \/ DisRecord \/ DisDrop \/ DisDropped(next)

-----------------------------------------------------------------------------
\* Switch, platform row and database agree wherever a run stopped.  A module
\* that is switched on has its migrated database and an `enabled` row (enable
\* switches on last, disable off first, each in the transaction that moves the
\* row); no database exists without a row that a rerun resumes from; `dropped`
\* is said only of a database that is gone and whose export is recorded.
RowFindsDatabase ==
  /\ switch = "enabled" => row.state = "enabled" /\ db.there /\ db.migrated
  /\ db.there => row.state \in {"enabling", "enabled", "disabling"}
  /\ row.state = "dropped" => ~db.there /\ row.exp.taken

\* disableModule loses no committed write, except of a request that had been
\* admitted before the switch went off and was still in flight when the dump
\* was taken: nothing admitted later can be in the dropped database.
OnlyRacingWritesLost == lost \subseteq raced
=============================================================================
