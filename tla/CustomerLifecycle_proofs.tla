----------------------- MODULE CustomerLifecycle_proofs -----------------------
(***************************************************************************)
(* Proofs about CustomerLifecycle and ModuleLifecycle, for every set of    *)
(* writes, every number of faults, with and without verbs run past the     *)
(* panel: a served customer is whole, the ledger tells the truth, a        *)
(* suspended customer is locked out, the broker follows the switch, a      *)
(* disabled module loses only writes that raced its dump, and the          *)
(* administrator is not invited again.                                     *)
(*                                                                         *)
(* None of these is inductive.  CustInv adds what a run relies on at each  *)
(* statement because an earlier statement of the same run established it,  *)
(* and that no other verb can have touched it in between.                  *)
(***************************************************************************)
EXTENDS CustomerLifecycle, TLAPS

CreateLabels == {"row", "bind", "a", "a_row", "host", "b", "invite", "mark", "b_row", "modules",
                 "setup", "router", "activate"}
EnableLabels == {"en_row", "en_db", "en_migrate", "en_switch"}
DisableLabels == {"dis_row", "dis_look", "dis_dump", "dis_record", "dis_drop", "dis_dropped"}

\* A verb is at a statement of its own.
VerbAt ==
  /\ pc \in CreateLabels => verb = "create"
  /\ pc = "mail" => verb \in {"create", "resume"}
  /\ pc = "stamp" => verb \in {"create", "resume", "reconcile"}
  /\ pc \in EnableLabels \cup DisableLabels => verb \in {"create", "enable", "disable"}
  /\ pc = "broker" => verb \in {"create", "enable", "disable", "resume"}
  /\ pc \in {"s_status", "s_realm", "s_logout", "s_broker"} => verb = "suspend"
  /\ pc \in {"unstamp", "delete"} => verb \in {"suspend", "resume"}
  /\ pc \in {"r_check", "r_realm", "r_active", "r_exit"} => verb = "resume"
  /\ pc = "check" => verb \in {"enable", "disable"}
  /\ pc \in {"drift", "verify"} => verb = "reconcile"

\* The module's row, switch and database at every statement that moves them.
ModuleInv ==
  /\ RowFindsDatabase
  /\ row.state = "enabled" => db.there /\ db.migrated
  /\ pc \in {"en_db", "en_migrate"} => row.state = "enabling"
  /\ pc = "en_migrate" => db.there
  /\ pc = "en_switch" => row.state \in {"enabling", "enabled"} /\ db.there /\ db.migrated
  /\ pc \in DisableLabels \ {"dis_row"} => row.state = "disabling"
  /\ pc = "dis_dropped" => ~db.there /\ row.exp.taken

\* While an export is taken and dropped, only racing writes come into the database.
ExportInv ==
  /\ lost \subseteq raced
  /\ pc \in {"dis_record", "dis_drop"} =>
       \A w \in Writes : w \in raced \/ (req[w] # "admitted" /\ (w \in db.data => w \in dump.rows))

\* What a `done` row of this kind stands for.
Told(kind) ==
  /\ kind = "realm_created" => realm.made
  /\ kind = "database_created" => kernel.made
  /\ kind = "domain_bound" => tenant.host
  /\ kind = "first_body_created" => kernel.bodies = 1
  /\ kind = "broker_account_created" => broker # "none"

LedgerInv ==
  /\ LedgerTellsTruth
  /\ pc = "a_row" => \A i \in NextOfA : Told(EXECUTION_ORDER[i])
  /\ pc \in {"invite", "mark", "b_row"} => Before(8) \subseteq done
  /\ pc = "b_row" => invite.mark

InviteInv ==
  /\ invite.mark => invite.sent > 0
  /\ pc = "mark" => invite.sent > 0
  /\ pc \in {"invite", "mark"} => ~invite.mark

MailInv ==
  /\ HealthySends
  /\ pc = "stamp" => mail.principal
  /\ pc = "delete" => ~mail.fields

\* What an activated customer keeps, suspended or not.
Whole == /\ tenant.host /\ IsComplete /\ realm.made
         /\ kernel.made /\ kernel.bodies = 1 /\ edge.router /\ edge.setup

StatusInv ==
  /\ tenant.status \in {"active", "suspended"} => Whole
  /\ tenant.status # "suspended" /\ realm.made => realm.enabled
  /\ pc \in {"s_realm", "s_logout", "s_broker"} => tenant.status = "suspended"
  /\ pc \in {"r_realm", "r_active"} \/ (pc = "broker" /\ verb = "resume") => tenant.status \in {"active", "suspended"}
  /\ pc = "r_active" \/ (pc = "broker" /\ verb = "resume") => realm.enabled
  /\ pc \in {"router", "activate"} => edge.setup
  /\ pc = "activate" => edge.router

\* What a suspend has locked before each of its statements.
LockInv ==
  /\ pc \in {"s_logout", "s_broker"} => ~realm.enabled
  /\ pc = "s_broker" => ~realm.sessions
  /\ verb = "suspend" /\ pc \in {"unstamp", "delete", "done"} =>
       tenant.status = "suspended" /\ ~realm.enabled /\ ~realm.sessions /\ broker = "kernel"
  /\ verb = "suspend" /\ pc = "done" => ~mail.principal /\ ~mail.fields

SwitchInv ==
  /\ BrokerFollowsSwitch
  /\ pc \in {"setup", "router", "activate", "r_active", "r_exit"} =>
       broker = IF switch = "enabled" THEN "module" ELSE "kernel"
  /\ \/ pc \in {"invite", "mark", "b_row", "modules", "setup", "router", "activate"} \cup EnableLabels \cup DisableLabels
     \/ pc = "broker" /\ verb # "resume"
     => tenant.status # "suspended"
  /\ pc = "r_exit" => tenant.status = "active"

CustInv == /\ CustTypeOK /\ VerbAt /\ ModuleInv /\ ExportInv /\ LedgerInv /\ InviteInv
           /\ MailInv /\ StatusInv /\ LockInv /\ SwitchInv
-----------------------------------------------------------------------------
\* Every step keeps the verb at a statement of its own.
LEMMA VerbAtKept ==
  ASSUME CustTypeOK, VerbAt, CustNext
  PROVE  VerbAt'
<1> USE DEF VerbAt, At, Keep, CreateLabels, EnableLabels, DisableLabels
<1>1. ASSUME NEW v \in Verbs, NEW e \in BOOLEAN, Begin(v, e)
      PROVE  VerbAt'
  BY <1>1 DEF Begin, Verbs, Entry
<1>2. CASE Register \/ BindHost \/ RunStep \/ AppendDone
  BY <1>2 DEF Register, BindHost, RunStep, AppendDone
<1>3. CASE RealmSmtp \/ Stamp \/ RecordHostStep
  BY <1>3 DEF RealmSmtp, Stamp, RecordHostStep
<1>4. CASE PhaseB \/ Invite \/ MarkInvited \/ AppendAccounts \/ EnableRequested
  BY <1>4 DEF PhaseB, Invite, MarkInvited, AppendAccounts, EnableRequested
<1>5. CASE LifecycleStep
  <2>1. verb' = verb
    BY <1>5 DEF LifecycleStep, custVars
  <2> QED BY <1>5, <2>1 DEF LifecycleStep, ModuleStep, EnRow, EnDb, EnMigrate, EnSwitch,
             DisRow, DisLook, DisDump, DisRecord, DisDrop, DisDropped
<1>6. CASE EnsureBroker \/ MarkSetup \/ WriteRouter \/ Activate
  BY <1>6 DEF EnsureBroker, MarkSetup, WriteRouter, Activate
<1>7. CASE SuspendStatus \/ DisableRealm \/ LogoutAll \/ EvictModules \/ Unstamp \/ DeletePrincipal
  BY <1>7 DEF SuspendStatus, DisableRealm, LogoutAll, EvictModules, Unstamp, DeletePrincipal
<1>8. CASE ResumeCheck \/ EnableRealm \/ ResumeStatus \/ ResumeExit \/ ModuleCheck \/ Verify \/ Reconcile
  BY <1>8 DEF ResumeCheck, EnableRealm, ResumeStatus, ResumeExit, ModuleCheck, Verify, Reconcile
<1>9. CASE Fault
  BY <1>9 DEF Fault, InContainer
<1>10. CASE SenderDrifts \/ Login \/ UserWrite
  BY <1>10 DEF SenderDrifts, Login, UserWrite, custVars
<1> QED BY <1>1, <1>2, <1>3, <1>4, <1>5, <1>6, <1>7, <1>8, <1>9, <1>10 DEF CustNext, RunVerb
-----------------------------------------------------------------------------
\* A step of the customer outside the module's lifecycle and the users' writes.
CustStep ==
  \/ \E v \in Verbs, e \in BOOLEAN : (v # "create" => ~e) /\ Begin(v, e)
  \/ Register \/ BindHost \/ RunStep \/ AppendDone \/ RealmSmtp \/ Stamp \/ RecordHostStep
  \/ PhaseB \/ Invite \/ MarkInvited \/ AppendAccounts \/ EnableRequested
  \/ EnsureBroker \/ MarkSetup \/ WriteRouter \/ Activate
  \/ SuspendStatus \/ DisableRealm \/ LogoutAll \/ EvictModules \/ Unstamp \/ DeletePrincipal
  \/ ResumeCheck \/ EnableRealm \/ ResumeStatus \/ ResumeExit \/ ModuleCheck \/ Verify \/ Reconcile
  \/ Fault \/ SenderDrifts \/ Login

LEMMA StepSplit == CustNext <=> CustStep \/ LifecycleStep \/ UserWrite
BY DEF CustNext, RunVerb, CustStep

\* Such a step leaves the module alone, and comes to a statement of the module's
\* lifecycle only at its entry.
LEMMA CustStepKeepsModule ==
  ASSUME CustStep
  PROVE  /\ UNCHANGED moduleVars
         /\ pc' = pc \/ pc' = "en_row" \/ pc' = "dis_row" \/ pc' \notin EnableLabels \cup DisableLabels
<1> USE DEF At, Keep, EnableLabels, DisableLabels
<1>1. ASSUME NEW v \in Verbs, NEW e \in BOOLEAN, Begin(v, e)
      PROVE  UNCHANGED moduleVars /\ pc' \notin EnableLabels \cup DisableLabels
  BY <1>1 DEF Begin, Verbs, Entry
<1>2. CASE Register \/ BindHost \/ RunStep \/ AppendDone
  BY <1>2 DEF Register, BindHost, RunStep, AppendDone
<1>3. CASE RealmSmtp \/ Stamp \/ RecordHostStep
  BY <1>3 DEF RealmSmtp, Stamp, RecordHostStep
<1>4. CASE PhaseB \/ Invite \/ MarkInvited \/ AppendAccounts \/ EnableRequested
  BY <1>4 DEF PhaseB, Invite, MarkInvited, AppendAccounts, EnableRequested
<1>5. CASE EnsureBroker \/ MarkSetup \/ WriteRouter \/ Activate
  BY <1>5 DEF EnsureBroker, MarkSetup, WriteRouter, Activate
<1>6. CASE SuspendStatus \/ DisableRealm \/ LogoutAll \/ EvictModules \/ Unstamp \/ DeletePrincipal
  BY <1>6 DEF SuspendStatus, DisableRealm, LogoutAll, EvictModules, Unstamp, DeletePrincipal
<1>7. CASE ResumeCheck \/ EnableRealm \/ ResumeStatus \/ ResumeExit \/ ModuleCheck \/ Verify \/ Reconcile
  BY <1>7 DEF ResumeCheck, EnableRealm, ResumeStatus, ResumeExit, ModuleCheck, Verify, Reconcile
<1>8. CASE Fault \/ SenderDrifts \/ Login
  BY <1>8 DEF Fault, SenderDrifts, Login, InContainer
<1> QED BY <1>1, <1>2, <1>3, <1>4, <1>5, <1>6, <1>7, <1>8 DEF CustStep

\* The module's row, switch, database and export keep their types.
LEMMA ModuleTypeKept ==
  ASSUME ModuleTypeOK, CustNext
  PROVE  ModuleTypeOK'
<1> USE DEF ModuleTypeOK
<1>1. CASE CustStep
  BY <1>1, CustStepKeepsModule DEF moduleVars
<1>2. CASE EnRow("broker")
  BY <1>2 DEF EnRow
<1>3. CASE EnDb \/ EnMigrate
  BY <1>3 DEF EnDb, EnMigrate
<1>4. CASE EnSwitch("broker")
  BY <1>4 DEF EnSwitch
<1>5. CASE DisRow("broker")
  BY <1>5 DEF DisRow, NoExport
<1>6. CASE DisLook("broker") \/ DisDropped("broker")
  <2>1. row' \in {row, [row EXCEPT !.state = "dropped"], NoRow}
    BY <1>6 DEF DisLook, DisDropped
  <2>2. UNCHANGED <<switch, db, dump, req, raced, lost>>
    BY <1>6 DEF DisLook, DisDropped
  <2> DEFINE Rows == [state : {"none", "enabling", "enabled", "disabling", "dropped"},
                      exp : [taken : BOOLEAN, rows : SUBSET Writes]]
  <2>3. NoRow \in Rows
    BY DEF NoRow, NoExport
  <2>4. row \in Rows /\ [row EXCEPT !.state = "dropped"] \in Rows
    OBVIOUS
  <2>5. row' \in Rows
    BY <2>1, <2>3, <2>4
  <2> QED BY <2>2, <2>5
<1>7. CASE DisDump
  BY <1>7 DEF DisDump
<1>8. CASE DisRecord
  BY <1>8 DEF DisRecord
<1>9. CASE DisDrop
  BY <1>9 DEF DisDrop, NoDatabase
<1>10. CASE UserWrite
  BY <1>10 DEF UserWrite, Admit, Commit
<1> QED BY <1>1, <1>2, <1>3, <1>4, <1>5, <1>6, <1>7, <1>8, <1>9, <1>10, StepSplit DEF LifecycleStep, ModuleStep

\* Where a run stopped, the switch, the row and the database agree.
LEMMA ModuleInvKept ==
  ASSUME ModuleTypeOK, ModuleInv, CustNext
  PROVE  ModuleInv'
<1> USE DEF ModuleTypeOK, ModuleInv, RowFindsDatabase, DisableLabels
<1>1. CASE CustStep
  BY <1>1, CustStepKeepsModule DEF moduleVars, EnableLabels
<1>2. CASE EnRow("broker")
  BY <1>2 DEF EnRow
<1>3. CASE EnDb \/ EnMigrate
  BY <1>3 DEF EnDb, EnMigrate
<1>4. CASE EnSwitch("broker")
  BY <1>4 DEF EnSwitch
<1>5. CASE DisRow("broker")
  BY <1>5 DEF DisRow, NoExport
<1>6. CASE DisLook("broker") \/ DisDropped("broker")
  BY <1>6 DEF DisLook, DisDropped, NoRow, NoExport
<1>7. CASE DisDump
  BY <1>7 DEF DisDump
<1>8. CASE DisRecord
  BY <1>8 DEF DisRecord
<1>9. CASE DisDrop
  BY <1>9 DEF DisDrop, NoDatabase
<1>10. CASE UserWrite
  BY <1>10 DEF UserWrite, Admit, Commit
<1> QED BY <1>1, <1>2, <1>3, <1>4, <1>5, <1>6, <1>7, <1>8, <1>9, <1>10, StepSplit DEF LifecycleStep, ModuleStep

\* From the dump to the drop the switch is off: what is not raced is in the dump.
LEMMA ExportInvKept ==
  ASSUME ModuleTypeOK, ModuleInv, ExportInv, CustNext
  PROVE  ExportInv'
<1> USE DEF ModuleTypeOK, ModuleInv, RowFindsDatabase, ExportInv, DisableLabels
<1>1. CASE CustStep
  BY <1>1, CustStepKeepsModule DEF moduleVars, EnableLabels
<1>2. CASE EnRow("broker") \/ EnDb \/ EnMigrate \/ EnSwitch("broker")
  BY <1>2 DEF EnRow, EnDb, EnMigrate, EnSwitch
<1>5. CASE DisRow("broker") \/ DisLook("broker") \/ DisDropped("broker")
  BY <1>5 DEF DisRow, DisLook, DisDropped
<1>7. CASE DisDump
  BY <1>7 DEF DisDump
<1>8. CASE DisRecord
  BY <1>8 DEF DisRecord
<1>9. CASE DisDrop
  BY <1>9 DEF DisDrop, NoDatabase
<1>10. CASE UserWrite
  BY <1>10 DEF UserWrite, Admit, Commit
<1> QED BY <1>1, <1>2, <1>5, <1>7, <1>8, <1>9, <1>10, StepSplit DEF LifecycleStep, ModuleStep
-----------------------------------------------------------------------------
\* The module's lifecycle and the users' writes leave the rest of the customer alone.
LEMMA ModuleKeepsCust ==
  ASSUME LifecycleStep \/ UserWrite
  PROVE  /\ UNCHANGED custVars
         /\ \/ pc' = pc /\ switch' = switch
            \/ /\ pc \in EnableLabels \cup DisableLabels
               /\ pc' \in EnableLabels \cup DisableLabels \cup {"broker", "failed"}
<1> USE DEF EnableLabels, DisableLabels
<1>1. CASE LifecycleStep
  <2>1. UNCHANGED custVars
    BY <1>1 DEF LifecycleStep
  <2>2. /\ pc \in EnableLabels \cup DisableLabels
        /\ pc' \in EnableLabels \cup DisableLabels \cup {"broker", "failed"}
    BY <1>1 DEF LifecycleStep, ModuleStep, EnRow, EnDb, EnMigrate, EnSwitch,
             DisRow, DisLook, DisDump, DisRecord, DisDrop, DisDropped
  <2> QED BY <2>1, <2>2
<1>2. CASE UserWrite
  BY <1>2 DEF UserWrite, Admit, Commit, custVars
<1> QED BY <1>1, <1>2

\* The kinds of the ledger, in their order.
LEMMA Order ==
  /\ EXECUTION_ORDER[1] = "realm_created" /\ EXECUTION_ORDER[2] = "database_created"
  /\ EXECUTION_ORDER[3] = "domain_bound" /\ EXECUTION_ORDER[4] = "storage_prefix_reserved"
  /\ EXECUTION_ORDER[5] = "first_body_created" /\ EXECUTION_ORDER[6] = "broker_account_created"
  /\ EXECUTION_ORDER[7] = "mail_principal_issued" /\ EXECUTION_ORDER[8] = "first_accounts_created"
BY DEF EXECUTION_ORDER

LEMMA KindsAre ==
  /\ \A i \in 1..8 : EXECUTION_ORDER[i] \in Kinds
  /\ Kinds = {"realm_created", "database_created", "domain_bound", "storage_prefix_reserved",
              "first_body_created", "broker_account_created", "mail_principal_issued", "first_accounts_created"}
<1>1. \A i \in 1..8 : EXECUTION_ORDER[i] \in Kinds
  BY DEF Kinds
<1>2. 1..8 = {1, 2, 3, 4, 5, 6, 7, 8}
  OBVIOUS
<1> QED BY <1>1, <1>2, Order DEF Kinds

\* The part of the type invariant that is not the module's.
CustTypes ==
  /\ verb \in Verbs \cup {"none"}
  /\ tenant \in [status : {"absent", "provisioning", "active", "suspended"}, host : BOOLEAN]
  /\ done \subseteq Kinds
  /\ realm \in [made : BOOLEAN, enabled : BOOLEAN, sessions : BOOLEAN]
  /\ mail \in [principal : BOOLEAN, fields : BOOLEAN, auth : BOOLEAN, password : {"current", "stale", "edited"}]
  /\ broker \in {"none", "kernel", "module"}
  /\ kernel \in [made : BOOLEAN, bodies : 0..1]
  /\ invite \in [sent : Nat, mark : BOOLEAN]
  /\ edge \in [router : BOOLEAN, setup : BOOLEAN]
  /\ faults \in 0..MaxFaults

\* The updates of the kernel database and of the invitation stay in their types.
LEMMA KernelUpdates ==
  ASSUME NEW k \in [made : BOOLEAN, bodies : 0..1]
  PROVE  /\ [k EXCEPT !.made = TRUE] \in [made : BOOLEAN, bodies : 0..1]
         /\ [k EXCEPT !.bodies = 1] \in [made : BOOLEAN, bodies : 0..1]
<1>1. [k EXCEPT !.made = TRUE] \in [made : BOOLEAN, bodies : 0..1]
  OBVIOUS
<1>2. [k EXCEPT !.bodies = 1] \in [made : BOOLEAN, bodies : 0..1]
  OBVIOUS
<1> QED BY <1>1, <1>2, Zenon

LEMMA InviteUpdates ==
  ASSUME NEW k \in [sent : Nat, mark : BOOLEAN]
  PROVE  /\ [k EXCEPT !.sent = @ + 1] \in [sent : Nat, mark : BOOLEAN]
         /\ [k EXCEPT !.mark = TRUE] \in [sent : Nat, mark : BOOLEAN]
<1>1. [k EXCEPT !.sent = @ + 1] \in [sent : Nat, mark : BOOLEAN]
  OBVIOUS
<1>2. [k EXCEPT !.mark = TRUE] \in [sent : Nat, mark : BOOLEAN]
  OBVIOUS
<1> QED BY <1>1, <1>2, Zenon

LEMMA CustTypesKept ==
  ASSUME CustTypes, CustNext
  PROVE  CustTypes'
<1> USE DEF CustTypes, At, Keep
<1>0. CASE LifecycleStep \/ UserWrite
  BY <1>0, ModuleKeepsCust DEF custVars
<1>1. ASSUME NEW v \in Verbs, NEW e \in BOOLEAN, Begin(v, e)
      PROVE  CustTypes'
  BY <1>1 DEF Begin
<1>2. CASE Register \/ BindHost
  BY <1>2 DEF Register, BindHost
<1>3. CASE RunStep
  <2>1. UNCHANGED <<verb, enable, tenant, done, mail, invite, edge, faults>>
    BY <1>3 DEF RunStep
  <2>2. \/ UNCHANGED <<realm, kernel, broker>>
        \/ \E i \in NextOfA : Effect(EXECUTION_ORDER[i])
    BY <1>3 DEF RunStep
  <2>3. realm' \in [made : BOOLEAN, enabled : BOOLEAN, sessions : BOOLEAN]
    BY <2>2 DEF Effect
  <2>4. kernel' \in {kernel, [kernel EXCEPT !.made = TRUE], [kernel EXCEPT !.bodies = 1]}
    BY <2>2 DEF Effect
  <2>5. kernel' \in [made : BOOLEAN, bodies : 0..1]
    <3>1. kernel \in [made : BOOLEAN, bodies : 0..1]
      OBVIOUS
    <3> QED BY <2>4, <3>1, KernelUpdates, Zenon
  <2>6. broker' \in {"none", "kernel", "module"}
    BY <2>2 DEF Effect
  <2> QED BY <2>1, <2>3, <2>5, <2>6, Zenon
<1>4. CASE AppendDone
  <2>1. UNCHANGED <<verb, enable, tenant, realm, mail, broker, kernel, invite, edge, faults>>
    BY <1>4 DEF AppendDone
  <2>2. PICK i \in NextOfA : done' = done \cup {EXECUTION_ORDER[i]}
    BY <1>4 DEF AppendDone
  <2>3. i \in 1..8
    BY DEF NextOfA, PhaseA
  <2>4. done' \subseteq Kinds
    BY <2>2, <2>3, KindsAre
  <2> QED BY <2>1, <2>4
<1>5. CASE RealmSmtp \/ Stamp \/ Unstamp \/ DeletePrincipal \/ Reconcile
  BY <1>5 DEF RealmSmtp, Stamp, Unstamp, DeletePrincipal, Reconcile, Issued
<1>6. CASE RecordHostStep \/ AppendAccounts
  <2>1. UNCHANGED <<verb, enable, tenant, realm, mail, broker, kernel, invite, edge, faults>>
    BY <1>6 DEF RecordHostStep, AppendAccounts
  <2>2. EXECUTION_ORDER[7] \in Kinds /\ EXECUTION_ORDER[8] \in Kinds
    BY KindsAre
  <2>3. done' \subseteq Kinds
    BY <1>6, <2>2 DEF RecordHostStep, AppendAccounts
  <2> QED BY <2>1, <2>3
<1>7. CASE PhaseB \/ EnableRequested \/ ResumeCheck \/ ResumeExit \/ ModuleCheck \/ Verify
  BY <1>7 DEF PhaseB, EnableRequested, ResumeCheck, ResumeExit, ModuleCheck, Verify
<1>8. CASE Invite \/ MarkInvited
  <2>1. UNCHANGED <<verb, enable, tenant, done, realm, mail, broker, kernel, edge, faults>>
    BY <1>8 DEF Invite, MarkInvited
  <2>2. invite' \in {invite, [invite EXCEPT !.sent = @ + 1], [invite EXCEPT !.mark = TRUE]}
    BY <1>8 DEF Invite, MarkInvited
  <2>3. invite' \in [sent : Nat, mark : BOOLEAN]
    <3>1. invite \in [sent : Nat, mark : BOOLEAN]
      OBVIOUS
    <3> QED BY <2>2, <3>1, InviteUpdates, Zenon
  <2> QED BY <2>1, <2>3
<1>9. CASE EnsureBroker \/ EvictModules \/ MarkSetup \/ WriteRouter
  BY <1>9 DEF EnsureBroker, EvictModules, MarkSetup, WriteRouter
<1>10. CASE Activate \/ SuspendStatus \/ ResumeStatus
  BY <1>10 DEF Activate, SuspendStatus, ResumeStatus
<1>11. CASE DisableRealm \/ LogoutAll \/ EnableRealm \/ Login
  BY <1>11 DEF DisableRealm, LogoutAll, EnableRealm, Login
<1>12. CASE Fault \/ SenderDrifts
  <2>1. UNCHANGED <<verb, enable, tenant, done, realm, broker, kernel, invite, edge>>
    BY <1>12 DEF Fault, SenderDrifts
  <2>2. mail' \in [principal : BOOLEAN, fields : BOOLEAN, auth : BOOLEAN, password : {"current", "stale", "edited"}]
    BY <1>12 DEF Fault, SenderDrifts
  <2>3. faults' \in 0..MaxFaults
    <3>1. faults' = faults + 1 /\ faults < MaxFaults
      BY <1>12 DEF Fault, SenderDrifts
    <3>2. faults \in 0..MaxFaults /\ MaxFaults \in Nat
      BY BoundsAssumption
    <3> QED BY <3>1, <3>2
  <2> QED BY <2>1, <2>2, <2>3
<1> QED BY <1>0, <1>1, <1>2, <1>3, <1>4, <1>5, <1>6, <1>7, <1>8, <1>9, <1>10, <1>11, <1>12, StepSplit
        DEF CustStep

\* The sender: the mail step rotates only while the fields are wrong, reconcile while
\* the report is not green, and the un-stamp comes before the deletion.
LEMMA MailInvKept ==
  ASSUME CustTypes, MailInv, CustNext
  PROVE  MailInv'
<1> USE DEF CustTypes, MailInv, HealthySends, Stamped, Healthy, Issued, At, Keep
<1>0. CASE LifecycleStep \/ UserWrite
  BY <1>0, ModuleKeepsCust DEF custVars, EnableLabels, DisableLabels
<1>1. ASSUME NEW v \in Verbs, NEW e \in BOOLEAN, Begin(v, e)
      PROVE  MailInv'
  BY <1>1 DEF Begin, Verbs, Entry
<1>2. CASE Register \/ BindHost \/ RunStep \/ AppendDone
  BY <1>2 DEF Register, BindHost, RunStep, AppendDone
<1>3. CASE RealmSmtp \/ Stamp
  BY <1>3 DEF RealmSmtp, Stamp
<1>4. CASE RecordHostStep \/ PhaseB \/ Invite \/ MarkInvited \/ AppendAccounts \/ EnableRequested
  BY <1>4 DEF RecordHostStep, PhaseB, Invite, MarkInvited, AppendAccounts, EnableRequested
<1>5. CASE EnsureBroker \/ MarkSetup \/ WriteRouter \/ Activate
  BY <1>5 DEF EnsureBroker, MarkSetup, WriteRouter, Activate
<1>6. CASE SuspendStatus \/ DisableRealm \/ LogoutAll \/ EvictModules
  BY <1>6 DEF SuspendStatus, DisableRealm, LogoutAll, EvictModules
<1>7. CASE Unstamp \/ DeletePrincipal \/ Reconcile
  BY <1>7 DEF Unstamp, DeletePrincipal, Reconcile
<1>8. CASE ResumeCheck \/ EnableRealm \/ ResumeStatus \/ ResumeExit \/ ModuleCheck \/ Verify
  BY <1>8 DEF ResumeCheck, EnableRealm, ResumeStatus, ResumeExit, ModuleCheck, Verify
<1>9. CASE Fault \/ SenderDrifts \/ Login
  BY <1>9 DEF Fault, SenderDrifts, Login, InContainer
<1> QED BY <1>0, <1>1, <1>2, <1>3, <1>4, <1>5, <1>6, <1>7, <1>8, <1>9, StepSplit DEF CustStep

\* The invitation: sent before it is marked, and only while it is not.
LEMMA InviteInvKept ==
  ASSUME CustTypes, InviteInv, CustNext
  PROVE  InviteInv' /\ (invite.mark => UNCHANGED invite)
<1> USE DEF CustTypes, InviteInv, At, Keep
<1>0. CASE LifecycleStep \/ UserWrite
  BY <1>0, ModuleKeepsCust DEF custVars, EnableLabels, DisableLabels
<1>1. ASSUME NEW v \in Verbs, NEW e \in BOOLEAN, Begin(v, e)
      PROVE  InviteInv' /\ UNCHANGED invite
  BY <1>1 DEF Begin, Verbs, Entry
<1>2. CASE Register \/ BindHost \/ RunStep \/ AppendDone \/ RealmSmtp \/ Stamp \/ RecordHostStep
  BY <1>2 DEF Register, BindHost, RunStep, AppendDone, RealmSmtp, Stamp, RecordHostStep
<1>3. CASE PhaseB \/ AppendAccounts \/ EnableRequested
  BY <1>3 DEF PhaseB, AppendAccounts, EnableRequested
<1>4. CASE Invite \/ MarkInvited
  BY <1>4 DEF Invite, MarkInvited
<1>5. CASE EnsureBroker \/ MarkSetup \/ WriteRouter \/ Activate
  BY <1>5 DEF EnsureBroker, MarkSetup, WriteRouter, Activate
<1>6. CASE SuspendStatus \/ DisableRealm \/ LogoutAll \/ EvictModules \/ Unstamp \/ DeletePrincipal
  BY <1>6 DEF SuspendStatus, DisableRealm, LogoutAll, EvictModules, Unstamp, DeletePrincipal
<1>7. CASE ResumeCheck \/ EnableRealm \/ ResumeStatus \/ ResumeExit \/ ModuleCheck \/ Verify \/ Reconcile
  BY <1>7 DEF ResumeCheck, EnableRealm, ResumeStatus, ResumeExit, ModuleCheck, Verify, Reconcile
<1>8. CASE Fault \/ SenderDrifts \/ Login
  BY <1>8 DEF Fault, SenderDrifts, Login, InContainer
<1> QED BY <1>0, <1>1, <1>2, <1>3, <1>4, <1>5, <1>6, <1>7, <1>8, StepSplit DEF CustStep
-----------------------------------------------------------------------------
\* Only the beginning of a verb says whether a create enables the module.
LEMMA EnableKept ==
  ASSUME enable \in BOOLEAN, CustNext
  PROVE  enable' \in BOOLEAN
<1> USE DEF Keep
<1>0. CASE LifecycleStep \/ UserWrite
  BY <1>0, ModuleKeepsCust DEF custVars
<1>1. ASSUME NEW v \in Verbs, NEW e \in BOOLEAN, Begin(v, e)
      PROVE  enable' \in BOOLEAN
  BY <1>1, Zenon DEF Begin
<1>2. ASSUME CustStep, ~(\E v \in Verbs, e \in BOOLEAN : (v # "create" => ~e) /\ Begin(v, e))
      PROVE  enable' = enable
  BY <1>2 DEF CustStep, Register, BindHost, RunStep, AppendDone, RealmSmtp, Stamp, RecordHostStep,
     PhaseB, Invite, MarkInvited, AppendAccounts, EnableRequested, EnsureBroker, MarkSetup, WriteRouter,
     Activate, SuspendStatus, DisableRealm, LogoutAll, EvictModules, Unstamp, DeletePrincipal,
     ResumeCheck, EnableRealm, ResumeStatus, ResumeExit, ModuleCheck, Verify, Reconcile, Fault, SenderDrifts, Login
<1>3. CASE CustStep
  <2>1. CASE \E v \in Verbs, e \in BOOLEAN : (v # "create" => ~e) /\ Begin(v, e)
    BY <1>1, <2>1, Zenon
  <2> QED BY <1>2, <1>3, <2>1, Zenon
<1> QED BY <1>0, <1>3, StepSplit

\* What the rows stand for is never taken back.
LEMMA TruthStays ==
  ASSUME LedgerTellsTruth, done' = done,
         realm.made => realm'.made, kernel.made => kernel'.made, tenant.host => tenant'.host,
         kernel.bodies = 1 => kernel'.bodies = 1, broker # "none" => broker' # "none",
         invite.mark /\ invite.sent > 0 => invite'.mark /\ invite'.sent > 0
  PROVE  /\ LedgerTellsTruth'
         /\ \A i \in NextOfA : Told(EXECUTION_ORDER[i]) => Told(EXECUTION_ORDER[i])'
<1>1. \A i \in 1..8 : Before(i)' = Before(i)
  BY DEF Before
<1>2. LedgerTellsTruth'
  BY <1>1 DEF LedgerTellsTruth
<1>3. \A kind : Told(kind) => Told(kind)'
  BY DEF Told
<1> QED BY <1>2, <1>3

LEMMA NextIsOne ==
  /\ NextOfA \subseteq 1..6
  /\ \A i, j \in NextOfA : i = j
  /\ \A i \in NextOfA : Before(i) \subseteq done
<1>1. NextOfA \subseteq 1..6
  BY DEF NextOfA, PhaseA
<1>2. \A i, j \in NextOfA : i = j
  <2> SUFFICES ASSUME NEW i \in NextOfA, NEW j \in NextOfA, i # j
               PROVE  FALSE
    OBVIOUS
  <2>1. i \in 1..6 /\ j \in 1..6
    BY <1>1
  <2>2. i < j \/ j < i
    BY <2>1
  <2> QED BY <2>1, <2>2 DEF NextOfA, PhaseA
<1>3. \A i \in NextOfA : Before(i) \subseteq done
  <2> SUFFICES ASSUME NEW i \in NextOfA, NEW j \in 1..(i - 1)
               PROVE  EXECUTION_ORDER[j] \in done
    BY DEF Before
  <2>1. i \in 1..6
    BY <1>1
  <2>2. j \in 1..6 /\ j < i
    BY <2>1
  <2> QED BY <2>2 DEF NextOfA, PhaseA
<1> QED BY <1>1, <1>2, <1>3

\* No kind stands twice in the order.
LEMMA OrderDistinct == \A i, j \in 1..8 : EXECUTION_ORDER[i] = EXECUTION_ORDER[j] => i = j
<1> SUFFICES ASSUME NEW i \in 1..8, NEW j \in 1..8, EXECUTION_ORDER[i] = EXECUTION_ORDER[j]
             PROVE  i = j
  OBVIOUS
<1>1. i \in {1, 2, 3, 4, 5, 6, 7, 8} /\ j \in {1, 2, 3, 4, 5, 6, 7, 8}
  OBVIOUS
<1> QED BY <1>1, Order

\* A row is appended behind the rows before it.
LEMMA AppendKeepsOrder ==
  ASSUME NEW i \in 1..8, Before(i) \subseteq done, done' = done \cup {EXECUTION_ORDER[i]},
         \A k \in 1..8 : EXECUTION_ORDER[k] \in done => Before(k) \subseteq done
  PROVE  \A k \in 1..8 : EXECUTION_ORDER[k] \in done' => (Before(k) \subseteq done)'
<1> SUFFICES ASSUME NEW k \in 1..8, EXECUTION_ORDER[k] \in done'
             PROVE  (Before(k) \subseteq done)'
  OBVIOUS
<1>1. EXECUTION_ORDER[k] \in done \/ k = i
  BY OrderDistinct
<1>2. Before(k) \subseteq done
  BY <1>1
<1> QED BY <1>2 DEF Before

\* A row is appended after its step, and nothing it stands for is taken back.
LEMMA LedgerInvKept ==
  ASSUME CustTypes, VerbAt, InviteInv, LedgerInv, CustNext
  PROVE  LedgerInv'
<1> USE DEF CustTypes, LedgerInv, At, Keep
<1>0. ASSUME UNCHANGED <<done, realm, kernel, tenant, broker, invite>>,
             pc' \in {"a_row", "invite", "mark", "b_row"} => pc' = pc
      PROVE  LedgerInv'
  <2>1. LedgerTellsTruth' /\ \A i \in NextOfA : Told(EXECUTION_ORDER[i]) => Told(EXECUTION_ORDER[i])'
    BY <1>0, TruthStays
  <2>2. NextOfA' = NextOfA /\ Before(8)' = Before(8)
    BY <1>0 DEF NextOfA, Before
  <2> QED BY <1>0, <2>1, <2>2
<1>1. ASSUME NEW v \in Verbs, NEW e \in BOOLEAN, Begin(v, e)
      PROVE  LedgerInv'
  BY <1>0, <1>1 DEF Begin, Verbs, Entry
<1>2. CASE LifecycleStep \/ UserWrite
  BY <1>0, <1>2, ModuleKeepsCust DEF custVars, EnableLabels, DisableLabels
<1>3. CASE Register \/ BindHost \/ Activate \/ SuspendStatus \/ ResumeStatus
  <2>1. /\ UNCHANGED <<done, realm, kernel, broker, invite>>
        /\ tenant.host => tenant'.host
        /\ pc' \notin {"a_row", "invite", "mark", "b_row"}
    BY <1>3 DEF Register, BindHost, Activate, SuspendStatus, ResumeStatus
  <2> QED BY <2>1, TruthStays
<1>4. CASE RunStep
  <2>1. UNCHANGED <<tenant, done, mail, invite, edge>>
    BY <1>4 DEF RunStep
  <2>2. CASE NextOfA = {}
    BY <1>0, <1>4, <2>1, <2>2 DEF RunStep
  <2>3. CASE NextOfA # {}
    <3>1. PICK i \in NextOfA : IF Refused(EXECUTION_ORDER[i])
                               THEN pc' = "failed" /\ UNCHANGED <<realm, kernel, broker>>
                               ELSE pc' = "a_row" /\ Effect(EXECUTION_ORDER[i])
      BY <1>4, <2>3 DEF RunStep
    <3>2. CASE Refused(EXECUTION_ORDER[i])
      BY <1>0, <2>1, <3>1, <3>2
    <3>3. CASE ~Refused(EXECUTION_ORDER[i])
      <4>1. pc' = "a_row" /\ Effect(EXECUTION_ORDER[i])
        BY <3>1, <3>3
      <4>2. /\ realm.made => realm'.made
            /\ kernel.made => kernel'.made
            /\ kernel.bodies = 1 => kernel'.bodies = 1
            /\ broker # "none" => broker' # "none"
        BY <4>1 DEF Effect
      <4>3. Told(EXECUTION_ORDER[i])'
        BY <2>1, <3>3, <4>1 DEF Told, Effect, Refused
      <4>4. LedgerTellsTruth'
        BY <2>1, <4>2, TruthStays
      <4>5. NextOfA' = NextOfA /\ \A j \in NextOfA : j = i
        BY <2>1, NextIsOne DEF NextOfA
      <4> QED BY <4>1, <4>3, <4>4, <4>5
    <3> QED BY <3>2, <3>3
  <2> QED BY <2>2, <2>3
<1>5. CASE AppendDone
  <2>1. UNCHANGED <<tenant, realm, broker, kernel, invite>> /\ pc' = "a" /\ pc = "a_row"
    BY <1>5 DEF AppendDone
  <2>2. PICK i \in NextOfA : done' = done \cup {EXECUTION_ORDER[i]}
    BY <1>5 DEF AppendDone
  <2>3. i \in 1..6 /\ i \in 1..8 /\ Before(i) \subseteq done
    BY NextIsOne
  <2>4. \A k \in 1..8 : EXECUTION_ORDER[k] \in done' => (Before(k) \subseteq done)'
    BY <2>2, <2>3, AppendKeepsOrder DEF LedgerTellsTruth
  <2>5. Told(EXECUTION_ORDER[i])
    BY <2>1
  <2>6. EXECUTION_ORDER[i] # "first_accounts_created"
    BY <2>3, Order, OrderDistinct
  <2>7. LedgerTellsTruth'
    BY <2>1, <2>2, <2>4, <2>5, <2>6 DEF LedgerTellsTruth, Told
  <2> QED BY <2>1, <2>7
<1>6. CASE RecordHostStep
  <2>1. /\ UNCHANGED <<tenant, realm, broker, kernel, invite>> /\ pc' \in {"b", "failed"}
        /\ \/ done' = done
           \/ done' = done \cup {EXECUTION_ORDER[7]} /\ Before(7) \subseteq done
    BY <1>6 DEF RecordHostStep
  <2>2. CASE done' = done
    BY <1>0, <2>1, <2>2
  <2>3. CASE done' = done \cup {EXECUTION_ORDER[7]} /\ Before(7) \subseteq done
    <3>1. \A k \in 1..8 : EXECUTION_ORDER[k] \in done' => (Before(k) \subseteq done)'
      BY <2>3, AppendKeepsOrder DEF LedgerTellsTruth
    <3>2. LedgerTellsTruth'
      BY <2>1, <2>3, <3>1, Order DEF LedgerTellsTruth
    <3> QED BY <2>1, <3>2
  <2> QED BY <2>1, <2>2, <2>3
<1>7. CASE PhaseB
  <2>1. UNCHANGED <<tenant, realm, broker, kernel, invite, done>>
    BY <1>7 DEF PhaseB
  <2>2. /\ pc' \in {"failed", "modules", "invite", "b_row"}
        /\ pc' \in {"invite", "b_row"} => Before(8) \subseteq done
        /\ pc' = "b_row" => invite.mark
    BY <1>7 DEF PhaseB
  <2>3. LedgerTellsTruth' /\ Before(8)' = Before(8)
    BY <2>1, TruthStays DEF Before
  <2> QED BY <2>1, <2>2, <2>3
<1>8. CASE Invite \/ MarkInvited
  <2>1. /\ UNCHANGED <<tenant, realm, broker, kernel, done>> /\ pc' \in {"mark", "failed", "b_row"}
        /\ invite.mark => invite'.mark
        /\ pc' = "b_row" => invite'.mark
        /\ pc \in {"invite", "mark"}
    BY <1>8 DEF Invite, MarkInvited
  <2>2. ~invite.mark
    BY <2>1 DEF InviteInv
  <2>3. LedgerTellsTruth' /\ Before(8)' = Before(8)
    BY <2>1, <2>2, TruthStays DEF Before
  <2> QED BY <2>1, <2>3
<1>9. CASE AppendAccounts
  <2>1. UNCHANGED <<tenant, realm, broker, kernel, invite>> /\ pc' = "modules" /\ pc = "b_row"
        /\ done' = done \cup {EXECUTION_ORDER[8]}
    BY <1>9 DEF AppendAccounts
  <2>2. \A k \in 1..8 : EXECUTION_ORDER[k] \in done' => (Before(k) \subseteq done)'
    BY <2>1, AppendKeepsOrder DEF LedgerTellsTruth
  <2>3. LedgerTellsTruth'
    BY <2>1, <2>2, Order DEF LedgerTellsTruth, InviteInv
  <2> QED BY <2>1, <2>3
<1>10. CASE EnsureBroker \/ EvictModules
  <2>1. UNCHANGED <<done, realm, kernel, tenant, invite>> /\ broker' # "none"
        /\ pc' \notin {"a_row", "invite", "mark", "b_row"}
    BY <1>10 DEF EnsureBroker, EvictModules
  <2> QED BY <2>1, TruthStays
<1>11. CASE DisableRealm \/ LogoutAll \/ EnableRealm \/ Login
  <2>1. UNCHANGED <<done, kernel, tenant, broker, invite>> /\ realm'.made = realm.made
        /\ (pc' = pc \/ pc' \notin {"a_row", "invite", "mark", "b_row"})
    BY <1>11 DEF DisableRealm, LogoutAll, EnableRealm, Login
  <2>2. LedgerTellsTruth' /\ \A i \in NextOfA : Told(EXECUTION_ORDER[i]) => Told(EXECUTION_ORDER[i])'
    BY <2>1, TruthStays
  <2>3. NextOfA' = NextOfA /\ Before(8)' = Before(8)
    BY <2>1 DEF NextOfA, Before
  <2> QED BY <2>1, <2>2, <2>3
<1>12. CASE RealmSmtp \/ Stamp \/ Unstamp \/ DeletePrincipal \/ Reconcile \/ EnableRequested \/ MarkSetup \/ WriteRouter
  BY <1>0, <1>12 DEF RealmSmtp, Stamp, Unstamp, DeletePrincipal, Reconcile, EnableRequested, MarkSetup, WriteRouter
<1>13. CASE ResumeCheck \/ ResumeExit \/ ModuleCheck \/ Verify \/ Fault \/ SenderDrifts
  BY <1>0, <1>13 DEF ResumeCheck, ResumeExit, ModuleCheck, Verify, Fault, SenderDrifts, InContainer
<1> QED BY <1>1, <1>2, <1>3, <1>4, <1>5, <1>6, <1>7, <1>8, <1>9, <1>10, <1>11, <1>12, <1>13, StepSplit
        DEF CustStep
-----------------------------------------------------------------------------
\* Only an activated customer is active or suspended, and it stays whole.
LEMMA StatusInvKept ==
  ASSUME CustTypes, VerbAt, LedgerInv, StatusInv, CustNext
  PROVE  StatusInv'
<1> USE DEF CustTypes, StatusInv, Whole, IsComplete, At, Keep
<1>0. CASE LifecycleStep \/ UserWrite
  BY <1>0, ModuleKeepsCust DEF custVars, EnableLabels, DisableLabels, VerbAt
<1>1. ASSUME NEW v \in Verbs, NEW e \in BOOLEAN, Begin(v, e)
      PROVE  StatusInv'
  BY <1>1 DEF Begin, Verbs, Entry
<1>2. CASE Register \/ BindHost
  BY <1>2 DEF Register, BindHost
<1>3. CASE RunStep
  <2>1. CASE tenant.status \in {"active", "suspended"}
    <3>1. NextOfA = {}
      BY <2>1, KindsAre, NextIsOne DEF NextOfA, PhaseA
    <3> QED BY <1>3, <3>1 DEF RunStep
  <2>2. CASE tenant.status \notin {"active", "suspended"}
    <3>1. UNCHANGED <<tenant, edge>> /\ pc' \in {"mail", "failed", "a_row"}
      BY <1>3 DEF RunStep
    <3>2. realm'.made => realm'.enabled
      BY <1>3, <2>2 DEF RunStep, Effect
    <3> QED BY <2>2, <3>1, <3>2
  <2> QED BY <2>1, <2>2
<1>4. CASE AppendDone \/ RecordHostStep \/ AppendAccounts
  <2>1. done \subseteq done' /\ UNCHANGED <<tenant, realm, kernel, edge>> /\ pc' \in {"a", "b", "failed", "modules"}
    BY <1>4 DEF AppendDone, RecordHostStep, AppendAccounts
  <2>2. done' \subseteq Kinds
    BY CustTypesKept
  <2> QED BY <2>1, <2>2
<1>5. CASE RealmSmtp \/ Stamp
  BY <1>5 DEF RealmSmtp, Stamp
<1>6. CASE PhaseB \/ Invite \/ MarkInvited \/ EnableRequested
  BY <1>6 DEF PhaseB, Invite, MarkInvited, EnableRequested, VerbAt, CreateLabels
<1>7. CASE EnsureBroker \/ MarkSetup \/ WriteRouter
  BY <1>7 DEF EnsureBroker, MarkSetup, WriteRouter
<1>8. CASE Activate
  <2>1. UNCHANGED <<done, realm, kernel, edge>> /\ pc = "activate" /\ pc' \in {"done", "failed"}
    BY <1>8 DEF Activate
  <2>2. \/ tenant' = tenant
        \/ tenant.status \in {"active", "provisioning"} /\ IsComplete /\ tenant' = [tenant EXCEPT !.status = "active"]
    BY <1>8 DEF Activate
  <2>3. CASE tenant' = tenant
    BY <2>1, <2>3
  <2>4. CASE tenant.status \in {"active", "provisioning"} /\ IsComplete /\ tenant' = [tenant EXCEPT !.status = "active"]
    <3>1. tenant.host /\ realm.made /\ kernel.made /\ kernel.bodies = 1
      BY <2>4, KindsAre DEF LedgerInv, LedgerTellsTruth
    <3>2. tenant'.host = tenant.host /\ tenant'.status = "active" /\ realm.enabled
      BY <2>4, <3>1
    <3> QED BY <2>1, <2>4, <3>1, <3>2
  <2> QED BY <2>2, <2>3, <2>4
<1>9. CASE SuspendStatus \/ DisableRealm \/ LogoutAll
  BY <1>9 DEF SuspendStatus, DisableRealm, LogoutAll
<1>10. CASE EvictModules \/ Unstamp \/ DeletePrincipal
  BY <1>10 DEF EvictModules, Unstamp, DeletePrincipal
<1>11. CASE ResumeCheck \/ EnableRealm \/ ResumeStatus \/ ResumeExit
  BY <1>11 DEF ResumeCheck, EnableRealm, ResumeStatus, ResumeExit
<1>12. CASE ModuleCheck \/ Verify \/ Reconcile \/ Fault \/ SenderDrifts \/ Login
  BY <1>12 DEF ModuleCheck, Verify, Reconcile, Fault, SenderDrifts, Login, InContainer
<1> QED BY <1>0, <1>1, <1>2, <1>3, <1>4, <1>5, <1>6, <1>7, <1>8, <1>9, <1>10, <1>11, <1>12, StepSplit
        DEF CustStep

\* What a suspend has locked stays locked until another verb begins.
LEMMA LockInvKept ==
  ASSUME CustTypes, VerbAt, MailInv, StatusInv, LockInv, CustNext
  PROVE  LockInv'
<1> USE DEF CustTypes, VerbAt, LockInv, Stamped, At, Keep
<1>0. CASE LifecycleStep \/ UserWrite
  BY <1>0, ModuleKeepsCust DEF custVars, EnableLabels, DisableLabels
<1>1. ASSUME NEW v \in Verbs, NEW e \in BOOLEAN, Begin(v, e)
      PROVE  LockInv'
  BY <1>1 DEF Begin, Verbs, Entry
<1>2. CASE Register \/ BindHost \/ RunStep \/ AppendDone
  <2>1. verb' = "create" /\ pc' \notin {"s_logout", "s_broker"}
    BY <1>2 DEF Register, BindHost, RunStep, AppendDone, CreateLabels
  <2> QED BY <2>1
<1>3. CASE RealmSmtp \/ Stamp \/ RecordHostStep
  <2>1. verb' # "suspend" /\ pc' \notin {"s_logout", "s_broker"}
    BY <1>3 DEF RealmSmtp, Stamp, RecordHostStep, CreateLabels
  <2> QED BY <2>1
<1>4. CASE PhaseB \/ Invite \/ MarkInvited \/ AppendAccounts \/ EnableRequested
  <2>1. verb' # "suspend" /\ pc' \notin {"s_logout", "s_broker"}
    BY <1>4 DEF PhaseB, Invite, MarkInvited, AppendAccounts, EnableRequested, CreateLabels
  <2> QED BY <2>1
<1>5. CASE EnsureBroker \/ MarkSetup \/ WriteRouter \/ Activate
  <2>1. verb' # "suspend" /\ pc' \notin {"s_logout", "s_broker"}
    BY <1>5 DEF EnsureBroker, MarkSetup, WriteRouter, Activate, CreateLabels
  <2> QED BY <2>1
<1>6. CASE SuspendStatus \/ DisableRealm \/ LogoutAll \/ EvictModules
  BY <1>6 DEF SuspendStatus, DisableRealm, LogoutAll, EvictModules, StatusInv
<1>7. CASE Unstamp \/ DeletePrincipal
  BY <1>7 DEF Unstamp, DeletePrincipal, MailInv
<1>8. CASE ResumeCheck \/ EnableRealm \/ ResumeStatus \/ ResumeExit \/ ModuleCheck \/ Verify \/ Reconcile
  <2>1. verb' # "suspend" /\ pc' \notin {"s_logout", "s_broker"}
    BY <1>8 DEF ResumeCheck, EnableRealm, ResumeStatus, ResumeExit, ModuleCheck, Verify, Reconcile
  <2> QED BY <2>1
<1>9. CASE Fault
  BY <1>9 DEF Fault, InContainer
<1>10. CASE SenderDrifts \/ Login
  BY <1>10 DEF SenderDrifts, Login
<1> QED BY <1>0, <1>1, <1>2, <1>3, <1>4, <1>5, <1>6, <1>7, <1>8, <1>9, <1>10, StepSplit DEF CustStep

\* The broker is set by the switch last, and the switch is not moved after it.
LEMMA SwitchInvKept ==
  ASSUME CustTypes, VerbAt, StatusInv, SwitchInv, CustNext
  PROVE  SwitchInv'
<1> USE DEF CustTypes, VerbAt, SwitchInv, BrokerFollowsSwitch, At, Keep, EnableLabels, DisableLabels, moduleVars
<1>0. CASE LifecycleStep \/ UserWrite
  BY <1>0, ModuleKeepsCust DEF custVars
<1>1. ASSUME NEW v \in Verbs, NEW e \in BOOLEAN, Begin(v, e)
      PROVE  SwitchInv'
  BY <1>1 DEF Begin, Verbs, Entry
<1>2. CASE Register \/ BindHost \/ RunStep \/ AppendDone
  BY <1>2 DEF Register, BindHost, RunStep, AppendDone
<1>3. CASE RealmSmtp \/ Stamp \/ RecordHostStep
  BY <1>3 DEF RealmSmtp, Stamp, RecordHostStep
<1>4. CASE PhaseB \/ Invite \/ MarkInvited \/ AppendAccounts \/ EnableRequested
  BY <1>4 DEF PhaseB, Invite, MarkInvited, AppendAccounts, EnableRequested
<1>5. CASE EnsureBroker \/ MarkSetup \/ WriteRouter \/ Activate
  BY <1>5 DEF EnsureBroker, MarkSetup, WriteRouter, Activate
<1>6. CASE SuspendStatus \/ DisableRealm \/ LogoutAll \/ EvictModules \/ Unstamp \/ DeletePrincipal
  BY <1>6 DEF SuspendStatus, DisableRealm, LogoutAll, EvictModules, Unstamp, DeletePrincipal
<1>7. CASE ResumeCheck \/ EnableRealm \/ ResumeStatus \/ ResumeExit \/ ModuleCheck \/ Verify \/ Reconcile
  BY <1>7 DEF ResumeCheck, EnableRealm, ResumeStatus, ResumeExit, ModuleCheck, Verify, Reconcile
<1>8. CASE Fault \/ SenderDrifts \/ Login
  BY <1>8 DEF Fault, SenderDrifts, Login, InContainer
<1> QED BY <1>0, <1>1, <1>2, <1>3, <1>4, <1>5, <1>6, <1>7, <1>8, StepSplit DEF CustStep
-----------------------------------------------------------------------------
LEMMA CustInvInit == CustInit => CustInv
<1> SUFFICES ASSUME CustInit
             PROVE  CustInv
  OBVIOUS
<1> USE DEF CustInit, ModuleInit, NoRow, NoExport, NoDatabase
<1>1. ModuleTypeOK
  BY DEF ModuleTypeOK
<1>2. verb \in Verbs \cup {"none"} /\ broker \in {"none", "kernel", "module"} /\ done \subseteq Kinds
  OBVIOUS
<1>3. /\ tenant \in [status : {"absent", "provisioning", "active", "suspended"}, host : BOOLEAN]
      /\ realm \in [made : BOOLEAN, enabled : BOOLEAN, sessions : BOOLEAN]
      /\ mail \in [principal : BOOLEAN, fields : BOOLEAN, auth : BOOLEAN, password : {"current", "stale", "edited"}]
      /\ edge \in [router : BOOLEAN, setup : BOOLEAN]
  OBVIOUS
<1>4. kernel \in [made : BOOLEAN, bodies : 0..1]
  OBVIOUS
<1>5. invite \in [sent : Nat, mark : BOOLEAN]
  OBVIOUS
<1>6. faults \in 0..MaxFaults
  BY BoundsAssumption
<1>7. enable \in BOOLEAN
  OBVIOUS
<1>8. CustTypeOK
  BY <1>1, <1>2, <1>3, <1>4, <1>5, <1>6, <1>7, Zenon DEF CustTypeOK
<1>9. VerbAt /\ ModuleInv /\ ExportInv
  BY DEF VerbAt, ModuleInv, RowFindsDatabase, ExportInv, CreateLabels, EnableLabels, DisableLabels
<1>10. LedgerInv
  BY DEF LedgerInv, LedgerTellsTruth
<1>11. InviteInv /\ MailInv /\ StatusInv /\ LockInv
  BY DEF InviteInv, MailInv, HealthySends, Stamped, Healthy, StatusInv, LockInv
<1>12. SwitchInv
  BY DEF SwitchInv, BrokerFollowsSwitch, EnableLabels, DisableLabels
<1> QED BY <1>8, <1>9, <1>10, <1>11, <1>12 DEF CustInv

LEMMA CustTypeParts == CustTypeOK <=> ModuleTypeOK /\ enable \in BOOLEAN /\ CustTypes
BY Zenon DEF CustTypeOK, CustTypes

LEMMA CustNextKeeps ==
  ASSUME CustInv, CustNext
  PROVE  CustInv'
<1>1. CustTypeOK /\ ModuleTypeOK /\ CustTypes /\ enable \in BOOLEAN
  BY CustTypeParts DEF CustInv
<1>2. CustTypeOK'
  <2>1. ModuleTypeOK' /\ enable' \in BOOLEAN /\ CustTypes'
    BY <1>1, ModuleTypeKept, CustTypesKept, EnableKept
  <2> QED BY <2>1, Zenon DEF CustTypeOK, CustTypes
<1>3. VerbAt' /\ ModuleInv' /\ ExportInv'
  BY <1>1, VerbAtKept, ModuleInvKept, ExportInvKept DEF CustInv
<1>4. LedgerInv' /\ InviteInv' /\ MailInv'
  BY <1>1, LedgerInvKept, InviteInvKept, MailInvKept DEF CustInv
<1>5. StatusInv' /\ LockInv' /\ SwitchInv'
  BY <1>1, StatusInvKept, LockInvKept, SwitchInvKept DEF CustInv
<1> QED BY <1>2, <1>3, <1>4, <1>5 DEF CustInv

LEMMA CustStutters ==
  ASSUME CustInv, UNCHANGED allVars
  PROVE  CustInv'
<1> USE DEF allVars, moduleVars, custVars
<1>1. CustTypeOK'
  <2>1. ModuleTypeOK /\ enable \in BOOLEAN /\ CustTypes
    BY CustTypeParts DEF CustInv
  <2>2. ModuleTypeOK' /\ CustTypes'
    BY <2>1 DEF ModuleTypeOK, CustTypes
  <2>3. enable' \in BOOLEAN
    BY <2>1, Zenon
  <2> QED BY <2>2, <2>3, Zenon DEF CustTypeOK, CustTypes
<1>2. VerbAt' /\ ModuleInv' /\ ExportInv'
  BY DEF CustInv, VerbAt, ModuleInv, RowFindsDatabase, ExportInv
<1>3. LedgerInv'
  BY DEF CustInv, LedgerInv, LedgerTellsTruth, Told, NextOfA, Before
<1>4. InviteInv' /\ MailInv' /\ StatusInv' /\ LockInv'
  BY DEF CustInv, InviteInv, MailInv, HealthySends, Stamped, Healthy, StatusInv, Whole, IsComplete, LockInv
<1>5. SwitchInv'
  BY DEF CustInv, SwitchInv, BrokerFollowsSwitch
<1> QED BY <1>1, <1>2, <1>3, <1>4, <1>5 DEF CustInv

\* CustInv holds wherever runs of any verbs, in any order, have stopped.
THEOREM CustInvariant == CustSpec => []CustInv
<1>1. CustInv /\ [CustNext]_allVars => CustInv'
  BY CustNextKeeps, CustStutters
<1> QED BY <1>1, CustInvInit, PTL DEF CustSpec

\* The control row, the ledger and the parts of the customer keep their types.
THEOREM CustTypeCorrect == CustSpec => []CustTypeOK
<1>1. CustInv => CustTypeOK
  BY DEF CustInv
<1> QED BY <1>1, CustInvariant, PTL

\* A customer that is served is whole, whatever failed before.
THEOREM ServedIsWhole == CustSpec => []ActiveIsServable
<1>1. CustInv => ActiveIsServable
  BY DEF CustInv, StatusInv, Whole, ActiveIsServable
<1> QED BY <1>1, CustInvariant, PTL

\* No `done` row is ahead of its step or of the rows before it.
THEOREM LedgerIsTrue == CustSpec => []LedgerTellsTruth
<1>1. CustInv => LedgerTellsTruth
  BY DEF CustInv, LedgerInv
<1> QED BY <1>1, CustInvariant, PTL

\* A realm with the sender's fields has its principal, and what the report of
\* reconcile takes for healthy has the password last issued or one typed in by hand,
\* wherever a verb stopped (customer_realm_smtp, customer_reconcile).
THEOREM HealthIsGood == CustSpec => []HealthySends
<1>1. CustInv => HealthySends
  BY DEF CustInv, MailInv
<1> QED BY <1>1, CustInvariant, PTL

\* After a suspend that succeeded nobody is in and nothing gets in.
THEOREM SuspendLocks == CustSpec => []SuspendedIsLocked
<1>1. CustInv => SuspendedIsLocked
  BY DEF CustInv, LockInv, SuspendedIsLocked
<1> QED BY <1>1, CustInvariant, PTL

\* A verb that succeeded leaves the broker with the users of the modules that are on.
THEOREM BrokerIsAsSwitched == CustSpec => []BrokerFollowsSwitch
<1>1. CustInv => BrokerFollowsSwitch
  BY DEF CustInv, SwitchInv
<1> QED BY <1>1, CustInvariant, PTL

\* Switch, platform row and database of a module agree wherever a run stopped.
THEOREM ModuleAgrees == CustSpec => []RowFindsDatabase
<1>1. CustInv => RowFindsDatabase
  BY DEF CustInv, ModuleInv
<1> QED BY <1>1, CustInvariant, PTL

\* disableModule loses only writes that were in flight when the dump was taken.
THEOREM DisableLosesOnlyRaces == CustSpec => []OnlyRacingWritesLost
<1>1. CustInv => OnlyRacingWritesLost
  BY DEF CustInv, ExportInv, OnlyRacingWritesLost
<1> QED BY <1>1, CustInvariant, PTL

\* Once the user bears the mark no step mails the administrator again.
THEOREM OneInvitation == CustSpec => InvitedNeverAgain
<1>1. CustInv /\ [CustNext]_allVars => [invite.mark => UNCHANGED invite]_invite
  <2> SUFFICES ASSUME CustInv, [CustNext]_allVars, invite.mark
               PROVE  UNCHANGED invite
    OBVIOUS
  <2>1. CASE CustNext
    BY <2>1, InviteInvKept, CustTypeParts DEF CustInv
  <2>2. CASE UNCHANGED allVars
    BY <2>2 DEF allVars, custVars
  <2> QED BY <2>1, <2>2
<1> QED BY <1>1, CustInvariant, PTL DEF CustSpec, InvitedNeverAgain
=============================================================================
