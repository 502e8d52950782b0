-------------------------- MODULE CustomerLifecycle --------------------------
(* One customer, from the request that creates it to its suspension and back: *)
(* the verbs of customer-ops.sh with the container steps they call in         *)
(* @gremion/provisioning, over stores that no transaction joins: the control  *)
(* row, the provisioning ledger, the Keycloak realm, the mail server's        *)
(* principal, the broker account, the router file, the module's database.     *)
(* A verb may stop at any step (a failed call, a killed container, a dead     *)
(* host) and is then run again, or another verb is.  The host's lock and the  *)
(* queue let one verb run at a time (RequestExecutor).                        *)
EXTENDS ModuleLifecycle, Sequences

CONSTANTS
  BreakGlass,    \* whether verbs are also run on the host, past the panel's gates
  MaxFaults      \* bound: how many steps fail, in all

ASSUME BoundsAssumption == MaxFaults \in Nat /\ BreakGlass \in BOOLEAN

VARIABLES
  verb,      \* the verb that runs, or ran last
  enable,    \* whether the create request names the module (--enable)
  tenant,    \* the control row
  done,      \* the kinds with a `done` row in the ledger
  realm,     \* the realm: made, enabled, holding sessions
  mail,      \* the submission principal, and the realm's sender (fields, auth, password)
  broker,    \* the users of the customer's broker account
  kernel,    \* the kernel database: made, with so many bodies
  invite,    \* the administrator's invitation: mails sent, the mark on the user
  edge,      \* the router file and the setup flag
  faults     \* the steps that have failed so far

custVars == <<verb, enable, tenant, done, realm, mail, broker, kernel, invite, edge, faults>>
allVars == <<pc, moduleVars, custVars>>

Verbs == {"create", "suspend", "resume", "enable", "disable", "reconcile"}

EXECUTION_ORDER ==
  <<"realm_created", "database_created", "domain_bound", "storage_prefix_reserved",
    "first_body_created", "broker_account_created", "mail_principal_issued", "first_accounts_created">>

PhaseA == 1..6
Kinds == {EXECUTION_ORDER[i] : i \in 1..8}
Before(i) == {EXECUTION_ORDER[j] : j \in 1..(i - 1)}
IsComplete == done = Kinds

AtRest == pc \in {"done", "failed"}

CustTypeOK ==
  /\ ModuleTypeOK
  /\ verb \in Verbs \cup {"none"} /\ enable \in BOOLEAN
  /\ tenant \in [status : {"absent", "provisioning", "active", "suspended"}, host : BOOLEAN]
  /\ done \subseteq Kinds
  /\ realm \in [made : BOOLEAN, enabled : BOOLEAN, sessions : BOOLEAN]
  /\ mail \in [principal : BOOLEAN, fields : BOOLEAN, auth : BOOLEAN, password : {"current", "stale", "edited"}]
  /\ broker \in {"none", "kernel", "module"}
  /\ kernel \in [made : BOOLEAN, bodies : 0..1]
  /\ invite \in [sent : Nat, mark : BOOLEAN]
  /\ edge \in [router : BOOLEAN, setup : BOOLEAN]
  /\ faults \in 0..MaxFaults

CustInit ==
  /\ pc = "done" /\ verb = "none" /\ enable = FALSE
  /\ tenant = [status |-> "absent", host |-> FALSE] /\ done = {}
  /\ realm = [made |-> FALSE, enabled |-> FALSE, sessions |-> FALSE]
  /\ mail = [principal |-> FALSE, fields |-> FALSE, auth |-> FALSE, password |-> "stale"]
  /\ broker = "none" /\ kernel = [made |-> FALSE, bodies |-> 0]
  /\ invite = [sent |-> 0, mark |-> FALSE]
  /\ edge = [router |-> FALSE, setup |-> FALSE]
  /\ faults = 0
  /\ ModuleInit

-----------------------------------------------------------------------------
(* Which verb may start.                                                      *)

\* lifecycleOffer, moduleActionsOffered, and the create form with its retry.
PanelOffers(v) ==
  CASE v = "create" -> tenant.status \in {"absent", "provisioning"}
    [] v = "suspend" -> \/ tenant.status = "active"
                        \/ tenant.status = "suspended" /\ verb \in {"suspend", "resume"} /\ pc = "failed"
    [] v = "resume" -> tenant.status = "suspended"
    [] OTHER -> tenant.status = "active"

Entry == [create |-> "row", suspend |-> "s_status", resume |-> "mail",
          enable |-> "check", disable |-> "check", reconcile |-> "drift"]

Begin(v, e) ==
  /\ AtRest /\ (BreakGlass \/ PanelOffers(v))
  /\ v # "create" => tenant.status # "absent"
  /\ verb' = v /\ enable' = e /\ pc' = Entry[v]
  /\ UNCHANGED <<moduleVars, tenant, done, realm, mail, broker, kernel, invite, edge, faults>>

\* A step that changes only the named part of the customer, and goes on at `next`.
At(label) == pc = label
Keep(rest) == UNCHANGED <<moduleVars, verb, enable, faults, rest>>

-----------------------------------------------------------------------------
(* create, container phase A.                                                 *)

\* Mutation: only a row that is inserted now is bound to its host.
FaultRegister ==
  /\ At("row")
  /\ tenant' = IF tenant.status = "absent" THEN [tenant EXCEPT !.status = "provisioning"] ELSE tenant
  /\ pc' = IF tenant.status = "absent" THEN "bind" ELSE "a"
  /\ Keep(<<done, realm, mail, broker, kernel, invite, edge>>)

\* ensureControlRow: the row and its primary host are two commits; a row a dead
\* run left without a host is bound now.
Register ==
  /\ At("row")
  /\ tenant' = IF tenant.status = "absent" THEN [tenant EXCEPT !.status = "provisioning"] ELSE tenant
  /\ pc' = IF tenant.host THEN "a" ELSE "bind"
  /\ Keep(<<done, realm, mail, broker, kernel, invite, edge>>)

BindHost ==
  /\ At("bind")
  /\ tenant' = [tenant EXCEPT !.host = TRUE]
  /\ pc' = "a"
  /\ Keep(<<done, realm, mail, broker, kernel, invite, edge>>)

\* Mutation: the first body is created without looking for one.
FaultEffect(kind) ==
  /\ realm' = IF kind = "realm_created" /\ ~realm.made
              THEN [realm EXCEPT !.made = TRUE, !.enabled = TRUE] ELSE realm
  /\ kernel' = CASE kind = "database_created" -> [kernel EXCEPT !.made = TRUE]
                 [] kind = "first_body_created" -> [kernel EXCEPT !.bodies = @ + 1]
                 [] OTHER -> kernel
  /\ broker' = IF kind = "broker_account_created" THEN "kernel" ELSE broker

\* The steps themselves, all of them made to be run again.
Effect(kind) ==
  /\ realm' = IF kind = "realm_created" /\ ~realm.made
              THEN [realm EXCEPT !.made = TRUE, !.enabled = TRUE] ELSE realm
  /\ kernel' = CASE kind = "database_created" -> [kernel EXCEPT !.made = TRUE]
                 [] kind = "first_body_created" /\ kernel.bodies = 0 -> [kernel EXCEPT !.bodies = 1]
                 [] OTHER -> kernel
  /\ broker' = IF kind = "broker_account_created" THEN "kernel" ELSE broker

\* The post-conditions: the kernel database is fresh, the host is bound.
Refused(kind) ==
  \/ kind = "database_created" /\ kernel.bodies # 0
  \/ kind = "domain_bound" /\ ~tenant.host

\* runPhase: the first kind of the phase without a `done` row, if every earlier
\* one has its own; the row is a later write of another database.
NextOfA == {i \in PhaseA : EXECUTION_ORDER[i] \notin done /\ \A j \in PhaseA : j < i => EXECUTION_ORDER[j] \in done}

\* Mutation: the row is appended whatever became of the step.
FaultRunStep ==
  /\ At("a")
  /\ IF NextOfA = {} THEN pc' = "mail" /\ UNCHANGED <<realm, kernel, broker>>
     ELSE /\ pc' = "a_row"
          /\ UNCHANGED <<realm, kernel, broker>> \/ \E i \in NextOfA : Effect(EXECUTION_ORDER[i])
  /\ Keep(<<tenant, done, mail, invite, edge>>)

RunStep ==
  /\ At("a")
  /\ IF NextOfA = {} THEN pc' = "mail" /\ UNCHANGED <<realm, kernel, broker>>
     ELSE \E i \in NextOfA : LET kind == EXECUTION_ORDER[i] IN
            IF Refused(kind) THEN pc' = "failed" /\ UNCHANGED <<realm, kernel, broker>>
            ELSE pc' = "a_row" /\ Effect(kind)
  /\ Keep(<<tenant, done, mail, invite, edge>>)

AppendDone ==
  /\ At("a_row")
  /\ \E i \in NextOfA : done' = done \cup {EXECUTION_ORDER[i]}
  /\ pc' = "a"
  /\ Keep(<<tenant, realm, mail, broker, kernel, invite, edge>>)

-----------------------------------------------------------------------------
(* The mail step of the host: create, resume and the repair of reconcile.     *)
(* The realm's password cannot be read back: it is the principal's, or no     *)
(* longer (or not yet), or one that somebody typed in.  Two checks look at    *)
(* the sender, and they differ.                                               *)

\* realm_smtp_state and assertSmtpStamped: host, port, user, from, starttls and
\* that a password is set.  `auth' is not read.
Stamped == mail.fields

\* The report of reconcile (smtpServerProblems) reads `auth' as well.
Healthy == mail.fields /\ mail.auth

\* What the mail server demands of a submission.
CanSend == mail.principal /\ mail.fields /\ mail.auth /\ mail.password = "current"

\* principals issue, or issue --rotate: a new password, which the realm has not.
Issued == [mail EXCEPT !.principal = TRUE, !.password = "stale"]

\* Mutation: the password is rotated on every run.
FaultRealmSmtp ==
  /\ At("mail")
  /\ mail' = IF realm.made THEN Issued ELSE mail
  /\ pc' = IF realm.made THEN "stamp" ELSE "failed"
  /\ Keep(<<tenant, done, realm, broker, kernel, invite, edge>>)

\* customer_realm_smtp.  Present and stamped: nothing to do.  Else a principal is
\* issued, or its password rotated.
RealmSmtp ==
  /\ At("mail")
  /\ LET issue == realm.made /\ ~(mail.principal /\ Stamped) IN
     /\ mail' = IF issue THEN Issued ELSE mail
     /\ pc' = CASE ~realm.made -> "failed"
                [] issue -> "stamp"
                [] OTHER -> IF verb = "resume" THEN "r_check" ELSE "host"
  /\ Keep(<<tenant, done, realm, broker, kernel, invite, edge>>)

\* The realm's update is another call than the issue.
Stamp ==
  /\ At("stamp")
  /\ mail' = [mail EXCEPT !.fields = TRUE, !.auth = TRUE, !.password = "current"]
  /\ pc' = CASE verb = "resume" -> "r_check" [] verb = "create" -> "host" [] OTHER -> "verify"
  /\ Keep(<<tenant, done, realm, broker, kernel, invite, edge>>)

\* record-step: the stamp read back over Keycloak, then the ledger row.
RecordHostStep ==
  /\ At("host")
  /\ LET kind == EXECUTION_ORDER[7]
         ok == kind \in done \/ (Stamped /\ Before(7) \subseteq done)
     IN /\ done' = IF ok THEN done \cup {kind} ELSE done
        /\ pc' = IF ok THEN "b" ELSE "failed"
  /\ Keep(<<tenant, realm, mail, broker, kernel, invite, edge>>)

-----------------------------------------------------------------------------
(* create, container phase B, the router file, the activation.                *)

\* Mutation: the invitation is sent while the ledger row is missing, marked or not.
FaultPhaseB ==
  /\ At("b")
  /\ LET live == tenant.status \in {"provisioning", "active"}
         told == EXECUTION_ORDER[8] \in done
         ready == Stamped /\ Before(8) \subseteq done
     IN pc' = CASE live /\ told -> "modules"
                [] live /\ ~told /\ ready -> "invite"
                [] OTHER -> "failed"
  /\ Keep(<<tenant, done, realm, mail, broker, kernel, invite, edge>>)

\* ensureInvitedUser sends only while the user bears no invite mark.
PhaseB ==
  /\ At("b")
  /\ LET live == tenant.status \in {"provisioning", "active"}
         told == EXECUTION_ORDER[8] \in done
         ready == Stamped /\ Before(8) \subseteq done
     IN pc' = CASE live /\ told -> "modules"
                [] live /\ ~told /\ ready -> IF invite.mark THEN "b_row" ELSE "invite"
                [] OTHER -> "failed"
  /\ Keep(<<tenant, done, realm, mail, broker, kernel, invite, edge>>)

\* execute-actions-email, from the realm's own sender.
Invite ==
  /\ At("invite")
  /\ invite' = IF CanSend THEN [invite EXCEPT !.sent = @ + 1] ELSE invite
  /\ pc' = IF CanSend THEN "mark" ELSE "failed"
  /\ Keep(<<tenant, done, realm, mail, broker, kernel, edge>>)

MarkInvited ==
  /\ At("mark")
  /\ invite' = [invite EXCEPT !.mark = TRUE]
  /\ pc' = "b_row"
  /\ Keep(<<tenant, done, realm, mail, broker, kernel, edge>>)

AppendAccounts ==
  /\ At("b_row")
  /\ done' = done \cup {EXECUTION_ORDER[8]}
  /\ pc' = "modules"
  /\ Keep(<<tenant, realm, mail, broker, kernel, invite, edge>>)

EnableRequested ==
  /\ At("modules")
  /\ pc' = IF enable THEN "en_row" ELSE "broker"
  /\ Keep(<<tenant, done, realm, mail, broker, kernel, invite, edge>>)

\* Mutation: a module that is as asked already leaves the broker alone.
FaultLifecycleStep ==
  /\ ModuleStep(IF row.state \in {"none", "enabled", "dropped"} THEN "done" ELSE "broker")
  /\ UNCHANGED custVars

\* The module steps of create, enable and disable; they change no other part.
LifecycleStep ==
  /\ ModuleStep("broker")
  /\ UNCHANGED custVars

\* broker.ensure for the modules that are switched on.
EnsureBroker ==
  /\ At("broker")
  /\ broker' = IF switch = "enabled" THEN "module" ELSE "kernel"
  /\ pc' = CASE verb = "create" -> "setup" [] verb = "resume" -> "r_active" [] OTHER -> "done"
  /\ Keep(<<tenant, done, realm, mail, kernel, invite, edge>>)

MarkSetup ==
  /\ At("setup")
  /\ edge' = [edge EXCEPT !.setup = TRUE]
  /\ pc' = "router"
  /\ Keep(<<tenant, done, realm, mail, broker, kernel, invite>>)

WriteRouter ==
  /\ At("router")
  /\ edge' = [edge EXCEPT !.router = TRUE]
  /\ pc' = "activate"
  /\ Keep(<<tenant, done, realm, mail, broker, kernel, invite>>)

\* active LAST, once the ledger is complete.
Activate ==
  /\ At("activate")
  /\ LET ok == tenant.status = "active" \/ (tenant.status = "provisioning" /\ IsComplete) IN
     /\ tenant' = IF ok THEN [tenant EXCEPT !.status = "active"] ELSE tenant
     /\ pc' = IF ok THEN "done" ELSE "failed"
  /\ Keep(<<done, realm, mail, broker, kernel, invite, edge>>)

-----------------------------------------------------------------------------
(* suspend: the status first, then the realm, the sessions, the broker and,   *)
(* on the host, the sender and its principal.                                 *)

SuspendStatus ==
  /\ At("s_status")
  /\ LET ok == tenant.status \in {"active", "suspended"} IN
     /\ tenant' = IF ok THEN [tenant EXCEPT !.status = "suspended"] ELSE tenant
     /\ pc' = IF ok THEN "s_realm" ELSE "failed"
  /\ Keep(<<done, realm, mail, broker, kernel, invite, edge>>)

\* Mutation: a realm found disabled is taken for one without sessions.
FaultDisableRealm ==
  /\ At("s_realm")
  /\ realm' = [realm EXCEPT !.enabled = FALSE]
  /\ pc' = IF realm.enabled THEN "s_logout" ELSE "s_broker"
  /\ Keep(<<tenant, done, mail, broker, kernel, invite, edge>>)

DisableRealm ==
  /\ At("s_realm")
  /\ realm' = [realm EXCEPT !.enabled = FALSE]
  /\ pc' = "s_logout"
  /\ Keep(<<tenant, done, mail, broker, kernel, invite, edge>>)

LogoutAll ==
  /\ At("s_logout")
  /\ realm' = [realm EXCEPT !.sessions = FALSE]
  /\ pc' = "s_broker"
  /\ Keep(<<tenant, done, mail, broker, kernel, invite, edge>>)

EvictModules ==
  /\ At("s_broker")
  /\ broker' = "kernel"
  /\ pc' = "unstamp"
  /\ Keep(<<tenant, done, realm, mail, kernel, invite, edge>>)

\* realm-smtp --revoke: the sender is taken from the realm before the principal
\* is deleted.  A resume comes here only when its container failed.
Unstamp ==
  /\ At("unstamp")
  /\ mail' = [mail EXCEPT !.fields = FALSE, !.auth = FALSE, !.password = "stale"]
  /\ pc' = "delete"
  /\ Keep(<<tenant, done, realm, broker, kernel, invite, edge>>)

DeletePrincipal ==
  /\ At("delete")
  /\ mail' = [mail EXCEPT !.principal = FALSE]
  /\ pc' = IF verb = "suspend" THEN "done" ELSE "failed"
  /\ Keep(<<tenant, done, realm, broker, kernel, invite, edge>>)

-----------------------------------------------------------------------------
(* resume, after the mail step: the realm, the broker, `active` last.         *)

\* Mutation: `active` is set before the realm is enabled again.
FaultResumeCheck ==
  /\ At("r_check")
  /\ LET ok == tenant.status \in {"suspended", "active"} /\ Stamped IN
     /\ tenant' = IF ok THEN [tenant EXCEPT !.status = "active"] ELSE tenant
     /\ pc' = IF ok THEN "r_realm" ELSE "unstamp"
  /\ Keep(<<done, realm, mail, broker, kernel, invite, edge>>)

ResumeCheck ==
  /\ At("r_check")
  /\ pc' = IF tenant.status \in {"suspended", "active"} /\ Stamped THEN "r_realm" ELSE "unstamp"
  /\ Keep(<<tenant, done, realm, mail, broker, kernel, invite, edge>>)

EnableRealm ==
  /\ At("r_realm")
  /\ realm' = [realm EXCEPT !.enabled = TRUE]
  /\ pc' = "broker"
  /\ Keep(<<tenant, done, mail, broker, kernel, invite, edge>>)

ResumeStatus ==
  /\ At("r_active")
  /\ tenant' = [tenant EXCEPT !.status = "active"]
  /\ pc' = "r_exit"
  /\ Keep(<<done, realm, mail, broker, kernel, invite, edge>>)

\* The container exits 0 and the host reads its exit code.
ResumeExit ==
  /\ At("r_exit")
  /\ pc' = "done"
  /\ Keep(<<tenant, done, realm, mail, broker, kernel, invite, edge>>)

-----------------------------------------------------------------------------
(* enable, disable, reconcile --apply.                                        *)

ModuleCheck ==
  /\ At("check")
  /\ pc' = IF tenant.status \in {"active", "provisioning"} /\ tenant.host
           THEN IF verb = "enable" THEN "en_row" ELSE "dis_row"
           ELSE "failed"
  /\ Keep(<<tenant, done, realm, mail, broker, kernel, invite, edge>>)

\* The sender is the only part of the realm contract repaired on the host: when
\* the report names it, realm-smtp --rotate, whatever the mail step would say.
Reconcile ==
  /\ At("drift")
  /\ mail' = IF Healthy \/ ~realm.made THEN mail ELSE Issued
  /\ pc' = CASE ~realm.made -> "failed" [] realm.made /\ Healthy -> "verify" [] OTHER -> "stamp"
  /\ Keep(<<tenant, done, realm, broker, kernel, invite, edge>>)

\* The verify-only report that must be green.
Verify ==
  /\ At("verify")
  /\ pc' = IF Healthy THEN "done" ELSE "failed"
  /\ Keep(<<tenant, done, realm, mail, broker, kernel, invite, edge>>)

-----------------------------------------------------------------------------
(* What the host and the users do.                                            *)

InContainer == verb = "resume" /\ pc \in {"r_check", "r_realm", "broker", "r_active", "r_exit"}

\* The step about to be made fails, or the run is killed before it.  When it is
\* the container of a resume that fails, the host revokes what it had issued.
Fault ==
  /\ ~AtRest /\ faults < MaxFaults
  /\ faults' = faults + 1
  /\ pc' \in {"failed"} \cup (IF InContainer THEN {"unstamp"} ELSE {})
  /\ UNCHANGED <<moduleVars, verb, enable, tenant, done, realm, mail, broker, kernel, invite, edge>>

\* Somebody edits the realm's sender by hand: one of the fields the mail step
\* reads, `auth', or the password alone.
SenderDrifts ==
  /\ Stamped /\ faults < MaxFaults
  /\ faults' = faults + 1
  /\ mail' \in {[mail EXCEPT !.fields = FALSE], [mail EXCEPT !.auth = FALSE], [mail EXCEPT !.password = "edited"]}
  /\ UNCHANGED <<pc, moduleVars, verb, enable, tenant, done, realm, broker, kernel, invite, edge>>

Login ==
  /\ realm.made /\ realm.enabled /\ ~realm.sessions
  /\ realm' = [realm EXCEPT !.sessions = TRUE]
  /\ UNCHANGED pc
  /\ Keep(<<tenant, done, mail, broker, kernel, invite, edge>>)

UserWrite == \E w \in Writes : (Admit(w, tenant.status = "active") \/ Commit(w)) /\ UNCHANGED <<pc, custVars>>

RunVerb ==
  \/ Register \/ BindHost \/ RunStep \/ AppendDone \/ RealmSmtp \/ Stamp \/ RecordHostStep
  \/ PhaseB \/ Invite \/ MarkInvited \/ AppendAccounts \/ EnableRequested \/ LifecycleStep
  \/ EnsureBroker \/ MarkSetup \/ WriteRouter \/ Activate
  \/ SuspendStatus \/ DisableRealm \/ LogoutAll \/ EvictModules \/ Unstamp \/ DeletePrincipal
  \/ ResumeCheck \/ EnableRealm \/ ResumeStatus \/ ResumeExit \/ ModuleCheck \/ Reconcile \/ Verify

CustNext ==
  \/ \E v \in Verbs, e \in BOOLEAN : (v # "create" => ~e) /\ Begin(v, e)
  \/ RunVerb \/ Fault \/ SenderDrifts \/ Login \/ UserWrite

\* The run that holds the lock keeps going; nothing else is fair.
CustSpec == CustInit /\ [][CustNext]_allVars /\ WF_allVars(RunVerb)

-----------------------------------------------------------------------------
\* A customer that is served is whole, at every moment and whatever failed
\* before: the ledger complete, the realm enabled, one body, the route and the
\* setup flag in place.  create activates last, suspend takes the status away
\* first, resume gives it back last.
ActiveIsServable ==
  tenant.status = "active" =>
    /\ tenant.host /\ IsComplete /\ realm.made /\ realm.enabled
    /\ kernel.made /\ kernel.bodies = 1 /\ edge.router /\ edge.setup

\* A `done` row is never ahead of its step, nor of the rows before it: the step
\* runs before its row, so that a run that died between the two repeats it.
LedgerTellsTruth ==
  /\ \A i \in 1..8 : EXECUTION_ORDER[i] \in done => Before(i) \subseteq done
  /\ "realm_created" \in done => realm.made
  /\ "database_created" \in done => kernel.made
  /\ "domain_bound" \in done => tenant.host
  /\ "first_body_created" \in done => kernel.bodies = 1
  /\ "broker_account_created" \in done => broker # "none"
  /\ "first_accounts_created" \in done => invite.mark /\ invite.sent > 0

\* A realm that bears the sender's fields has its principal, and a sender the
\* report of reconcile takes for healthy has the principal's password unless
\* somebody typed another one in: no verb, wherever it stopped, leaves a sender
\* behind that reconcile --apply does not repair.
HealthySends ==
  /\ Stamped => mail.principal
  /\ Healthy => mail.password # "stale"

\* The same of the check of the mail step (customer_realm_smtp): what it takes for
\* stamped and leaves alone has the principal's password.  The code does not keep
\* it: reconcile rotates on `auth' alone, and may stop before the stamp.
StampedSends == Stamped => mail.principal /\ mail.password # "stale"

\* After a suspend that succeeded nobody is in and nothing gets in: whatever had
\* failed before, whoever logged in while it ran.
SuspendedIsLocked ==
  verb = "suspend" /\ pc = "done" =>
    /\ tenant.status = "suspended" /\ ~realm.enabled /\ ~realm.sessions
    /\ broker = "kernel" /\ ~mail.principal /\ ~mail.fields

\* A verb that succeeded leaves the broker with the users of the modules that
\* are switched on, and a customer that is not suspended.
BrokerFollowsSwitch ==
  verb \in {"create", "enable", "disable", "resume"} /\ pc = "done" =>
    /\ broker = IF switch = "enabled" THEN "module" ELSE "kernel"
    /\ tenant.status # "suspended"

\* Once the user bears the mark no run of any verb mails the administrator
\* again, also when the ledger row was never written: the mark, not the row, is
\* what keeps a rerun from repeating the invitation.
InvitedNeverAgain == [][invite.mark => UNCHANGED invite]_invite

\* The states in which each verb is meant to be run.  A sender that the mail step
\* takes for stamped and that cannot send is repaired by reconcile or by hand, not
\* by running create again.
Fit(v) ==
  CASE v = "create" -> /\ tenant.status # "suspended" /\ (enable => row.state # "disabling")
                       /\ Stamped /\ ~CanSend => invite.mark
    [] v \in {"suspend", "resume"} -> tenant.status \in {"active", "suspended"}
    [] v = "enable" -> tenant.status \in {"active", "provisioning"} /\ tenant.host /\ row.state # "disabling"
    [] v = "disable" -> tenant.status \in {"active", "provisioning"} /\ tenant.host
    [] OTHER -> realm.made

\* "a rerun resumes from the ledger", "rerun ... to converge": from every state
\* that failed runs of any verbs can leave, a run without further faults succeeds.
RerunConverges ==
  \A v \in Verbs : (verb = v /\ pc = Entry[v] /\ faults = MaxFaults /\ Fit(v)) ~> (pc = "done")
=============================================================================
