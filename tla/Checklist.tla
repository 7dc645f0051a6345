------------------------------ MODULE Checklist ------------------------------
(***************************************************************************)
(* The first-run setup checklist (internal/controlplane/setup_status.go,   *)
(* setup_woodpecker.go): GetSetupStatus looks at the host one thing after  *)
(* the other, makes a check of each, orders the checks and derives the     *)
(* state that is shown.  It holds no lock: the host changes meanwhile.     *)
(***************************************************************************)
EXTENDS Naturals, Sequences

CONSTANTS
  Changing,       \* bound: the facts that change while the checklist is made
  HostChanges     \* bound: how often one of them does

VARIABLES
  facts,          \* what there is to find on the host
  changes,        \* changes left
  reply           \* the call: how far it is, what it has read, what it answers

checklistVars == <<facts, changes, reply>>

\* What each part of the host may be.
Finds ==
  [restore     |-> {"not_started", "in_progress", "completed", "skipped", "failed", "unreadable"},
   ssh_keys    |-> {"some", "none", "unreadable"},
   domain      |-> {"own", "sentinel"},
   token       |-> {"stored", "none"},
   rejected    |-> {"read", "unread"},
   tunnel      |-> {"id", "token", "none"},
   dashboard   |-> {"reconciled", "not_yet", "error", "unobserved", "none"},
   native      |-> {"running", "unknown", "unhealthy", "failed", "stopped", "absent"},
   container   |-> {"running", "unknown", "unhealthy", "failed", "stopped", "absent"},
   technitium  |-> {"credentials", "locked", "absent"},
   passkeys    |-> {2, 1, 0},
   choice      |-> {"chosen", "none", "invalid"},
   verified    |-> {"passed", "none"},
   restored    |-> {"completed", "none"},
   kit         |-> {"exported", "none"},
   storage     |-> {"placed", "proposed", "unset", "unreadable"},
   repositories|-> {"offsite", "local", "none"},
   tailscale   |-> {"enrolled", "none"},
   woodpecker  |-> {"connected", "no_agent", "not_admin", "no_token"},
   run         |-> {"reconciled", "running", "failed", "failed_before", "never"}]

Fact == DOMAIN Finds

\* A host on which all is done.
AllDone ==
  [restore |-> "completed", ssh_keys |-> "some", domain |-> "own", token |-> "stored", rejected |-> "read", tunnel |-> "id",
   dashboard |-> "reconciled", native |-> "running", container |-> "running", technitium |-> "credentials", passkeys |-> 2,
   choice |-> "chosen", verified |-> "passed", restored |-> "completed", kit |-> "exported", storage |-> "placed",
   repositories |-> "offsite", tailscale |-> "enrolled", woodpecker |-> "connected", run |-> "reconciled"]

\* Never undone: a verification, a restore, the recovery kit, the domain.
Lasting == {"verified", "restored", "kit", "domain"}

-----------------------------------------------------------------------------
(* one check each: what is found, what is said of it *)

Okay(good) == IF good THEN "ok" ELSE "pending"

RestoreCheck == CASE facts.restore = "completed" -> "ok"
                  [] facts.restore = "skipped" -> "skipped"
                  [] facts.restore \in {"failed", "unreadable"} -> "failed"
                  [] OTHER -> "pending"

SSHKeysCheck == Okay(facts.ssh_keys = "some")

DomainCheck == Okay(facts.domain = "own")

CloudflareCheck == Okay(facts.token = "stored")

TunnelCheck == CASE facts.tunnel = "id" -> "ok" [] facts.tunnel = "token" -> "pending" [] OTHER -> "skipped"

\* the domain is the one read before
DashboardCheck == IF reply.sentinel THEN "pending"
                  ELSE CASE facts.dashboard = "reconciled" -> "ok"
                         [] facts.dashboard = "error" -> "failed"
                         [] OTHER -> "pending"

\* a native unit has no probe: that its health is unknown is no fault
ClassifyCoreApp(app) ==
  CASE facts[app] = "running" \/ (facts[app] = "unknown" /\ app = "native") -> "ok"
    [] facts[app] \in {"unhealthy", "failed"} -> "failed"
    [] OTHER -> "pending"

CoreAppsCheck == LET each == {ClassifyCoreApp(app) : app \in {"native", "container"}}
                 IN  IF "failed" \in each THEN "failed" ELSE Okay("pending" \notin each)

TechnitiumCheck == IF facts.technitium = "absent" THEN "skipped" ELSE Okay(facts.technitium = "credentials")

PasskeysCheck == Okay(facts.passkeys >= 2)

ChoiceCheck == IF facts.choice = "invalid" THEN "failed" ELSE Okay(facts.choice = "chosen")

VerifiedCheck == Okay(facts.verified = "passed")

RestoreTestedCheck == Okay(facts.restored = "completed")

RecoveryKeyCheck == Okay(facts.kit = "exported")

StorageCheck == CASE facts.storage = "unreadable" -> "failed" [] facts.storage = "unset" -> "skipped"
                  [] OTHER -> Okay(facts.storage = "placed")

BackupsCheck == Okay(facts.repositories # "none")

\* a check of its own, only when there is no copy elsewhere
OffsiteCheck == IF facts.repositories = "local" THEN "pending" ELSE "none"

TailscaleCheck == Okay(reply.tailscale)

WoodpeckerCheck == CASE facts.woodpecker = "no_token" -> "pending"
                     [] facts.woodpecker = "connected" -> "ok"
                     [] OTHER -> "failed"

\* of this daemon's last run, else of the last event
AutomaticReconciliationCheck == CASE facts.run \in {"failed", "failed_before"} -> "failed"
                                  [] OTHER -> Okay(facts.run = "reconciled")

\* The checks in the order in which they are made.
CheckOf ==
  <<<<"restore", RestoreCheck>>, <<"ssh_keys", SSHKeysCheck>>, <<"domain", DomainCheck>>, <<"cloudflare_dns", CloudflareCheck>>,
    <<"tunnel", TunnelCheck>>, <<"dashboard_dns", DashboardCheck>>, <<"core_apps", CoreAppsCheck>>,
    <<"technitium_dns", TechnitiumCheck>>, <<"admin_passkeys", PasskeysCheck>>, <<"knowledge_index_setup", ChoiceCheck>>,
    <<"recovery_tested", VerifiedCheck>>, <<"restore_tested", RestoreTestedCheck>>, <<"recovery_key", RecoveryKeyCheck>>,
    <<"storage_configured", StorageCheck>>, <<"backups_configured", BackupsCheck>>, <<"backups_offsite", OffsiteCheck>>,
    <<"tailscale", TailscaleCheck>>, <<"woodpecker_connection", WoodpeckerCheck>>,
    <<"automatic_reconciliation", AutomaticReconciliationCheck>>>>

\* Mutated form: the release evidence is left out of the order.
OrderedLess == {"restore", "recovery_key", "backups_configured", "ssh_keys", "tailscale", "domain", "cloudflare_dns", "admin_passkeys",
                "knowledge_index_setup", "storage_configured", "tunnel", "dashboard_dns", "core_apps", "technitium_dns",
                "woodpecker_connection", "automatic_reconciliation", "recovery_tested"}

\* The checks orderSetupChecks keeps.
Ordered == {"restore", "recovery_key", "backups_configured", "ssh_keys", "tailscale", "domain", "cloudflare_dns", "admin_passkeys",
            "knowledge_index_setup", "storage_configured", "tunnel", "dashboard_dns", "core_apps", "technitium_dns",
            "woodpecker_connection", "automatic_reconciliation", "recovery_tested", "restore_tested"}

\* What keeps the setup from being complete.
CallsForAttention(id, status) ==
  CASE id = "domain" -> FALSE
    [] id = "cloudflare_dns" -> status = "failed"
    [] id \in {"tunnel", "restore"} -> status \notin {"ok", "skipped"}
    [] OTHER -> status # "ok"

deriveSetupState(checks, sentinel, token) ==
  IF sentinel \/ ~token THEN "waiting_for_cloudflare"
  ELSE IF \E c \in checks : CallsForAttention(c[1], c[2]) THEN "attention" ELSE "complete"

-----------------------------------------------------------------------------
\* What is to be done, by the meaning of the facts: the tunnel, the volumes and the
\* household DNS are optional, a new server has nothing to restore.
Unmet(f) ==
  CASE f = "restore" -> facts[f] \notin {"completed", "skipped"}
    [] f = "tunnel" -> facts[f] = "token"
    [] f = "technitium" -> facts[f] = "locked"
    [] f = "storage" -> facts[f] \in {"proposed", "unreadable"}
    [] f = "repositories" -> facts[f] = "none"
    [] f = "native" -> facts[f] \notin {"running", "unknown"}
    [] OTHER -> facts[f] # AllDone[f]

Asked == [at |-> 1, checks |-> {}, sentinel |-> FALSE, tailscale |-> FALSE, token |-> FALSE, state |-> "", unmet |-> {f \in Fact : Unmet(f)}]

\* at most one thing is not done when the checklist is asked for
ChecklistInit ==
  /\ \E f \in Fact : \E v \in Finds[f] : facts = [AllDone EXCEPT ![f] = v]
  /\ changes = HostChanges
  /\ reply = Asked

\* GetSetupStatus makes its next check; the instance is read once, for two of them
MakeCheck ==
  /\ reply.at \in DOMAIN CheckOf
  /\ LET check == CheckOf[reply.at]
         read  == [reply EXCEPT !.at = @ + 1, !.checks = IF check[2] = "none" THEN @ ELSE @ \union {check}]
     IN  reply' = CASE check[1] = "domain" -> [read EXCEPT !.sentinel = check[2] # "ok", !.tailscale = facts.tailscale = "enrolled"]
                    [] check[1] = "cloudflare_dns" -> [read EXCEPT !.token = check[2] = "ok"]
                    [] OTHER -> read
  /\ UNCHANGED <<facts, changes>>

\* unreadCloudflareDNSFailure, then the order
CorrectCloudflare ==
  /\ reply.at = Len(CheckOf) + 1
  /\ reply' = [reply EXCEPT !.at = @ + 1, !.checks =
       {c \in {<<c[1], IF c[1] = "cloudflare_dns" /\ facts.rejected = "unread" THEN "failed" ELSE c[2]>> : c \in reply.checks} : c[1] \in Ordered}]
  /\ UNCHANGED <<facts, changes>>

\* the derived state gives way to that of a run
AnswerStatus ==
  /\ reply.at = Len(CheckOf) + 2
  /\ LET derived == deriveSetupState(reply.checks, reply.sentinel, reply.token)
     IN  reply' = [reply EXCEPT !.at = 0, !.state =
           IF derived # "waiting_for_cloudflare" /\ facts.run = "running" THEN "reconciling" ELSE derived]
  /\ UNCHANGED <<facts, changes>>

HostMoves ==
  /\ changes > 0 /\ reply.at # 0
  /\ changes' = changes - 1
  /\ \E f \in Changing : \E v \in Finds[f] :
       /\ v # facts[f] /\ ~(f \in Lasting /\ facts[f] = AllDone[f])
       /\ facts' = [facts EXCEPT ![f] = v]
       /\ reply' = [reply EXCEPT !.unmet = {g \in @ : g # f \/ Unmet(f)'}]

ChecklistNext == MakeCheck \/ CorrectCloudflare \/ AnswerStatus \/ HostMoves

ChecklistSpec == ChecklistInit /\ [][ChecklistNext]_checklistVars

-----------------------------------------------------------------------------
\* The setup is called complete only if each thing was done at some moment of the call:
\* what the checklist read first may have changed since, but nothing that was missing all
\* along is overlooked, whichever of the checks it belongs to ("Release evidence only",
\* "extraction alone never counts").
CompleteIsEarned == reply.state = "complete" => reply.unmet = {}

=============================================================================
