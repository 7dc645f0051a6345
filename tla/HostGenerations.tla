--------------------------- MODULE HostGenerations ---------------------------
(***************************************************************************)
(* What changes the running system of the host: the repository of custom   *)
(* bundles and the calls and commands that edit it, an apply staged by the *)
(* daemon and run by omahab-bundle-apply.service, and `omahab system       *)
(* upgrade`.  A generation is the flake version and the custom tree it was *)
(* built from; `switch --rollback` goes back by one in the system profile. *)
(*                                                                         *)
(* internal/controlplane/bundles_ops.go, internal/bundles/repo.go,         *)
(* apply.go and bundles.go, cmd/omahab/bundle.go and system.go.            *)
(***************************************************************************)
EXTENDS Naturals, Sequences, FiniteSets

CONSTANTS Bundles,        \* custom bundles somebody may add
          Collide,        \* pairs that cannot both be enabled: one port, one unit, one route
          Bad,            \* bundles whose module does not build
          Sick,           \* bundles whose health check fails
          FirstTree,      \* what is enabled at the start
          Releases,       \* flake versions that are published, the last one is the newest
          ApplyOps,       \* operations the panel may stage
          HostScenarios   \* bounds: edits over the API and the CLI, operations, upgrades, faults

ASSUME HostAssumption ==
    /\ Bad \subseteq Bundles /\ Sick \subseteq Bundles /\ FirstTree \subseteq Bundles
    /\ \A p \in Collide : p \subseteq Bundles /\ Cardinality(p) = 2
    /\ Releases \subseteq Nat \ {0} /\ \E r \in Releases : \A q \in Releases : q <= r
    /\ HostScenarios \subseteq [api : Nat, cli : Nat, ops : SUBSET ApplyOps, upgrades : Nat, faults : Nat]

VARIABLES work, head,  \* the worktree and the committed tree of the repository
          api, cli,    \* the mutation in progress over each way, and how many follow
          gens, active, flake, \* the profile, the active generation, the canonical flake
          daemon,      \* "up" or "down"
          res,         \* the reservation in the daemon's memory
          journal, outcome, handoff, \* the files of an operation
          stage,       \* the staging request
          unit,        \* omahab-bundle-apply.service
          upg,         \* the upgrade command; "alone" is history: no apply since it began
          candidate,   \* the release check-update recorded, 0 without one
          hostFaults

hostVars == <<work, head, api, cli, gens, active, flake, daemon, res, journal, outcome,
              handoff, stage, unit, upg, candidate, hostFaults>>
repoVars == <<work, head, api, cli>>
genVars == <<gens, active, flake, candidate>>
opVars == <<res, journal, outcome, handoff, stage>>

Enabled(t) == {b \in Bundles : t[b] = "on"}
\* Merge: the collisions and port rules of the merged catalog.
Mergeable(t) == \A p \in Collide : ~(p \subseteq Enabled(t))

NoEdit == [at |-> "idle", b |-> "none", kind |-> "none"]
NoUnit == [at |-> "off", op |-> "none", rev |-> "none", retried |-> FALSE, prev |-> 0, status |-> "none"]

HostInit ==
    LET t == [b \in Bundles |-> IF b \in FirstTree THEN "on" ELSE "none"] IN
    /\ work = t /\ head = t
    /\ gens = <<[flake |-> 0, tree |-> [b \in Bundles |-> "none"]], [flake |-> 0, tree |-> t]>>
    /\ active = 2 /\ flake = 0 /\ candidate = 0
    /\ daemon = "up" /\ res = "none" /\ handoff = "none"
    /\ journal = [o \in ApplyOps |-> "none"] /\ outcome = [o \in ApplyOps |-> "none"]
    /\ unit = NoUnit
    /\ \E x \in HostScenarios :
          /\ api = [edit |-> NoEdit, left |-> x.api] /\ cli = [edit |-> NoEdit, left |-> x.cli]
          /\ stage = [at |-> "idle", op |-> "none", last |-> "none", todo |-> x.ops]
          /\ upg = [at |-> "idle", prev |-> 0, result |-> "none", read |-> FALSE, ref |-> 0,
                    left |-> x.upgrades, alone |-> TRUE]
          /\ hostFaults = x.faults

Fault == hostFaults > 0 /\ hostFaults' = hostFaults - 1

(***************************************************************************)
(* The repository.                                                         *)
(***************************************************************************)
\* What AddFiles, Remove and SetDisabled write; the others refuse.
Allowed(t, b, k) == CASE k = "add" -> t[b] = "none"
                      [] k = "remove" -> t[b] # "none"
                      [] k = "disable" -> t[b] # "none"
                      [] k = "enable" -> t[b] # "none"
Written(t, b, k) == [t EXCEPT ![b] = CASE k \in {"add", "enable"} -> "on"
                                       [] k = "disable" -> "off"
                                       [] OTHER -> "none"]

\* Commit stages everything the worktree holds (`git add -A`).
CommitTree == head' = work

AddAccepted(b) == Mergeable(Written(head, b, "add"))
EnableAccepted(b) == head[b] # "none" /\ Mergeable(Written(head, b, "enable"))

\* A call of the API is refused while an apply is reserved; an addition and an
\* enabling are checked against the committed tree.
ApiCheck(b, k) ==
    /\ daemon = "up" /\ api.edit = NoEdit /\ api.left > 0
    /\ api' = [edit |-> IF res = "none" /\ (k = "add" => AddAccepted(b))
                                       /\ (k = "enable" => EnableAccepted(b))
                        THEN [at |-> "write", b |-> b, kind |-> k] ELSE NoEdit,
               left |-> api.left - 1]
    /\ UNCHANGED <<work, head, cli, genVars, daemon, opVars, unit, upg, hostFaults>>

ApiWrite ==
    /\ daemon = "up" /\ api.edit.at = "write"
    /\ IF Allowed(work, api.edit.b, api.edit.kind)
       THEN /\ work' = Written(work, api.edit.b, api.edit.kind)
            /\ api' = [api EXCEPT !.edit.at = "commit"]
       ELSE UNCHANGED work /\ api' = [api EXCEPT !.edit = NoEdit]
    /\ UNCHANGED <<head, cli, genVars, daemon, opVars, unit, upg, hostFaults>>

ApiCommit ==
    /\ daemon = "up" /\ api.edit.at = "commit"
    /\ CommitTree /\ api' = [api EXCEPT !.edit = NoEdit]
    /\ UNCHANGED <<work, cli, genVars, daemon, opVars, unit, upg, hostFaults>>

\* `omahab bundle add` and `remove`: written first, then checked on the
\* worktree, and left there when the check fails.  No reservation is read.
CliWrite(b, k) ==
    /\ cli.edit = NoEdit /\ cli.left > 0 /\ Allowed(work, b, k)
    /\ work' = Written(work, b, k)
    /\ cli' = [edit |-> IF k = "remove" \/ work' = head \/ Mergeable(work')
                        THEN [at |-> "commit", b |-> b, kind |-> k] ELSE NoEdit,
               left |-> cli.left - 1]
    /\ UNCHANGED <<head, api, genVars, daemon, opVars, unit, upg, hostFaults>>

CliCommit ==
    /\ cli.edit.at = "commit"
    /\ CommitTree /\ cli' = [cli EXCEPT !.edit = NoEdit]
    /\ UNCHANGED <<work, api, genVars, daemon, opVars, unit, upg, hostFaults>>

(***************************************************************************)
(* Staging an apply in the daemon.                                         *)
(***************************************************************************)
\* The merged view of HEAD, the reservation, the journal and the handoff.
StageApply(o) ==
    /\ daemon = "up" /\ stage.at = "idle" /\ o \in stage.todo
    /\ IF Mergeable(head) /\ res = "none"
       THEN /\ res' = o
            /\ journal' = [journal EXCEPT ![o] = "running"]
            /\ handoff' = o
            /\ stage' = [at |-> "start", op |-> o, last |-> o, todo |-> stage.todo \ {o}]
       ELSE /\ stage' = [stage EXCEPT !.todo = @ \ {o}]
            /\ UNCHANGED <<res, journal, handoff>>
    /\ UNCHANGED <<repoVars, genVars, daemon, outcome, unit, upg, hostFaults>>

\* systemctl start --no-block; the unit reads its handoff before anything
\* else, and nothing starts it without one.
StartStagedApply ==
    /\ daemon = "up" /\ stage.at = "start"
    /\ unit.at = "off"
    /\ unit' = [unit EXCEPT !.at = "handoff"]
    /\ stage' = [stage EXCEPT !.at = "note"]
    /\ UNCHANGED <<repoVars, genVars, daemon, res, journal, outcome, handoff, upg, hostFaults>>

StartFails ==
    /\ daemon = "up" /\ stage.at = "start" /\ Fault
    /\ handoff' = "none"
    /\ journal' = [journal EXCEPT ![stage.op] = "failed"]
    /\ res' = "none"
    /\ stage' = [stage EXCEPT !.at = "idle", !.op = "none"]
    /\ UNCHANGED <<repoVars, genVars, daemon, outcome, unit, upg>>

\* "unit-started" is written from the copy of the journal made when staging:
\* the status goes back to running whatever the unit wrote meanwhile.
NoteStarted ==
    /\ daemon = "up" /\ stage.at = "note"
    /\ journal' = [journal EXCEPT ![stage.op] = "running"]
    /\ stage' = [stage EXCEPT !.at = "idle", !.op = "none"]
    /\ UNCHANGED <<repoVars, genVars, daemon, res, outcome, handoff, unit, upg, hostFaults>>

\* A poll of the operation: only a journal that still says running is
\* converged, and only that releases the reservation.
GetBundleApplyStatus(o) ==
    /\ daemon = "up" /\ journal[o] = "running" /\ outcome[o] # "none"
    /\ journal' = [journal EXCEPT ![o] = outcome[o]]
    /\ res' = IF res = o THEN "none" ELSE res
    /\ UNCHANGED <<repoVars, genVars, daemon, outcome, handoff, stage, unit, upg, hostFaults>>

\* What a starting daemon reserves: the handed-off operation, or the newest
\* running one whose handoff was consumed.
Adopted ==
    LET running == {o \in ApplyOps : journal[o] = "running"} IN
    IF handoff # "none" THEN IF journal[handoff] = "running" THEN {handoff} ELSE {"none"}
    ELSE IF stage.last \in running THEN {stage.last}
    ELSE IF running = {} THEN {"none"} ELSE running

DaemonStarts ==
    /\ daemon = "down" /\ daemon' = "up"
    /\ res' \in Adopted
    /\ handoff' = IF handoff # "none" /\ res' = "none" THEN "none" ELSE handoff
    /\ UNCHANGED <<repoVars, genVars, journal, outcome, stage, unit, upg, hostFaults>>

\* The daemon's memory and its requests end with it.
DaemonStopped ==
    /\ daemon' = "down" /\ res' = "none"
    /\ stage' = [stage EXCEPT !.at = "idle", !.op = "none"]
    /\ api' = [api EXCEPT !.edit = NoEdit]

DaemonDies ==
    /\ daemon = "up" /\ Fault /\ DaemonStopped
    /\ UNCHANGED <<work, head, cli, genVars, journal, outcome, handoff, unit, upg>>

\* A reboot also ends the unit and empties /run.
HostReboots ==
    /\ Fault /\ DaemonStopped
    /\ unit' = NoUnit /\ handoff' = "none"
    /\ cli' = [cli EXCEPT !.edit = NoEdit]
    /\ upg' = [upg EXCEPT !.at = "idle"]
    /\ UNCHANGED <<work, head, genVars, journal, outcome>>

(***************************************************************************)
(* The profile.                                                            *)
(***************************************************************************)
\* A switch adds a generation after the last one, unless that one is equal;
\* going back is by number, whichever generation was active before.
Activate(g) ==
    /\ gens' = IF gens[Len(gens)] = g THEN gens ELSE Append(gens, g)
    /\ active' = Len(gens')
Back == active' = (IF active > 1 THEN active - 1 ELSE 1) /\ UNCHANGED gens

\* A rollback that fails has changed the profile or not.
RollbackFails == Fault /\ (Back \/ UNCHANGED <<gens, active>>)

\* History, for the property below: an apply changed the profile since the
\* upgrade began.
Disturbs == upg' = [upg EXCEPT !.alone = FALSE]

\* An activation restarts the daemon when its unit changed.
MayRestart ==
    \/ UNCHANGED <<daemon, res, stage, api>>
    \/ daemon = "up" /\ DaemonStopped

(***************************************************************************)
(* The apply unit (runBundleApplyStaged, Service.Apply).                   *)
(***************************************************************************)
At(a) == unit' = [unit EXCEPT !.at = a]
Ends(s) == unit' = [unit EXCEPT !.at = "outcome", !.status = s]

TakeHandoff ==
    /\ unit.at = "handoff"
    /\ unit' = IF handoff = "none" THEN NoUnit ELSE [unit EXCEPT !.at = "check", !.op = handoff]
    /\ handoff' = "none"
    /\ UNCHANGED <<repoVars, genVars, daemon, res, journal, outcome, stage, upg, hostFaults>>

\* A dirty worktree is validated before it is committed.
ValidateDirty ==
    /\ unit.at = "check"
    /\ IF work = head \/ Mergeable(work) THEN At("commit") ELSE Ends("failed")
    /\ UNCHANGED <<repoVars, genVars, daemon, opVars, upg, hostFaults>>

ApplyCommit ==
    /\ unit.at = "commit"
    /\ CommitTree /\ At("pin")
    /\ UNCHANGED <<work, api, cli, genVars, daemon, opVars, upg, hostFaults>>

\* The exact revision is pinned and validated.
Pin ==
    /\ unit.at = "pin"
    /\ IF Mergeable(head) THEN unit' = [unit EXCEPT !.at = "build", !.rev = head] ELSE Ends("failed")
    /\ UNCHANGED <<repoVars, genVars, daemon, opVars, upg, hostFaults>>

\* A failure whose output names a bundle disables and commits it and builds
\* once more at the new revision; any other failure ends the apply.
Build ==
    LET guilty == Enabled(unit.rev) \cap Bad IN
    /\ unit.at = "build"
    /\ \/ /\ guilty = {} /\ At("switch")
          /\ UNCHANGED <<work, head, hostFaults>>
       \/ /\ guilty # {} \/ hostFaults > 0
          /\ hostFaults' = IF guilty # {} THEN hostFaults ELSE hostFaults - 1
          /\ Ends("failed") /\ UNCHANGED <<work, head>>
       \/ /\ guilty # {} /\ ~unit.retried
          /\ \E b \in guilty :
                IF work[b] = "none" THEN Ends("failed") /\ UNCHANGED <<work, head>>
                ELSE /\ work' = [work EXCEPT ![b] = "off"] /\ head' = work'
                     /\ unit' = [unit EXCEPT !.at = "pin", !.retried = TRUE]
          /\ UNCHANGED hostFaults
    /\ UNCHANGED <<api, cli, genVars, daemon, opVars, upg>>

\* The canonical flake with the bundles input at the pinned revision.
ToSwitch == [flake |-> flake, tree |-> unit.rev]

\* Activated or not, a failed switch is rolled back.
Switch ==
    /\ unit.at = "switch"
    /\ \/ /\ Activate(ToSwitch)
          /\ unit' = [unit EXCEPT !.at = "gate", !.prev = active]
          /\ UNCHANGED hostFaults
       \/ Fault /\ Activate(ToSwitch) /\ At("rollback")
       \/ Fault /\ UNCHANGED <<gens, active>> /\ At("rollback")
    /\ MayRestart /\ Disturbs
    /\ UNCHANGED <<work, head, cli, flake, candidate, journal, outcome, handoff>>

\* ProbeBundleHealth of every attempted bundle, asked of the daemon.
Healthy(rev) == Enabled(rev) \cap Sick = {}

\* The panel answers within its time, then every enabled bundle's check.
HealthGate ==
    /\ unit.at = "gate"
    /\ \/ daemon = "up" /\ Healthy(unit.rev) /\ Ends("completed") /\ UNCHANGED hostFaults
       \/ daemon = "up" /\ ~Healthy(unit.rev) /\ At("rollback") /\ UNCHANGED hostFaults
       \/ Fault /\ At("rollback")
    /\ UNCHANGED <<repoVars, genVars, daemon, opVars, upg>>

Rollback ==
    /\ unit.at = "rollback"
    /\ \/ Back /\ Ends("rolled_back") /\ UNCHANGED hostFaults
       \/ RollbackFails /\ Ends("failed")
    /\ MayRestart /\ Disturbs
    /\ UNCHANGED <<work, head, cli, flake, candidate, journal, outcome, handoff>>

WriteOutcome ==
    /\ unit.at = "outcome"
    /\ outcome' = [outcome EXCEPT ![unit.op] = unit.status]
    /\ At("journal")
    /\ UNCHANGED <<repoVars, genVars, daemon, res, journal, handoff, stage, upg, hostFaults>>

\* The journal gets the terminal status too; a success restarts the daemon
\* (ExecStartPost).
WriteJournal ==
    /\ unit.at = "journal"
    /\ journal' = [journal EXCEPT ![unit.op] = unit.status]
    /\ unit' = NoUnit
    /\ IF unit.status = "completed" /\ daemon = "up" THEN DaemonStopped
       ELSE UNCHANGED <<daemon, res, stage, api>>
    /\ UNCHANGED <<work, head, cli, genVars, outcome, handoff, upg, hostFaults>>

(***************************************************************************)
(* omahab system upgrade.                                                  *)
(***************************************************************************)
\* The newest release is a candidate when the running version differs.
CheckUpdate ==
    LET latest == CHOOSE r \in Releases : \A q \in Releases : q <= r IN
    /\ upg.left > 0
    /\ candidate' = IF latest # gens[active].flake THEN latest ELSE 0
    /\ candidate' # candidate
    /\ UNCHANGED <<repoVars, gens, active, flake, daemon, opVars, unit, upg, hostFaults>>

\* A reference is resolved and staged, and the target of the profile is read:
\* generations count from 1, and 0 is a target that could not be read.
UpgradeStaged(ref) ==
    /\ upg.at = "idle" /\ upg.left > 0
    /\ \E g \in {active, 0} :
          /\ hostFaults' = IF g = 0 THEN hostFaults - 1 ELSE hostFaults
          /\ g = 0 => hostFaults > 0
          /\ upg' = [at |-> "switch", prev |-> g, result |-> "none", read |-> FALSE,
                     ref |-> ref, left |-> upg.left - 1, alone |-> TRUE]
    /\ UNCHANGED <<repoVars, genVars, daemon, opVars, unit>>

UpgradeBegins == candidate # 0 /\ UpgradeStaged(candidate)
UpgradeRefBegins == \E ref \in Releases : UpgradeStaged(ref)

UpgradeAt(a) == upg' = [upg EXCEPT !.at = a]
\* The result printed; "read" says that the profile was read to find it.
UpgradeEnds(result, read) == upg' = [upg EXCEPT !.at = "idle", !.result = result, !.read = read]

\* The staged flake, built and activated in one command, with the custom tree
\* pinned at HEAD.
UpgradeSwitch ==
    LET g == [flake |-> upg.ref, tree |-> head] IN
    /\ upg.at = "switch"
    /\ \/ Enabled(head) \cap Bad = {} /\ Activate(g) /\ UpgradeAt("gate") /\ UNCHANGED hostFaults
       \/ Fault /\ Activate(g) /\ UpgradeAt("failed")
       \/ /\ UNCHANGED <<gens, active>> /\ UpgradeAt("failed")
          /\ hostFaults' = IF Enabled(head) \cap Bad # {} THEN hostFaults ELSE hostFaults - 1
          /\ Enabled(head) \cap Bad # {} \/ hostFaults > 0
    /\ MayRestart
    /\ UNCHANGED <<work, head, cli, flake, candidate, journal, outcome, handoff, unit>>

\* rollbackToPriorGeneration: the generation read now against the one read
\* before.  Only two equal readings spare the rollback; an unread one does not.
UpgradeFailed ==
    /\ upg.at = "failed"
    /\ \/ active = upg.prev /\ UpgradeAt("unchanged") /\ UNCHANGED hostFaults
       \/ active # upg.prev /\ UpgradeAt("revert") /\ UNCHANGED hostFaults
       \/ Fault /\ UpgradeAt("revert")
    /\ UNCHANGED <<repoVars, genVars, daemon, opVars, unit>>

\* Mutated form: what the rollback reached is not compared.
UpgradeRevertsBlind ==
    /\ upg.at = "revert"
    /\ \/ Back /\ upg' = [upg EXCEPT !.at = "reverted", !.read = upg.prev # 0] /\ UNCHANGED hostFaults
       \/ RollbackFails /\ UpgradeEnds("rollback_failed", FALSE)
    /\ MayRestart
    /\ UNCHANGED <<work, head, cli, flake, candidate, journal, outcome, handoff, unit>>

\* One generation back, and what was reached is compared with the one before
\* when both could be read.
UpgradeReverts ==
    /\ upg.at = "revert"
    /\ \/ /\ Back /\ UNCHANGED hostFaults
          /\ IF upg.prev # 0 /\ active' # upg.prev THEN UpgradeEnds("rollback_mismatch", TRUE)
             ELSE upg' = [upg EXCEPT !.at = "reverted", !.read = upg.prev # 0]
       \/ Back /\ Fault /\ UpgradeAt("reverted")
       \/ RollbackFails /\ UpgradeEnds("rollback_failed", FALSE)
    /\ MayRestart
    /\ UNCHANGED <<work, head, cli, flake, candidate, journal, outcome, handoff, unit>>

\* The panel of the generation that is left.
UpgradePanel ==
    /\ upg.at \in {"unchanged", "reverted"}
    /\ \/ /\ daemon = "up" /\ UNCHANGED hostFaults
          /\ UpgradeEnds(IF upg.at = "unchanged" THEN "switch_failed" ELSE "rolled_back", upg.read)
       \/ /\ Fault
          /\ UpgradeEnds(IF upg.at = "unchanged" THEN "switch_failed_unhealthy"
                         ELSE "rolled_back_unhealthy", upg.read)
    /\ UNCHANGED <<repoVars, genVars, daemon, opVars, unit>>

\* The panel of the new generation, then the exchange of the flake
\* directories; a failure of either goes back.  An upgrade with --flake keeps
\* the candidate.
UpgradeGate ==
    /\ upg.at = "gate"
    /\ \/ daemon = "up" /\ UpgradeAt("promote") /\ UNCHANGED hostFaults
       \/ Fault /\ UpgradeAt("back")
    /\ UNCHANGED <<repoVars, genVars, daemon, opVars, unit>>

UpgradePromote ==
    /\ upg.at = "promote"
    /\ \/ /\ flake' = upg.ref
          /\ candidate' \in IF candidate = upg.ref THEN {0, candidate} ELSE {candidate}
          /\ UpgradeEnds("healthy", FALSE) /\ UNCHANGED hostFaults
       \/ Fault /\ UpgradeAt("back") /\ UNCHANGED <<flake, candidate>>
    /\ UNCHANGED <<repoVars, gens, active, daemon, opVars, unit>>

\* After a failed gate or exchange the result is rolled_back in every case,
\* the rollback that failed included: only the error beside it tells.
UpgradeBack ==
    /\ upg.at = "back"
    /\ \/ Back /\ UNCHANGED hostFaults
       \/ RollbackFails
    /\ UpgradeEnds("rolled_back", FALSE) /\ MayRestart
    /\ UNCHANGED <<work, head, cli, flake, candidate, journal, outcome, handoff, unit>>

-----------------------------------------------------------------------------
ApiEdits == ApiWrite \/ ApiCommit \/ \E b \in Bundles, k \in {"add", "remove", "enable", "disable"} : ApiCheck(b, k)
CliEdits == CliCommit \/ \E b \in Bundles, k \in {"add", "remove"} : CliWrite(b, k)
Staging == StartStagedApply \/ StartFails \/ NoteStarted \/ \E o \in ApplyOps : StageApply(o)
ApplyUnit == TakeHandoff \/ ValidateDirty \/ ApplyCommit \/ Pin \/ Build \/ Switch \/ HealthGate
             \/ Rollback \/ WriteOutcome \/ WriteJournal
Upgrade == CheckUpdate \/ UpgradeBegins \/ UpgradeRefBegins
           \/ UpgradeSwitch \/ UpgradeFailed \/ UpgradeReverts \/ UpgradePanel
           \/ UpgradeGate \/ UpgradePromote \/ UpgradeBack
Polls == \E o \in ApplyOps : GetBundleApplyStatus(o)

HostNext == ApiEdits \/ CliEdits \/ Staging \/ Polls \/ ApplyUnit \/ Upgrade
            \/ DaemonStarts \/ DaemonDies \/ HostReboots

HostSpec == HostInit /\ [][HostNext]_hostVars
-----------------------------------------------------------------------------
(***************************************************************************)
(* Properties.                                                             *)
(***************************************************************************)
\* What an upgrade reports is what the host runs: healthy is the new flake,
\* active and canonical; a switch that failed unchanged is the generation that
\* was active before ("downgrading a healthy unchanged generation would be
\* wrong"), and so is a rollback after a failed switch when the profile could
\* be read before and after it; a mismatch is another one.  Of a rollback whose
\* profile was not read nothing is said: after a failed health gate or exchange
\* the code reads nothing and prints rolled_back whatever the rollback did.  An
\* apply takes no notice of an upgrade: one that changed the profile since the
\* upgrade began is excepted.
UpgradeReportsTruth ==
    upg.at = "idle" /\ upg.alone =>
        CASE upg.result = "healthy" -> gens[active].flake = flake
          [] upg.result \in {"switch_failed", "switch_failed_unhealthy"} -> active = upg.prev
          [] upg.result \in {"rolled_back", "rolled_back_unhealthy"} /\ upg.read -> active = upg.prev
          [] upg.result = "rollback_mismatch" -> active # upg.prev
          [] OTHER -> TRUE

=============================================================================
