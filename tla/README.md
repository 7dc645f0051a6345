# omahab: a verification project

TLA+ models of the parts of omahab that are hard to test: operations that take
many steps, that several actors run at once, and that a restart, an ended request or
a failing command can cut in two.  Each module is translated from the Go source
(and, where a guarantee rests on them, from the NixOS units and the `once` fork);
TLC checks its properties on small instances and TLAPS proves the safety properties,
all but one, for every value of the constants.

`PROJECT.json` lists components, runs, the source lines behind every definition,
hazards, findings and theorems.  To check a run or a proof in this directory:

    tlc -workers 2 -config ProjectDeploy.cfg MCProjectDeploy
    tlapm ProjectDeploy_proofs.tla

Names follow the code; a state such as `"teardown"` is a place in a Go function.  A
definition marked *Mutated form* is a plausible bug; it is not part of the model, and
exists so that one can see that the property would notice it.

## 1. Inventory

omahab is a home-server control plane.  One daemon, `omahabd`, serves an HTTP API,
keeps its state in SQLite and in a few JSON files under its state directory, and acts
on systemd units, disks, restic, Cloudflare, tailscale and containers.  Privileged
work runs in oneshot units (`omahab storage ...`, bundle rebuilds, restores) that talk
to the daemon through files.

Every HTTP request but two event streams and downloads gets a context that ends after
thirty seconds (`internal/api/server.go`), and nearly every statement and command of
an operation runs on it.  So "the request ends between two steps" is ordinary, and
every model of a request-driven operation has it.

| Component | State it keeps | Operations | What is hard | Module |
|---|---|---|---|---|
| Application lifecycle, maintenance pauses (`internal/apps`, `controlplane/maintenance.go`) | application rows, pause records, marker files, unit states | install, start, stop, pause, resume, reconcile at start-up | two halves of a pause; mutexes of one process against a flock of two | `AppMaintenance` |
| Storage migration (`storage.go`, `storage_executor.go`, `operations.go`) | boot mapping, journal, handoff, outcome, binds | configure, resume, roll back, dismiss, poll, the executor | a crash at every stage; poll against resume; copies that go stale | `StorageMigration` |
| Live restore (`restore_live.go`, `restore.go`) | journal, safety copies, live data, pauses | start, resume, roll back, dismiss | half a promotion; resume after death; several copies of the journal | `LiveRestore` |
| Health (`internal/health`, emitter in `apps_ops.go`) | what was seen and announced of each component | probe, emit, remind | flapping, lost events, restarts that forget | `Health` |
| First-run setup: the graph (`setup_dag.go`, `setup_status.go`) | one row per node, last error, events | run at start-up, trigger, status | order, blame, cancellation, lost events | `SetupRun` |
| Setup: the bodies of the nodes (`setup_phases.go`, `setup_oidc.go`, ...) | one credential in up to five places | one sequence of calls per node | a crash between a provider and the store; repeated runs | `SetupNodes` |
| Setup checklist (`setup_status.go`) | nothing | one look after the other | the host changes meanwhile | `Checklist` |
| SSH keys (`internal/sshkeys`) | `authorized_keys` | add, remove | several processes, death between two writes | `AuthorizedKeys` |
| Document search (`internal/knowledge`) | models on disk, choice, worker's configuration | stage, configure, restart | a request and the setup run beside each other | `EmbeddingModels` |
| Backups (`backup_capture.go`, `internal/backups`) | run rows, snapshots, listing, verification rows | capture, verify, prune | writers left down; a proof pruned; rows left running | `BackupRuns` |
| Exposure (`internal/exposure`) | desired service, plans, observations; live Cloudflare and edge state | upsert, set, acknowledge, plan, apply, delete | partial application and its undo; stale plans; overlapping applies | `Exposure` |
| Projects (`internal/projects`, `projects_ops.go`, `once.go`, `third_party/once`) | project and release rows, deploy lock, container and volume | create, deploy, rollback, delete, rename | a lock by age; switch and row apart; clean-up that destroys | `ProjectDeploy` |
| Source control (`internal/scm`) | rows, Forgejo and Woodpecker objects, secrets | provision, compensate, deprovision, mirror | a failure of the compensation; adopted repositories | `SourceControl` |
| Workspaces (`internal/workspaces`) | rows, containers, gateway keys, Forgejo tokens, attach tokens | create, stop, delete, use, attach, expire | compensation on an ended context; deletion across a creation | `Workspaces` |
| Mail (`internal/emailing`, `workers/email`) | nonces, messages, quarantine, senders | post, verify, store, retry | retries, lost answers, copies that arrive late | `Mail` |
| Events (`internal/events`, `api/sse.go`) | event rows, subscriber channels, forwarder | publish, subscribe, forward, stream | replay and registration; full channels; idempotency | `Events`, `EventFeed` |
| Desktop daemon (`internal/client`) | tool environment, entity tag, projects, web apps | event loop, reconcile, socket requests, update | deaths between file and user manager; overlapping passes | `ClientDaemon` |
| Custom bundles and system upgrade (`bundles_ops.go`, `internal/bundles`, `cmd/omahab/system.go`) | git repository, generations, profile, apply journal, handoff | add, remove, apply, poll, upgrade | check then act; rollback by position in the profile | `HostGenerations` |
| Offline recovery (`recovery_offline.go`, `recovery_apply.go`) | journal, rollback directory, gates, payloads | stage, dispatch, execute, resume | death and power cut at every step | `OfflineRecovery` |
| Recovery phrase and repositories (`wizard.go`, `hetzner.go`, `internal/secrets`) | kit, seed in memory, master key, repository rows and secrets | confirm a phrase, create a repository | a repository nobody can open | `RecoveryKeys` |
| Devices (`internal/companion`, `internal/syncer`) | codes, devices, keys, shares, revocation queue | enroll, fetch, share, revoke, retry | revocation across an enrollment or a fetch; outages | `Devices` |
| Accounts (`internal/identity`, `identity_ops.go`) | person rows, Pocket ID accounts, links and ledger | create, update, delete, reissue | rollback over two stores; reissues beside each other | `Accounts` |
| Model subscriptions (`internal/providers`) | sessions, helper processes, credentials | sign in, poll, relay, disconnect | helper, reader and requests beside each other | `ProviderLogins` |
| The rest (edge clients, networks, HTTP, MCP, store, installer, Nix, web) | | | | section 7 |

What makes each component correct is what the properties of its module say; section 4
lists them with their runs.

## 2. How the project is built

Modules came in the order of what a failure costs: losing data first, then being open or
down, then being misreported.  Each component is one module: its state as variables,
its bounds and shapes as constants with named assumptions, one action per step of the
code, its properties at the end.  No module has a RECURSIVE operator, so each can be
proved about.

Components that share no state are checked together: an MC module extends several
component modules and adds one variable, `part`, that is chosen at the start and says
which of them a behaviour is about; the others stay in one initial state.  So the state
space is the sum of the parts, not their product, and a property of a part is checked on
exactly the behaviours of that part.  Components that do share state are one module
(`HostGenerations`: bundles, applies and upgrades; `Workspaces`: the three credentials
and the rows that name them; `Devices`: devices and their folders; `Events`: the bus, the
forwarder and the reading desktop).

`EventFeed` is an abstract specification of its own, `Events` is shown to implement it
(`ImplementsFeed`).

*What is left of the plan*: a proof of `SuccessIsWired` (`SetupNodes`).  Every other
safety property of a passing run, and the refinement of `EventFeed`, is proved; liveness
is out of the prover's reach (section 5).

## 3. Modules and code

**AppMaintenance.**  `record` is the row in `app_maintenance`, `marker` the file that
`ConditionPathExists` consults, `unit` whether systemd runs the unit, and a call in
flight on an application is its mutex.  A job (import pause, storage move, resume) walks
its bundles under the flock; `PauseRecord` and the marking step are the two halves of
`pauseAppLocked`.  The storage executor is a job of another process: it shares the
flock, not the mutexes.  `DaemonCrash`, `Reboot` and the three `Reconcile...` steps are
the restart.  `acked` is a history variable: pauses whose two halves were both written.

**StorageMigration.**  `journal`, `outcome` and `handoff` are the files of an operation;
`exec[o]` is its unit with the journal it loaded; `trigger` is the daemon between writing a
journal and starting the unit; `poll` is `GetOperation` between its read and its write.  A bare
journal (one that a poll wrote over a full one) has no identifier, so what an executor writes
about it goes to a file of no operation.  `fresh[v]` is the set of places that hold current data
of a volume: a running application makes only its mounted place fresh, a copy adds one.
`reverted` is a history variable: the volumes whose binding a stale commit put back (section 6).

**SetupRun.**  `rows` is the table, `result` what the workflow library knows, `latest` the
last published event.  The edges are those of `buildSetupDAG`; the run is
single-flight; the pass after the run writes skipped rows (through the run's context
or a detached one, as in the code) and reports.

**LiveRestore.**  The worker's stages are `at`; its copy of the journal `j`, the file
`journal` and the copy the caller answered with, `ack`, are three variables as they
are in the code.  `liveData` holds, per destination, old, new or torn contents; `safety`
the preserved copy; `pausedApps` the bundles of the operation; `tree` says that the staging
tree is there, which a dismissal takes away from a worker as well (`DismissRestore` looks at
the status only).

**BackupRuns.**  `pc[o]` places each capture and verification; `row` is `backup_runs`, `proof`
the verification, `repo` what restic holds, `listed` the snapshot rows, `prune` the one
retention pass.  `app` has the row's desired and observed state and, apart from it, whether the
unit runs: a planning capture and a stop look at the row.  `slipped` is history: the writers
that a failed stop took down all the same.  An operation outside `liveOps` is one whose context
has ended.  `plan[c].hot` collects writers that ran while restic read.

**Exposure.**  `svc` is the desired row with its revision, `plans` the persisted plans, `live`
the observed resources (access application, tunnel rule, DNS record, edge route, vanity record),
`run[a]` one call of Apply.  Step order and undo order are those of `exposureSteps`,
`deleteSteps` and `rollbackApplied`.  A failing call may have been done (`lost`).  `observed` is
the row, which names a plan and no revision; `cut` is history: the last observation is missing,
or was made beside another.  The module models the package: the running program itself plans
only private exposure and deletion, see section 6.

**ProjectDeploy.**  `proj` is the row with its deploy lock and the age of the lock,
`rel` the releases, `once` the container and volume of the project's slug, `req[r]`
where a request is between `beginDeployFlag` and `endDeployFlag`.  `OnceDeploy` and
`OnceUpdate` are the fork's commands with all their clean-up, which may fail itself; `Killed` is
`exec.CommandContext` at the end of the request; `Tick` ends every request, and the
next tick finds them finished, because thirty seconds and the clean-up after them are far
below the ten minutes of `StaleDeployAge`.

**Workspaces.**  `row` is the workspace's row, `bearer` the key the gateway accepts,
`vkrow` the product's row about it, `token` the Forgejo token, `box` the container, `cap`
and `uses` the attach token.  `proc[p]` places each request, the steps of `Create` and its
compensation, `Stop`, `Delete` and the review of a pull request among them; `ended` is its
context.  `crossed[w]` is a history variable: a deletion came across the creation.

**Mail.**  The worker's attempts, the sender's retries and copies of a post are processes
that offer the same message; the handler is the sequence nonce, sender, DKIM verdict,
store.  A verdict is made from the quality of each signature and the alignment of its
domain, as `verifier.go` does.

**Events, EventFeed.**  `rows` is the table, `sub[s]` one subscription with its cursor, its
replay pages and its channel, `subs` the registered ones; `pub[p]` commits and then
broadcasts; `conn` and `lastID` are the desktop's stream.  `EventFeed` has
none of this: a call records one event or is answered with the one of its key.

**ClientDaemon.**  `work` holds the steps left of the loop, of a socket request and of the
background read of projects; the environment is in four places: server, memory with its
entity tag, file, user manager.  A call without a limit of its own (an installer of a web app,
D-Bus, `notify-send`) may hang for ever (`hung`).  `raced` is the named exception: two `Sync`s
at once.

**HostGenerations.**  `work` and `head` are the working tree and the commit, `gens` and
`active` the system profile, `unit` the apply unit, `handoff` its file, `upg` the upgrade.
`alone` in `upg` is history: no apply switched or rolled back beside it; `read` that the profile
was read before and after a rollback.

**OfflineRecovery.**  `jour` is the journal on disk, `rec` the executor with its place, `live`,
`keep` and `index` the paths, the rollback directory and its index, `marker`, `pauseRow`,
`running` and `data` the bundles.  The index is created, written and synced in steps; a kill
between them leaves a torn one, which no later run can read.  `ExecutorKilled` and `PowerCut`
may come between any two steps.

**RecoveryKeys.**  `kit`, `confirmedSeed` and `recoveryPend` are `recovery.kit` and the two
seeds the daemon holds; `kitTmp` is the file beside the kit that all browsers write and rename;
`creations[c]` is one call that creates a repository, with the
phrase it read; `credentials` and `repositories` are the stores; `saved` is what the
user wrote down.

**Devices.**  A device is named by the request that enrolls it.  What it holds is spread as in
the code: a line of the htpasswd file and of the server that loaded it, a Forgejo token, gateway
keys with their rows, a cached secret, a folder membership and Syncthing's share, a copy of the
environment; `pending` is the table of external revocations still owed, and the requests, the
retry loop and the folder reconciliation are in `req`.  A key is issued at the gateway and its
row inserted in two steps, the compensation between them may fail.

**Accounts.**  `acc` holds the local row, the Pocket ID account and the ledger of links;
each request is its sequence of calls with the rollback of each.  `settled` is history: what
requests that ran alone were told of the flag, the groups of the row, those of Pocket ID.

**ProviderLogins.**  `sess` and `procs` are the adapter's maps, `helper` the child of each
session with the goroutine that reads it, `saved` who wrote `auth.json` last, `registry` and
`health` what the gateway and the row say; the request that signs in, a poll with its probe
and a disconnection run beside them.  `zai` is the connection by key.

**SourceControl.**  `world` is what exists in Forgejo and Woodpecker, the rows are ours; a
creation is the sequence of `Provision`, its compensation and `Deprovision`.

**SetupNodes.**  A node's body is a sequence of pairs of a verb and a credential.  A
credential has the values its provider accepts and its copies in the broker, in a file,
in the consumer's configuration and in the running consumer.  A step whose failure the code only
logs goes on (`try...`); `cut` and `unwritten` are history: what was cut off at a bad moment,
and what could not be written while the node was reported done.

**Checklist, AuthorizedKeys, EmbeddingModels, Health.**  The checks of `GetSetupStatus` one
after the other; the edit of `authorized_keys` under its lock; the staging and
configuration of models by two actors; the emitter with its baseline, its interval and
its reminders.

## 4. Runs

| Run | Instance | Properties | What it shows |
|---|---|---|---|
| app_maintenance | two bundles, one depends on the other; one fault | AckedStands, PausedStaysDown, ReconcileConverges, JobsEnd | an acknowledged pause keeps record and marker and keeps its units down through calls, jobs, crashes and reboots; the start-up reconcile makes the halves agree; a job gives the flock back |
| operations | *storage*: two operations, two volumes, two disks, four requests; two faults with one move, none with two. *Restore*: two bundles, three deployments, two requests, a dismissal, two faults, one death | BoundAsFiled, MigratedAreVerified, HalfRestoredIsPaused, FailureRestores, OperationsSettle | a disk is named in the boot mapping only with current data on it, and boot would mount what is mounted; half a restore stays paused; operations settle |
| setup_run | *graph*: two core bundles and a dependent; one triggered run, deadline, crash and lost event. *Bodies*: 12 scenarios, three runs, one fault, one crash. *Checklist*: one change of eight. *Keys*: two edits, two keys, one death. *Models*: two choices, two setups, one failure, one death | FailureShows, SuccessIsWired, AdminIsKnown, CompleteIsEarned, NeverHalfConfigured, RowsSettle, AccessStands | what setup reports is what happened, what it wired works, and nobody is locked out |
| host | *generations*: three bundles (two collide, one sick, one that does not build), two applies or two upgrades or one of each. *Recovery*: three paths, three bundles, three selections, three faults. *Phrase*: two phrases, two browsers, one creation | UpgradeReportsTruth, SwapIsReversible, CompletedIsWhole, RepositoriesRecoverable, RestoreConverges | an upgrade reports where the host is; a restore can be undone until it has swapped and is whole when it says so; no repository is created that nobody can open |
| requests | *exposure*: two Applies, two plans, two revisions, one trouble. *Backups*: two captures, one verification, two writers, one request, one pass, one trouble | PlansStayGated, ReconciledIsTrue, AppliedConverges, WritersComeBack, SnapshotsAreCold, VerifiedIsProven | no plan opens a gated service; writers come back, snapshots are of stopped writers |
| project_deploy | two requests, three digests, two host names; two projects of one repository name with up to two faults | ServedIsShown, NeverAbandoned, LeftoversAreTracked | what serves is shown; nothing is abandoned by a delete; what a failed creation leaves is known |
| workspaces | two requests of four combinations, two operators, two readers, one fault; one message with two kinds of signatures, two tries, one retry, clocks two apart | CredentialsEnd, IdleCollected, MailArrives | a removed workspace leaves no credential; an idle one is collected; mail arrives or is told |
| events | three publishers, two streams, channels of one, pages of one; eleven scenarios of the desktop, two with a call that hangs; two logins, one disconnection | ImplementsFeed, EnvironmentComes, LoginsEnd | the inbox is the abstract feed; the tool environment reaches the user manager; a login ends |
| people | two devices, one code, scenarios of up to two faults; two account requests and a fault. *Health*: two components, interval 2, reminders after 3 | RevokedIsTracked, AckedAccountStands, RevocationsFinish, FailureIsTold | what a revoked device still holds, and has a row, is queued; an acknowledged account stands; revocations finish; a failure is told |
| restore_never_completes | one running application, nothing disturbed | RestoreCompletes *(violated)* | finding 1 |
| backup_rows_end | one capture, one verification | RunsEnd *(violated)* | finding 2 |
| project_retain | as project_deploy | RetainAndSwitch *(violated)* | finding 3 |

Each component keeps one type invariant in its module (`TypeOK` and the like), which the
proofs use; the runs spend their properties on what could be wrong.

**Why these bounds.**  Two of each actor is where interleavings start: two requests for a
lock, two Applies, two operations, two captures against one verification, two edits of a
file.  A third digest is needed so that a rollback has to choose among succeeded releases;
two host names so that a rename matters; two disks so that a volume can move between data
disks; one dependent bundle so that a pause has a closure; a channel and a page of one event
so that both overflow with three.  Fault budgets of one or two suffice because a fault may
strike at every step and recovery paths are re-entered by the operator's own resumes; the
restore of a machine has three, because a rollback may itself be cut.  `ProjectDeploy` needs
no fault budget: its state space is finite with any number of deaths and ended
requests.  Its lock ages in ticks; `StaleAge = 2` is the least value the assumption allows,
and the theorem is for every larger one.  Combinations that meet in no code path are
separate scenarios of one run (`Scenarios`, `HostScenarios`, `NodeScenarios`,
`DevScenarios`, `CliScenarios`): each gives its actors and its budget.

Symmetry is used only in the two runs without liveness properties whose sets the
specification never tells apart.  `CHECK_DEADLOCK FALSE` stands where bounded budgets end the
behaviour; `app_maintenance` and `project_deploy` never stop and have deadlock checked.

**Fairness.**
- `AppMaintenance`: strong fairness of a job's step, because the step needs a Go
  mutex that calls may hold over and over; `sync.Mutex` hands itself to a waiter after a
  millisecond (starvation mode), so the waiting job gets it.  Weak fairness of the calls
  that hold the mutex (they run commands with timeouts) and of the boot steps.
- `StorageMigration`: weak fairness of the executor's steps, of the trigger and of the
  poller: systemd runs a started unit, and the client polls while an operation runs.
  Nothing is fair about resume, rollback or dismiss, which are the operator's.
- `LiveRestore`: weak fairness of the worker (its commands are bounded) and of the end
  of a bundle apply.  `Health`: of the emitter's period.
- `SetupRun`: weak fairness of the run's steps (node bodies have timeouts), of the
  start-up run and of `Restart` (its unit has `Restart=on-failure`).
- `OfflineRecovery`: weak fairness of the executor, of the apply unit, and of the operator,
  who runs an unfinished restore again: that is what `RestoreConverges` is about.
- `Workspaces`: weak fairness of every request (its context ends) and of the sweep of idle
  workspaces (a ticker).  `Mail`: of the worker's and the sender's retries.
- `Events`: weak fairness of publishers, readers and the desktop's reconnection.
- `ClientDaemon`: weak fairness of the steps of each worker and of the ten-minute reconcile.
  The requests to the server end with their contexts (fifteen seconds at most in the loop).
  The installers of web apps, the D-Bus calls and `notify-send` have no limit: a hanging one
  stops its worker for good (`CliHang`), and `EnvironmentComes` excepts a loop that hangs.
- `Devices`: weak fairness of the retry loop, of the poll, of an outage's end and of
  requests under way.  `ProviderLogins`: a helper ends (it has a timeout) and the goroutine
  that reads it runs.
- `BackupRuns`, `Exposure`, `ProjectDeploy`, `SourceControl`, `HostGenerations`,
  `RecoveryKeys`, `Accounts`, `SetupNodes`, `Checklist`, `AuthorizedKeys`,
  `EmbeddingModels`: none; only safety is stated of them.

## 5. Proofs

The eight proof modules extend their components and TLAPS; the constants are arbitrary sets
and numbers with the assumptions named in the components, which TLC evaluates on every
run.  Each theorem is *init, step, implication*: an invariant that is inductive, one lemma
per action or group of actions, and temporal logic only in the last step.  Every invariant
was checked with TLC before it was proved.

**AppMaintenance_proofs**, assuming `DepsAssumption` and `FaultsAssumption`:
`TypeCorrect`, `AckedPausesStand` (AckedStands), `PausedUnitsStayDown`
(PausedStaysDown).  `AckedStands` alone is not inductive: a job that is about to write
the marker of `cur` relies on its record, and one about to remove a marker on `cur` no
longer being acknowledged.  `CurInv` says both, and `IInv == TypeOK /\ CurInv /\
AckedStands` is inductive.  The action property follows from it: every step that starts a
unit looks at the record or at the marker.  `ReconcileConvergesHolds` has an invariant of its
own, `QuietInv`: while nobody has taken the flock since the records were listed, the list is
the records, because every step that writes one is a step of a job.

**ProjectDeploy_proofs**, assuming `StaleAssumption` (a lock goes stale at two ticks or
later: a request and what it still does after it has ended take less), `DigestAssumption`
(finitely many digests, so that releases can be numbered) and `NoneAssumption`:
- `TypeCorrect` and `OneHolderHolds`.  Exclusion is not a property of the statement that
  takes the lock, which takes it over by age, nor of the one that releases it, which
  asks for no token.  It follows with the clock: `HeldIsYoung` says that a lock in use is
  at most one tick old, and at one tick its request has ended; a tick waits for ended
  requests.  So a lock old enough to take has no holder (`LockableIsFree`).
- `ServedIsShownHolds`, `NeverAbandonedHolds`, `ActivatedServesHolds`.  Since the holder
  is alone, it may rely on what it saw: `CallOK` says that the row it deploys is marked
  deploying until it activates or fails, that from the probe on its own container
  serves, that a delete about to erase releases has nothing that serves, and that only
  creations clean up.  With `Unreleased` (no project, no releases: a new project
  starts empty) and `LockInv` this is `ReleaseInv`, inductive; TLC checked it first.

**Workspaces_proofs**: `TypeCorrect`, `OneUseHolds`, `CredentialsEndHolds`, for any number
of requests, operators, readers and faults.  That a removed workspace has no live
credential is not a property of the deletion: it holds because a creation puts the row in
before it issues anything and a deletion reads what it will revoke.  `Lossless` says so for
the requests no call was lost of: a key that works has the product's row (`KeyHasRow`), a
creation past its insertion has its row unless a deletion crossed it (`CreationInv`), and
a deletion past a credential leaves none (`DeletionInv`).  The windows that the code really
leaves (a lost call, a deletion across a creation) are in the property by name.

**Requests_proofs**: `ReconciledIsTrueHolds` (Exposure) and `WritersComeBackHolds`,
`SnapshotsAreColdHolds`, `VerifiedIsProvenHolds` (BackupRuns).  `RecInv` adds to the property
that a plan is of a revision there has been and that nothing is promised while a call is under
way or an observation of `Plan` is still to be written.  `CapturesInv` says where each stopped
writer is: up, on the list to be resumed, reported, or taken down by a stop that failed
(`Back`), that the maintenance lock is held from before the first stop (`Holds`), and what has
been passed over is down while restic reads (`Cold`).  `VerifyInv` relates the two rows of a
verification and its mark (`RowsAgree`, `Proven`). `PlansStayGatedHolds` and
`AppliedConvergesHolds` (Exposure) rest on what a plan is: its steps are in the order of their
ranks and touch each resource once (`Ranked`, `Piece`, `Fits`), so what is live after `n` steps
is read off the ranks (`AfterOrder`).  `ApplyInv` says that while one call alone applies a plan
of the state it found, the live state at step `at` is `After(plan, at - 1)`; what it marks
applied has been through every step.

**Operations_proofs**: `HalfRestoredIsPausedHolds`, `FailureRestoresHolds` (LiveRestore),
`BoundAsFiledHolds`, `MigratedAreVerifiedHolds` (StorageMigration).  `RestoreInv`: the worker
promotes with every bundle paused (`Promoting`), what it would roll back has a safety copy
(`Planned`), with an installed application a complete pause is there for good
(`StaysPaused`: the proof of health that would clear it refuses paused bundles, finding 1),
and until somebody resumes there is one pass, whose plan is the safety copy (`OnePass`).
`StorageInv`: one executor is under the flock, the owners of what is copied are paused and
the copies as good as their sources (`Copied`), and every entry of the mapping is bound but
for those an executor has yet to bind (`Bound`).

**Host_proofs**: three components that share no state.
- `RepositoriesRecoverableHolds` (RecoveryKeys).  `KeysInv` follows the phrase of each call from
  the kit to the stored secret: what is in the kit and in the file beside it was saved whoever
renamed it (`KitsSaved`), so what a call read was saved, what is stored is of that phrase
  under the key file's key, and a row leads to a stored secret at every moment between the
  staging name and the final one.
- `UpgradeReportsTruthHolds` (HostGenerations).  `UpgradeTold` says where the profile is while
  an upgrade switches, checks and goes back, as long as no apply came across it; of a
  rollback nothing is said unless the profile was read before and after it.
- `RecoveryInvariantHolds`, `SwapIsReversibleHolds`, `CompletedIsWholeHolds` (OfflineRecovery).
  The journal says less than the properties need, because the executor is killed between
  its steps and the journal is what is left.  `JournalInv` gives the places an executor can
  be in for each stage; `SwapInv` says what a swap has done up to its path and a rollback
  has undone down to it; `DataInv` says that what the executor has ticked off and what the
  journal has passed is restored (`TickedOff`, `PassedBy`), and that gates stay open once
  they are.  A swap and a rollback are proved for a list of paths of any length.

**Clients_proofs**: three components of the household's clients.
- `ImplementsFeedHolds` (Events): the steps of the refinement.  The forwarder never replays what
  it has told, a call answers with its own event after the insertion, only committed rows
  travel, and what has not been shown is not in the memory of the notifier (`CallsInv`,
  `DurableInv`, `NotesInv`, `ForwarderInv`).  With these each step of the inbox is one of the
  feed or a stutter, by one lemma per action.
- `AckedAccountStandsHolds` (Accounts).  What was acknowledged stands (`Stands`); a request that
  runs beside it is of a kind that keeps it (`Beside`); and while a request runs alone, each
  place in its list of calls says what the row and Pocket ID have by then (`Sure`).
- `RevokedIsTrackedHolds` (Devices).  `DevInv` goes credential by credential for a device whose
  revocation nothing overlapped: once its row says revoked nobody can issue for it
  (`ClosedTo`), and past each step of the revocation the credential is dead or queued
  (`KeysGone`, `TokenGone`, `LineGone`); of keys these speak of the recorded ones, for one that
  the gateway issued and whose row was not written is known nowhere.

**Setup_proofs**: five components of the first-run setup.
- `FailureShowsHolds` (SetupRun): what the run has begun or done has no failed row, and the
  newest event tells of every failed row unless its publication was lost.  The order of the
  graph is any the edges allow.
- `NeverHalfConfiguredHolds` (EmbeddingModels): without overlap the staging has put all
  files of the model in place before the configuration names it.
- `CompleteIsEarnedHolds` (Checklist): for each check that has been passed there was a moment
  when its fact held (`PlaceOf`, `NameOf`, `Noticed`); a fact that comes back is not needed.
- `AccessStandsHolds` (AuthorizedKeys): the holder of the flock knows the file (`EditKnows`),
  and what it is about to rename is the file plus what the edit offers minus what it removes
  (`Edited`; the lemmas `OfferAdds`, `MergeAdds`, `RemoveRemoves` are about the operators of the
  edit).
- `AdminIsKnownHolds` (SetupNodes): `NodeInv` says that a body is at one of its steps
  (`NodePlace`), that numbers of values are fresh (`AdminRecord`), and where each product's
  password is while its body is at work (`JellyfinKnown`, `TechnitiumKnown`, `PaperlessKnown`).
  Of the other thirty bodies one lemma says that they touch no administrator.

**ProjectDeploy_proofs, SourceControl**: `LeftoversAreTrackedHolds`, assuming
`ScmProjectAssumption` (no project has the name of somebody else).  What a body has left to do
has one of few shapes, and the shape says what has been done and what is recorded; a creation
and a deletion of one project are never at work together unless the history `beside` says so.

**What the proofs changed.**  An attempt that fails for a good reason says something about
the model or the code:
- `Exposure`: the mark of a call whose undo was cut short was missing; the property held in
  the instance by its small bound.
- `StorageMigration`: `MigratedAreVerified` compared a copy with the best there was; it
  now compares with what the owners had mounted, which is what the executor can know.
  `BoundAsFiled` needed the history `reverted`: two operations at once (section 6).
- `HostGenerations`: `UpgradeReportsTruth` is false with an apply beside the upgrade
  (section 6); the property says `alone`, and the run has the scenario.
- `OfflineRecovery`, `AuthorizedKeys`, `Health`, `SourceControl`: a `CASE` with overlapping
  guards chooses among the true ones; `NextWork` and three others were such cases, and are
  now chains of conditions, as the `switch` and `if` statements of the code are.
- `Devices`: an overlap is now also one with the revocation of another device, and the retry
  pass rewrites the htpasswd file in two steps: the attempt showed that two
  revocations can put each other's line back, because each reads, changes and writes the file
  without a lock (section 6).
- `SourceControl`: `LeftoversAreTracked` no longer excepts a creation at work; the proof
  showed that its record is there before the object is.
- `SetupNodes`: that scenarios are made of bodies there are, and begin with administrators that
  somebody knows, was assumed silently; it is `NodeScenarioAssumption`.
- `Events`, `Exposure`, `AuthorizedKeys`: pages are sets, a plan is joined from its pieces and
  a removed line leaves its place to `NoLine`, where filters of sequences stood whose
  results no prover can take apart.
- Assumptions the code justifies and nobody had written down: a restored list is a
  sequence, a newest release exists, writers and destinations are finite.

**Only model-checked**
- Liveness (`JobsEnd`, `OperationsSettle`, `FailureIsTold`, `RowsSettle`,
  `RestoreConverges`, `IdleCollected`, `MailArrives`, `EnvironmentComes`,
  `LoginsEnd`, `RevocationsFinish`): the prover has no rule for fairness or ENABLED.
- `SuccessIsWired`: no proof yet.  It needs, for each credential, the place of its value in
  each of the 34 bodies, and that a scenario is closed under the edges of the graph.

## 6. Findings and deviations

Findings, each with a run that shows it:

1. `RestoreCompletes`: restarting the writers is refused by the very pause that the
   restore took, so a live restore of a running application never completes.
2. `RunsEnd`: `failRun` writes through the request's ended context, so a run cut short at
   thirty seconds stays `running`; nothing calls `ReconcileInterrupted`, and the next
   backup is refused.
3. `RetainAndSwitch`: after a change of the host name a failed deployment destroys the
   running application and its data volume.

Deviations that modelling turned up and that no run states; properties name them as
exceptions or leave them out, so that they do not pass for guarantees:

- *Applications*: a storage resume clears the owners it paused and not their dependents;
  an API start between quiescing and marking leaves a paused unit running; a resume
  overwrites a Stop that came meanwhile; an import pause takes over the record of a
  storage pause; the start-up reconcile races an executor; a crash during an install leaves
  a row that every operation refuses.
- *Upgrades*: `rolled_back` with `rolled_back: true` is printed after a failed gate or exchange
  whether or not the rollback worked (`system.go:521`, `:541`, `:633`, `:653`); a rollback
  that could not read the profile first may go back one generation too far, and so
  does one after a switch to an identical configuration, which made no generation.
- *Storage*: rolling back a volume that came from the system disk leaves the new disk mounted
  (`storage_executor.go` rebinds only volumes that were on a disk), so what is written after the
  rollback is lost at the next boot; the commit merges its targets over the mapping that was
  read when the operation was configured (`storage.go:573`), so a move configured before another
  one commits writes the old disk of the other volume back although "unmentioned volumes keep
  their bindings" (`storage.go:781`); an operation's end unpauses owners that another one,
  killed at `committed`, had left paused; a poll that races a resume replaces the journal by a
  bare operation, whose next run sees an empty mapping, or replays the previous outcome; what an
  executor writes of a bare journal goes under an empty identifier; dismissing leaves pauses
  nobody owns; a crash between journal and trigger leaves an operation running.
- *Setup*: a canceled run clears the error and publishes nothing, so that the status is
  that of the last event, which may be the success of an earlier run; rows skipped by a
  run whose deadline passed stay pending.
- *Restore*: nothing creates the parent of the staging directory; an apply can be staged twice;
  a resumed restore computes an empty rollback plan over the existing safety copy; a restore
  killed while promoting resumes from staging; the daemon's death leaves an operation running
  and not resumable; a dismissal of a failed operation may meet its worker or the rollback just
  acknowledged and removes the staging tree, safety copies included, under it.
- *Backups*: the newest verified snapshot is looked up before a pass forgets, so a
  verification that ends between the two can have its proof pruned; whether
  meilisearch runs is asked before the lock, so its index can be captured hot; a stop whose
  request ends between `systemctl stop` and the row's update is an error with the writer down,
  which the capture neither resumes nor names (`apps/service.go:355`); the
  daemon's death leaves stopped writers down; a pass that is cut leaves rows of snapshots
  that are gone; the scheduled `omahab backup verify` passes no identifier and verifies
  nothing.
- *Exposure*: a lost answer at the removal of the gate lets the rollback publish the
  service without it; a failed undo is passed over; a stale plan or two Applies at once
  can open a service; an ended context leaves a half-applied plan pending; setup writes
  private over a chosen exposure; the edge lists `http://host:port` where the desired value
  is `host:port`, so the two never compare equal; the observation names a plan and no
  revision, so after a change of the desired state `Status` shows `reconciled` beside what is
  not applied (`api.go:268`), and only the plan's own row tells; an Apply whose row was
  deleted meanwhile records no observation, so a later row of the same host name may stay
  shown as reconciled (`apply.go:144`).
- *Projects*: a known digest with another commit runs its image without a row and then
  panics (`beginRelease`'s error is not looked at); a failed redeployment of the
  active digest leaves it active and failed; after a switch whose probe or row failed, what
  serves is not the active release (its row says failed or deploying); rollback after
  rollback toggles; the lock of a dead daemon lasts ten minutes; the clean-up of a failed
  creation removes the record of what was deployed meanwhile; two projects may have one
  host name, and then update and undeploy reach each other's application.

- *Workspaces*: `rollbackCreate` runs on the ended request, so a pending row and a live key
  or token may stay although "Creation is atomic"; it never deletes the container when `Up`
  fails late; a deletion during a creation leaves a container and its key; `ExpireIdle` may
  expire a workspace touched since it listed the idle ones; a stopped workspace keeps its
  credentials; a review's twenty minutes run under the thirty seconds of the request;
  "Concurrency is one review per PR" is not ensured; `DeleteVirtualKey` with an unreachable
  gateway orphans the bearer.
- *Events*: what is committed between the last page of a replay and the registration is
  missed (`service.go:549`); commits and broadcasts may be in different orders; the ntfy
  forwarder ends for good when its channel overflows.
- *Desktop daemon*: two `Sync`s at once (loop and socket) may keep the file of one revision
  under the entity tag of another; a death while applying leaves removed names live; one hanging
  installer, D-Bus call or `notify-send` stops the loop until the daemon is restarted
  (`webapp.go:81`, `dbus_linux.go:15`, `notifier_linux.go:31`);
  `OMAHAB_MCP_URL` is written and unset again by the next `Sync`; after
  `companion.revoked` removed the web apps, the next reconcile installs them again;
  `workspace.openInEditor` cannot be reached (the method is lower-cased); `Online` stays
  true after an outage; a list fetched before `project.create` drops the new clone's path.
- *Bundles and upgrade*: nothing excludes an upgrade and an apply at once, so the apply's
  rollback can make the generation of a "healthy" upgrade inactive; the reservation of an
  apply lives in the process, so a restarted daemon may stage another one; a crash between
  staging and journaling or a reboot during an apply leaves a journal that runs or a
  reservation that is held (`bundles_ops.go:655` against `:619`); concurrent additions over
  API and command line can commit bundles that collide; `NoteStarted` overwrites a journal's
  terminal status.
- *Offline recovery*: a kill between the creation of `index.json` and the end of its writing
  leaves a torn one: every resume fails on it (`recovery_apply.go:352`, `:466`), until somebody
  removes it, which `RestoreConverges` excepts by name; after a power cut in the middle of a
  swap the daemon starts ungated; an interrupted interactive apply may leave it down; the
  reordering of writes by a power loss is not modelled.
- *Recovery keys*: two browsers that confirm at once write one `recovery.kit.tmp`: the kit may
  be the phrase of one while the other's seed is remembered, or be empty after a death, and then
  no phrase is accepted until the next confirmation; a request that ends or a crash leaves a
  phantom repository row; a torn key pair is never made again; host keys and accepted keys are
  read, changed and written without a lock; an empty master key file is replaced; `Resolve`
  ignores the version that "version-pinned" promises; rotating the kit leaves older repositories
  under the old phrase; deleting a repository leaves its secret.
- *Devices*: the htpasswd file is read, changed and written without a lock; an environment fetch
  that passed its check before a revocation can issue a key after keys were listed; two
  revocations, or one and the retry pass, that rewrite the file beside each other put a revoked
  line back; an enrollment can create its Forgejo token after the revocation; revocation reports
  success while Syncthing is unreachable; a folder creation that races it enrolls the device
  again; a request that ends while revoking loses the queue entry; a key whose issue was
  answered late, or whose row and compensation failed, works for ever without a row, and its
  device is reported revoked (`providers/service.go:1252`, `:1303`, `litellm.go:832`).
- *Setup nodes*: a failed write of Woodpecker's environment is only logged and its node is done
  (`setup_oidc.go:353`), so it may run on an old or missing OAuth secret until a later run
  writes it; the same holds for a DNS token that the broker does not reveal; a key issued whose
  storing failed stays without a copy; a secret rotated at its provider before it is stored is
  stale for ever after a crash (OAuth, Technitium, Paperless; Jellyfin stores first); secret
  files are not written atomically; `SetupWoodpecker`'s thirty-second probe runs under the
  thirty-second request.
- *Source control*: the clean-up of a creation that failed before the row said "adopted"
  deletes a repository that existed before (`service.go:487`, `:506`); a deletion beside a
  creation leaves orphans; `PutFile` only creates, so a repository with a
  `.woodpecker.yaml` cannot be adopted again; an adopted repository keeps its mirror and
  hook after the project is deleted; `SyncRuns`, `Rerun` and `Cancel` have no callers.
- *Accounts*: the groups of a PATCH go into the local row only and are acknowledged
  (`identity_ops.go:204`, `:276`), Pocket ID keeps the old ones; the link handed out with a new
  account is not in the ledger that a reissue burns (`identity_ops.go:349`); the rollback of a
  flag runs on the request's own context; overlapping reissues leave two working links; a
  failure after Pocket ID created the account makes every retry conflict; `DeleteUser` leaves
  the Pocket ID account active.
- *Model subscriptions*: `litellmGateway.sessions` is unguarded; a disconnection removes
  `auth.json` before the killed helper is dead, which may write it again; a probe across a
  disconnection marks the row healthy; a late challenge resets an expired session; an
  expired session's helper keeps the provider busy; `Close` and `Cancel` have no callers.
- *Mail*: the mounted handler answers 500 where the unmounted one has 202, 409 and 400, so
  quarantined mail is quarantined again at every retry; a stored message whose answer is
  lost is stored twice; a failing DNS query quarantines for good.
- *Health*: a recovery within the flap window is never told although recovery is said to
  "emit as service.healthy info events"; `VerifyStale` is never set, so `backup_verified`
  is always degraded.
- *Knowledge*: an unchanged configuration restarts nothing; a death between stop and start
  leaves the worker stopped by wish; nothing calls the consent functions.
- *Checklist*: a skipped check leaves the state at "attention" for ever although the comment
  says "(except skipped)"; `orderSetupChecks` drops `backups_offsite`.

## 7. What is not modelled, and why

- *Whole components*: the clients of Cloudflare and the tunnel, private networks and DNS
  (sequences of idempotent calls; their effect on modelled components enters as outcomes of
  steps); the HTTP API, the MCP server, the command line and the installer (they call what is
  modelled, one call per request); NixOS modules, the web interface, workers and the desktop
  companion, assistant integrations (no protocol of their own); the database layer, types,
  tables and helpers; the assembly of the daemon; the rest of the `once` fork.  `PROJECT.json`
  gives the reason for each.
- *Parts of modelled components*: PostgreSQL's second stop and disk probes (storage); the
  ceiling of a bundle's exposure and services that share a tunnel configuration (exposure; a
  lost update is possible there); secrets files and release tokens (projects); errors of
  SQLite other than an ended context; edits of `authorized_keys` that do not take the lock;
  several offline operations at once.
- *Hazards seen and not modelled*: the desired state read before a pause and used after it
  (`maintenance.go:254`), events between replay and registration.  Where a property would be
  affected, it names the window as an exception.
- *Simplifications that a property could see, and why none does*: a rename of the offline
  recovery that falls back to copying (one filesystem is assumed), and its removal of a tree,
  are one step; the undo of a live restore is one step for both destinations, a torn one being a
  failure; a D-Bus call that fails is taken as not done, and one background read of projects
  runs at a time; the daemon's `git fetch` is a stub that is not called; the gateway is asked to
  remove a key and not its alias; a failing write of one row of the revocation queue while other
  statements succeed is left out; a failed look-up at the gateway's aliases counts as a
  deferral; the body that issues the key of hermes does not wait for those of hindsight (more
  behaviours, not fewer); a key revoked beside another active one of its owner goes on being
  used (`cut`).
- *Reached by no proof*: section 5, "Only model-checked".
