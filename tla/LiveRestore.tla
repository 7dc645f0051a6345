---------------------------- MODULE LiveRestore ----------------------------
(***************************************************************************)
(* Restoring application scopes into the running server                    *)
(* (internal/controlplane/restore.go, restore_live.go, operations.go).     *)
(*                                                                         *)
(* One live restore operation: a worker goroutine takes the maintenance    *)
(* flock, loads the journal, stages the snapshot, saves a safety copy,     *)
(* stops the writers, activates custom bundles through an external apply,  *)
(* promotes files and databases, restarts the writers and proves health.   *)
(* Any failure rolls back from the safety copy.  The operator resumes,     *)
(* rolls back or dismisses; the daemon dies at any step.  The worker's     *)
(* copy of the journal is a local variable, as in the code.                *)
(***************************************************************************)
EXTENDS Naturals, FiniteSets

CONSTANTS
    RestoreBundle,  \* the selected bundles and their dependents
    Deployment,     \* [installed, desired]: with an application row; wanted running
    Custom,         \* the snapshot carries custom bundle definitions
    MaxRequests,    \* bound: resumes and rollbacks the operator asks for
    RestoreFaults,  \* bound: failing commands
    MaxDeaths       \* bound: daemon deaths

ASSUME DeploymentAssumption ==
    Deployment \subseteq [installed : SUBSET RestoreBundle, desired : SUBSET RestoreBundle]
\* A live restore names its scopes; each is an application's, or it is refused.
ASSUME SelectionAssumption == RestoreBundle # {}
ASSUME RestoreBoundsAssumption ==
    MaxRequests \in Nat /\ RestoreFaults \in Nat /\ MaxDeaths \in Nat

Dest == {"files", "db"}
\* "torn" is half promoted; "rewritten" is half rolled back over old contents.
Content == {"old", "new", "torn", "rewritten"}
Stage == {"none", "preflight", "staged", "safety_saved", "writers_stopped",
          "bundles_written", "files_promoted", "databases_restored",
          "validating", "failed", "completed", "rolled_back"}
RestoreStatus == {"none", "running", "failed", "completed", "rolling_back",
                  "rolled_back", "dismissed"}
RestoreKind == {"live", "staging", "rollback"}
WorkerAt == {"idle", "load", "extract", "safety", "pause", "bundles", "applying",
             "files", "db", "secrets", "resume", "health", "undo", "undo_resume"}
ApplyId == 0..(MaxRequests + 1)      \* zero: none

RestoreJournal == [status : RestoreStatus, stage : Stage, canResume : BOOLEAN,
                   canRollback : BOOLEAN, staging : BOOLEAN, apply : ApplyId]

VARIABLES
    deployed,             \* the applications of the server; no restore changes them
    restoreJournal,       \* the operation's journal file
    liveData,             \* the live contents of each destination
    safety,               \* the safety copies; "none" when there is no such file
    tree,                 \* the staging tree the operation's journals name is there
    pausedApps, running,  \* bundles in restore maintenance; with running units
    at, workerKind, j,    \* the worker that holds the flock, and its journal copy
    plan,                 \* plan.safetyFiles and plan.safetyDBs: what it would roll back
    waited,               \* the bundle apply it waits for
    queue,                \* workers waiting for the flock
    ack,                  \* a rollback handler's copy of the journal, not written yet
    applyOutcome,         \* the outcome marker of each bundle apply
    requests, restoreFaults, deaths

worker      == <<at, workerKind, j, plan, waited>>
appData     == <<liveData, safety, pausedApps, running>>
restoreData == <<appData, tree>>
restoreVars == <<deployed, restoreJournal, restoreData, worker, queue, ack, applyOutcome,
                 requests, restoreFaults, deaths>>

None  == [status |-> "none", stage |-> "none", canResume |-> FALSE,
          canRollback |-> FALSE, staging |-> FALSE, apply |-> 0]
RestoreFault == restoreFaults < RestoreFaults /\ restoreFaults' = restoreFaults + 1

Installed == deployed.installed
RestoreDesired == deployed.desired \cap Installed

RestoreInit ==
    /\ deployed \in Deployment
    /\ restoreJournal = None
    /\ liveData = [d \in Dest |-> "old"] /\ safety = [d \in Dest |-> "none"]
    /\ tree = FALSE /\ pausedApps = {} /\ running = RestoreDesired
    /\ at = "idle" /\ workerKind = "live" /\ j = None /\ plan = {} /\ waited = 0
    /\ queue = {} /\ ack = None
    /\ applyOutcome = [a \in ApplyId |-> "none"]
    /\ requests = 0 /\ restoreFaults = 0 /\ deaths = 0

----------------------------------------------------------------------------
(* The operator's requests *)

\* RestoreBackup in live mode, confirmed and with explicit scopes.
StartLiveRestore ==
    /\ restoreJournal = None
    /\ restoreJournal' = [None EXCEPT !.status = "running", !.stage = "preflight"]
    /\ queue' = queue \cup {"live"}
    /\ UNCHANGED <<restoreData, worker, ack, applyOutcome, requests, restoreFaults, deaths>>

Asks == requests < MaxRequests /\ requests' = requests + 1

\* The journal does not record the mode: an operation without a staging tree
\* resumes as a staging one.
ResumeKind == IF restoreJournal.stage = "staged" \/ ~restoreJournal.staging THEN "staging" ELSE "live"

\* Resume is accepted whatever the status, as long as the journal allows it.
RequestResume ==
    /\ Asks /\ restoreJournal.canResume
    /\ restoreJournal' = [restoreJournal EXCEPT !.status = "running", !.canResume = FALSE]
    /\ queue' = queue \cup {ResumeKind}
    /\ UNCHANGED <<restoreData, worker, ack, applyOutcome, restoreFaults, deaths>>

\* The worker is started before the handler writes its copy of the journal.
RequestRollback ==
    /\ Asks /\ restoreJournal.canRollback /\ ack = None
    /\ queue' = queue \cup {"rollback"}
    /\ ack' = [restoreJournal EXCEPT !.status = "rolling_back"]
    /\ UNCHANGED <<restoreJournal, restoreData, worker, applyOutcome, restoreFaults, deaths>>

AckRollback ==
    /\ ack # None /\ restoreJournal' = ack /\ ack' = None
    /\ UNCHANGED <<restoreData, worker, queue, applyOutcome, requests, restoreFaults, deaths>>

\* Removes the staging tree and the operation's directory, safety included; it
\* looks at the status in the journal only, not at who is at work.
DismissRestore ==
    /\ restoreJournal.status \in {"failed", "completed", "rolled_back", "rolling_back"}
    /\ restoreJournal' = [None EXCEPT !.status = "dismissed"]
    /\ safety' = [d \in Dest |-> "none"] /\ tree' = FALSE
    /\ UNCHANGED <<liveData, pausedApps, running, worker, queue, ack, applyOutcome, requests, restoreFaults, deaths>>

----------------------------------------------------------------------------
(* The worker: staging *)

Dismissed == restoreJournal.status = "dismissed"

\* withMaintenanceLock, then loadRestoreJournal: without a journal the worker
\* ends at once.
Acquire(k) ==
    /\ at = "idle" /\ k \in queue /\ queue' = queue \ {k}
    /\ IF Dismissed THEN UNCHANGED worker
       ELSE /\ at' = "load" /\ workerKind' = k /\ j' = restoreJournal
            /\ plan' = {} /\ waited' = 0
    /\ UNCHANGED <<restoreJournal, restoreData, ack, applyOutcome, requests, restoreFaults, deaths>>

WorkerGoto(pc) == at' = pc /\ UNCHANGED <<workerKind, waited>>
WriteRestoreJournal(new) == restoreJournal' = new /\ j' = new

\* failRestoreOp: the stage is forgotten.
RestoreFailed(new) == [new EXCEPT !.status = "failed", !.stage = "failed",
                           !.canResume = TRUE, !.canRollback = TRUE]

\* The worker returns; what it held in local variables is gone.
NoWorker == at' = "idle" /\ workerKind' = "live" /\ j' = None /\ plan' = {} /\ waited' = 0
WorkerEnds(new)  == restoreJournal' = new /\ NoWorker
FailRestore(new) == WorkerEnds(RestoreFailed(new))

Resumable == j.stage \in {"bundles_written", "files_promoted",
                          "databases_restored", "validating"}

\* A journal past the writer stops goes on with the kept tree; the safety
\* copy is looked up again.
LoadLive ==
    /\ at = "load" /\ workerKind = "live"
    /\ WorkerGoto(IF Resumable /\ tree THEN "safety" ELSE "extract")
    /\ UNCHANGED <<restoreJournal, restoreData, j, plan, queue, ack, applyOutcome, requests, restoreFaults, deaths>>

\* runRestoreStaging writes the directory into the journal at once.
LoadStaging ==
    /\ at = "load" /\ workerKind = "staging"
    /\ WriteRestoreJournal([j EXCEPT !.staging = TRUE])
    /\ WorkerGoto("extract") /\ UNCHANGED plan
    /\ UNCHANGED <<restoreData, queue, ack, applyOutcome, requests, restoreFaults, deaths>>

\* The staging directory cannot be made: no journal names one then.
NoStagingDir ==
    /\ \/ at = "extract" /\ workerKind = "live"
       \/ at = "load" /\ workerKind = "staging"
    /\ RestoreFault /\ FailRestore(j)
    /\ UNCHANGED <<restoreData, queue, ack, applyOutcome, requests, deaths>>

\* Extraction, validation, the plan and the version checks.
Extract ==
    /\ at = "extract" /\ workerKind = "live"
    /\ WriteRestoreJournal([j EXCEPT !.staging = TRUE, !.stage = "preflight"])
    /\ tree' = TRUE
    /\ WorkerGoto("safety") /\ UNCHANGED plan
    /\ UNCHANGED <<appData, queue, ack, applyOutcome, requests, restoreFaults, deaths>>

ExtractFails ==
    /\ at = "extract" /\ RestoreFault
    /\ FailRestore([j EXCEPT !.staging = TRUE]) /\ tree' = FALSE
    /\ UNCHANGED <<appData, queue, ack, applyOutcome, requests, deaths>>

Staged ==
    /\ at = "extract" /\ workerKind = "staging"
    /\ WorkerEnds([j EXCEPT !.stage = "staged", !.status = "completed"]) /\ tree' = TRUE
    /\ UNCHANGED <<appData, queue, ack, applyOutcome, requests, restoreFaults, deaths>>

----------------------------------------------------------------------------
(* The worker: safety copy and writer stops *)

HasSafety == \E d \in Dest : safety[d] # "none"

SaveStage == IF j.stage = "preflight" THEN [j EXCEPT !.stage = "safety_saved"] ELSE j

\* saveRestoreSafety: an existing directory is taken as it is, and then the
\* plan has nothing to roll back.
SaveSafety ==
    /\ at = "safety" /\ WriteRestoreJournal(SaveStage) /\ WorkerGoto("pause")
    /\ IF HasSafety THEN plan' = {} /\ UNCHANGED safety
                    ELSE plan' = Dest /\ safety' = liveData
    /\ UNCHANGED <<tree, liveData, pausedApps, running, queue, ack, applyOutcome, requests, restoreFaults, deaths>>

\* A copy or a dump fails after some of them were made.
SaveSafetyFails ==
    /\ at = "safety" /\ ~HasSafety /\ RestoreFault
    /\ \E done \in SUBSET Dest :
          safety' = [d \in Dest |-> IF d \in done THEN liveData[d] ELSE "none"]
    /\ FailRestore(j)
    /\ UNCHANGED <<tree, liveData, pausedApps, running, queue, ack, applyOutcome, requests, deaths>>

Past == {"writers_stopped", "bundles_written", "files_promoted",
         "databases_restored", "validating"}

PauseAll ==
    /\ at = "pause"
    /\ pausedApps' = RestoreBundle /\ running' = running \ RestoreBundle
    /\ WriteRestoreJournal(IF j.stage \in Past THEN j
                           ELSE [j EXCEPT !.stage = "writers_stopped"])
    /\ WorkerGoto("bundles") /\ UNCHANGED plan
    /\ UNCHANGED <<tree, liveData, safety, queue, ack, applyOutcome, requests, restoreFaults, deaths>>

\* One bundle cannot be stopped or marked; those before it stay paused.
PauseFails ==
    /\ at = "pause" /\ RestoreFault
    /\ \E done \in SUBSET RestoreBundle :
          /\ done # RestoreBundle
          /\ pausedApps' = pausedApps \cup done /\ running' = running \ done
    /\ WorkerGoto("undo")
    /\ UNCHANGED <<tree, restoreJournal, liveData, safety, j, plan, queue, ack, applyOutcome, requests, deaths>>

----------------------------------------------------------------------------
(* The worker: custom bundles, promotion, restart *)

\* What restoreCustomBundles leaves when there is nothing to activate, and
\* what follows an activation: the worker's own copy goes to disk.
BundlesWritten ==
    /\ \/ at = "bundles" /\ ~Custom
       \/ at = "applying" /\ applyOutcome[waited] = "completed"
    /\ WriteRestoreJournal([j EXCEPT !.stage = "bundles_written"])
    /\ WorkerGoto("files") /\ UNCHANGED plan
    /\ UNCHANGED <<restoreData, queue, ack, applyOutcome, requests, restoreFaults, deaths>>

\* The number of applies this operation has staged.
Applies == Cardinality({a \in ApplyId : applyOutcome[a] # "none"})

Wait(a) == at' = "applying" /\ waited' = a /\ UNCHANGED workerKind

\* waitRestoreBundleApply reads the journal afresh, stages an apply unless it
\* names one, and journals it as resumable before the unit starts.
StageApply ==
    /\ at = "bundles" /\ Custom /\ tree /\ ~Dismissed
    /\ restoreJournal.apply = 0 /\ Applies + 1 \in ApplyId
    /\ applyOutcome' = [applyOutcome EXCEPT ![Applies + 1] = "running"]
    /\ restoreJournal' = [restoreJournal EXCEPT !.apply = Applies + 1,
                                  !.stage = "bundles_written", !.canResume = TRUE]
    /\ Wait(Applies + 1)
    /\ UNCHANGED <<restoreData, j, plan, queue, ack, requests, restoreFaults, deaths>>

AwaitStagedApply ==
    /\ at = "bundles" /\ Custom /\ tree /\ restoreJournal.apply # 0
    /\ Wait(restoreJournal.apply)
    /\ UNCHANGED <<restoreJournal, restoreData, j, plan, queue, ack, applyOutcome, requests, restoreFaults, deaths>>

\* The apply failed, or a dismissal took the definitions or the journal away.
ApplyFails ==
    /\ \/ at = "applying" /\ applyOutcome[waited] = "failed"
       \/ at = "bundles" /\ Custom /\ (~tree \/ Dismissed)
    /\ WorkerGoto("undo")
    /\ UNCHANGED <<restoreJournal, restoreData, j, plan, queue, ack, applyOutcome, requests, restoreFaults, deaths>>

Promote(d, next, stage) ==
    /\ liveData' = [liveData EXCEPT ![d] = "new"]
    /\ WriteRestoreJournal([j EXCEPT !.stage = stage])
    /\ WorkerGoto(next) /\ UNCHANGED plan
    /\ UNCHANGED <<tree, safety, pausedApps, running, queue, ack, applyOutcome, requests, restoreFaults, deaths>>

PromoteStagedFiles        == at = "files" /\ tree /\ Promote("files", "db", "files_promoted")
RestoreSelectedDatabases  == at = "db" /\ tree /\ Promote("db", "secrets", "databases_restored")

\* rsync or pg_restore stops halfway, or has nothing to read any more.
PromoteFails(d) ==
    /\ at = d
    /\ IF tree THEN RestoreFault ELSE UNCHANGED restoreFaults
    /\ \/ liveData' = [liveData EXCEPT ![d] = "torn"]
       \/ ~tree /\ UNCHANGED liveData
    /\ WorkerGoto("undo")
    /\ UNCHANGED <<tree, restoreJournal, safety, pausedApps, running, j, plan, queue, ack, applyOutcome, requests, deaths>>

CheckSecrets ==
    /\ at = "secrets"
    /\ \/ /\ WriteRestoreJournal([j EXCEPT !.stage = "validating"])
          /\ WorkerGoto("resume") /\ UNCHANGED restoreFaults
       \/ RestoreFault /\ WorkerGoto("undo") /\ UNCHANGED <<restoreJournal, j>>
    /\ UNCHANGED <<restoreData, plan, queue, ack, applyOutcome, requests, deaths>>

\* apps.Start refuses a bundle in maintenance.
StartRefused == RestoreDesired \cap pausedApps # {}
\* apps.CheckHealth refuses it too, and refuses one that does not run.
HealthRefused == \E b \in Installed : b \in pausedApps \/ b \notin running

ResumeRestoreApps(next) ==
    IF StartRefused THEN UNCHANGED running /\ WorkerGoto("undo")
    ELSE running' = running \cup RestoreDesired /\ WorkerGoto(next)

Restart ==
    /\ at = "resume" /\ ResumeRestoreApps("health")
    /\ UNCHANGED <<tree, restoreJournal, liveData, safety, pausedApps, j, plan, queue, ack, applyOutcome,
                   requests, restoreFaults, deaths>>

HealthFails ==
    /\ at = "health" /\ HealthRefused
    /\ WorkerGoto("undo")
    /\ UNCHANGED <<restoreJournal, restoreData, j, plan, queue, ack, applyOutcome, requests, restoreFaults, deaths>>

Complete ==
    /\ at = "health" /\ ~HealthRefused
    /\ pausedApps' = {}
    /\ WorkerEnds([j EXCEPT !.stage = "completed", !.status = "completed"])
    /\ UNCHANGED <<tree, liveData, safety, running, queue, ack, applyOutcome, requests, restoreFaults, deaths>>

----------------------------------------------------------------------------
(* Rolling back *)

\* An explicit rollback points the plan at the safety copies on disk.
LoadRollback ==
    /\ at = "load" /\ workerKind = "rollback"
    /\ IF HasSafety /\ tree
       THEN /\ plan' = {d \in Dest : safety[d] # "none"}
            /\ WorkerGoto("undo") /\ UNCHANGED <<restoreJournal, j>>
       ELSE FailRestore(j)
    /\ UNCHANGED <<restoreData, queue, ack, applyOutcome, requests, restoreFaults, deaths>>

\* Mutated form: the databases are not rolled back.
RestoreSafetyFiles ==
    liveData' = [d \in Dest |-> IF d \in plan \cap {"files"} THEN safety[d] ELSE liveData[d]]

RestoreSafety ==
    liveData' = [d \in Dest |-> IF d \in plan THEN safety[d] ELSE liveData[d]]

\* A dismissal has removed what the worker would roll back from.
SafetyGone == \E d \in plan : safety[d] = "none"

Undo ==
    /\ at = "undo" /\ ~SafetyGone /\ RestoreSafety /\ WorkerGoto("undo_resume")
    /\ UNCHANGED <<tree, restoreJournal, safety, pausedApps, running, j, plan, queue, ack, applyOutcome,
                   requests, restoreFaults, deaths>>

HalfBack(d) == IF liveData[d] \in {"old", "rewritten"} THEN "rewritten" ELSE "torn"

UndoFails ==
    /\ at = "undo"
    /\ IF SafetyGone THEN UNCHANGED restoreFaults ELSE RestoreFault
    /\ \/ \E d \in plan : liveData' = [liveData EXCEPT ![d] = HalfBack(d)]
       \/ SafetyGone /\ UNCHANGED liveData
    /\ FailRestore(j)
    /\ UNCHANGED <<tree, safety, pausedApps, running, queue, ack, applyOutcome, requests, deaths>>

\* Mutated form: maintenance is cleared before the applications are proved.
UndoResumeEager ==
    /\ at = "undo_resume" /\ pausedApps' = {} /\ FailRestore(j)
    /\ UNCHANGED <<tree, liveData, safety, running, queue, ack, applyOutcome, requests, restoreFaults, deaths>>

\* Restart and prove the applications; only then is maintenance cleared.  The
\* caller reports the operation as failed, an explicit rollback as rolled back.
UndoResume ==
    /\ at = "undo_resume"
    /\ IF StartRefused
       THEN FailRestore(j) /\ UNCHANGED <<running, pausedApps>>
       ELSE /\ running' = running \cup RestoreDesired
            /\ IF \E b \in Installed : b \in pausedApps \/ b \notin running'
               THEN FailRestore(j) /\ UNCHANGED pausedApps
               ELSE /\ pausedApps' = {}
                    /\ IF workerKind = "rollback"
                       THEN WorkerEnds([j EXCEPT
                                    !.status = "rolled_back", !.stage = "rolled_back",
                                    !.canResume = FALSE, !.canRollback = FALSE])
                       ELSE FailRestore(j)
    /\ UNCHANGED <<tree, liveData, safety, queue, ack, applyOutcome, requests, restoreFaults, deaths>>

----------------------------------------------------------------------------
(* Environment *)

\* The oneshot unit ends, and leaves its outcome marker.
ApplyEnds ==
    /\ \E a \in ApplyId \ {0} :
          /\ applyOutcome[a] = "running"
          /\ \/ applyOutcome' = [applyOutcome EXCEPT ![a] = "completed"] /\ UNCHANGED restoreFaults
             \/ applyOutcome' = [applyOutcome EXCEPT ![a] = "failed"] /\ RestoreFault
    /\ UNCHANGED <<restoreJournal, restoreData, worker, queue, ack, requests, deaths>>

\* The daemon dies; a switch does that on purpose.  Nothing resumes by itself.
DaemonDies ==
    /\ at # "idle" \/ queue # {} \/ ack # None
    /\ deaths < MaxDeaths /\ deaths' = deaths + 1
    /\ NoWorker /\ queue' = {} /\ ack' = None
    /\ liveData' \in {liveData} \cup
          (IF at \in Dest THEN {[liveData EXCEPT ![at] = "torn"]} ELSE {}) \cup
          (IF at = "undo" THEN {[liveData EXCEPT ![d] = HalfBack(d)] : d \in plan} ELSE {})
    /\ UNCHANGED <<tree, restoreJournal, safety, pausedApps, running, applyOutcome, requests, restoreFaults>>

WorkerStep ==
    \/ \E k \in RestoreKind : Acquire(k)
    \/ LoadLive \/ LoadStaging \/ NoStagingDir \/ Extract \/ ExtractFails \/ Staged
    \/ SaveSafety \/ SaveSafetyFails \/ PauseAll \/ PauseFails
    \/ BundlesWritten \/ StageApply \/ AwaitStagedApply \/ ApplyFails
    \/ PromoteStagedFiles \/ RestoreSelectedDatabases
    \/ (\E d \in Dest : PromoteFails(d))
    \/ CheckSecrets \/ Restart \/ HealthFails \/ Complete
    \/ LoadRollback \/ Undo \/ UndoFails \/ UndoResume

RestoreNext ==
    /\ \/ WorkerStep \/ StartLiveRestore \/ RequestResume \/ RequestRollback
       \/ AckRollback \/ DismissRestore \/ ApplyEnds \/ DaemonDies
    /\ UNCHANGED deployed

\* Every command of the worker is bounded, and so is the apply unit.
RestoreFairness == /\ WF_restoreVars(WorkerStep /\ UNCHANGED deployed)
                   /\ WF_restoreVars(ApplyEnds /\ UNCHANGED deployed)

RestoreSpec == RestoreInit /\ [][RestoreNext]_restoreVars /\ RestoreFairness

----------------------------------------------------------------------------
(* Properties *)

RestoreTypeOK ==
    /\ deployed \in Deployment /\ restoreJournal \in RestoreJournal /\ j \in RestoreJournal /\ ack \in RestoreJournal
    /\ liveData \in [Dest -> Content] /\ safety \in [Dest -> Content \cup {"none"}]
    /\ pausedApps \subseteq RestoreBundle /\ running \subseteq Installed
    /\ tree \in BOOLEAN /\ waited \in ApplyId
    /\ at \in WorkerAt /\ workerKind \in RestoreKind /\ plan \subseteq Dest /\ queue \subseteq RestoreKind
    /\ applyOutcome \in [ApplyId -> {"none", "running", "completed", "failed"}]
    /\ requests \in 0..MaxRequests /\ restoreFaults \in 0..RestoreFaults
    /\ deaths \in 0..MaxDeaths

Restored(d) == liveData[d] \in {"new", "torn"}

\* Files of one moment next to a database of another, or half a promotion: the
\* bundles of the operation stay paused, whoever crashed, failed or resumed.
\* A resume over bundles without an application row is excepted: it finds the
\* safety copy with an empty rollback plan, and then clears the maintenance.
HalfRestoredIsPaused ==
    (requests = 0 \/ Installed # {}) /\ (\E d \in Dest : Restored(d))
        => pausedApps = RestoreBundle \/ \A d \in Dest : liveData[d] = "new"

\* restore_live.go: "Failure restores preserved files and safety dumps": while
\* nobody has resumed it, an operation that failed and gave the bundles back
\* left nothing of the snapshot.
Reverted == (at = "idle" /\ restoreJournal.status = "failed" /\ pausedApps = {})
                => \A d \in Dest : ~Restored(d)
FailureRestores == requests = 0 => Reverted

\* An operation whose worker is not killed comes to an end.
OpSettles == (restoreJournal.status = "running") ~> (restoreJournal.status # "running" \/ deaths > 0)

\* restore_live.go: "Restart in dependency order, only previously running
\* dependents": an undisturbed live restore of a running application completes.
RestoreCompletes == (restoreJournal.status = "running") ~> (restoreJournal.status = "completed")

=============================================================================
