--------------------------- MODULE OfflineRecovery ---------------------------
(***************************************************************************)
(* Restoring a whole machine from a snapshot: an operation is staged by    *)
(* the panel or by `omahab recovery apply`, and the one offline executor   *)
(* walks the stages of its journal, under omahab-restore.service or in the *)
(* shell of the operator.  Any step may fail, the process may be killed    *)
(* and the power cut between any two steps; the operator runs it again.    *)
(*                                                                         *)
(* internal/controlplane/recovery_offline.go and recovery_restore.go,      *)
(* internal/backups/recovery_apply.go, cmd/omahab/recovery_apply.go.       *)
(***************************************************************************)
EXTENDS Naturals, Sequences, FiniteSets

CONSTANTS SwapFiles,      \* the paths of server-config in the order they are swapped, master.key last
          Originals,      \* the ones the machine has before the restore
          Carried,        \* bundles whose payload the snapshot carries
          Identity,       \* pocket-id, restored with the configuration when it is carried
          Databases,      \* bundles with a logical database
          Ways,           \* who runs it: "unit" for the panel, "cli" for the shell
          Selections,     \* what is restored: the scopes asked for, and the identity when it is carried
          RecFaults       \* bound: failing steps, kills and power cuts

Range1(s) == {s[i] : i \in 1..Len(s)}

ASSUME RecoveryAssumption ==
    /\ SwapFiles \in Seq(Range1(SwapFiles)) /\ Len(SwapFiles) > 0 /\ Originals \subseteq Range1(SwapFiles)
    /\ Databases \subseteq Carried /\ Identity \notin Databases
    /\ \A s \in Selections : s \subseteq Carried
    /\ Ways \subseteq {"unit", "cli"} /\ RecFaults \in Nat

VARIABLES jour,    \* the journal of the operation
          live, keep, index, \* the swapped paths, their copies in the rollback directory, its index
          marker, pauseRow, running, data, \* per bundle: gate, app_maintenance row, units, payload
          applies, \* the bundle applies this operation staged
          rec,     \* the executor
          omahabd, handoffPhrase, sourceRows, setupState, faultsLeft, selected

recVars == <<jour, live, keep, index, marker, pauseRow, running, data, applies, rec,
             omahabd, handoffPhrase, sourceRows, setupState, faultsLeft, selected>>
swapVars == <<live, keep, index>>
appVars == <<marker, pauseRow, running, data>>
sideVars == <<omahabd, handoffPhrase, sourceRows, setupState, selected>>

NoExec == [at |-> "off", by |-> "none", i |-> 0, todo |-> {}, hadDaemon |-> FALSE, fresh |-> FALSE]
NoJournal == [stage |-> "none", status |-> "none", resume |-> FALSE, apply |-> 0]

\* offlineIdentityScope: inseparable from the configuration.
IdentityScope == {Identity} \cap selected
AppScopes == selected \ {Identity}
\* The bundles the restore holds paused: the selected ones and the identity.
Paused == AppScopes \cup IdentityScope
Parts(b) == IF b \in Databases THEN {"files", "db"} ELSE {"files"}

offlineRestoreOrder == <<"swapped", "apps_paused", "unit-started", "bundles_written", "files_promoted",
                         "databases_restored", "apps_resumed", "attaching", "completed">>
stageIndex(s) == IF \E i \in DOMAIN offlineRestoreOrder : offlineRestoreOrder[i] = s
                 THEN CHOOSE i \in DOMAIN offlineRestoreOrder : offlineRestoreOrder[i] = s
                 ELSE 0
Before(s) == stageIndex(jour.stage) < stageIndex(s)

RecInit ==
    /\ selected \in Selections
    /\ jour = NoJournal /\ rec = NoExec /\ applies = <<>> /\ index = "none"
    /\ live = [f \in Range1(SwapFiles) |-> IF f \in Originals THEN "old" ELSE "none"]
    /\ keep = [f \in Range1(SwapFiles) |-> FALSE]
    /\ marker = {} /\ pauseRow = {} /\ running = Carried
    /\ data = [b \in Carried |-> [p \in Parts(b) |-> "old"]]
    /\ omahabd = "up" /\ handoffPhrase = FALSE /\ sourceRows \in {0, 1} /\ setupState = "none"
    /\ faultsLeft = RecFaults

RecFault == faultsLeft > 0 /\ faultsLeft' = faultsLeft - 1
Persist(s) == jour' = [jour EXCEPT !.stage = s]

\* offlineFailRestore: the stage stays, the operation is failed; the unit's
\* ExecStopPost starts the daemon, the command line only what it stopped.
EndExec ==
    /\ rec' = NoExec
    /\ omahabd' = IF rec.by = "unit" \/ rec.hadDaemon THEN "up" ELSE omahabd
offlineFailRestore ==
    /\ jour' = [jour EXCEPT !.status = "failed"]
    /\ setupState' = "failed" /\ EndExec

(***************************************************************************)
(* Staging: no live path is touched.                                       *)
(***************************************************************************)
\* PrepareRecoveryRestore: listing, extraction and validation in the daemon;
\* a failed operation cannot be resumed and the panel stages another one.
PrepareRecoveryRestore ==
    /\ omahabd = "up" /\ rec.at = "off" /\ jour = NoJournal /\ "unit" \in Ways
    /\ \/ /\ jour' = [stage |-> "staged", status |-> "completed", resume |-> FALSE, apply |-> 0]
          /\ setupState' = "in_progress" /\ UNCHANGED faultsLeft
       \/ RecFault /\ jour' = NoJournal /\ setupState' = "failed"
    /\ UNCHANGED <<swapVars, appVars, applies, rec, omahabd, handoffPhrase, sourceRows, selected>>

\* StageOfflineRecoverySnapshot of the command line: a new operation, or one
\* whose extraction was interrupted.
StageOfflineRecoverySnapshot ==
    /\ rec.at = "off" /\ "cli" \in Ways
    /\ jour = NoJournal \/ jour.stage \in {"listing", "staging"}
    /\ jour' = [stage |-> "listing", status |-> "running", resume |-> jour.resume, apply |-> 0]
    /\ setupState' = "in_progress"
    /\ rec' = [NoExec EXCEPT !.at = "extract", !.by = "cli"]
    /\ UNCHANGED <<swapVars, appVars, applies, omahabd, handoffPhrase, sourceRows, faultsLeft, selected>>

offlineStageAndValidate ==
    /\ rec.at = "extract"
    /\ \/ jour' = [jour EXCEPT !.stage = "staged", !.status = "completed"] /\ UNCHANGED <<setupState, faultsLeft>>
       \/ RecFault /\ jour' = [jour EXCEPT !.stage = "staging", !.status = "failed"] /\ setupState' = "failed"
    /\ rec' = NoExec
    /\ UNCHANGED <<swapVars, appVars, applies, omahabd, handoffPhrase, sourceRows, selected>>

(***************************************************************************)
(* Dispatch.                                                               *)
(***************************************************************************)
\* Mutated form: a failed operation is not found again.
UnfinishedUnlessFailed == \/ jour.stage = "staged" /\ jour.status = "completed"
                          \/ jour.status \in {"running", "pending"}
\* offlineOperationUnfinished and the search of the command line.
Unfinished == \/ jour.stage = "staged" /\ jour.status = "completed"
              \/ jour.status \in {"running", "pending"}
              \/ jour.status = "failed" /\ jour.resume
Runnable == Unfinished /\ jour.stage \notin {"none", "listing", "staging", "completed"}

\* The phrase goes through a tmpfs file and the journal says pending before
\* systemd is asked.
TriggerRecoveryRestoreUnit ==
    /\ omahabd = "up" /\ rec.at = "off" /\ "unit" \in Ways
    /\ (jour.stage = "staged" /\ jour.status = "completed") \/ jour.resume
    /\ jour.stage # "completed"
    /\ \/ /\ jour' = [jour EXCEPT !.status = "pending", !.resume = TRUE] /\ handoffPhrase' = TRUE
          /\ rec' = [NoExec EXCEPT !.at = "handoff", !.by = "unit"] /\ UNCHANGED faultsLeft
       \/ /\ RecFault /\ jour' = [jour EXCEPT !.status = "failed", !.resume = TRUE]
          /\ UNCHANGED <<rec, handoffPhrase>>
    /\ UNCHANGED <<swapVars, appVars, applies, omahabd, sourceRows, setupState, selected>>

\* ExecStartPre has stopped the daemon; the file is removed before it is used.
readPhraseHandoffCLI ==
    /\ rec.at = "handoff"
    /\ omahabd' = IF handoffPhrase THEN "down" ELSE "up"
    /\ handoffPhrase' = FALSE
    /\ rec' = IF handoffPhrase THEN [rec EXCEPT !.at = "load"] ELSE NoExec
    /\ UNCHANGED <<jour, swapVars, appVars, applies, sourceRows, setupState, faultsLeft, selected>>

\* An apply of the shell: it stops a running daemon, and remembers that it did.
RecoveryApplyCmd ==
    /\ rec.at = "off" /\ "cli" \in Ways /\ Runnable
    /\ rec' = [NoExec EXCEPT !.at = "load", !.by = "cli", !.hadDaemon = omahabd = "up"]
    /\ omahabd' = "down"
    /\ UNCHANGED <<jour, swapVars, appVars, applies, handoffPhrase, sourceRows, setupState, faultsLeft, selected>>

(***************************************************************************)
(* The executor.                                                           *)
(***************************************************************************)
\* Where a run goes on after the swap, from a stage of the journal.
NextWork(stage) ==
    LET before(s) == stageIndex(stage) < stageIndex(s) IN
    IF before("apps_paused") /\ Paused # {} THEN "pause"
    ELSE IF before("unit-started") /\ Paused # {} THEN "daemon"
    ELSE IF before("bundles_written") /\ Paused # {} THEN "identity"
    ELSE IF before("files_promoted") /\ AppScopes # {} THEN "files"
    ELSE IF before("databases_restored") /\ AppScopes \cap Databases # {} THEN "databases"
    ELSE IF before("apps_resumed") /\ Paused # {} THEN "resume"
    ELSE "attach"
Reach(stage) == Persist(stage) /\ rec' = [rec EXCEPT !.at = NextWork(stage), !.todo = {}]

\* A journal at swapping or rolling_back undoes what the rollback directory records.
SwapEntry == IF jour.stage \in {"swapping", "rolling_back"} THEN "undo" ELSE "plan"

RunOfflineRecoveryRestore ==
    /\ rec.at = "load"
    /\ jour' = [jour EXCEPT !.status = "running", !.resume = TRUE]
    /\ rec' = [rec EXCEPT !.at = IF Before("swapped") THEN SwapEntry ELSE NextWork(jour.stage),
                          !.i = IF Before("swapped") /\ SwapEntry = "undo" THEN Len(SwapFiles) ELSE 0]
    /\ UNCHANGED <<swapVars, appVars, applies, sideVars, faultsLeft>>

\* Mutated form: a path without a preserved copy is taken for one the swap created.
ToRemoveBlind(f) == TRUE
\* What the rollback removes: a path whose copy is preserved, and one the
\* machine did not have.
ToRemove(f) == keep[f] \/ f \notin Originals

\* RollbackServerConfigSwap, one path at a time in reverse order.  Without an
\* index nothing was touched; an index that does not parse is an error, and the
\* directory stays.  A tree is removed entry by entry, and a preserved one is
\* then renamed back (its directory is on the file system of the state).
RollbackServerConfigSwap ==
    /\ rec.at \in {"undo", "rollback"}
    /\ IF index = "torn" THEN offlineFailRestore /\ UNCHANGED swapVars
       ELSE IF rec.i = 0 \/ index # "written"
       THEN /\ index' = "none" /\ UNCHANGED <<live, keep>>
            /\ IF rec.at = "undo" THEN rec' = [rec EXCEPT !.at = "plan", !.i = 0] /\ UNCHANGED <<jour, setupState, omahabd>>
                                  ELSE offlineFailRestore
       ELSE LET f == SwapFiles[rec.i] IN
            /\ IF ToRemove(f) /\ live[f] # "none"
               THEN /\ live' = [live EXCEPT ![f] = IF @ = "part" THEN "none" ELSE "part"]
                    /\ UNCHANGED <<keep, rec>>
               ELSE /\ live' = [live EXCEPT ![f] = IF keep[f] THEN "old" ELSE @]
                    /\ keep' = [keep EXCEPT ![f] = FALSE]
                    /\ rec' = [rec EXCEPT !.i = @ - 1]
            /\ UNCHANGED <<index, jour, setupState, omahabd>>
    /\ UNCHANGED <<appVars, applies, handoffPhrase, sourceRows, faultsLeft, selected>>

\* The key is unwrapped and the plan made before the stage is written, and the
\* stage before anything moves.
PlanServerConfigSwap ==
    /\ rec.at = "plan" /\ Persist("swapping")
    /\ rec' = [rec EXCEPT !.at = "index", !.i = 0]
    /\ UNCHANGED <<swapVars, appVars, applies, sideVars, faultsLeft>>

\* A rollback directory that is still there is undone first; then it is made, and
\* in it the index is created, written and synced before anything moves.
WriteRollbackIndex ==
    /\ rec.at = "index"
    /\ CASE rec.i = 0 /\ index # "none" -> rec' = [rec EXCEPT !.at = "undo", !.i = Len(SwapFiles)] /\ UNCHANGED index
         [] rec.i = 0 /\ index = "none" -> index' = "dir" /\ rec' = [rec EXCEPT !.i = 1]
         [] rec.i = 1 -> index' = "torn" /\ rec' = [rec EXCEPT !.i = 2]
         [] OTHER -> index' = "written" /\ rec' = [rec EXCEPT !.at = "swap", !.i = 1]
    /\ UNCHANGED <<jour, live, keep, appVars, applies, sideVars, faultsLeft>>

\* ApplyServerConfigSwap fails before anything moved and returns no rollback:
\* the journal says rolling_back and the directory stays as it is.
IndexFails ==
    /\ rec.at = "index" /\ RecFault
    /\ jour' = [jour EXCEPT !.stage = "rolling_back", !.status = "failed"]
    /\ setupState' = "failed" /\ EndExec
    /\ index' \in IF index = "torn" THEN {"torn", "written"} ELSE {index}
    /\ UNCHANGED <<live, keep, appVars, applies, handoffPhrase, sourceRows, selected>>

\* swapOneFile: the live path is moved aside, then the staged one is copied in.
swapOneFile ==
    /\ rec.at = "swap" /\ rec.i <= Len(SwapFiles)
    /\ LET f == SwapFiles[rec.i] IN
         CASE live[f] = "old" -> live' = [live EXCEPT ![f] = "none"] /\ keep' = [keep EXCEPT ![f] = TRUE] /\ UNCHANGED rec
           [] live[f] = "none" -> live' = [live EXCEPT ![f] = "part"] /\ UNCHANGED <<keep, rec>>
           [] OTHER -> live' = [live EXCEPT ![f] = "new"] /\ rec' = [rec EXCEPT !.i = @ + 1] /\ UNCHANGED keep
    /\ UNCHANGED <<jour, index, appVars, applies, sideVars, faultsLeft>>

SwapFails ==
    /\ rec.at = "swap" /\ RecFault
    /\ Persist("rolling_back") /\ rec' = [rec EXCEPT !.at = "rollback", !.i = Len(SwapFiles)]
    /\ UNCHANGED <<swapVars, appVars, applies, sideVars>>

Swapped ==
    /\ rec.at = "swap" /\ rec.i > Len(SwapFiles)
    /\ Reach("swapped")
    /\ UNCHANGED <<swapVars, appVars, applies, sideVars, faultsLeft>>

\* One bundle: marker, row in the restored database, then its units stop.
offlinePauseAppWriters ==
    /\ rec.at = "pause"
    /\ IF rec.todo = Paused THEN /\ Reach("apps_paused") /\ UNCHANGED appVars
       ELSE \E b \in Paused \ rec.todo :
              /\ IF b \notin marker THEN marker' = marker \cup {b} /\ UNCHANGED <<pauseRow, running, rec>>
                 ELSE /\ pauseRow' = pauseRow \cup {b} /\ running' = running \ {b}
                      /\ rec' = [rec EXCEPT !.todo = @ \cup {b}] /\ UNCHANGED marker
              /\ UNCHANGED <<data, jour>>
    /\ UNCHANGED <<swapVars, applies, sideVars, faultsLeft>>

StartDaemon ==
    /\ rec.at = "daemon"
    /\ omahabd' = "up" /\ Reach("unit-started")
    /\ UNCHANGED <<swapVars, appVars, applies, handoffPhrase, sourceRows, setupState, faultsLeft, selected>>

\* offlineRsyncInto: a copy that is cut off leaves the destination in between.
Rsync(b) == data' = [data EXCEPT ![b]["files"] = IF @ = "old" THEN "part" ELSE "new"]

\* The identity checkpoint, then the definitions of custom bundles, which are
\* rewritten identically by a second run.
offlinePromoteIdentity ==
    /\ rec.at = "identity"
    /\ IF rec.todo = IdentityScope
       THEN rec' = [rec EXCEPT !.at = "dispatch", !.todo = {}] /\ UNCHANGED data
       ELSE /\ Rsync(Identity)
            /\ rec' = IF data'[Identity]["files"] = "new" THEN [rec EXCEPT !.todo = IdentityScope] ELSE rec
    /\ UNCHANGED <<jour, swapVars, marker, pauseRow, running, applies, sideVars, faultsLeft>>

\* A new apply is staged, journaled and only then started; a journaled one that
\* failed is staged afresh, one without an outcome is started again.
DispatchApply ==
    /\ rec.at = "dispatch"
    /\ IF jour.apply = 0 \/ applies[jour.apply] = "failed"
       THEN /\ applies' = Append(applies, "staged")
            /\ rec' = [rec EXCEPT !.at = "note", !.fresh = TRUE]
       ELSE /\ applies' = IF applies[jour.apply] = "staged" THEN [applies EXCEPT ![jour.apply] = "running"] ELSE applies
            /\ rec' = [rec EXCEPT !.at = "wait", !.fresh = FALSE]
    /\ UNCHANGED <<jour, swapVars, appVars, sideVars, faultsLeft>>

JournalApply ==
    /\ rec.at = "note"
    /\ jour' = [jour EXCEPT !.apply = Len(applies)] /\ rec' = [rec EXCEPT !.at = "start"]
    /\ UNCHANGED <<swapVars, appVars, applies, sideVars, faultsLeft>>

startStagedBundleApply ==
    /\ rec.at = "start"
    /\ applies' = [applies EXCEPT ![jour.apply] = "running"] /\ rec' = [rec EXCEPT !.at = "wait"]
    /\ UNCHANGED <<jour, swapVars, appVars, sideVars, faultsLeft>>

\* The outcome file; an apply inherited from a killed run that failed is
\* retried once through a fresh staging.
offlineWaitBundleApply ==
    /\ rec.at = "wait" /\ applies[jour.apply] \in {"completed", "failed"}
    /\ CASE applies[jour.apply] = "completed" ->
              Reach("bundles_written") /\ UNCHANGED <<applies, setupState, omahabd>>
         [] applies[jour.apply] = "failed" /\ ~rec.fresh ->
              /\ applies' = Append(applies, "staged")
              /\ rec' = [rec EXCEPT !.at = "note", !.fresh = TRUE] /\ UNCHANGED <<jour, setupState, omahabd>>
         [] OTHER -> offlineFailRestore /\ UNCHANGED applies
    /\ UNCHANGED <<swapVars, appVars, handoffPhrase, sourceRows, faultsLeft, selected>>

\* omahab-bundle-apply.service: it succeeds or rolls back, and starts what is
\* not gated.
ApplyEnds ==
    /\ \E a \in DOMAIN applies :
          /\ applies[a] = "running"
          /\ \/ applies' = [applies EXCEPT ![a] = "completed"] /\ running' = running \cup (Carried \ marker) /\ UNCHANGED faultsLeft
             \/ RecFault /\ applies' = [applies EXCEPT ![a] = "failed"] /\ UNCHANGED running
    /\ UNCHANGED <<jour, swapVars, marker, pauseRow, data, rec, sideVars>>

offlinePromoteFiles ==
    /\ rec.at = "files"
    /\ IF rec.todo = AppScopes THEN Reach("files_promoted") /\ UNCHANGED data
       ELSE \E b \in AppScopes \ rec.todo :
              /\ Rsync(b) /\ UNCHANGED jour
              /\ rec' = IF data'[b]["files"] = "new" THEN [rec EXCEPT !.todo = @ \cup {b}] ELSE rec
    /\ UNCHANGED <<swapVars, marker, pauseRow, running, applies, sideVars, faultsLeft>>

\* pg_restore --clean: until it ends the database is neither old nor new.
offlineRestoreDatabases ==
    /\ rec.at = "databases"
    /\ IF rec.todo = AppScopes \cap Databases THEN Reach("databases_restored") /\ UNCHANGED data
       ELSE \E b \in (AppScopes \cap Databases) \ rec.todo :
              /\ data' = [data EXCEPT ![b]["db"] = IF @ = "part" THEN "new" ELSE "part"] /\ UNCHANGED jour
              /\ rec' = IF data'[b]["db"] = "new" THEN [rec EXCEPT !.todo = @ \cup {b}] ELSE rec
    /\ UNCHANGED <<swapVars, marker, pauseRow, running, applies, sideVars, faultsLeft>>

ResumeStage == rec.at = "resume"

\* All gates are cleared first, then the units start and their health is awaited.
offlineResumeAppWriters ==
    /\ ResumeStage
    /\ IF Paused \cap (marker \cup pauseRow) # {}
       THEN \E b \in Paused \cap (marker \cup pauseRow) :
              marker' = marker \ {b} /\ pauseRow' = pauseRow \ {b} /\ UNCHANGED <<running, jour, rec>>
       ELSE /\ running' = running \cup Paused /\ UNCHANGED <<marker, pauseRow>>
            /\ Reach("apps_resumed")
    /\ UNCHANGED <<data, swapVars, applies, sideVars, faultsLeft>>

\* Mutated form: the repository is added without looking for the restored row.
AttachedRowBlind == sourceRows + 1
\* A restored row at the location is reconfigured in place.
AttachedRow == IF sourceRows = 0 THEN 1 ELSE sourceRows

\* The row and its secret, then the completed stage.
offlineAttachSourceRepository ==
    /\ rec.at = "attach"
    /\ sourceRows' = AttachedRow
    /\ rec' = [rec EXCEPT !.at = "complete"]
    /\ UNCHANGED <<jour, swapVars, appVars, applies, omahabd, handoffPhrase, setupState, faultsLeft, selected>>

Completed ==
    /\ rec.at = "complete"
    /\ jour' = [jour EXCEPT !.stage = "completed", !.status = "completed", !.resume = FALSE]
    /\ setupState' = "completed" /\ EndExec
    /\ UNCHANGED <<swapVars, appVars, applies, handoffPhrase, sourceRows, faultsLeft, selected>>

\* Any other step of the executor returns an error.
StepFails ==
    /\ rec.at \notin {"off", "extract", "handoff", "load", "index", "swap"} /\ RecFault
    /\ offlineFailRestore
    /\ UNCHANGED <<swapVars, appVars, applies, handoffPhrase, sourceRows, selected>>

\* The process is killed: systemd runs ExecStopPost, nobody acts for the shell.
ExecutorKilled ==
    /\ rec.at # "off" /\ RecFault
    /\ rec' = NoExec /\ omahabd' = IF rec.by = "unit" THEN "up" ELSE omahabd
    /\ UNCHANGED <<jour, swapVars, appVars, applies, handoffPhrase, sourceRows, setupState, selected>>

\* The tmpfs is wiped, what is not gated starts, and so does the daemon; an
\* apply that was running has no outcome and is not running any more.
PowerCut ==
    /\ RecFault
    /\ rec' = NoExec /\ omahabd' = "up" /\ handoffPhrase' = FALSE
    /\ running' = Carried \ marker
    /\ applies' = [a \in DOMAIN applies |-> IF applies[a] = "running" THEN "staged" ELSE applies[a]]
    /\ UNCHANGED <<jour, swapVars, marker, pauseRow, data, sourceRows, setupState, selected>>

ExecutorStep ==
    \/ offlineStageAndValidate \/ readPhraseHandoffCLI \/ RunOfflineRecoveryRestore
    \/ RollbackServerConfigSwap \/ PlanServerConfigSwap \/ WriteRollbackIndex \/ swapOneFile
    \/ Swapped \/ offlinePauseAppWriters \/ StartDaemon \/ offlinePromoteIdentity
    \/ DispatchApply \/ JournalApply \/ startStagedBundleApply \/ offlineWaitBundleApply
    \/ offlinePromoteFiles \/ offlineRestoreDatabases \/ offlineResumeAppWriters
    \/ offlineAttachSourceRepository \/ Completed
OperatorStep ==
    \/ PrepareRecoveryRestore \/ StageOfflineRecoverySnapshot
    \/ TriggerRecoveryRestoreUnit \/ RecoveryApplyCmd
RecNext == ExecutorStep \/ OperatorStep \/ ApplyEnds \/ IndexFails \/ SwapFails \/ StepFails \/ ExecutorKilled \/ PowerCut

\* The executor runs until it ends, the apply unit too, and the operator runs
\* an unfinished restore again.
RecFairness == WF_recVars(ExecutorStep) /\ WF_recVars(OperatorStep) /\ WF_recVars(ApplyEnds)
RecSpec == RecInit /\ [][RecNext]_recVars /\ RecFairness

(***************************************************************************)
(* Properties.                                                             *)
(***************************************************************************)
\* "Kept until the whole restore completes": until the journal says swapped,
\* whatever failed or was cut off, every path the machine had is in place or in
\* a rollback directory whose index is written, and a path it did not have is
\* only there while that index says so (ApplyServerConfigSwap and its rollback).
SwapIsReversible ==
    Before("swapped") =>
       \A f \in Range1(SwapFiles) :
          /\ f \in Originals => live[f] = "old" \/ keep[f]
          /\ live[f] # (IF f \in Originals THEN "old" ELSE "none") => index = "written"

\* A completed restore is whole: every path and every selected payload is the
\* snapshot's, nothing is left paused, and one row names the source repository.
CompletedIsWhole ==
    jour.stage = "completed" =>
       /\ \A f \in Range1(SwapFiles) : live[f] = "new"
       /\ \A b \in Paused : \A p \in Parts(b) : data[b][p] = "new"
       /\ \A b \in Carried \ Paused : \A p \in Parts(b) : data[b][p] = "old"
       /\ Paused \cap (marker \cup pauseRow) = {} /\ Paused \subseteq running
       /\ sourceRows = 1

\* "An interrupted apply is resumable": however often it fails or is cut off,
\* an operator who runs it again gets it completed.  Excepted is the failure or
\* the cut while the rollback index is being written: an index that is there
\* and does not parse stops every later run.
RecoveryConverges == <>(jour.stage = "completed") \/ <>[](index = "torn")

\* "Both journals sort before swapped, so re-entry always converges here": the
\* same without the exception.  It does not hold.
ReentryConverges == <>(jour.stage = "completed")

=============================================================================
