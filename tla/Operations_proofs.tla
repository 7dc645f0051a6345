-------------------------- MODULE Operations_proofs --------------------------
(***************************************************************************)
(* Proofs about the journaled operations of the server: what a live        *)
(* restore leaves when it fails (LiveRestore), and what a storage move     *)
(* puts into the boot mapping (StorageMigration).                          *)
(***************************************************************************)
EXTENDS LiveRestore, StorageMigration, TLAPS

-----------------------------------------------------------------------------
(* Live restore: types.                                                     *)

\* The journal a worker or a handler writes is a journal.
LEMMA NoneIsAJournal == None \in RestoreJournal
PROOF BY RestoreBoundsAssumption DEF None, RestoreJournal, RestoreStatus, Stage, ApplyId

\* So are the forms the code gives one.
LEMMA JournalForms ==
    ASSUME NEW r \in RestoreJournal
    PROVE  /\ RestoreFailed(r) \in RestoreJournal
           /\ [r EXCEPT !.staging = TRUE] \in RestoreJournal
           /\ \A s \in Stage : /\ [r EXCEPT !.stage = s] \in RestoreJournal
                              /\ [r EXCEPT !.staging = TRUE, !.stage = s] \in RestoreJournal
                              /\ \A a \in ApplyId :
                                    [r EXCEPT !.apply = a, !.stage = s, !.canResume = TRUE]
                                       \in RestoreJournal
                              /\ \A t \in RestoreStatus :
                                    /\ [r EXCEPT !.stage = s, !.status = t] \in RestoreJournal
                                    /\ [r EXCEPT !.status = t, !.stage = s] \in RestoreJournal
                                    /\ [r EXCEPT !.status = t, !.stage = s, !.canResume = FALSE,
                                                 !.canRollback = FALSE] \in RestoreJournal
           /\ \A t \in RestoreStatus : /\ [r EXCEPT !.status = t] \in RestoreJournal
                                      /\ [r EXCEPT !.status = t, !.canResume = FALSE]
                                            \in RestoreJournal
PROOF
  <1> USE DEF RestoreJournal, Stage, RestoreStatus
  <1>1. RestoreFailed(r) \in RestoreJournal
    BY DEF RestoreFailed
  <1>2. \A s \in Stage : /\ [r EXCEPT !.stage = s] \in RestoreJournal
                        /\ [r EXCEPT !.staging = TRUE, !.stage = s] \in RestoreJournal
    OBVIOUS
  <1>3. ASSUME NEW s \in Stage, NEW a \in ApplyId
        PROVE  [r EXCEPT !.apply = a, !.stage = s, !.canResume = TRUE] \in RestoreJournal
    OBVIOUS
  <1>4. ASSUME NEW s \in Stage, NEW t \in RestoreStatus
        PROVE  /\ [r EXCEPT !.stage = s, !.status = t] \in RestoreJournal
               /\ [r EXCEPT !.status = t, !.stage = s] \in RestoreJournal
    OBVIOUS
  <1>5. ASSUME NEW s \in Stage, NEW t \in RestoreStatus
        PROVE  [r EXCEPT !.status = t, !.stage = s, !.canResume = FALSE,
                         !.canRollback = FALSE] \in RestoreJournal
    OBVIOUS
  <1>6. [r EXCEPT !.staging = TRUE] \in RestoreJournal
    OBVIOUS
  <1>7. ASSUME NEW t \in RestoreStatus
        PROVE  /\ [r EXCEPT !.status = t] \in RestoreJournal
               /\ [r EXCEPT !.status = t, !.canResume = FALSE] \in RestoreJournal
    OBVIOUS
  <1> HIDE DEF RestoreJournal, Stage, RestoreStatus
  <1> QED BY <1>1, <1>2, <1>3, <1>4, <1>5, <1>6, <1>7, Zenon

\* The initial state has the types of the restore.
LEMMA RestoreTypesInit == RestoreInit => RestoreTypeOK
PROOF
  <1> SUFFICES ASSUME RestoreInit PROVE RestoreTypeOK
    OBVIOUS
  <1>1. tree = FALSE /\ waited = 0 /\ 0 \in ApplyId
    BY RestoreBoundsAssumption DEF RestoreInit, ApplyId
  <1>2. /\ restoreJournal \in RestoreJournal /\ j \in RestoreJournal /\ ack \in RestoreJournal
        /\ plan \subseteq Dest /\ queue \subseteq RestoreKind /\ workerKind \in RestoreKind
        /\ at \in WorkerAt
    BY NoneIsAJournal DEF RestoreInit, WorkerAt, RestoreKind
  <1>3. tree \in BOOLEAN
    BY <1>1
  <1>4. /\ deployed \in Deployment /\ liveData \in [Dest -> Content]
        /\ safety \in [Dest -> Content \cup {"none"}]
        /\ pausedApps \subseteq RestoreBundle /\ running \subseteq Installed
        /\ applyOutcome \in [ApplyId -> {"none", "running", "completed", "failed"}]
    BY DEF RestoreInit, Content, RestoreDesired, Installed
  <1>5. /\ requests \in 0 .. MaxRequests /\ restoreFaults \in 0 .. RestoreFaults
        /\ deaths \in 0 .. MaxDeaths
    BY RestoreBoundsAssumption DEF RestoreInit
  <1> QED BY <1>1, <1>2, <1>3, <1>4, <1>5, Zenon DEF RestoreTypeOK

\* Every step keeps the types of the restore.
LEMMA RestoreTypesStep ==
    RestoreTypeOK /\ [RestoreNext]_restoreVars => RestoreTypeOK'
PROOF
  <1> SUFFICES ASSUME RestoreTypeOK, [RestoreNext]_restoreVars PROVE RestoreTypeOK'
    OBVIOUS
  <1> USE NoneIsAJournal, RestoreBoundsAssumption
      DEF RestoreTypeOK, Content, Dest, WorkerAt, RestoreKind, restoreData, appData, worker
  <1>a. deployed \in [installed : SUBSET RestoreBundle, desired : SUBSET RestoreBundle]
    BY DeploymentAssumption
  <1>b. 0 \in ApplyId
    BY DEF ApplyId
  <1> USE <1>b
  <1>c. RestoreDesired \subseteq Installed /\ Installed \subseteq RestoreBundle
    BY <1>a DEF RestoreDesired, Installed
  <1>d. Asks => requests' \in 0 .. MaxRequests
    BY DEF Asks
  <1>e. RestoreFault => restoreFaults' \in 0 .. RestoreFaults
    BY DEF RestoreFault
  <1>f. "dismissed" \in RestoreStatus /\ "running" \in RestoreStatus
        /\ "rolling_back" \in RestoreStatus /\ "rolled_back" \in RestoreStatus
        /\ "preflight" \in Stage /\ "rolled_back" \in Stage /\ "bundles_written" \in Stage
        /\ "validating" \in Stage
    BY DEF RestoreStatus, Stage
  <1>1. CASE UNCHANGED restoreVars
    BY <1>1 DEF restoreVars, Installed
  <1>2. CASE UNCHANGED deployed /\ StartLiveRestore
    BY <1>2, JournalForms, <1>f DEF StartLiveRestore, Installed
  <1>3. CASE UNCHANGED deployed /\ RequestResume
    BY <1>3, JournalForms, <1>d, <1>f DEF RequestResume, ResumeKind, RestoreStatus, Installed
  <1>4. CASE UNCHANGED deployed /\ RequestRollback
    BY <1>4, JournalForms, <1>d, <1>f DEF RequestRollback, RestoreStatus, Installed
  <1>5. CASE UNCHANGED deployed /\ AckRollback
    BY <1>5 DEF AckRollback, Installed
  <1>6. CASE UNCHANGED deployed /\ DismissRestore
    BY <1>6, <1>f, JournalForms DEF DismissRestore, Installed
  <1>7. CASE UNCHANGED deployed /\ ApplyEnds
    BY <1>7, <1>e DEF ApplyEnds, Installed
  <1>8. CASE UNCHANGED deployed /\ DaemonDies
    BY <1>8 DEF DaemonDies, NoWorker, HalfBack, Installed
  <1>9. CASE UNCHANGED deployed /\ (\E k \in RestoreKind : Acquire(k))
    BY <1>9 DEF Acquire, Installed
  <1>10. CASE UNCHANGED deployed /\ LoadLive
    BY <1>10 DEF LoadLive, WorkerGoto, Installed
  <1>11. CASE UNCHANGED deployed /\ LoadStaging
    BY <1>11, JournalForms DEF LoadStaging, WorkerGoto, WriteRestoreJournal, Installed
  <1>12. CASE UNCHANGED deployed /\ NoStagingDir
    BY <1>12, JournalForms, <1>e DEF NoStagingDir, FailRestore, WorkerEnds, NoWorker, WorkerGoto, Installed
  <1>13. CASE UNCHANGED deployed /\ Extract
    BY <1>13, JournalForms DEF Extract, WorkerGoto, WriteRestoreJournal, Stage, Installed
  <1>14. CASE UNCHANGED deployed /\ ExtractFails
    BY <1>14, JournalForms, <1>e DEF ExtractFails, FailRestore, WorkerEnds, NoWorker, WorkerGoto, Installed
  <1>15. CASE UNCHANGED deployed /\ Staged
    BY <1>15, JournalForms DEF Staged, WorkerEnds, NoWorker, Stage, RestoreStatus, Installed
  <1>16. CASE UNCHANGED deployed /\ SaveSafety
    <2>1. SaveStage \in RestoreJournal
      BY JournalForms DEF SaveStage, Stage
    <2> QED BY <1>16, <2>1 DEF SaveSafety, WorkerGoto, WriteRestoreJournal, Installed
  <1>17. CASE UNCHANGED deployed /\ SaveSafetyFails
    BY <1>17, JournalForms, <1>e DEF SaveSafetyFails, FailRestore, WorkerEnds, NoWorker, WorkerGoto, Installed
  <1>18. CASE UNCHANGED deployed /\ PauseAll
    BY <1>18, JournalForms DEF PauseAll, WorkerGoto, WriteRestoreJournal, Stage, Installed
  <1>19. CASE UNCHANGED deployed /\ PauseFails
    BY <1>19, <1>e DEF PauseFails, WorkerGoto, Installed
  <1>20. CASE UNCHANGED deployed /\ BundlesWritten
    BY <1>20, JournalForms DEF BundlesWritten, WorkerGoto, WriteRestoreJournal, Stage, Installed
  <1>21. CASE UNCHANGED deployed /\ StageApply
    BY <1>21, <1>f, JournalForms DEF StageApply, Wait, Installed
  <1>22. CASE UNCHANGED deployed /\ AwaitStagedApply
    BY <1>22 DEF AwaitStagedApply, Wait, RestoreJournal, Installed
  <1>23. CASE UNCHANGED deployed /\ ApplyFails
    BY <1>23 DEF ApplyFails, WorkerGoto, Installed
  <1>24. CASE UNCHANGED deployed /\ PromoteStagedFiles
    BY <1>24, JournalForms DEF PromoteStagedFiles, Promote, WorkerGoto, WriteRestoreJournal, Stage, Installed
  <1>25. CASE UNCHANGED deployed /\ RestoreSelectedDatabases
    BY <1>25, JournalForms DEF RestoreSelectedDatabases, Promote, WorkerGoto, WriteRestoreJournal, Stage, Installed
  <1>26. CASE UNCHANGED deployed /\ (\E d \in Dest : PromoteFails(d))
    BY <1>26, <1>e DEF PromoteFails, WorkerGoto, Installed
  <1>27. CASE UNCHANGED deployed /\ CheckSecrets
    <2>1. /\ restoreJournal' \in RestoreJournal /\ j' \in RestoreJournal
          /\ restoreFaults' \in 0 .. RestoreFaults /\ at' \in {"resume", "undo"}
          /\ UNCHANGED <<workerKind, waited>>
      <3>1. [j EXCEPT !.stage = "validating"] \in RestoreJournal
        BY JournalForms, <1>f
      <3>2. RestoreFault => restoreFaults' \in 0 .. RestoreFaults
        BY <1>e
      <3> QED BY <1>27, <3>1, <3>2 DEF CheckSecrets, WorkerGoto, WriteRestoreJournal
    <2> QED BY <1>27, <2>1 DEF CheckSecrets, Installed
  <1>28. CASE UNCHANGED deployed /\ Restart
    BY <1>28, <1>c DEF Restart, ResumeRestoreApps, WorkerGoto, Installed
  <1>29. CASE UNCHANGED deployed /\ HealthFails
    BY <1>29 DEF HealthFails, WorkerGoto, Installed
  <1>30. CASE UNCHANGED deployed /\ Complete
    BY <1>30, JournalForms DEF Complete, WorkerEnds, NoWorker, Stage, RestoreStatus, Installed
  <1>31. CASE UNCHANGED deployed /\ LoadRollback
    BY <1>31, JournalForms DEF LoadRollback, FailRestore, WorkerEnds, NoWorker, WorkerGoto, Installed
  <1>32. CASE UNCHANGED deployed /\ Undo
    BY <1>32 DEF Undo, SafetyGone, RestoreSafety, WorkerGoto, Installed
  <1>33. CASE UNCHANGED deployed /\ UndoFails
    <2>1. /\ liveData' \in [Dest -> Content] /\ restoreFaults' \in 0 .. RestoreFaults
      BY <1>33, <1>e DEF UndoFails, HalfBack
    <2> QED BY <1>33, <2>1, JournalForms
         DEF UndoFails, FailRestore, WorkerEnds, NoWorker, WorkerGoto, Installed
  <1>34. CASE UNCHANGED deployed /\ UndoResume
    <2>1. /\ restoreJournal' \in RestoreJournal /\ j' \in RestoreJournal
          /\ at' = "idle" /\ workerKind' = "live" /\ plan' = {} /\ waited' = 0
      <3> DEFINE back == [j EXCEPT !.status = "rolled_back", !.stage = "rolled_back",
                                   !.canResume = FALSE, !.canRollback = FALSE]
      <3>1. back \in RestoreJournal /\ RestoreFailed(j) \in RestoreJournal
        <4>1. j \in RestoreJournal
          OBVIOUS
        <4>2. RestoreFailed(j) \in RestoreJournal
          BY <4>1, JournalForms
        <4>3. back \in RestoreJournal
          BY <4>1, <1>f DEF RestoreJournal
        <4> QED BY <4>2, <4>3
      <3>2. \/ FailRestore(j)
            \/ WorkerEnds(back)
        BY <1>34 DEF UndoResume
      <3> HIDE DEF back
      <3> QED BY <3>1, <3>2 DEF FailRestore, WorkerEnds, NoWorker, WorkerGoto
    <2>2. running' \in {running, running \cup RestoreDesired} /\ pausedApps' \in {pausedApps, {}}
      BY <1>34 DEF UndoResume
    <2> QED BY <1>34, <2>1, <2>2, <1>c DEF UndoResume, Installed
  <1> QED BY <1>1, <1>2, <1>3, <1>4, <1>5, <1>6, <1>7, <1>8, <1>9, <1>10, <1>11, <1>12, <1>13, <1>14, <1>15, <1>16, <1>17, <1>18, <1>19, <1>20, <1>21, <1>22, <1>23, <1>24, <1>25, <1>26, <1>27, <1>28, <1>29, <1>30, <1>31, <1>32, <1>33, <1>34
       DEF RestoreNext, WorkerStep

-----------------------------------------------------------------------------
(* Live restore: half a restore stays paused.                               *)

Stopped == pausedApps = RestoreBundle
Old     == \A d \in Dest : liveData[d] = "old"

\* The worker promotes with every bundle of the operation paused, and restarts
\* after both promotions.
Promoting ==
    /\ at \in {"bundles", "applying", "files", "db", "secrets", "resume", "health"} => Stopped
    /\ at = "db" => liveData["files"] = "new"
    /\ at \in {"secrets", "resume", "health"} => \A d \in Dest : liveData[d] = "new"

\* With an installed application the pause, once complete, is there for good:
\* the proof of health that would clear it refuses paused bundles.
StaysPaused ==
    Installed # {} /\ (\E d \in Dest : Restored(d) \/ safety[d] \in {"new", "torn"})
        => Stopped

\* Before anybody resumes or rolls back there is one pass, and its plan is the
\* safety copy of the old contents.
OnePass ==
    /\ queue \subseteq {"live"} /\ ack = None
    /\ at # "idle" => queue = {} /\ workerKind = "live"
    /\ restoreJournal = None => at = "idle" /\ queue = {}
    /\ (restoreJournal = None \/ queue # {} \/ at \in {"load", "extract", "safety"})
          => Old /\ \A d \in Dest : safety[d] = "none"
    /\ at \in {"pause", "bundles", "applying", "files", "db", "secrets", "resume",
              "health", "undo"} => plan = Dest /\ \A d \in Dest : safety[d] = "old"
    /\ at \in {"pause", "undo_resume"} => Old
    /\ at = "undo" /\ (\E d \in Dest : Restored(d)) => Stopped
    /\ (queue # {} \/ at # "idle") => restoreJournal.status = "running"
    /\ at # "idle" => j.status = "running"
    /\ at = "idle" /\ (\E d \in Dest : Restored(d))
          => Stopped \/ restoreJournal.status # "failed"
    /\ (\E d \in Dest : Restored(d))
          => Stopped \/ \A d \in Dest : liveData[d] = "new"

RestoreInv == /\ RestoreTypeOK
              /\ Promoting /\ StaysPaused /\ (requests = 0 => OnePass)

\* Every step keeps the invariant of the restore.
LEMMA RestoreInvStep == RestoreInv /\ [RestoreNext]_restoreVars => RestoreInv'
PROOF
  <1> SUFFICES ASSUME RestoreInv, [RestoreNext]_restoreVars PROVE RestoreInv'
    OBVIOUS
  <1>a. RestoreTypeOK'
    BY RestoreTypesStep DEF RestoreInv
  <1>b. RestoreTypeOK /\ Promoting /\ StaysPaused /\ (requests = 0 => OnePass)
    BY DEF RestoreInv
  <1>c. Installed \subseteq RestoreBundle
    BY <1>b, DeploymentAssumption DEF RestoreTypeOK, Installed
  <1> SUFFICES (Promoting /\ StaysPaused /\ (requests = 0 => OnePass))'
    BY <1>a DEF RestoreInv
  <1> USE <1>a, <1>b DEF RestoreTypeOK, RestoreJournal, Content, Dest, Promoting, StaysPaused,
          OnePass, Stopped, Old, Restored, restoreData, appData, worker, Installed
  <1>1. CASE UNCHANGED restoreVars
    BY <1>1 DEF restoreVars
  <1>2. CASE UNCHANGED deployed /\ StartLiveRestore
    BY <1>2 DEF StartLiveRestore, None
  <1>3. CASE UNCHANGED deployed /\ RequestResume
    BY <1>3 DEF RequestResume, Asks
  <1>4. CASE UNCHANGED deployed /\ RequestRollback
    BY <1>4 DEF RequestRollback, Asks
  <1>5. CASE UNCHANGED deployed /\ AckRollback
    BY <1>5 DEF AckRollback
  <1>6. CASE UNCHANGED deployed /\ DismissRestore
    BY <1>6 DEF DismissRestore, None
  <1>7. CASE UNCHANGED deployed /\ ApplyEnds
    BY <1>7 DEF ApplyEnds
  <1>8. CASE UNCHANGED deployed /\ DaemonDies
    BY <1>8 DEF DaemonDies, NoWorker, HalfBack
  <1>9. CASE UNCHANGED deployed /\ (\E k \in RestoreKind : Acquire(k))
    BY <1>9 DEF Acquire
  <1>10. CASE UNCHANGED deployed /\ LoadLive
    BY <1>10 DEF LoadLive, WorkerGoto
  <1>11. CASE UNCHANGED deployed /\ LoadStaging
    <2>1. requests = 0 => /\ restoreJournal'.status = "running"
                        /\ j'.status = "running" /\ restoreJournal' # None
      BY <1>11 DEF LoadStaging, None, WriteRestoreJournal
    <2> QED BY <1>11, <2>1 DEF LoadStaging, WorkerGoto
  <1>12. CASE UNCHANGED deployed /\ NoStagingDir
    BY <1>12 DEF NoStagingDir, FailRestore, WorkerEnds, NoWorker, RestoreFailed
  <1>13. CASE UNCHANGED deployed /\ Extract
    <2>1. requests = 0 => /\ restoreJournal'.status = "running"
                        /\ j'.status = "running" /\ restoreJournal' # None
      BY <1>13 DEF Extract, None, WriteRestoreJournal
    <2> QED BY <1>13, <2>1 DEF Extract, WorkerGoto
  <1>14. CASE UNCHANGED deployed /\ ExtractFails
    BY <1>14 DEF ExtractFails, FailRestore, WorkerEnds, NoWorker, RestoreFailed
  <1>15. CASE UNCHANGED deployed /\ Staged
    <2>1. restoreJournal'.status = "completed" /\ restoreJournal' # None
      BY <1>15 DEF Staged, None, WorkerEnds
    <2> QED BY <1>15, <2>1 DEF Staged, WorkerEnds, NoWorker
  <1>16. CASE UNCHANGED deployed /\ SaveSafety
    <2>1. requests = 0 => /\ restoreJournal'.status = "running"
                        /\ j'.status = "running" /\ restoreJournal' # None
      BY <1>16 DEF SaveSafety, None, WriteRestoreJournal, SaveStage
    <2> QED BY <1>16, <2>1 DEF SaveSafety, HasSafety, WorkerGoto
  <1>17. CASE UNCHANGED deployed /\ SaveSafetyFails
    <2>1. restoreJournal'.status = "failed" /\ restoreJournal' # None /\ at' = "idle"
      BY <1>17 DEF SaveSafetyFails, None, FailRestore, WorkerEnds, NoWorker, RestoreFailed
    <2> QED BY <1>17, <2>1 DEF SaveSafetyFails
  <1>18. CASE UNCHANGED deployed /\ PauseAll
    <2>1. requests = 0 => /\ restoreJournal'.status = "running"
                        /\ j'.status = "running" /\ restoreJournal' # None
      BY <1>18 DEF PauseAll, None, WriteRestoreJournal
    <2> QED BY <1>18, <2>1 DEF PauseAll, WorkerGoto
  <1>19. CASE UNCHANGED deployed /\ PauseFails
    BY <1>19, <1>c DEF PauseFails, WorkerGoto
  <1>20. CASE UNCHANGED deployed /\ BundlesWritten
    <2>1. requests = 0 => /\ restoreJournal'.status = "running"
                        /\ j'.status = "running" /\ restoreJournal' # None
      BY <1>20 DEF BundlesWritten, None, WriteRestoreJournal
    <2> QED BY <1>20, <2>1 DEF BundlesWritten, WorkerGoto
  <1>21. CASE UNCHANGED deployed /\ StageApply
    <2>1. requests = 0 => /\ restoreJournal'.status = "running"
                        /\ j' = j /\ restoreJournal' # None
      BY <1>21 DEF StageApply, None
    <2> QED BY <1>21, <2>1 DEF StageApply, Wait
  <1>22. CASE UNCHANGED deployed /\ AwaitStagedApply
    BY <1>22 DEF AwaitStagedApply, Wait
  <1>23. CASE UNCHANGED deployed /\ ApplyFails
    BY <1>23 DEF ApplyFails, WorkerGoto
  <1>24. CASE UNCHANGED deployed /\ PromoteStagedFiles
    <2>1. requests = 0 => /\ restoreJournal'.status = "running"
                        /\ j'.status = "running" /\ restoreJournal' # None
      BY <1>24 DEF PromoteStagedFiles, None, WriteRestoreJournal, Promote
    <2> QED BY <1>24, <2>1 DEF PromoteStagedFiles, Promote, WorkerGoto
  <1>25. CASE UNCHANGED deployed /\ RestoreSelectedDatabases
    <2>1. requests = 0 => /\ restoreJournal'.status = "running"
                        /\ j'.status = "running" /\ restoreJournal' # None
      BY <1>25 DEF RestoreSelectedDatabases, None, WriteRestoreJournal, Promote
    <2> QED BY <1>25, <2>1 DEF RestoreSelectedDatabases, Promote, WorkerGoto
  <1>26. CASE UNCHANGED deployed /\ (\E d \in Dest : PromoteFails(d))
    BY <1>26 DEF PromoteFails, WorkerGoto
  <1>27. CASE UNCHANGED deployed /\ CheckSecrets
    <2>1. requests = 0 => /\ restoreJournal'.status = "running"
                        /\ j'.status = "running" /\ restoreJournal' # None
      BY <1>27 DEF CheckSecrets, None, WriteRestoreJournal
    <2> QED BY <1>27, <2>1 DEF CheckSecrets, WorkerGoto
  <1>28. CASE UNCHANGED deployed /\ Restart
    BY <1>28 DEF Restart, ResumeRestoreApps, WorkerGoto
  <1>29. CASE UNCHANGED deployed /\ HealthFails
    BY <1>29 DEF HealthFails, WorkerGoto
  <1>30. CASE UNCHANGED deployed /\ Complete
    <2>1. restoreJournal'.status = "completed" /\ restoreJournal' # None
      BY <1>30 DEF Complete, None, WorkerEnds
    <2> QED BY <1>30, <2>1, <1>c DEF Complete, HealthRefused, WorkerEnds, NoWorker
  <1>31. CASE UNCHANGED deployed /\ LoadRollback
    BY <1>31 DEF LoadRollback, HasSafety, FailRestore, WorkerEnds, NoWorker, RestoreFailed, WorkerGoto
  <1>32. CASE UNCHANGED deployed /\ Undo
    BY <1>32 DEF Undo, RestoreSafety, WorkerGoto
  <1>33. CASE UNCHANGED deployed /\ UndoFails
    <2>1. restoreJournal'.status = "failed" /\ restoreJournal' # None /\ at' = "idle"
      BY <1>33 DEF UndoFails, None, FailRestore, WorkerEnds, NoWorker, RestoreFailed
    <2> QED BY <1>33, <2>1 DEF UndoFails, HalfBack
  <1>34. CASE UNCHANGED deployed /\ UndoResume
    <2>1. at = "undo_resume" /\ at' = "idle"
          /\ UNCHANGED <<liveData, safety, queue, ack, requests, deployed>>
      BY <1>34 DEF UndoResume, FailRestore, WorkerEnds, NoWorker
    <2>2. requests = 0 => restoreJournal'.status = "failed" /\ restoreJournal' # None
      <3>1. requests = 0 => workerKind = "live"
        BY <2>1
      <3>2. requests = 0 => FailRestore(j)
        BY <1>34, <3>1 DEF UndoResume
      <3>3. requests = 0 => restoreJournal' = RestoreFailed(j)
        BY <3>2, Zenon DEF FailRestore, WorkerEnds
      <3>4. RestoreFailed(j).status = "failed" /\ RestoreFailed(j) # None
        BY DEF None, RestoreFailed
      <3> QED BY <3>3, <3>4, Zenon
    <2>3. \/ pausedApps' = pausedApps
          \/ \A b \in Installed : b \notin pausedApps
      BY <1>34 DEF UndoResume
    <2>4. Promoting'
      BY <2>1
    <2>5. StaysPaused'
      BY <2>1, <2>3, <1>c
    <2>6. requests = 0 => OnePass'
      BY <2>1, <2>2
    <2> QED BY <2>1, <2>4, <2>5, <2>6
  <1> QED BY <1>1, <1>2, <1>3, <1>4, <1>5, <1>6, <1>7, <1>8, <1>9, <1>10, <1>11, <1>12, <1>13, <1>14, <1>15, <1>16, <1>17, <1>18, <1>19, <1>20, <1>21, <1>22, <1>23, <1>24, <1>25, <1>26, <1>27, <1>28, <1>29, <1>30, <1>31, <1>32, <1>33, <1>34
       DEF RestoreNext, WorkerStep

\* The initial state satisfies it.
LEMMA RestoreInvInit == RestoreInit => RestoreInv
PROOF
  <1> SUFFICES ASSUME RestoreInit PROVE RestoreInv
    OBVIOUS
  <1>1. RestoreTypeOK
    BY RestoreTypesInit
  <1> QED BY <1>1 DEF RestoreInv, RestoreInit, Promoting, StaysPaused, OnePass, Restored,
       Old, Dest

\* restore_live.go, resumeLiveRestore: "The paused apps are never abandoned":
\* files of one moment next to a database of another, or half a promotion,
\* leave every bundle of the operation paused.
THEOREM HalfRestoredIsPausedHolds == RestoreSpec => []HalfRestoredIsPaused
PROOF
  <1>1. RestoreInv => HalfRestoredIsPaused
    BY DEF RestoreInv, OnePass, StaysPaused, Stopped, HalfRestoredIsPaused
  <1> QED BY <1>1, RestoreInvInit, RestoreInvStep, PTL DEF RestoreSpec

\* restore_live.go: "Failure restores preserved files and safety dumps": until
\* somebody resumes it, a failed operation that gave the bundles back left
\* nothing of the snapshot.
THEOREM FailureRestoresHolds == RestoreSpec => []FailureRestores
PROOF
  <1>1. RestoreInv => FailureRestores
    BY SelectionAssumption DEF RestoreInv, OnePass, Stopped, FailureRestores, Reverted
  <1> QED BY <1>1, RestoreInvInit, RestoreInvStep, PTL DEF RestoreSpec

-----------------------------------------------------------------------------
(* Storage moves.                                                           *)

\* One executor at a time is under the maintenance flock.
OneLocked == \A o, p \in Op : exec[o].at \in Locked /\ exec[p].at \in Locked => o = p

\* The owners of what is copied are paused, and a copy is as good as its source.
Copied ==
    \A o \in Op :
       /\ exec[o].at \in {"stopped", "copied"} => Moved(exec[o].j) \subseteq paused
       /\ exec[o].at = "copied" =>
             \A v \in Placed(exec[o].j) :
                live[v] \in fresh[v] => exec[o].j.target[v] \in fresh[v]

\* The executor of o has yet to bind v.
Unbound(o, v) == \/ exec[o].at = "committed" /\ v \in Placed(exec[o].j)
                 \/ exec[o].at = "rebind"

\* The mapping is as the executor that has yet to bind it wrote it, and every
\* entry that nobody has yet to bind is bound.
Bound ==
    /\ \A o \in Op, v \in Vol :
          /\ exec[o].at = "committed" /\ v \in Placed(exec[o].j)
                => active[v] = exec[o].j.target[v]
          /\ exec[o].at = "rebind" => active[v] = exec[o].j.previous[v]
    /\ storageFaults = 0 =>
          \A v \in Vol \ reverted :
             active[v] \in Disk /\ (\A o \in Op : ~Unbound(o, v)) => live[v] = active[v]

StorageInv == StorageTypeOK /\ OneLocked /\ Copied /\ Bound

Executor == [at : At, action : {"migrate", "rollback"}, j : Journal, result : Status]

\* The executor of o goes to a, the others stay where they are.
Steps(o, a) == /\ exec' \in [Op -> Executor]
               /\ exec'[o].at = a /\ exec'[o].j = exec[o].j
               /\ \A p \in Op \ {o} : exec'[p] = exec[p]

\* The executor of o goes to a or is idle, whatever it has loaded.
Rests(o) == /\ exec' \in [Op -> Executor] /\ exec'[o].at \notin Locked
            /\ \A p \in Op \ {o} : exec'[p] = exec[p]

\* What Goto and End do.
LEMMA ExecutorSteps ==
    ASSUME StorageTypeOK, NEW o \in Op
    PROVE  /\ \A a \in At : Goto(o, a) => Steps(o, a)
           /\ \A r \in Status : End(o, r) => Steps(o, "ended")
PROOF
  <1>a. exec \in [Op -> Executor]
    BY DEF StorageTypeOK, Executor
  <1>1. ASSUME NEW a \in At, Goto(o, a) PROVE Steps(o, a)
    BY <1>1, <1>a DEF Goto, Steps, Executor
  <1>2. ASSUME NEW r \in Status, End(o, r) PROVE Steps(o, "ended")
    <2>1. PICK x : x = [exec[o] EXCEPT !.at = "ended", !.result = r]
      OBVIOUS
    <2>2. exec' = [exec EXCEPT ![o] = x]
      BY <1>2, <2>1 DEF End
    <2>3. exec[o] \in Executor /\ "ended" \in At
      BY <1>a DEF At
    <2>4. x \in Executor /\ x.at = "ended" /\ x.j = exec[o].j
      BY <2>1, <2>3 DEF Executor
    <2> QED BY <1>a, <2>2, <2>4 DEF Steps
  <1> QED BY <1>1, <1>2

\* The journals the code writes are journals.
LEMMA StorageJournals ==
    ASSUME NEW r \in Journal
    PROVE  /\ FailedJournal(r) \in Journal /\ [r EXCEPT !.form = "full"] \in Journal
           /\ Empty \in Journal
           /\ \A f \in Form : [Empty EXCEPT !.form = f] \in Journal
           /\ \A t \in Status : /\ [Empty EXCEPT !.status = t] \in Journal
                               /\ [r EXCEPT !.status = t] \in Journal
                               /\ [r EXCEPT !.status = t, !.canResume = FALSE] \in Journal
           /\ \A t \in Status, b, c \in BOOLEAN :
                 [r EXCEPT !.status = t, !.canResume = b, !.canRollback = c] \in Journal
PROOF BY DEF FailedJournal, Journal, Empty, Form, Status, Nothing, Unplaced, Target, Place

\* What ReadHandoff and LoadJournal make of the executor.
LEMMA ExecutorLoads ==
    ASSUME StorageTypeOK, NEW o \in Op
    PROVE  /\ ReadHandoff(o) => Rests(o)
           /\ LoadJournal(o) => /\ exec' \in [Op -> Executor]
                               /\ exec'[o].at \in {"ended", "validate", "rollback"}
                               /\ \A p \in Op \ {o} : exec'[p] = exec[p]
PROOF
  <1>a. /\ exec \in [Op -> Executor] /\ exec[o] \in Executor /\ journal[o] \in Journal
        /\ handoff[o] \in {"none", "migrate", "rollback"}
    BY DEF StorageTypeOK, Executor
  <1>b. Idle \in Executor /\ Empty \in Journal
    BY <1>a, StorageJournals DEF Idle, Executor, At, Status
  <1>1. ASSUME ReadHandoff(o) PROVE Rests(o)
    <2>1. CASE handoff[o] = "none"
      BY <1>1, <1>a, <1>b, <2>1 DEF ReadHandoff, Rests, Idle, Locked
    <2>2. CASE handoff[o] # "none"
      <3>1. PICK x : x = [exec[o] EXCEPT !.at = "waiting", !.action = handoff[o]]
        OBVIOUS
      <3>2. exec' = [exec EXCEPT ![o] = x]
        BY <1>1, <2>2, <3>1 DEF ReadHandoff
      <3>3. x \in Executor /\ x.at = "waiting"
        BY <1>a, <2>2, <3>1 DEF Executor, At
      <3> QED BY <1>a, <3>2, <3>3 DEF Rests, Locked
    <2> QED BY <2>1, <2>2
  <1>2. ASSUME LoadJournal(o)
        PROVE  /\ exec' \in [Op -> Executor]
               /\ exec'[o].at \in {"ended", "validate", "rollback"}
               /\ \A p \in Op \ {o} : exec'[p] = exec[p]
    <2>1. CASE journal[o].form = "dismissed"
      <3>1. End(o, "failed") /\ "failed" \in Status
        BY <1>2, <2>1 DEF LoadJournal, Status
      <3> QED BY <3>1, ExecutorSteps DEF Steps
    <2>2. CASE journal[o].form # "dismissed"
      <3> DEFINE a == IF exec[o].action = "migrate" THEN "validate" ELSE "rollback"
                 r == IF journal[o].form = "bare" THEN Empty ELSE journal[o]
      <3>1. PICK x : x = [exec[o] EXCEPT !.at = a, !.j = r]
        OBVIOUS
      <3>2. exec' = [exec EXCEPT ![o] = x]
        BY <1>2, <2>2, <3>1 DEF LoadJournal
      <3>3. r \in Journal /\ a \in {"validate", "rollback"} /\ a \in At
        BY <1>a, <1>b DEF At
      <3>4. x \in Executor /\ x.at \in {"validate", "rollback"}
        BY <1>a, <3>1, <3>3 DEF Executor
      <3> QED BY <1>a, <3>2, <3>4
    <2> QED BY <2>1, <2>2
  <1> QED BY <1>1, <1>2

\* The initial state satisfies the invariant of the moves.
LEMMA StorageInvInit == StorageInit => StorageInv
PROOF
  <1> SUFFICES ASSUME StorageInit PROVE StorageInv
    OBVIOUS
  <1>1. Initial \in [Vol -> Place]
    BY InitialAssumption
  <1>2. StorageTypeOK
    <2>1. Idle \in Executor /\ [Empty EXCEPT !.form = "none"] \in Journal
      BY DEF Idle, Executor, At, Status, Empty, Journal, Form, Nothing, Unplaced, Target, Place
    <2> QED BY <1>1, <2>1 DEF StorageInit, StorageTypeOK, Executor, Status
  <1> QED BY <1>1, <1>2 DEF StorageInit, StorageInv, OneLocked, Copied, Bound, Idle, Locked

\* Every step keeps the types of the moves.
LEMMA StorageTypesStep ==
    StorageTypeOK /\ [StorageNext]_storageVars => StorageTypeOK'
PROOF
  <1> SUFFICES ASSUME StorageTypeOK, [StorageNext]_storageVars PROVE StorageTypeOK'
    OBVIOUS
  <1>a. exec \in [Op -> Executor]
    BY DEF StorageTypeOK, Executor
  <1>b. /\ "none" \in Status /\ "running" \in Status /\ "rolling_back" \in Status
        /\ "failed" \in Status /\ "completed" \in Status /\ "rolled_back" \in Status
        /\ "full" \in Form /\ "dismissed" \in Form
    BY DEF Status, Form
  <1>c. \A q \in Op : exec[q].j \in Journal /\ journal[q] \in Journal
                     /\ exec[q].result \in Status
    BY <1>a DEF StorageTypeOK, Executor
  <1>d. StorageFault => storageFaults' \in Nat
    BY DEF StorageFault, StorageTypeOK
  <1>e. ASSUME NEW o \in Op, NEW a \in At, Goto(o, a) PROVE exec' \in [Op -> Executor]
    BY <1>e, ExecutorSteps DEF Steps
  <1>f. ASSUME NEW o \in Op, NEW r \in Journal, WriteJournal(o, r)
        PROVE  journal' \in [Op -> Journal]
    BY <1>f, StorageJournals DEF WriteJournal, StorageTypeOK
  <1>g. ASSUME NEW o \in Op, Fail(o)
        PROVE  journal' \in [Op -> Journal] /\ exec' \in [Op -> Executor]
    <2>1. FailedJournal(exec[o].j) \in Journal
      BY <1>c, StorageJournals
    <2> QED BY <1>g, <1>b, <1>f, <2>1, ExecutorSteps DEF Fail, Steps
  <1>h. Idle \in Executor
    BY StorageJournals DEF Idle, Executor, At, Status, Empty, Journal, Form, Nothing,
       Unplaced, Target, Place
  <1>t. ASSUME exec' \in [Op -> Executor],
               active' \in [Vol -> Place], live' \in [Vol -> Place], reverted' \in SUBSET Vol,
               fresh' \in [Vol -> SUBSET Place], paused' \in SUBSET Vol,
               journal' \in [Op -> Journal], outcome' \in [Op -> Status],
               handoff' \in [Op -> {"none", "migrate", "rollback"}],
               poll' = NoPoll \/ poll' \in [op : Op, status : Status],
               trigger' = NoPoll \/ trigger' \in [op : Op, action : {"migrate", "rollback"}],
               storageFaults' \in Nat
        PROVE  StorageTypeOK'
    BY <1>t DEF StorageTypeOK, Executor
  <1>u. /\ active \in [Vol -> Place] /\ live \in [Vol -> Place] /\ reverted \in SUBSET Vol
        /\ fresh \in [Vol -> SUBSET Place] /\ paused \in SUBSET Vol
        /\ journal \in [Op -> Journal] /\ outcome \in [Op -> Status]
        /\ handoff \in [Op -> {"none", "migrate", "rollback"}]
        /\ (poll = NoPoll \/ poll \in [op : Op, status : Status])
        /\ (trigger = NoPoll \/ trigger \in [op : Op, action : {"migrate", "rollback"}])
        /\ storageFaults \in Nat
    BY DEF StorageTypeOK
  <1>v. \A q \in Op : /\ exec[q].j.target \in Target
                     /\ exec[q].j.previous \in [Vol -> Place]
    BY <1>c DEF Journal
  <1> USE DEF data, files, mapping
  <1>1. CASE UNCHANGED storageVars
    BY <1>1, <1>a, <1>t, <1>u DEF storageVars
  <1>2. ASSUME NEW o \in Op, NEW t \in Request, Configure(o, t) PROVE StorageTypeOK'
    <2>1. [form |-> "full", status |-> "running", canResume |-> FALSE,
           canRollback |-> FALSE, target |-> t, previous |-> active] \in Journal
      BY <1>b, <1>u, RequestAssumption DEF Journal
    <2>2. [op |-> o, action |-> "migrate"] \in [op : Op, action : {"migrate", "rollback"}]
      OBVIOUS
    <2> QED BY <1>2, <1>a, <1>t, <1>u, <2>1, <2>2 DEF Configure
  <1>3. ASSUME NEW o \in Op, Resume(o) PROVE StorageTypeOK'
    <2>1. PICK x : x = [journal[o] EXCEPT !.status = "running", !.canResume = FALSE]
      OBVIOUS
    <2>2. x \in Journal /\ journal' = [journal EXCEPT ![o] = x]
      BY <1>3, <1>b, <1>c, <2>1, StorageJournals DEF Resume
    <2>3. [op |-> o, action |-> "migrate"] \in [op : Op, action : {"migrate", "rollback"}]
      OBVIOUS
    <2>4. journal' \in [Op -> Journal]
      BY <1>u, <2>2
    <2>5. /\ trigger' = [op |-> o, action |-> "migrate"]
          /\ UNCHANGED <<data, outcome, handoff, exec, poll, storageFaults>>
      BY <1>3 DEF Resume
    <2> QED BY <1>a, <1>t, <1>u, <2>3, <2>4, <2>5
  <1>4. ASSUME NEW o \in Op, Rollback(o) PROVE StorageTypeOK'
    <2>1. [journal[o] EXCEPT !.status = "rolling_back"] \in Journal
      BY <1>b, <1>c, StorageJournals
    <2>2. journal' \in [Op -> Journal]
      BY <1>4, <1>u, <2>1 DEF Rollback
    <2>3. [op |-> o, action |-> "rollback"] \in [op : Op, action : {"migrate", "rollback"}]
      OBVIOUS
    <2> QED BY <1>4, <1>a, <1>t, <1>u, <2>2, <2>3 DEF Rollback
  <1>5. CASE StartExecutor
    <2>1. trigger.op \in Op /\ trigger.action \in {"migrate", "rollback"}
      BY <1>5, <1>u DEF StartExecutor
    <2>2. exec' \in [Op -> Executor]
      BY <1>5, <1>a, <2>1 DEF StartExecutor, Executor, At
    <2> QED BY <1>5, <1>b, <1>t, <1>u, <2>1, <2>2 DEF StartExecutor
  <1>6. CASE StartExecutorFails
    <2>1. trigger.op \in Op
      BY <1>6, <1>u DEF StartExecutorFails
    <2>2. FailedJournal(journal[trigger.op]) \in Journal /\ journal[trigger.op] \in Journal
      BY <1>c, <2>1, StorageJournals
    <2>3. journal' \in [Op -> Journal]
      BY <1>6, <1>u, <2>1, <2>2 DEF StartExecutorFails
    <2> QED BY <1>6, <1>a, <1>b, <1>d, <1>t, <1>u, <2>1, <2>3 DEF StartExecutorFails
  <1>7. ASSUME NEW o \in Op, PollRead(o) PROVE StorageTypeOK'
    BY <1>7, <1>a, <1>t, <1>u DEF PollRead
  <1>8. CASE PollWrite
    <2>1. poll.op \in Op /\ poll.status \in Status
      BY <1>8, <1>u DEF PollWrite
    <2>2. [Empty EXCEPT !.status = poll.status] \in Journal
      BY <1>c, <2>1, StorageJournals
    <2> QED BY <1>8, <1>a, <1>t, <1>u, <2>1, <2>2 DEF PollWrite
  <1>9. ASSUME NEW o \in Op, Dismiss(o) PROVE StorageTypeOK'
    <2>1. [Empty EXCEPT !.form = "dismissed"] \in Journal
      BY <1>b, <1>c, StorageJournals
    <2> QED BY <1>9, <1>a, <1>b, <1>t, <1>u, <2>1 DEF Dismiss
  <1>10. ASSUME NEW o \in Op, ReadHandoff(o) PROVE StorageTypeOK'
    <2>1. exec' \in [Op -> Executor]
      BY <1>10, ExecutorLoads DEF Rests
    <2> QED BY <1>10, <1>t, <1>u, <2>1 DEF ReadHandoff
  <1>11. ASSUME NEW o \in Op, LoadJournal(o) PROVE StorageTypeOK'
    <2>1. exec' \in [Op -> Executor]
      BY <1>11, ExecutorLoads
    <2> QED BY <1>11, <1>t, <1>u, <2>1 DEF LoadJournal
  <1>12. ASSUME NEW o \in Op, PauseOwners(o) PROVE StorageTypeOK'
    BY <1>12, <1>c, <1>e, <1>f, <1>t, <1>u DEF PauseOwners, Moved, At
  <1>13. ASSUME NEW o \in Op, ValidateFails(o) PROVE StorageTypeOK'
    BY <1>13, <1>d, <1>g, <1>t, <1>u DEF ValidateFails, Moved
  <1>14. ASSUME NEW o \in Op, Copy(o) PROVE StorageTypeOK'
    <2>1. fresh' \in [Vol -> SUBSET Place]
      BY <1>14, <1>u DEF Copy, Placed, Place
    <2> QED BY <1>14, <1>c, <1>e, <1>f, <1>t, <1>u, <2>1 DEF Copy, At
  <1>15. ASSUME NEW o \in Op, CopyFails(o) PROVE StorageTypeOK'
    BY <1>15, <1>d, <1>g, <1>t, <1>u DEF CopyFails
  <1>28. ASSUME NEW o \in Op, MappingFails(o) PROVE StorageTypeOK'
    BY <1>28, <1>d, <1>g, <1>t, <1>u DEF MappingFails
  <1>16. ASSUME NEW o \in Op, Commit(o) PROVE StorageTypeOK'
    <2>1. active' \in [Vol -> Place] /\ reverted' \in SUBSET Vol
      BY <1>16, <1>v DEF Commit, Merge, Target
    <2> QED BY <1>16, <1>e, <1>t, <1>u, <2>1 DEF Commit, At
  <1>17. ASSUME NEW o \in Op, Bind(o) PROVE StorageTypeOK'
    <2>1. live' \in [Vol -> Place]
      BY <1>17, <1>u DEF Bind, Placed, Place
    <2> QED BY <1>17, <1>c, <1>e, <1>f, <1>t, <1>u, <2>1 DEF Bind, At
  <1>18. ASSUME NEW o \in Op, BindFails(o) PROVE StorageTypeOK'
    <2>1. live' \in [Vol -> Place]
      BY <1>18, <1>u DEF BindFails, Placed, Place
    <2> QED BY <1>18, <1>d, <1>g, <1>t, <1>u, <2>1 DEF BindFails
  <1>19. ASSUME NEW o \in Op, ResumeOwners(o) PROVE StorageTypeOK'
    <2> DEFINE S == IF exec[o].at = "bound" THEN "completed" ELSE "rolled_back"
               J == [exec[o].j EXCEPT !.status = S, !.canResume = @ /\ S = "completed",
                                      !.canRollback = @ /\ S = "completed"]
    <2>1. S \in Status /\ J \in Journal
      BY <1>b, <1>c DEF Journal
    <2>2. WriteJournal(o, J) /\ End(o, S) /\ paused' \in SUBSET Vol
      BY <1>19, <1>u DEF ResumeOwners
    <2> HIDE DEF S, J
    <2>3. journal' \in [Op -> Journal] /\ exec' \in [Op -> Executor]
      BY <1>f, <2>1, <2>2, ExecutorSteps DEF Steps
    <2> QED BY <1>19, <1>t, <1>u, <2>2, <2>3 DEF ResumeOwners
  <1>20. ASSUME NEW o \in Op, ResumeOwnersFails(o) PROVE StorageTypeOK'
    BY <1>20, <1>d, <1>g, <1>t, <1>u DEF ResumeOwnersFails
  <1>21. ASSUME NEW o \in Op, RestoreMapping(o) PROVE StorageTypeOK'
    BY <1>21, <1>e, <1>t, <1>u, <1>v DEF RestoreMapping, At
  <1>22. ASSUME NEW o \in Op, Rebind(o) PROVE StorageTypeOK'
    <2>1. live' \in [Vol -> Place] /\ storageFaults' \in Nat
      BY <1>22, <1>u, <1>v DEF Rebind
    <2>2. exec' \in [Op -> Executor]
      BY <1>22, <1>e DEF Rebind, At
    <2> QED BY <1>22, <1>t, <1>u, <2>1, <2>2 DEF Rebind
  <1>23. ASSUME NEW o \in Op, WriteOutcome(o) PROVE StorageTypeOK'
    BY <1>23, <1>a, <1>c, <1>h, <1>t, <1>u DEF WriteOutcome
  <1>24. ASSUME NEW v \in Vol, AppWrites(v) PROVE StorageTypeOK'
    BY <1>24, <1>a, <1>t, <1>u DEF AppWrites
  <1>25. ASSUME NEW o \in Op, ExecKilled(o) PROVE StorageTypeOK'
    BY <1>25, <1>a, <1>d, <1>h, <1>t, <1>u DEF ExecKilled
  <1>26. CASE StorageDaemonCrash
    BY <1>26, <1>a, <1>d, <1>t, <1>u DEF StorageDaemonCrash
  <1>27. CASE StorageReboot
    BY <1>27, <1>d, <1>h, <1>t, <1>u DEF StorageReboot
  <1> QED
    BY <1>1, <1>2, <1>3, <1>4, <1>5, <1>6, <1>7, <1>8, <1>9, <1>10, <1>11, <1>12, <1>13,
       <1>14, <1>15, <1>16, <1>17, <1>18, <1>19, <1>20, <1>21, <1>22, <1>23, <1>24, <1>25,
       <1>26, <1>27, <1>28
    DEF StorageNext, ExecStep, ExecFails

\* Every step keeps the invariant of the moves.
LEMMA StorageInvStep == StorageInv /\ [StorageNext]_storageVars => StorageInv'
PROOF
  <1> SUFFICES ASSUME StorageInv, [StorageNext]_storageVars
               PROVE  (OneLocked /\ Copied /\ Bound)'
    BY StorageTypesStep DEF StorageInv
  <1>a. StorageTypeOK /\ OneLocked /\ Copied /\ Bound
    BY DEF StorageInv
  <1>b. /\ exec \in [Op -> Executor] /\ storageFaults \in Nat
        /\ active \in [Vol -> Place] /\ live \in [Vol -> Place]
        /\ fresh \in [Vol -> SUBSET Place]
    BY <1>a DEF StorageTypeOK, Executor
  <1>c. \A o \in Op : /\ exec[o].j.target \in Target
                     /\ exec[o].j.previous \in [Vol -> Place]
    BY <1>b DEF Executor, Journal
  <1>d. ASSUME NEW o \in Op, Fail(o) PROVE Steps(o, "ended")
    BY <1>a, <1>d, ExecutorSteps DEF Fail, Status
  <1>e. ASSUME NEW o \in Op, exec[o].at \in Locked, NEW a \in At, Steps(o, a)
        PROVE  /\ \A p \in Op \ {o} : exec'[p] = exec[p] /\ exec[p].at \notin Locked
               /\ OneLocked' /\ exec'[o].at = a /\ exec'[o].j = exec[o].j
               /\ \A p \in Op \ {o}, v \in Vol : ~Unbound(p, v) /\ ~Unbound(p, v)'
    BY <1>a, <1>e DEF Steps, OneLocked, Unbound, Locked, Placed
  <1> USE <1>a DEF OneLocked, Copied, Bound, Unbound, Locked, data, files, mapping
  <1>1. CASE UNCHANGED storageVars
    BY <1>1 DEF storageVars, Moved, Placed
  <1>2. CASE /\ UNCHANGED <<data, exec, storageFaults>>
    BY <1>2 DEF Moved, Placed
  <1>3. CASE \E o \in Op : \/ \E t \in Request : Configure(o, t)
                           \/ Resume(o) \/ Rollback(o) \/ Dismiss(o) \/ PollRead(o)
    BY <1>2, <1>3 DEF Configure, Resume, Rollback, Dismiss, PollRead
  <1>4. CASE PollWrite
    BY <1>2, <1>4 DEF PollWrite
  <1>5. CASE StartExecutorFails \/ StorageDaemonCrash
    BY <1>5, <1>b DEF StartExecutorFails, StorageDaemonCrash, StorageFault, Moved, Placed
  <1>6. CASE StartExecutor
    <2>1. trigger.op \in Op
      BY <1>6 DEF StartExecutor, StorageTypeOK
    <2>2. /\ exec'[trigger.op].at = exec[trigger.op].at \/ exec'[trigger.op].at = "queued"
          /\ exec'[trigger.op].j = exec[trigger.op].j
          /\ \A p \in Op \ {trigger.op} : exec'[p] = exec[p]
          /\ exec[trigger.op].at # exec'[trigger.op].at => exec[trigger.op].at = "idle"
      BY <1>6, <1>b, <2>1 DEF StartExecutor, Executor
    <2>3. UNCHANGED <<data, storageFaults>>
      BY <1>6 DEF StartExecutor
    <2> QED BY <2>1, <2>2, <2>3 DEF Moved, Placed
  <1>7. ASSUME NEW o \in Op, ReadHandoff(o) PROVE (OneLocked /\ Copied /\ Bound)'
    <2>1. Rests(o) /\ exec[o].at = "queued" /\ UNCHANGED <<data, storageFaults>>
      BY <1>7, ExecutorLoads DEF ReadHandoff
    <2> QED BY <2>1 DEF Rests, Moved, Placed
  <1>8. ASSUME NEW o \in Op, LoadJournal(o) PROVE (OneLocked /\ Copied /\ Bound)'
    <2>1. /\ exec'[o].at \in {"ended", "validate", "rollback"}
          /\ \A p \in Op \ {o} : exec'[p] = exec[p]
      BY <1>8, ExecutorLoads
    <2>2. /\ exec[o].at = "waiting" /\ FlockFree /\ UNCHANGED <<data, storageFaults>>
      BY <1>8 DEF LoadJournal
    <2> QED BY <2>1, <2>2 DEF FlockFree, Moved, Placed
  <1>9. ASSUME NEW o \in Op, PauseOwners(o) PROVE (OneLocked /\ Copied /\ Bound)'
    <2>1. Steps(o, "stopped")
      BY <1>9, ExecutorSteps DEF PauseOwners, At
    <2> QED BY <1>9, <2>1 DEF PauseOwners, Steps, Moved, Placed
  <1>10. ASSUME NEW o \in Op, ValidateFails(o) PROVE (OneLocked /\ Copied /\ Bound)'
    BY <1>10, <1>b, <1>d DEF ValidateFails, StorageFault, Steps, Moved, Placed
  <1>11. ASSUME NEW o \in Op, Copy(o) PROVE (OneLocked /\ Copied /\ Bound)'
    <2>1. Steps(o, "copied")
      BY <1>11, ExecutorSteps DEF Copy, At
    <2>2. /\ \A p \in Op \ {o} : exec'[p] = exec[p] /\ exec[p].at \notin Locked
          /\ OneLocked' /\ exec'[o].at = "copied" /\ exec'[o].j = exec[o].j
          /\ \A p \in Op \ {o}, v \in Vol : ~Unbound(p, v) /\ ~Unbound(p, v)'
      <3>1. exec[o].at \in Locked /\ "copied" \in At
        BY <1>11 DEF Copy, At
      <3> HIDE DEF OneLocked, Unbound, Locked
      <3> QED BY <1>e, <2>1, <3>1
    <2>3. /\ exec[o].at = "stopped" /\ UNCHANGED <<mapping, live, paused, storageFaults>>
          /\ \A v \in Placed(exec[o].j) :
                live[v] \in fresh[v] => exec[o].j.target[v] \in fresh'[v]
          /\ \A v \in Vol : v \in Placed(exec[o].j) \/ fresh'[v] = fresh[v]
      BY <1>11, <1>b DEF Copy, Placed
    <2>4. \A v \in Placed(exec[o].j) : live[v] \in fresh'[v] => live[v] \in fresh[v]
                                        \/ live[v] = exec[o].j.target[v]
      BY <1>11, <1>b DEF Copy, Placed
    <2>5. Copied'
      BY <2>2, <2>3, <2>4 DEF Moved, Placed
    <2>6. Bound'
      BY <2>2, <2>3 DEF Placed
    <2> QED BY <2>2, <2>5, <2>6
  <1>12. ASSUME NEW o \in Op, CopyFails(o) PROVE (OneLocked /\ Copied /\ Bound)'
    BY <1>12, <1>b, <1>d DEF CopyFails, StorageFault, Steps, Moved, Placed
  <1>24. ASSUME NEW o \in Op, MappingFails(o) PROVE (OneLocked /\ Copied /\ Bound)'
    <2>1. /\ Steps(o, "ended") /\ UNCHANGED <<mapping, live, fresh>> /\ storageFaults' # 0
          /\ exec[o].at \in Locked
          /\ paused' = paused \/ paused' = paused \ Moved(exec[o].j)
      BY <1>24, <1>b, <1>d DEF MappingFails, StorageFault
    <2>2. paused' # paused => exec[o].at = "copied" /\ paused' = paused \ Moved(exec[o].j)
      BY <1>24 DEF MappingFails
    <2>3. \A p \in Op \ {o} : exec'[p] = exec[p] /\ exec[p].at \notin Locked
      BY <2>1 DEF Steps
    <2> QED BY <1>24, <2>1, <2>2, <2>3 DEF MappingFails, Steps, Moved, Placed
  <1>13. ASSUME NEW o \in Op, Commit(o) PROVE (OneLocked /\ Copied /\ Bound)'
    <2>1. Steps(o, "committed")
      BY <1>13, ExecutorSteps DEF Commit, At
    <2>2. /\ \A p \in Op \ {o} : exec'[p] = exec[p] /\ exec[p].at \notin Locked
          /\ OneLocked' /\ exec'[o].at = "committed" /\ exec'[o].j = exec[o].j
          /\ \A p \in Op \ {o}, v \in Vol : ~Unbound(p, v) /\ ~Unbound(p, v)'
      <3>1. exec[o].at \in Locked /\ "committed" \in At
        BY <1>13 DEF Commit, At
      <3> HIDE DEF OneLocked, Unbound, Locked
      <3> QED BY <1>e, <2>1, <3>1
    <2>3. Copied'
      BY <1>13, <2>2 DEF Commit
    <2>4. /\ \A v \in Vol : \/ v \in Moved(exec[o].j) /\ active'[v] = exec[o].j.target[v]
                          \/ v \in reverted' \/ (active'[v] = active[v] /\ v \notin reverted)
          /\ UNCHANGED <<live, storageFaults>> /\ exec[o].at = "copied"
      BY <1>13, <1>b, <1>c DEF Commit, Merge, Moved
    <2>5. \A v \in Placed(exec[o].j) : active'[v] = exec[o].j.target[v]
      BY <1>13, <1>b, <1>c, DiskAssumption DEF Commit, Merge, Placed
    <2>6. ASSUME storageFaults' = 0, NEW v \in Vol \ reverted', active'[v] \in Disk,
                 \A p \in Op : ~Unbound(p, v)'
          PROVE  live'[v] = active'[v]
      <3>1. v \notin Placed(exec[o].j)
        BY <2>2, <2>6 DEF Placed
      <3>2. active'[v] = active[v] /\ v \notin reverted
        BY <2>4, <2>6, <3>1 DEF Moved, Placed
      <3>3. \A p \in Op : ~Unbound(p, v)
        BY <2>2, <2>4
      <3> QED BY <2>4, <2>6, <3>2, <3>3
    <2>7. Bound'
      BY <2>2, <2>5, <2>6 DEF Placed
    <2> QED BY <2>2, <2>3, <2>7
  <1>14. ASSUME NEW o \in Op, Bind(o) PROVE (OneLocked /\ Copied /\ Bound)'
    <2>1. Steps(o, "bound")
      BY <1>14, ExecutorSteps DEF Bind, At
    <2>2. /\ \A p \in Op \ {o} : exec'[p] = exec[p] /\ exec[p].at \notin Locked
          /\ OneLocked' /\ exec'[o].at = "bound" /\ exec'[o].j = exec[o].j
          /\ \A p \in Op \ {o}, v \in Vol : ~Unbound(p, v) /\ ~Unbound(p, v)'
      <3>1. exec[o].at \in Locked /\ "bound" \in At
        BY <1>14 DEF Bind, At
      <3> HIDE DEF OneLocked, Unbound, Locked
      <3> QED BY <1>e, <2>1, <3>1
    <2>3. Copied'
      BY <1>14, <2>2 DEF Bind
    <2>4. ASSUME storageFaults' = 0, NEW v \in Vol \ reverted', active'[v] \in Disk
          PROVE  live'[v] = active'[v]
      <3>1. CASE v \in Placed(exec[o].j)
        BY <1>14, <1>b, <3>1 DEF Bind, Placed
      <3>2. CASE v \notin Placed(exec[o].j)
        <4>1. live'[v] = live[v] /\ exec[o].at = "committed"
              /\ UNCHANGED <<mapping, storageFaults>>
          BY <1>14, <1>b, <3>2 DEF Bind
        <4>2. \A p \in Op : ~Unbound(p, v)
          BY <2>2, <3>2, <4>1
        <4> QED BY <2>4, <4>1, <4>2
      <3> QED BY <3>1, <3>2
    <2>5. Bound'
      BY <2>2, <2>4
    <2> QED BY <2>2, <2>3, <2>5
  <1>15. ASSUME NEW o \in Op, BindFails(o) PROVE (OneLocked /\ Copied /\ Bound)'
    BY <1>15, <1>b, <1>d DEF BindFails, StorageFault, Steps, Moved, Placed
  <1>16. ASSUME NEW o \in Op, ResumeOwners(o) PROVE (OneLocked /\ Copied /\ Bound)'
    <2>1. Steps(o, "ended")
      BY <1>16, ExecutorSteps DEF ResumeOwners, Status
    <2>2. /\ exec[o].at \in {"bound", "rebound"} /\ paused' = paused \ Moved(exec[o].j)
          /\ UNCHANGED <<mapping, live, fresh, storageFaults>>
      BY <1>16 DEF ResumeOwners
    <2> QED BY <2>1, <2>2 DEF Steps, Moved, Placed
  <1>17. ASSUME NEW o \in Op, ResumeOwnersFails(o) PROVE (OneLocked /\ Copied /\ Bound)'
    BY <1>17, <1>b, <1>d DEF ResumeOwnersFails, StorageFault, Steps, Moved, Placed
  <1>18. ASSUME NEW o \in Op, RestoreMapping(o) PROVE (OneLocked /\ Copied /\ Bound)'
    <2>1. Steps(o, "rebind")
      BY <1>18, ExecutorSteps DEF RestoreMapping, At
    <2> QED BY <1>18, <1>b, <1>c, <2>1 DEF RestoreMapping, Steps, Moved, Placed
  <1>19. ASSUME NEW o \in Op, Rebind(o) PROVE (OneLocked /\ Copied /\ Bound)'
    <2>1. Steps(o, "rebound")
      BY <1>19, ExecutorSteps DEF Rebind, At
    <2>2. /\ \A p \in Op \ {o} : exec'[p] = exec[p] /\ exec[p].at \notin Locked
          /\ OneLocked' /\ exec'[o].at = "rebound" /\ exec'[o].j = exec[o].j
          /\ \A p \in Op \ {o}, v \in Vol : ~Unbound(p, v) /\ ~Unbound(p, v)'
      <3>1. exec[o].at \in Locked /\ "rebound" \in At
        BY <1>19 DEF Rebind, At
      <3> HIDE DEF OneLocked, Unbound, Locked
      <3> QED BY <1>e, <2>1, <3>1
    <2>3. Copied'
      BY <1>19, <2>2 DEF Rebind
    <2>4. ASSUME storageFaults' = 0, NEW v \in Vol \ reverted', active'[v] \in Disk
          PROVE  live'[v] = active'[v]
      <3>1. \A w \in Vol : exec[o].j.previous[w] \in Disk => live'[w] = exec[o].j.previous[w]
        BY <1>19, <1>b, <2>4 DEF Rebind
      <3>2. active'[v] = exec[o].j.previous[v]
        BY <1>19 DEF Rebind
      <3> QED BY <2>4, <3>1, <3>2
    <2>5. Bound'
      BY <2>2, <2>4
    <2> QED BY <2>2, <2>3, <2>5
  <1>20. ASSUME NEW o \in Op, WriteOutcome(o) PROVE (OneLocked /\ Copied /\ Bound)'
    BY <1>20, <1>b DEF WriteOutcome, Idle, Moved, Placed
  <1>21. ASSUME NEW v \in Vol, AppWrites(v) PROVE (OneLocked /\ Copied /\ Bound)'
    <2>1. /\ v \notin paused /\ fresh' = [fresh EXCEPT ![v] = {live[v]}]
          /\ UNCHANGED <<mapping, live, paused, exec, storageFaults>>
      BY <1>21 DEF AppWrites
    <2>2. \A o \in Op : Placed(exec[o].j) \subseteq Moved(exec[o].j) \cap Vol
      BY <1>c DEF Placed, Moved, Target, Place
    <2>3. Copied'
      BY <1>b, <2>1, <2>2 DEF Placed, Moved
    <2>4. OneLocked' /\ Bound'
      BY <2>1 DEF Placed
    <2> QED BY <2>3, <2>4
  <1>22. ASSUME NEW o \in Op, ExecKilled(o) PROVE (OneLocked /\ Copied /\ Bound)'
    BY <1>22, <1>b DEF ExecKilled, StorageFault, Idle, Moved, Placed
  <1>23. CASE StorageReboot
    BY <1>23, <1>b DEF StorageReboot, StorageFault, Idle, Moved, Placed
  <1> QED
    BY <1>1, <1>3, <1>4, <1>5, <1>6, <1>7, <1>8, <1>9, <1>10, <1>11, <1>12, <1>13, <1>14,
       <1>15, <1>16, <1>17, <1>18, <1>19, <1>20, <1>21, <1>22, <1>23, <1>24
    DEF StorageNext, ExecStep, ExecFails

\* Only Commit takes an executor to "committed".
LEMMA OnlyCommitCommits ==
    ASSUME StorageTypeOK, [StorageNext]_storageVars, NEW o \in Op,
           exec[o].at # "committed", exec'[o].at = "committed"
    PROVE  Commit(o)
PROOF
  <1>a. exec \in [Op -> Executor]
    BY DEF StorageTypeOK, Executor
  <1>b. ASSUME NEW p \in Op, NEW a \in At, Steps(p, a), a # "committed" PROVE FALSE
    BY <1>b DEF Steps
  <1>c. ASSUME NEW p \in Op, Fail(p) PROVE FALSE
    BY <1>b, <1>c, ExecutorSteps DEF Fail, Status, At
  <1>d. ASSUME NEW p \in Op, NEW a \in At, Goto(p, a), a # "committed" PROVE FALSE
    BY <1>b, <1>d, ExecutorSteps
  <1>1. CASE exec' = exec
    BY <1>1
  <1>2. CASE StartExecutor
    <2>1. trigger.op \in Op
      BY <1>2 DEF StartExecutor, StorageTypeOK
    <2> QED BY <1>2, <1>a, <2>1 DEF StartExecutor, Executor
  <1>3. ASSUME NEW p \in Op, ReadHandoff(p) PROVE FALSE
    BY <1>3, ExecutorLoads DEF Rests, Locked
  <1>4. ASSUME NEW p \in Op, LoadJournal(p) PROVE FALSE
    BY <1>4, ExecutorLoads
  <1>5. ASSUME NEW p \in Op,
               PauseOwners(p) \/ Copy(p) \/ Bind(p) \/ RestoreMapping(p) \/ Rebind(p)
        PROVE  FALSE
    BY <1>5, <1>d DEF PauseOwners, Copy, Bind, RestoreMapping, Rebind, At
  <1>6. ASSUME NEW p \in Op, ExecFails(p) PROVE FALSE
    BY <1>6, <1>c DEF ExecFails, ValidateFails, CopyFails, MappingFails, BindFails,
       ResumeOwnersFails
  <1>7. ASSUME NEW p \in Op, ResumeOwners(p) PROVE FALSE
    <2>1. \E r \in Status : End(p, r)
      BY <1>7 DEF ResumeOwners, Status
    <2> QED BY <1>b, <2>1, ExecutorSteps DEF At
  <1>8. ASSUME NEW p \in Op, WriteOutcome(p) \/ ExecKilled(p) PROVE FALSE
    BY <1>8, <1>a DEF WriteOutcome, ExecKilled, Idle
  <1>9. CASE StorageReboot
    BY <1>9 DEF StorageReboot, Idle
  <1>10. ASSUME NEW p \in Op, Commit(p) PROVE Commit(o)
    <2>1. CASE p = o
      BY <1>10, <2>1
    <2>2. CASE p # o
      <3>1. Steps(p, "committed")
        BY <1>10, ExecutorSteps DEF Commit, At
      <3> QED BY <2>2, <3>1 DEF Steps
    <2> QED BY <2>1, <2>2
  <1>11. CASE \/ UNCHANGED storageVars \/ StartExecutorFails \/ PollWrite \/ StorageDaemonCrash
              \/ \E v \in Vol : AppWrites(v)
              \/ \E p \in Op : \/ \E t \in Request : Configure(p, t)
                             \/ Resume(p) \/ Rollback(p) \/ Dismiss(p) \/ PollRead(p)
    BY <1>1, <1>11 DEF storageVars, StartExecutorFails, PollWrite, StorageDaemonCrash,
       AppWrites, Configure, Resume, Rollback, Dismiss, PollRead
  <1> QED
    BY <1>2, <1>3, <1>4, <1>5, <1>6, <1>7, <1>8, <1>9, <1>10, <1>11
    DEF StorageNext, ExecStep

\* mergeActivePlacements: "every entry is a live binding": with no executor at
\* work and nothing failed, what a reboot would bind is bound, but for the
\* entries that the commit of an operation with a stale memory put back.
THEOREM BoundAsFiledHolds == StorageSpec => []BoundAsFiled
PROOF
  <1>1. StorageInv => BoundAsFiled
    BY DEF StorageInv, Bound, Unbound, BoundAsFiled
  <1> QED BY <1>1, StorageInvInit, StorageInvStep, PTL DEF StorageSpec

\* executeStorageMigration: a mapping is committed over verified copies only, as
\* good as the mount they were made of, whatever failed or was killed.
THEOREM MigratedAreVerifiedHolds == StorageSpec => MigratedAreVerified
PROOF
  <1>1. ASSUME StorageInv, [StorageNext]_storageVars,
               NEW o \in Op, exec[o].at = "copied", exec'[o].at = "committed"
        PROVE  \A v \in Placed(exec[o].j) :
                  /\ active'[v] = exec[o].j.target[v]
                  /\ live[v] \in fresh[v] => active'[v] \in fresh'[v]
    <2>1. Commit(o)
      BY <1>1, OnlyCommitCommits DEF StorageInv
    <2>2. \A v \in Placed(exec[o].j) :
             /\ active'[v] = exec[o].j.target[v]
             /\ live[v] \in fresh[v] => active'[v] \in fresh'[v]
      <3>1. exec[o].j.target \in Target
        BY <1>1 DEF StorageInv, StorageTypeOK, Journal
      <3> QED BY <1>1, <2>1, <3>1, DiskAssumption
           DEF StorageInv, Copied, Commit, Merge, Placed, Target
    <2> QED BY <2>2
  <1>2. StorageInv /\ [StorageNext]_storageVars
          => [\A o \in Op : exec[o].at = "copied" /\ exec'[o].at = "committed" =>
                \A v \in Placed(exec[o].j) :
                   /\ active'[v] = exec[o].j.target[v]
                   /\ live[v] \in fresh[v] => active'[v] \in fresh'[v]]_storageVars
    BY <1>1
  <1> QED BY <1>2, StorageInvInit, StorageInvStep, PTL
       DEF StorageSpec, MigratedAreVerified

=============================================================================
