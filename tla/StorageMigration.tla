-------------------------- MODULE StorageMigration --------------------------
(***************************************************************************)
(* Storage operations: moving application volumes between disks            *)
(* (internal/controlplane/storage.go, storage_executor.go, operations.go). *)
(*                                                                         *)
(* The daemon writes a journal and a tmpfs handoff and starts a privileged *)
(* oneshot unit; that executor consumes the handoff, waits for the         *)
(* maintenance flock, loads the journal and runs the move or the rollback, *)
(* writing the journal at each stage and an outcome marker at the end.     *)
(* Polling converges the journal from the marker.  Proposals, which the    *)
(* boot parser never reads, and PostgreSQL's extra stop are left out.      *)
(***************************************************************************)
EXTENDS Naturals

CONSTANTS
    Op,            \* operation identifiers
    Vol,           \* volumes
    Disk,          \* data disks
    Initial,       \* the placements in force at the start
    Request,       \* bound: the placement requests the operator makes
    StorageFaults  \* bound: crashes, kills, reboots and failed commands

Place  == Disk \cup {"system"}
\* A request maps each volume to a place, or leaves it alone.
Target == [Vol -> Place \cup {"keep"}]

ASSUME DiskAssumption == "system" \notin Disk /\ "keep" \notin Disk
ASSUME RequestAssumption == Request \subseteq Target
ASSUME InitialAssumption == Initial \in [Vol -> Place]

Status == {"none", "running", "rolling_back", "failed", "completed", "rolled_back"}
Form   == {"none", "full", "bare", "dismissed"}
At     == {"idle", "queued", "waiting", "validate", "stopped", "copied",
           "committed", "bound", "rollback", "rebind", "rebound", "ended"}

\* A storage journal; "bare" is an Operation without the storage fields.
Journal == [form : Form, status : Status, canResume : BOOLEAN,
            canRollback : BOOLEAN, target : Target, previous : [Vol -> Place]]

Nothing  == [v \in Vol |-> "keep"]
Unplaced == [v \in Vol |-> "system"]

\* What loadStorageJournal makes of a file that holds a bare Operation.
Empty == [form |-> "bare", status |-> "none", canResume |-> FALSE,
          canRollback |-> FALSE, target |-> Nothing, previous |-> Unplaced]

VARIABLES
    active,                 \* storage.json placements; "system" stands for no entry
    reverted,               \* history: the volumes whose entry a commit put back to what
                            \* its operation remembered of it
    live,                   \* what is mounted on the volume's canonical path
    fresh,                  \* the places that hold the volume's current data
    paused,                 \* volumes whose owner is in storage maintenance
    journal, outcome, handoff,  \* the files of each operation
    exec,                   \* the executor of each operation: where it is, and what it loaded
    poll,                   \* GetOperation between its reads and its write
    trigger,                \* the daemon between writing a journal and starting the unit
    storageFaults

files       == <<journal, outcome, handoff>>
mapping     == <<active, reverted>>
data        == <<mapping, live, fresh, paused>>
storageVars == <<data, files, exec, poll, trigger, storageFaults>>

NoPoll == [op |-> "none"]

StorageTypeOK ==
    /\ active \in [Vol -> Place] /\ live \in [Vol -> Place] /\ reverted \in SUBSET Vol
    /\ fresh \in [Vol -> SUBSET Place] /\ paused \in SUBSET Vol
    /\ journal \in [Op -> Journal]
    /\ outcome \in [Op -> Status]
    /\ handoff \in [Op -> {"none", "migrate", "rollback"}]
    /\ exec \in [Op -> [at : At, action : {"migrate", "rollback"}, j : Journal,
                        result : Status]]
    /\ poll = NoPoll \/ poll \in [op : Op, status : Status]
    /\ trigger = NoPoll \/ trigger \in [op : Op, action : {"migrate", "rollback"}]
    /\ storageFaults \in Nat

Idle == [at |-> "idle", action |-> "migrate", j |-> Empty, result |-> "none"]

StorageInit ==
    /\ active = Initial /\ live = Initial /\ reverted = {}
    /\ fresh = [v \in Vol |-> {Initial[v]}] /\ paused = {}
    /\ journal = [o \in Op |-> [Empty EXCEPT !.form = "none"]]
    /\ outcome = [o \in Op |-> "none"] /\ handoff = [o \in Op |-> "none"]
    /\ exec = [o \in Op |-> Idle]
    /\ poll = NoPoll /\ trigger = NoPoll /\ storageFaults = 0

StorageFault == storageFaults < StorageFaults /\ storageFaults' = storageFaults + 1

\* The volumes whose owning bundles an operation pauses.
Moved(j)  == {v \in Vol : j.target[v] # "keep"}
\* The moved volumes that get a disk (a null target copies and binds nothing).
Placed(j) == {v \in Vol : j.target[v] \in Disk}

\* mergeActivePlacements: targets win, the rest is as the journal remembers it.
Merge(j) == [v \in Vol |-> IF j.target[v] = "keep" THEN j.previous[v] ELSE j.target[v]]

-----------------------------------------------------------------------------
(* The daemon. *)

\* ConfigureStorage with migrate and confirm.
Configure(o, t) ==
    /\ trigger = NoPoll /\ journal[o].form = "none" /\ t # Nothing
    /\ journal' = [journal EXCEPT ![o] =
           [form |-> "full", status |-> "running", canResume |-> FALSE,
            canRollback |-> FALSE, target |-> t, previous |-> active]]
    /\ trigger' = [op |-> o, action |-> "migrate"]
    /\ UNCHANGED <<data, outcome, handoff, exec, poll, storageFaults>>

\* resumeStorageOperation
Resume(o) ==
    /\ trigger = NoPoll /\ journal[o].form = "full" /\ journal[o].canResume
    /\ journal' = [journal EXCEPT ![o].status = "running", ![o].canResume = FALSE]
    /\ trigger' = [op |-> o, action |-> "migrate"]
    /\ UNCHANGED <<data, outcome, handoff, exec, poll, storageFaults>>

\* rollbackStorageOperation
Rollback(o) ==
    /\ trigger = NoPoll /\ journal[o].form = "full" /\ journal[o].canRollback
    /\ journal' = [journal EXCEPT ![o].status = "rolling_back"]
    /\ trigger' = [op |-> o, action |-> "rollback"]
    /\ UNCHANGED <<data, outcome, handoff, exec, poll, storageFaults>>

\* Mutated form: the unit is started before its handoff is there.
StartExecutorNoHandoff ==
    /\ trigger # NoPoll
    /\ LET o == trigger.op IN
       /\ outcome' = [outcome EXCEPT ![o] = "none"]
       /\ exec' = IF exec[o].at = "idle" THEN [exec EXCEPT ![o].at = "queued"] ELSE exec
    /\ trigger' = NoPoll
    /\ UNCHANGED <<data, journal, handoff, poll, storageFaults>>

\* startStorageExecutor: remove the old outcome, write the handoff, start the
\* unit without waiting.  An instance that is still active is not run again.
StartExecutor ==
    /\ trigger # NoPoll
    /\ LET o == trigger.op IN
       /\ outcome' = [outcome EXCEPT ![o] = "none"]
       /\ handoff' = [handoff EXCEPT ![o] = trigger.action]
       /\ exec' = IF exec[o].at = "idle" THEN [exec EXCEPT ![o].at = "queued"] ELSE exec
    /\ trigger' = NoPoll
    /\ UNCHANGED <<data, journal, poll, storageFaults>>

\* The journal failStorageOp writes.
FailedJournal(j) ==
    [j EXCEPT !.status = "failed", !.canResume = TRUE, !.canRollback = TRUE]

\* systemctl start fails: the journal is failed, the handoff removed.
StartExecutorFails ==
    /\ trigger # NoPoll /\ StorageFault
    /\ LET o == trigger.op IN
       /\ outcome' = [outcome EXCEPT ![o] = "none"]
       /\ handoff' = [handoff EXCEPT ![o] = "none"]
       /\ journal' = [journal EXCEPT ![o] =
              IF @.form = "full" THEN FailedJournal(@) ELSE @]
    /\ trigger' = NoPoll
    /\ UNCHANGED <<data, exec, poll>>

\* GetOperation reads a live journal and then its outcome marker.
PollRead(o) ==
    /\ poll = NoPoll
    /\ journal[o].form \in {"full", "bare"}
    /\ journal[o].status \in {"running", "rolling_back"} /\ outcome[o] # "none"
    /\ poll' = [op |-> o, status |-> outcome[o]]
    /\ UNCHANGED <<data, files, exec, trigger, storageFaults>>

\* and writes the converged Operation, without the storage fields.
PollWrite ==
    /\ poll # NoPoll
    /\ journal' = [journal EXCEPT ![poll.op] = [Empty EXCEPT !.status = poll.status]]
    /\ poll' = NoPoll
    /\ UNCHANGED <<data, outcome, handoff, exec, trigger, storageFaults>>

\* dismissOperation: refused for running (not for rolling_back) operations.
Dismiss(o) ==
    /\ journal[o].form \in {"full", "bare"} /\ journal[o].status # "running"
    /\ journal' = [journal EXCEPT ![o] = [Empty EXCEPT !.form = "dismissed"]]
    /\ outcome' = [outcome EXCEPT ![o] = "none"]
    /\ UNCHANGED <<data, handoff, exec, poll, trigger, storageFaults>>

-----------------------------------------------------------------------------
(* The executor. *)

Locked == {"validate", "stopped", "copied", "committed", "bound",
           "rollback", "rebind", "rebound"}
FlockFree == \A o \in Op : exec[o].at \notin Locked

\* The executor of o goes on; the journal it writes is the one it loaded, under
\* the identifier in it: what was loaded from a bare Operation has none, and the
\* file of o stays as it is.
Goto(o, at) == exec' = [exec EXCEPT ![o].at = at]
WriteJournal(o, j) ==
    journal' = IF j.form = "full" THEN [journal EXCEPT ![o] = j] ELSE journal
End(o, result) == exec' = [exec EXCEPT ![o].at = "ended", ![o].result = result]

\* failStorageOp
Fail(o) == /\ WriteJournal(o, FailedJournal(exec[o].j))
           /\ End(o, "failed")

\* readStorageHandoff consumes the handoff.
ReadHandoff(o) ==
    /\ exec[o].at = "queued"
    /\ exec' = IF handoff[o] = "none" THEN [exec EXCEPT ![o] = Idle]
               ELSE [exec EXCEPT ![o].at = "waiting", ![o].action = handoff[o]]
    /\ handoff' = [handoff EXCEPT ![o] = "none"]
    /\ UNCHANGED <<data, journal, outcome, poll, trigger, storageFaults>>

\* Under the flock: load the journal, whatever it holds by now.
LoadJournal(o) ==
    /\ exec[o].at = "waiting" /\ FlockFree
    /\ IF journal[o].form = "dismissed" THEN End(o, "failed")
       ELSE exec' = [exec EXCEPT
               ![o].at = IF exec[o].action = "migrate" THEN "validate" ELSE "rollback",
               ![o].j = IF journal[o].form = "bare" THEN Empty ELSE journal[o]]
    /\ UNCHANGED <<data, files, poll, trigger, storageFaults>>

\* Mutated form: the owners are not paused before the copy.
PauseOwnersNone(o) ==
    /\ exec[o].at = "validate"
    /\ WriteJournal(o, exec[o].j) /\ Goto(o, "stopped")
    /\ UNCHANGED <<data, outcome, handoff, poll, trigger, storageFaults>>

\* Every target disk is there: pause the owners of the moved volumes.
PauseOwners(o) ==
    /\ exec[o].at = "validate"
    /\ paused' = paused \cup Moved(exec[o].j)
    /\ WriteJournal(o, exec[o].j) /\ Goto(o, "stopped")
    /\ UNCHANGED <<mapping, live, fresh, outcome, handoff, poll, trigger, storageFaults>>

\* A missing disk, or an owner that cannot be paused (the others stay paused).
ValidateFails(o) ==
    /\ exec[o].at = "validate" /\ StorageFault
    /\ \E S \in SUBSET Moved(exec[o].j) : paused' = paused \cup S
    /\ Fail(o)
    /\ UNCHANGED <<mapping, live, fresh, outcome, handoff, poll, trigger>>

\* rsync and checksum verification, volume by volume.
Copy(o) ==
    /\ exec[o].at = "stopped"
    /\ fresh' = [v \in Vol |-> IF v \in Placed(exec[o].j) /\ live[v] \in fresh[v]
                               THEN fresh[v] \cup {exec[o].j.target[v]} ELSE fresh[v]]
    /\ WriteJournal(o, exec[o].j) /\ Goto(o, "copied")
    /\ UNCHANGED <<mapping, live, paused, outcome, handoff, poll, trigger, storageFaults>>

\* A failed copy resumes the owners.
CopyFails(o) ==
    /\ exec[o].at = "stopped" /\ StorageFault
    /\ paused' = paused \ Moved(exec[o].j)
    /\ Fail(o)
    /\ UNCHANGED <<mapping, live, fresh, outcome, handoff, poll, trigger>>

\* Persist the merged mapping: over what the operation remembers, not over
\* what an operation in between has committed.
Commit(o) ==
    /\ exec[o].at = "copied"
    /\ active' = Merge(exec[o].j)
    /\ reverted' = {v \in Vol \ Moved(exec[o].j) : v \in reverted \/ active'[v] # active[v]}
    /\ Goto(o, "committed")
    /\ UNCHANGED <<live, fresh, paused, files, poll, trigger, storageFaults>>

\* storage.json cannot be written (a migration then resumes the owners), or the
\* volumes cannot be listed for the binds of a rollback.
MappingFails(o) ==
    /\ exec[o].at \in {"copied", "rollback", "rebind"} /\ StorageFault
    /\ paused' = IF exec[o].at = "copied" THEN paused \ Moved(exec[o].j) ELSE paused
    /\ Fail(o)
    /\ UNCHANGED <<mapping, live, fresh, outcome, handoff, poll, trigger>>

\* Mutated form: only volumes that had no disk before are bound.
BindNew(o) ==
    /\ exec[o].at = "committed"
    /\ live' = [v \in Vol |-> IF v \in Placed(exec[o].j) /\ live[v] = "system"
                              THEN exec[o].j.target[v] ELSE live[v]]
    /\ WriteJournal(o, exec[o].j) /\ Goto(o, "bound")
    /\ UNCHANGED <<mapping, fresh, paused, outcome, handoff, poll, trigger, storageFaults>>

\* Bind every placed volume.
Bind(o) ==
    /\ exec[o].at = "committed"
    /\ live' = [v \in Vol |-> IF v \in Placed(exec[o].j) THEN exec[o].j.target[v]
                                                         ELSE live[v]]
    /\ WriteJournal(o, exec[o].j) /\ Goto(o, "bound")
    /\ UNCHANGED <<mapping, fresh, paused, outcome, handoff, poll, trigger, storageFaults>>

\* A failed bind leaves the mapping committed and the owners paused.
BindFails(o) ==
    /\ exec[o].at = "committed" /\ StorageFault
    /\ \E S \in SUBSET Placed(exec[o].j) :
          live' = [v \in Vol |-> IF v \in S THEN exec[o].j.target[v] ELSE live[v]]
    /\ Fail(o)
    /\ UNCHANGED <<mapping, fresh, paused, outcome, handoff, poll, trigger>>

\* resumeStorageApps after a migration or a rollback; canRollback stays as the
\* journal had it after a migration.
ResumeOwners(o) ==
    /\ exec[o].at \in {"bound", "rebound"}
    /\ paused' = paused \ Moved(exec[o].j)
    /\ LET s == IF exec[o].at = "bound" THEN "completed" ELSE "rolled_back" IN
       /\ WriteJournal(o, [exec[o].j EXCEPT !.status = s, !.canResume = @ /\ s = "completed",
                                            !.canRollback = @ /\ s = "completed"])
       /\ End(o, s)
    /\ UNCHANGED <<mapping, live, fresh, outcome, handoff, poll, trigger, storageFaults>>

ResumeOwnersFails(o) ==
    /\ exec[o].at \in {"bound", "rebound"} /\ StorageFault
    /\ \E S \in SUBSET Moved(exec[o].j) : paused' = paused \ S
    /\ Fail(o)
    /\ UNCHANGED <<mapping, live, fresh, outcome, handoff, poll, trigger>>

\* executeStorageRollback: the mapping first,
RestoreMapping(o) ==
    /\ exec[o].at = "rollback"
    /\ active' = exec[o].j.previous /\ reverted' = {}
    /\ Goto(o, "rebind")
    /\ UNCHANGED <<live, fresh, paused, files, poll, trigger, storageFaults>>

\* then the binds of the volumes that were on a disk; errors are ignored.
Rebind(o) ==
    LET onDisk == {v \in Vol : exec[o].j.previous[v] \in Disk} IN
    /\ exec[o].at = "rebind"
    /\ \E S \in SUBSET onDisk :
          /\ S # onDisk => storageFaults < StorageFaults
          /\ storageFaults' = IF S = onDisk THEN storageFaults ELSE storageFaults + 1
          /\ live' = [v \in Vol |-> IF v \in S THEN exec[o].j.previous[v] ELSE live[v]]
    /\ Goto(o, "rebound")
    /\ UNCHANGED <<mapping, fresh, paused, files, poll, trigger>>

\* writeStorageOutcome, and the unit ends.
WriteOutcome(o) ==
    /\ exec[o].at = "ended"
    /\ outcome' = [outcome EXCEPT ![o] = exec[o].result]
    /\ exec' = [exec EXCEPT ![o] = Idle]
    /\ UNCHANGED <<data, journal, handoff, poll, trigger, storageFaults>>

ExecStep(o) ==
    \/ ReadHandoff(o) \/ LoadJournal(o)
    \/ PauseOwners(o) \/ Copy(o) \/ Commit(o) \/ Bind(o)
    \/ RestoreMapping(o) \/ Rebind(o) \/ ResumeOwners(o) \/ WriteOutcome(o)

ExecFails(o) ==
    \/ ValidateFails(o) \/ CopyFails(o) \/ MappingFails(o) \/ BindFails(o)
    \/ ResumeOwnersFails(o)

-----------------------------------------------------------------------------
(* The environment. *)

\* An application that is not paused writes to its volume.
AppWrites(v) ==
    /\ v \notin paused /\ fresh[v] # {live[v]}
    /\ fresh' = [fresh EXCEPT ![v] = {live[v]}]
    /\ UNCHANGED <<mapping, live, paused, files, exec, poll, trigger, storageFaults>>

\* The executor is killed.
ExecKilled(o) ==
    /\ exec[o].at # "idle" /\ StorageFault
    /\ exec' = [exec EXCEPT ![o] = Idle]
    /\ UNCHANGED <<data, files, poll, trigger>>

\* omahabd is restarted.
StorageDaemonCrash ==
    /\ (poll # NoPoll \/ trigger # NoPoll) /\ StorageFault
    /\ poll' = NoPoll /\ trigger' = NoPoll
    /\ UNCHANGED <<data, files, exec>>

\* The machine reboots: tmpfs is wiped and the storage units bind what
\* storage.json says.
StorageReboot ==
    /\ StorageFault
    /\ live' = active
    /\ handoff' = [o \in Op |-> "none"]
    /\ exec' = [o \in Op |-> Idle]
    /\ poll' = NoPoll /\ trigger' = NoPoll
    /\ UNCHANGED <<mapping, fresh, paused, journal, outcome>>

StorageNext ==
    \/ \E o \in Op : \/ \E t \in Request : Configure(o, t)
                     \/ Resume(o) \/ Rollback(o) \/ Dismiss(o) \/ PollRead(o)
                     \/ ExecStep(o) \/ ExecFails(o) \/ ExecKilled(o)
    \/ StartExecutor \/ StartExecutorFails \/ PollWrite
    \/ \E v \in Vol : AppWrites(v)
    \/ StorageDaemonCrash \/ StorageReboot

\* A started unit runs to its end, a request of the daemon too, and the panel
\* keeps polling a live operation.
StorageFairness ==
    /\ \A o \in Op : WF_storageVars(ExecStep(o)) /\ WF_storageVars(PollRead(o))
    /\ WF_storageVars(StartExecutor) /\ WF_storageVars(PollWrite)

StorageSpec == StorageInit /\ [][StorageNext]_storageVars /\ StorageFairness

-----------------------------------------------------------------------------
(* Properties. *)

\* When a migration commits its mapping, every disk it moves a volume to holds
\* what the volume's mount holds: writers stopped, copied and verified before the
\* boot mapping names the disk, whatever failed, was retried or was killed.  (The
\* mount itself may be behind: a reboot in between binds what storage.json says.)
MigratedAreVerified ==
    [][\A o \in Op : exec[o].at = "copied" /\ exec'[o].at = "committed" =>
          \A v \in Placed(exec[o].j) :
             /\ active'[v] = exec[o].j.target[v]
             /\ live[v] \in fresh[v] => active'[v] \in fresh'[v]]_storageVars

\* An operation that is running settles: its executor ends, and polling finds
\* the outcome, unless something was killed or failed.
Settled(o) == journal[o].status \notin {"running", "rolling_back"}
OpsSettle == \A o \in Op : ~Settled(o) ~> (Settled(o) \/ storageFaults > 0)

\* mergeActivePlacements: "every entry is a live binding".  While no executor is
\* at work and nothing has failed, the disk that the boot mapping names for a
\* volume is the one mounted there: a reboot changes nothing.  Excepted are the
\* entries that a commit put back to what its operation had read when it was
\* configured (mergeActivePlacements(j.Previous, ...)), before another one committed.
BoundAsFiled ==
    (\A o \in Op : exec[o].at = "idle") /\ storageFaults = 0 =>
        \A v \in Vol \ reverted : active[v] \in Disk => live[v] = active[v]

=============================================================================
