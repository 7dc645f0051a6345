--------------------------- MODULE AppMaintenance ---------------------------
(***************************************************************************)
(* The lifecycle of the platform applications (internal/apps/service.go)   *)
(* and the maintenance pauses that import, storage and restore work take   *)
(* on them (internal/controlplane/maintenance.go, internal/apps/           *)
(* maintenance.go).                                                        *)
(*                                                                         *)
(* One row per bundle.  A pause has two halves: a record in the control    *)
(* database (what the API and Service.Start consult) and a marker file     *)
(* (what the systemd unit's ConditionPathExists consults).  A pause or a   *)
(* resume is a multi-step job that holds the maintenance flock; API calls  *)
(* hold only the per-application mutex of the daemon process, and the      *)
(* storage executor is another process that shares the flock but not those *)
(* mutexes.                                                                *)
(***************************************************************************)
EXTENDS Naturals

CONSTANTS
    Bundle,      \* the catalog's bundles
    Deps,        \* Deps[b]: the catalog dependencies of bundle b
    MaxFaults    \* bound: crashes, reboots and I/O errors in one behavior

ASSUME DepsAssumption == Deps \in [Bundle -> SUBSET Bundle]

ASSUME FaultsAssumption == MaxFaults \in Nat

\* topoSortBundles rejects a catalog with a dependency cycle.
ASSUME AcyclicAssumption ==
    \A S \in SUBSET Bundle : S # {} => \E b \in S : Deps[b] \cap S = {}

Reason   == {"import", "storage", "restore"}
Desired  == {"running", "stopped"}
Observed == {"absent", "provisioning", "running", "stopped", "failed"}
Call     == {"none", "start", "stop", "checked", "install"}
Kind     == {"idle", "pause", "resume", "storage"}
Phase    == {"idle", "quiesce", "record", "mark", "work",
             "clear", "unmark", "start", "starting"}

VARIABLES
    desired,    \* apps.desired_state
    observed,   \* apps.observed_state; "absent" stands for no row
    unit,       \* is the bundle's systemd unit active?
    record,     \* app_maintenance.reason, or "none"
    marker,     \* does <state>/maintenance/apps/<bundle> exist?
    call,       \* the API call in flight on the bundle (its mutex holder)
    kind,       \* who holds the maintenance flock, and for what
    phase,      \* how far that job is
    owners,     \* the bundles the job was asked for
    left,       \* owners still to be paused
    todo,       \* bundles the current loop of the job has not visited yet
    cur,        \* the bundle the current loop iteration is at
    daemon,     \* "down", "read", "restored" (reconciling) or "up"
    snap,       \* the bundles whose records ReconcileMaintenance listed
    acked,      \* history: pauses both halves of which were written
    quiet,      \* history: no job ran since ReconcileMaintenance listed
    faults      \* faults so far, bounded by MaxFaults

rowVars  == <<desired, observed, unit, call>>
jobVars  == <<kind, phase, owners, left, todo, cur>>
bootVars == <<daemon, snap>>
ghost    == <<quiet, faults>>
pauses   == <<record, marker, acked>>
vars     == <<rowVars, jobVars, bootVars, pauses, ghost>>

TypeOK ==
    /\ desired  \in [Bundle -> Desired]
    /\ observed \in [Bundle -> Observed]
    /\ unit     \in [Bundle -> BOOLEAN]
    /\ record   \in [Bundle -> Reason \cup {"none"}]
    /\ marker   \in [Bundle -> BOOLEAN]
    /\ call     \in [Bundle -> Call]
    /\ kind \in Kind
    /\ phase \in Phase
    /\ owners \in SUBSET Bundle
    /\ left   \in SUBSET Bundle
    /\ todo   \in SUBSET Bundle
    /\ cur \in Bundle \cup {"none"}
    /\ daemon \in {"down", "read", "restored", "up"}
    /\ snap \in SUBSET Bundle
    /\ acked \in SUBSET Bundle
    /\ quiet \in BOOLEAN
    /\ faults \in Nat

-----------------------------------------------------------------------------
(* The catalog's dependency order. *)

\* S holds bundle t and every bundle that depends on a member of S.
ClosedUnderDependents(S, t) ==
    t \in S /\ \A b \in Bundle : Deps[b] \cap S # {} => b \in S

\* affectedBundles: the target and its transitive dependents.
Affected(t) ==
    {b \in Bundle : \A S \in SUBSET Bundle : ClosedUnderDependents(S, t) => b \in S}

\* topoSortBundles, walked backwards: b has no dependent left in S.
LastOf(b, S) == b \in S /\ \A c \in S : b \notin Deps[c]

\* topoSortBundles, walked forwards: b has no dependency left in S.
FirstOf(b, S) == b \in S /\ Deps[b] \cap S = {}

\* The order in which a job visits its bundles on the way back up: sorted for
\* an import resume, request order for the owners of a storage operation.
NextUp(b) == IF kind = "resume" THEN FirstOf(b, todo) ELSE b \in todo

\* The maintenance reason the job records.
JobReason == IF kind = "storage" THEN "storage" ELSE "import"

\* The daemon's jobs take the same per-application mutexes as its API calls.
MutexFree(b) == kind = "storage" \/ call[b] \notin {"start", "stop"}

\* Mutated form: the unit lacks its ConditionPathExists.
StartedUngated(b) == [unit EXCEPT ![b] = TRUE]

\* A unit with a marker fails its ConditionPathExists: systemctl start
\* succeeds and leaves it as it was.
Started(b) == [unit EXCEPT ![b] = @ \/ ~marker[b]]

-----------------------------------------------------------------------------
Init ==
    /\ desired = [b \in Bundle |-> "stopped"]
    /\ observed = [b \in Bundle |-> "absent"]
    /\ unit = [b \in Bundle |-> FALSE]
    /\ record = [b \in Bundle |-> "none"]
    /\ marker = [b \in Bundle |-> FALSE]
    /\ call = [b \in Bundle |-> "none"]
    /\ kind = "idle" /\ phase = "idle"
    /\ owners = {} /\ left = {} /\ todo = {}
    /\ cur = "none"
    /\ daemon = "up" /\ snap = {}
    /\ acked = {} /\ quiet = TRUE /\ faults = 0

-----------------------------------------------------------------------------
(* API calls: internal/apps/service.go. *)

\* Install consults the maintenance record before it takes the name lock.
InstallCheck(b) ==
    /\ daemon = "up" /\ call[b] = "none" /\ observed[b] = "absent"
    /\ record[b] = "none"
    /\ call' = [call EXCEPT ![b] = "checked"]
    /\ UNCHANGED <<desired, observed, unit, pauses, jobVars, bootVars, ghost>>

\* Install claims the row as provisioning.
InstallClaim(b) ==
    /\ call[b] = "checked"
    /\ desired' = [desired EXCEPT ![b] = "running"]
    /\ observed' = [observed EXCEPT ![b] = "provisioning"]
    /\ call' = [call EXCEPT ![b] = "install"]
    /\ UNCHANGED <<unit, pauses, jobVars, bootVars, ghost>>

\* Deploy restarts the units: running, or failed and removed (stopped) again.
InstallEnd(b) ==
    /\ call[b] = "install"
    /\ \/ /\ observed' = [observed EXCEPT ![b] = "running"]
          /\ unit' = [unit EXCEPT ![b] = ~marker[b]]
       \/ /\ observed' = [observed EXCEPT ![b] = "failed"]
          /\ unit' = [unit EXCEPT ![b] = FALSE]
    /\ call' = [call EXCEPT ![b] = "none"]
    /\ UNCHANGED <<desired, pauses, jobVars, bootVars, ghost>>

\* Start passes its gates and records the desired state.
StartBegin(b) ==
    /\ daemon = "up" /\ call[b] = "none"
    /\ observed[b] \notin {"absent", "provisioning"}
    /\ record[b] = "none"
    /\ ~(desired[b] = "running" /\ observed[b] = "running")
    /\ desired' = [desired EXCEPT ![b] = "running"]
    /\ call' = [call EXCEPT ![b] = "start"]
    /\ UNCHANGED <<observed, unit, pauses, jobVars, bootVars, ghost>>

\* The runner starts the unit and Start records what it observed, or fails.
StartEnd(b) ==
    /\ call[b] = "start"
    /\ \/ /\ unit' = Started(b)
          /\ observed' = [observed EXCEPT ![b] = "running"]
       \/ UNCHANGED <<unit, observed>>
    /\ call' = [call EXCEPT ![b] = "none"]
    /\ UNCHANGED <<desired, pauses, jobVars, bootVars, ghost>>

\* Stop is not gated by maintenance; on a stopped app it only cancels a
\* pending start.
StopBegin(b) ==
    /\ daemon = "up" /\ call[b] = "none"
    /\ observed[b] \in {"running", "failed", "stopped"}
    /\ desired' = [desired EXCEPT ![b] = "stopped"]
    /\ call' = IF observed[b] = "stopped" THEN call
                                           ELSE [call EXCEPT ![b] = "stop"]
    /\ UNCHANGED <<observed, unit, pauses, jobVars, bootVars, ghost>>

StopEnd(b) ==
    /\ call[b] = "stop"
    /\ \/ /\ unit' = [unit EXCEPT ![b] = FALSE]
          /\ observed' = [observed EXCEPT ![b] = "stopped"]
       \/ UNCHANGED <<unit, observed>>
    /\ call' = [call EXCEPT ![b] = "none"]
    /\ UNCHANGED <<desired, pauses, jobVars, bootVars, ghost>>

ApiStep(b) ==
    \/ InstallCheck(b) \/ InstallClaim(b) \/ InstallEnd(b)
    \/ StartBegin(b) \/ StartEnd(b) \/ StopBegin(b) \/ StopEnd(b)

-----------------------------------------------------------------------------
(* Jobs under the maintenance flock. *)

\* One more fault, within the bound.
Fault == faults < MaxFaults /\ faults' = faults + 1 /\ UNCHANGED quiet

IdleJob ==
    /\ kind' = "idle" /\ phase' = "idle"
    /\ owners' = {} /\ left' = {} /\ todo' = {} /\ cur' = "none"

\* The flock is free; from here on a concurrent reconcile is not alone.
TakeFlock(k) == kind = "idle" /\ kind' = k /\ quiet' = FALSE /\ UNCHANGED faults

\* PauseAppForImport takes the flock (blocking) and starts pauseAppLocked.
PauseAcquire(t) ==
    /\ daemon = "up" /\ observed[t] # "absent" /\ TakeFlock("pause")
    /\ phase' = "quiesce" /\ owners' = {t} /\ left' = {}
    /\ todo' = Affected(t) /\ cur' = t
    /\ UNCHANGED <<rowVars, pauses, bootVars>>

\* executeStorageMigration under the flock: pause each owning bundle in turn.
StorageAcquire(S) ==
    /\ S # {} /\ TakeFlock("storage")
    /\ phase' = "quiesce" /\ owners' = S /\ left' = S /\ todo' = {}
    /\ UNCHANGED <<cur, rowVars, pauses, bootVars>>

\* The next owner of a storage operation.  An installed one is paused with its
\* dependents; one that is not installed is recorded and marked directly.
StorageNextOwner(t) ==
    /\ kind = "storage" /\ phase = "quiesce" /\ todo = {} /\ t \in left
    /\ left' = left \ {t} /\ cur' = t
    /\ IF observed[t] = "absent" THEN todo' = {t} /\ phase' = "record"
                                 ELSE todo' = Affected(t) /\ UNCHANGED phase
    /\ UNCHANGED <<rowVars, pauses, kind, owners, bootVars, ghost>>

\* Quiesce, dependents first: stop the unit, keep the desired state.  The
\* record loop of pauseAppLocked starts once every affected bundle is quiet.
Quiesce(b) ==
    /\ phase = "quiesce" /\ LastOf(b, todo) /\ MutexFree(b)
    /\ observed[b] # "provisioning"
    /\ IF observed[b] \in {"stopped", "absent"}
       THEN UNCHANGED <<unit, observed>>
       ELSE /\ unit' = [unit EXCEPT ![b] = FALSE]
            /\ observed' = [observed EXCEPT ![b] = "stopped"]
    /\ IF todo = {b} THEN phase' = "record" /\ todo' = Affected(cur)
                     ELSE todo' = todo \ {b} /\ UNCHANGED phase
    /\ UNCHANGED <<desired, call, pauses, kind, owners, left, cur, bootVars, ghost>>

\* PauseForMaintenance: upsert the record, whoever owned it before.
PauseRecord(b) ==
    /\ phase = "record" /\ FirstOf(b, todo)
    /\ record' = [record EXCEPT ![b] = JobReason]
    /\ phase' = "mark" /\ cur' = b
    /\ UNCHANGED <<rowVars, marker, acked, kind, owners, left, todo, bootVars, ghost>>

\* writeMarker.  After the last bundle an import pause is done; a storage
\* operation goes to its next owner, and to the copy after the last one.
PauseMark ==
    /\ phase = "mark"
    /\ marker' = [marker EXCEPT ![cur] = TRUE]
    /\ acked' = acked \cup {cur}
    /\ IF todo # {cur}
       THEN /\ todo' = todo \ {cur} /\ phase' = "record"
            /\ UNCHANGED <<kind, owners, left, cur>>
       ELSE \/ kind = "pause" /\ IdleJob
            \/ /\ kind = "storage" /\ todo' = {}
               /\ phase' = IF left = {} THEN "work" ELSE "quiesce"
               /\ UNCHANGED <<kind, owners, left, cur>>
    /\ UNCHANGED <<rowVars, record, bootVars, ghost>>

\* The copy ends, well or not: resumeStorageApps visits the owners.  (A failed
\* bind returns without it: JobAbort.)
StorageWork ==
    /\ phase = "work"
    /\ phase' = "clear" /\ todo' = owners
    /\ UNCHANGED <<rowVars, pauses, kind, owners, left, cur, bootVars, ghost>>

\* ResumeAppFromImport: every affected record is import or absent.
ResumeAcquire(t) ==
    /\ daemon = "up" /\ observed[t] # "absent"
    /\ \A b \in Affected(t) : record[b] \in {"none", "import"}
    /\ TakeFlock("resume")
    /\ phase' = "clear" /\ owners' = Affected(t) /\ left' = {}
    /\ todo' = Affected(t) /\ UNCHANGED cur
    /\ UNCHANGED <<rowVars, pauses, bootVars>>

\* clearMaintenance (import) and clearStorageMaintenance refuse a record that
\* another operation owns.
Clearable(b) ==
    IF kind = "resume" THEN record[b] \notin {"storage", "restore"}
                       ELSE record[b] \in {"none", "storage"}

\* Delete the record.
Clear(b) ==
    /\ phase = "clear" /\ NextUp(b) /\ Clearable(b)
    /\ record' = [record EXCEPT ![b] = "none"]
    /\ acked' = acked \ {b}
    /\ phase' = "unmark" /\ cur' = b
    /\ UNCHANGED <<rowVars, marker, kind, owners, left, todo, bootVars, ghost>>

\* os.Remove of the marker, its error ignored; then the next bundle, or the
\* start loop.
Unmark ==
    /\ phase = "unmark"
    /\ \/ marker' = [marker EXCEPT ![cur] = FALSE] /\ UNCHANGED ghost
       \/ Fault /\ UNCHANGED marker
    /\ IF todo = {cur} THEN phase' = "start" /\ todo' = owners
                       ELSE phase' = "clear" /\ todo' = todo \ {cur}
    /\ UNCHANGED <<rowVars, record, acked, kind, owners, left, cur, bootVars>>

\* The start loop reads the status: an app that is not wanted is skipped.
ResumeSkip(b) ==
    /\ phase = "start" /\ NextUp(b)
    /\ observed[b] = "absent" \/ desired[b] # "running"
    /\ todo' = todo \ {b}
    /\ UNCHANGED <<rowVars, pauses, kind, phase, owners, left, cur, bootVars, ghost>>

\* A wanted app: the status was read, Start is called next.
ResumeWanted(b) ==
    /\ phase = "start" /\ NextUp(b)
    /\ observed[b] # "absent" /\ desired[b] = "running"
    /\ phase' = "starting" /\ cur' = b
    /\ UNCHANGED <<rowVars, pauses, kind, owners, left, todo, bootVars, ghost>>

\* Service.Start on behalf of the job, with the gates of StartBegin.
ResumeStart ==
    /\ phase = "starting" /\ MutexFree(cur)
    /\ observed[cur] # "provisioning" /\ record[cur] = "none"
    /\ IF desired[cur] = "running" /\ observed[cur] = "running"
       THEN UNCHANGED <<desired, unit, observed>>
       ELSE /\ desired' = [desired EXCEPT ![cur] = "running"]
            /\ unit' = Started(cur)
            /\ observed' = [observed EXCEPT ![cur] = "running"]
    /\ phase' = "start" /\ todo' = todo \ {cur}
    /\ UNCHANGED <<call, pauses, kind, owners, left, cur, bootVars, ghost>>

\* CheckHealth on every wanted app of an import resume: not paused again,
\* observed running, and its unit answers.
ResumedHealthy ==
    kind = "resume" =>
        \A b \in owners : observed[b] # "absent" /\ desired[b] = "running"
                             => record[b] = "none" /\ observed[b] = "running" /\ unit[b]

\* All started, and for an import resume all healthy.
ResumeDone ==
    /\ phase = "start" /\ todo = {} /\ ResumedHealthy
    /\ IdleJob
    /\ UNCHANGED <<rowVars, pauses, bootVars, ghost>>

\* Mutated form: Quiesce waits for a provisioning app.
InConflictNoProvisioning ==
    \/ /\ phase = "clear"
       /\ \E b \in todo : NextUp(b) /\ ~Clearable(b)
    \/ phase = "starting" /\ MutexFree(cur) /\ record[cur] # "none"
    \/ phase = "start" /\ todo = {} /\ ~ResumedHealthy

\* The states in which the job's next call returns a conflict.
InConflict ==
    \/ /\ phase = "quiesce"
       /\ \E b \in todo : LastOf(b, todo) /\ MutexFree(b) /\ observed[b] = "provisioning"
    \/ /\ phase = "clear"
       /\ \E b \in todo : NextUp(b) /\ ~Clearable(b)
    \/ /\ phase = "starting" /\ MutexFree(cur)
       /\ observed[cur] = "provisioning" \/ record[cur] # "none"
    \/ phase = "start" /\ todo = {} /\ ~ResumedHealthy

\* A conflict ends the job and releases the flock with the work half done.
JobConflict ==
    /\ InConflict
    /\ IdleJob
    /\ UNCHANGED <<rowVars, pauses, bootVars, ghost>>

\* So does an I/O error in any step, or the death of the executor.  A Start
\* that failed has recorded its wish.
JobAbort ==
    /\ kind # "idle" /\ Fault
    /\ desired' = IF phase = "starting" /\ MutexFree(cur) /\ ~InConflict
                  THEN [desired EXCEPT ![cur] = "running"] ELSE desired
    /\ IdleJob
    /\ UNCHANGED <<observed, unit, call, pauses, bootVars>>

JobStep ==
    \/ \E b \in Bundle :
          StorageNextOwner(b) \/ Quiesce(b) \/ PauseRecord(b) \/ Clear(b)
          \/ ResumeSkip(b) \/ ResumeWanted(b)
    \/ PauseMark \/ StorageWork \/ Unmark \/ ResumeStart \/ ResumeDone \/ JobConflict

-----------------------------------------------------------------------------
(* Crashes and restarts. *)

\* Whatever systemctl was doing for a call may still take effect.
UnitAfterCrash(b) ==
    CASE call[b] \in {"start", "install"} -> {unit[b], unit[b] \/ ~marker[b]}
      [] call[b] = "stop"                 -> {unit[b], FALSE}
      [] OTHER                            -> {unit[b]}

\* omahabd dies: its calls and its jobs are gone, a storage executor is not.
DaemonCrash ==
    /\ daemon = "up" /\ Fault
    /\ daemon' = "down" /\ snap' = {}
    /\ unit' \in [Bundle -> BOOLEAN] /\ \A b \in Bundle : unit'[b] \in UnitAfterCrash(b)
    /\ call' = [b \in Bundle |-> "none"]
    /\ IF kind = "storage" THEN UNCHANGED jobVars ELSE IdleJob
    /\ UNCHANGED <<desired, observed, pauses>>

\* The machine reboots: units are wanted by multi-user.target and gated by
\* their environment file and their marker, never by the desired state.
Reboot ==
    /\ Fault /\ daemon' = "down" /\ snap' = {}
    /\ unit' = [b \in Bundle |-> observed[b] # "absent" /\ ~marker[b]]
    /\ call' = [b \in Bundle |-> "none"]
    /\ IdleJob
    /\ UNCHANGED <<desired, observed, pauses>>

\* ReconcileMaintenance, step by step, without the flock: list the records,
ReconcileRead ==
    /\ daemon = "down"
    /\ daemon' = "read" /\ snap' = {b \in Bundle : record[b] # "none"}
    /\ quiet' = (kind = "idle")
    /\ UNCHANGED <<rowVars, pauses, jobVars, faults>>

\* Mutated form: missing markers are not restored.
ReconcileMarkersNone ==
    /\ daemon = "read"
    /\ daemon' = "restored"
    /\ UNCHANGED <<rowVars, pauses, jobVars, snap, ghost>>

\* restore the missing marker of every listed record,
ReconcileMarkers ==
    /\ daemon = "read"
    /\ daemon' = "restored"
    /\ marker' = [b \in Bundle |-> marker[b] \/ b \in snap]
    /\ UNCHANGED <<rowVars, record, acked, jobVars, snap, ghost>>

\* Mutated form: converge toward running, dropping unlisted markers.
ReconcileAdoptDrops ==
    /\ daemon = "restored"
    /\ daemon' = "up" /\ snap' = {}
    /\ marker' = [b \in Bundle |-> marker[b] /\ b \in snap]
    /\ UNCHANGED <<rowVars, record, acked, jobVars, ghost>>

\* and adopt every marker that had no record as an import pause.
ReconcileAdopt ==
    /\ daemon = "restored"
    /\ daemon' = "up" /\ snap' = {}
    /\ record' = [b \in Bundle |-> IF marker[b] /\ b \notin snap THEN "import"
                                                               ELSE record[b]]
    /\ UNCHANGED <<rowVars, marker, acked, jobVars, ghost>>

BootStep == ReconcileRead \/ ReconcileMarkers \/ ReconcileAdopt

Next ==
    \/ \E b \in Bundle : ApiStep(b) \/ PauseAcquire(b) \/ ResumeAcquire(b)
    \/ \E S \in SUBSET Bundle : StorageAcquire(S)
    \/ JobStep \/ JobAbort
    \/ DaemonCrash \/ Reboot \/ BootStep

\* Runner commands return (they run under a timeout) and a started daemon
\* finishes its reconcile.  A job that waits for an application's mutex gets it
\* in the end, however many API calls compete for it: sync.Mutex hands itself
\* to a waiter that has starved, hence strong fairness.
Fairness ==
    /\ SF_vars(JobStep)
    /\ WF_vars(BootStep)
    /\ \A b \in Bundle : WF_vars(InstallEnd(b) \/ StartEnd(b) \/ StopEnd(b))

Spec == Init /\ [][Next]_vars /\ Fairness

-----------------------------------------------------------------------------
(* Properties. *)

Agree(b) == marker[b] <=> record[b] # "none"

\* A pause that was acknowledged (record and marker written by pauseAppLocked
\* or executeStorageMigration) keeps both halves until a flock holder deletes
\* its record, whatever crashes, reboots and reconciles come in between.
AckedStands == \A b \in acked : record[b] # "none" /\ marker[b]

\* While an acknowledged pause stands, nothing brings a unit that is down up
\* again: no call in flight, no boot, no start left over from a dead daemon.
PausedStaysDown ==
    [][\A b \in acked \cap acked' : ~unit[b] => ~unit'[b]]_vars

\* ReconcileMaintenance converges marker and database, provided that no job
\* took the flock since it listed the records.
ReconcileConverges ==
    [][daemon = "restored" /\ daemon' = "up" /\ quiet => \A b \in Bundle : Agree(b)']_vars

\* A pause, resume or storage job never holds the flock for ever: what it
\* cannot do is refused as a conflict, and the mutexes it waits for are freed.
JobsEnd == (kind # "idle") ~> (kind = "idle")

=============================================================================
