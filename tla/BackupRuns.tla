----------------------------- MODULE BackupRuns -----------------------------
(***************************************************************************)
(* Backups of the running server: the captures that stop the writers, run  *)
(* restic and start the writers again, the verifications that restore a    *)
(* snapshot in isolation, and the retention passes that forget snapshots.  *)
(*                                                                         *)
(*   internal/controlplane/backup_capture.go  CreateBackupScoped           *)
(*   internal/controlplane/backups_ops.go     VerifyBackup, PruneBackups   *)
(*   internal/backups/run.go                  RunBackup, failRun           *)
(*   internal/backups/verify.go               Verify                       *)
(*   internal/backups/retention.go            ApplyRetention               *)
(*                                                                         *)
(* A capture holds the maintenance lock; a verification and a retention    *)
(* pass do not.  Captures and verifications keep one row each in           *)
(* backup_runs, whose partial unique index admits one running row; a       *)
(* retention pass keeps none and is serialized by retentionMu alone.  An   *)
(* HTTP request's context ends after thirty seconds, and with it every     *)
(* statement and command the operation still runs on that context.         *)
(***************************************************************************)
EXTENDS Integers, FiniteSets, SequencesExt

CONSTANTS
    Capture,      \* requests for a backup
    Verify,       \* requests for a verification
    Writers,      \* the selected applications, in the order they are stopped
    MaxRequests,  \* bound: operator starts and stops of an application
    MaxPasses,    \* bound: retention passes
    MaxRunTroubles   \* bound: failing commands, ended contexts and deaths of the daemon

Writer == Range(Writers)
Op     == Capture \cup Verify
Unit   == "meilisearch"

\* A request is for one thing; Writers is a sequence, of applications.
ASSUME BackupRunsAssumption ==
    /\ Capture \cap Verify = {} /\ IsFiniteSet(Capture) /\ "none" \notin Capture
    /\ Writers \in Seq(Writer) /\ Unit \notin Writer

VARIABLES
    pc,        \* where each operation is
    liveOps,      \* the operations whose context has not ended
    plan,      \* what each capture found, stopped and read
    holder,    \* the capture that holds the maintenance lock, if any
    app,       \* each application: its row's desired and observed state, and its unit
    unit,      \* whether meilisearch.service is active
    row,       \* status of each operation's row in backup_runs
    proof,     \* status of each verification's row in backup_verifications
    target,    \* the snapshot each verification restores
    repo,      \* the snapshots restic holds
    listed,    \* backup_snapshots: when each snapshot was verified, 0 if never
    prune,     \* the retention pass that holds retentionMu
    reported,  \* the writers whose failed restart was reported
    slipped,   \* history: the writers that a stop which failed took down all the same
    spent       \* how much of each bound is spent

captures == <<plan, holder, app, unit, reported, slipped>>
records  == <<row, proof, target, repo, listed>>
runVars  == <<pc, liveOps, captures, records, prune, spent>>

\* Snapshots are numbered in the order restic takes them.
Snap == 1 .. Cardinality(Capture)
Nothing == "none"

NoPlan == [unitSeen |-> FALSE, unitStopped |-> FALSE, next |-> 1, stopped |-> <<>>,
           snap |-> 0, hot |-> {}, intruded |-> {}]
NoPass == [pc |-> "idle", remove |-> {}, at |-> 0]

RunsInit ==
    /\ pc = [o \in Op |-> "idle"]
    /\ liveOps = Op
    /\ plan = [c \in Capture |-> NoPlan]
    /\ holder = Nothing
    /\ app \in [Writer -> {[desired |-> d, observed |-> d, running |-> d] : d \in BOOLEAN}]
    /\ unit = TRUE
    /\ row = [o \in Op |-> Nothing]
    /\ proof = [v \in Verify |-> Nothing]
    /\ target = [v \in Verify |-> 0]
    /\ repo = {}
    /\ listed = <<>>
    /\ prune = NoPass
    /\ reported = {} /\ slipped = {}
    /\ spent = [requests |-> 0, faults |-> 0, cancels |-> 0, deaths |-> 0, passes |-> 0]

Spend(what) == spent' = [spent EXCEPT ![what] = @ + 1]

RunTrouble(what) ==
    /\ spent.faults + spent.cancels + spent.deaths < MaxRunTroubles
    /\ Spend(what)

\* A call on o's context fails: the context has ended, or the call itself fails.
CommandFails(o) ==
    IF o \in liveOps THEN RunTrouble("faults")
                  ELSE UNCHANGED spent

Goto(o, where) == pc' = [pc EXCEPT ![o] = where]
RunAt(o, where)   == pc[o] = where

-----------------------------------------------------------------------------
(* Rows of backup_runs.                                                     *)

NoActiveRun == \A o \in Op : row[o] # "running"

SetRun(o, status) == row' = [row EXCEPT ![o] = status]

\* failRun writes on the operation's own context: once that has ended the row stays.
FailRow(o) == IF o \in liveOps THEN SetRun(o, "failed") ELSE UNCHANGED row

-----------------------------------------------------------------------------
(* A capture: CreateBackupScoped, runCaptureLocked, RunBackup.              *)

\* The plan is made before the lock is taken, the state of the unit included.
PlanCapture(c) ==
    /\ RunAt(c, "idle")
    /\ plan' = [plan EXCEPT ![c].unitSeen = unit]
    /\ Goto(c, "planned")
    /\ UNCHANGED <<liveOps, holder, app, unit, reported, slipped, records, prune, spent>>

\* Under the lock the repository answers before any writer is stopped.
LockMaintenance(c) ==
    /\ RunAt(c, "planned") /\ holder = Nothing /\ c \in liveOps
    /\ holder' = c
    /\ Goto(c, "stopUnit")
    /\ UNCHANGED <<liveOps, plan, app, unit, reported, slipped, records, prune, spent>>

PreflightFails(c) ==
    /\ RunAt(c, "planned") /\ holder = Nothing /\ CommandFails(c)
    /\ Goto(c, "done")
    /\ UNCHANGED <<liveOps, captures, records, prune>>

\* Mutated form: the unit is written down as stopped and left running.
StopUnitNot(c) ==
    /\ RunAt(c, "stopUnit") /\ (plan[c].unitSeen => c \in liveOps)
    /\ plan' = [plan EXCEPT ![c].unitStopped = plan[c].unitSeen]
    /\ Goto(c, "quiesce")
    /\ UNCHANGED <<liveOps, holder, app, unit, reported, slipped, records, prune, spent>>

StopUnit(c) ==
    /\ RunAt(c, "stopUnit") /\ (plan[c].unitSeen => c \in liveOps)
    /\ IF plan[c].unitSeen
       THEN unit' = FALSE /\ plan' = [plan EXCEPT ![c].unitStopped = TRUE]
       ELSE UNCHANGED <<unit, plan>>
    /\ Goto(c, "quiesce")
    /\ UNCHANGED <<liveOps, holder, app, reported, slipped, records, prune, spent>>

Quiesced(c) == plan[c].next > Len(Writers)
NextWriter(c) == Writers[plan[c].next]

\* One writer of the plan: passed over if its row does not say running, else its unit
\* is stopped.  Quiesce holds the application's lock from here to its end.
QuiesceWriter(c) ==
    /\ RunAt(c, "quiesce") /\ ~Quiesced(c) /\ c \in liveOps
    /\ IF app[NextWriter(c)].observed
       THEN /\ app' = [app EXCEPT ![NextWriter(c)].running = FALSE]
            /\ Goto(c, "note") /\ UNCHANGED plan
       ELSE /\ plan' = [plan EXCEPT ![c].next = @ + 1]
            /\ UNCHANGED <<pc, app>>
    /\ UNCHANGED <<liveOps, holder, unit, reported, slipped, records, prune, spent>>

\* Mutated form: what was stopped is not put on the list of what to resume.
NoteQuiescedForgets(c) ==
    /\ RunAt(c, "note") /\ c \in liveOps
    /\ app' = [app EXCEPT ![NextWriter(c)].observed = FALSE]
    /\ plan' = [plan EXCEPT ![c].next = @ + 1]
    /\ Goto(c, "quiesce")
    /\ UNCHANGED <<liveOps, holder, unit, reported, slipped, records, prune, spent>>

\* Its row and the list of what to resume, once Quiesce has come back.
NoteQuiesced(c) ==
    /\ RunAt(c, "note") /\ c \in liveOps
    /\ app' = [app EXCEPT ![NextWriter(c)].observed = FALSE]
    /\ plan' = [plan EXCEPT ![c].next = @ + 1, ![c].stopped = Append(@, NextWriter(c))]
    /\ Goto(c, "quiesce")
    /\ UNCHANGED <<liveOps, holder, unit, reported, slipped, records, prune, spent>>

\* The stop of the unit fails, and may have taken it down.
StopUnitFails(c) ==
    /\ RunAt(c, "stopUnit") /\ plan[c].unitSeen
    /\ CommandFails(c)
    /\ unit' \in {unit, FALSE}
    /\ slipped' = IF unit' # unit THEN slipped \cup {Unit} ELSE slipped
    /\ Goto(c, "resume")
    /\ UNCHANGED <<liveOps, plan, holder, app, reported, records, prune>>

\* The row cannot be read; or the stop fails, and may have taken the unit down; or the
\* unit is down and its row or the answer fails.  What is on the list by then is resumed,
\* and this writer is not on it.
QuiesceFails(c) ==
    /\ \/ RunAt(c, "quiesce") /\ ~Quiesced(c)
       \/ RunAt(c, "note")
    /\ CommandFails(c)
    /\ LET a == NextWriter(c) IN
        /\ \/ UNCHANGED app
           \/ RunAt(c, "quiesce") /\ app[a].observed /\ app' = [app EXCEPT ![a].running = FALSE]
           \/ RunAt(c, "note") /\ app' = [app EXCEPT ![a].observed = FALSE]
        /\ slipped' = IF app'[a].running THEN slipped ELSE slipped \cup {a}
    /\ Goto(c, "resume")
    /\ UNCHANGED <<liveOps, plan, holder, unit, reported, records, prune>>

Dump(c) ==
    /\ RunAt(c, "quiesce") /\ Quiesced(c) /\ c \in liveOps
    /\ Goto(c, "begin")
    /\ UNCHANGED <<liveOps, captures, records, prune, spent>>

DumpFails(c) ==
    /\ RunAt(c, "quiesce") /\ Quiesced(c) /\ CommandFails(c)
    /\ Goto(c, "resume")
    /\ UNCHANGED <<liveOps, captures, records, prune>>

BeginRun(c) ==
    /\ RunAt(c, "begin") /\ c \in liveOps /\ NoActiveRun
    /\ SetRun(c, "running")
    /\ Goto(c, "restic")
    /\ UNCHANGED <<liveOps, captures, proof, target, repo, listed, prune, spent>>

\* ErrOperationInProgress, or the row cannot be written.
BeginRunRefused(c) ==
    /\ RunAt(c, "begin")
    /\ \/ ~NoActiveRun /\ UNCHANGED spent
       \/ CommandFails(c)
    /\ Goto(c, "resume")
    /\ UNCHANGED <<liveOps, captures, records, prune>>

NextSnap == Cardinality({c \in Capture : plan[c].snap # 0}) + 1

Hot == {a \in Writer : app[a].running} \cup (IF unit THEN {Unit} ELSE {})

\* restic reads the sources.
TakeSnapshot(c) ==
    /\ RunAt(c, "restic") /\ c \in liveOps
    /\ repo' = repo \cup {NextSnap}
    /\ plan' = [plan EXCEPT ![c].snap = NextSnap, ![c].hot = Hot]
    /\ Goto(c, "record")
    /\ UNCHANGED <<liveOps, holder, app, unit, reported, slipped, row, proof, target, listed, prune, spent>>

\* The listing row of the snapshot, not verified yet.
RecordSnapshot(c) ==
    /\ RunAt(c, "record") /\ c \in liveOps
    /\ listed' = [s \in DOMAIN listed \cup {plan[c].snap} |->
                    IF s \in DOMAIN listed THEN listed[s] ELSE 0]
    /\ Goto(c, "complete")
    /\ UNCHANGED <<liveOps, captures, row, proof, target, repo, prune, spent>>

CaptureFails(c) ==
    /\ pc[c] \in {"restic", "record"} /\ CommandFails(c)
    /\ FailRow(c)
    /\ Goto(c, "resume")
    /\ UNCHANGED <<liveOps, captures, proof, target, repo, listed, prune>>

CompleteRun(c) ==
    /\ RunAt(c, "complete") /\ c \in liveOps
    /\ SetRun(c, "completed")
    /\ Goto(c, "resume")
    /\ UNCHANGED <<liveOps, captures, proof, target, repo, listed, prune, spent>>

\* The last update is not retried and not turned into a failure.
CompleteRunFails(c) ==
    /\ RunAt(c, "complete") /\ CommandFails(c)
    /\ Goto(c, "resume")
    /\ UNCHANGED <<liveOps, captures, records, prune>>

\* resumeCapture runs on a context of its own, so the end of the request's does not
\* reach it: the last writer stopped first, and only if it is still wanted.
ResumeLook(c) ==
    /\ RunAt(c, "resume") /\ plan[c].stopped # <<>>
    /\ IF app[Last(plan[c].stopped)].desired
       THEN Goto(c, "start") /\ UNCHANGED plan
       ELSE plan' = [plan EXCEPT ![c].stopped = Front(@)] /\ UNCHANGED pc
    /\ UNCHANGED <<liveOps, holder, app, unit, reported, slipped, records, prune, spent>>

\* What Start has written and done when it ends after n of its steps.
Started(s, n) == [desired  |-> s.desired \/ n >= 1, running |-> s.running \/ n >= 2,
                  observed |-> s.observed \/ n >= 3]

\* Status again fails, or Start does, wherever it had got to: the error is joined to
\* the answer.
ResumeFails(c) ==
    /\ \/ RunAt(c, "resume") /\ plan[c].stopped # <<>> /\ UNCHANGED app
       \/ /\ RunAt(c, "start")
          /\ \E n \in 0 .. 3 : app' = [app EXCEPT ![Last(plan[c].stopped)] = Started(@, n)]
    /\ RunTrouble("faults")
    /\ reported' = reported \cup {Last(plan[c].stopped)}
    /\ plan' = [plan EXCEPT ![c].stopped = Front(@)]
    /\ Goto(c, "resume")
    /\ UNCHANGED <<liveOps, holder, unit, slipped, records, prune>>

ResumeStart(c) ==
    /\ RunAt(c, "start")
    /\ app' = [app EXCEPT ![Last(plan[c].stopped)] = Started(@, 3)]
    /\ plan' = [plan EXCEPT ![c].stopped = Front(@)]
    /\ slipped' = slipped \ {Last(plan[c].stopped)}
    /\ Goto(c, "resume")
    /\ UNCHANGED <<liveOps, holder, unit, reported, records, prune, spent>>

\* The units last; then the lock is given back and the request answered.
Release(c) ==
    /\ RunAt(c, "resume") /\ plan[c].stopped = <<>>
    /\ \/ /\ unit' = (unit \/ plan[c].unitStopped)
          /\ UNCHANGED <<reported, spent>>
       \/ /\ plan[c].unitStopped
          /\ RunTrouble("faults")
          /\ reported' = reported \cup {Unit}
          /\ unit' \in {unit, TRUE}
    /\ plan' = [plan EXCEPT ![c].unitStopped = FALSE]
    /\ holder' = Nothing
    /\ Goto(c, "done")
    /\ UNCHANGED <<liveOps, app, slipped, records, prune>>

-----------------------------------------------------------------------------
(* A verification: VerifyBackup and Verify.                                 *)

\* The run whose backup is verified names a snapshot that is still listed.
SelectSnapshot(v) ==
    /\ RunAt(v, "idle") /\ v \in liveOps
    /\ \E s \in DOMAIN listed : target' = [target EXCEPT ![v] = s]
    /\ Goto(v, "begin")
    /\ UNCHANGED <<liveOps, captures, row, proof, repo, listed, prune, spent>>

BeginVerify(v) ==
    /\ RunAt(v, "begin") /\ v \in liveOps /\ NoActiveRun
    /\ SetRun(v, "running")
    /\ Goto(v, "prepare")
    /\ UNCHANGED <<liveOps, captures, proof, target, repo, listed, prune, spent>>

BeginVerifyRefused(v) ==
    /\ RunAt(v, "begin")
    /\ \/ ~NoActiveRun /\ UNCHANGED spent
       \/ CommandFails(v)
    /\ Goto(v, "done")
    /\ UNCHANGED <<liveOps, captures, records, prune>>

\* Credentials, the single-use target directory and the verification's row.
PrepareVerify(v) ==
    /\ RunAt(v, "prepare") /\ v \in liveOps
    /\ proof' = [proof EXCEPT ![v] = "running"]
    /\ Goto(v, "restore")
    /\ UNCHANGED <<liveOps, captures, row, target, repo, listed, prune, spent>>

PrepareVerifyFails(v) ==
    /\ RunAt(v, "prepare") /\ CommandFails(v)
    /\ FailRow(v)
    /\ Goto(v, "done")
    /\ UNCHANGED <<liveOps, captures, proof, target, repo, listed, prune>>

RestoreIsolated(v) ==
    /\ RunAt(v, "restore") /\ v \in liveOps /\ target[v] \in repo
    /\ Goto(v, "check")
    /\ UNCHANGED <<liveOps, captures, records, prune, spent>>

\* restic check and the staging validator, then the passed row.
PassVerification(v) ==
    /\ RunAt(v, "check") /\ v \in liveOps
    /\ proof' = [proof EXCEPT ![v] = "passed"]
    /\ Goto(v, "mark")
    /\ UNCHANGED <<liveOps, captures, row, target, repo, listed, prune, spent>>

\* Verifications are timed by their order.
Latest == Max({listed[s] : s \in DOMAIN listed} \cup {0})

MarkSnapshotVerified(v) ==
    /\ RunAt(v, "mark") /\ v \in liveOps /\ target[v] \in DOMAIN listed
    /\ listed' = [listed EXCEPT ![target[v]] = Latest + 1]
    /\ Goto(v, "complete")
    /\ UNCHANGED <<liveOps, captures, row, proof, target, repo, prune, spent>>

\* Mutated form: a passed verification is never taken back.
VerificationFailsKeepsPassed(v) ==
    /\ \/ pc[v] \in {"restore", "check", "mark"} /\ CommandFails(v)
       \/ RunAt(v, "restore") /\ target[v] \notin repo /\ UNCHANGED spent
       \/ RunAt(v, "mark") /\ target[v] \notin DOMAIN listed /\ UNCHANGED spent
    /\ FailRow(v)
    /\ IF v \in liveOps /\ proof[v] # "passed"
       THEN proof' = [proof EXCEPT ![v] = "failed"]
       ELSE UNCHANGED proof
    /\ Goto(v, "done")
    /\ UNCHANGED <<liveOps, captures, target, repo, listed, prune>>

\* failVer; a snapshot that is no longer in the repository cannot be restored, and
\* one that is no longer listed cannot be marked.
VerificationFails(v) ==
    /\ \/ pc[v] \in {"restore", "check", "mark"} /\ CommandFails(v)
       \/ RunAt(v, "restore") /\ target[v] \notin repo /\ UNCHANGED spent
       \/ RunAt(v, "mark") /\ target[v] \notin DOMAIN listed /\ UNCHANGED spent
    /\ FailRow(v)
    /\ IF v \in liveOps THEN proof' = [proof EXCEPT ![v] = "failed"] ELSE UNCHANGED proof
    /\ Goto(v, "done")
    /\ UNCHANGED <<liveOps, captures, target, repo, listed, prune>>

CompleteVerify(v) ==
    /\ RunAt(v, "complete") /\ v \in liveOps
    /\ SetRun(v, "completed")
    /\ Goto(v, "done")
    /\ UNCHANGED <<liveOps, captures, proof, target, repo, listed, prune, spent>>

CompleteVerifyFails(v) ==
    /\ RunAt(v, "complete") /\ CommandFails(v)
    /\ Goto(v, "done")
    /\ UNCHANGED <<liveOps, captures, records, prune>>

-----------------------------------------------------------------------------
(* A retention pass: ApplyRetention under retentionMu, after a scheduled    *)
(* backup, by the timer or by an operator.                                  *)

\* The dry run: what the policy would remove.  Every keep count is at least one, so
\* the newest snapshot of the group stays.
PlanRetention ==
    /\ prune.pc = "idle" /\ spent.passes < MaxPasses /\ Spend("passes")
    /\ \E old \in SUBSET (repo \ {Max(repo \cup {0})}) :
          prune' = [pc |-> "protect", remove |-> old, at |-> 0]
    /\ UNCHANGED <<pc, liveOps, captures, records>>

Verified == {s \in DOMAIN listed : listed[s] > 0}
Newest   == {s \in Verified : listed[s] = Latest}

\* The snapshot verified last is taken out of the plan.
ProtectVerified ==
    /\ prune.pc = "protect"
    /\ prune' = [pc |-> "forget", remove |-> prune.remove \ Newest, at |-> Latest]
    /\ UNCHANGED <<pc, liveOps, captures, records, spent>>

Forget ==
    /\ prune.pc = "forget"
    /\ repo' = repo \ prune.remove
    /\ prune' = [prune EXCEPT !.pc = "rows"]
    /\ UNCHANGED <<pc, liveOps, captures, row, proof, target, listed, spent>>

ForgetFails ==
    /\ prune.pc = "forget" /\ RunTrouble("faults")
    /\ prune' = NoPass
    /\ UNCHANGED <<pc, liveOps, captures, records>>

\* The request's context ends inside the pass: restic may have removed the snapshots
\* already, and the listing keeps their rows.
PruneCut ==
    /\ prune.pc \in {"forget", "rows"} /\ RunTrouble("cancels")
    /\ repo' \in {repo, repo \ prune.remove}
    /\ prune' = NoPass
    /\ UNCHANGED <<pc, liveOps, captures, row, proof, target, listed>>

DeleteRows ==
    /\ prune.pc = "rows"
    /\ listed' = [s \in DOMAIN listed \ prune.remove |-> listed[s]]
    /\ prune' = NoPass
    /\ UNCHANGED <<pc, liveOps, captures, row, proof, target, repo, spent>>

-----------------------------------------------------------------------------
(* Operators, the end of a context, and the death of the daemon.            *)

\* A capture is inside Quiesce, which holds the application's lock.
Locked(a) == \E c \in Capture : RunAt(c, "note") /\ NextWriter(c) = a

\* An operator starts or stops an application; a backup puts up no pause.  Start does
\* nothing for a row that says it runs, and Stop only writes the wish for one that says
\* it does not.
OperatorStart(a) ==
    /\ ~(app[a].desired /\ app[a].observed) /\ ~Locked(a)
    /\ spent.requests < MaxRequests /\ Spend("requests")
    /\ app' = [app EXCEPT ![a] = Started(@, 3)]
    /\ slipped' = slipped \ {a}
    /\ plan' = [c \in Capture |-> IF c = holder THEN [plan[c] EXCEPT !.intruded = @ \cup {a}]
                                           ELSE plan[c]]
    /\ UNCHANGED <<pc, liveOps, holder, unit, reported, records, prune>>

OperatorStop(a) ==
    /\ app[a].desired /\ ~Locked(a)
    /\ spent.requests < MaxRequests /\ Spend("requests")
    /\ app' = [app EXCEPT ![a] = [desired  |-> FALSE, observed |-> FALSE,
                                  running  |-> app[a].running /\ ~app[a].observed]]
    /\ UNCHANGED <<pc, liveOps, plan, holder, unit, reported, slipped, records, prune>>

Over == {"idle", "done", "dead"}

ContextEnds(o) ==
    /\ pc[o] \notin Over /\ o \in liveOps
    /\ RunTrouble("cancels")
    /\ liveOps' = liveOps \ {o}
    /\ UNCHANGED <<pc, captures, records, prune>>

\* The flock goes with the process; rows, applications and the unit stay as they are,
\* and no part of the startup goes back to them.
DaemonDies ==
    /\ RunTrouble("deaths")
    /\ pc' = [o \in Op |-> IF pc[o] \in Over THEN pc[o] ELSE "dead"]
    /\ holder' = Nothing
    /\ prune' = NoPass
    /\ UNCHANGED <<liveOps, plan, app, unit, reported, slipped, records>>

-----------------------------------------------------------------------------
CaptureStep(c) ==
    \/ LockMaintenance(c) \/ PreflightFails(c)
    \/ StopUnit(c) \/ StopUnitFails(c)
    \/ QuiesceWriter(c) \/ NoteQuiesced(c) \/ QuiesceFails(c)
    \/ Dump(c) \/ DumpFails(c)
    \/ BeginRun(c) \/ BeginRunRefused(c)
    \/ TakeSnapshot(c) \/ RecordSnapshot(c) \/ CaptureFails(c)
    \/ CompleteRun(c) \/ CompleteRunFails(c)
    \/ ResumeLook(c) \/ ResumeStart(c) \/ ResumeFails(c) \/ Release(c)

VerifyStep(v) ==
    \/ BeginVerify(v) \/ BeginVerifyRefused(v)
    \/ PrepareVerify(v) \/ PrepareVerifyFails(v)
    \/ RestoreIsolated(v) \/ PassVerification(v) \/ MarkSnapshotVerified(v)
    \/ VerificationFails(v) \/ CompleteVerify(v) \/ CompleteVerifyFails(v)

RetentionStep ==
    ProtectVerified \/ Forget \/ ForgetFails \/ PruneCut \/ DeleteRows

RunsNext ==
    \/ \E c \in Capture : PlanCapture(c) \/ CaptureStep(c)
    \/ \E v \in Verify : SelectSnapshot(v) \/ VerifyStep(v)
    \/ PlanRetention \/ RetentionStep
    \/ \E a \in Writer : OperatorStart(a) \/ OperatorStop(a)
    \/ \E o \in Op : ContextEnds(o)
    \/ DaemonDies

RunsSpec == RunsInit /\ [][RunsNext]_runVars

-----------------------------------------------------------------------------
(* Properties.                                                              *)

RunsTypeOK ==
    /\ pc \in [Op -> {"idle", "planned", "stopUnit", "quiesce", "note", "begin", "restic", "record",
                      "complete", "resume", "start", "prepare", "restore", "check", "mark",
                      "done", "dead"}]
    /\ liveOps \subseteq Op
    /\ \A c \in Capture :
          /\ plan[c].unitSeen \in BOOLEAN /\ plan[c].unitStopped \in BOOLEAN
          /\ plan[c].next \in 1 .. Len(Writers) + 1
          /\ IsInjective(plan[c].stopped) /\ Range(plan[c].stopped) \subseteq Writer
          /\ plan[c].snap \in Snap \cup {0}
          /\ plan[c].hot \subseteq Writer \cup {Unit} /\ plan[c].intruded \subseteq Writer
    /\ holder \in Capture \cup {Nothing}
    /\ app \in [Writer -> [desired : BOOLEAN, observed : BOOLEAN, running : BOOLEAN]]
    /\ unit \in BOOLEAN
    /\ row \in [Op -> {Nothing, "running", "completed", "failed"}]
    /\ proof \in [Verify -> {Nothing, "running", "passed", "failed"}]
    /\ target \in [Verify -> Snap \cup {0}]
    /\ repo \subseteq Snap
    /\ DOMAIN listed \subseteq Snap /\ \A s \in DOMAIN listed : listed[s] \in Nat
    /\ prune.pc \in {"idle", "protect", "forget", "rows"}
    /\ prune.remove \subseteq Snap /\ prune.at \in Nat
    /\ reported \cup slipped \subseteq Writer \cup {Unit}
    /\ \A b \in DOMAIN spent : spent[b] \in Nat

\* A writer that a capture in progress has yet to resume.
ToResume(c, a) == a \in Range(plan[c].stopped) \/ (RunAt(c, "note") /\ NextWriter(c) = a)

\* What runs again, will, or was named as not: as long as the daemon lives, a writer
\* that is wanted and does not run is one that a capture in progress has yet to resume,
\* or one of W.
Accounted(W) ==
    spent.deaths = 0 =>
      /\ \A a \in Writer : app[a].desired /\ ~app[a].running =>
            a \in W \/ \E c \in Capture : c = holder /\ ToResume(c, a)
      /\ ~unit => Unit \in W \/ \E c \in Capture : c = holder /\ plan[c].unitStopped

\* resumeCapture restarts "exactly what quiesce stopped", and what it could not it
\* reports; a stop that failed and yet took the writer down is not on its list.
WritersComeBack == Accounted(reported \cup slipped)

\* "resume writers even on failure": what a snapshot holds of a writer was read while
\* that writer was down, unless an operator had started it again during the capture, or
\* its restart had been reported to fail, after which its row may say stopped while it
\* runs; meilisearch.service may run only if it was not seen running when the capture
\* was planned.
SnapshotsAreCold ==
    \A c \in Capture :
        plan[c].hot \subseteq plan[c].intruded \cup reported
                               \cup (IF plan[c].unitSeen THEN {} ELSE {Unit})

\* "A snapshot only counts as verified after this succeeds" (Verify), and a row that
\* says so is never older than its proof: a snapshot marked verified has a passed
\* verification, and a verification whose request was answered in time and whose run
\* ended has passed exactly if the run completed.
VerifiedIsProven ==
    /\ \A s \in Verified : \E v \in Verify : target[v] = s /\ proof[v] = "passed"
    /\ \A v \in Verify :
          RunAt(v, "done") /\ v \in liveOps /\ row[v] # "running" =>
            (proof[v] = "passed" <=> row[v] = "completed")

-----------------------------------------------------------------------------
(* What the comments on failRun and CreateBackupScoped say and a request cut   *)
(* short does not keep.                                                     *)

\* "failRun persists a failed terminal state and emits the normalized failure event":
\* an operation that returned has left no running row behind.
RunsEnd == \A o \in Op : RunAt(o, "done") => row[o] # "running"

\* "a failed backup always leaves applications in their pre-backup running state or
\* reports exactly which resume failed" (CreateBackupScoped), whatever became of the
\* call that stopped them.
AllWritersComeBack == Accounted(reported)

=============================================================================
