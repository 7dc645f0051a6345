------------------------------ MODULE SetupRun ------------------------------
(***************************************************************************)
(* The first-run setup reconciler: a single-flight run of a dependency     *)
(* graph whose nodes persist their own outcome                             *)
(* (internal/controlplane/setup_dag.go, setup_phases.go, setup_status.go). *)
(*                                                                         *)
(* A run resets the rows, builds the graph, lets the workflow execute its  *)
(* nodes one at a time, and in a last pass records the nodes that never    *)
(* ran and reports the run.  The install node of a bundle is named by the  *)
(* bundle.  What a node does is its outcome here.                          *)
(***************************************************************************)
EXTENDS Naturals

CONSTANTS
    Core,         \* default bundles with an install node of the core tier
    Dependent,    \* default bundles of the dependent tier
    SignIn,       \* the core bundles the oidc node waits for
    Glued,        \* the dependent bundles that wait for dependent_apps
    Requires,     \* catalog dependencies of each bundle
    MaxRuns,      \* bound: triggered runs
    MaxDeadlines, \* bound: runs whose context ends
    MaxCrashes,   \* bound: daemon crashes
    MaxLost       \* bound: event publications that fail

Bundle == Core \cup Dependent
Fixed  == {"preconditions", "tunnel", "secrets", "storage", "core_apps",
           "oidc", "login_exposure", "dependent_apps", "exposure"}
Node   == Fixed \cup Bundle

ASSUME BundleAssumption ==
    /\ Core \cap Dependent = {} /\ Bundle \cap Fixed = {}
    /\ SignIn \subseteq Core /\ Glued \subseteq Dependent
    /\ Requires \in [Bundle -> SUBSET Bundle]

CoreAppsNeeds == {"secrets", "storage"}

\* The pairs <<upstream, downstream>> of the graph.
Edges ==
    ({"preconditions"} \X {"tunnel", "secrets", "storage"})
    \cup (CoreAppsNeeds \X {"core_apps"})
    \cup ({"core_apps"} \X Core)
    \cup {e \in Core \X Core : e[1] \in Requires[e[2]]}
    \cup ((IF SignIn = {} THEN {"core_apps"} ELSE SignIn) \X {"oidc"})
    \cup ({"oidc"} \X ({"login_exposure", "dependent_apps"} \cup Dependent))
    \cup ({"dependent_apps"} \X Glued)
    \cup {e \in Bundle \X Dependent : e[1] \in Requires[e[2]]}
    \cup (({"tunnel", "login_exposure", "dependent_apps"} \cup Bundle)
            \X {"exposure"})

Upstream(n) == {u \in Node : <<u, n>> \in Edges}

RowState == {"pending", "running", "succeeded", "failed", "waiting",
             "blocked", "canceled"}
Row      == [state : RowState, blockedBy : SUBSET Node]
\* Workflow results; "waiting" is a node skipped by its own sentinel error.
Result   == {"none", "running", "succeeded", "failed", "waiting", "skipped",
             "canceled"}
Phase    == {"idle", "reserved", "graph", "post"}

VARIABLES
    rows,     \* the setup_nodes table
    latest,   \* the newest setup event: "none", "step_failed" or "reconciled"
    up,       \* the daemon runs
    boot,     \* the start-up goroutine has not reserved its run yet
    phase,    \* where the reserved run is; "idle" when there is none
    bounded,  \* the run's context has a deadline
    ended,    \* the run's context has ended
    result,   \* the workflow's results
    lastErr,  \* setupLastErr is not empty
    runs, deadlines, crashes, lost

db     == <<rows, latest>>
flight == <<phase, bounded, ended, result>>
counts == <<runs, deadlines, crashes, lost>>
vars   == <<db, up, boot, flight, lastErr, counts>>

PublishFails == lost < MaxLost /\ lost' = lost + 1 /\ UNCHANGED latest

Fresh == [n \in Node |-> [state |-> "pending", blockedBy |-> {}]]
As(s) == [state |-> s, blockedBy |-> {}]

\* A write through the run's context is lost once that context has ended.
Upsert(n, s) == rows' = IF ended THEN rows ELSE [rows EXCEPT ![n] = As(s)]

Init ==
    /\ rows = Fresh /\ latest = "none"
    /\ up = TRUE /\ boot = TRUE
    /\ phase = "idle" /\ bounded = FALSE /\ ended = FALSE
    /\ result = [n \in Node |-> "none"]
    /\ lastErr = FALSE
    /\ runs = 0 /\ deadlines = 0 /\ crashes = 0 /\ lost = 0

----------------------------------------------------------------------------
(* Starting a run *)

\* reserveSetup: one run at a time.
Reserve == phase = "idle" /\ phase' = "reserved" /\ ended' = FALSE

\* New's goroutine runs setup under a deadline; it gives up if one is running.
RunAtStartup ==
    /\ up /\ boot /\ boot' = FALSE
    /\ \/ Reserve /\ bounded' = TRUE
       \/ phase # "idle" /\ UNCHANGED <<phase, bounded, ended>>
    /\ UNCHANGED <<db, up, result, lastErr, counts>>

\* The API trigger: the run's context is the background context.
Trigger ==
    /\ up /\ runs < MaxRuns
    /\ Reserve /\ bounded' = FALSE /\ runs' = runs + 1
    /\ UNCHANGED <<db, up, boot, result, lastErr, deadlines, crashes, lost>>

\* Every row back to pending, and a row for every node of the graph.
ResetRows == rows' = IF ended THEN rows ELSE Fresh

BeginGraph ==
    /\ up /\ phase = "reserved" /\ phase' = "graph"
    /\ ResetRows
    /\ result' = [n \in Node |-> "none"]
    /\ UNCHANGED <<latest, up, boot, bounded, ended, lastErr, counts>>

----------------------------------------------------------------------------
(* The workflow: a node is considered once its upstreams are done *)

Done(n)  == result[n] \notin {"none", "running"}
Ready(n) == /\ up /\ phase = "graph" /\ result[n] = "none"
            /\ \A u \in Upstream(n) : Done(u)
Settled(n, r) == result' = [result EXCEPT ![n] = r]

\* MaxConcurrency is one.
StartNode(n) ==
    /\ Ready(n) /\ ~ended
    /\ \A u \in Upstream(n) : result[u] = "succeeded"
    /\ \A m \in Node : result[m] # "running"
    /\ Settled(n, "running")
    /\ Upsert(n, "running")
    /\ UNCHANGED <<latest, up, boot, phase, bounded, ended, lastErr, counts>>

\* The condition of a node fails: its body never runs.
PassOver(n) ==
    /\ Ready(n)
    /\ \/ ended /\ Settled(n, "canceled")
       \/ /\ ~ended /\ \E u \in Upstream(n) : result[u] # "succeeded"
          /\ Settled(n, "skipped")
    /\ UNCHANGED <<db, up, boot, phase, bounded, ended, lastErr, counts>>

Returns(n) == up /\ phase = "graph" /\ result[n] = "running"

NodeSucceeds(n) ==
    /\ Returns(n) /\ Settled(n, "succeeded")
    /\ Upsert(n, "succeeded")
    /\ UNCHANGED <<latest, up, boot, phase, bounded, ended, lastErr, counts>>

\* errWaitingForEnrollment, which the preconditions alone return.
NodeWaits(n) ==
    /\ Returns(n) /\ n = "preconditions"
    /\ Settled(n, "waiting")
    /\ Upsert(n, "waiting")
    /\ UNCHANGED <<latest, up, boot, phase, bounded, ended, lastErr, counts>>

\* The context ended under the body.  The workflow reads the error as a
\* cancellation, or as a failure when a command was killed and says so.
NodeCanceled(n) ==
    /\ Returns(n) /\ ended
    /\ \E r \in {"canceled", "failed"} : Settled(n, r)
    /\ rows' = [rows EXCEPT ![n] = As("canceled")]
    /\ UNCHANGED <<latest, up, boot, phase, bounded, ended, lastErr, counts>>

\* Mutated form: the failure of a node is not published.
EmitFailedNot == UNCHANGED <<latest, lost>>

\* emitSetupFailed; the publication's error is dropped.
EmitFailed ==
    \/ latest' = "step_failed" /\ UNCHANGED lost
    \/ PublishFails

NodeFails(n) ==
    /\ Returns(n) /\ ~ended /\ Settled(n, "failed")
    /\ Upsert(n, "failed")
    /\ EmitFailed
    /\ UNCHANGED <<up, boot, phase, bounded, ended, lastErr, runs, deadlines, crashes>>

----------------------------------------------------------------------------
(* The pass after the run *)

Culprits(n) == {u \in Upstream(n) : result[u] # "succeeded"}

BlockedRow(n) == [state |-> "blocked", blockedBy |-> Culprits(n)]

\* Rows of the nodes that never ran: canceled ones through a detached
\* context, blocked ones through the run's own.
RecordSkipped ==
    rows' = [n \in Node |->
        IF result[n] = "canceled" THEN As("canceled")
        ELSE IF result[n] = "skipped" /\ ~ended THEN BlockedRow(n)
        ELSE rows[n]]

AnyResult(r) == \E n \in Node : result[n] = r

AllSucceeded == \A n \in Node : result[n] = "succeeded"

\* finishSetupSuccess; with a dead context or a failing store it errs.
FinishSetupSuccess ==
    \/ ~ended /\ latest' = "reconciled" /\ lastErr' = FALSE /\ UNCHANGED lost
    \/ ended /\ lastErr' = TRUE /\ UNCHANGED <<latest, lost>>
    \/ PublishFails /\ lastErr' = TRUE

\* What a run that did not converge leaves in setupLastErr.
Report == /\ lastErr' = (AnyResult("failed") /\ ~AnyResult("canceled"))
          /\ UNCHANGED <<latest, lost>>

GraphDone ==
    /\ up /\ phase = "graph" /\ \A n \in Node : Done(n)
    /\ phase' = "post"
    /\ RecordSkipped
    /\ UNCHANGED <<latest, up, boot, bounded, ended, result, lastErr, counts>>

EndRun ==
    /\ up /\ phase = "post" /\ phase' = "idle"
    /\ IF AllSucceeded THEN FinishSetupSuccess ELSE Report
    /\ bounded' = FALSE /\ ended' = FALSE
    /\ UNCHANGED <<rows, up, boot, result, runs, deadlines, crashes>>

----------------------------------------------------------------------------
(* Environment *)

\* The five-minute deadline of the start-up run.
Deadline ==
    /\ up /\ phase # "idle" /\ bounded /\ ~ended
    /\ deadlines < MaxDeadlines /\ deadlines' = deadlines + 1
    /\ ended' = TRUE
    /\ UNCHANGED <<db, up, boot, phase, bounded, result, lastErr, runs, crashes, lost>>

Crash ==
    /\ up /\ crashes < MaxCrashes /\ crashes' = crashes + 1 /\ up' = FALSE
    /\ phase' = "idle" /\ bounded' = FALSE /\ ended' = FALSE
    /\ result' = [n \in Node |-> "none"]
    /\ lastErr' = FALSE /\ boot' = FALSE
    /\ UNCHANGED <<db, runs, deadlines, lost>>

\* Mutated form: a restarted daemon waits to be asked.
RestartIdle == /\ ~up /\ up' = TRUE
               /\ UNCHANGED <<db, boot, flight, lastErr, counts>>

Restart == /\ ~up /\ up' = TRUE /\ boot' = TRUE
           /\ UNCHANGED <<db, flight, lastErr, counts>>

NodeStep(n) == \/ StartNode(n) \/ PassOver(n) \/ NodeSucceeds(n)
               \/ NodeWaits(n) \/ NodeCanceled(n) \/ NodeFails(n)

RunStep == BeginGraph \/ (\E n \in Node : NodeStep(n)) \/ GraphDone \/ EndRun

Next == RunStep \/ RunAtStartup \/ Trigger \/ Deadline \/ Crash \/ Restart

Spec == Init /\ [][Next]_vars

\* Every node body is bounded by timeouts of its own; the goroutines run; the
\* service manager restarts the daemon.
SetupFairness == WF_vars(RunStep) /\ WF_vars(RunAtStartup) /\ WF_vars(Restart)
FairSpec == Spec /\ SetupFairness

----------------------------------------------------------------------------
(* Properties *)

TypeOK ==
    /\ rows \in [Node -> Row] /\ result \in [Node -> Result]
    /\ latest \in {"none", "step_failed", "reconciled"}
    /\ phase \in Phase /\ crashes \in 0..MaxCrashes /\ runs \in 0..MaxRuns
    /\ deadlines \in 0..MaxDeadlines /\ lost \in 0..MaxLost
    /\ {up, boot, bounded, ended, lastErr} \subseteq BOOLEAN

\* The automatic_reconciliation check of the setup status.
Check == IF phase # "idle" THEN "pending"
         ELSE IF lastErr \/ latest = "step_failed" THEN "failed"
         ELSE IF latest = "reconciled" THEN "ok" ELSE "pending"

\* While no run is under way or about to start, a failed node shows in the
\* setup status, also when a later cancellation wiped setupLastErr, provided
\* that its event was stored.
FailureShows ==
    (lost = 0 /\ up /\ ~boot /\ phase = "idle" /\ \E n \in Node : rows[n].state = "failed")
        => Check = "failed"

\* A node left running in the table, by a crash too, is taken up again: the
\* table comes to rest, unless a run's deadline cut its writes off.
TableAtRest == \A n \in Node : rows[n].state # "running"
RunningRowsSettle == ~TableAtRest ~> (TableAtRest \/ deadlines > 0)

=============================================================================
