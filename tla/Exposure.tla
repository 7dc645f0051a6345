------------------------------ MODULE Exposure ------------------------------
(***************************************************************************)
(* How one service becomes private, shared or public: the desired state    *)
(* with its revision, the persisted plans computed from observed live      *)
(* state, and Apply, which runs a plan against Cloudflare and the edge and  *)
(* undoes what it did when a step fails.                                   *)
(*                                                                         *)
(*   internal/exposure/api.go    UpsertService, SetExposure, ...           *)
(*   internal/exposure/plan.go   buildPlan, exposureSteps, deleteSteps,    *)
(*                               checkOrdering                             *)
(*   internal/exposure/apply.go  Apply, rollbackApplied, recordObservation *)
(*   internal/controlplane/apps_ops.go  UpdateExposure                     *)
(*                                                                         *)
(* Nothing serializes two calls of Apply, and nothing claims a plan, so    *)
(* two of them may run at once, of one plan even.  The calls are those of   *)
(* the package; every scope has its client.                                *)
(***************************************************************************)
EXTENDS Integers, FiniteSets, SequencesExt

CONSTANTS
    Applier,       \* calls of Apply that may run at once
    AuthModes,     \* how the services authenticate: by themselves, or not at all
    MaxRevisions,  \* bound: changes of the desired state
    MaxPlans,      \* bound: plans computed
    MaxTroubles    \* bound: failing calls, ended contexts, deaths of the daemon, calls
                   \* of Apply beside another and observations of Plan written late

ASSUME ExposureAssumption ==
    /\ AuthModes \subseteq {"none", "native"}
    /\ MaxRevisions \in Nat /\ MaxPlans \in Nat /\ MaxTroubles \in Nat

VARIABLES
    live,      \* what Cloudflare and the edge hold for the hostname
    svc,       \* row of exposure_services
    acked,     \* the revision acknowledged in exposure_public_acks, 0 for none
    plans,     \* exposure_plans, in the order they were computed
    run,       \* where each call of Apply is
    planned,   \* the call of Plan whose observation is written late
    observed,  \* row of exposure_observations
    cut,       \* the last Apply or Plan left no observation, or made it beside another
    used       \* how much of each bound is spent

desired == <<svc, acked>>
vars    == <<live, desired, plans, run, planned, observed, cut, used>>

None == "none"
Exposures == {"private", "shared", "public"}
Auths     == {"none", "native"}

\* The values each resource can have; an Access gate of other policies is "other".
Values == [vanity  |-> {None, "anchor", "tunnel"}, anchor |-> {None, "set"},
           ingress |-> {None, "set"},              edge   |-> {None, "set"},
           gate    |-> {None, "shared", "other"}]
Resource == DOMAIN Values
IsLive(l) == DOMAIN l = Resource /\ \A r \in Resource : l[r] \in Values[r]

Absent == [r \in Resource |-> None]

\* Anyone on the internet reaches the service without passing a gate.
Open(l) == l.vanity = "tunnel" /\ l.ingress = "set" /\ l.gate = None

Idle == [mode |-> "idle", plan |-> 0, at |-> 0, changed |-> {}, ctx |-> TRUE, clean |-> TRUE,
         from |-> Absent, alone |-> TRUE, saw |-> FALSE]
Unplanned == [plan |-> 0, alone |-> TRUE, saw |-> FALSE]

\* There is no row; the columns are Reconciled and PlanID.
Unseen == [reconciled |-> FALSE, plan |-> 0]

Init ==
    /\ \E g \in {None, "other"} : live = [Absent EXCEPT !.gate = g]
    /\ svc = [exists |-> FALSE, born |-> 0, rev |-> 0, exposure |-> "private", auth |-> "none"]
    /\ acked = 0
    /\ plans = <<>>
    /\ run = [a \in Applier |-> Idle]
    /\ planned = Unplanned
    /\ observed = Unseen
    /\ cut = FALSE
    /\ used = 0

Trouble == used < MaxTroubles /\ used' = used + 1

-----------------------------------------------------------------------------
(* The desired state.  Revisions are counted over the service's rows, so    *)
(* that a plan of a deleted row is never taken for one of its successor.    *)

Desire(e, auth) ==
    /\ svc.rev < MaxRevisions
    /\ svc' = [svc EXCEPT !.rev = @ + 1, !.exposure = e, !.auth = auth]

UpsertService(e, auth) ==
    /\ IF svc.exists
       THEN /\ <<e, auth>> # <<svc.exposure, svc.auth>>
            /\ Desire(e, auth)
       ELSE /\ svc.rev < MaxRevisions
            /\ svc' = [exists |-> TRUE, born |-> svc.rev + 1, rev |-> svc.rev + 1,
                       exposure |-> e, auth |-> auth]
    /\ UNCHANGED <<live, acked, plans, run, observed, planned, cut, used>>

\* The API of the daemon writes the row itself, whatever it held.
UpdateExposure(e) ==
    /\ svc.exists
    /\ Desire(e, svc.auth)
    /\ UNCHANGED <<live, acked, plans, run, observed, planned, cut, used>>

SetExposure(e) == e # svc.exposure /\ UpdateExposure(e)

AcknowledgePublic ==
    /\ svc.exists /\ svc.exposure = "public" /\ svc.auth = "none"
    /\ acked' = svc.rev
    /\ UNCHANGED <<live, svc, plans, run, observed, planned, cut, used>>

-----------------------------------------------------------------------------
(* Plans: buildPlan.                                                        *)

DesiredFor(e) ==
    [vanity  |-> IF e = "private" THEN "anchor" ELSE "tunnel",
     anchor  |-> "set",
     ingress |-> IF e = "private" THEN None ELSE "set",
     edge    |-> "set",
     gate    |-> IF e = "shared" THEN "shared" ELSE None]

Step(r, want, prev) == [res |-> r, want |-> want, prev |-> prev]

\* The step that makes r, or removes it, when it is not as wanted.
Made(r, seen, want) ==
    IF want[r] # None /\ seen[r] # want[r] THEN << Step(r, want[r], seen[r]) >> ELSE <<>>
Removed(r, seen, want) ==
    IF want[r] = None /\ seen[r] # None THEN << Step(r, None, seen[r]) >> ELSE <<>>

\* Foundations, gate, tunnel path, the switch of reachability, cleanup.
ExposureSteps(seen, want) ==
    Made("anchor", seen, want) \o Made("edge", seen, want) \o Made("gate", seen, want)
      \o Made("ingress", seen, want) \o Made("vanity", seen, want)
      \o Removed("ingress", seen, want) \o Removed("gate", seen, want)

\* What is absent is torn down with the desired form as its snapshot.
TornDown(r, seen, want) ==
    LET prev == IF seen[r] = None THEN want[r] ELSE seen[r]
    IN IF prev # None THEN << Step(r, None, prev) >> ELSE <<>>

\* Mutated form: the gate goes first.
DeleteStepsGateFirst(seen, want) ==
    TornDown("gate", seen, want) \o TornDown("vanity", seen, want) \o TornDown("ingress", seen, want)
      \o TornDown("edge", seen, want) \o TornDown("anchor", seen, want)

DeleteSteps(seen, want) ==
    TornDown("vanity", seen, want) \o TornDown("ingress", seen, want) \o TornDown("gate", seen, want)
      \o TornDown("edge", seen, want) \o TornDown("anchor", seen, want)

InferExposure(seen) ==
    CASE seen.vanity = None     -> None
      [] seen.vanity = "anchor" -> "private"
      [] OTHER                  -> IF seen.gate = None THEN "public" ELSE "shared"

\* The first step that brings r to a value of V, or beyond the last.
FirstStep(steps, r, V) ==
    LET at == {i \in DOMAIN steps : steps[i].res = r /\ steps[i].want \in V}
    IN IF at = {} THEN Len(steps) + 1 ELSE CHOOSE i \in at : \A j \in at : i <= j

CheckOrdering(seen, to, steps) ==
    LET none          == Len(steps) + 1
        from          == InferExposure(seen)
        vanityTunnel  == FirstStep(steps, "vanity", {"tunnel"})
        vanityAnchor  == FirstStep(steps, "vanity", {"anchor"})
        ingressEnsure == FirstStep(steps, "ingress", {"set"})
        ingressRemove == FirstStep(steps, "ingress", {None})
        gateEnsure    == FirstStep(steps, "gate", {"shared", "other"})
        gateRemove    == FirstStep(steps, "gate", {None})
    IN /\ vanityTunnel < none =>
            /\ seen.ingress = None => ingressEnsure < vanityTunnel
            /\ (to = "shared" /\ seen.gate = None) => gateEnsure < vanityTunnel
       /\ (to = "private" /\ from \in {"shared", "public"}) =>
            vanityAnchor < none /\ ingressRemove > vanityAnchor /\ gateRemove > vanityAnchor
       /\ (from = "shared" /\ to = "public" /\ vanityTunnel < none) => gateRemove > vanityTunnel

RequiresAck(e, auth) == e = "public" /\ auth = "none"

Active == {a \in Applier : run[a].mode # "idle"}

\* What a probe of live state says of the service: computeDrift finds nothing.
Reconciled(e) == live = DesiredFor(e)

\* putObservation, of what was probed before: late, when something else was at work
\* on the service meanwhile.  Of a row since deleted there is none, and a successor's
\* is not renewed.
PutObservation(p, born, reconciled, alone) ==
    IF svc.exists /\ svc.born = born
    THEN observed' = [reconciled |-> reconciled, plan |-> p] /\ cut' = ~alone
    ELSE UNCHANGED observed /\ cut' = TRUE

\* Probe, compute, check and persist; the reads of live state are one step.  The
\* observation the plan was computed from is written after the plan, one at a time.
MakePlan(kind) ==
    LET want  == DesiredFor(svc.exposure)
        steps == IF kind = "delete" THEN DeleteSteps(live, want) ELSE ExposureSteps(live, want)
    IN /\ svc.exists /\ Len(plans) < MaxPlans
       /\ kind = "exposure" => CheckOrdering(live, svc.exposure, steps)
       /\ plans' = Append(plans,
            [kind |-> kind, rev |-> svc.rev, born |-> svc.born, to |-> svc.exposure, steps |-> steps,
             ack |-> kind = "exposure" /\ RequiresAck(svc.exposure, svc.auth),
             seen |-> live, status |-> "pending"])
       /\ \/ /\ PutObservation(Len(plans) + 1, svc.born, Reconciled(svc.exposure), TRUE)
             /\ UNCHANGED <<planned, used>>
          \/ /\ Trouble /\ planned.plan = 0
             /\ planned' = [plan |-> Len(plans) + 1, alone |-> Active = {},
                            saw |-> Reconciled(svc.exposure)]
             /\ UNCHANGED <<observed, cut>>
       /\ UNCHANGED <<live, desired, run>>

\* It is written late, or not at all: Plan then reports an error, and the plan stays.
ObservePlanned ==
    /\ planned.plan # 0
    /\ \/ PutObservation(planned.plan, plans[planned.plan].born, planned.saw, planned.alone)
       \/ UNCHANGED <<observed, cut>>
    /\ planned' = Unplanned
    /\ UNCHANGED <<live, desired, plans, run, used>>

-----------------------------------------------------------------------------
(* Apply.                                                                   *)

Plan(a) == plans[run[a].plan]
Steps(a) == Plan(a).steps

\* A call on a's context fails: the context has ended, or the call itself fails.
CallFails(a) == IF run[a].ctx THEN Trouble ELSE UNCHANGED used

\* The preconditions are read from the database before the first step.
BeginApply(a, p) ==
    LET plan == plans[p]
    IN /\ run[a].mode = "idle"
       /\ plan.status = "pending"
       /\ svc.exists /\ plan.rev = svc.rev
       /\ plan.kind = "exposure" => plan.to = svc.exposure
       /\ plan.ack => acked = svc.rev
       /\ run' = [b \in Applier |->
                    IF b = a THEN [Idle EXCEPT !.mode = "doing", !.plan = p, !.at = 1,
                                               !.from = live, !.alone = Active = {}]
                    ELSE [run[b] EXCEPT !.alone = b \notin Active]]
       /\ planned' = [planned EXCEPT !.alone = planned.plan = 0]
       /\ IF Active = {} THEN UNCHANGED used ELSE Trouble
       /\ UNCHANGED <<live, desired, plans, observed, cut>>

\* The next step brings its resource to the wanted value, or finds it there.
ExecStep(a) ==
    /\ run[a].mode = "doing" /\ run[a].ctx
    /\ run[a].at <= Len(Steps(a))
    /\ LET step == Steps(a)[run[a].at]
       IN /\ live' = [live EXCEPT ![step.res] = step.want]
          /\ run' = [run EXCEPT ![a].at = @ + 1,
                                ![a].changed = IF live[step.res] = step.want THEN @
                                               ELSE @ \cup {run[a].at}]
    /\ UNCHANGED <<desired, plans, planned, observed, cut, used>>

\* Mutated form: a failing step is passed over.
ExecStepFailsGoesOn(a) ==
    /\ run[a].mode = "doing"
    /\ run[a].at <= Len(Steps(a))
    /\ CallFails(a)
    /\ run' = [run EXCEPT ![a].at = @ + 1]
    /\ UNCHANGED <<live, desired, plans, planned, observed, cut>>

\* The step reports an error; its change may have been made all the same.
ExecStepFails(a) ==
    /\ run[a].mode = "doing"
    /\ run[a].at <= Len(Steps(a))
    /\ CallFails(a)
    /\ LET step == Steps(a)[run[a].at]
       IN \E made \in BOOLEAN :
            live' = IF made THEN [live EXCEPT ![step.res] = step.want] ELSE live
    /\ run' = [run EXCEPT ![a].mode = "undoing"]
    /\ UNCHANGED <<desired, plans, planned, observed, cut>>

\* Steps that changed something are undone last first.
NextUndo(a) == CHOOSE i \in run[a].changed : \A j \in run[a].changed : i >= j

UndoStep(a) ==
    /\ run[a].mode = "undoing" /\ run[a].ctx /\ run[a].changed # {}
    /\ LET i == NextUndo(a) IN
        /\ live' = [live EXCEPT ![Steps(a)[i].res] = Steps(a)[i].prev]
        /\ run' = [run EXCEPT ![a].changed = @ \ {i}]
    /\ UNCHANGED <<desired, plans, planned, observed, cut, used>>

\* A failed undo is written down and the remaining ones go on.
UndoStepFails(a) ==
    /\ run[a].mode = "undoing" /\ run[a].changed # {}
    /\ CallFails(a)
    /\ LET i == NextUndo(a) IN
        /\ \E made \in IF run[a].ctx THEN BOOLEAN ELSE {FALSE} :
            live' = IF made THEN [live EXCEPT ![Steps(a)[i].res] = Steps(a)[i].prev] ELSE live
        /\ run' = [run EXCEPT ![a].changed = @ \ {i}, ![a].clean = FALSE]
    /\ UNCHANGED <<desired, plans, planned, observed, cut>>

Return(a) == run' = [run EXCEPT ![a] = Idle]

SetStatus(a, status) == plans' = [plans EXCEPT ![run[a].plan].status = status]

\* The row of the plan is written, and live state is probed for the service as it was
\* read when the call began.
Probe(a) ==
    run' = [run EXCEPT ![a] = [Idle EXCEPT !.mode = "observing", !.plan = run[a].plan,
                                           !.alone = run[a].alone, !.saw = Reconciled(Plan(a).to)]]

\* Mutated form: a failed apply returns without a look at what it left.
FinishUndoneUnseen(a) ==
    /\ run[a].mode = "undoing" /\ run[a].changed = {} /\ run[a].ctx
    /\ SetStatus(a, IF run[a].clean THEN "rolled_back" ELSE "failed")
    /\ Return(a)
    /\ UNCHANGED <<live, desired, planned, observed, cut, used>>

FinishUndone(a) ==
    /\ run[a].mode = "undoing" /\ run[a].changed = {} /\ run[a].ctx
    /\ SetStatus(a, IF run[a].clean THEN "rolled_back" ELSE "failed")
    /\ Probe(a)
    /\ UNCHANGED <<live, desired, planned, observed, cut, used>>

FinishApplied(a) ==
    /\ run[a].mode = "doing" /\ run[a].at > Len(Steps(a)) /\ run[a].ctx
    /\ Plan(a).kind = "exposure"
    /\ SetStatus(a, "applied")
    /\ Probe(a)
    /\ UNCHANGED <<live, desired, planned, observed, cut, used>>

RecordObservation(a) ==
    /\ run[a].mode = "observing" /\ run[a].ctx
    /\ PutObservation(run[a].plan, Plan(a).born, run[a].saw, run[a].alone)
    /\ Return(a)
    /\ UNCHANGED <<live, desired, plans, planned, used>>

\* The probe fails, and a row that says so is written; or no row is written.
ObservationFails(a) ==
    /\ run[a].mode = "observing"
    /\ CallFails(a)
    /\ \/ run[a].ctx /\ PutObservation(run[a].plan, Plan(a).born, FALSE, run[a].alone)
       \/ UNCHANGED observed /\ cut' = TRUE
    /\ Return(a)
    /\ UNCHANGED <<live, desired, plans, planned>>

\* The teardown is complete: the rows of the service go, its plans stay.
FinishDeleted(a) ==
    /\ run[a].mode = "doing" /\ run[a].at > Len(Steps(a)) /\ run[a].ctx
    /\ Plan(a).kind = "delete"
    /\ SetStatus(a, "applied")
    /\ IF svc.exists /\ svc.born = Plan(a).born
       THEN svc' = [svc EXCEPT !.exists = FALSE] /\ acked' = 0 /\ observed' = Unseen /\ UNCHANGED cut
       ELSE UNCHANGED <<desired, observed>> /\ cut' = TRUE
    /\ Return(a)
    /\ UNCHANGED <<live, planned, used>>

\* The plan's row is written; deleting the rows of the service then fails.
FinishHalfDeleted(a) ==
    /\ run[a].mode = "doing" /\ run[a].at > Len(Steps(a)) /\ run[a].ctx
    /\ Plan(a).kind = "delete"
    /\ SetStatus(a, "applied")
    /\ Trouble
    /\ cut' = TRUE
    /\ Return(a)
    /\ UNCHANGED <<live, desired, planned, observed>>

\* The plan's row cannot be written: it stays pending, whatever was done.
FinishUnwritten(a) ==
    /\ \/ run[a].mode = "doing" /\ run[a].at > Len(Steps(a))
       \/ run[a].mode = "undoing" /\ run[a].changed = {}
    /\ CallFails(a)
    /\ cut' = TRUE
    /\ Return(a)
    /\ UNCHANGED <<live, desired, plans, planned, observed>>

EndContext(a) ==
    /\ run[a].mode # "idle" /\ run[a].ctx
    /\ Trouble
    /\ run' = [run EXCEPT ![a].ctx = FALSE]
    /\ UNCHANGED <<live, desired, plans, planned, observed, cut>>

\* Nothing takes up an Apply that the daemon's death ended.
Die ==
    /\ Active # {}
    /\ Trouble
    /\ run' = [a \in Applier |-> Idle]
    /\ planned' = Unplanned
    /\ cut' = TRUE
    /\ UNCHANGED <<live, desired, plans, observed>>

Operator ==
    \/ \E e \in Exposures, auth \in AuthModes : UpsertService(e, auth)
    \/ \E e \in Exposures : UpdateExposure(e) \/ SetExposure(e)
    \/ AcknowledgePublic
    \/ \E kind \in {"exposure", "delete"} : MakePlan(kind)
    \/ ObservePlanned

Apply(a) ==
    \/ \E p \in DOMAIN plans : BeginApply(a, p)
    \/ ExecStep(a)      \/ ExecStepFails(a)
    \/ UndoStep(a)      \/ UndoStepFails(a)
    \/ FinishUndone(a)  \/ FinishApplied(a)
    \/ RecordObservation(a) \/ ObservationFails(a)
    \/ FinishDeleted(a) \/ FinishHalfDeleted(a) \/ FinishUnwritten(a)
    \/ EndContext(a)

Next == Operator \/ (\E a \in Applier : Apply(a)) \/ Die

Spec == Init /\ [][Next]_vars

-----------------------------------------------------------------------------
(* Properties.                                                              *)

PlanRecord(p) ==
    /\ p.kind \in {"exposure", "delete"} /\ p.to \in Exposures
    /\ p.rev \in p.born .. svc.rev /\ p.born >= 1 /\ p.ack \in BOOLEAN /\ IsLive(p.seen)
    /\ \A i \in DOMAIN p.steps :
         LET s == p.steps[i] IN s.res \in Resource /\ {s.want, s.prev} \subseteq Values[s.res]
    /\ p.status \in {"pending", "applied", "failed", "rolled_back"}

\* Every variable keeps to the values its row, plan or resource can hold.
TypeOK ==
    /\ IsLive(live)
    /\ svc \in [exists : BOOLEAN, born : 0 .. MaxRevisions, rev : 0 .. MaxRevisions,
                exposure : Exposures, auth : Auths]
    /\ acked \in 0 .. svc.rev
    /\ Len(plans) <= MaxPlans /\ \A p \in Range(plans) : PlanRecord(p)
    /\ \A a \in Applier :
         /\ run[a].mode \in {"idle", "doing", "undoing", "observing"}
         /\ run[a].mode # "idle" =>
              run[a].plan \in DOMAIN plans /\ run[a].changed \subseteq DOMAIN Steps(a)
                /\ run[a].at \in 0 .. Len(Steps(a)) + 1
    /\ observed \in [reconciled : BOOLEAN, plan : 0 .. Len(plans)]
    /\ planned \in [plan : 0 .. Len(plans), alone : BOOLEAN, saw : BOOLEAN]
    /\ cut \in BOOLEAN /\ used \in 0 .. MaxTroubles

\* What the first n steps of a plan make of the state it was computed from.
After(p, n) ==
    [r \in Resource |->
        LET on == {i \in 1 .. n : p.steps[i].res = r}
        IN IF on = {} THEN p.seen[r] ELSE p.steps[CHOOSE i \in on : \A j \in on : j <= i].want]

\* A plan whose target is not public never passes through a state that opens a
\* service which was gated when it was computed ("make accidental public
\* exposure structurally impossible in a generated plan", plan.go); and all its
\* steps together reach what the plan is for.
PlansStayGated ==
    [][Len(plans') > Len(plans) =>
      LET p == Last(plans') IN
      /\ (p.kind = "delete" \/ p.to # "public") /\ ~Open(p.seen) =>
            \A n \in 0 .. Len(p.steps) : ~Open(After(p, n))
      /\ After(p, Len(p.steps)) = IF p.kind = "delete" THEN Absent ELSE DesiredFor(p.to)]_vars

\* A plan that ran alone is applied only when live state is what it is for.
AppliedConverges ==
    [][\A p \in DOMAIN plans :
        plans[p].status = "pending" /\ plans'[p].status = "applied" =>
          \E a \in Active :
            /\ run[a].plan = p
            /\ \/ live = IF plans[p].kind = "delete" THEN Absent ELSE DesiredFor(plans[p].to)
               \/ ~run[a].alone \/ plans[p].seen # run[a].from]_vars

\* What Status shows as reconciled, under the id of a plan of the desired revision it
\* shows with it, is so once nothing is being applied, however late Plan's own
\* observation is written; unless the last to work on the service left none, or made
\* it beside another.  Of a plan of an earlier revision it says nothing of the desired
\* state there is now, and the row itself does not tell the two apart.
ReconciledIsTrue ==
    /\ svc.exists
    /\ observed.reconciled /\ plans[observed.plan].rev = svc.rev
    /\ Active = {} /\ ~cut
    => live = DesiredFor(svc.exposure)

=============================================================================
