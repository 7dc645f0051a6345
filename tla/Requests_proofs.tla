--------------------------- MODULE Requests_proofs ---------------------------
(***************************************************************************)
(* Proofs about the long work that a request starts: what an exposure      *)
(* shows as reconciled, what its plans pass through and what an applied    *)
(* one left live (Exposure), and what a backup leaves behind and holds     *)
(* (BackupRuns).                                                           *)
(***************************************************************************)
EXTENDS Exposure, BackupRuns, SequenceTheorems,
        FiniteSetTheorems, TLAPS

-----------------------------------------------------------------------------
(* Sequences of whatever they hold.                                         *)

\* What Append makes of a sequence.
LEMMA Appended ==
    ASSUME NEW s, s \in Seq(Range(s)), NEW e
    PROVE  /\ Append(s, e) \in Seq(Range(Append(s, e)))
           /\ DOMAIN Append(s, e) = DOMAIN s \cup {Len(s) + 1}
           /\ \A i \in DOMAIN s : Append(s, e)[i] = s[i]
           /\ Append(s, e)[Len(s) + 1] = e
           /\ Range(Append(s, e)) = Range(s) \cup {e}
PROOF
  <1> DEFINE S == Range(s) \cup {e}
             t == Append(s, e)
  <1>1. s \in Seq(S)
    BY SeqMonotonic
  <1>2. /\ t \in Seq(S) /\ Len(t) = Len(s) + 1
        /\ \A i \in 1 .. Len(s) : t[i] = s[i]
        /\ t[Len(s) + 1] = e
    BY <1>1, AppendProperties
  <1>3. DOMAIN s = 1 .. Len(s) /\ DOMAIN t = 1 .. Len(t) /\ Len(s) \in Nat
    BY <1>1, <1>2, LenProperties
  <1>4. t \in Seq(Range(t))
    BY <1>2, SeqOfRange
  <1>5. DOMAIN t = DOMAIN s \cup {Len(s) + 1}
    BY <1>2, <1>3
  <1>6. Range(t) = Range(s) \cup {e}
    BY <1>2, <1>3, <1>5 DEF Range
  <1> QED BY <1>2, <1>3, <1>4, <1>5, <1>6

\* What becomes of a sequence one of whose places is written.
LEMMA Rewritten ==
    ASSUME NEW s, s \in Seq(Range(s)), NEW k \in DOMAIN s, NEW e
    PROVE  /\ [s EXCEPT ![k] = e] \in Seq(Range([s EXCEPT ![k] = e]))
           /\ DOMAIN [s EXCEPT ![k] = e] = DOMAIN s
           /\ \A i \in DOMAIN s : [s EXCEPT ![k] = e][i] = IF i = k THEN e ELSE s[i]
PROOF
  <1> DEFINE S == Range(s) \cup {e}
             t == [s EXCEPT ![k] = e]
  <1>1. s \in Seq(S) /\ DOMAIN s = 1 .. Len(s)
    BY SeqMonotonic, LenProperties
  <1>2. t \in Seq(S)
    BY <1>1, ExceptSeq
  <1>3. t \in Seq(Range(t))
    BY <1>2, SeqOfRange
  <1> QED BY <1>1, <1>3

-----------------------------------------------------------------------------
(* Exposure: the observation beside the desired state.                      *)

\* The row of a plan: it was computed for a revision of the service, and each
\* revision has one exposure.
PlanFiled(p) ==
    /\ {"kind", "rev", "born", "to", "status"} \subseteq DOMAIN p
    /\ p.rev \in Nat /\ p.rev <= svc.rev
    /\ p.rev = svc.rev => p.to = svc.exposure

\* A call of Apply that is under way has a plan; when it began beside no other there is
\* none beside it, and what it saw at its end then is what is live.
CallFiled(a) ==
    /\ {"mode", "plan", "alone", "saw"} \subseteq DOMAIN run[a]
    /\ run[a].mode # "idle" => run[a].plan \in DOMAIN plans
    /\ run[a].mode # "idle" /\ run[a].alone => \A b \in Applier : run[b].mode # "idle" => b = a
    /\ run[a].mode = "observing" /\ run[a].alone /\ run[a].saw =>
         live = DesiredFor(plans[run[a].plan].to)

\* So is what a call of Plan saw before it writes it late, beside no call of Apply.
PlannedFiled ==
    /\ planned.plan # 0 => planned.plan \in DOMAIN plans
    /\ planned.plan # 0 /\ planned.alone =>
         /\ \A a \in Applier : run[a].mode = "idle"
         /\ planned.saw => live = DesiredFor(plans[planned.plan].to)

Service == [exists : BOOLEAN, born : Nat, rev : Nat, exposure : Exposures, auth : Auths]

Rows ==
    /\ svc \in Service
    /\ observed.reconciled => observed.plan \in DOMAIN plans
    /\ planned \in [plan : Nat, alone : BOOLEAN, saw : BOOLEAN]
    /\ plans \in Seq(Range(plans))
    /\ run = [a \in Applier |-> run[a]]

RecInv ==
    /\ Rows
    /\ \A i \in DOMAIN plans : PlanFiled(plans[i])
    /\ \A a \in Applier : CallFiled(a)
    /\ PlannedFiled
    /\ ReconciledIsTrue

\* The plans are the same ones, whatever became of their status.
SamePlans ==
    /\ plans' \in Seq(Range(plans')) /\ DOMAIN plans' = DOMAIN plans
    /\ \A i \in DOMAIN plans : /\ PlanFiled(plans[i])'
                               /\ plans'[i].to = plans[i].to /\ plans'[i].rev = plans[i].rev

LEMMA RecInit == Init => RecInv
PROOF
  <1> SUFFICES ASSUME Init PROVE RecInv
    OBVIOUS
  <1>1. /\ svc = [exists |-> FALSE, born |-> 0, rev |-> 0, exposure |-> "private", auth |-> "none"]
        /\ plans = <<>> /\ run = [a \in Applier |-> Idle] /\ observed = Unseen
        /\ planned = Unplanned
    BY DEF Init
  <1>2. DOMAIN plans = {} /\ plans \in Seq(Range(plans))
    BY <1>1, EmptySeq, LenProperties
  <1>3. Rows
    BY <1>1, <1>2 DEF Rows, Unseen, Unplanned, Service, Exposures, Auths
  <1>4. \A a \in Applier : CallFiled(a)
    BY <1>1 DEF CallFiled, Idle
  <1>5. ReconciledIsTrue /\ PlannedFiled
    BY <1>1 DEF ReconciledIsTrue, PlannedFiled, Unplanned
  <1> QED BY <1>2, <1>3, <1>4, <1>5 DEF RecInv

\* The next revision is a row again.
LEMMA Desired ==
    ASSUME svc \in Service, NEW e \in Exposures, NEW auth \in Auths, Desire(e, auth)
    PROVE  svc' \in Service /\ svc'.rev > svc.rev
PROOF
  <1>1. svc' = [svc EXCEPT !.rev = svc.rev + 1, !.exposure = e, !.auth = auth]
    BY DEF Desire
  <1>2. svc' = [exists |-> svc.exists, born |-> svc.born, rev |-> svc.rev + 1, exposure |-> e, auth |-> auth]
    BY <1>1 DEF Service
  <1>3. svc.rev \in Nat /\ svc.rev + 1 \in Nat
    BY DEF Service
  <1> QED BY <1>2, <1>3 DEF Service

\* The desired state changes under a revision of its own, which no plan is of.
LEMMA RecDesire ==
    ASSUME RecInv, UNCHANGED <<live, plans, run, planned, observed, cut>>,
           svc' \in Service, svc'.rev > svc.rev
    PROVE  RecInv'
PROOF
  <1>1. Rows'
    BY DEF RecInv, Rows
  <1>2. \A i \in DOMAIN plans : PlanFiled(plans[i])' /\ plans[i].rev # svc'.rev
    BY DEF RecInv, PlanFiled, Rows, Service
  <1>3. (\A a \in Applier : CallFiled(a)') /\ PlannedFiled'
    BY DEF RecInv, CallFiled, PlannedFiled
  <1>4. ReconciledIsTrue'
    BY <1>2 DEF RecInv, Rows, ReconciledIsTrue
  <1> QED BY <1>1, <1>2, <1>3, <1>4 DEF RecInv

\* The status of a plan is written into its row alone.
LEMMA RecStatus ==
    ASSUME RecInv, NEW a \in Applier, run[a].mode # "idle", NEW status, SetStatus(a, status),
           svc'.rev = svc.rev, svc'.exposure = svc.exposure
    PROVE  SamePlans
PROOF
  <1> DEFINE k == run[a].plan
             new == [plans[k] EXCEPT !.status = status]
  <1>1. k \in DOMAIN plans
    BY DEF RecInv, CallFiled
  <1>2. plans' = [plans EXCEPT ![k] = new]
    BY DEF SetStatus
  <1>3. PlanFiled(plans[k])
    BY <1>1 DEF RecInv
  <1>4. /\ {"kind", "rev", "born", "to", "status"} \subseteq DOMAIN new
        /\ new.rev = plans[k].rev /\ new.to = plans[k].to
    BY <1>3 DEF PlanFiled
  <1>5. /\ plans' \in Seq(Range(plans')) /\ DOMAIN plans' = DOMAIN plans
        /\ \A i \in DOMAIN plans : plans'[i] = IF i = k THEN new ELSE plans[i]
    BY <1>1, <1>2, Rewritten DEF RecInv, Rows
  <1> QED BY <1>3, <1>4, <1>5 DEF RecInv, PlanFiled, SamePlans

\* Plans that nothing writes are the same ones.
LEMMA RecPlansKept ==
    ASSUME RecInv, UNCHANGED plans, svc'.rev = svc.rev, svc'.exposure = svc.exposure
    PROVE  SamePlans
  BY DEF RecInv, Rows, PlanFiled, SamePlans

\* While a call of Apply is under way nothing is promised of the live state.
LEMMA RecGoes ==
    ASSUME RecInv, UNCHANGED <<svc, observed, planned>>, SamePlans,
           NEW a \in Applier, run[a].mode # "idle",
           NEW r, run' = [run EXCEPT ![a] = r], {"mode", "plan", "alone", "saw"} \subseteq DOMAIN r,
           r.mode # "idle", r.plan = run[a].plan, r.alone = run[a].alone,
           r.mode = "observing" /\ r.alone /\ r.saw => live' = DesiredFor(plans[r.plan].to)
    PROVE  RecInv'
PROOF
  <1>1. run' = [b \in Applier |-> run'[b]] /\ \A b \in Applier : run'[b] = IF b = a THEN r ELSE run[b]
    BY DEF RecInv, Rows
  <1>2. Rows'
    BY <1>1 DEF RecInv, Rows, SamePlans
  <1>3. ASSUME NEW b \in Applier PROVE CallFiled(b)'
    <2>1. CASE b = a
      <3>1. r.alone => \A c \in Applier : run'[c].mode # "idle" => c = a
        BY <1>1 DEF RecInv, CallFiled
      <3>2. r.plan \in DOMAIN plans' /\ plans'[r.plan].to = plans[r.plan].to
        BY DEF RecInv, CallFiled, SamePlans
      <3> QED BY <1>1, <2>1, <3>1, <3>2 DEF CallFiled
    <2>2. CASE b # a
      <3>1. run'[b] = run[b] /\ (run[b].mode # "idle" => ~run[b].alone)
        BY <1>1, <2>2 DEF RecInv, CallFiled
      <3> QED BY <3>1 DEF RecInv, CallFiled, SamePlans
    <2> QED BY <2>1, <2>2
  <1>4. PlannedFiled'
    BY DEF RecInv, PlannedFiled, SamePlans
  <1>5. ReconciledIsTrue'
    BY <1>1 DEF ReconciledIsTrue, Active
  <1> QED BY <1>2, <1>3, <1>4, <1>5 DEF RecInv, SamePlans

\* A call that ends leaves the others where they are.
LEMMA RecEnds ==
    ASSUME RecInv, NEW a \in Applier, run[a].mode # "idle", Return(a), SamePlans,
           UNCHANGED <<live, planned>>, svc' \in Service,
           observed'.reconciled => observed'.plan \in DOMAIN plans,
           ReconciledIsTrue'
    PROVE  RecInv'
PROOF
  <1>1. run' = [b \in Applier |-> run'[b]] /\ \A b \in Applier : run'[b] = IF b = a THEN Idle ELSE run[b]
    BY DEF Return, RecInv, Rows
  <1>2. Rows'
    BY <1>1 DEF RecInv, Rows, SamePlans
  <1>3. ASSUME NEW b \in Applier PROVE CallFiled(b)'
    <2>1. CASE b = a
      BY <1>1, <2>1 DEF CallFiled, Idle
    <2>2. CASE b # a
      <3>1. run'[b] = run[b] /\ (run[b].mode # "idle" => ~run[b].alone)
        BY <1>1, <2>2 DEF RecInv, CallFiled
      <3> QED BY <3>1 DEF RecInv, CallFiled, SamePlans
    <2> QED BY <2>1, <2>2
  <1>4. PlannedFiled'
    BY DEF RecInv, PlannedFiled, SamePlans
  <1> QED BY <1>2, <1>3, <1>4 DEF RecInv, SamePlans

\* What is written of a probe that was made beside no other call is of the live state,
\* and of the revision the plan is of.
LEMMA RecPut ==
    ASSUME RecInv, UNCHANGED <<live, svc, plans>>,
           NEW p \in DOMAIN plans, NEW born, NEW reconciled, NEW alone,
           PutObservation(p, born, reconciled, alone),
           alone /\ reconciled => live = DesiredFor(plans[p].to)
    PROVE  /\ observed'.reconciled => observed'.plan \in DOMAIN plans
           /\ ReconciledIsTrue'
PROOF
  <1>1. CASE observed' = [reconciled |-> reconciled, plan |-> p] /\ cut' = ~alone
    BY <1>1 DEF RecInv, PlanFiled, ReconciledIsTrue
  <1>2. CASE UNCHANGED observed /\ cut' = TRUE
    BY <1>2 DEF RecInv, Rows, ReconciledIsTrue
  <1> QED BY <1>1, <1>2 DEF PutObservation

\* A plan that was computed is of the revision there is.
LEMMA RecPlan ==
    ASSUME RecInv, NEW kind, MakePlan(kind)
    PROVE  RecInv'
PROOF
  <1> DEFINE n == Len(plans) + 1
  <1>1. PICK p : /\ plans' = Append(plans, p)
                 /\ {"kind", "rev", "born", "to", "status"} \subseteq DOMAIN p
                 /\ p.rev = svc.rev /\ p.to = svc.exposure
    BY DEF MakePlan
  <1>2. /\ plans' \in Seq(Range(plans')) /\ DOMAIN plans' = DOMAIN plans \cup {n}
        /\ \A i \in DOMAIN plans : plans'[i] = plans[i]
        /\ plans'[n] = p
    BY <1>1, Appended DEF RecInv, Rows
  <1>3. UNCHANGED <<live, svc, run>> /\ n \in Nat /\ n # 0
    BY LenProperties DEF MakePlan, desired, RecInv, Rows
  <1>4. \A i \in DOMAIN plans' : PlanFiled(plans[i])'
    BY <1>1, <1>2, <1>3 DEF RecInv, PlanFiled, Rows, Service
  <1>5. \A a \in Applier : CallFiled(a)'
    BY <1>2, <1>3 DEF RecInv, CallFiled
  <1> HIDE DEF n
  <1>6. CASE PutObservation(n, svc.born, Reconciled(svc.exposure), TRUE) /\ UNCHANGED planned
    <2>0. PICK rec \in BOOLEAN : rec = Reconciled(svc.exposure)
      BY DEF Reconciled
    <2>1. observed' = [reconciled |-> rec, plan |-> n] \/ (UNCHANGED observed /\ cut')
      BY <1>6, <2>0 DEF PutObservation
    <2>2. Rows'
      BY <1>2, <1>3, <1>6, <2>1 DEF RecInv, Rows
    <2>3. PlannedFiled'
      BY <1>2, <1>3, <1>6 DEF RecInv, PlannedFiled
    <2>4. ReconciledIsTrue'
      <3>1. CASE observed' = [reconciled |-> rec, plan |-> n]
        <4>1. observed'.reconciled = rec /\ (rec => live' = DesiredFor(svc'.exposure))
          BY <1>3, <2>0, <3>1 DEF Reconciled
        <4> QED BY <4>1, Zenon DEF ReconciledIsTrue
      <3>2. CASE cut'
        BY <3>2 DEF ReconciledIsTrue
      <3> QED BY <2>1, <3>1, <3>2
    <2> QED BY <1>4, <1>5, <2>2, <2>3, <2>4 DEF RecInv
  <1>7. CASE /\ planned' = [plan |-> n, alone |-> Active = {}, saw |-> Reconciled(svc.exposure)]
             /\ UNCHANGED <<observed, cut>>
    <2>1. Rows'
      BY <1>2, <1>3, <1>7 DEF RecInv, Rows, Reconciled
    <2>2. PlannedFiled'
      BY <1>1, <1>2, <1>3, <1>7 DEF PlannedFiled, Active, Reconciled
    <2>3. ReconciledIsTrue'
      BY <1>2, <1>3, <1>7 DEF RecInv, Rows, ReconciledIsTrue, Active
    <2> QED BY <1>4, <1>5, <2>1, <2>2, <2>3 DEF RecInv
  <1> QED BY <1>6, <1>7 DEF MakePlan, n

\* The observation of a plan comes late, or not at all.
LEMMA RecPlannedLate ==
    ASSUME RecInv, ObservePlanned
    PROVE  RecInv'
PROOF
  <1>1. /\ UNCHANGED <<live, svc, plans, run>> /\ planned' = Unplanned
        /\ planned.plan \in DOMAIN plans
    BY DEF ObservePlanned, desired, RecInv, PlannedFiled, Rows
  <1>2. /\ observed'.reconciled => observed'.plan \in DOMAIN plans
        /\ ReconciledIsTrue'
    <2>1. CASE PutObservation(planned.plan, plans[planned.plan].born, planned.saw, planned.alone)
      BY <1>1, <2>1, RecPut DEF ObservePlanned, RecInv, PlannedFiled
    <2>2. CASE UNCHANGED <<observed, cut>>
      BY <1>1, <2>2 DEF RecInv, Rows, ReconciledIsTrue, Active
    <2> QED BY <2>1, <2>2 DEF ObservePlanned
  <1>3. Rows' /\ PlannedFiled'
    BY <1>1, <1>2 DEF RecInv, Rows, PlannedFiled, Unplanned
  <1>4. (\A a \in Applier : CallFiled(a)') /\ \A i \in DOMAIN plans' : PlanFiled(plans[i])'
    BY <1>1 DEF RecInv, CallFiled, PlanFiled
  <1> QED BY <1>2, <1>3, <1>4 DEF RecInv

\* Apply's first step: from then on no other call is alone.
LEMMA RecBegins ==
    ASSUME RecInv, NEW a \in Applier, NEW p \in DOMAIN plans, BeginApply(a, p)
    PROVE  RecInv'
PROOF
  <1>1. /\ run' = [b \in Applier |-> run'[b]]
        /\ run'[a].mode = "doing" /\ run'[a].plan = p /\ run'[a].alone = (Active = {})
        /\ {"mode", "plan", "alone", "saw"} \subseteq DOMAIN run'[a]
        /\ \A b \in Applier \ {a} : run'[b] = [run[b] EXCEPT !.alone = b \notin Active]
    BY DEF BeginApply, Idle
  <1>2. /\ UNCHANGED <<live, svc, observed, plans>>
        /\ planned' = [planned EXCEPT !.alone = planned.plan = 0]
    BY DEF BeginApply, desired
  <1>3. /\ planned' \in [plan : Nat, alone : BOOLEAN, saw : BOOLEAN] /\ planned'.plan = planned.plan
        /\ planned'.alone => planned.plan = 0
    BY <1>2 DEF RecInv, Rows
  <1>4. Rows' /\ PlannedFiled' /\ \A i \in DOMAIN plans' : PlanFiled(plans[i])'
    BY <1>1, <1>2, <1>3 DEF RecInv, Rows, PlannedFiled, PlanFiled
  <1>5. ASSUME NEW b \in Applier \ {a} PROVE CallFiled(b)' /\ run'[b].mode = run[b].mode
    <2>1. PICK free \in BOOLEAN : free = (b \notin Active)
      OBVIOUS
    <2>2. /\ run'[b].mode = run[b].mode /\ run'[b].alone = free /\ run'[b].plan = run[b].plan
          /\ {"mode", "plan", "alone", "saw"} \subseteq DOMAIN run'[b]
      BY <1>1, <2>1 DEF RecInv, CallFiled
    <2>3. run[b].mode # "idle" => ~free
      BY <2>1 DEF Active
    <2> QED BY <1>2, <2>2, <2>3 DEF RecInv, CallFiled
  <1>6. CallFiled(a)'
    BY <1>1, <1>2, <1>5 DEF CallFiled, Active
  <1>7. ReconciledIsTrue'
    BY <1>1 DEF ReconciledIsTrue, Active
  <1> QED BY <1>4, <1>5, <1>6, <1>7 DEF RecInv

\* A step of a call of Apply.
LEMMA RecApply ==
    ASSUME RecInv, NEW a \in Applier, Apply(a)
    PROVE  RecInv'
PROOF
  <1>0. /\ run = [b \in Applier |-> run[b]] /\ CallFiled(a) /\ Rows
    BY DEF RecInv, Rows
  <1>1. ASSUME UNCHANGED <<svc, observed, planned, plans>>, run[a].mode # "idle",
               NEW r, run' = [run EXCEPT ![a] = r], {"mode", "plan", "alone", "saw"} \subseteq DOMAIN r,
               r.mode # "idle", r.plan = run[a].plan, r.alone = run[a].alone,
               \/ r.mode # "observing"
               \/ UNCHANGED live /\ r.mode = run[a].mode /\ r.saw = run[a].saw
        PROVE  RecInv'
    <2>1. r.mode = "observing" /\ r.alone /\ r.saw => live' = DesiredFor(plans[r.plan].to)
      BY <1>0, <1>1 DEF CallFiled
    <2> QED BY <1>1, <2>1, RecGoes, RecPlansKept
  <1>2. CASE ExecStep(a)
    <2> DEFINE step == Steps(a)[run[a].at]
               x == run[a].at + 1
               y == IF live[step.res] = step.want THEN run[a].changed ELSE run[a].changed \cup {run[a].at}
               r == [run[a] EXCEPT !.at = x, !.changed = y]
    <2>1. UNCHANGED <<svc, observed, planned, plans>> /\ run[a].mode = "doing"
      BY <1>2 DEF ExecStep, desired
    <2>2. run' = [run EXCEPT ![a].at = x, ![a].changed = y]
      BY <1>2 DEF ExecStep
    <2> HIDE DEF x, y
    <2>3. run' = [run EXCEPT ![a] = r]
      BY <1>0, <2>2
    <2>4. /\ {"mode", "plan", "alone", "saw"} \subseteq DOMAIN r /\ r.mode = run[a].mode
          /\ r.plan = run[a].plan /\ r.alone = run[a].alone
      BY <1>0 DEF CallFiled
    <2> HIDE DEF r
    <2> QED BY <1>1, <2>1, <2>3, <2>4
  <1>3. CASE ExecStepFails(a)
    <2> DEFINE r == [run[a] EXCEPT !.mode = "undoing"]
    <2>1. UNCHANGED <<svc, observed, planned, plans>> /\ run[a].mode = "doing" /\ run' = [run EXCEPT ![a] = r]
      BY <1>3 DEF ExecStepFails, desired
    <2>2. /\ {"mode", "plan", "alone", "saw"} \subseteq DOMAIN r /\ r.mode = "undoing"
          /\ r.plan = run[a].plan /\ r.alone = run[a].alone
      BY <1>0 DEF CallFiled
    <2> HIDE DEF r
    <2> QED BY <1>1, <2>1, <2>2
  <1>4. CASE UndoStep(a)
    <2> DEFINE r == [run[a] EXCEPT !.changed = @ \ {NextUndo(a)}]
    <2>1. UNCHANGED <<svc, observed, planned, plans>> /\ run[a].mode = "undoing" /\ run' = [run EXCEPT ![a] = r]
      BY <1>4 DEF UndoStep, desired
    <2>2. /\ {"mode", "plan", "alone", "saw"} \subseteq DOMAIN r /\ r.mode = run[a].mode
          /\ r.plan = run[a].plan /\ r.alone = run[a].alone
      BY <1>0 DEF CallFiled
    <2> HIDE DEF r
    <2> QED BY <1>1, <2>1, <2>2
  <1>5. CASE UndoStepFails(a)
    <2> DEFINE r == [run[a] EXCEPT !.changed = @ \ {NextUndo(a)}, !.clean = FALSE]
    <2>1. UNCHANGED <<svc, observed, planned, plans>> /\ run[a].mode = "undoing" /\ run' = [run EXCEPT ![a] = r]
      BY <1>5 DEF UndoStepFails, desired
    <2>2. /\ {"mode", "plan", "alone", "saw"} \subseteq DOMAIN r /\ r.mode = run[a].mode
          /\ r.plan = run[a].plan /\ r.alone = run[a].alone
      BY <1>0 DEF CallFiled
    <2> HIDE DEF r
    <2> QED BY <1>1, <2>1, <2>2
  <1>6. CASE EndContext(a)
    <2> DEFINE r == [run[a] EXCEPT !.ctx = FALSE]
    <2>1. /\ UNCHANGED <<live, svc, observed, planned, plans>> /\ run[a].mode # "idle"
          /\ run' = [run EXCEPT ![a] = r]
      BY <1>6 DEF EndContext, desired
    <2>2. /\ {"mode", "plan", "alone", "saw"} \subseteq DOMAIN r /\ r.mode = run[a].mode
          /\ r.plan = run[a].plan /\ r.alone = run[a].alone /\ r.saw = run[a].saw
      BY <1>0 DEF CallFiled
    <2> HIDE DEF r
    <2> QED BY <1>1, <2>1, <2>2
  <1>7. CASE FinishUndone(a) \/ FinishApplied(a)
    <2> DEFINE r == [Idle EXCEPT !.mode = "observing", !.plan = run[a].plan, !.alone = run[a].alone,
                                 !.saw = Reconciled(Plan(a).to)]
    <2>1. UNCHANGED <<live, svc, observed, planned>> /\ run[a].mode # "idle" /\ run' = [run EXCEPT ![a] = r]
      BY <1>7 DEF FinishUndone, FinishApplied, Probe, desired
    <2>2. PICK status : SetStatus(a, status)
      BY <1>7 DEF FinishUndone, FinishApplied
    <2>3. SamePlans
      BY <2>1, <2>2, RecStatus
    <2>4. /\ {"mode", "plan", "alone", "saw"} \subseteq DOMAIN r /\ r.mode = "observing"
          /\ r.plan = run[a].plan /\ r.alone = run[a].alone
          /\ r.saw => live' = DesiredFor(plans[r.plan].to)
      BY <2>1 DEF Idle, Reconciled, Plan
    <2> HIDE DEF r
    <2> QED BY <2>1, <2>3, <2>4, RecGoes
  <1>8. CASE RecordObservation(a) \/ ObservationFails(a)
    <2>1. /\ run[a].mode = "observing" /\ run[a].plan \in DOMAIN plans
          /\ UNCHANGED <<live, svc, planned, plans>> /\ Return(a)
      BY <1>0, <1>8 DEF RecordObservation, ObservationFails, desired, CallFiled
    <2>2. ASSUME NEW saw, NEW alone,
                 PutObservation(run[a].plan, Plan(a).born, saw, alone),
                 alone /\ saw => live = DesiredFor(plans[run[a].plan].to)
          PROVE  RecInv'
      BY <1>0, <2>1, <2>2, RecPut, RecEnds, RecPlansKept DEF Rows
    <2>3. CASE UNCHANGED observed /\ cut' = TRUE
      BY <1>0, <2>1, <2>3, RecEnds, RecPlansKept DEF Rows, ReconciledIsTrue
    <2>4. CASE RecordObservation(a)
      <3>1. run[a].alone /\ run[a].saw => live = DesiredFor(plans[run[a].plan].to)
        BY <1>0, <2>1 DEF CallFiled
      <3>2. PutObservation(run[a].plan, Plan(a).born, run[a].saw, run[a].alone)
        BY <2>4 DEF RecordObservation
      <3> QED BY <1>0, <2>2, <3>1, <3>2 DEF CallFiled
    <2>5. CASE ObservationFails(a)
      BY <1>0, <2>2, <2>3, <2>5 DEF ObservationFails, CallFiled
    <2> QED BY <1>8, <2>4, <2>5
  <1>9. CASE FinishDeleted(a)
    <2>1. /\ run[a].mode # "idle" /\ Return(a) /\ SetStatus(a, "applied") /\ UNCHANGED <<live, planned>>
      BY <1>9 DEF FinishDeleted
    <2>2. \/ svc' = [svc EXCEPT !.exists = FALSE] /\ observed' = Unseen
          \/ UNCHANGED <<svc, observed>> /\ cut'
      BY <1>9 DEF FinishDeleted, desired
    <2>3. svc' \in Service /\ svc'.rev = svc.rev /\ svc'.exposure = svc.exposure
      BY <1>0, <2>2 DEF Rows, Service
    <2>4. /\ observed'.reconciled => observed'.plan \in DOMAIN plans
          /\ ReconciledIsTrue'
      BY <1>0, <2>2 DEF Rows, Service, Unseen, ReconciledIsTrue
    <2> QED BY <2>1, <2>3, <2>4, RecStatus, RecEnds
  <1>10. CASE FinishUnwritten(a) \/ FinishHalfDeleted(a)
    <2>1. /\ cut' /\ Return(a) /\ run[a].mode # "idle" /\ UNCHANGED <<live, svc, planned, observed>>
      BY <1>10 DEF FinishUnwritten, FinishHalfDeleted, desired
    <2>2. SamePlans
      BY <1>10, <2>1, RecStatus, RecPlansKept DEF FinishUnwritten, FinishHalfDeleted
    <2> QED BY <1>0, <2>1, <2>2, RecEnds DEF Rows, ReconciledIsTrue
  <1> QED BY <1>2, <1>3, <1>4, <1>5, <1>6, <1>7, <1>8, <1>9, <1>10, RecBegins DEF Apply

LEMMA RecStep == RecInv /\ [Next]_vars => RecInv'
PROOF
  <1> SUFFICES ASSUME RecInv, [Next]_vars PROVE RecInv'
    OBVIOUS
  <1>0. Rows /\ AuthModes \subseteq Auths
    BY ExposureAssumption DEF RecInv, Auths
  <1>1. ASSUME NEW e \in Exposures, NEW auth \in AuthModes, UpsertService(e, auth)
        PROVE  RecInv'
    <2>1. UNCHANGED <<live, plans, run, planned, observed, cut>>
      BY <1>1 DEF UpsertService
    <2>2. svc' \in Service /\ svc'.rev > svc.rev
      <3>1. CASE svc.exists
        BY <1>0, <1>1, <3>1, Desired DEF UpsertService, Rows
      <3>2. CASE ~svc.exists
        <4>1. svc' = [exists |-> TRUE, born |-> svc.rev + 1, rev |-> svc.rev + 1, exposure |-> e, auth |-> auth]
          BY <1>1, <3>2 DEF UpsertService
        <4>2. svc.rev \in Nat /\ svc.rev + 1 \in Nat
          BY <1>0 DEF Rows, Service
        <4> QED BY <1>0, <4>1, <4>2 DEF Service
      <3> QED BY <3>1, <3>2
    <2> QED BY <2>1, <2>2, RecDesire
  <1>2. ASSUME NEW e \in Exposures, UpdateExposure(e) \/ SetExposure(e)
        PROVE  RecInv'
    <2>1. UpdateExposure(e)
      BY <1>2 DEF SetExposure
    <2>2. UNCHANGED <<live, plans, run, planned, observed, cut>> /\ Desire(e, svc.auth)
      BY <2>1 DEF UpdateExposure
    <2>3. svc' \in Service /\ svc'.rev > svc.rev
      BY <1>0, <2>2, Desired DEF Rows, Service
    <2> QED BY <2>2, <2>3, RecDesire
  <1>3. ASSUME UNCHANGED <<live, svc, plans, run, planned, observed, cut>> PROVE RecInv'
    <2>1. Rows' /\ PlannedFiled' /\ \A a \in Applier : CallFiled(a)'
      BY <1>0, <1>3 DEF RecInv, Rows, CallFiled, PlannedFiled
    <2>2. \A i \in DOMAIN plans' : PlanFiled(plans[i])'
      BY <1>3 DEF RecInv, PlanFiled
    <2>3. ReconciledIsTrue'
      BY <1>3 DEF RecInv, ReconciledIsTrue, Active
    <2> QED BY <2>1, <2>2, <2>3 DEF RecInv
  <1>4. CASE AcknowledgePublic
    BY <1>3, <1>4 DEF AcknowledgePublic
  <1>5. ASSUME NEW kind \in {"exposure", "delete"}, MakePlan(kind) PROVE RecInv'
    BY <1>5, RecPlan
  <1>6. ASSUME NEW a \in Applier, Apply(a) PROVE RecInv'
    BY <1>6, RecApply
  <1>7. CASE Die
    <2>1. /\ run' = [a \in Applier |-> Idle] /\ cut' /\ planned' = Unplanned
          /\ UNCHANGED <<live, svc, plans, observed>>
      BY <1>7 DEF Die, desired
    <2>2. Rows' /\ (\A a \in Applier : CallFiled(a)') /\ PlannedFiled' /\ ReconciledIsTrue'
      BY <1>0, <2>1 DEF Rows, CallFiled, PlannedFiled, Idle, Unplanned, ReconciledIsTrue
    <2>3. \A i \in DOMAIN plans' : PlanFiled(plans[i])'
      BY <2>1 DEF RecInv, PlanFiled
    <2> QED BY <2>2, <2>3 DEF RecInv
  <1>8. CASE UNCHANGED vars
    BY <1>3, <1>8 DEF vars, desired
  <1> QED BY <1>1, <1>2, <1>4, <1>5, <1>6, <1>7, <1>8, RecPlannedLate DEF Next, Operator

\* recordObservation and buildPlan's putObservation, the plan it is written under and the
\* revisions of UpsertService and SetExposure: what Status shows as reconciled beside
\* the desired revision its plan is of is so, whoever applies what beside whom and
\* however late what they saw is written, for any number of services' rows, plans,
\* calls and troubles.
THEOREM ReconciledIsTrueHolds == Spec => []ReconciledIsTrue
PROOF
  <1>1. RecInv => ReconciledIsTrue
    BY DEF RecInv
  <1> QED BY <1>1, RecInit, RecStep, PTL DEF Spec

-----------------------------------------------------------------------------
(* Exposure: what the steps of a plan pass through, and what they reach.    *)

\* What a plan is for.
Target(p) == IF p.kind = "delete" THEN Absent ELSE DesiredFor(p.to)

Touched(s) == {s[i].res : i \in DOMAIN s}

\* Each resource is touched once, in the order of its rank and up to n, and is
\* brought to its goal.
Ranked(s, goal, rank, n) ==
    /\ s \in Seq(Range(s))
    /\ \A i \in DOMAIN s : /\ s[i].res \in Resource /\ s[i].want = goal[s[i].res]
                           /\ rank[s[i].res] <= n
    /\ \A i, j \in DOMAIN s : i < j => rank[s[i].res] < rank[s[j].res]

\* One more step, or none: it touches r, whose rank is past n and up to m.
Piece(x, r, goal, rank, n, m) ==
    \/ x = <<>>
    \/ n < rank[r] /\ rank[r] <= m /\ \E prev : x = << Step(r, goal[r], prev) >>

\* A sequence without elements touches nothing.
LEMMA RankedNone ==
    ASSUME NEW goal, NEW rank
    PROVE  Ranked(<<>>, goal, rank, 0) /\ Touched(<<>>) = {}
PROOF
  <1>1. DOMAIN << >> = {}
    BY EmptySeq, LenProperties
  <1>2. << >> \in Seq(Range(<< >>))
    BY EmptySeq
  <1> QED BY <1>1, <1>2 DEF Ranked, Touched

\* A piece touches its resource when it is not empty.
LEMMA PieceTouches ==
    ASSUME NEW x, NEW r, NEW goal, NEW rank, NEW n, NEW m, Piece(x, r, goal, rank, n, m), x # <<>>
    PROVE  r \in Touched(x)
PROOF
  <1>1. PICK prev : x = << Step(r, goal[r], prev) >>
    BY DEF Piece
  <1>2. 1 \in DOMAIN x /\ x[1].res = r
    BY <1>1 DEF Step
  <1> QED BY <1>2 DEF Touched

\* The next piece of a plan.
Fits(s, x, r, goal, rank, n, m) ==
    /\ \A q \in Resource : rank[q] \in Nat
    /\ n \in Nat /\ m \in Nat /\ n <= m /\ r \in Resource
    /\ Ranked(s, goal, rank, n) /\ Piece(x, r, goal, rank, n, m)

\* What the next piece of a plan adds.
LEMMA RankedMore ==
    ASSUME NEW s, NEW x, NEW r, NEW goal, NEW rank, NEW n, NEW m, Fits(s, x, r, goal, rank, n, m)
    PROVE  /\ Ranked(s \o x, goal, rank, m)
           /\ Touched(s \o x) = Touched(s) \cup Touched(x)
PROOF
  <1> USE DEF Fits
  <1>0. s \in Seq(Range(s)) /\ DOMAIN s = 1 .. Len(s) /\ Len(s) \in Nat
    BY LenProperties DEF Ranked
  <1>1. CASE x = <<>>
    <2>1. s \o x = s
      BY <1>0, <1>1, ConcatEmptySeq
    <2>2. \A i \in DOMAIN s : rank[s[i].res] \in Nat
      BY DEF Ranked
    <2>3. Touched(x) = {}
      BY <1>1, RankedNone
    <2> QED BY <2>1, <2>2, <2>3 DEF Ranked
  <1>2. CASE x # <<>>
    <2>1. PICK e : x = << e >> /\ e.res = r /\ e.want = goal[r]
      BY <1>2 DEF Piece, Step
    <2> DEFINE t == s \o x
               k == Len(s) + 1
    <2>2. t = Append(s, e)
      BY <1>0, <2>1, AppendIsConcat
    <2>3. /\ t \in Seq(Range(t)) /\ DOMAIN t = DOMAIN s \cup {k}
          /\ \A i \in DOMAIN s : t[i] = s[i]
          /\ t[k] = e
      BY <1>0, <2>2, Appended
    <2> HIDE DEF t
    <2>4. \A i \in DOMAIN s : /\ s[i].res \in Resource /\ rank[s[i].res] \in Nat
                              /\ rank[s[i].res] <= n /\ s[i].want = goal[s[i].res]
      BY DEF Ranked
    <2>5. rank[r] \in Nat /\ n < rank[r] /\ rank[r] <= m
      BY <1>2 DEF Piece
    <2>6. \A i \in DOMAIN t : /\ t[i].res \in Resource /\ t[i].want = goal[t[i].res]
                              /\ rank[t[i].res] <= m
      BY <2>1, <2>3, <2>4, <2>5
    <2>7. ASSUME NEW i \in DOMAIN t, NEW j \in DOMAIN t, i < j
          PROVE  rank[t[i].res] < rank[t[j].res]
      <3>1. i \in DOMAIN s
        BY <1>0, <2>3, <2>7
      <3>2. CASE j \in DOMAIN s
        BY <2>3, <2>7, <3>1, <3>2 DEF Ranked
      <3>3. CASE j = k
        BY <2>1, <2>3, <2>4, <2>5, <3>1, <3>3
      <3> QED BY <2>3, <3>2, <3>3
    <2>8. Touched(t) = Touched(s) \cup {r}
      BY <2>1, <2>3 DEF Touched
    <2>9. Touched(x) = {r}
      <3>1. DOMAIN x = {1} /\ x[1] = e
        BY <2>1
      <3> QED BY <2>1, <3>1 DEF Touched
    <2>10. Ranked(t, goal, rank, m)
      BY <2>3, <2>6, <2>7 DEF Ranked
    <2> QED BY <2>8, <2>9, <2>10 DEF t
  <1> QED BY <1>1, <1>2

\* The order of a plan towards an exposure, and that of a delete.
ExposureRank(want) ==
    [r \in Resource |->
       CASE r = "anchor" -> 1 [] r = "edge" -> 2 [] r = "vanity" -> 5
         [] r = "gate"    -> IF want.gate = None THEN 7 ELSE 3
         [] OTHER         -> IF want.ingress = None THEN 6 ELSE 4]
DeleteRank ==
    [r \in Resource |->
       CASE r = "vanity" -> 1 [] r = "ingress" -> 2 [] r = "gate" -> 3
         [] r = "edge" -> 4 [] OTHER -> 5]

LEMMA Resources == Resource = {"vanity", "anchor", "ingress", "edge", "gate"}
  BY DEF Resource, Values

\* The ranks there are.
LEMMA Small ==
    /\ 0 \in Nat /\ 1 \in Nat /\ 2 \in Nat /\ 3 \in Nat /\ 4 \in Nat /\ 5 \in Nat /\ 6 \in Nat /\ 7 \in Nat
    /\ 0 <= 1 /\ 1 <= 2 /\ 2 <= 3 /\ 3 <= 4 /\ 4 <= 5 /\ 5 <= 6 /\ 6 <= 7
  OBVIOUS

\* The steps of a plan towards an exposure.
LEMMA ExposureStepsRanked ==
    ASSUME NEW seen, NEW want, want.vanity # None, want.anchor # None, want.edge # None
    PROVE  /\ Ranked(ExposureSteps(seen, want), want, ExposureRank(want), 7)
           /\ \A r \in Resource : seen[r] # want[r] => r \in Touched(ExposureSteps(seen, want))
PROOF
  <1> DEFINE rank == ExposureRank(want)
  <1>0. /\ \A q \in Resource : rank[q] \in Nat
        /\ rank["anchor"] = 1 /\ rank["edge"] = 2 /\ rank["vanity"] = 5
        /\ rank["gate"] = IF want.gate = None THEN 7 ELSE 3
        /\ rank["ingress"] = IF want.ingress = None THEN 6 ELSE 4
    BY Resources DEF ExposureRank
  <1> HIDE DEF rank
  <1> DEFINE e0 == << >>
             x1 == Made("anchor", seen, want)
             x2 == Made("edge", seen, want)
             x3 == Made("gate", seen, want)
             x4 == Made("ingress", seen, want)
             x5 == Made("vanity", seen, want)
             x6 == Removed("ingress", seen, want)
             x7 == Removed("gate", seen, want)
             e1 == e0 \o x1
             e2 == e1 \o x2
             e3 == e2 \o x3
             e4 == e3 \o x4
             e5 == e4 \o x5
             e6 == e5 \o x6
             e7 == e6 \o x7
  <1>1. /\ Piece(x1, "anchor", want, rank, 0, 1)
        /\ Piece(x2, "edge", want, rank, 1, 2)
        /\ Piece(x3, "gate", want, rank, 2, 3)
        /\ Piece(x4, "ingress", want, rank, 3, 4)
        /\ Piece(x5, "vanity", want, rank, 4, 5)
        /\ Piece(x6, "ingress", want, rank, 5, 6)
        /\ Piece(x7, "gate", want, rank, 6, 7)
    BY <1>0 DEF Piece, Made, Removed
  <1>2. /\ seen.anchor # want.anchor => "anchor" \in Touched(x1)
        /\ seen.edge # want.edge => "edge" \in Touched(x2)
        /\ seen.gate # want.gate => "gate" \in Touched(x3) \cup Touched(x7)
        /\ seen.ingress # want.ingress => "ingress" \in Touched(x4) \cup Touched(x6)
        /\ seen.vanity # want.vanity => "vanity" \in Touched(x5)
    <2>1. /\ seen.anchor # want.anchor => x1 # <<>>
          /\ seen.edge # want.edge => x2 # <<>>
          /\ seen.gate # want.gate => x3 # <<>> \/ x7 # <<>>
          /\ seen.ingress # want.ingress => x4 # <<>> \/ x6 # <<>>
          /\ seen.vanity # want.vanity => x5 # <<>>
      BY DEF Made, Removed
    <2> HIDE DEF x1, x2, x3, x4, x5, x6, x7
    <2> QED BY <1>1, <2>1, PieceTouches
  <1> HIDE DEF e0, x1, x2, x3, x4, x5, x6, x7
  <1>3. Ranked(e0, want, rank, 0) /\ Touched(e0) = {}
    BY RankedNone DEF e0
  <1>4. Ranked(e1, want, rank, 1) /\ Touched(e1) = Touched(e0) \cup Touched(x1)
    <2>1. Fits(e0, x1, "anchor", want, rank, 0, 1)
      BY <1>0, <1>1, <1>3, Small, Resources, Zenon DEF Fits
    <2> QED BY <2>1, RankedMore, Zenon
  <1> HIDE DEF e1
  <1>5. Ranked(e2, want, rank, 2) /\ Touched(e2) = Touched(e1) \cup Touched(x2)
    <2>1. Fits(e1, x2, "edge", want, rank, 1, 2)
      BY <1>0, <1>1, <1>4, Small, Resources, Zenon DEF Fits
    <2> QED BY <2>1, RankedMore, Zenon
  <1> HIDE DEF e2
  <1>6. Ranked(e3, want, rank, 3) /\ Touched(e3) = Touched(e2) \cup Touched(x3)
    <2>1. Fits(e2, x3, "gate", want, rank, 2, 3)
      BY <1>0, <1>1, <1>5, Small, Resources, Zenon DEF Fits
    <2> QED BY <2>1, RankedMore, Zenon
  <1> HIDE DEF e3
  <1>7. Ranked(e4, want, rank, 4) /\ Touched(e4) = Touched(e3) \cup Touched(x4)
    <2>1. Fits(e3, x4, "ingress", want, rank, 3, 4)
      BY <1>0, <1>1, <1>6, Small, Resources, Zenon DEF Fits
    <2> QED BY <2>1, RankedMore, Zenon
  <1> HIDE DEF e4
  <1>8. Ranked(e5, want, rank, 5) /\ Touched(e5) = Touched(e4) \cup Touched(x5)
    <2>1. Fits(e4, x5, "vanity", want, rank, 4, 5)
      BY <1>0, <1>1, <1>7, Small, Resources, Zenon DEF Fits
    <2> QED BY <2>1, RankedMore, Zenon
  <1> HIDE DEF e5
  <1>9. Ranked(e6, want, rank, 6) /\ Touched(e6) = Touched(e5) \cup Touched(x6)
    <2>1. Fits(e5, x6, "ingress", want, rank, 5, 6)
      BY <1>0, <1>1, <1>8, Small, Resources, Zenon DEF Fits
    <2> QED BY <2>1, RankedMore, Zenon
  <1> HIDE DEF e6
  <1>10. Ranked(e7, want, rank, 7) /\ Touched(e7) = Touched(e6) \cup Touched(x7)
    <2>1. Fits(e6, x7, "gate", want, rank, 6, 7)
      BY <1>0, <1>1, <1>9, Small, Resources, Zenon DEF Fits
    <2> QED BY <2>1, RankedMore, Zenon
  <1> HIDE DEF e7
  <1>11. ExposureSteps(seen, want) = e7
    <2>1. e1 = x1
      BY ConcatEmptySeq, EmptySeq DEF e1, e0, x1, Made
    <2> QED BY <2>1 DEF ExposureSteps, e2, e3, e4, e5, e6, e7, x1, x2, x3, x4, x5, x6, x7
  <1>12. \A r \in Resource : seen[r] # want[r] => r \in Touched(e7)
    BY <1>2, <1>3, <1>4, <1>5, <1>6, <1>7, <1>8, <1>9, <1>10, Resources
  <1> QED BY <1>10, <1>11, <1>12 DEF rank

\* The steps of a delete.
LEMMA DeleteStepsRanked ==
    ASSUME NEW seen, NEW want, want.vanity # None
    PROVE  /\ Ranked(DeleteSteps(seen, want), Absent, DeleteRank, 5)
           /\ \A r \in Resource : seen[r] # None => r \in Touched(DeleteSteps(seen, want))
PROOF
  <1> DEFINE rank == DeleteRank
  <1>0. /\ \A q \in Resource : rank[q] \in Nat
        /\ rank["vanity"] = 1 /\ rank["ingress"] = 2 /\ rank["gate"] = 3
        /\ rank["edge"] = 4 /\ rank["anchor"] = 5
        /\ \A r \in Resource : Absent[r] = None
    BY Resources DEF DeleteRank, Absent
  <1> HIDE DEF rank
  <1> DEFINE e0 == << >>
             x1 == TornDown("vanity", seen, want)
             x2 == TornDown("ingress", seen, want)
             x3 == TornDown("gate", seen, want)
             x4 == TornDown("edge", seen, want)
             x5 == TornDown("anchor", seen, want)
             e1 == e0 \o x1
             e2 == e1 \o x2
             e3 == e2 \o x3
             e4 == e3 \o x4
             e5 == e4 \o x5
  <1>1. /\ Piece(x1, "vanity", Absent, rank, 0, 1)
        /\ Piece(x2, "ingress", Absent, rank, 1, 2)
        /\ Piece(x3, "gate", Absent, rank, 2, 3)
        /\ Piece(x4, "edge", Absent, rank, 3, 4)
        /\ Piece(x5, "anchor", Absent, rank, 4, 5)
    <2>1. \A r \in Resource : \/ TornDown(r, seen, want) = <<>>
                               \/ \E prev : TornDown(r, seen, want) = << Step(r, Absent[r], prev) >>
      BY <1>0 DEF TornDown
    <2> QED BY <1>0, <2>1, Resources DEF Piece
  <1>2. /\ seen.vanity # None => "vanity" \in Touched(x1)
        /\ seen.ingress # None => "ingress" \in Touched(x2)
        /\ seen.gate # None => "gate" \in Touched(x3)
        /\ seen.edge # None => "edge" \in Touched(x4)
        /\ seen.anchor # None => "anchor" \in Touched(x5)
    <2>1. /\ seen.vanity # None => x1 # <<>>
          /\ seen.ingress # None => x2 # <<>>
          /\ seen.gate # None => x3 # <<>>
          /\ seen.edge # None => x4 # <<>>
          /\ seen.anchor # None => x5 # <<>>
      BY DEF TornDown
    <2> HIDE DEF x1, x2, x3, x4, x5
    <2> QED BY <1>1, <2>1, PieceTouches
  <1> HIDE DEF e0, x1, x2, x3, x4, x5
  <1>3. Ranked(e0, Absent, rank, 0) /\ Touched(e0) = {}
    BY RankedNone DEF e0
  <1>4. Ranked(e1, Absent, rank, 1) /\ Touched(e1) = Touched(e0) \cup Touched(x1)
    <2>1. Fits(e0, x1, "vanity", Absent, rank, 0, 1)
      BY <1>0, <1>1, <1>3, Small, Resources, Zenon DEF Fits
    <2> QED BY <2>1, RankedMore, Zenon
  <1> HIDE DEF e1
  <1>5. Ranked(e2, Absent, rank, 2) /\ Touched(e2) = Touched(e1) \cup Touched(x2)
    <2>1. Fits(e1, x2, "ingress", Absent, rank, 1, 2)
      BY <1>0, <1>1, <1>4, Small, Resources, Zenon DEF Fits
    <2> QED BY <2>1, RankedMore, Zenon
  <1> HIDE DEF e2
  <1>6. Ranked(e3, Absent, rank, 3) /\ Touched(e3) = Touched(e2) \cup Touched(x3)
    <2>1. Fits(e2, x3, "gate", Absent, rank, 2, 3)
      BY <1>0, <1>1, <1>5, Small, Resources, Zenon DEF Fits
    <2> QED BY <2>1, RankedMore, Zenon
  <1> HIDE DEF e3
  <1>7. Ranked(e4, Absent, rank, 4) /\ Touched(e4) = Touched(e3) \cup Touched(x4)
    <2>1. Fits(e3, x4, "edge", Absent, rank, 3, 4)
      BY <1>0, <1>1, <1>6, Small, Resources, Zenon DEF Fits
    <2> QED BY <2>1, RankedMore, Zenon
  <1> HIDE DEF e4
  <1>8. Ranked(e5, Absent, rank, 5) /\ Touched(e5) = Touched(e4) \cup Touched(x5)
    <2>1. Fits(e4, x5, "anchor", Absent, rank, 4, 5)
      BY <1>0, <1>1, <1>7, Small, Resources, Zenon DEF Fits
    <2> QED BY <2>1, RankedMore, Zenon
  <1> HIDE DEF e5
  <1>9. DeleteSteps(seen, want) = e5
    <2>1. e1 = x1
      BY ConcatEmptySeq, EmptySeq DEF e1, e0, x1, TornDown
    <2> QED BY <2>1 DEF DeleteSteps, e2, e3, e4, e5, x1, x2, x3, x4, x5
  <1>10. \A r \in Resource : seen[r] # None => r \in Touched(e5)
    BY <1>2, <1>3, <1>4, <1>5, <1>6, <1>7, <1>8, Resources
  <1> QED BY <1>8, <1>9, <1>10 DEF rank

\* What a plan's row holds once it is computed.
Planned(p) ==
    /\ {"kind", "to", "seen", "steps", "status"} \subseteq DOMAIN p
    /\ p.steps \in Seq(Range(p.steps))
    /\ \A i \in DOMAIN p.steps :
         p.steps[i].res \in Resource /\ p.steps[i].want = Target(p)[p.steps[i].res]
    /\ \A i, j \in DOMAIN p.steps : p.steps[i].res = p.steps[j].res => i = j
    /\ \A r \in Resource : p.seen[r] # Target(p)[r] => r \in Touched(p.steps)

\* A plan whose steps are ranked touches no resource twice.
LEMMA PlannedSteps ==
    ASSUME NEW p, {"kind", "to", "seen", "steps", "status"} \subseteq DOMAIN p,
           NEW rank, \A r \in Resource : rank[r] \in Nat,
           NEW n, Ranked(p.steps, Target(p), rank, n),
           \A r \in Resource : p.seen[r] # Target(p)[r] => r \in Touched(p.steps)
    PROVE  Planned(p)
PROOF
  <1>1. p.steps \in Seq(Range(p.steps)) /\ DOMAIN p.steps = 1 .. Len(p.steps) /\ Len(p.steps) \in Nat
    BY LenProperties DEF Ranked
  <1>2. ASSUME NEW i \in DOMAIN p.steps, NEW j \in DOMAIN p.steps, p.steps[i].res = p.steps[j].res
        PROVE  i = j
    <2>1. /\ i < j => rank[p.steps[i].res] < rank[p.steps[j].res]
          /\ j < i => rank[p.steps[j].res] < rank[p.steps[i].res]
          /\ rank[p.steps[i].res] \in Nat
      BY DEF Ranked
    <2> QED BY <1>1, <1>2, <2>1
  <1>3. \A i \in DOMAIN p.steps :
          p.steps[i].res \in Resource /\ p.steps[i].want = Target(p)[p.steps[i].res]
    BY DEF Ranked
  <1> QED BY <1>1, <1>2, <1>3 DEF Planned

\* What the first n steps of a plan made: their resources are as wanted, the others
\* as they were.
LEMMA AfterSteps ==
    ASSUME NEW p, Planned(p), NEW n \in 0 .. Len(p.steps)
    PROVE  /\ After(p, n) = [r \in Resource |-> After(p, n)[r]]
           /\ \A i \in DOMAIN p.steps : i <= n => After(p, n)[p.steps[i].res] = Target(p)[p.steps[i].res]
           /\ \A r \in Resource : (\A i \in DOMAIN p.steps : i <= n => p.steps[i].res # r) =>
                                     After(p, n)[r] = p.seen[r]
PROOF
  <1> DEFINE on(r) == {i \in 1 .. n : p.steps[i].res = r}
  <1>0. DOMAIN p.steps = 1 .. Len(p.steps) /\ Len(p.steps) \in Nat
    BY LenProperties DEF Planned
  <1>1. /\ After(p, n) = [r \in Resource |-> After(p, n)[r]]
        /\ \A r \in Resource : After(p, n)[r] =
             IF on(r) = {} THEN p.seen[r] ELSE p.steps[CHOOSE i \in on(r) : \A j \in on(r) : j <= i].want
    BY DEF After
  <1>2. ASSUME NEW i \in DOMAIN p.steps, i <= n
        PROVE  After(p, n)[p.steps[i].res] = Target(p)[p.steps[i].res]
    <2> DEFINE r == p.steps[i].res
    <2>1. i \in on(r) /\ \A j \in on(r) : j = i
      BY <1>0, <1>2 DEF Planned
    <2>2. \A j \in on(r) : j <= i
      BY <1>0, <2>1
    <2>3. (CHOOSE k \in on(r) : \A j \in on(r) : j <= k) = i
      BY <2>1, <2>2
    <2>4. r \in Resource /\ p.steps[i].want = Target(p)[r]
      BY DEF Planned
    <2> HIDE DEF on
    <2> QED BY <1>1, <2>1, <2>3, <2>4
  <1>3. ASSUME NEW r \in Resource, \A i \in DOMAIN p.steps : i <= n => p.steps[i].res # r
        PROVE  After(p, n)[r] = p.seen[r]
    <2>1. on(r) = {}
      BY <1>0, <1>3
    <2> QED BY <1>1, <2>1
  <1> QED BY <1>1, <1>2, <1>3

\* Each resource is after n steps as it was or as wanted, and it is as it was only
\* while its step is still to come.
LEMMA AfterOne ==
    ASSUME NEW p, Planned(p), NEW n \in 0 .. Len(p.steps), NEW r \in Resource
    PROVE  \/ After(p, n)[r] = Target(p)[r]
           \/ /\ After(p, n)[r] = p.seen[r]
              /\ \E i \in DOMAIN p.steps : p.steps[i].res = r /\ n < i
PROOF
  <1>0. DOMAIN p.steps = 1 .. Len(p.steps) /\ Len(p.steps) \in Nat
    BY LenProperties DEF Planned
  <1>1. CASE \E i \in DOMAIN p.steps : i <= n /\ p.steps[i].res = r
    BY <1>1, AfterSteps
  <1>2. CASE ~\E i \in DOMAIN p.steps : i <= n /\ p.steps[i].res = r
    <2>1. After(p, n)[r] = p.seen[r]
      BY <1>2, AfterSteps
    <2>2. CASE p.seen[r] = Target(p)[r]
      BY <2>1, <2>2
    <2>3. CASE p.seen[r] # Target(p)[r]
      <3>1. PICK i \in DOMAIN p.steps : p.steps[i].res = r
        BY <2>3 DEF Planned, Touched
      <3>2. n < i
        BY <1>0, <1>2, <3>1
      <3> QED BY <2>1, <3>1, <3>2
    <2> QED BY <2>2, <2>3
  <1> QED BY <1>1, <1>2

\* A resource whose step is still to come is as it was.
LEMMA AfterBefore ==
    ASSUME NEW p, Planned(p), NEW n \in 0 .. Len(p.steps), NEW i \in DOMAIN p.steps, n < i
    PROVE  After(p, n)[p.steps[i].res] = p.seen[p.steps[i].res]
PROOF
  <1>0. DOMAIN p.steps = 1 .. Len(p.steps) /\ Len(p.steps) \in Nat
    BY LenProperties DEF Planned
  <1>1. p.steps[i].res \in Resource
    BY DEF Planned
  <1>2. \A j \in DOMAIN p.steps : j <= n => p.steps[j].res # p.steps[i].res
    BY <1>0 DEF Planned
  <1> QED BY <1>1, <1>2, AfterSteps

\* All steps of a plan make what it is for.
LEMMA AfterAll ==
    ASSUME NEW p, Planned(p)
    PROVE  /\ After(p, Len(p.steps)) = Target(p)
           /\ After(p, 0) = [r \in Resource |-> p.seen[r]]
PROOF
  <1>0. DOMAIN p.steps = 1 .. Len(p.steps) /\ Len(p.steps) \in Nat
    BY LenProperties DEF Planned
  <1>1. Target(p) = [r \in Resource |-> Target(p)[r]]
    BY Resources DEF Target, Absent, DesiredFor
  <1>2. \A r \in Resource : After(p, Len(p.steps))[r] = Target(p)[r]
    BY <1>0, AfterOne
  <1>3. After(p, Len(p.steps)) = [r \in Resource |-> After(p, Len(p.steps))[r]]
    BY DEF After
  <1>4. \A r \in Resource : After(p, 0)[r] = p.seen[r]
    BY <1>0, AfterSteps
  <1>5. After(p, 0) = [r \in Resource |-> After(p, 0)[r]]
    BY DEF After
  <1> QED BY <1>1, <1>2, <1>3, <1>4, <1>5

\* One more step changes its resource alone.
LEMMA AfterNext ==
    ASSUME NEW p, Planned(p), NEW i \in DOMAIN p.steps
    PROVE  /\ i - 1 \in 0 .. Len(p.steps) /\ i \in 0 .. Len(p.steps)
           /\ After(p, i) = [After(p, i - 1) EXCEPT ![p.steps[i].res] = p.steps[i].want]
PROOF
  <1> DEFINE l == After(p, i - 1)
             q == p.steps[i].res
  <1>0. DOMAIN p.steps = 1 .. Len(p.steps) /\ Len(p.steps) \in Nat
    BY LenProperties DEF Planned
  <1>1. i \in Nat /\ i - 1 \in 0 .. Len(p.steps) /\ i \in 0 .. Len(p.steps)
    BY <1>0
  <1>2. q \in Resource /\ p.steps[i].want = Target(p)[q]
    BY DEF Planned
  <1>3. l = [r \in Resource |-> l[r]] /\ After(p, i) = [r \in Resource |-> After(p, i)[r]]
    BY DEF After
  <1>4. After(p, i)[q] = p.steps[i].want
    BY <1>0, <1>1, <1>2, AfterSteps
  <1>5. ASSUME NEW r \in Resource, r # q
        PROVE  After(p, i)[r] = l[r]
    <2>1. CASE \E j \in DOMAIN p.steps : j <= i - 1 /\ p.steps[j].res = r
      <3>1. PICK j \in DOMAIN p.steps : j <= i - 1 /\ p.steps[j].res = r
        BY <2>1
      <3>2. j <= i
        BY <1>0, <3>1
      <3> QED BY <1>1, <3>1, <3>2, AfterSteps
    <2>2. CASE \A j \in DOMAIN p.steps : j <= i - 1 => p.steps[j].res # r
      <3>1. \A j \in DOMAIN p.steps : j <= i => j <= i - 1 \/ j = i
        BY <1>0
      <3>2. \A j \in DOMAIN p.steps : j <= i => p.steps[j].res # r
        BY <1>5, <2>2, <3>1
      <3> QED BY <1>1, <2>2, <3>2, AfterSteps
    <2> QED BY <2>1, <2>2
  <1> HIDE DEF l, q
  <1>6. After(p, i) = [l EXCEPT ![q] = p.steps[i].want]
    BY <1>2, <1>3, <1>4, <1>5
  <1> QED BY <1>1, <1>6 DEF l, q

\* While a resource is not as wanted, those ranked after it are as they were.
LEMMA AfterOrder ==
    ASSUME NEW p, Planned(p), NEW n \in 0 .. Len(p.steps),
           NEW rank, NEW m, Ranked(p.steps, Target(p), rank, m), \A r \in Resource : rank[r] \in Nat,
           NEW r \in Resource, NEW q \in Resource, rank[r] < rank[q],
           After(p, n)[r] # Target(p)[r]
    PROVE  After(p, n)[r] = p.seen[r] /\ After(p, n)[q] = p.seen[q]
PROOF
  <1>0. DOMAIN p.steps = 1 .. Len(p.steps) /\ Len(p.steps) \in Nat
    BY LenProperties DEF Planned
  <1>1. PICK i \in DOMAIN p.steps : p.steps[i].res = r /\ n < i
    BY AfterOne
  <1>2. After(p, n)[r] = p.seen[r]
    BY AfterOne
  <1>3. CASE \E j \in DOMAIN p.steps : p.steps[j].res = q
    <2>1. PICK j \in DOMAIN p.steps : p.steps[j].res = q
      BY <1>3
    <2>2. ~(j < i) /\ j # i
      BY <1>1, <2>1 DEF Ranked
    <2>3. n < j
      BY <1>0, <1>1, <2>2
    <2>4. After(p, n)[p.steps[j].res] = p.seen[p.steps[j].res]
      BY <2>3, AfterBefore
    <2> QED BY <1>2, <2>1, <2>4
  <1>4. CASE ~\E j \in DOMAIN p.steps : p.steps[j].res = q
    BY <1>2, <1>4, AfterSteps
  <1> QED BY <1>3, <1>4

\* The rank of the steps of a plan.
Rank(p) == IF p.kind = "delete" THEN DeleteRank ELSE ExposureRank(DesiredFor(p.to))

\* No part of a plan that is not for public opens what was gated.
LEMMA NeverOpens ==
    ASSUME NEW p, Planned(p), NEW m, Ranked(p.steps, Target(p), Rank(p), m),
           p.to \in Exposures, p.kind = "delete" \/ p.to # "public", ~Open(p.seen),
           NEW n \in 0 .. Len(p.steps)
    PROVE  ~Open(After(p, n))
PROOF
  <1> SUFFICES ASSUME Open(After(p, n)) PROVE FALSE
    OBVIOUS
  <1>0. /\ After(p, n)["vanity"] = "tunnel" /\ After(p, n)["ingress"] = "set"
        /\ After(p, n)["gate"] = None
    BY DEF Open
  <1>1. \A r \in Resource : Rank(p)[r] \in Nat
    BY Resources DEF Rank, DeleteRank, ExposureRank
  <1>2. CASE p.kind = "delete" \/ p.to = "private"
    <2>1. Target(p)["vanity"] # "tunnel"
      BY <1>2 DEF Target, Absent, DesiredFor, None, Resource, Values
    <2>2. Rank(p)["vanity"] < Rank(p)["ingress"] /\ Rank(p)["vanity"] < Rank(p)["gate"]
      <3>1. CASE p.kind = "delete"
        BY <3>1, Resources DEF Rank, DeleteRank
      <3>2. CASE p.kind # "delete"
        <4>1. DesiredFor(p.to).ingress = None /\ DesiredFor(p.to).gate = None
          BY <1>2, <3>2 DEF DesiredFor
        <4> QED BY <3>2, <4>1, Resources DEF Rank, ExposureRank
      <3> QED BY <3>1, <3>2
    <2>3. /\ p.seen["vanity"] = "tunnel" /\ p.seen["ingress"] = "set" /\ p.seen["gate"] = None
      BY <1>0, <1>1, <2>1, <2>2, AfterOrder, Resources
    <2> QED BY <2>3 DEF Open
  <1>3. CASE p.kind # "delete" /\ p.to = "shared"
    <2>1. Target(p)["gate"] # None
      BY <1>3 DEF Target, DesiredFor, None
    <2>2. Rank(p)["gate"] < Rank(p)["ingress"] /\ Rank(p)["gate"] < Rank(p)["vanity"]
      <3>1. DesiredFor(p.to).ingress # None /\ DesiredFor(p.to).gate # None
        BY <1>3 DEF DesiredFor, None
      <3> QED BY <1>3, <3>1, Resources DEF Rank, ExposureRank
    <2>3. /\ p.seen["vanity"] = "tunnel" /\ p.seen["ingress"] = "set" /\ p.seen["gate"] = None
      BY <1>0, <1>1, <2>1, <2>2, AfterOrder, Resources
    <2> QED BY <2>3 DEF Open
  <1> QED BY <1>2, <1>3 DEF Exposures

\* A plan that is computed has ranked steps from what was seen to what it is for.
LEMMA PlanComputed ==
    ASSUME NEW kind \in {"exposure", "delete"}, MakePlan(kind), svc.exposure \in Exposures
    PROVE  \E p : /\ plans' = Append(plans, p)
                  /\ Planned(p) /\ p.to \in Exposures /\ p.seen = live /\ p.status = "pending"
                  /\ \E m : Ranked(p.steps, Target(p), Rank(p), m)
PROOF
  <1> DEFINE want == DesiredFor(svc.exposure)
  <1>1. PICK steps : steps = IF kind = "delete" THEN DeleteSteps(live, want) ELSE ExposureSteps(live, want)
    OBVIOUS
  <1>2. PICK p : /\ plans' = Append(plans, p)
                 /\ {"kind", "to", "seen", "steps", "status"} \subseteq DOMAIN p
                 /\ p.kind = kind /\ p.to = svc.exposure /\ p.steps = steps /\ p.seen = live
                 /\ p.status = "pending"
    BY <1>1 DEF MakePlan
  <1>3. /\ want.vanity # None /\ want.anchor # None /\ want.edge # None
        /\ \A r \in Resource : Absent[r] = None
    BY DEF DesiredFor, None, Absent
  <1> HIDE DEF want
  <1>4. ASSUME kind = "delete"
        PROVE  \E m : /\ Ranked(p.steps, Target(p), Rank(p), m)
                      /\ \A r \in Resource : p.seen[r] # Target(p)[r] => r \in Touched(p.steps)
    <2>1. Target(p) = Absent /\ Rank(p) = DeleteRank
      BY <1>2, <1>4 DEF Target, Rank
    <2>2. /\ Ranked(p.steps, Target(p), Rank(p), 5)
          /\ \A r \in Resource : p.seen[r] # Target(p)[r] => r \in Touched(p.steps)
      BY <1>1, <1>2, <1>3, <1>4, <2>1, DeleteStepsRanked, Zenon
    <2> QED BY <2>2, Zenon
  <1>5. ASSUME kind = "exposure"
        PROVE  \E m : /\ Ranked(p.steps, Target(p), Rank(p), m)
                      /\ \A r \in Resource : p.seen[r] # Target(p)[r] => r \in Touched(p.steps)
    <2>1. Target(p) = want /\ Rank(p) = ExposureRank(want)
      BY <1>2, <1>5 DEF Target, Rank, want
    <2>2. kind # "delete"
      BY <1>5
    <2>3. /\ Ranked(p.steps, Target(p), Rank(p), 7)
          /\ \A r \in Resource : p.seen[r] # Target(p)[r] => r \in Touched(p.steps)
      BY <1>1, <1>2, <1>3, <2>1, <2>2, ExposureStepsRanked, Zenon
    <2> QED BY <2>3, Zenon
  <1>6. PICK m : /\ Ranked(p.steps, Target(p), Rank(p), m)
                 /\ \A r \in Resource : p.seen[r] # Target(p)[r] => r \in Touched(p.steps)
    BY <1>4, <1>5
  <1>7. \A r \in Resource : Rank(p)[r] \in Nat
    BY Resources DEF Rank, DeleteRank, ExposureRank
  <1>8. Planned(p)
    BY <1>2, <1>6, <1>7, PlannedSteps, Zenon
  <1> QED BY <1>2, <1>6, <1>8

\* What a step does to the rows of the plans: it adds one, or writes the status of
\* the plan of one call.
LEMMA PlansMove ==
    ASSUME RecInv, [Next]_vars
    PROVE  \/ UNCHANGED plans
           \/ \E kind \in {"exposure", "delete"} : MakePlan(kind)
           \/ \E a \in Applier, status \in {"applied", "rolled_back", "failed"} :
                /\ run[a].mode # "idle" /\ run[a].plan \in DOMAIN plans
                /\ SetStatus(a, status)
                /\ status = "applied" => run[a].mode = "doing" /\ run[a].at > Len(Steps(a))
PROOF
  <1>1. ASSUME NEW a \in Applier, NEW status \in {"applied", "rolled_back", "failed"},
               run[a].mode \in {"doing", "undoing"}, SetStatus(a, status),
               status = "applied" => run[a].mode = "doing" /\ run[a].at > Len(Steps(a))
        PROVE  \E b \in Applier, s \in {"applied", "rolled_back", "failed"} :
                /\ run[b].mode # "idle" /\ run[b].plan \in DOMAIN plans
                /\ SetStatus(b, s)
                /\ s = "applied" => run[b].mode = "doing" /\ run[b].at > Len(Steps(b))
    <2>1. run[a].mode # "idle" /\ run[a].plan \in DOMAIN plans
      BY <1>1 DEF RecInv, CallFiled
    <2> QED BY <1>1, <2>1, Zenon
  <1>2. ASSUME NEW a \in Applier, Apply(a), ~UNCHANGED plans
        PROVE  \E s \in {"applied", "rolled_back", "failed"} :
                 /\ run[a].mode \in {"doing", "undoing"} /\ SetStatus(a, s)
                 /\ s = "applied" => run[a].mode = "doing" /\ run[a].at > Len(Steps(a))
    <2>1. \/ FinishUndone(a) \/ FinishApplied(a) \/ FinishDeleted(a) \/ FinishHalfDeleted(a)
      BY <1>2 DEF Apply, BeginApply, ExecStep, ExecStepFails, UndoStep, UndoStepFails,
         RecordObservation, ObservationFails, FinishUnwritten, EndContext
    <2>2. CASE FinishUndone(a)
      BY <2>2 DEF FinishUndone
    <2>3. CASE FinishApplied(a) \/ FinishDeleted(a)
      BY <2>3 DEF FinishApplied, FinishDeleted
    <2>4. CASE FinishHalfDeleted(a)
      BY <2>4 DEF FinishHalfDeleted
    <2> QED BY <2>1, <2>2, <2>3, <2>4
  <1>3. CASE Operator
    BY <1>3 DEF Operator, UpsertService, UpdateExposure, SetExposure, AcknowledgePublic, ObservePlanned
  <1>4. CASE \E a \in Applier : Apply(a)
    BY <1>1, <1>2, <1>4, Zenon
  <1>5. CASE Die \/ UNCHANGED vars
    BY <1>5 DEF Die, vars
  <1> QED BY <1>3, <1>4, <1>5 DEF Next

\* Only MakePlan adds a plan, and no plan of it opens what it found gated.
LEMMA GatedStep ==
    ASSUME RecInv, [Next]_vars, Len(plans') > Len(plans)
    PROVE  LET p == Last(plans') IN
           /\ (p.kind = "delete" \/ p.to # "public") /\ ~Open(p.seen) =>
                 \A n \in 0 .. Len(p.steps) : ~Open(After(p, n))
           /\ After(p, Len(p.steps)) = IF p.kind = "delete" THEN Absent ELSE DesiredFor(p.to)
PROOF
  <1>0. plans \in Seq(Range(plans)) /\ Len(plans) \in Nat /\ DOMAIN plans = 1 .. Len(plans)
    BY LenProperties DEF RecInv, Rows
  <1>1. ASSUME NEW a \in Applier, NEW status, run[a].plan \in DOMAIN plans, SetStatus(a, status)
        PROVE  FALSE
    <2>1. PICK e : plans' = [plans EXCEPT ![run[a].plan] = e]
      BY <1>1 DEF SetStatus
    <2>2. plans' \in Seq(Range(plans')) /\ DOMAIN plans' = DOMAIN plans
      BY <1>0, <1>1, <2>1, Rewritten
    <2>3. Len(plans') \in Nat /\ 1 .. Len(plans') = 1 .. Len(plans)
      BY <1>0, <2>2, LenProperties
    <2> QED BY <1>0, <2>3
  <1>2. PICK kind \in {"exposure", "delete"} : MakePlan(kind)
    BY <1>0, <1>1, PlansMove
  <1>3. svc.exposure \in Exposures
    BY DEF RecInv, Rows, Service
  <1>4. PICK p : /\ plans' = Append(plans, p)
                 /\ Planned(p) /\ p.to \in Exposures /\ p.seen = live
                 /\ \E m : Ranked(p.steps, Target(p), Rank(p), m)
    BY <1>2, <1>3, PlanComputed, Zenon
  <1>5. Last(plans') = p
    <2>1. plans' \in Seq(Range(plans')) /\ DOMAIN plans' = DOMAIN plans \cup {Len(plans) + 1}
            /\ plans'[Len(plans) + 1] = p
      BY <1>0, <1>4, Appended
    <2>2. Len(plans') \in Nat /\ DOMAIN plans' = 1 .. Len(plans')
      BY <2>1, LenProperties
    <2>3. Len(plans') = Len(plans) + 1
      BY <1>0, <2>1, <2>2
    <2> QED BY <2>1, <2>3 DEF Last
  <1>6. ASSUME p.kind = "delete" \/ p.to # "public", ~Open(p.seen), NEW n \in 0 .. Len(p.steps)
        PROVE  ~Open(After(p, n))
    BY <1>4, <1>6, NeverOpens, Zenon
  <1>7. After(p, Len(p.steps)) = IF p.kind = "delete" THEN Absent ELSE DesiredFor(p.to)
    BY <1>4, AfterAll DEF Target
  <1> QED BY <1>5, <1>6, <1>7

\* buildPlan, exposureSteps, deleteSteps: no plan that is not for public passes through a
\* state that opens what was gated when it was computed, and all its steps together
\* reach what it is for, whatever live state it was computed from and whatever else
\* is being applied.
THEOREM PlansStayGatedHolds == Spec => PlansStayGated
PROOF
  <1>1. RecInv /\ [Next]_vars =>
          (Len(plans') > Len(plans) =>
             LET p == Last(plans') IN
             /\ (p.kind = "delete" \/ p.to # "public") /\ ~Open(p.seen) =>
                   \A n \in 0 .. Len(p.steps) : ~Open(After(p, n))
             /\ After(p, Len(p.steps)) = IF p.kind = "delete" THEN Absent ELSE DesiredFor(p.to))
    BY GatedStep
  <1> QED BY <1>1, RecInit, RecStep, PTL DEF Spec, PlansStayGated

-----------------------------------------------------------------------------
(* Exposure: what an applied plan left live.                                *)

\* A call of Apply: when it began beside no other there is none beside it, and when
\* its plan was computed from the live state it found, the steps it did are what
\* became of that state.
Under(a) ==
    /\ {"mode", "plan", "at", "from", "alone"} \subseteq DOMAIN run[a]
    /\ run[a].mode # "idle" /\ run[a].alone => \A b \in Applier : run[b].mode # "idle" => b = a
    /\ run[a].mode = "doing" /\ run[a].alone /\ Plan(a).seen = run[a].from =>
         /\ run[a].at \in 1 .. Len(Steps(a)) + 1
         /\ live = After(Plan(a), run[a].at - 1)

ApplyInv ==
    /\ RecInv
    /\ live = [r \in Resource |-> live[r]]
    /\ \A i \in DOMAIN plans : Planned(plans[i])
    /\ \A a \in Applier : Under(a)

LEMMA ApplyInit == Init => ApplyInv
PROOF
  <1> SUFFICES ASSUME Init PROVE ApplyInv
    OBVIOUS
  <1>1. live = [r \in Resource |-> live[r]]
    BY DEF Init, Absent
  <1>2. \A a \in Applier : Under(a)
    BY DEF Init, Under, Idle
  <1>3. DOMAIN plans = {}
    BY EmptySeq, LenProperties DEF Init
  <1> QED BY <1>1, <1>2, <1>3, RecInit DEF ApplyInv

\* While a call is under way another was not begun alone.
LEMMA Beside ==
    ASSUME ApplyInv, NEW a \in Applier, run[a].mode # "idle",
           NEW b \in Applier, b # a, run'[b] = run[b]
    PROVE  Under(b)'
  BY DEF ApplyInv, Under

\* A call that goes on does so by steps that keep what is live.
LEMMA ApplyGoes ==
    ASSUME ApplyInv, RecInv', NEW a \in Applier, run[a].mode # "idle",
           NEW r, run' = [run EXCEPT ![a] = r], r.alone = run[a].alone,
           {"mode", "plan", "at", "from", "alone"} \subseteq DOMAIN r,
           live' = [x \in Resource |-> live'[x]], UNCHANGED plans,
           r.mode = "doing" /\ r.alone /\ Plan(a)'.seen = r.from =>
             /\ r.at \in 1 .. Len(Steps(a)') + 1
             /\ live' = After(Plan(a)', r.at - 1)
    PROVE  ApplyInv'
PROOF
  <1>1. run'[a] = r /\ \A b \in Applier \ {a} : run'[b] = run[b]
    BY DEF ApplyInv, RecInv, Rows
  <1>2. \A b \in Applier \ {a} : Under(b)'
    BY <1>1, Beside
  <1>3. Under(a)'
    BY <1>1 DEF Under, ApplyInv
  <1>4. \A i \in DOMAIN plans' : Planned(plans[i])'
    BY DEF ApplyInv, Planned
  <1> QED BY <1>2, <1>3, <1>4 DEF ApplyInv

\* A call that has done its steps writes at most the status of its plan.
LEMMA ApplyEnds ==
    ASSUME ApplyInv, RecInv', NEW a \in Applier, run[a].mode # "idle", UNCHANGED live,
           NEW r, run' = [run EXCEPT ![a] = r], {"mode", "plan", "at", "from", "alone"} \subseteq DOMAIN r,
           r.mode # "doing", r.mode = "idle" \/ r.alone = run[a].alone,
           UNCHANGED plans \/ \E status : SetStatus(a, status)
    PROVE  ApplyInv'
PROOF
  <1>1. run'[a] = r /\ \A b \in Applier \ {a} : run'[b] = run[b]
    BY DEF ApplyInv, RecInv, Rows
  <1>2. \A b \in Applier : Under(b)'
    <2>1. \A b \in Applier \ {a} : Under(b)'
      BY <1>1, Beside
    <2>2. Under(a)'
      BY <1>1 DEF ApplyInv, Under
    <2> QED BY <2>1, <2>2
  <1>3. \A i \in DOMAIN plans' : Planned(plans[i])'
    <2>1. CASE UNCHANGED plans
      BY <2>1 DEF ApplyInv, Planned
    <2>2. CASE \E status : SetStatus(a, status)
      <3>1. PICK status : SetStatus(a, status)
        BY <2>2
      <3>2. run[a].plan \in DOMAIN plans /\ plans \in Seq(Range(plans))
        BY DEF ApplyInv, RecInv, CallFiled, Rows
      <3> DEFINE k == run[a].plan
                 new == [plans[k] EXCEPT !.status = status]
      <3>3. plans' = [plans EXCEPT ![k] = new]
        BY <3>1 DEF SetStatus
      <3>4. DOMAIN plans' = DOMAIN plans /\ \A i \in DOMAIN plans : plans'[i] = IF i = k THEN new ELSE plans[i]
        BY <3>2, <3>3, Rewritten
      <3>5. Planned(plans[k])
        BY <3>2 DEF ApplyInv
      <3>6. /\ {"kind", "to", "seen", "steps", "status"} \subseteq DOMAIN new
            /\ new.kind = plans[k].kind /\ new.to = plans[k].to
            /\ new.seen = plans[k].seen /\ new.steps = plans[k].steps
        BY <3>5 DEF Planned
      <3> HIDE DEF new
      <3>7. Planned(new)
        BY <3>5, <3>6 DEF Planned, Target
      <3>8. \A i \in DOMAIN plans : Planned(plans[i])
        BY DEF ApplyInv
      <3>9. \A i \in DOMAIN plans' : Planned(plans'[i])
        BY <3>4, <3>7, <3>8
      <3> QED BY <3>9 DEF Planned, Target
    <2> QED BY <2>1, <2>2
  <1> QED BY <1>2, <1>3 DEF ApplyInv

\* Apply's first step: it is alone when no other call is under way, and none of the
\* others is from then on.
LEMMA ApplyBegins ==
    ASSUME ApplyInv, RecInv', NEW a \in Applier, NEW p \in DOMAIN plans, BeginApply(a, p)
    PROVE  ApplyInv'
PROOF
  <1>1. /\ run'[a].mode = "doing" /\ run'[a].plan = p /\ run'[a].at = 1 /\ run'[a].from = live
        /\ run'[a].alone = (Active = {})
        /\ {"mode", "plan", "at", "from", "alone"} \subseteq DOMAIN run'[a]
        /\ \A b \in Applier \ {a} : run'[b] = [run[b] EXCEPT !.alone = b \notin Active]
    BY DEF BeginApply, Idle
  <1>2. UNCHANGED <<live, plans>> /\ run[a].mode = "idle"
    BY DEF BeginApply
  <1>3. ASSUME NEW b \in Applier \ {a} PROVE Under(b)'
    <2>1. PICK free \in BOOLEAN : free = (b \notin Active)
      OBVIOUS
    <2>2. /\ run'[b].mode = run[b].mode /\ run'[b].alone = free
          /\ {"mode", "plan", "at", "from", "alone"} \subseteq DOMAIN run'[b]
      BY <1>1, <2>1 DEF ApplyInv, Under
    <2>3. run[b].mode # "idle" => ~free
      BY <2>1 DEF Active
    <2> QED BY <2>2, <2>3 DEF Under
  <1>4. Under(a)'
    <2>1. run'[a].alone => \A b \in Applier : run'[b].mode # "idle" => b = a
      <3>1. \A b \in Applier \ {a} : run'[b].mode = run[b].mode
        BY <1>1 DEF ApplyInv, Under
      <3> QED BY <1>1, <3>1 DEF Active
    <2>2. Plan(a)' = plans[p] /\ Planned(plans[p])
      BY <1>1, <1>2 DEF Plan, ApplyInv
    <2>3. Len(plans[p].steps) \in Nat /\ 1 \in 1 .. Len(plans[p].steps) + 1
      BY <2>2, LenProperties DEF Planned
    <2>4. ASSUME Plan(a)'.seen = run'[a].from
          PROVE  live' = After(Plan(a)', 0)
      <3>1. plans[p].seen = live
        BY <1>1, <2>2, <2>4
      <3>2. After(plans[p], 0) = [r \in Resource |-> plans[p].seen[r]]
        BY <2>2, AfterAll
      <3> QED BY <1>2, <2>2, <3>1, <3>2 DEF ApplyInv
    <2>5. Steps(a)' = plans[p].steps
      BY <2>2 DEF Steps
    <2>6. run'[a].at - 1 = 0
      BY <1>1
    <2> QED BY <1>1, <2>1, <2>3, <2>4, <2>5, <2>6 DEF Under
  <1>5. \A i \in DOMAIN plans' : Planned(plans[i])'
    BY <1>2 DEF ApplyInv, Planned
  <1> QED BY <1>2, <1>3, <1>4, <1>5 DEF ApplyInv

\* Apply's next step does what its plan says.
LEMMA ApplySteps ==
    ASSUME ApplyInv, RecInv', NEW a \in Applier, ExecStep(a)
    PROVE  ApplyInv'
PROOF
  <1> DEFINE step == Steps(a)[run[a].at]
             ch == IF live[step.res] = step.want THEN run[a].changed ELSE run[a].changed \cup {run[a].at}
             r == [run[a] EXCEPT !.at = run[a].at + 1, !.changed = ch]
  <1>1. /\ run[a].mode = "doing" /\ run[a].at <= Len(Steps(a))
        /\ live' = [live EXCEPT ![step.res] = step.want]
        /\ run' = [run EXCEPT ![a] = r]
        /\ UNCHANGED plans
    BY DEF ExecStep
  <1>2. /\ r.mode = "doing" /\ r.at = run[a].at + 1 /\ r.alone = run[a].alone
        /\ r.from = run[a].from /\ r.plan = run[a].plan
        /\ {"mode", "plan", "at", "from", "alone"} \subseteq DOMAIN r
    BY <1>1 DEF ApplyInv, Under
  <1> HIDE DEF r
  <1>3. run'[a] = r
    BY <1>1 DEF ApplyInv, RecInv, Rows
  <1>4. Plan(a)' = Plan(a) /\ Steps(a)' = Steps(a) /\ Planned(Plan(a))
    BY <1>1, <1>2, <1>3 DEF Plan, Steps, ApplyInv, RecInv, CallFiled
  <1>5. ASSUME r.alone, Plan(a)'.seen = r.from
        PROVE  r.at \in 1 .. Len(Steps(a)') + 1 /\ live' = After(Plan(a)', r.at - 1)
    <2> DEFINE i == run[a].at
    <2>1. i \in 1 .. Len(Steps(a)) + 1 /\ live = After(Plan(a), i - 1)
      BY <1>1, <1>2, <1>4, <1>5 DEF ApplyInv, Under
    <2>2. Len(Steps(a)) \in Nat /\ DOMAIN Steps(a) = 1 .. Len(Steps(a)) /\ Steps(a) = Plan(a).steps
      BY <1>4, LenProperties DEF Planned, Steps
    <2>3. i \in DOMAIN Plan(a).steps
      BY <1>1, <2>1, <2>2
    <2>4. After(Plan(a), i) = [After(Plan(a), i - 1) EXCEPT ![Plan(a).steps[i].res] = Plan(a).steps[i].want]
      BY <1>4, <2>3, AfterNext
    <2>5. live' = After(Plan(a), i)
      BY <1>1, <2>1, <2>2, <2>4
    <2>6. r.at - 1 = i /\ r.at \in 1 .. Len(Steps(a)) + 1
      BY <1>1, <1>2, <2>1, <2>2
    <2> QED BY <1>4, <2>5, <2>6
  <1>6. live' = [x \in Resource |-> live'[x]]
    BY <1>1 DEF ApplyInv
  <1>7. run[a].mode # "idle"
    BY <1>1
  <1> QED BY <1>1, <1>2, <1>5, <1>6, <1>7, ApplyGoes

\* The other steps of a call of Apply: it fails, undoes, ends or loses its context.
LEMMA ApplyStep ==
    ASSUME ApplyInv, RecInv', NEW a \in Applier, Apply(a)
    PROVE  ApplyInv'
PROOF
  <1>0. live = [x \in Resource |-> live[x]] /\ {"mode", "plan", "at", "from", "alone"} \subseteq DOMAIN run[a]
    BY DEF ApplyInv, Under
  <1>1. ASSUME run[a].mode # "idle", NEW r, run' = [run EXCEPT ![a] = r], r.alone = run[a].alone,
               r.mode # "doing", {"mode", "plan", "at", "from", "alone"} \subseteq DOMAIN r,
               live' = live \/ \E x, y : live' = [live EXCEPT ![x] = y], UNCHANGED plans
        PROVE  ApplyInv'
    <2>1. live' = [x \in Resource |-> live'[x]]
      BY <1>0, <1>1
    <2> QED BY <1>1, <2>1, ApplyGoes
  <1>2. CASE ExecStepFails(a)
    <2> DEFINE r == [run[a] EXCEPT !.mode = "undoing"]
    <2>1. /\ run' = [run EXCEPT ![a] = r] /\ run[a].mode # "idle" /\ UNCHANGED plans
          /\ live' = live \/ \E x, y : live' = [live EXCEPT ![x] = y]
      BY <1>2 DEF ExecStepFails
    <2>2. r.mode = "undoing" /\ r.alone = run[a].alone /\ {"mode", "plan", "at", "from", "alone"} \subseteq DOMAIN r
      BY <1>0
    <2> HIDE DEF r
    <2> QED BY <1>1, <2>1, <2>2
  <1>3. CASE UndoStep(a)
    <2> DEFINE r == [run[a] EXCEPT !.changed = @ \ {NextUndo(a)}]
    <2>1. /\ run' = [run EXCEPT ![a] = r] /\ run[a].mode = "undoing" /\ UNCHANGED plans
          /\ live' = live \/ \E x, y : live' = [live EXCEPT ![x] = y]
      BY <1>3 DEF UndoStep
    <2>2. r.mode = run[a].mode /\ r.alone = run[a].alone /\ {"mode", "plan", "at", "from", "alone"} \subseteq DOMAIN r
      BY <1>0
    <2> HIDE DEF r
    <2> QED BY <1>1, <2>1, <2>2
  <1>4. CASE UndoStepFails(a)
    <2> DEFINE r == [run[a] EXCEPT !.changed = @ \ {NextUndo(a)}, !.clean = FALSE]
    <2>1. /\ run' = [run EXCEPT ![a] = r] /\ run[a].mode = "undoing" /\ UNCHANGED plans
          /\ live' = live \/ \E x, y : live' = [live EXCEPT ![x] = y]
      BY <1>4 DEF UndoStepFails
    <2>2. r.mode = run[a].mode /\ r.alone = run[a].alone /\ {"mode", "plan", "at", "from", "alone"} \subseteq DOMAIN r
      BY <1>0
    <2> HIDE DEF r
    <2> QED BY <1>1, <2>1, <2>2
  <1>5. CASE EndContext(a)
    <2> DEFINE r == [run[a] EXCEPT !.ctx = FALSE]
    <2>1. run' = [run EXCEPT ![a] = r] /\ run[a].mode # "idle" /\ UNCHANGED <<plans, live>>
      BY <1>5 DEF EndContext
    <2>2. /\ r.mode = run[a].mode /\ r.alone = run[a].alone /\ r.at = run[a].at /\ r.from = run[a].from
          /\ r.plan = run[a].plan /\ {"mode", "plan", "at", "from", "alone"} \subseteq DOMAIN r
      BY <1>0
    <2> HIDE DEF r
    <2>3. run'[a] = r
      BY <2>1 DEF ApplyInv, RecInv, Rows
    <2>4. Plan(a)' = Plan(a) /\ Steps(a)' = Steps(a)
      BY <2>1, <2>2, <2>3 DEF Plan, Steps
    <2>5. r.mode = "doing" /\ r.alone /\ Plan(a)'.seen = r.from =>
             r.at \in 1 .. Len(Steps(a)') + 1 /\ live' = After(Plan(a)', r.at - 1)
      BY <2>1, <2>2, <2>4 DEF ApplyInv, Under
    <2> QED BY <1>0, <2>1, <2>2, <2>5, ApplyGoes
  <1>6. CASE FinishUndone(a) \/ FinishApplied(a)
    <2> DEFINE r == [Idle EXCEPT !.mode = "observing", !.plan = run[a].plan, !.alone = run[a].alone,
                                 !.saw = Reconciled(Plan(a).to)]
    <2>1. /\ run[a].mode # "idle" /\ run' = [run EXCEPT ![a] = r] /\ UNCHANGED live
          /\ \E status : SetStatus(a, status)
      BY <1>6 DEF FinishUndone, FinishApplied, Probe
    <2>2. /\ r.mode = "observing" /\ r.alone = run[a].alone
          /\ {"mode", "plan", "at", "from", "alone"} \subseteq DOMAIN r
      BY DEF Idle
    <2> HIDE DEF r
    <2> QED BY <2>1, <2>2, ApplyEnds
  <1>7. CASE \/ RecordObservation(a) \/ ObservationFails(a)
             \/ FinishDeleted(a) \/ FinishHalfDeleted(a) \/ FinishUnwritten(a)
    <2>1. /\ run[a].mode # "idle" /\ run' = [run EXCEPT ![a] = Idle] /\ UNCHANGED live
          /\ UNCHANGED plans \/ \E status : SetStatus(a, status)
      BY <1>7 DEF Return, RecordObservation, ObservationFails, FinishDeleted, FinishHalfDeleted,
         FinishUnwritten
    <2>2. Idle.mode = "idle" /\ {"mode", "plan", "at", "from", "alone"} \subseteq DOMAIN Idle
      BY DEF Idle
    <2> QED BY <2>1, <2>2, ApplyEnds
  <1> QED BY <1>2, <1>3, <1>4, <1>5, <1>6, <1>7, ApplyBegins, ApplySteps DEF Apply

\* A plan is computed from the live state there is; the calls under way keep theirs.
LEMMA ApplyPlan ==
    ASSUME ApplyInv, RecInv', NEW kind \in {"exposure", "delete"}, MakePlan(kind)
    PROVE  ApplyInv'
PROOF
  <1>1. svc.exposure \in Exposures /\ plans \in Seq(Range(plans))
    BY DEF ApplyInv, RecInv, Rows, Service
  <1>2. PICK p : plans' = Append(plans, p) /\ Planned(p)
    BY <1>1, PlanComputed, Zenon
  <1>3. /\ DOMAIN plans' = DOMAIN plans \cup {Len(plans) + 1}
        /\ \A i \in DOMAIN plans : plans'[i] = plans[i]
        /\ plans'[Len(plans) + 1] = p
    BY <1>1, <1>2, Appended
  <1>4. UNCHANGED <<live, run>>
    BY DEF MakePlan
  <1>5. \A i \in DOMAIN plans' : Planned(plans'[i])
    BY <1>2, <1>3 DEF ApplyInv
  <1>6. ASSUME NEW a \in Applier PROVE Under(a)'
    <2>1. CASE run[a].mode = "idle"
      BY <1>4, <2>1 DEF ApplyInv, Under
    <2>2. CASE run[a].mode # "idle"
      <3>1. Plan(a)' = Plan(a) /\ Steps(a)' = Steps(a)
        BY <1>3, <1>4, <2>2 DEF ApplyInv, RecInv, CallFiled, Plan, Steps
      <3> QED BY <1>4, <3>1 DEF ApplyInv, Under
    <2> QED BY <2>1, <2>2
  <1> QED BY <1>4, <1>5, <1>6 DEF ApplyInv, Planned, Target

LEMMA ApplyInvStep == ApplyInv /\ [Next]_vars => ApplyInv'
PROOF
  <1> SUFFICES ASSUME ApplyInv, [Next]_vars PROVE ApplyInv'
    OBVIOUS
  <1>0. RecInv'
    BY RecStep DEF ApplyInv
  <1>1. ASSUME UNCHANGED <<live, plans, run>> PROVE ApplyInv'
    BY <1>0, <1>1 DEF ApplyInv, Under, Plan, Steps, Planned, Target
  <1>2. CASE Die
    <2>1. UNCHANGED <<live, plans>> /\ \A a \in Applier : run'[a] = Idle
      BY <1>2 DEF Die
    <2>2. \A a \in Applier : Under(a)'
      BY <2>1 DEF Under, Idle
    <2> QED BY <1>0, <2>1, <2>2 DEF ApplyInv, Planned, Target
  <1>3. CASE \E a \in Applier : Apply(a)
    BY <1>0, <1>3, ApplyStep
  <1>4. CASE \E kind \in {"exposure", "delete"} : MakePlan(kind)
    BY <1>0, <1>4, ApplyPlan
  <1>5. CASE Operator /\ ~\E kind \in {"exposure", "delete"} : MakePlan(kind)
    BY <1>1, <1>5 DEF Operator, UpsertService, UpdateExposure, SetExposure, AcknowledgePublic,
       ObservePlanned
  <1>6. CASE UNCHANGED vars
    BY <1>1, <1>6 DEF vars
  <1> QED BY <1>2, <1>3, <1>4, <1>5, <1>6 DEF Next

\* A plan's row says applied once all its steps are done.
LEMMA ConvergesStep ==
    ASSUME ApplyInv, [Next]_vars, NEW p \in DOMAIN plans,
           plans[p].status = "pending", plans'[p].status = "applied"
    PROVE  \E a \in Active :
             /\ run[a].plan = p
             /\ \/ live = IF plans[p].kind = "delete" THEN Absent ELSE DesiredFor(plans[p].to)
                \/ ~run[a].alone \/ plans[p].seen # run[a].from
PROOF
  <1>0. RecInv /\ plans \in Seq(Range(plans))
    BY DEF ApplyInv, RecInv, Rows
  <1>1. ~\E kind \in {"exposure", "delete"} : MakePlan(kind)
    <2> SUFFICES ASSUME NEW kind \in {"exposure", "delete"}, MakePlan(kind) PROVE FALSE
      OBVIOUS
    <2>1. PICK q : plans' = Append(plans, q)
      BY DEF MakePlan
    <2>2. plans'[p] = plans[p]
      BY <1>0, <2>1, Appended
    <2> QED BY <2>2
  <1>2. PICK a \in Applier, status \in {"applied", "rolled_back", "failed"} :
          /\ run[a].mode # "idle" /\ run[a].plan \in DOMAIN plans
          /\ SetStatus(a, status)
          /\ status = "applied" => run[a].mode = "doing" /\ run[a].at > Len(Steps(a))
    BY <1>0, <1>1, PlansMove, Zenon
  <1> DEFINE k == run[a].plan
             new == [plans[k] EXCEPT !.status = status]
  <1>3. plans' = [plans EXCEPT ![k] = new]
    BY <1>2 DEF SetStatus
  <1>4. \A i \in DOMAIN plans : plans'[i] = IF i = k THEN new ELSE plans[i]
    BY <1>0, <1>2, <1>3, Rewritten
  <1>5. p = k
    BY <1>4
  <1>6. Planned(plans[k])
    BY <1>2 DEF ApplyInv
  <1>7. status = "applied"
    BY <1>4, <1>5, <1>6 DEF Planned
  <1>8. ASSUME run[a].alone, plans[p].seen = run[a].from
        PROVE  live = Target(plans[p])
    <2>1. /\ run[a].at \in 1 .. Len(Steps(a)) + 1 /\ live = After(Plan(a), run[a].at - 1)
      BY <1>2, <1>5, <1>7, <1>8 DEF ApplyInv, Under, Plan
    <2>2. Plan(a) = plans[p] /\ Steps(a) = plans[p].steps /\ Len(plans[p].steps) \in Nat
      BY <1>5, <1>6, LenProperties DEF Plan, Steps, Planned
    <2>3. run[a].at - 1 = Len(plans[p].steps)
      BY <1>2, <1>7, <2>1, <2>2
    <2> QED BY <1>5, <1>6, <2>1, <2>2, <2>3, AfterAll
  <1>9. a \in Active
    BY <1>2 DEF Active
  <1> QED BY <1>5, <1>8, <1>9 DEF Target

\* Apply, execStep and rollbackApplied: when a plan's row says applied, the live state
\* is what the plan is for, unless another call of Apply was under way beside or the
\* live state was no longer what the plan was computed from, for any number of calls,
\* plans, revisions and failures.
THEOREM AppliedConvergesHolds == Spec => AppliedConverges
PROOF
  <1>1. ApplyInv /\ [Next]_vars =>
          \A p \in DOMAIN plans :
            plans[p].status = "pending" /\ plans'[p].status = "applied" =>
              \E a \in Active :
                /\ run[a].plan = p
                /\ \/ live = IF plans[p].kind = "delete" THEN Absent ELSE DesiredFor(plans[p].to)
                   \/ ~run[a].alone \/ plans[p].seen # run[a].from
    BY ConvergesStep, Zenon
  <1> QED BY <1>1, ApplyInit, ApplyInvStep, PTL DEF Spec, AppliedConverges

-----------------------------------------------------------------------------
(* BackupRuns: the writers of a capture and the proof of a snapshot.        *)

PlanRow == [unitSeen : BOOLEAN, unitStopped : BOOLEAN, next : Nat, stopped : Seq(Writer),
            snap : Nat, hot : SUBSET (Writer \cup {Unit}), intruded : SUBSET Writer]
Spent   == [requests : Nat, faults : Nat, cancels : Nat, deaths : Nat, passes : Nat]
Places  == {"idle", "planned", "stopUnit", "quiesce", "note", "begin", "restic", "record", "complete",
            "resume", "start", "prepare", "restore", "check", "mark", "done", "dead"}

\* A capture that stops writers, or has stopped them and not given them back.
Held == {"stopUnit", "quiesce", "note", "begin", "restic", "record", "complete", "resume", "start"}

AppRow == [desired : BOOLEAN, observed : BOOLEAN, running : BOOLEAN]

CapturesData ==
    /\ pc \in [Op -> Places] /\ plan \in [Capture -> PlanRow] /\ spent \in Spent
    /\ app \in [Writer -> AppRow] /\ unit \in BOOLEAN

\* The maintenance lock is held from before the first writer stops.
Holds(c) == pc[c] \in Held => holder = c

\* Every writer that is wanted is up, to be resumed, or was reported or slipped.
Back ==
    /\ \A a \in Writer :
          app[a].desired /\ ~app[a].running =>
             a \in reported \cup slipped \/ \E c \in Capture : c = holder /\ ToResume(c, a)
    /\ ~unit => Unit \in reported \cup slipped \/ \E c \in Capture : c = holder /\ plan[c].unitStopped

\* A row says stopped of what runs only after a restart that was reported.
RowsTell == \A a \in Writer : app[a].running /\ ~app[a].observed => a \in reported

\* While a capture reads, what it has passed over is down, except for what an
\* operator has started since and what was reported.
Cold(c) ==
    /\ pc[c] \in {"idle", "planned", "stopUnit"} => plan[c].next = 1
    /\ plan[c].next >= 1
    /\ pc[c] = "idle" => plan[c].hot = {}
    /\ pc[c] \in {"quiesce", "note", "begin", "restic"} =>
         /\ plan[c].unitSeen => ~unit
         /\ \A i \in DOMAIN Writers :
              i < plan[c].next =>
                 ~app[Writers[i]].running \/ Writers[i] \in plan[c].intruded \cup reported
    /\ pc[c] = "note" => plan[c].next \in DOMAIN Writers /\ ~app[NextWriter(c)].running
    /\ pc[c] \in {"begin", "restic"} => plan[c].next > Len(Writers)
    /\ pc[c] = "start" => plan[c].stopped # <<>>
    /\ plan[c].hot \subseteq plan[c].intruded \cup reported \cup (IF plan[c].unitSeen THEN {} ELSE {Unit})

CapturesInv ==
    /\ CapturesData
    /\ \A c \in Capture : Holds(c) /\ Cold(c)
    /\ RowsTell
    /\ spent.deaths = 0 => Back

\* A snapshot that is marked was verified by a run that is past marking it.
Proven ==
    \A s \in DOMAIN listed : listed[s] > 0 =>
        \E v \in Verify : target[v] = s /\ proof[v] = "passed" /\ pc[v] \in {"complete", "done", "dead"}

\* How the two rows of a verification go together.
RowsAgree(v) ==
    /\ pc[v] \in {"idle", "begin"} => row[v] = Nothing /\ proof[v] = Nothing
    /\ pc[v] = "prepare" => row[v] = "running" /\ proof[v] = Nothing
    /\ pc[v] \in {"restore", "check"} => row[v] = "running" /\ proof[v] = "running"
    /\ pc[v] \in {"mark", "complete"} => row[v] = "running" /\ proof[v] = "passed"
    /\ pc[v] = "done" /\ v \in liveOps /\ row[v] # "running" => (proof[v] = "passed" <=> row[v] = "completed")

VerifyInv ==
    /\ pc \in [Op -> Places]
    /\ row \in [Op -> {Nothing, "running", "completed", "failed"}]
    /\ proof \in [Verify -> {Nothing, "running", "passed", "failed"}]
    /\ target = [v \in Verify |-> target[v]]
    /\ Proven
    /\ \A v \in Verify : RowsAgree(v)

LEMMA RunsInit0 == RunsInit => CapturesInv /\ VerifyInv
PROOF
  <1> SUFFICES ASSUME RunsInit PROVE CapturesInv /\ VerifyInv
    OBVIOUS
  <1>1. /\ pc = [o \in Op |-> "idle"] /\ plan = [c \in Capture |-> NoPlan] /\ unit = TRUE
        /\ app \in [Writer -> {[desired |-> d, observed |-> d, running |-> d] : d \in BOOLEAN}]
        /\ spent = [requests |-> 0, faults |-> 0, cancels |-> 0, deaths |-> 0, passes |-> 0]
        /\ row = [o \in Op |-> Nothing] /\ proof = [v \in Verify |-> Nothing]
        /\ target = [v \in Verify |-> 0] /\ listed = <<>>
    BY DEF RunsInit
  <1>2. NoPlan \in PlanRow /\ NoPlan.next = 1 /\ NoPlan.hot = {}
    BY EmptySeq DEF NoPlan, PlanRow
  <1>3. \A a \in Writer : /\ app[a] \in AppRow
                         /\ app[a].desired = app[a].running /\ app[a].observed = app[a].running
    BY <1>1 DEF AppRow
  <1>4. CapturesData
    BY <1>1, <1>2, <1>3 DEF CapturesData, Spent, Places
  <1>5. \A c \in Capture : Holds(c) /\ Cold(c)
    BY <1>1, <1>2 DEF Holds, Cold, Held, Op
  <1>6. Back /\ RowsTell
    BY <1>1, <1>3 DEF Back, RowsTell, AppRow
  <1>7. DOMAIN listed = {}
    BY <1>1
  <1>8. Proven /\ \A v \in Verify : RowsAgree(v)
    BY <1>1, <1>7 DEF Proven, RowsAgree, Op, Nothing
  <1> QED BY <1>1, <1>4, <1>5, <1>6, <1>7, <1>8 DEF CapturesInv, VerifyInv, Places

\* What Start leaves, however far it gets.
LEMMA StartedRow ==
    ASSUME NEW s \in AppRow
    PROVE  /\ \A n : Started(s, n) \in AppRow
           /\ Started(s, 3).desired /\ Started(s, 3).running /\ Started(s, 3).observed
PROOF
  <1>1. \A n : Started(s, n) \in AppRow
    BY DEF Started, AppRow
  <1>2. /\ Started(s, 3).desired = (s.desired \/ 3 >= 1)
        /\ Started(s, 3).running = (s.running \/ 3 >= 2)
        /\ Started(s, 3).observed = (s.observed \/ 3 >= 3)
    BY Zenon DEF Started
  <1>3. 3 >= 1 /\ 3 >= 2 /\ 3 >= 3
    OBVIOUS
  <1> QED BY <1>1, <1>2, <1>3, Zenon

\* What is spent on failing commands, ended contexts, requests or passes.
LEMMA SpentMoves ==
    ASSUME spent \in Spent, NEW w \in {"requests", "faults", "cancels", "passes"},
           Spend(w) \/ UNCHANGED spent
    PROVE  spent' \in Spent /\ spent'.deaths = spent.deaths
PROOF
  <1>1. CASE UNCHANGED spent
    BY <1>1
  <1>2. CASE Spend(w)
    <2>1. spent' = [spent EXCEPT ![w] = spent[w] + 1]
      BY <1>2 DEF Spend
    <2> QED BY <2>1 DEF Spent
  <1> QED BY <1>1, <1>2

LEMMA FailureSpends ==
    ASSUME spent \in Spent, NEW o, CommandFails(o)
    PROVE  spent' \in Spent /\ spent'.deaths = spent.deaths
  BY SpentMoves DEF CommandFails, RunTrouble

\* The last of a sequence and the rest of it.
LEMMA LastAndFront ==
    ASSUME NEW S, NEW s \in Seq(S), s # <<>>
    PROVE  /\ Front(s) \in Seq(S)
           /\ Range(s) \subseteq Range(Front(s)) \cup {Last(s)}
           /\ Last(s) \in Range(s) /\ Last(s) \in S
PROOF
  <1>1. Len(s) \in Nat \ {0} /\ DOMAIN s = 1 .. Len(s) /\ s \in [1 .. Len(s) -> S]
    BY EmptySeq, LenProperties
  <1>2. /\ Front(s) \in Seq(S) /\ DOMAIN Front(s) = 1 .. Len(s) - 1
        /\ \A i \in 1 .. Len(s) - 1 : Front(s)[i] = s[i]
    BY <1>1, SubSeqProperties DEF Front
  <1>3. Last(s) = s[Len(s)] /\ Len(s) \in DOMAIN s
    BY <1>1 DEF Last
  <1>4. Range(s) \subseteq Range(Front(s)) \cup {Last(s)}
    <2> SUFFICES ASSUME NEW i \in DOMAIN s PROVE s[i] \in Range(Front(s)) \cup {Last(s)}
      BY DEF Range
    <2>1. CASE i = Len(s)
      BY <1>3, <2>1
    <2>2. CASE i # Len(s)
      <3>1. i \in DOMAIN Front(s) /\ Front(s)[i] = s[i]
        BY <1>1, <1>2, <2>2
      <3> QED BY <3>1 DEF Range
    <2> QED BY <2>1, <2>2
  <1> QED BY <1>1, <1>2, <1>3, <1>4 DEF Range

-----------------------------------------------------------------------------
(* The steps of a capture.                                                  *)

\* A step of what is no capture, which spends no death.
LEMMA CapturesAside ==
    ASSUME CapturesInv, UNCHANGED captures, pc' \in [Op -> Places],
           \A c \in Capture : pc'[c] = pc[c],
           spent' \in Spent, spent'.deaths = spent.deaths
    PROVE  CapturesInv'
PROOF
  <1>1. CapturesData'
    BY DEF CapturesInv, CapturesData, captures
  <1>2. \A c \in Capture : (Holds(c) /\ Cold(c))'
    BY DEF CapturesInv, Holds, Cold, Held, captures, NextWriter
  <1>3. RowsTell' /\ (spent'.deaths = 0 => Back')
    BY DEF CapturesInv, RowsTell, Back, ToResume, NextWriter, RunAt, captures
  <1> QED BY <1>1, <1>2, <1>3 DEF CapturesInv

\* A capture that does not hold the lock depends on no writer.
LEMMA OthersWait ==
    ASSUME CapturesInv, NEW c \in Capture, holder \in {c, Nothing},
           NEW d \in Capture \ {c}, pc'[d] = pc[d], plan'[d] = plan[d],
           reported \subseteq reported'
    PROVE  (Holds(d) /\ Cold(d))'
PROOF
  <1>1. pc[d] \notin Held
    BY BackupRunsAssumption DEF CapturesInv, Holds, Nothing
  <1>2. Holds(d)'
    BY <1>1 DEF Holds, Held
  <1>3. Cold(d)'
    BY <1>1 DEF CapturesInv, Cold, Held
  <1> QED BY <1>2, <1>3

\* A capture that goes on, and whatever it tells, keeps the writers as they are.
LEMMA CaptureGoes ==
    ASSUME CapturesInv, NEW c \in Capture, pc[c] \in Held \ {"note"},
           NEW w \in {"begin", "restic", "record", "complete", "resume"}, Goto(c, w),
           w = "begin" => pc[c] = "quiesce" /\ Quiesced(c),
           w = "restic" => pc[c] = "begin",
           UNCHANGED captures, spent' \in Spent, spent'.deaths = spent.deaths
    PROVE  CapturesInv'
PROOF
  <1>1. /\ pc' = [pc EXCEPT ![c] = w] /\ c \in Op /\ pc \in [Op -> Places] /\ holder = c
        /\ plan[c].next \in Nat /\ Len(Writers) \in Nat
    BY BackupRunsAssumption, LenProperties DEF Goto, Op, CapturesInv, CapturesData, Holds, PlanRow
  <1>2. CapturesData'
    BY <1>1 DEF CapturesInv, CapturesData, captures, Places
  <1>3. \A d \in Capture \ {c} : (Holds(d) /\ Cold(d))'
    BY <1>1, OthersWait DEF captures
  <1>4. (Holds(c) /\ Cold(c))'
    BY <1>1 DEF CapturesInv, Holds, Cold, Held, captures, Quiesced
  <1>5. RowsTell' /\ (spent'.deaths = 0 => Back')
    BY <1>1 DEF CapturesInv, RowsTell, Back, ToResume, RunAt, captures
  <1> QED BY <1>2, <1>3, <1>4, <1>5 DEF CapturesInv

LEMMA CapturePlans == ASSUME CapturesInv, NEW c \in Capture, PlanCapture(c) PROVE CapturesInv'
PROOF
  <1>1. /\ pc' = [pc EXCEPT ![c] = "planned"] /\ pc[c] = "idle" /\ c \in Op /\ pc \in [Op -> Places]
        /\ plan' = [plan EXCEPT ![c] = [plan[c] EXCEPT !.unitSeen = unit]]
        /\ UNCHANGED <<holder, app, unit, reported, slipped, spent>>
        /\ plan \in [Capture -> PlanRow] /\ unit \in BOOLEAN
    BY DEF PlanCapture, Goto, RunAt, Op, CapturesInv, CapturesData
  <1>2. /\ plan'[c] \in PlanRow /\ plan'[c].next = plan[c].next /\ plan'[c].hot = plan[c].hot
        /\ plan'[c].stopped = plan[c].stopped /\ plan'[c].unitStopped = plan[c].unitStopped
    BY <1>1 DEF PlanRow
  <1>3. \A d \in Capture \ {c} : plan'[d] = plan[d] /\ pc'[d] = pc[d]
    BY <1>1 DEF Op
  <1>4. CapturesData'
    BY <1>1, <1>2, <1>3 DEF CapturesInv, CapturesData, Places
  <1>5. \A d \in Capture : (Holds(d) /\ Cold(d))'
    <2> SUFFICES ASSUME NEW d \in Capture PROVE (Holds(d) /\ Cold(d))'
      OBVIOUS
    <2>1. CASE d = c
      BY <1>1, <1>2, <2>1 DEF CapturesInv, Holds, Cold, Held
    <2>2. CASE d # c
      BY <1>1, <1>3, <2>2 DEF CapturesInv, Holds, Cold, NextWriter
    <2> QED BY <2>1, <2>2
  <1>6. RowsTell' /\ (spent'.deaths = 0 => Back')
    BY <1>1, <1>2, <1>3 DEF CapturesInv, RowsTell, Back, ToResume, NextWriter, RunAt
  <1> QED BY <1>4, <1>5, <1>6 DEF CapturesInv

LEMMA CaptureLocks == ASSUME CapturesInv, NEW c \in Capture, LockMaintenance(c) PROVE CapturesInv'
PROOF
  <1>1. /\ pc' = [pc EXCEPT ![c] = "stopUnit"] /\ pc[c] = "planned" /\ c \in Op /\ pc \in [Op -> Places]
        /\ holder = Nothing /\ holder' = c
        /\ UNCHANGED <<plan, app, unit, reported, slipped, spent>>
    BY DEF LockMaintenance, Goto, RunAt, Op, CapturesInv, CapturesData
  <1>2. CapturesData'
    BY <1>1 DEF CapturesInv, CapturesData, Places
  <1>3. \A d \in Capture \ {c} : (Holds(d) /\ Cold(d))'
    BY <1>1, OthersWait
  <1>4. (Holds(c) /\ Cold(c))'
    BY <1>1 DEF CapturesInv, Holds, Cold
  <1>5. RowsTell' /\ (spent'.deaths = 0 => Back')
    BY <1>1, BackupRunsAssumption DEF CapturesInv, RowsTell, Back, Nothing
  <1> QED BY <1>2, <1>3, <1>4, <1>5 DEF CapturesInv

LEMMA CaptureStopsUnit == ASSUME CapturesInv, NEW c \in Capture, StopUnit(c) PROVE CapturesInv'
PROOF
  <1>1. /\ pc' = [pc EXCEPT ![c] = "quiesce"] /\ pc[c] = "stopUnit" /\ c \in Op /\ pc \in [Op -> Places]
        /\ holder = c /\ UNCHANGED <<holder, app, reported, slipped, spent>> /\ plan \in [Capture -> PlanRow]
    BY DEF StopUnit, Goto, RunAt, Op, CapturesInv, CapturesData, Holds, Held
  <1>2. \/ plan[c].unitSeen /\ unit' = FALSE /\ plan' = [plan EXCEPT ![c] = [plan[c] EXCEPT !.unitStopped = TRUE]]
        \/ ~plan[c].unitSeen /\ UNCHANGED <<unit, plan>>
    BY DEF StopUnit
  <1>3. /\ plan' \in [Capture -> PlanRow]
        /\ \A d \in Capture \ {c} : plan'[d] = plan[d] /\ pc'[d] = pc[d]
        /\ plan'[c].next = plan[c].next /\ plan'[c].hot = plan[c].hot /\ plan'[c].unitSeen = plan[c].unitSeen
        /\ plan'[c].stopped = plan[c].stopped /\ plan'[c].intruded = plan[c].intruded
        /\ (plan[c].unitStopped => plan'[c].unitStopped) /\ (unit' = unit \/ plan'[c].unitStopped)
    <2>1. CASE UNCHANGED <<unit, plan>>
      BY <1>1, <2>1 DEF Op
    <2>2. CASE plan' = [plan EXCEPT ![c] = [plan[c] EXCEPT !.unitStopped = TRUE]]
      <3>1. plan[c] \in PlanRow /\ plan'[c] = [plan[c] EXCEPT !.unitStopped = TRUE]
        BY <1>1, <2>2
      <3>2. plan'[c] \in PlanRow /\ plan'[c].unitStopped
        BY <3>1 DEF PlanRow
      <3>3. plan' \in [Capture -> PlanRow] /\ \A d \in Capture \ {c} : plan'[d] = plan[d] /\ pc'[d] = pc[d]
        BY <1>1, <2>2, <3>2 DEF Op
      <3> QED BY <3>1, <3>2, <3>3 DEF PlanRow
    <2> QED BY <1>2, <2>1, <2>2
  <1>4. CapturesData'
    BY <1>1, <1>2, <1>3 DEF CapturesInv, CapturesData, Places
  <1>5. \A d \in Capture \ {c} : (Holds(d) /\ Cold(d))'
    BY <1>1, <1>3, OthersWait
  <1>6. (Holds(c) /\ Cold(c))'
    <2>1. plan[c].next = 1 /\ Len(Writers) \in Nat /\ DOMAIN Writers = 1 .. Len(Writers)
      BY <1>1, BackupRunsAssumption, LenProperties DEF CapturesInv, Cold
    <2> QED BY <1>1, <1>2, <1>3, <2>1 DEF CapturesInv, Holds, Cold
  <1>7. RowsTell' /\ (spent'.deaths = 0 => Back')
    BY <1>1, <1>2, <1>3 DEF CapturesInv, RowsTell, Back, ToResume, RunAt
  <1> QED BY <1>4, <1>5, <1>6, <1>7 DEF CapturesInv

LEMMA CaptureUnitFails == ASSUME CapturesInv, NEW c \in Capture, StopUnitFails(c) PROVE CapturesInv'
PROOF
  <1>1. /\ pc' = [pc EXCEPT ![c] = "resume"] /\ pc[c] = "stopUnit" /\ c \in Op /\ pc \in [Op -> Places]
        /\ holder = c /\ UNCHANGED <<plan, holder, app, reported>> /\ unit \in BOOLEAN
        /\ unit' \in {unit, FALSE} /\ slipped \subseteq slipped' /\ (unit' # unit => Unit \in slipped')
    BY DEF StopUnitFails, Goto, RunAt, Op, CapturesInv, CapturesData, Holds, Held
  <1>2. spent' \in Spent /\ spent'.deaths = spent.deaths
    BY FailureSpends DEF StopUnitFails, CapturesInv, CapturesData
  <1>3. CapturesData'
    BY <1>1, <1>2 DEF CapturesInv, CapturesData, Places
  <1>4. \A d \in Capture \ {c} : (Holds(d) /\ Cold(d))'
    BY <1>1, OthersWait DEF Op
  <1>5. (Holds(c) /\ Cold(c))'
    BY <1>1 DEF CapturesInv, Holds, Cold
  <1>6. RowsTell' /\ (spent'.deaths = 0 => Back')
    BY <1>1, <1>2 DEF CapturesInv, RowsTell, Back, ToResume, RunAt
  <1> QED BY <1>3, <1>4, <1>5, <1>6 DEF CapturesInv

\* The next writer there is.
LEMMA NextIsWriter ==
    ASSUME CapturesInv, NEW c \in Capture, ~Quiesced(c)
    PROVE  /\ plan[c].next \in DOMAIN Writers /\ NextWriter(c) \in Writer
           /\ DOMAIN Writers = 1 .. Len(Writers) /\ Len(Writers) \in Nat /\ plan[c] \in PlanRow
PROOF
  <1>1. DOMAIN Writers = 1 .. Len(Writers) /\ Len(Writers) \in Nat /\ plan[c] \in PlanRow
    BY BackupRunsAssumption, LenProperties DEF CapturesInv, CapturesData
  <1>2. plan[c].next >= 1 /\ plan[c].next \in Nat
    BY <1>1 DEF CapturesInv, Cold, PlanRow
  <1>3. plan[c].next \in DOMAIN Writers
    BY <1>1, <1>2 DEF Quiesced
  <1> QED BY <1>1, <1>3 DEF NextWriter, Writer, Range

\* A capture passes over a writer whose row says stopped, and takes the others down.
LEMMA CaptureQuiesces == ASSUME CapturesInv, NEW c \in Capture, QuiesceWriter(c) PROVE CapturesInv'
PROOF
  <1> DEFINE a == NextWriter(c)
  <1>1. /\ pc[c] = "quiesce" /\ holder = c /\ ~Quiesced(c) /\ c \in Op /\ pc \in [Op -> Places]
        /\ UNCHANGED <<holder, unit, reported, slipped, spent>> /\ plan \in [Capture -> PlanRow]
        /\ app \in [Writer -> AppRow] /\ Cold(c)
    BY DEF QuiesceWriter, RunAt, Op, CapturesInv, CapturesData, Holds, Held
  <1>2. /\ plan[c].next \in DOMAIN Writers /\ a \in Writer /\ plan[c] \in PlanRow
        /\ DOMAIN Writers = 1 .. Len(Writers) /\ Len(Writers) \in Nat
    BY <1>1, NextIsWriter
  <1>3. CASE app[a].observed
    <2>1. /\ app' = [app EXCEPT ![a] = [app[a] EXCEPT !.running = FALSE]]
          /\ pc' = [pc EXCEPT ![c] = "note"] /\ UNCHANGED plan
      BY <1>3 DEF QuiesceWriter, Goto
    <2>2. /\ app' \in [Writer -> AppRow] /\ ~app'[a].running
          /\ \A b \in Writer \ {a} : app'[b] = app[b]
      BY <1>1, <1>2, <2>1 DEF AppRow
    <2>3. CapturesData'
      BY <1>1, <2>1, <2>2 DEF CapturesInv, CapturesData, Places
    <2>4. \A d \in Capture \ {c} : (Holds(d) /\ Cold(d))'
      BY <1>1, <2>1, OthersWait DEF Op
    <2>5. (Holds(c) /\ Cold(c))'
      <3>1. NextWriter(c)' = a /\ pc'[c] = "note"
        BY <1>1, <2>1 DEF NextWriter
      <3>2. \A i \in DOMAIN Writers :
              /\ Writers[i] \in Writer
              /\ ~app[Writers[i]].running => ~app'[Writers[i]].running
        BY <2>2 DEF Writer, Range
      <3> HIDE DEF a
      <3> QED BY <1>1, <1>2, <2>1, <2>2, <3>1, <3>2 DEF Holds, Cold
    <2>6. RowsTell'
      BY <1>1, <2>2 DEF CapturesInv, RowsTell
    <2>7. spent'.deaths = 0 => Back'
      <3> SUFFICES ASSUME Back PROVE Back'
        BY <1>1 DEF CapturesInv
      <3>1. \A b : b = a \/ ToResume(c, b) => ToResume(c, b)'
        BY <1>1, <2>1 DEF ToResume, RunAt, NextWriter
      <3> HIDE DEF a
      <3>2. ASSUME NEW b \in Writer, app'[b].desired, ~app'[b].running
            PROVE  b \in reported' \cup slipped' \/ ToResume(c, b)'
        <4>1. CASE b = a
          BY <3>1, <4>1
        <4>2. CASE b # a
          BY <1>1, <2>2, <3>1, <3>2, <4>2 DEF Back
        <4> QED BY <4>1, <4>2
      <3>3. ~unit' => Unit \in reported' \cup slipped' \/ plan'[c].unitStopped
        BY <1>1, <2>1 DEF Back
      <3> QED BY <1>1, <3>2, <3>3 DEF Back
    <2> QED BY <2>3, <2>4, <2>5, <2>6, <2>7 DEF CapturesInv
  <1>4. CASE ~app[a].observed
    <2> DEFINE r == [plan[c] EXCEPT !.next = plan[c].next + 1]
    <2>1. plan' = [plan EXCEPT ![c] = r] /\ UNCHANGED <<pc, app>>
      BY <1>4 DEF QuiesceWriter
    <2>2. plan[c].next \in Nat /\ plan[c].next + 1 \in Nat
      BY <1>2 DEF PlanRow
    <2>3. /\ r \in PlanRow /\ r.next = plan[c].next + 1 /\ r.stopped = plan[c].stopped
          /\ r.hot = plan[c].hot /\ r.intruded = plan[c].intruded
          /\ r.unitSeen = plan[c].unitSeen /\ r.unitStopped = plan[c].unitStopped
      BY <1>2, <2>2 DEF PlanRow
    <2> HIDE DEF r
    <2>4. /\ plan'[c] = r /\ plan' \in [Capture -> PlanRow]
          /\ \A d \in Capture \ {c} : plan'[d] = plan[d]
      BY <1>1, <2>1, <2>3
    <2>5. CapturesData'
      BY <1>1, <2>1, <2>4 DEF CapturesInv, CapturesData
    <2>6. \A d \in Capture \ {c} : (Holds(d) /\ Cold(d))'
      BY <1>1, <2>1, <2>4, OthersWait
    <2>7. (Holds(c) /\ Cold(c))'
      <3>1. ~app[a].running \/ a \in reported
        BY <1>2, <1>4 DEF CapturesInv, RowsTell
      <3>2. \A i \in DOMAIN Writers :
              i < r.next => ~app[Writers[i]].running \/ Writers[i] \in plan[c].intruded \cup reported
        <4> SUFFICES ASSUME NEW i \in DOMAIN Writers, i < r.next
                     PROVE  ~app[Writers[i]].running \/ Writers[i] \in plan[c].intruded \cup reported
          OBVIOUS
        <4>1. CASE i = plan[c].next
          BY <3>1, <4>1 DEF NextWriter
        <4>2. CASE i # plan[c].next
          <5>1. i < plan[c].next
            BY <1>2, <2>2, <2>3, <4>2
          <5> QED BY <1>1, <5>1 DEF Cold
        <4> QED BY <4>1, <4>2
      <3>3. r.next >= 1
        BY <2>2, <2>3
      <3> QED BY <1>1, <2>1, <2>3, <2>4, <3>2, <3>3 DEF Holds, Cold
    <2>8. RowsTell' /\ (spent'.deaths = 0 => Back')
      BY <1>1, <2>1, <2>3, <2>4 DEF CapturesInv, RowsTell, Back, ToResume, RunAt
    <2> QED BY <2>5, <2>6, <2>7, <2>8 DEF CapturesInv
  <1> QED BY <1>3, <1>4

\* What it has taken down is put on the list of what to resume.
LEMMA CaptureNotes == ASSUME CapturesInv, NEW c \in Capture, NoteQuiesced(c) PROVE CapturesInv'
PROOF
  <1> DEFINE a == NextWriter(c)
             r == [plan[c] EXCEPT !.next = plan[c].next + 1, !.stopped = Append(plan[c].stopped, a)]
  <1>1. /\ pc[c] = "note" /\ holder = c /\ c \in Op /\ pc \in [Op -> Places]
        /\ UNCHANGED <<holder, unit, reported, slipped, spent>> /\ plan \in [Capture -> PlanRow]
        /\ app \in [Writer -> AppRow] /\ Cold(c)
        /\ app' = [app EXCEPT ![a] = [app[a] EXCEPT !.observed = FALSE]]
        /\ plan' = [plan EXCEPT ![c] = r] /\ pc' = [pc EXCEPT ![c] = "quiesce"]
    BY DEF NoteQuiesced, Goto, RunAt, Op, CapturesInv, CapturesData, Holds, Held
  <1>2. /\ plan[c].next \in DOMAIN Writers /\ a \in Writer /\ ~app[a].running /\ plan[c] \in PlanRow
        /\ DOMAIN Writers = 1 .. Len(Writers) /\ Len(Writers) \in Nat
    BY <1>1, BackupRunsAssumption, LenProperties DEF Cold, NextWriter, Writer, Range
  <1>3. /\ plan[c].next \in Nat /\ plan[c].next + 1 \in Nat
        /\ Append(plan[c].stopped, a) \in Seq(Writer)
        /\ Range(Append(plan[c].stopped, a)) = Range(plan[c].stopped) \cup {a}
    <2>1. plan[c].stopped \in Seq(Writer)
      BY <1>2 DEF PlanRow
    <2>2. plan[c].stopped \in Seq(Range(plan[c].stopped))
      BY <2>1, SeqOfRange
    <2> QED BY <1>2, <2>1, <2>2, AppendProperties, Appended DEF PlanRow
  <1>4. /\ r \in PlanRow /\ r.next = plan[c].next + 1 /\ r.stopped = Append(plan[c].stopped, a)
        /\ r.hot = plan[c].hot /\ r.intruded = plan[c].intruded
        /\ r.unitSeen = plan[c].unitSeen /\ r.unitStopped = plan[c].unitStopped
    BY <1>2, <1>3 DEF PlanRow
  <1> HIDE DEF r
  <1>5. /\ plan'[c] = r /\ plan' \in [Capture -> PlanRow]
        /\ \A d \in Capture \ {c} : plan'[d] = plan[d] /\ pc'[d] = pc[d]
    BY <1>1, <1>4 DEF Op
  <1>6. /\ app' \in [Writer -> AppRow] /\ ~app'[a].running
        /\ \A b \in Writer : /\ app'[b].running = app[b].running /\ app'[b].desired = app[b].desired
                              /\ b # a => app'[b].observed = app[b].observed
    BY <1>1, <1>2 DEF AppRow
  <1>7. CapturesData'
    BY <1>1, <1>5, <1>6 DEF CapturesInv, CapturesData, Places
  <1>8. \A d \in Capture \ {c} : (Holds(d) /\ Cold(d))'
    BY <1>1, <1>5, OthersWait
  <1>9. (Holds(c) /\ Cold(c))'
    <2>1. \A i \in DOMAIN Writers :
            i < r.next => ~app'[Writers[i]].running \/ Writers[i] \in plan[c].intruded \cup reported
      <3> SUFFICES ASSUME NEW i \in DOMAIN Writers, i < r.next
                   PROVE  ~app'[Writers[i]].running \/ Writers[i] \in plan[c].intruded \cup reported
        OBVIOUS
      <3>1. CASE i = plan[c].next
        BY <1>6, <3>1 DEF NextWriter
      <3>2. CASE i # plan[c].next
        <4>1. i < plan[c].next /\ Writers[i] \in Writer
          BY <1>2, <1>3, <1>4, <3>2 DEF Writer, Range
        <4> QED BY <1>1, <1>6, <4>1 DEF Cold
      <3> QED BY <3>1, <3>2
    <2>2. r.next >= 1
      BY <1>3, <1>4
    <2> QED BY <1>1, <1>4, <1>5, <2>1, <2>2 DEF Holds, Cold
  <1>10. RowsTell'
    BY <1>1, <1>6 DEF CapturesInv, RowsTell
  <1>11. spent'.deaths = 0 => Back'
    <2>1. \A b : ToResume(c, b) => ToResume(c, b)'
      BY <1>1, <1>3, <1>4, <1>5 DEF ToResume, RunAt
    <2> HIDE DEF a
    <2> QED BY <1>1, <1>4, <1>5, <1>6, <2>1 DEF CapturesInv, Back
  <1> QED BY <1>7, <1>8, <1>9, <1>10, <1>11 DEF CapturesInv

\* A stop that fails slips at most the writer it was of.
LEMMA CaptureQuiesceFails == ASSUME CapturesInv, NEW c \in Capture, QuiesceFails(c) PROVE CapturesInv'
PROOF
  <1> DEFINE a == NextWriter(c)
  <1>1. /\ pc[c] \in {"quiesce", "note"} /\ holder = c /\ c \in Op /\ pc \in [Op -> Places]
        /\ UNCHANGED <<plan, holder, unit, reported>> /\ app \in [Writer -> AppRow] /\ Cold(c)
        /\ pc' = [pc EXCEPT ![c] = "resume"]
        /\ slipped' = IF app'[a].running THEN slipped ELSE slipped \cup {a}
    BY DEF QuiesceFails, Goto, RunAt, Op, CapturesInv, CapturesData, Holds, Held
  <1>2. spent' \in Spent /\ spent'.deaths = spent.deaths
    BY FailureSpends DEF QuiesceFails, CapturesInv, CapturesData
  <1>3. a \in Writer /\ (pc[c] = "note" => ~app[a].running)
    <2>1. CASE pc[c] = "note"
      BY <1>1, <2>1 DEF Cold, NextWriter, Writer, Range
    <2>2. CASE pc[c] = "quiesce"
      BY <2>2, NextIsWriter DEF QuiesceFails, RunAt
    <2> QED BY <1>1, <2>1, <2>2
  <1>4. \/ UNCHANGED app
        \/ app' = [app EXCEPT ![a] = [app[a] EXCEPT !.running = FALSE]]
        \/ pc[c] = "note" /\ app' = [app EXCEPT ![a] = [app[a] EXCEPT !.observed = FALSE]]
    BY DEF QuiesceFails, RunAt
  <1>5. /\ app' \in [Writer -> AppRow]
        /\ \A b \in Writer \ {a} : app'[b] = app[b]
        /\ app'[a].running => app'[a] = app[a]
    BY <1>1, <1>3, <1>4 DEF AppRow
  <1> HIDE DEF a
  <1>6. CapturesData'
    BY <1>1, <1>2, <1>5 DEF CapturesInv, CapturesData, Places
  <1>7. \A d \in Capture \ {c} : (Holds(d) /\ Cold(d))'
    BY <1>1, OthersWait DEF Op
  <1>8. (Holds(c) /\ Cold(c))'
    BY <1>1 DEF Holds, Cold
  <1>9. RowsTell'
    BY <1>1, <1>3, <1>5 DEF CapturesInv, RowsTell
  <1>10. spent'.deaths = 0 => Back'
    <2> SUFFICES ASSUME Back PROVE Back'
      BY <1>2 DEF CapturesInv
    <2>1. \A b : b # a /\ ToResume(c, b) => ToResume(c, b)'
      BY <1>1 DEF ToResume, RunAt, a
    <2>2. ASSUME NEW b \in Writer, app'[b].desired, ~app'[b].running
          PROVE  b \in reported' \cup slipped' \/ ToResume(c, b)'
      <3>1. CASE b = a
        BY <1>1, <2>2, <3>1
      <3>2. CASE b # a
        BY <1>1, <1>5, <2>1, <2>2, <3>2 DEF Back
      <3> QED BY <3>1, <3>2
    <2>3. ~unit' => Unit \in reported' \cup slipped' \/ plan'[c].unitStopped
      BY <1>1 DEF Back
    <2> QED BY <1>1, <2>2, <2>3 DEF Back
  <1> QED BY <1>6, <1>7, <1>8, <1>9, <1>10 DEF CapturesInv

LEMMA CaptureReads == ASSUME CapturesInv, NEW c \in Capture, TakeSnapshot(c) PROVE CapturesInv'
PROOF
  <1> DEFINE r == [plan[c] EXCEPT !.snap = NextSnap, !.hot = Hot]
  <1>1. /\ pc' = [pc EXCEPT ![c] = "record"] /\ pc[c] = "restic" /\ holder = c /\ pc \in [Op -> Places]
        /\ c \in Op /\ UNCHANGED <<holder, app, unit, reported, slipped, spent>>
        /\ plan \in [Capture -> PlanRow]
        /\ plan[c] \in PlanRow /\ plan' = [plan EXCEPT ![c] = r] /\ Cold(c)
    BY DEF TakeSnapshot, Goto, RunAt, Op, CapturesInv, CapturesData, Holds, Held
  <1>2. NextSnap \in Nat /\ Hot \in SUBSET (Writer \cup {Unit})
    <2>1. IsFiniteSet({d \in Capture : plan[d].snap # 0})
      BY BackupRunsAssumption, FS_Subset
    <2> QED BY <2>1, FS_CardinalityType DEF NextSnap, Hot
  <1>3. r \in PlanRow
    BY <1>1, <1>2 DEF PlanRow
  <1>4. /\ plan'[c] = r /\ plan' \in [Capture -> PlanRow]
        /\ \A d \in Capture \ {c} : plan'[d] = plan[d] /\ pc'[d] = pc[d]
    BY <1>1, <1>3 DEF Op
  <1>5. /\ r.hot = Hot /\ r.next = plan[c].next /\ r.intruded = plan[c].intruded
        /\ r.stopped = plan[c].stopped /\ r.unitSeen = plan[c].unitSeen /\ r.unitStopped = plan[c].unitStopped
    BY <1>1 DEF PlanRow
  <1>6. CapturesData'
    BY <1>1, <1>4 DEF CapturesInv, CapturesData, Places
  <1>7. \A d \in Capture \ {c} : (Holds(d) /\ Cold(d))'
    BY <1>1, <1>4, OthersWait
  <1>8. (Holds(c) /\ Cold(c))'
    <2>1. \A a \in Writer : app[a].running => a \in plan[c].intruded \cup reported
      <3> SUFFICES ASSUME NEW a \in Writer, app[a].running PROVE a \in plan[c].intruded \cup reported
        OBVIOUS
      <3>1. PICK i \in DOMAIN Writers : a = Writers[i]
        BY DEF Writer, Range
      <3>2. DOMAIN Writers = 1 .. Len(Writers) /\ Len(Writers) \in Nat /\ plan[c].next \in Nat
        BY <1>1, BackupRunsAssumption, LenProperties DEF PlanRow
      <3> QED BY <1>1, <3>1, <3>2 DEF Cold
    <2>2. Hot \subseteq plan[c].intruded \cup reported \cup (IF plan[c].unitSeen THEN {} ELSE {Unit})
      BY <1>1, <2>1 DEF Hot, Cold
    <2> QED BY <1>1, <1>4, <1>5, <2>2 DEF Holds, Cold
  <1>9. RowsTell' /\ (spent'.deaths = 0 => Back')
    BY <1>1, <1>4, <1>5 DEF CapturesInv, RowsTell, Back, ToResume, RunAt
  <1> QED BY <1>6, <1>7, <1>8, <1>9 DEF CapturesInv

\* A writer is taken from those to resume: it is up, not wanted or reported.
LEMMA CaptureResumes ==
    ASSUME CapturesInv, NEW c \in Capture, pc[c] \in {"resume", "start"},
           plan[c].stopped # <<>>,
           plan' = [plan EXCEPT ![c] = [plan[c] EXCEPT !.stopped = Front(plan[c].stopped)]],
           pc' \in [Op -> Places], pc'[c] = "resume", \A o \in Op \ {c} : pc'[o] = pc[o],
           UNCHANGED <<holder, unit>>, reported \subseteq reported',
           app' \in [Writer -> AppRow],
           \A b \in Writer : b # Last(plan[c].stopped) => app'[b] = app[b],
           LET a == Last(plan[c].stopped)
           IN  /\ (app'[a].running \/ ~app'[a].desired \/ a \in reported')
               /\ (app'[a].running /\ ~app'[a].observed => a \in reported')
               /\ slipped \subseteq slipped' \cup {a},
           spent' \in Spent, spent'.deaths = spent.deaths
    PROVE  CapturesInv'
PROOF
  <1> DEFINE r == [plan[c] EXCEPT !.stopped = Front(plan[c].stopped)]
             a == Last(plan[c].stopped)
  <1>1. plan \in [Capture -> PlanRow] /\ plan[c] \in PlanRow /\ holder = c /\ Cold(c)
    BY DEF CapturesInv, CapturesData, Holds, Held
  <1>2. /\ Front(plan[c].stopped) \in Seq(Writer) /\ a \in Writer
        /\ Range(plan[c].stopped) \subseteq Range(Front(plan[c].stopped)) \cup {a}
    BY <1>1, LastAndFront DEF PlanRow
  <1>3. /\ r \in PlanRow /\ r.stopped = Front(plan[c].stopped) /\ r.unitStopped = plan[c].unitStopped
        /\ r.hot = plan[c].hot /\ r.intruded = plan[c].intruded /\ r.next = plan[c].next
        /\ r.unitSeen = plan[c].unitSeen
    BY <1>1, <1>2 DEF PlanRow
  <1>4. /\ plan'[c] = r /\ plan' \in [Capture -> PlanRow]
        /\ \A d \in Capture \ {c} : plan'[d] = plan[d] /\ pc'[d] = pc[d]
    BY <1>1, <1>3 DEF Op
  <1>5. CapturesData'
    BY <1>4 DEF CapturesInv, CapturesData
  <1>6. \A d \in Capture \ {c} : (Holds(d) /\ Cold(d))'
    BY <1>1, <1>4, OthersWait
  <1>7. (Holds(c) /\ Cold(c))' /\ RowsTell'
    BY <1>1, <1>3, <1>4 DEF CapturesInv, RowsTell, Holds, Cold
  <1>8. spent'.deaths = 0 => Back'
    <2> SUFFICES ASSUME Back PROVE Back'
      BY DEF CapturesInv
    <2>1. ASSUME NEW b \in Writer, app'[b].desired, ~app'[b].running
          PROVE  b \in reported' \cup slipped' \/ b \in Range(r.stopped)
      <3>1. CASE b = a
        BY <2>1, <3>1
      <3>2. CASE b # a
        <4>1. app'[b] = app[b]
          BY <3>2
        <4>2. b \in reported \cup slipped \/ b \in Range(plan[c].stopped)
          BY <1>1, <2>1, <4>1 DEF Back, ToResume, RunAt
        <4> QED BY <1>2, <1>3, <3>2, <4>2
      <3> QED BY <3>1, <3>2
    <2>2. ~unit' => Unit \in reported' \cup slipped' \/ plan'[c].unitStopped
      BY <1>1, <1>2, <1>3, <1>4, BackupRunsAssumption DEF Back
    <2> QED BY <1>1, <1>4, <2>1, <2>2 DEF Back, ToResume
  <1> QED BY <1>5, <1>6, <1>7, <1>8 DEF CapturesInv

\* What is to be resumed was stopped: nothing is started of a capture without it.
LEMMA CaptureEnds == ASSUME CapturesInv, NEW c \in Capture, Release(c) PROVE CapturesInv'
PROOF
  <1> DEFINE r == [plan[c] EXCEPT !.unitStopped = FALSE]
  <1>1. /\ pc' = [pc EXCEPT ![c] = "done"] /\ pc[c] = "resume" /\ holder = c /\ pc \in [Op -> Places]
        /\ c \in Op /\ UNCHANGED <<app, slipped>> /\ plan \in [Capture -> PlanRow] /\ holder' = Nothing
        /\ plan[c] \in PlanRow /\ plan' = [plan EXCEPT ![c] = r] /\ Cold(c)
        /\ plan[c].stopped = <<>> /\ unit \in BOOLEAN
    BY DEF Release, Goto, RunAt, Op, CapturesInv, CapturesData, Holds, Held
  <1>2. /\ spent' \in Spent /\ spent'.deaths = spent.deaths /\ unit' \in BOOLEAN
        /\ reported \subseteq reported'
        /\ Unit \in reported' \/ unit' = (unit \/ plan[c].unitStopped)
    <2>1. CASE unit' = (unit \/ plan[c].unitStopped) /\ UNCHANGED <<reported, spent>>
      BY <1>1, <2>1 DEF CapturesInv, CapturesData, PlanRow
    <2>2. CASE RunTrouble("faults") /\ reported' = reported \cup {Unit} /\ unit' \in {unit, TRUE}
      BY <1>1, <2>2, SpentMoves DEF CapturesInv, CapturesData, RunTrouble
    <2> QED BY <2>1, <2>2 DEF Release
  <1>3. /\ r \in PlanRow /\ r.stopped = <<>> /\ r.unitSeen = plan[c].unitSeen
        /\ r.hot = plan[c].hot /\ r.intruded = plan[c].intruded /\ r.next = plan[c].next
    BY <1>1 DEF PlanRow
  <1>4. /\ plan'[c] = r /\ plan' \in [Capture -> PlanRow]
        /\ \A d \in Capture \ {c} : plan'[d] = plan[d] /\ pc'[d] = pc[d]
    BY <1>1, <1>3 DEF Op
  <1>5. CapturesData'
    BY <1>1, <1>2, <1>4 DEF CapturesInv, CapturesData, Places
  <1>6. \A d \in Capture \ {c} : (Holds(d) /\ Cold(d))'
    BY <1>1, <1>2, <1>4, OthersWait
  <1>7. (Holds(c) /\ Cold(c))' /\ RowsTell'
    BY <1>1, <1>2, <1>3, <1>4 DEF CapturesInv, RowsTell, Holds, Cold, Held
  <1>8. spent'.deaths = 0 => Back'
    <2> SUFFICES ASSUME Back PROVE Back'
      BY <1>2 DEF CapturesInv
    <2>1. Range(plan[c].stopped) = {}
      BY <1>1 DEF Range
    <2>2. \A b \in Writer : app'[b].desired /\ ~app'[b].running => b \in reported' \cup slipped'
      BY <1>1, <1>2, <2>1 DEF Back, ToResume, RunAt
    <2>3. ~unit' => Unit \in reported' \cup slipped'
      BY <1>1, <1>2 DEF Back
    <2> QED BY <2>2, <2>3 DEF Back
  <1> QED BY <1>5, <1>6, <1>7, <1>8 DEF CapturesInv

LEMMA CaptureInStep ==
    ASSUME CapturesInv, NEW c \in Capture, PlanCapture(c) \/ CaptureStep(c)
    PROVE  CapturesInv'
PROOF
  <1>0. /\ pc \in [Op -> Places] /\ spent \in Spent /\ c \in Op /\ plan \in [Capture -> PlanRow]
        /\ app \in [Writer -> AppRow] /\ Capture \subseteq Op
    BY DEF CapturesInv, CapturesData, Op
  <1>1. CASE PlanCapture(c)
    BY <1>1, CapturePlans
  <1>2. CASE LockMaintenance(c)
    BY <1>2, CaptureLocks
  <1>3. CASE PreflightFails(c)
    <2>1. /\ pc' = [pc EXCEPT ![c] = "done"] /\ pc[c] = "planned" /\ holder = Nothing
          /\ UNCHANGED captures /\ spent' \in Spent /\ spent'.deaths = spent.deaths
      BY <1>0, <1>3, FailureSpends DEF PreflightFails, RunAt, Goto
    <2>2. CapturesData'
      BY <1>0, <2>1 DEF CapturesInv, CapturesData, captures, Places
    <2>3. \A d \in Capture \ {c} : (Holds(d) /\ Cold(d))'
      BY <1>0, <2>1, OthersWait DEF captures
    <2>4. (Holds(c) /\ Cold(c))'
      BY <1>0, <2>1 DEF CapturesInv, Holds, Cold, Held, captures
    <2>5. RowsTell' /\ (spent'.deaths = 0 => Back')
      BY <2>1, BackupRunsAssumption DEF CapturesInv, RowsTell, Back, captures, Nothing
    <2> QED BY <2>2, <2>3, <2>4, <2>5 DEF CapturesInv
  <1>4. CASE StopUnit(c) \/ StopUnitFails(c)
    BY <1>4, CaptureStopsUnit, CaptureUnitFails
  <1>5. CASE QuiesceWriter(c) \/ NoteQuiesced(c)
    BY <1>5, CaptureQuiesces, CaptureNotes
  <1>6. CASE QuiesceFails(c)
    BY <1>6, CaptureQuiesceFails
  <1>7. CASE Dump(c)
    BY <1>0, <1>7, CaptureGoes DEF Dump, RunAt, Held
  <1>8. CASE DumpFails(c)
    BY <1>0, <1>8, CaptureGoes, FailureSpends DEF DumpFails, RunAt, Held
  <1>9. CASE BeginRun(c)
    BY <1>0, <1>9, CaptureGoes DEF BeginRun, RunAt, Held
  <1>10. CASE BeginRunRefused(c)
    <2>1. spent' \in Spent /\ spent'.deaths = spent.deaths
      BY <1>0, <1>10, FailureSpends DEF BeginRunRefused
    <2> QED BY <1>0, <1>10, <2>1, CaptureGoes DEF BeginRunRefused, RunAt, Held
  <1>11. CASE TakeSnapshot(c)
    BY <1>11, CaptureReads
  <1>12. CASE RecordSnapshot(c)
    BY <1>0, <1>12, CaptureGoes DEF RecordSnapshot, RunAt, Held
  <1>13. CASE CaptureFails(c)
    BY <1>0, <1>13, CaptureGoes, FailureSpends DEF CaptureFails, RunAt, Held
  <1>14. CASE CompleteRun(c)
    BY <1>0, <1>14, CaptureGoes DEF CompleteRun, RunAt, Held
  <1>15. CASE CompleteRunFails(c)
    BY <1>0, <1>15, CaptureGoes, FailureSpends DEF CompleteRunFails, RunAt, Held
  <1>16. CASE ResumeLook(c)
    <2>1. /\ pc[c] = "resume" /\ plan[c].stopped # <<>>
          /\ UNCHANGED <<holder, app, unit, reported, slipped, spent>>
      BY <1>16 DEF ResumeLook, RunAt
    <2>2. CASE app[Last(plan[c].stopped)].desired
      <3>1. pc' = [pc EXCEPT ![c] = "start"] /\ UNCHANGED plan /\ holder = c
        BY <1>16, <2>1, <2>2 DEF ResumeLook, Goto, CapturesInv, Holds, Held
      <3>2. CapturesData'
        BY <1>0, <2>1, <3>1 DEF CapturesInv, CapturesData, Places
      <3>3. \A d \in Capture \ {c} : (Holds(d) /\ Cold(d))'
        BY <1>0, <2>1, <3>1, OthersWait
      <3>4. (Holds(c) /\ Cold(c))'
        BY <1>0, <2>1, <3>1 DEF CapturesInv, Holds, Cold, Held
      <3>5. RowsTell' /\ (spent'.deaths = 0 => Back')
        BY <1>0, <2>1, <3>1 DEF CapturesInv, RowsTell, Back, ToResume, RunAt
      <3> QED BY <3>2, <3>3, <3>4, <3>5 DEF CapturesInv
    <2>3. CASE ~app[Last(plan[c].stopped)].desired
      <3>1. plan' = [plan EXCEPT ![c] = [plan[c] EXCEPT !.stopped = Front(plan[c].stopped)]] /\ UNCHANGED pc
        BY <1>16, <2>3 DEF ResumeLook
      <3>2. Last(plan[c].stopped) \in Writer
        BY <1>0, <2>1, LastAndFront DEF PlanRow
      <3> QED BY <1>0, <2>1, <2>3, <3>1, <3>2, CaptureResumes DEF CapturesInv, RowsTell
    <2> QED BY <2>2, <2>3
  <1>17. CASE ResumeStart(c) \/ ResumeFails(c)
    <2> DEFINE a == Last(plan[c].stopped)
    <2>1. /\ pc[c] \in {"resume", "start"} /\ plan[c].stopped # <<>>
          /\ plan' = [plan EXCEPT ![c] = [plan[c] EXCEPT !.stopped = Front(plan[c].stopped)]]
          /\ pc' = [pc EXCEPT ![c] = "resume"]
          /\ UNCHANGED <<holder, unit>> /\ reported \subseteq reported'
          /\ slipped \subseteq slipped' \cup {a}
      BY <1>17 DEF ResumeStart, ResumeFails, RunAt, Goto, CapturesInv, Cold
    <2>2. spent' \in Spent /\ spent'.deaths = spent.deaths
      BY <1>0, <1>17, SpentMoves DEF ResumeStart, ResumeFails, RunTrouble
    <2>3. a \in Writer
      BY <1>0, <2>1, LastAndFront DEF PlanRow
    <2>4. a \in reported' \/ app' = [app EXCEPT ![a] = Started(app[a], 3)]
      BY <1>17 DEF ResumeStart, ResumeFails
    <2>5. app' = app \/ \E n \in 0 .. 3 : app' = [app EXCEPT ![a] = Started(app[a], n)]
      BY <1>17 DEF ResumeStart, ResumeFails
    <2> HIDE DEF a
    <2>6. /\ app' \in [Writer -> AppRow]
          /\ \A b \in Writer : b # a => app'[b] = app[b]
      <3>1. \A n : Started(app[a], n) \in AppRow
        BY <1>0, <2>3, StartedRow
      <3> QED BY <1>0, <2>3, <2>5, <3>1
    <2>7. app' = [app EXCEPT ![a] = Started(app[a], 3)] => app'[a].running /\ app'[a].observed
      BY <1>0, <2>3, StartedRow
    <2>8. pc' \in [Op -> Places] /\ pc'[c] = "resume" /\ \A o \in Op \ {c} : pc'[o] = pc[o]
      BY <1>0, <2>1 DEF Places
    <2>9. /\ (app'[a].running \/ ~app'[a].desired \/ a \in reported')
          /\ (app'[a].running /\ ~app'[a].observed => a \in reported')
      BY <2>4, <2>7
    <2> QED BY <2>1, <2>2, <2>6, <2>8, <2>9, CaptureResumes DEF a
  <1>18. CASE Release(c)
    BY <1>18, CaptureEnds
  <1> QED BY <1>1, <1>2, <1>3, <1>4, <1>5, <1>6, <1>7, <1>8, <1>9, <1>10, <1>11, <1>12, <1>13,
             <1>14, <1>15, <1>16, <1>17, <1>18 DEF CaptureStep

\* What a step of a verification leaves of the captures.
LEMMA VerifyAside ==
    ASSUME pc \in [Op -> Places], spent \in Spent, NEW v \in Verify, SelectSnapshot(v) \/ VerifyStep(v)
    PROVE  /\ UNCHANGED captures /\ pc' \in [Op -> Places]
           /\ \A o \in Op \ {v} : pc'[o] = pc[o]
           /\ spent' \in Spent /\ spent'.deaths = spent.deaths
PROOF
  <1>0. v \in Op
    BY DEF Op
  <1>1. ASSUME NEW w \in Places, Goto(v, w)
        PROVE  pc' \in [Op -> Places] /\ \A o \in Op \ {v} : pc'[o] = pc[o]
    BY <1>0, <1>1 DEF Goto
  <1>2. /\ UNCHANGED captures
        /\ UNCHANGED spent \/ CommandFails(v)
    BY DEF SelectSnapshot, VerifyStep, BeginVerify, BeginVerifyRefused, PrepareVerify,
       PrepareVerifyFails,
           RestoreIsolated, PassVerification, MarkSnapshotVerified, VerificationFails, CompleteVerify, CompleteVerifyFails
  <1>3. \E w \in Places : Goto(v, w)
    BY DEF SelectSnapshot, VerifyStep, BeginVerify, BeginVerifyRefused, PrepareVerify,
       PrepareVerifyFails,
           RestoreIsolated, PassVerification, MarkSnapshotVerified, VerificationFails, CompleteVerify, CompleteVerifyFails, Places
  <1> QED BY <1>1, <1>2, <1>3, FailureSpends

\* What a retention pass and the end of a context leave.
LEMMA RetentionAside ==
    ASSUME spent \in Spent, PlanRetention \/ RetentionStep \/ \E o \in Op : ContextEnds(o)
    PROVE  /\ UNCHANGED <<pc, captures, row, proof, target>>
           /\ spent' \in Spent /\ spent'.deaths = spent.deaths
PROOF
  <1>1. UNCHANGED <<pc, captures, row, proof, target>>
    BY DEF PlanRetention, RetentionStep, ProtectVerified, Forget, ForgetFails, PruneCut, DeleteRows,
       ContextEnds, records
  <1>2. UNCHANGED spent \/ \E w \in {"faults", "cancels", "passes"} : Spend(w)
    BY DEF PlanRetention, RetentionStep, ProtectVerified, Forget, ForgetFails, PruneCut, DeleteRows,
       ContextEnds, RunTrouble
  <1> QED BY <1>1, <1>2, SpentMoves

LEMMA OperatorInStep ==
    ASSUME CapturesInv, NEW a \in Writer, OperatorStart(a) \/ OperatorStop(a)
    PROVE  CapturesInv'
PROOF
  <1>0. /\ pc \in [Op -> Places] /\ spent \in Spent /\ plan \in [Capture -> PlanRow]
        /\ app \in [Writer -> AppRow] /\ unit \in BOOLEAN
    BY DEF CapturesInv, CapturesData
  <1>1. spent' \in Spent /\ spent'.deaths = spent.deaths
    BY <1>0, SpentMoves DEF OperatorStart, OperatorStop
  <1>2. UNCHANGED <<pc, holder, unit, reported>>
    BY DEF OperatorStart, OperatorStop
  <1>3. CASE OperatorStart(a)
    <2>0. PICK x \in AppRow : x = Started(app[a], 3) /\ x.running /\ x.observed
      BY <1>0, StartedRow
    <2>1. /\ app' = [app EXCEPT ![a] = x]
          /\ slipped' = slipped \ {a} /\ ~Locked(a)
          /\ plan' = [c \in Capture |-> IF c = holder THEN [plan[c] EXCEPT !.intruded = plan[c].intruded \cup {a}]
                                        ELSE plan[c]]
      BY <1>3, <2>0 DEF OperatorStart
    <2>2. \A c \in Capture :
            /\ plan'[c] \in PlanRow /\ plan'[c].next = plan[c].next /\ plan'[c].stopped = plan[c].stopped
            /\ plan'[c].hot = plan[c].hot /\ plan'[c].unitSeen = plan[c].unitSeen
            /\ plan'[c].unitStopped = plan[c].unitStopped
            /\ plan[c].intruded \subseteq plan'[c].intruded
            /\ c = holder => a \in plan'[c].intruded
      <3> SUFFICES ASSUME NEW c \in Capture
                   PROVE  /\ /\ plan'[c] \in PlanRow /\ plan'[c].next = plan[c].next
                          /\ plan'[c].stopped = plan[c].stopped
                          /\ plan'[c].hot = plan[c].hot /\ plan'[c].unitSeen = plan[c].unitSeen
                          /\ plan'[c].unitStopped = plan[c].unitStopped
                          /\ plan[c].intruded \subseteq plan'[c].intruded
                          /\ c = holder => a \in plan'[c].intruded
        OBVIOUS
      <3>1. CASE c = holder
        <4>1. plan[c] \in PlanRow /\ plan'[c] = [plan[c] EXCEPT !.intruded = plan[c].intruded \cup {a}]
          BY <1>0, <2>1, <3>1
        <4> QED BY <4>1 DEF PlanRow
      <3>2. CASE c # holder
        BY <1>0, <2>1, <3>2
      <3> QED BY <3>1, <3>2
    <2>3. CapturesData'
      <3>1. plan' \in [Capture -> PlanRow]
        BY <2>1, <2>2
      <3>2. app' \in [Writer -> AppRow]
        BY <1>0, <2>1 DEF AppRow
      <3> QED BY <1>0, <1>1, <1>2, <3>1, <3>2 DEF CapturesData
    <2>4. ASSUME NEW c \in Capture PROVE (Holds(c) /\ Cold(c))'
      <3>1. Holds(c)' /\ Holds(c) /\ Cold(c)
        BY <1>2 DEF CapturesInv, Holds
      <3>2. pc[c] \in {"quiesce", "note", "begin", "restic"} => c = holder
        BY <3>1 DEF Holds, Held
      <3>3. \A i \in DOMAIN Writers :
              /\ Writers[i] \in Writer
              /\ ~app[Writers[i]].running => ~app'[Writers[i]].running \/ Writers[i] = a
        BY <1>0, <2>1 DEF Writer, Range
      <3>4. NextWriter(c)' = NextWriter(c) /\ (pc[c] = "note" => NextWriter(c) # a)
        BY <2>1, <2>2 DEF NextWriter, Locked, RunAt
      <3>5. pc[c] = "note" => ~app'[NextWriter(c)].running /\ plan[c].next \in DOMAIN Writers
        BY <1>0, <2>1, <3>1, <3>4 DEF Cold, NextWriter, Writer, Range
      <3>6. Cold(c)'
        BY <1>2, <2>2, <3>1, <3>2, <3>3, <3>4, <3>5 DEF Cold
      <3> QED BY <3>1, <3>6
    <2>5. /\ app'[a].running /\ app'[a].observed
          /\ \A b \in Writer \ {a} : app'[b] = app[b] /\ (b \in slipped => b \in slipped')
          /\ Unit \in slipped => Unit \in slipped'
      BY <1>0, <2>0, <2>1, BackupRunsAssumption
    <2>6. \A c \in Capture : \A b : ToResume(c, b) => ToResume(c, b)'
      BY <1>2, <2>2 DEF ToResume, RunAt, NextWriter
    <2>7. RowsTell'
      BY <1>2, <2>5 DEF CapturesInv, RowsTell
    <2>8. spent'.deaths = 0 => Back'
      <3> SUFFICES ASSUME Back PROVE Back'
        BY <1>1 DEF CapturesInv
      <3>1. ASSUME NEW b \in Writer, app'[b].desired, ~app'[b].running
            PROVE  b \in reported' \cup slipped' \/ \E c \in Capture : c = holder' /\ ToResume(c, b)'
        BY <1>2, <2>5, <2>6, <3>1 DEF Back
      <3>2. ~unit' => Unit \in reported' \cup slipped' \/ \E c \in Capture : c = holder' /\ plan'[c].unitStopped
        BY <1>2, <2>2, <2>5 DEF Back
      <3> QED BY <3>1, <3>2 DEF Back
    <2> QED BY <2>3, <2>4, <2>7, <2>8 DEF CapturesInv
  <1>4. CASE OperatorStop(a)
    <2>1. /\ app' = [app EXCEPT ![a] = [desired |-> FALSE, observed |-> FALSE,
                                        running |-> app[a].running /\ ~app[a].observed]]
          /\ UNCHANGED <<plan, slipped>>
      BY <1>4 DEF OperatorStop
    <2>2. CapturesData'
      <3>1. app' \in [Writer -> AppRow]
        BY <1>0, <2>1 DEF AppRow
      <3> QED BY <1>0, <1>1, <1>2, <2>1, <3>1 DEF CapturesData
    <2>3. \A i \in DOMAIN Writers : ~app[Writers[i]].running => ~app'[Writers[i]].running
      BY <1>0, <2>1 DEF Writer, Range
    <2>4. \A c \in Capture : (Holds(c) /\ Cold(c))'
      BY <1>2, <2>1, <2>3 DEF CapturesInv, Holds, Cold, NextWriter
    <2>5. /\ ~app'[a].desired /\ (app'[a].running => app[a].running /\ ~app[a].observed)
          /\ \A b \in Writer \ {a} : app'[b] = app[b]
      BY <1>0, <2>1
    <2>6. RowsTell'
      BY <1>2, <2>5 DEF CapturesInv, RowsTell
    <2>7. spent'.deaths = 0 => Back'
      BY <1>1, <1>2, <2>1, <2>5 DEF CapturesInv, Back, ToResume, RunAt, NextWriter
    <2> QED BY <2>2, <2>4, <2>6, <2>7 DEF CapturesInv
  <1> QED BY <1>3, <1>4

LEMMA CapturesStep == CapturesInv /\ [RunsNext]_runVars => CapturesInv'
PROOF
  <1> SUFFICES ASSUME CapturesInv, [RunsNext]_runVars PROVE CapturesInv'
    OBVIOUS
  <1>0. pc \in [Op -> Places] /\ spent \in Spent /\ Capture \subseteq Op
    BY DEF CapturesInv, CapturesData, Op
  <1>1. ASSUME NEW c \in Capture, PlanCapture(c) \/ CaptureStep(c) PROVE CapturesInv'
    BY <1>1, CaptureInStep
  <1>2. ASSUME NEW v \in Verify, SelectSnapshot(v) \/ VerifyStep(v) PROVE CapturesInv'
    <2>1. v \notin Capture
      BY BackupRunsAssumption
    <2>2. /\ UNCHANGED captures /\ pc' \in [Op -> Places]
          /\ \A o \in Op \ {v} : pc'[o] = pc[o]
          /\ spent' \in Spent /\ spent'.deaths = spent.deaths
      BY <1>0, <1>2, VerifyAside
    <2> QED BY <1>0, <2>1, <2>2, CapturesAside
  <1>3. CASE PlanRetention \/ RetentionStep \/ \E o \in Op : ContextEnds(o)
    <2>1. UNCHANGED <<pc, captures>> /\ spent' \in Spent /\ spent'.deaths = spent.deaths
      BY <1>0, <1>3, RetentionAside
    <2> QED BY <1>0, <2>1, CapturesAside
  <1>4. ASSUME NEW a \in Writer, OperatorStart(a) \/ OperatorStop(a) PROVE CapturesInv'
    BY <1>4, OperatorInStep
  <1>5. CASE DaemonDies
    <2>1. /\ pc' = [o \in Op |-> IF pc[o] \in Over THEN pc[o] ELSE "dead"]
          /\ UNCHANGED <<plan, app, unit, reported, slipped>>
      BY <1>5 DEF DaemonDies
    <2>2. spent' \in Spent /\ spent'.deaths # 0
      <3>1. spent' = [spent EXCEPT !["deaths"] = spent["deaths"] + 1]
        BY <1>5 DEF DaemonDies, RunTrouble, Spend
      <3> QED BY <1>0, <3>1 DEF Spent
    <2>3. CapturesData'
      BY <1>0, <2>1, <2>2 DEF CapturesInv, CapturesData, Places
    <2>4. \A c \in Capture : (Holds(c) /\ Cold(c))'
      BY <1>0, <2>1 DEF CapturesInv, Holds, Cold, Held, Over
    <2>5. RowsTell'
      BY <2>1 DEF CapturesInv, RowsTell
    <2> QED BY <2>2, <2>3, <2>4, <2>5 DEF CapturesInv
  <1>6. CASE UNCHANGED runVars
    BY <1>0, <1>6, CapturesAside DEF runVars
  <1> QED BY <1>1, <1>2, <1>3, <1>4, <1>5, <1>6 DEF RunsNext

-----------------------------------------------------------------------------
(* The steps of a verification.                                             *)

\* Steps that verify nothing: no mark appears, and no verification moves.
LEMMA ProofAside ==
    ASSUME VerifyInv, pc' \in [Op -> Places], UNCHANGED <<proof, target>>,
           row' \in [Op -> {Nothing, "running", "completed", "failed"}],
           \A v \in Verify : pc'[v] = pc[v] /\ row'[v] = row[v], liveOps' \subseteq liveOps,
           \A s \in DOMAIN listed' : listed'[s] > 0 => s \in DOMAIN listed /\ listed'[s] = listed[s]
    PROVE  VerifyInv'
PROOF
  <1>1. Proven'
    BY DEF VerifyInv, Proven
  <1>2. \A v \in Verify : RowsAgree(v)'
    BY DEF VerifyInv, RowsAgree
  <1> QED BY <1>1, <1>2 DEF VerifyInv

\* What a step of a capture does to the rows.
LEMMA CaptureAside ==
    ASSUME VerifyInv, NEW c \in Capture, PlanCapture(c) \/ CaptureStep(c)
    PROVE  VerifyInv'
PROOF
  <1>1. UNCHANGED <<proof, target, liveOps>>
    BY DEF PlanCapture, CaptureStep, LockMaintenance, PreflightFails, StopUnit, StopUnitFails, QuiesceWriter,
       NoteQuiesced, QuiesceFails, Dump, DumpFails,
           BeginRun, BeginRunRefused, TakeSnapshot, RecordSnapshot, CaptureFails, CompleteRun, CompleteRunFails,
           ResumeLook, ResumeStart, ResumeFails, Release, records
  <1>2. UNCHANGED pc \/ \E w \in Places : Goto(c, w)
    BY DEF PlanCapture, CaptureStep, LockMaintenance, PreflightFails, StopUnit, StopUnitFails, QuiesceWriter,
       NoteQuiesced, QuiesceFails, Dump, DumpFails,
           BeginRun, BeginRunRefused, TakeSnapshot, RecordSnapshot, CaptureFails, CompleteRun, CompleteRunFails,
           ResumeLook, ResumeStart, ResumeFails, Release, Places
  <1>3. UNCHANGED row \/ \E status \in {"running", "completed", "failed"} : SetRun(c, status)
    BY DEF PlanCapture, CaptureStep, LockMaintenance, PreflightFails, StopUnit, StopUnitFails, QuiesceWriter,
       NoteQuiesced, QuiesceFails, Dump, DumpFails,
           BeginRun, BeginRunRefused, TakeSnapshot, RecordSnapshot, CaptureFails, CompleteRun, CompleteRunFails,
           ResumeLook, ResumeStart, ResumeFails, Release, records, FailRow
  <1>4. UNCHANGED listed \/ RecordSnapshot(c)
    BY DEF PlanCapture, CaptureStep, LockMaintenance, PreflightFails, StopUnit, StopUnitFails, QuiesceWriter,
       NoteQuiesced, QuiesceFails, Dump, DumpFails,
           BeginRun, BeginRunRefused, TakeSnapshot, CaptureFails, CompleteRun, CompleteRunFails,
           ResumeLook, ResumeStart, ResumeFails, Release, records
  <1>5. /\ pc \in [Op -> Places] /\ row \in [Op -> {Nothing, "running", "completed", "failed"}]
        /\ c \in Op /\ Verify \subseteq Op /\ c \notin Verify
    BY BackupRunsAssumption DEF VerifyInv, Op
  <1>6. pc' \in [Op -> Places] /\ \A v \in Verify : pc'[v] = pc[v]
    BY <1>2, <1>5 DEF Goto
  <1>7. row' \in [Op -> {Nothing, "running", "completed", "failed"}] /\ \A v \in Verify : row'[v] = row[v]
    BY <1>3, <1>5 DEF SetRun
  <1>8. \A s \in DOMAIN listed' : listed'[s] > 0 => s \in DOMAIN listed /\ listed'[s] = listed[s]
    BY <1>4 DEF RecordSnapshot
  <1> QED BY <1>1, <1>6, <1>7, <1>8, ProofAside

\* A verification that moves keeps the proofs of the others, and its own once it is
\* past marking; what it marks is its target.
LEMMA ProofMoves ==
    ASSUME VerifyInv, NEW v \in Verify, NEW w \in Places, Goto(v, w), RowsAgree(v)',
           row' \in [Op -> {Nothing, "running", "completed", "failed"}],
           proof' \in [Verify -> {Nothing, "running", "passed", "failed"}],
           target' = [u \in Verify |-> target'[u]],
           \A u \in Verify \ {v} : row'[u] = row[u] /\ proof'[u] = proof[u] /\ target'[u] = target[u],
           UNCHANGED liveOps,
           pc[v] \in {"complete", "done", "dead"} =>
              UNCHANGED <<proof, target>> /\ w \in {"complete", "done", "dead"},
           \/ UNCHANGED listed
           \/ /\ target[v] \in DOMAIN listed /\ \E x : listed' = [listed EXCEPT ![target[v]] = x]
              /\ w = "complete" /\ proof'[v] = "passed" /\ target'[v] = target[v]
    PROVE  VerifyInv'
PROOF
  <1>1. pc' = [pc EXCEPT ![v] = w] /\ pc \in [Op -> Places] /\ v \in Op /\ Verify \subseteq Op
    BY DEF Goto, VerifyInv, Op
  <1>2. ASSUME NEW u \in Verify, proof[u] = "passed", pc[u] \in {"complete", "done", "dead"}
        PROVE  target'[u] = target[u] /\ proof'[u] = "passed" /\ pc'[u] \in {"complete", "done", "dead"}
    BY <1>1, <1>2
  <1>3. Proven'
    <2> SUFFICES ASSUME NEW s \in DOMAIN listed', listed'[s] > 0
                 PROVE  \E u \in Verify : target'[u] = s /\ proof'[u] = "passed" /\ pc'[u] \in {"complete", "done", "dead"}
      BY DEF Proven
    <2>1. CASE s \in DOMAIN listed /\ listed'[s] = listed[s]
      <3>1. PICK u \in Verify : target[u] = s /\ proof[u] = "passed" /\ pc[u] \in {"complete", "done", "dead"}
        BY <2>1 DEF VerifyInv, Proven
      <3> QED BY <1>2, <3>1
    <2>2. CASE ~(s \in DOMAIN listed /\ listed'[s] = listed[s])
      <3>1. s = target[v] /\ w = "complete" /\ proof'[v] = "passed" /\ target'[v] = target[v]
        BY <2>2
      <3> QED BY <1>1, <3>1
    <2> QED BY <2>1, <2>2
  <1>4. \A u \in Verify : RowsAgree(u)'
    <2> SUFFICES ASSUME NEW u \in Verify \ {v} PROVE RowsAgree(u)'
      OBVIOUS
    <2>1. pc'[u] = pc[u]
      BY <1>1
    <2> QED BY <2>1 DEF VerifyInv, RowsAgree
  <1>5. pc' \in [Op -> Places]
    BY <1>1
  <1> QED BY <1>3, <1>4, <1>5 DEF VerifyInv

LEMMA VerifyInStep ==
    ASSUME VerifyInv, NEW v \in Verify, SelectSnapshot(v) \/ VerifyStep(v)
    PROVE  VerifyInv'
PROOF
  <1>0. /\ pc \in [Op -> Places] /\ row \in [Op -> {Nothing, "running", "completed", "failed"}]
        /\ proof \in [Verify -> {Nothing, "running", "passed", "failed"}]
        /\ target = [u \in Verify |-> target[u]]
        /\ v \in Op /\ Verify \subseteq Op /\ RowsAgree(v)
    BY DEF VerifyInv, Op
  <1>1. \A w \in Places : Goto(v, w) => pc'[v] = w
    BY <1>0 DEF Goto
  <1>2. CASE SelectSnapshot(v)
    <2>1. /\ pc[v] = "idle" /\ Goto(v, "begin") /\ UNCHANGED <<row, proof, listed, liveOps>>
          /\ \E s : target' = [target EXCEPT ![v] = s]
      BY <1>2 DEF SelectSnapshot, RunAt
    <2>2. target' = [u \in Verify |-> target'[u]] /\ \A u \in Verify \ {v} : target'[u] = target[u]
      BY <1>0, <2>1
    <2>3. pc'[v] = "begin" /\ RowsAgree(v)'
      BY <1>0, <1>1, <2>1 DEF RowsAgree, Places
    <2> QED BY <1>0, <2>1, <2>2, <2>3, ProofMoves DEF Places
  <1>3. CASE BeginVerify(v)
    <2>1. /\ pc[v] = "begin" /\ Goto(v, "prepare") /\ UNCHANGED <<proof, target, listed, liveOps>>
          /\ row' = [row EXCEPT ![v] = "running"]
      BY <1>3 DEF BeginVerify, RunAt, SetRun
    <2>2. pc'[v] = "prepare" /\ RowsAgree(v)'
      BY <1>0, <1>1, <2>1 DEF RowsAgree, Places
    <2> QED BY <1>0, <2>1, <2>2, ProofMoves DEF Places
  <1>4. CASE BeginVerifyRefused(v)
    <2>1. pc[v] = "begin" /\ Goto(v, "done") /\ UNCHANGED <<row, proof, target, listed, liveOps>>
      BY <1>4 DEF BeginVerifyRefused, RunAt, records
    <2>2. pc'[v] = "done" /\ RowsAgree(v)'
      BY <1>0, <1>1, <2>1 DEF RowsAgree, Places, Nothing
    <2> QED BY <1>0, <2>1, <2>2, ProofMoves DEF Places
  <1>5. CASE PrepareVerify(v)
    <2>1. /\ pc[v] = "prepare" /\ Goto(v, "restore") /\ UNCHANGED <<row, target, listed, liveOps>>
          /\ proof' = [proof EXCEPT ![v] = "running"]
      BY <1>5 DEF PrepareVerify, RunAt
    <2>2. pc'[v] = "restore" /\ RowsAgree(v)'
      BY <1>0, <1>1, <2>1 DEF RowsAgree, Places
    <2> QED BY <1>0, <2>1, <2>2, ProofMoves DEF Places
  <1>6. CASE PrepareVerifyFails(v)
    <2>1. /\ pc[v] = "prepare" /\ Goto(v, "done") /\ UNCHANGED <<proof, target, listed, liveOps>>
          /\ row' = [row EXCEPT ![v] = "failed"] \/ (UNCHANGED row /\ v \notin liveOps)
      BY <1>6 DEF PrepareVerifyFails, RunAt, FailRow, SetRun
    <2>2. pc'[v] = "done" /\ RowsAgree(v)'
      BY <1>0, <1>1, <2>1 DEF RowsAgree, Places, Nothing
    <2> QED BY <1>0, <2>1, <2>2, ProofMoves DEF Places
  <1>7. CASE RestoreIsolated(v)
    <2>1. pc[v] = "restore" /\ Goto(v, "check") /\ UNCHANGED <<row, proof, target, listed, liveOps>>
      BY <1>7 DEF RestoreIsolated, RunAt, records
    <2>2. pc'[v] = "check" /\ RowsAgree(v)'
      BY <1>0, <1>1, <2>1 DEF RowsAgree, Places
    <2> QED BY <1>0, <2>1, <2>2, ProofMoves DEF Places
  <1>8. CASE PassVerification(v)
    <2>1. /\ pc[v] = "check" /\ Goto(v, "mark") /\ UNCHANGED <<row, target, listed, liveOps>>
          /\ proof' = [proof EXCEPT ![v] = "passed"]
      BY <1>8 DEF PassVerification, RunAt
    <2>2. pc'[v] = "mark" /\ RowsAgree(v)'
      BY <1>0, <1>1, <2>1 DEF RowsAgree, Places
    <2> QED BY <1>0, <2>1, <2>2, ProofMoves DEF Places
  <1>9. CASE MarkSnapshotVerified(v)
    <2>1. /\ pc[v] = "mark" /\ Goto(v, "complete") /\ UNCHANGED <<row, proof, target, liveOps>>
          /\ target[v] \in DOMAIN listed /\ \E x : listed' = [listed EXCEPT ![target[v]] = x]
      BY <1>9 DEF MarkSnapshotVerified, RunAt
    <2>2. pc'[v] = "complete" /\ RowsAgree(v)' /\ proof[v] = "passed"
      BY <1>0, <1>1, <2>1 DEF RowsAgree, Places
    <2> QED BY <1>0, <2>1, <2>2, ProofMoves DEF Places
  <1>10. CASE VerificationFails(v)
    <2>1. /\ pc[v] \in {"restore", "check", "mark"} /\ Goto(v, "done") /\ UNCHANGED <<target, listed, liveOps>>
          /\ \/ v \in liveOps /\ row' = [row EXCEPT ![v] = "failed"] /\ proof' = [proof EXCEPT ![v] = "failed"]
             \/ v \notin liveOps /\ UNCHANGED <<row, proof>>
      BY <1>10 DEF VerificationFails, RunAt, FailRow, SetRun
    <2>2. pc'[v] = "done" /\ RowsAgree(v)'
      BY <1>0, <1>1, <2>1 DEF RowsAgree, Places
    <2> QED BY <1>0, <2>1, <2>2, ProofMoves DEF Places
  <1>11. CASE CompleteVerify(v)
    <2>1. /\ pc[v] = "complete" /\ Goto(v, "done") /\ UNCHANGED <<proof, target, listed, liveOps>>
          /\ row' = [row EXCEPT ![v] = "completed"]
      BY <1>11 DEF CompleteVerify, RunAt, SetRun
    <2>2. pc'[v] = "done" /\ RowsAgree(v)'
      BY <1>0, <1>1, <2>1 DEF RowsAgree, Places
    <2> QED BY <1>0, <2>1, <2>2, ProofMoves DEF Places
  <1>12. CASE CompleteVerifyFails(v)
    <2>1. pc[v] = "complete" /\ Goto(v, "done") /\ UNCHANGED <<row, proof, target, listed, liveOps>>
      BY <1>12 DEF CompleteVerifyFails, RunAt, records
    <2>2. pc'[v] = "done" /\ RowsAgree(v)'
      BY <1>0, <1>1, <2>1 DEF RowsAgree, Places
    <2> QED BY <1>0, <2>1, <2>2, ProofMoves DEF Places
  <1> QED BY <1>2, <1>3, <1>4, <1>5, <1>6, <1>7, <1>8, <1>9, <1>10, <1>11, <1>12 DEF VerifyStep

LEMMA VerifyInvStep == VerifyInv /\ [RunsNext]_runVars => VerifyInv'
PROOF
  <1> SUFFICES ASSUME VerifyInv, [RunsNext]_runVars PROVE VerifyInv'
    OBVIOUS
  <1>0. /\ pc \in [Op -> Places] /\ row \in [Op -> {Nothing, "running", "completed", "failed"}]
        /\ Verify \subseteq Op
    BY DEF VerifyInv, Op
  <1>1. ASSUME NEW c \in Capture, PlanCapture(c) \/ CaptureStep(c) PROVE VerifyInv'
    BY <1>1, CaptureAside
  <1>2. ASSUME NEW v \in Verify, SelectSnapshot(v) \/ VerifyStep(v) PROVE VerifyInv'
    BY <1>2, VerifyInStep
  <1>3. CASE PlanRetention \/ RetentionStep \/ \E o \in Op : ContextEnds(o)
    <2>1. UNCHANGED <<pc, row, proof, target>> /\ liveOps' \subseteq liveOps
      BY <1>3 DEF PlanRetention, RetentionStep, ProtectVerified, Forget, ForgetFails, PruneCut,
         DeleteRows, ContextEnds, records
    <2>2. \A s \in DOMAIN listed' : s \in DOMAIN listed /\ listed'[s] = listed[s]
      BY <1>3 DEF PlanRetention, RetentionStep, ProtectVerified, Forget, ForgetFails, PruneCut,
         DeleteRows, ContextEnds, records
    <2> QED BY <1>0, <2>1, <2>2, ProofAside
  <1>4. CASE \E a \in Writer : OperatorStart(a) \/ OperatorStop(a)
    BY <1>0, <1>4, ProofAside DEF OperatorStart, OperatorStop, records
  <1>5. CASE DaemonDies
    <2>1. /\ pc' = [o \in Op |-> IF pc[o] \in Over THEN pc[o] ELSE "dead"]
          /\ UNCHANGED <<row, proof, target, listed, liveOps>>
      BY <1>5 DEF DaemonDies, records
    <2>2. pc' \in [Op -> Places]
      BY <1>0, <2>1 DEF Places
    <2>3. Proven'
      BY <1>0, <2>1 DEF VerifyInv, Proven, Over
    <2>4. \A v \in Verify : RowsAgree(v)'
      BY <1>0, <2>1 DEF VerifyInv, RowsAgree, Over
    <2> QED BY <2>1, <2>2, <2>3, <2>4 DEF VerifyInv
  <1>6. CASE UNCHANGED runVars
    BY <1>0, <1>6, ProofAside DEF runVars, records
  <1> QED BY <1>1, <1>2, <1>3, <1>4, <1>5, <1>6 DEF RunsNext

-----------------------------------------------------------------------------
(* What backups promise.                                                    *)

\* runCaptureLocked and resumeCapture: whatever fails, whichever context ends and
\* whatever operators do beside it, a wanted writer that is down is still to be
\* resumed or its failed resume was reported, as long as the daemon lives; or its own
\* stop failed after it had taken it down.
THEOREM WritersComeBackHolds == RunsSpec => []WritersComeBack
PROOF
  <1>1. CapturesInv => WritersComeBack
    BY DEF CapturesInv, Back, WritersComeBack, Accounted
  <1> QED BY <1>1, RunsInit0, CapturesStep, PTL DEF RunsSpec

\* StopUnit and QuiesceWriter before restic: every snapshot holds what was written
\* down when its writers were down, except those that an operator started or whose
\* restart had been reported to fail.
THEOREM SnapshotsAreColdHolds == RunsSpec => []SnapshotsAreCold
PROOF
  <1>1. CapturesInv => SnapshotsAreCold
    BY DEF CapturesInv, Cold, SnapshotsAreCold
  <1> QED BY <1>1, RunsInit0, CapturesStep, PTL DEF RunsSpec

\* Verify, failVer and failRun: a snapshot marked verified has its proof, and the
\* rows of an answered verification tell the same, retention passes and captures beside.
THEOREM VerifiedIsProvenHolds == RunsSpec => []VerifiedIsProven
PROOF
  <1>1. VerifyInv => VerifiedIsProven
    BY DEF VerifyInv, Proven, RowsAgree, VerifiedIsProven, Verified, RunAt
  <1> QED BY <1>1, RunsInit0, VerifyInvStep, PTL DEF RunsSpec

=============================================================================
