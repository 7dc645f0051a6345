---------------------------- MODULE Setup_proofs ----------------------------
(***************************************************************************)
(* Proofs about the first-run setup: a failed node shows (SetupRun), the   *)
(* checklist (Checklist), the choice of an embedding model                 *)
(* (EmbeddingModels), the administrator's keys (AuthorizedKeys), and the   *)
(* first administrators of the products (SetupNodes).                      *)
(***************************************************************************)
EXTENDS SetupRun, Checklist, EmbeddingModels, AuthorizedKeys, SetupNodes, SequenceTheorems,
        TLAPS

-----------------------------------------------------------------------------
(* The run of the graph: the inductive invariant.                           *)

RunTypes ==
    /\ rows \in [Node -> Row] /\ result \in [Node -> Result]
    /\ phase \in Phase /\ lost \in Nat

\* A node that this run has begun or done has no failure of an earlier run in
\* its row any more.
BegunIsClean ==
    phase \in {"graph", "post"} =>
        \A n \in Node : result[n] \in {"running", "succeeded"} => rows[n].state # "failed"

\* The newest event of the setup tells of a failed row, if every event was stored.
FailedIsTold ==
    (lost = 0 /\ \E n \in Node : rows[n].state = "failed") => latest = "step_failed"

RunInv == RunTypes /\ BegunIsClean /\ FailedIsTold

\* What a node's step writes into the table and into the results.
LEMMA OneNode ==
    ASSUME RunTypes, NEW n \in Node, NEW s \in RowState, NEW r \in Result,
           Settled(n, r), rows' = rows \/ rows' = [rows EXCEPT ![n] = As(s)]
    PROVE  /\ rows' \in [Node -> Row] /\ result' \in [Node -> Result]
           /\ \A m \in Node \ {n} : rows'[m] = rows[m] /\ result'[m] = result[m]
           /\ result'[n] = r /\ rows'[n].state \in {s, rows[n].state}
           /\ rows' # rows => rows'[n].state = s
PROOF BY DEF RunTypes, Settled, As, Row

\* One node at a time: a step of a node keeps the invariant.
LEMMA NodeStepSafe ==
    ASSUME RunInv, NEW n \in Node, NodeStep(n)
    PROVE  RunInv'
PROOF
  <1> USE DEF RunInv, RunTypes, BegunIsClean, FailedIsTold
  <1>1. CASE StartNode(n)
    <2>1. /\ rows' = [rows EXCEPT ![n] = As("running")] /\ Settled(n, "running")
          /\ rows[n] # As("running") \/ rows[n].state = "running"
      BY <1>1 DEF StartNode, Upsert, As
    <2>2. rows'[n].state = "running"
      BY <2>1 DEF As
    <2> QED BY <1>1, <2>1, <2>2, OneNode DEF StartNode, counts, RowState, Result
  <1>2. CASE PassOver(n)
    <2>1. PICK r \in {"canceled", "skipped"} : Settled(n, r)
      BY <1>2 DEF PassOver
    <2> QED BY <1>2, <2>1 DEF PassOver, db, counts, Settled, Result
  <1>3. CASE NodeSucceeds(n)
    <2>1. Settled(n, "succeeded") /\ rows' \in {rows, [rows EXCEPT ![n] = As("succeeded")]}
      BY <1>3 DEF NodeSucceeds, Upsert
    <2>2. rows'[n].state # "failed"
      BY <1>3, <2>1 DEF NodeSucceeds, Returns, As
    <2> QED BY <1>3, <2>1, <2>2, OneNode DEF NodeSucceeds, Returns, counts, RowState, Result
  <1>4. CASE NodeWaits(n)
    <2>1. Settled(n, "waiting") /\ rows' \in {rows, [rows EXCEPT ![n] = As("waiting")]}
      BY <1>4 DEF NodeWaits, Upsert
    <2>2. UNCHANGED <<latest, phase, lost>>
      BY <1>4 DEF NodeWaits, counts
    <2>3. /\ rows' \in [Node -> Row] /\ result' \in [Node -> Result]
          /\ \A m \in Node \ {n} : rows'[m] = rows[m] /\ result'[m] = result[m]
          /\ result'[n] = "waiting" /\ rows'[n].state \in {"waiting", rows[n].state}
      BY <2>1, OneNode DEF RowState, Result
    <2> QED BY <2>2, <2>3
  <1>5. CASE NodeCanceled(n)
    <2>1. PICK r \in {"canceled", "failed"} : Settled(n, r)
      BY <1>5 DEF NodeCanceled
    <2>2. UNCHANGED <<latest, phase, lost>> /\ rows' = [rows EXCEPT ![n] = As("canceled")]
      BY <1>5 DEF NodeCanceled, counts
    <2>3. /\ rows' \in [Node -> Row] /\ result' \in [Node -> Result]
          /\ \A m \in Node \ {n} : rows'[m] = rows[m] /\ result'[m] = result[m]
          /\ result'[n] = r /\ rows'[n].state \in {"canceled", rows[n].state}
      BY <2>1, <2>2, OneNode DEF RowState, Result
    <2> QED BY <2>2, <2>3
  <1>6. CASE NodeFails(n)
    <2>1. Settled(n, "failed") /\ rows' = [rows EXCEPT ![n] = As("failed")]
      BY <1>6 DEF NodeFails, Upsert
    <2>2. lost' \in Nat /\ (lost' # 0 \/ latest' = "step_failed")
      BY <1>6 DEF NodeFails, EmitFailed, PublishFails
    <2> QED BY <1>6, <2>1, <2>2, OneNode DEF NodeFails, Returns, RowState, Result
  <1> QED BY <1>1, <1>2, <1>3, <1>4, <1>5, <1>6 DEF NodeStep

\* Every step of the setup keeps the invariant.
LEMMA RunStepSafe ==
    ASSUME RunInv, [Next]_vars
    PROVE  RunInv'
PROOF
  <1> USE DEF RunInv, RunTypes, BegunIsClean, FailedIsTold
  <1>1. CASE BeginGraph
    <2>1. rows' = rows \/ rows' = Fresh
      BY <1>1 DEF BeginGraph, ResetRows
    <2>2. Fresh \in [Node -> Row] /\ \A n \in Node : Fresh[n].state = "pending"
      BY DEF Fresh, Row, RowState
    <2> QED BY <1>1, <2>1, <2>2 DEF BeginGraph, counts, Result, Phase
  <1>2. CASE \E n \in Node : NodeStep(n)
    BY <1>2, NodeStepSafe
  <1>3. CASE GraphDone
    <2>1. \A n \in Node : rows'[n].state \in {"canceled", "blocked", rows[n].state}
      BY <1>3 DEF GraphDone, RecordSkipped, As, BlockedRow
    <2>2. rows' \in [Node -> Row]
      <3>1. \A n \in Node : As("canceled") \in Row /\ BlockedRow(n) \in Row
        BY DEF As, BlockedRow, Row, RowState, Culprits, Upstream
      <3> QED BY <1>3, <3>1 DEF GraphDone, RecordSkipped
    <2>3. /\ phase = "graph" /\ phase' = "post"
          /\ UNCHANGED <<latest, result, lost>>
      BY <1>3 DEF GraphDone, counts
    <2>4. BegunIsClean'
      <3> SUFFICES ASSUME NEW n \in Node, result[n] \in {"running", "succeeded"}
                   PROVE  rows'[n].state # "failed"
        BY <2>3
      <3> QED BY <2>1, <2>3
    <2> QED BY <2>1, <2>2, <2>3, <2>4 DEF Phase
  <1>4. CASE EndRun
    <2>1. phase = "post" /\ phase' = "idle" /\ UNCHANGED <<rows, result>>
      BY <1>4 DEF EndRun
    <2>2. lost' \in Nat /\ (lost' = 0 => lost = 0)
      BY <1>4 DEF EndRun, FinishSetupSuccess, PublishFails, Report
    <2>3. latest' = latest \/ AllSucceeded
      BY <1>4 DEF EndRun, Report
    <2>4. AllSucceeded => \A n \in Node : rows[n].state # "failed"
      BY <2>1 DEF AllSucceeded
    <2> QED BY <2>1, <2>2, <2>3, <2>4 DEF Phase
  <1>5. CASE RunAtStartup \/ Trigger
    BY <1>5 DEF RunAtStartup, Trigger, Reserve, db, counts, Phase
  <1>6. CASE Deadline
    BY <1>6 DEF Deadline, db
  <1>7. CASE Crash
    BY <1>7 DEF Crash, db, Result, Phase
  <1>8. CASE Restart \/ UNCHANGED vars
    BY <1>8 DEF Restart, vars, db, flight, counts
  <1> QED BY <1>1, <1>2, <1>3, <1>4, <1>5, <1>6, <1>7, <1>8 DEF Next, RunStep

\* "automatic_reconciliation" (setup_status.go): at rest, a failed row of the
\* table shows in the status, for every graph of bundles and every way the runs
\* are cut off, if no publication of an event was lost.
THEOREM FailureShowsHolds == Spec => []FailureShows
PROOF
  <1>1. Init => RunInv
    BY DEF Init, RunInv, RunTypes, BegunIsClean, FailedIsTold, Fresh, Row, RowState, Result, Phase
  <1>2. RunInv /\ [Next]_vars => RunInv'
    BY RunStepSafe
  <1>3. RunInv => FailureShows
    BY DEF RunInv, FailedIsTold, FailureShows, Check
  <1> QED BY <1>1, <1>2, <1>3, PTL DEF Spec

-----------------------------------------------------------------------------
(* The models: the inductive invariant.                                     *)

Fetching == {"download", "clear", "rename"}
ModelStep == {"idle", "verify", "write", "stop", "start"} \cup Fetching

\* What a call may have left to stage.
Todos == {<<>>, <<EnglishAlias>>, <<WorldwideAlias>>, <<EnglishAlias, WorldwideAlias>>}

\* The models of a choice that a call has found or put in their place.
StagedBy(p) ==
    EmbeddingWorkerConfigForChoice(stagers[p].choice) \ {stagers[p].todo[i] : i \in DOMAIN stagers[p].todo}

StagerForm == [step : ModelStep, choice : IndexChoices \cup {""}, todo : Todos, alone : BOOLEAN]

ModelTypes ==
    /\ indexChoice \in IndexChoices \cup {""}
    /\ stagers \in [Callers -> StagerForm]
    /\ \A p \in Callers : stagers[p].step \in Fetching => stagers[p].todo # <<>>

\* A call fetches a model that is not in its place, and no other call fetches it.
FetchesAlone(p) ==
    stagers[p].step \in Fetching =>
        /\ ModelOf(p) \notin staged
        /\ \A q \in Callers \ {p} : stagers[q].step \in Fetching => ModelOf(q) # ModelOf(p)

\* What a call no longer has to stage is in its place until it has written the
\* configuration.
HasStaged(p) ==
    /\ stagers[p].step \in {"verify", "write"} \cup Fetching => StagedBy(p) \subseteq staged
    /\ stagers[p].step = "write" => stagers[p].todo = <<>>

ModelsInv ==
    /\ ModelTypes
    /\ ~overlapped => /\ workerConfig \subseteq staged
                      /\ \A p \in Callers : FetchesAlone(p) /\ HasStaged(p)

\* The first of what is left to stage, and what is left after it.
LEMMA TodoShrinks ==
    ASSUME NEW t \in Todos, t # <<>>
    PROVE  /\ Tail(t) \in Todos
           /\ {t[i] : i \in DOMAIN t} = {Tail(t)[i] : i \in DOMAIN Tail(t)} \cup {Head(t)}
PROOF
  <1>1. CASE t = <<EnglishAlias>>
    <2>1. Tail(t) = <<>> /\ Head(t) = EnglishAlias
      BY <1>1
    <2>2. DOMAIN t = {1} /\ t[1] = EnglishAlias /\ DOMAIN Tail(t) = {}
      BY <1>1, <2>1
    <2> QED BY <2>1, <2>2 DEF Todos
  <1>2. CASE t = <<WorldwideAlias>>
    <2>1. Tail(t) = <<>> /\ Head(t) = WorldwideAlias
      BY <1>2
    <2>2. DOMAIN t = {1} /\ t[1] = WorldwideAlias /\ DOMAIN Tail(t) = {}
      BY <1>2, <2>1
    <2> QED BY <2>1, <2>2 DEF Todos
  <1>3. CASE t = <<EnglishAlias, WorldwideAlias>>
    <2>1. Tail(t) = <<WorldwideAlias>> /\ Head(t) = EnglishAlias
      BY <1>3
    <2>2. DOMAIN t = {1, 2} /\ t[1] = EnglishAlias /\ t[2] = WorldwideAlias
      BY <1>3
    <2>3. DOMAIN <<WorldwideAlias>> = {1} /\ <<WorldwideAlias>>[1] = WorldwideAlias
      OBVIOUS
    <2>4. DOMAIN Tail(t) = {1} /\ Tail(t)[1] = WorldwideAlias
      BY <2>1, <2>3
    <2> QED BY <2>1, <2>2, <2>4 DEF Todos
  <1> QED BY <1>1, <1>2, <1>3 DEF Todos

\* What a choice needs is what a call of it begins with.
LEMMA ChoiceToStage ==
    ASSUME NEW choice
    PROVE  /\ ToStage(choice) \in Todos
           /\ {ToStage(choice)[i] : i \in DOMAIN ToStage(choice)} = EmbeddingWorkerConfigForChoice(choice)
PROOF BY DEF ToStage, ChoiceModelAliases, EmbeddingWorkerConfigForChoice, ToSet, Todos

\* The parts of what a call keeps.
LEMMA CallParts ==
    ASSUME ModelTypes, NEW p \in Callers
    PROVE  DOMAIN stagers[p] = {"step", "choice", "todo", "alone"}
PROOF BY DEF ModelTypes, StagerForm

\* What a call has staged depends on its choice and on what it has left.
LEMMA StagedSame ==
    ASSUME NEW p \in Callers, stagers'[p].choice = stagers[p].choice, stagers'[p].todo = stagers[p].todo
    PROVE  StagedBy(p)' = StagedBy(p)
PROOF BY DEF StagedBy, EmbeddingWorkerConfigForChoice, ChoiceModelAliases

\* A call that is at rest.
LEMMA RestParts ==
    /\ AtRest \in StagerForm
    /\ AtRest.step = "idle" /\ "idle" \notin Fetching
PROOF
  <1>1. <<>> \in Todos
    BY DEF Todos
  <1> QED BY <1>1 DEF AtRest, StagerForm, ModelStep, Fetching

\* A step of one call.
LEMMA OneCall ==
    ASSUME ModelTypes, NEW p \in Callers, NEW call \in StagerForm, call.step \in Fetching => call.todo # <<>>,
           stagers' = [stagers EXCEPT ![p] = call], indexChoice' = indexChoice
    PROVE  ModelTypes' /\ stagers'[p] = call /\ \A q \in Callers \ {p} : stagers'[q] = stagers[q]
PROOF BY DEF ModelTypes

\* A change of one call that neither stages nor clears anything.
LEMMA CallMoves ==
    ASSUME ModelsInv, NEW p \in Callers, UNCHANGED <<staged, workerConfig>>, overlapped => overlapped',
           ModelTypes', \A q \in Callers \ {p} : stagers'[q] \in {stagers[q], [stagers[q] EXCEPT !.alone = FALSE]},
           ~overlapped' => FetchesAlone(p)' /\ HasStaged(p)'
    PROVE  ModelsInv'
PROOF
  <1> SUFFICES ASSUME ~overlapped', NEW q \in Callers \ {p}
               PROVE  FetchesAlone(q)' /\ HasStaged(q)'
    BY DEF ModelsInv
  <1>1. FetchesAlone(p)' /\ FetchesAlone(q) /\ HasStaged(q) /\ ModelTypes
    BY DEF ModelsInv
  <1>2. \A r \in Callers \ {p} : /\ stagers'[r].step = stagers[r].step /\ stagers'[r].todo = stagers[r].todo
                                 /\ stagers'[r].choice = stagers[r].choice
    <2> SUFFICES ASSUME NEW r \in Callers \ {p}
                 PROVE  /\ stagers'[r].step = stagers[r].step /\ stagers'[r].todo = stagers[r].todo
                        /\ stagers'[r].choice = stagers[r].choice
      OBVIOUS
    <2>1. DOMAIN stagers[r] = {"step", "choice", "todo", "alone"}
      BY <1>1, CallParts
    <2>2. stagers'[r] \in {stagers[r], [stagers[r] EXCEPT !.alone = FALSE]}
      OBVIOUS
    <2> QED BY <2>1, <2>2
  <1>3. HasStaged(q)'
    BY <1>1, <1>2 DEF HasStaged, StagedBy, EmbeddingWorkerConfigForChoice, ChoiceModelAliases
  <1>4. FetchesAlone(q)'
    BY <1>1, <1>2 DEF FetchesAlone, ModelOf
  <1> QED BY <1>3, <1>4

\* Every step of the requests, the setup and the worker keeps the invariant.
LEMMA ModelsStepSafe ==
    ASSUME ModelsInv, [ModelsNext]_modelVars
    PROVE  ModelsInv'
PROOF
  <1> USE DEF ModelAt
  <1>0. ModelTypes
    BY DEF ModelsInv
  <1>1. ASSUME NEW choice \in IndexChoices, SetIndexSetupChoice(choice)
        PROVE  ModelsInv'
    <2>1. /\ stagers'["dashboard"] = [AtRest EXCEPT !.step = "verify", !.choice = choice, !.todo = ToStage(choice)]
          /\ stagers'["setup"] = [stagers["setup"] EXCEPT !.alone = FALSE]
          /\ ModelTypes'
      <3>1. DOMAIN stagers = Callers /\ stagers["setup"] \in StagerForm /\ ToStage(choice) \in Todos
        BY <1>0, ChoiceToStage DEF ModelTypes, Callers
      <3>2. /\ stagers'["dashboard"] = [AtRest EXCEPT !.step = "verify", !.choice = choice, !.todo = ToStage(choice)]
            /\ stagers'["setup"] = [stagers["setup"] EXCEPT !.alone = FALSE]
            /\ DOMAIN stagers' = Callers /\ indexChoice' = choice /\ stagers' = [c \in Callers |-> stagers'[c]]
        BY <1>1, <3>1 DEF SetIndexSetupChoice, Callers
      <3>3. /\ [AtRest EXCEPT !.step = "verify", !.choice = choice, !.todo = ToStage(choice)] \in StagerForm
            /\ [AtRest EXCEPT !.step = "verify", !.choice = choice, !.todo = ToStage(choice)].step = "verify"
        BY <3>1 DEF AtRest, StagerForm, ModelStep
      <3>4. /\ [stagers["setup"] EXCEPT !.alone = FALSE] \in StagerForm
            /\ [stagers["setup"] EXCEPT !.alone = FALSE].step = stagers["setup"].step
            /\ [stagers["setup"] EXCEPT !.alone = FALSE].todo = stagers["setup"].todo
        BY <3>1 DEF StagerForm
      <3>5. stagers["setup"].step \in Fetching => stagers["setup"].todo # <<>>
        BY <1>0 DEF ModelTypes, Callers
      <3>6. \A c \in Callers : /\ stagers'[c] \in StagerForm
                               /\ stagers'[c].step \in Fetching => stagers'[c].todo # <<>>
        BY <3>2, <3>3, <3>4, <3>5 DEF Callers, Fetching
      <3> QED BY <3>2, <3>6 DEF ModelTypes
    <2>2. StagedBy("dashboard")' = {}
      BY <2>1, ChoiceToStage DEF StagedBy, AtRest
    <2>3. FetchesAlone("dashboard")' /\ HasStaged("dashboard")'
      BY <2>1, <2>2 DEF FetchesAlone, HasStaged, AtRest, Fetching
    <2> QED BY <1>1, <2>1, <2>3, CallMoves DEF SetIndexSetupChoice, Callers
  <1>2. CASE EnsureWorkerConfig
    <2>1. /\ stagers'["setup"] = [step |-> "verify", choice |-> indexChoice, todo |-> ToStage(indexChoice),
                                  alone |-> ModelAt("dashboard", "idle")]
          /\ stagers'["dashboard"] = stagers["dashboard"]
      BY <1>0, <1>2 DEF EnsureWorkerConfig, ModelTypes, Callers
    <2> DEFINE call == [step |-> "verify", choice |-> indexChoice, todo |-> ToStage(indexChoice),
                        alone |-> ModelAt("dashboard", "idle")]
    <2>2. ModelTypes'
      <3>1. call \in StagerForm /\ call.step \notin Fetching
        BY <1>0, ChoiceToStage DEF ModelTypes, StagerForm, ModelStep, Fetching
      <3>2. stagers' = [stagers EXCEPT !["setup"] = call] /\ indexChoice' = indexChoice
        BY <1>2 DEF EnsureWorkerConfig
      <3> HIDE DEF call
      <3> QED BY <1>0, <3>1, <3>2, OneCall DEF Callers
    <2>3. StagedBy("setup")' = {}
      BY <2>1, ChoiceToStage DEF StagedBy
    <2>4. FetchesAlone("setup")' /\ HasStaged("setup")'
      BY <2>1, <2>3 DEF FetchesAlone, HasStaged, Fetching
    <2> QED BY <1>2, <2>1, <2>2, <2>4, CallMoves DEF EnsureWorkerConfig, Callers
  <1>3. ASSUME NEW p \in Callers, verifyStagedArtifact(p)
        PROVE  ModelsInv'
    <2>1. stagers[p].todo \in Todos /\ stagers[p].step = "verify"
      BY <1>0, <1>3 DEF verifyStagedArtifact, ModelTypes, StagerForm
    <2>2. ~overlapped => StagedBy(p) \subseteq staged
      BY <2>1 DEF ModelsInv, HasStaged
    <2>3. UNCHANGED <<staged, workerConfig, indexChoice>> /\ (overlapped => overlapped')
      BY <1>3 DEF verifyStagedArtifact
    <2>4. CASE stagers[p].todo = <<>>
      <3>1. ModelGoes(p, "write")
        BY <1>3, <2>4 DEF verifyStagedArtifact
      <3>2. /\ ModelTypes' /\ \A q \in Callers \ {p} : stagers'[q] = stagers[q]
            /\ stagers'[p] = [stagers[p] EXCEPT !.step = "write"]
        <4>1. [stagers[p] EXCEPT !.step = "write"] \in StagerForm /\ [stagers[p] EXCEPT !.step = "write"].step = "write"
              /\ [stagers[p] EXCEPT !.step = "write"].todo = stagers[p].todo
          BY <1>0 DEF ModelTypes, StagerForm, ModelStep, Fetching
        <4>2. stagers' = [stagers EXCEPT ![p] = [stagers[p] EXCEPT !.step = "write"]]
          BY <1>0, <3>1 DEF ModelGoes, ModelTypes
        <4> QED BY <1>0, <2>3, <4>1, <4>2, OneCall DEF Fetching
      <3>3. FetchesAlone(p)' /\ (~overlapped' => HasStaged(p)')
        <4>1. /\ stagers'[p].step = "write" /\ stagers'[p].todo = stagers[p].todo
              /\ stagers'[p].choice = stagers[p].choice
          BY <1>0, <3>2, CallParts
        <4> QED BY <2>2, <2>3, <2>4, <4>1, StagedSame DEF FetchesAlone, HasStaged, Fetching
      <3> QED BY <2>3, <3>2, <3>3, CallMoves
    <2>5. CASE stagers[p].todo # <<>> /\ ModelOf(p) \in staged
      <3>1. stagers' = [stagers EXCEPT ![p].todo = Tail(stagers[p].todo)]
        BY <1>3, <2>5 DEF verifyStagedArtifact
      <3>2. /\ ModelTypes' /\ \A q \in Callers \ {p} : stagers'[q] = stagers[q]
            /\ stagers'[p] = [stagers[p] EXCEPT !.todo = Tail(stagers[p].todo)]
        <4> DEFINE call == [stagers[p] EXCEPT !.todo = Tail(stagers[p].todo)]
        <4>1. call \in StagerForm /\ call.step = "verify"
          BY <1>0, <2>1, <2>5, TodoShrinks DEF ModelTypes, StagerForm
        <4>2. stagers' = [stagers EXCEPT ![p] = call]
          BY <1>0, <3>1 DEF ModelTypes
        <4>3. call = [stagers[p] EXCEPT !.todo = Tail(stagers[p].todo)]
          OBVIOUS
        <4> HIDE DEF call
        <4>4. ModelTypes' /\ stagers'[p] = call /\ \A q \in Callers \ {p} : stagers'[q] = stagers[q]
          BY <1>0, <2>3, <4>1, <4>2, OneCall DEF Fetching
        <4> QED BY <4>3, <4>4
      <3>3. /\ stagers'[p].step = "verify" /\ stagers'[p].todo = Tail(stagers[p].todo)
            /\ stagers'[p].choice = stagers[p].choice
        BY <1>0, <2>1, <3>2, CallParts
      <3>4. StagedBy(p)' \subseteq StagedBy(p) \cup {ModelOf(p)}
        <4> DEFINE t == stagers[p].todo
        <4>1. {t[i] : i \in DOMAIN t} = {Tail(t)[i] : i \in DOMAIN Tail(t)} \cup {Head(t)}
          BY <2>1, <2>5, TodoShrinks
        <4>2. EmbeddingWorkerConfigForChoice(stagers[p].choice)' = EmbeddingWorkerConfigForChoice(stagers[p].choice)
          BY <3>3 DEF EmbeddingWorkerConfigForChoice, ChoiceModelAliases
        <4> QED BY <3>3, <4>1, <4>2 DEF StagedBy, ModelOf
      <3>5. FetchesAlone(p)' /\ (~overlapped' => HasStaged(p)')
        BY <2>2, <2>3, <2>5, <3>3, <3>4 DEF FetchesAlone, HasStaged, Fetching
      <3> QED BY <2>3, <3>2, <3>5, CallMoves
    <2>6. CASE stagers[p].todo # <<>> /\ ModelOf(p) \notin staged
      <3>1. ModelGoes(p, "download")
        BY <1>3, <2>6 DEF verifyStagedArtifact
      <3>2. /\ ModelTypes' /\ \A q \in Callers \ {p} : stagers'[q] = stagers[q]
            /\ stagers'[p] = [stagers[p] EXCEPT !.step = "download"]
        <4>1. [stagers[p] EXCEPT !.step = "download"] \in StagerForm /\ [stagers[p] EXCEPT !.step = "download"].step = "download"
              /\ [stagers[p] EXCEPT !.step = "download"].todo = stagers[p].todo
          BY <1>0 DEF ModelTypes, StagerForm, ModelStep, Fetching
        <4>2. stagers' = [stagers EXCEPT ![p] = [stagers[p] EXCEPT !.step = "download"]]
          BY <1>0, <3>1 DEF ModelGoes, ModelTypes
        <4> QED BY <1>0, <2>3, <2>6, <4>1, <4>2, OneCall DEF Fetching
      <3>3. /\ stagers'[p].step = "download" /\ stagers'[p].todo = stagers[p].todo
            /\ stagers'[p].choice = stagers[p].choice
        BY <1>0, <2>1, <3>2, CallParts
      <3>4. ~overlapped' => \A q \in Callers \ {p} : stagers[q].step \in Fetching => ModelOf(q) # ModelOf(p)
        BY <1>3, <2>6 DEF verifyStagedArtifact, Fetching
      <3>5. ~overlapped' => FetchesAlone(p)'
        BY <2>3, <2>6, <3>2, <3>3, <3>4 DEF FetchesAlone, ModelOf
      <3>6. ~overlapped' => HasStaged(p)'
        BY <2>2, <2>3, <3>3, StagedSame DEF HasStaged
      <3> QED BY <2>3, <3>2, <3>5, <3>6, CallMoves
    <2> QED BY <2>4, <2>5, <2>6
  <1>4. ASSUME NEW p \in Callers, downloadPinnedFiles(p)
        PROVE  ModelsInv'
    <2>1. /\ ModelTypes' /\ \A q \in Callers \ {p} : stagers'[q] = stagers[q]
          /\ stagers'[p] = [stagers[p] EXCEPT !.step = "clear"] /\ stagers[p].step = "download"
      BY <1>0, <1>4 DEF downloadPinnedFiles, ModelGoes, ModelTypes, StagerForm, ModelStep, Fetching
    <2>2. /\ stagers'[p].step = "clear" /\ stagers'[p].todo = stagers[p].todo
          /\ stagers'[p].choice = stagers[p].choice
      BY <1>0, <2>1, CallParts
    <2>3. ~overlapped' => FetchesAlone(p)' /\ HasStaged(p)'
      BY <1>4, <2>1, <2>2, StagedSame DEF downloadPinnedFiles, ModelsInv, FetchesAlone, HasStaged,
         Fetching, ModelOf
    <2> QED BY <1>4, <2>1, <2>3, CallMoves DEF downloadPinnedFiles
  <1>5. ASSUME NEW p \in Callers, ClearDestination(p)
        PROVE  ModelsInv'
    <2>1. /\ ModelTypes' /\ \A q \in Callers \ {p} : stagers'[q] = stagers[q]
          /\ stagers'[p] = [stagers[p] EXCEPT !.step = "rename"] /\ stagers[p].step = "clear"
      BY <1>0, <1>5 DEF ClearDestination, ModelGoes, ModelTypes, StagerForm, ModelStep, Fetching
    <2>2. /\ stagers'[p].step = "rename" /\ stagers'[p].todo = stagers[p].todo
          /\ stagers'[p].choice = stagers[p].choice
      BY <1>0, <2>1, CallParts
    <2>3. ~overlapped => staged' = staged
      BY <1>5, <2>1 DEF ClearDestination, ModelsInv, FetchesAlone, Fetching
    <2>4. ASSUME ~overlapped'
          PROVE  FetchesAlone(p)' /\ HasStaged(p)'
      <3>1. FetchesAlone(p) /\ HasStaged(p) /\ staged' = staged
        BY <1>5, <2>3, <2>4 DEF ClearDestination, ModelsInv
      <3>2. HasStaged(p)'
        BY <2>1, <2>2, <3>1, StagedSame DEF HasStaged, Fetching
      <3>3. FetchesAlone(p)'
        BY <2>1, <2>2, <3>1 DEF FetchesAlone, Fetching, ModelOf
      <3> QED BY <3>2, <3>3
    <2>5. CASE overlapped
      BY <1>5, <2>1, <2>5 DEF ClearDestination, ModelsInv
    <2> QED BY <1>5, <2>1, <2>3, <2>4, <2>5, CallMoves DEF ClearDestination
  <1>6. ASSUME NEW p \in Callers, InstallStaged(p)
        PROVE  ModelsInv'
    <2> DEFINE t == stagers[p].todo
    <2>0. UNCHANGED <<indexChoice, workerConfig, overlapped>> /\ staged' = staged \cup {ModelOf(p)}
      BY <1>6 DEF InstallStaged
    <2>1. /\ stagers' = [stagers EXCEPT ![p] = [stagers[p] EXCEPT !.todo = Tail(t), !.step = "verify"]]
          /\ stagers[p].step = "rename" /\ stagers[p].step \in Fetching /\ t \in Todos
      BY <1>0, <1>6 DEF InstallStaged, ModelTypes, StagerForm, Fetching
    <2>5. /\ Tail(t) \in Todos /\ ModelTypes'
          /\ {t[i] : i \in DOMAIN t} = {Tail(t)[i] : i \in DOMAIN Tail(t)} \cup {Head(t)}
      <3>1. t # <<>>
        BY <1>0, <2>1 DEF ModelTypes
      <3>2. /\ Tail(t) \in Todos
            /\ {t[i] : i \in DOMAIN t} = {Tail(t)[i] : i \in DOMAIN Tail(t)} \cup {Head(t)}
        BY <2>1, <3>1, TodoShrinks
      <3> QED BY <1>0, <2>0, <2>1, <3>2 DEF ModelTypes, StagerForm, ModelStep, Fetching
    <2>2. CASE overlapped
      <3> QED BY <2>0, <2>2, <2>5 DEF ModelsInv
    <2>3. CASE ~overlapped
      <3>1. \A q \in Callers : FetchesAlone(q) /\ HasStaged(q)
        BY <2>3 DEF ModelsInv
      <3>3. /\ stagers'[p].step = "verify" /\ stagers'[p].todo = Tail(t)
            /\ stagers'[p].choice = stagers[p].choice /\ \A q \in Callers \ {p} : stagers'[q] = stagers[q]
        BY <1>0, <2>1, CallParts DEF ModelTypes
      <3>5. HasStaged(p)' /\ FetchesAlone(p)'
        <4>1. EmbeddingWorkerConfigForChoice(stagers[p].choice)' = EmbeddingWorkerConfigForChoice(stagers[p].choice)
          BY <3>3 DEF EmbeddingWorkerConfigForChoice, ChoiceModelAliases
        <4>2. StagedBy(p)' \subseteq StagedBy(p) \cup {ModelOf(p)}
          BY <2>5, <3>3, <4>1 DEF StagedBy, ModelOf
        <4>3. StagedBy(p) \subseteq staged
          BY <2>1, <3>1 DEF HasStaged
        <4> QED BY <2>0, <3>3, <4>2, <4>3 DEF HasStaged, FetchesAlone, Fetching
      <3>6. ASSUME NEW q \in Callers \ {p}
            PROVE  HasStaged(q)' /\ FetchesAlone(q)'
        <4>1. stagers'[q] = stagers[q] /\ stagers'[p].step \notin Fetching
          BY <3>3 DEF Fetching
        <4>2. HasStaged(q)'
          BY <2>0, <3>1, <4>1, StagedSame DEF HasStaged
        <4>3. FetchesAlone(q)'
          BY <2>0, <2>1, <3>1, <3>3, <4>1 DEF FetchesAlone, ModelOf
        <4> QED BY <4>2, <4>3
      <3> QED BY <2>0, <2>3, <2>5, <3>5, <3>6 DEF ModelsInv
    <2> QED BY <2>2, <2>3
  <1>7. ASSUME NEW p \in Callers, WriteEmbeddingWorkerConfig(p)
        PROVE  ModelsInv'
    <2> DEFINE content == EmbeddingWorkerConfigForChoice(stagers[p].choice)
    <2>0. UNCHANGED <<indexChoice, staged, overlapped>> /\ workerConfig' = content /\ stagers[p].step = "write"
      BY <1>7 DEF WriteEmbeddingWorkerConfig
    <2>1. stagers' \in {[stagers EXCEPT ![p] = AtRest], [stagers EXCEPT ![p] = [stagers[p] EXCEPT !.step = "stop"]]}
      BY <1>7 DEF WriteEmbeddingWorkerConfig
    <2>2. /\ ModelTypes' /\ \A q \in Callers \ {p} : stagers'[q] = stagers[q]
          /\ stagers'[p] \in {AtRest, [stagers[p] EXCEPT !.step = "stop"]}
      <3>1. [stagers[p] EXCEPT !.step = "stop"] \in StagerForm /\ [stagers[p] EXCEPT !.step = "stop"].step = "stop"
        BY <1>0 DEF ModelTypes, StagerForm, ModelStep
      <3> QED BY <1>0, <2>0, <2>1, <3>1, RestParts, OneCall DEF Fetching
    <2>3. stagers'[p].step \in {"idle", "stop"}
      BY <1>0, <2>2, CallParts, RestParts
    <2>4. ~overlapped => content \subseteq staged
      <3>1. ~overlapped => /\ StagedBy(p) \subseteq staged /\ stagers[p].todo = <<>>
        BY <2>0 DEF ModelsInv, HasStaged
      <3> QED BY <3>1 DEF StagedBy
    <2>5. ASSUME ~overlapped, NEW q \in Callers
          PROVE  HasStaged(q)' /\ FetchesAlone(q)'
      <3>1. CASE q = p
        BY <2>3, <3>1 DEF HasStaged, FetchesAlone, Fetching
      <3>2. CASE q # p
        <4>1. stagers'[q] = stagers[q] /\ stagers'[p].step \notin Fetching /\ HasStaged(q) /\ FetchesAlone(q)
          BY <2>2, <2>3, <2>5, <3>2 DEF Fetching, ModelsInv
        <4>2. HasStaged(q)'
          BY <2>0, <4>1, StagedSame DEF HasStaged
        <4>3. FetchesAlone(q)'
          BY <2>0, <2>2, <4>1 DEF FetchesAlone, ModelOf
        <4> QED BY <4>2, <4>3
      <3> QED BY <3>1, <3>2
    <2> QED BY <2>0, <2>2, <2>4, <2>5 DEF ModelsInv
  <1>8. ASSUME NEW p \in Callers, StopWorker(p) \/ StartWorker(p) \/ ModelCallFails(p)
        PROVE  ModelsInv'
    <2>0. UNCHANGED <<indexChoice, staged, workerConfig, overlapped>>
      BY <1>8 DEF StopWorker, StartWorker, ModelCallFails
    <2>1. stagers' \in {[stagers EXCEPT ![p] = AtRest], [stagers EXCEPT ![p] = [stagers[p] EXCEPT !.step = "start"]]}
      BY <1>8 DEF StopWorker, StartWorker, ModelCallFails, ModelGoes
    <2>2. /\ ModelTypes' /\ \A q \in Callers \ {p} : stagers'[q] = stagers[q]
          /\ stagers'[p] \in {AtRest, [stagers[p] EXCEPT !.step = "start"]}
      <3>1. [stagers[p] EXCEPT !.step = "start"] \in StagerForm /\ [stagers[p] EXCEPT !.step = "start"].step = "start"
        BY <1>0 DEF ModelTypes, StagerForm, ModelStep
      <3> QED BY <1>0, <2>0, <2>1, <3>1, RestParts, OneCall DEF Fetching
    <2>3. stagers'[p].step \in {"idle", "start"}
      BY <1>0, <2>2, CallParts, RestParts
    <2> QED BY <2>0, <2>2, <2>3, CallMoves DEF HasStaged, FetchesAlone, Fetching
  <1>9. CASE ModelCrash
    <2>1. /\ UNCHANGED <<indexChoice, staged, workerConfig, overlapped>>
          /\ \A p \in Callers : stagers'[p].step = "idle"
      BY <1>9, RestParts DEF ModelCrash
    <2>2. ModelTypes'
      BY <1>0, <1>9, RestParts DEF ModelCrash, ModelTypes
    <2> QED BY <2>1, <2>2 DEF ModelsInv, HasStaged, FetchesAlone, Fetching
  <1>10. CASE UNCHANGED modelVars
    <2>1. UNCHANGED <<indexChoice, staged, workerConfig, overlapped, stagers>>
      BY <1>10 DEF modelVars
    <2> QED BY <2>1 DEF ModelsInv, ModelTypes, HasStaged, FetchesAlone, StagedBy, ModelOf,
               EmbeddingWorkerConfigForChoice, ChoiceModelAliases
  <1> QED BY <1>1, <1>2, <1>3, <1>4, <1>5, <1>6, <1>7, <1>8, <1>9, <1>10 DEF ModelsNext

\* "never half-configured" (fetch.go, knowledge_ops.go): for every pair of models, through
\* choices made during a download, failures and restarts, the worker's configuration names
\* only models in their place, unless two calls were staging one model at once.
THEOREM NeverHalfConfiguredHolds == ModelsSpec => []NeverHalfConfigured
PROOF
  <1>1. ModelsInit => ModelsInv
    BY RestParts DEF ModelsInit, ModelsInv, ModelTypes, HasStaged, FetchesAlone, Fetching
  <1>2. ModelsInv /\ [ModelsNext]_modelVars => ModelsInv'
    BY ModelsStepSafe
  <1>3. ModelsInv => NeverHalfConfigured
    BY DEF ModelsInv, NeverHalfConfigured
  <1> QED BY <1>1, <1>2, <1>3, PTL DEF ModelsSpec

-----------------------------------------------------------------------------
(* The checklist: the inductive invariant.                                  *)

\* The check that looks at a part of the host, by its place and its name.
PlaceOf(f) ==
    CASE f = "restore" -> 1 [] f = "ssh_keys" -> 2 [] f \in {"domain", "tailscale"} -> 3 [] f = "token" -> 4
      [] f = "tunnel" -> 5 [] f = "dashboard" -> 6 [] f \in {"native", "container"} -> 7
      [] f = "technitium" -> 8 [] f = "passkeys" -> 9 [] f = "choice" -> 10 [] f = "verified" -> 11
      [] f = "restored" -> 12 [] f = "kit" -> 13 [] f = "storage" -> 14 [] f = "repositories" -> 15
      [] f = "woodpecker" -> 18 [] f = "run" -> 19 [] f = "rejected" -> 20
NameOf(f) ==
    CASE f = "restore" -> "restore" [] f = "ssh_keys" -> "ssh_keys" [] f = "tunnel" -> "tunnel"
      [] f = "dashboard" -> "dashboard_dns" [] f \in {"native", "container"} -> "core_apps"
      [] f = "technitium" -> "technitium_dns" [] f = "passkeys" -> "admin_passkeys"
      [] f = "choice" -> "knowledge_index_setup" [] f = "verified" -> "recovery_tested"
      [] f = "restored" -> "restore_tested" [] f = "kit" -> "recovery_key"
      [] f = "storage" -> "storage_configured" [] f = "repositories" -> "backups_configured"
      [] f = "tailscale" -> "tailscale" [] f = "woodpecker" -> "woodpecker_connection"
      [] f = "run" -> "automatic_reconciliation" [] OTHER -> "cloudflare_dns"

Flagged(name) == \E s \in {"ok", "pending", "failed", "skipped"} : <<name, s>> \in reply.checks /\ CallsForAttention(name, s)

\* What has been read of a part of the host that was not as it should be.
Noticed(f) ==
    CASE f = "domain" -> reply.sentinel
      [] f = "token" -> ~reply.token
      [] f = "tailscale" -> ~reply.tailscale /\ (reply.at > 17 => Flagged("tailscale"))
      [] f = "rejected" -> Flagged("cloudflare_dns")
      [] OTHER -> Flagged(NameOf(f))

ReplyTypes ==
    reply \in [at : 0 .. 21, checks : {reply.checks}, sentinel : BOOLEAN, tailscale : BOOLEAN, token : BOOLEAN,
              state : {reply.state}, unmet : SUBSET Fact]

FactTypes == facts = [f \in Fact |-> facts[f]] /\ \A f \in Fact : facts[f] \in Finds[f]

\* What was missing all along is missing now; a check that has looked at it since
\* has said so.
ChecklistInv ==
    /\ ReplyTypes /\ FactTypes
    /\ \A f \in reply.unmet : Unmet(f)
    /\ \A f \in reply.unmet : reply.at > PlaceOf(f) => Noticed(f)
    /\ reply.at \in 5 .. 20 => \E s \in {"ok", "pending"} : <<"cloudflare_dns", s>> \in reply.checks
    /\ reply.at # 0 => reply.state = ""
    /\ reply.state = "complete" => reply.unmet = {}

\* The checks by their place.
LEMMA ChecksByPlace ==
    /\ DOMAIN CheckOf = 1 .. 19 /\ Len(CheckOf) = 19
    /\ CheckOf[1] = <<"restore", RestoreCheck>> /\ CheckOf[2] = <<"ssh_keys", SSHKeysCheck>>
    /\ CheckOf[3] = <<"domain", DomainCheck>> /\ CheckOf[4] = <<"cloudflare_dns", CloudflareCheck>>
    /\ CheckOf[5] = <<"tunnel", TunnelCheck>> /\ CheckOf[6] = <<"dashboard_dns", DashboardCheck>>
    /\ CheckOf[7] = <<"core_apps", CoreAppsCheck>> /\ CheckOf[8] = <<"technitium_dns", TechnitiumCheck>>
    /\ CheckOf[9] = <<"admin_passkeys", PasskeysCheck>>
    /\ CheckOf[10] = <<"knowledge_index_setup", ChoiceCheck>>
    /\ CheckOf[11] = <<"recovery_tested", VerifiedCheck>> /\ CheckOf[12] = <<"restore_tested", RestoreTestedCheck>>
    /\ CheckOf[13] = <<"recovery_key", RecoveryKeyCheck>> /\ CheckOf[14] = <<"storage_configured", StorageCheck>>
    /\ CheckOf[15] = <<"backups_configured", BackupsCheck>> /\ CheckOf[16] = <<"backups_offsite", OffsiteCheck>>
    /\ CheckOf[17] = <<"tailscale", TailscaleCheck>> /\ CheckOf[18] = <<"woodpecker_connection", WoodpeckerCheck>>
    /\ CheckOf[19] = <<"automatic_reconciliation", AutomaticReconciliationCheck>>
PROOF BY DEF CheckOf

Status == {"ok", "pending", "failed", "skipped"}
ByCheck == Fact \ {"domain", "token", "tailscale", "rejected"}

LEMMA FactNames ==
    Fact = {"restore", "ssh_keys", "domain", "token", "rejected", "tunnel", "dashboard", "native", "container",
            "technitium", "passkeys", "choice", "verified", "restored", "kit", "storage", "repositories",
            "tailscale", "woodpecker", "run"}
PROOF BY DEF Fact, Finds

\* A check that finds something missing says so.
LEMMA CheckTells ==
    ASSUME FactTypes, NEW f \in ByCheck, Unmet(f)
    PROVE  \E s \in Status : CheckOf[PlaceOf(f)] = <<NameOf(f), s>> /\ CallsForAttention(NameOf(f), s)
PROOF
  <1> USE ChecksByPlace DEF Status, Unmet, AllDone, Okay
  <1>1. CASE f = "restore"
    BY <1>1 DEF PlaceOf, NameOf, RestoreCheck, CallsForAttention
  <1>2. CASE f = "ssh_keys"
    BY <1>2 DEF PlaceOf, NameOf, SSHKeysCheck, CallsForAttention
  <1>3. CASE f = "tunnel"
    BY <1>3 DEF PlaceOf, NameOf, TunnelCheck, CallsForAttention
  <1>4. CASE f = "dashboard"
    BY <1>4 DEF PlaceOf, NameOf, DashboardCheck, CallsForAttention
  <1>5. CASE f \in {"native", "container"}
    <2>1. ClassifyCoreApp(f) \in {"pending", "failed"}
      BY <1>5 DEF ClassifyCoreApp
    <2>2. CoreAppsCheck \in {"pending", "failed"}
      BY <1>5, <2>1 DEF CoreAppsCheck
    <2> QED BY <1>5, <2>2 DEF PlaceOf, NameOf, CallsForAttention
  <1>6. CASE f = "technitium"
    BY <1>6 DEF PlaceOf, NameOf, TechnitiumCheck, CallsForAttention
  <1>7. CASE f = "passkeys"
    <2>1. facts.passkeys \in {0, 1, 2}
      BY FactNames DEF FactTypes, Finds
    <2> QED BY <1>7, <2>1 DEF PlaceOf, NameOf, PasskeysCheck, CallsForAttention
  <1>8. CASE f = "choice"
    BY <1>8 DEF PlaceOf, NameOf, ChoiceCheck, CallsForAttention
  <1>9. CASE f \in {"verified", "restored", "kit"}
    <2>1. CASE f = "verified"
      BY <2>1 DEF PlaceOf, NameOf, VerifiedCheck, CallsForAttention
    <2>2. CASE f = "restored"
      BY <2>2 DEF PlaceOf, NameOf, RestoreTestedCheck, CallsForAttention
    <2>3. CASE f = "kit"
      BY <2>3 DEF PlaceOf, NameOf, RecoveryKeyCheck, CallsForAttention
    <2> QED BY <1>9, <2>1, <2>2, <2>3
  <1>10. CASE f = "storage"
    BY <1>10 DEF PlaceOf, NameOf, StorageCheck, CallsForAttention
  <1>11. CASE f = "repositories"
    BY <1>11 DEF PlaceOf, NameOf, BackupsCheck, CallsForAttention
  <1>12. CASE f = "woodpecker"
    BY <1>12 DEF PlaceOf, NameOf, WoodpeckerCheck, CallsForAttention
  <1>13. CASE f = "run"
    BY <1>13 DEF PlaceOf, NameOf, AutomaticReconciliationCheck, CallsForAttention
  <1> QED BY <1>1, <1>2, <1>3, <1>4, <1>5, <1>6, <1>7, <1>8, <1>9, <1>10, <1>11, <1>12, <1>13,
             FactNames DEF ByCheck

\* What making the check at a place leaves of the answer.
LEMMA ReadsOne ==
    ASSUME ChecklistInv, MakeCheck, NEW k, k = reply.at
    PROVE  /\ k \in 1 .. 19 /\ facts' = facts /\ ReplyTypes' /\ reply'.at = k + 1
           /\ reply'.unmet = reply.unmet /\ reply'.state = reply.state
           /\ reply'.checks = IF CheckOf[k][2] = "none" THEN reply.checks ELSE reply.checks \cup {CheckOf[k]}
           /\ k # 3 => reply'.sentinel = reply.sentinel /\ reply'.tailscale = reply.tailscale
           /\ k # 4 => reply'.token = reply.token
           /\ k = 3 => /\ reply'.sentinel <=> DomainCheck # "ok"
                       /\ reply'.tailscale <=> facts.tailscale = "enrolled"
           /\ k = 4 => (reply'.token <=> CloudflareCheck = "ok")
PROOF
  <1> DEFINE all == IF CheckOf[k][2] = "none" THEN reply.checks ELSE reply.checks \cup {CheckOf[k]}
             read == [at |-> k + 1, checks |-> all, sentinel |-> reply.sentinel, tailscale |-> reply.tailscale,
                      token |-> reply.token, state |-> reply.state, unmet |-> reply.unmet]
  <1>0. /\ reply.sentinel \in BOOLEAN /\ reply.tailscale \in BOOLEAN /\ reply.token \in BOOLEAN
        /\ reply.unmet \in SUBSET Fact /\ \A i \in 1 .. 19 : i + 1 \in 0 .. 21
    <2>1. \A i \in 1 .. 19 : i + 1 \in 0 .. 21
      OBVIOUS
    <2> QED BY <2>1 DEF ChecklistInv, ReplyTypes
  <1>1. k \in 1 .. 19 /\ facts' = facts
    BY ChecksByPlace DEF MakeCheck
  <1>2. PICK sen \in BOOLEAN, tail \in BOOLEAN, tok \in BOOLEAN :
           /\ sen = (CheckOf[k][2] # "ok") /\ tail = (facts.tailscale = "enrolled") /\ tok = (CheckOf[k][2] = "ok")
    OBVIOUS
  <1>3. (CheckOf[k][1] = "domain" <=> k = 3) /\ (CheckOf[k][1] = "cloudflare_dns" <=> k = 4)
    BY <1>1, ChecksByPlace
  <1>4. [reply EXCEPT !.at = @ + 1, !.checks = IF CheckOf[k][2] = "none" THEN @ ELSE @ \union {CheckOf[k]}] = read
    <2>1. /\ reply = [at |-> reply.at, checks |-> reply.checks, sentinel |-> reply.sentinel,
                      tailscale |-> reply.tailscale, token |-> reply.token, state |-> reply.state, unmet |-> reply.unmet]
          /\ k = reply.at
      BY DEF ChecklistInv, ReplyTypes
    <2>2. PICK every : every = all
      OBVIOUS
    <2>3. PICK next : next = [reply EXCEPT !.at = k + 1]
      OBVIOUS
    <2>4. next = [at |-> k + 1, checks |-> reply.checks, sentinel |-> reply.sentinel, tailscale |-> reply.tailscale,
                  token |-> reply.token, state |-> reply.state, unmet |-> reply.unmet]
      BY <2>1, <2>3
    <2>5. [next EXCEPT !.checks = every]
            = [at |-> k + 1, checks |-> every, sentinel |-> reply.sentinel, tailscale |-> reply.tailscale,
               token |-> reply.token, state |-> reply.state, unmet |-> reply.unmet]
      BY <2>4
    <2> QED BY <2>1, <2>2, <2>3, <2>5
  <1>5. reply' = CASE CheckOf[k][1] = "domain" -> [read EXCEPT !.sentinel = sen, !.tailscale = tail]
                   [] CheckOf[k][1] = "cloudflare_dns" -> [read EXCEPT !.token = tok]
                   [] OTHER -> read
    BY <1>2, <1>4 DEF MakeCheck
  <1>6. CASE k = 3
    <2>1. reply' = [read EXCEPT !.sentinel = sen, !.tailscale = tail]
      BY <1>3, <1>5, <1>6
    <2>2. /\ reply' = [at |-> reply'.at, checks |-> reply'.checks, sentinel |-> reply'.sentinel,
                       tailscale |-> reply'.tailscale, token |-> reply'.token, state |-> reply'.state,
                       unmet |-> reply'.unmet]
          /\ reply'.at = k + 1 /\ reply'.checks = all /\ reply'.sentinel = sen /\ reply'.tailscale = tail
          /\ reply'.token = reply.token /\ reply'.state = reply.state /\ reply'.unmet = reply.unmet
      BY <2>1
    <2>3. CheckOf[k][2] = DomainCheck
      BY <1>6, ChecksByPlace
    <2>4. (sen <=> DomainCheck # "ok") /\ (tail <=> facts.tailscale = "enrolled")
      BY <1>2, <2>3
    <2>5. ReplyTypes'
      BY <1>0, <1>1, <2>2 DEF ReplyTypes
    <2> QED BY <1>1, <1>6, <2>2, <2>4, <2>5
  <1>7. CASE k = 4
    <2>1. reply' = [read EXCEPT !.token = tok]
      BY <1>3, <1>5, <1>7
    <2>2. /\ reply' = [at |-> reply'.at, checks |-> reply'.checks, sentinel |-> reply'.sentinel,
                       tailscale |-> reply'.tailscale, token |-> reply'.token, state |-> reply'.state,
                       unmet |-> reply'.unmet]
          /\ reply'.at = k + 1 /\ reply'.checks = all /\ reply'.sentinel = reply.sentinel
          /\ reply'.tailscale = reply.tailscale
          /\ reply'.token = tok /\ reply'.state = reply.state /\ reply'.unmet = reply.unmet
      BY <2>1
    <2>3. CheckOf[k][2] = CloudflareCheck
      BY <1>7, ChecksByPlace
    <2>4. tok <=> CloudflareCheck = "ok"
      BY <1>2, <2>3
    <2>5. ReplyTypes'
      BY <1>0, <1>1, <2>2 DEF ReplyTypes
    <2> QED BY <1>1, <1>7, <2>2, <2>4, <2>5
  <1>8. CASE k \notin {3, 4}
    <2>1. reply' = read
      BY <1>3, <1>5, <1>8
    <2>2. /\ reply' = [at |-> reply'.at, checks |-> reply'.checks, sentinel |-> reply'.sentinel,
                       tailscale |-> reply'.tailscale, token |-> reply'.token, state |-> reply'.state,
                       unmet |-> reply'.unmet]
          /\ reply'.at = k + 1 /\ reply'.checks = all /\ reply'.sentinel = reply.sentinel
          /\ reply'.tailscale = reply.tailscale
          /\ reply'.token = reply.token /\ reply'.state = reply.state /\ reply'.unmet = reply.unmet
      BY <2>1
    <2>3. ReplyTypes'
      BY <1>0, <1>1, <2>2 DEF ReplyTypes
    <2> QED BY <1>1, <1>8, <2>2, <2>3
  <1> QED BY <1>6, <1>7, <1>8

\* A further check hides none that was made.
LEMMA StaysFlagged ==
    ASSUME NEW name, Flagged(name), reply.checks \subseteq reply'.checks
    PROVE  Flagged(name)'
PROOF BY DEF Flagged, CallsForAttention

LEMMA MakeCheckSafe ==
    ASSUME ChecklistInv, MakeCheck
    PROVE  ChecklistInv'
PROOF
  <1> DEFINE k == reply.at
  <1>1. /\ k \in 1 .. 19 /\ facts' = facts /\ ReplyTypes' /\ reply'.at = k + 1
        /\ reply'.unmet = reply.unmet /\ reply'.state = reply.state
        /\ reply'.checks = IF CheckOf[k][2] = "none" THEN reply.checks ELSE reply.checks \cup {CheckOf[k]}
        /\ k # 3 => reply'.sentinel = reply.sentinel /\ reply'.tailscale = reply.tailscale
        /\ k # 4 => reply'.token = reply.token
        /\ k = 3 => /\ reply'.sentinel <=> DomainCheck # "ok"
                    /\ reply'.tailscale <=> facts.tailscale = "enrolled"
        /\ k = 4 => (reply'.token <=> CloudflareCheck = "ok")
    BY ReadsOne
  <1> HIDE DEF k
  <1>2. reply.checks \subseteq reply'.checks /\ (CheckOf[k][2] # "none" => CheckOf[k] \in reply'.checks)
    BY <1>1
  <1>3. \A f \in reply'.unmet : f \in Fact /\ Unmet(f) /\ Unmet(f)' /\ (k > PlaceOf(f) => Noticed(f))
    BY <1>1 DEF ChecklistInv, ReplyTypes, Unmet, k
  <1>9. FactTypes'
    BY <1>1 DEF ChecklistInv, FactTypes
  <1>4. ASSUME NEW f \in reply'.unmet, reply'.at > PlaceOf(f)
        PROVE  Noticed(f)'
    <2>1. CASE f = "domain"
      <3>1. PlaceOf(f) = 3
        BY <2>1 DEF PlaceOf
      <3>2. DomainCheck # "ok"
        BY <1>3, <2>1 DEF DomainCheck, Okay, Unmet, AllDone
      <3>3. k > 3 => reply.sentinel
        BY <1>3, <2>1, <3>1 DEF Noticed
      <3>4. reply'.sentinel
        BY <1>1, <1>4, <3>1, <3>2, <3>3
      <3> QED BY <2>1, <3>4 DEF Noticed
    <2>2. CASE f = "token"
      <3>1. PlaceOf(f) = 4
        BY <2>2 DEF PlaceOf
      <3>2. CloudflareCheck # "ok"
        BY <1>3, <2>2 DEF CloudflareCheck, Okay, Unmet, AllDone
      <3>3. k > 4 => ~reply.token
        BY <1>3, <2>2, <3>1 DEF Noticed
      <3>4. ~reply'.token
        BY <1>1, <1>4, <3>1, <3>2, <3>3
      <3> QED BY <2>2, <3>4 DEF Noticed
    <2>3. CASE f = "tailscale"
      <3>1. PlaceOf(f) = 3
        BY <2>3 DEF PlaceOf
      <3>2. facts.tailscale # "enrolled"
        BY <1>3, <2>3 DEF Unmet, AllDone
      <3>3. k > 3 => ~reply.tailscale /\ (k > 17 => Flagged("tailscale"))
        BY <1>3, <2>3, <3>1 DEF Noticed, k
      <3>4. ~reply'.tailscale
        BY <1>1, <1>4, <3>1, <3>2, <3>3
      <3>5. CASE k = 17
        <4>1. CheckOf[k] = <<"tailscale", "pending">>
          BY <3>3, <3>5, ChecksByPlace DEF TailscaleCheck, Okay
        <4>2. <<"tailscale", "pending">> \in reply'.checks
          BY <1>2, <4>1
        <4>3. Flagged("tailscale")'
          BY <4>2 DEF Flagged, CallsForAttention
        <4> QED BY <2>3, <3>4, <4>3 DEF Noticed
      <3>6. CASE k > 17
        <4>1. Flagged("tailscale")'
          BY <1>1, <1>2, <3>3, <3>6, StaysFlagged
        <4> QED BY <2>3, <3>4, <4>1 DEF Noticed
      <3>7. CASE k < 17
        <4>1. ~(reply'.at > 17)
          BY <1>1, <3>7
        <4> QED BY <2>3, <3>4, <4>1 DEF Noticed
      <3> QED BY <1>1, <3>5, <3>6, <3>7
    <2>4. CASE f = "rejected"
      <3>1. PlaceOf(f) = 20
        BY <2>4 DEF PlaceOf
      <3> QED BY <1>1, <1>4, <3>1
    <2>5. CASE f \in ByCheck
      <3>1. f \notin {"domain", "token", "tailscale", "rejected"}
        BY <2>5 DEF ByCheck
      <3>2. PlaceOf(f) \in 1 .. 19
        BY <2>5, FactNames DEF ByCheck, PlaceOf
      <3>3. CASE k = PlaceOf(f)
        <4>1. PICK s \in Status : CheckOf[k] = <<NameOf(f), s>> /\ CallsForAttention(NameOf(f), s)
          BY <1>3, <2>5, <3>3, CheckTells DEF ChecklistInv
        <4>2. CheckOf[k] \in reply'.checks
          BY <1>2, <4>1 DEF Status
        <4>3. Flagged(NameOf(f))'
          BY <4>1, <4>2 DEF Flagged, Status, NameOf, CallsForAttention
        <4> QED BY <3>1, <4>3 DEF Noticed, NameOf
      <3>4. CASE k > PlaceOf(f)
        <4>1. Flagged(NameOf(f))
          BY <1>3, <3>1, <3>4 DEF Noticed
        <4>2. Flagged(NameOf(f))'
          BY <1>2, <4>1, StaysFlagged DEF NameOf
        <4> QED BY <3>1, <4>2 DEF Noticed, NameOf
      <3> QED BY <1>1, <1>4, <3>2, <3>3, <3>4
    <2> QED BY <1>3, <2>1, <2>2, <2>3, <2>4, <2>5 DEF ByCheck
  <1>5. reply'.at \in 5 .. 20 => \E s \in {"ok", "pending"} : <<"cloudflare_dns", s>> \in reply'.checks
    <2>1. CASE k = 4
      BY <1>2, <2>1, ChecksByPlace DEF CloudflareCheck, Okay
    <2>2. CASE k > 4
      <3>1. k \in 5 .. 20
        BY <1>1, <2>2
      <3>2. PICK s \in {"ok", "pending"} : <<"cloudflare_dns", s>> \in reply.checks
        BY <3>1 DEF ChecklistInv, k
      <3> QED BY <1>2, <3>2
    <2> QED BY <1>1, <2>1, <2>2
  <1>6. reply.at # 0 /\ reply'.at # 0 /\ reply'.state = "" /\ reply.state = ""
    <2>1. reply.at # 0 /\ reply'.at # 0 /\ reply'.state = reply.state
      BY <1>1 DEF k
    <2> QED BY <2>1 DEF ChecklistInv
  <1> QED BY <1>1, <1>3, <1>4, <1>5, <1>6, <1>9 DEF ChecklistInv

LEMMA CorrectSafe ==
    ASSUME ChecklistInv, CorrectCloudflare
    PROVE  ChecklistInv'
PROOF
  <1> DEFINE status(c) == IF c[1] = "cloudflare_dns" /\ facts.rejected = "unread" THEN "failed" ELSE c[2]
             kept == {c \in {<<c[1], status(c)>> : c \in reply.checks} : c[1] \in Ordered}
  <1>1. /\ reply.at = 20 /\ facts' = facts /\ reply' = [reply EXCEPT !.at = 21, !.checks = kept]
    BY ChecksByPlace DEF CorrectCloudflare
  <1>2. PICK every : every = kept
    OBVIOUS
  <1>3. reply' = [at |-> 21, checks |-> every, sentinel |-> reply.sentinel, tailscale |-> reply.tailscale,
                  token |-> reply.token, state |-> reply.state, unmet |-> reply.unmet]
    BY <1>1, <1>2 DEF ChecklistInv, ReplyTypes
  <1>4. ReplyTypes' /\ FactTypes'
    <2>1. /\ reply.sentinel \in BOOLEAN /\ reply.tailscale \in BOOLEAN /\ reply.token \in BOOLEAN
          /\ reply.unmet \in SUBSET Fact
      BY DEF ChecklistInv, ReplyTypes
    <2>2. FactTypes'
      BY <1>1 DEF ChecklistInv, FactTypes
    <2>3. 0 \in 0 .. 21 /\ 21 \in 0 .. 21
      OBVIOUS
    <2> QED BY <1>3, <2>1, <2>2, <2>3 DEF ReplyTypes
  <1>5. ASSUME NEW name \in Ordered, name # "cloudflare_dns", Flagged(name)
        PROVE  Flagged(name)'
    <2>1. PICK s \in Status : <<name, s>> \in reply.checks /\ CallsForAttention(name, s)
      BY <1>5 DEF Flagged, Status
    <2>2. status(<<name, s>>) = s
      BY <1>5
    <2>3. <<name, s>> \in kept
      BY <1>5, <2>1, <2>2
    <2>4. <<name, s>> \in reply'.checks
      BY <1>2, <1>3, <2>3
    <2>5. CallsForAttention(name, s)'
      BY <2>1 DEF CallsForAttention
    <2> QED BY <2>1, <2>4, <2>5 DEF Flagged, Status
  <1>6. ASSUME NEW f \in reply'.unmet
        PROVE  Unmet(f)' /\ Noticed(f)'
    <2>1. f \in Fact /\ Unmet(f) /\ (20 > PlaceOf(f) => Noticed(f))
      BY <1>1, <1>3 DEF ChecklistInv, ReplyTypes
    <2>2. Unmet(f)'
      BY <1>1, <2>1 DEF Unmet
    <2>3. CASE f = "domain" \/ f = "token"
      <3>1. 20 > PlaceOf(f)
        BY <2>3 DEF PlaceOf
      <3> QED BY <1>3, <2>1, <2>2, <2>3, <3>1 DEF Noticed
    <2>4. CASE f = "tailscale"
      <3>1. 20 > PlaceOf(f) /\ "tailscale" \in Ordered
        BY <2>4 DEF PlaceOf, Ordered
      <3>2. ~reply.tailscale /\ Flagged("tailscale")
        BY <1>1, <2>1, <2>4, <3>1 DEF Noticed
      <3>3. ~reply'.tailscale /\ Flagged("tailscale")'
        BY <1>3, <1>5, <3>1, <3>2
      <3> QED BY <2>2, <2>4, <3>3 DEF Noticed
    <2>5. CASE f = "rejected"
      <3>1. facts.rejected = "unread"
        <4>1. facts["rejected"] \in Finds["rejected"] /\ Finds["rejected"] = {"read", "unread"}
          BY FactNames DEF ChecklistInv, FactTypes, Finds
        <4>2. facts["rejected"] # "read"
          BY <2>1, <2>5 DEF Unmet, AllDone
        <4> QED BY <4>1, <4>2
      <3>2. PICK s \in {"ok", "pending"} : <<"cloudflare_dns", s>> \in reply.checks
        <4>1. reply.at \in 5 .. 20
          BY <1>1
        <4> QED BY <4>1 DEF ChecklistInv
      <3>3. status(<<"cloudflare_dns", s>>) = "failed"
        BY <3>1
      <3>4. <<"cloudflare_dns", "failed">> \in kept
        <4>1. "cloudflare_dns" \in Ordered
          BY DEF Ordered
        <4> QED BY <3>2, <3>3, <4>1
      <3>5. <<"cloudflare_dns", "failed">> \in reply'.checks
        BY <1>2, <1>3, <3>4
      <3>6. Flagged("cloudflare_dns")'
        BY <3>5 DEF Flagged, CallsForAttention
      <3> QED BY <2>2, <2>5, <3>6 DEF Noticed
    <2>6. CASE f \in ByCheck
      <3>1. f \notin {"domain", "token", "tailscale", "rejected"}
        BY <2>6 DEF ByCheck
      <3>2. 20 > PlaceOf(f) /\ NameOf(f) \in Ordered /\ NameOf(f) # "cloudflare_dns"
        BY <2>6, FactNames DEF ByCheck, PlaceOf, NameOf, Ordered
      <3>3. Flagged(NameOf(f))
        BY <2>1, <3>1, <3>2 DEF Noticed
      <3>4. Flagged(NameOf(f))'
        BY <1>5, <3>2, <3>3 DEF NameOf
      <3> QED BY <2>2, <3>1, <3>4 DEF Noticed, NameOf
    <2> QED BY <2>1, <2>3, <2>4, <2>5, <2>6 DEF ByCheck
  <1>7. reply'.state = "" /\ reply'.at = 21 /\ 21 \notin 5 .. 20
    <2>1. reply.at # 0
      BY <1>1
    <2>2. reply.state = ""
      BY <2>1 DEF ChecklistInv
    <2>3. 21 \notin 5 .. 20
      OBVIOUS
    <2> QED BY <1>3, <2>2, <2>3
  <1> QED BY <1>4, <1>6, <1>7 DEF ChecklistInv

LEMMA AnswerSafe ==
    ASSUME ChecklistInv, AnswerStatus
    PROVE  ChecklistInv'
PROOF
  <1> DEFINE derived == deriveSetupState(reply.checks, reply.sentinel, reply.token)
  <1>1. /\ reply.at = 21 /\ facts' = facts
        /\ reply' = [reply EXCEPT !.at = 0, !.state = IF derived # "waiting_for_cloudflare" /\ facts.run = "running"
                                                      THEN "reconciling" ELSE derived]
    BY ChecksByPlace DEF AnswerStatus
  <1>2. PICK answer : answer = IF derived # "waiting_for_cloudflare" /\ facts.run = "running"
                               THEN "reconciling" ELSE derived
    OBVIOUS
  <1>3. reply' = [at |-> 0, checks |-> reply.checks, sentinel |-> reply.sentinel, tailscale |-> reply.tailscale,
                  token |-> reply.token, state |-> answer, unmet |-> reply.unmet]
    BY <1>1, <1>2 DEF ChecklistInv, ReplyTypes
  <1>4. ReplyTypes' /\ FactTypes'
    <2>1. /\ reply.sentinel \in BOOLEAN /\ reply.tailscale \in BOOLEAN /\ reply.token \in BOOLEAN
          /\ reply.unmet \in SUBSET Fact
      BY DEF ChecklistInv, ReplyTypes
    <2>2. FactTypes'
      BY <1>1 DEF ChecklistInv, FactTypes
    <2>3. 0 \in 0 .. 21 /\ 21 \in 0 .. 21
      OBVIOUS
    <2> QED BY <1>3, <2>1, <2>2, <2>3 DEF ReplyTypes
  <1>5. \A f \in reply.unmet : f \in Fact /\ Unmet(f)' /\ PlaceOf(f) \in 1 .. 20 /\ Noticed(f)
    <2> SUFFICES ASSUME NEW f \in reply.unmet
                 PROVE  f \in Fact /\ Unmet(f)' /\ PlaceOf(f) \in 1 .. 20 /\ Noticed(f)
      OBVIOUS
    <2>1. f \in Fact /\ Unmet(f) /\ (21 > PlaceOf(f) => Noticed(f))
      BY <1>1 DEF ChecklistInv, ReplyTypes
    <2>2. Unmet(f)'
      BY <1>1, <2>1 DEF Unmet
    <2>3. PlaceOf(f) \in 1 .. 20
      BY <2>1, FactNames DEF PlaceOf
    <2> QED BY <2>1, <2>2, <2>3
  <1>6. answer = "complete" => reply.unmet = {}
    <2> SUFFICES ASSUME answer = "complete", NEW f \in reply.unmet
                 PROVE  FALSE
      OBVIOUS
    <2>1. /\ ~reply.sentinel /\ reply.token
          /\ \A c \in reply.checks : ~CallsForAttention(c[1], c[2])
      BY <1>2 DEF deriveSetupState
    <2>2. \A name : ~Flagged(name)
      <3> SUFFICES ASSUME NEW name, NEW s, <<name, s>> \in reply.checks, CallsForAttention(name, s)
                   PROVE  FALSE
        BY DEF Flagged
      <3>1. <<name, s>>[1] = name /\ <<name, s>>[2] = s
        OBVIOUS
      <3> QED BY <2>1, <3>1
    <2>3. Noticed(f) /\ f \in Fact
      BY <1>5
    <2>4. CASE f = "domain" \/ f = "token"
      BY <2>1, <2>3, <2>4 DEF Noticed
    <2>5. CASE f = "tailscale"
      BY <1>1, <2>2, <2>3, <2>5 DEF Noticed
    <2>6. CASE f \notin {"domain", "token", "tailscale"}
      BY <2>2, <2>3, <2>6 DEF Noticed
    <2> QED BY <2>4, <2>5, <2>6
  <1>7. reply'.at = 0 /\ reply'.state = answer /\ reply'.unmet = reply.unmet
    BY <1>3
  <1>8. \A f \in reply.unmet : ~(0 > PlaceOf(f))
    BY <1>5
  <1>9. 0 \notin 5 .. 20
    OBVIOUS
  <1> QED BY <1>4, <1>5, <1>6, <1>7, <1>8, <1>9 DEF ChecklistInv

LEMMA HostMovesSafe ==
    ASSUME ChecklistInv, HostMoves
    PROVE  ChecklistInv'
PROOF
  <1>1. PICK f \in Changing :
           /\ \E v \in Finds[f] : facts' = [facts EXCEPT ![f] = v]
           /\ reply' = [reply EXCEPT !.unmet = {g \in reply.unmet : g # f \/ Unmet(f)'}]
    BY DEF HostMoves
  <1>2. PICK left : left = {g \in reply.unmet : g # f \/ Unmet(f)'}
    OBVIOUS
  <1>3. reply' = [at |-> reply.at, checks |-> reply.checks, sentinel |-> reply.sentinel, tailscale |-> reply.tailscale,
                  token |-> reply.token, state |-> reply.state, unmet |-> left]
    BY <1>1, <1>2 DEF ChecklistInv, ReplyTypes
  <1>4. /\ reply.at # 0 /\ reply.state = ""
    BY DEF HostMoves, ChecklistInv
  <1>5. ReplyTypes'
    <2>1. /\ reply.sentinel \in BOOLEAN /\ reply.tailscale \in BOOLEAN /\ reply.token \in BOOLEAN
          /\ reply.at \in 0 .. 21 /\ left \in SUBSET Fact
      BY <1>2 DEF ChecklistInv, ReplyTypes
    <2> QED BY <1>3, <2>1 DEF ReplyTypes
  <1>6. FactTypes'
    BY <1>1 DEF ChecklistInv, FactTypes
  <1>7. \A g \in left : Unmet(g)' /\ (reply.at > PlaceOf(g) => Noticed(g)')
    <2> SUFFICES ASSUME NEW g \in left
                 PROVE  Unmet(g)' /\ (reply.at > PlaceOf(g) => Noticed(g)')
      OBVIOUS
    <2>1. /\ g \in Fact /\ Unmet(g) /\ (g # f \/ Unmet(f)')
          /\ (reply.at > PlaceOf(g) => Noticed(g))
      BY <1>2 DEF ChecklistInv, ReplyTypes
    <2>2. CASE g # f
      <3>1. facts'[g] = facts[g]
        BY <1>1, <2>1, <2>2 DEF ChecklistInv, FactTypes
      <3> QED BY <1>3, <2>1, <3>1 DEF Unmet, Noticed, Flagged, CallsForAttention
    <2>3. CASE g = f
      BY <1>3, <2>1, <2>3 DEF Noticed, Flagged, CallsForAttention
    <2> QED BY <2>2, <2>3
  <1>8. /\ reply'.unmet = left /\ reply'.at = reply.at /\ reply'.state = reply.state /\ reply'.checks = reply.checks
    BY <1>3
  <1> QED BY <1>4, <1>5, <1>6, <1>7, <1>8 DEF ChecklistInv

\* "Release evidence only", "extraction alone never counts" (setup_status.go): for every
\* host and every way it changes while the checklist is made, the setup is called
\* complete only if nothing was missing all along.
THEOREM CompleteIsEarnedHolds == ChecklistSpec => []CompleteIsEarned
PROOF
  <1>1. ChecklistInit => ChecklistInv
    <2> SUFFICES ASSUME ChecklistInit
                 PROVE  ChecklistInv
      OBVIOUS
    <2>1. PICK f \in Fact : \E v \in Finds[f] : facts = [AllDone EXCEPT ![f] = v]
      BY DEF ChecklistInit
    <2>2. \A g \in Fact : AllDone[g] \in Finds[g]
      BY FactNames DEF AllDone, Finds
    <2>3. DOMAIN AllDone = Fact
      BY FactNames DEF AllDone
    <2>4. FactTypes
      BY <2>1, <2>2, <2>3 DEF FactTypes
    <2>5. reply = Asked
      BY DEF ChecklistInit
    <2>6. \A g \in Fact : ~(1 > PlaceOf(g))
      BY FactNames DEF PlaceOf
    <2>7. ReplyTypes
      <3>1. PICK missing : missing = {g \in Fact : Unmet(g)}
        OBVIOUS
      <3>2. reply = [at |-> 1, checks |-> {}, sentinel |-> FALSE, tailscale |-> FALSE, token |-> FALSE, state |-> "",
                     unmet |-> missing]
        BY <2>5, <3>1 DEF Asked
      <3>3. missing \in SUBSET Fact /\ 1 \in 0 .. 21
        BY <3>1
      <3> QED BY <3>2, <3>3 DEF ReplyTypes
    <2>8. /\ reply.at = 1 /\ reply.state = "" /\ 1 \notin 5 .. 20
          /\ \A g \in reply.unmet : Unmet(g) /\ ~(reply.at > PlaceOf(g))
      <3>1. 1 \notin 5 .. 20
        OBVIOUS
      <3>2. reply.at = 1 /\ reply.state = ""
        BY <2>5 DEF Asked
      <3>3. \A g \in reply.unmet : g \in Fact /\ Unmet(g)
        BY <2>5 DEF Asked
      <3> QED BY <2>6, <3>1, <3>2, <3>3
    <2> QED BY <2>4, <2>7, <2>8 DEF ChecklistInv
  <1>2. ChecklistInv /\ [ChecklistNext]_checklistVars => ChecklistInv'
    <2>1. ChecklistInv /\ UNCHANGED checklistVars => ChecklistInv'
      <3> SUFFICES ASSUME ChecklistInv, facts' = facts, reply' = reply
                   PROVE  ChecklistInv'
        BY DEF checklistVars
      <3>1. ReplyTypes' /\ FactTypes'
        BY DEF ChecklistInv, ReplyTypes, FactTypes
      <3>2. \A f : (Unmet(f) => Unmet(f)') /\ (Noticed(f) => Noticed(f)')
        BY DEF Unmet, Noticed, Flagged, CallsForAttention
      <3> QED BY <3>1, <3>2 DEF ChecklistInv
    <2> QED BY <2>1, MakeCheckSafe, CorrectSafe, AnswerSafe, HostMovesSafe DEF ChecklistNext
  <1>3. ChecklistInv => CompleteIsEarned
    BY DEF ChecklistInv, CompleteIsEarned
  <1> QED BY <1>1, <1>2, <1>3, PTL DEF ChecklistSpec

-----------------------------------------------------------------------------
(* The administrator's keys: who holds the lock knows the file.             *)

IsFile(f) == f \in Seq({f[i] : i \in DOMAIN f})

\* What an edit was called with.
Called(r) ==
    /\ r.adds \in Offered \cup {<<>>} /\ r.confirmed \in BOOLEAN
    /\ r.removes = {} \/ (r.adds = <<>> /\ \E k \in SSHKeys : r.removes = {k})

\* What an edit that will rename its file makes of the one there is.
Edited(f, r) ==
    /\ IsFile(r.read)
    /\ KeysOf(r.read) = (KeysOf(f) \union KeysOf(r.adds)) \ r.removes
    /\ OtherLines(r.read) = OtherLines(f)
    /\ KeysOf(r.read) = {} => r.confirmed

EditKnows(e) ==
    /\ {"step", "adds", "removes", "confirmed", "read", "answer"} \subseteq DOMAIN edits[e]
    /\ Called(edits[e])
    /\ edits[e].step = "idle" => edits[e].adds = <<>> /\ edits[e].removes = {}
    /\ edits[e].step \in {"read", "merge", "remove", "rename", "unlock"} => keyLock = {e}
    /\ edits[e].step \in {"merge", "remove"} => edits[e].read = keyFile
    /\ edits[e].step = "merge" => edits[e].removes = {}
    /\ edits[e].step = "remove" => edits[e].removes # {}
    /\ edits[e].step = "rename" => Edited(keyFile, edits[e])

KeysInv ==
    /\ IsFile(keyFile)
    /\ edits = [e \in Edits |-> edits[e]]
    /\ \A e \in Edits : EditKnows(e)

\* Any sequence may be a file.
LEMMA AnyFile == ASSUME NEW T, NEW s \in Seq(T) PROVE IsFile(s)
PROOF BY SeqOfRange DEF Range, IsFile

MissingOf(f, o) == {i \in DOMAIN o : o[i] \notin KeysOf(f) /\ \A j \in 1 .. i - 1 : o[j] # o[i]}
NewOf(o, M) == [i \in DOMAIN o |-> IF i \in M THEN o[i] ELSE NoLine]

\* new is f with the keys of o, and otherwise as f was.
Added(f, o, new) == /\ IsFile(new) /\ KeysOf(new) = KeysOf(f) \union KeysOf(o)
                    /\ OtherLines(new) = OtherLines(f) /\ KeysOf(new) # {}

\* What is offered adds its keys and nothing else: f is what was read, o the offer, M the
\* positions of what is missing, n what is written behind f.
LEMMA OfferAdds ==
    ASSUME NEW f, IsFile(f), NEW o \in Offered \cup {<<>>}, NEW M, M # {},
           M = MissingOf(f, o),
           NEW n, n = NewOf(o, M), NEW new, new = f \o n
    PROVE  Added(f, o, new)
PROOF
  <1>0. /\ M = {i \in DOMAIN o : o[i] \notin KeysOf(f) /\ \A j \in 1 .. i - 1 : o[j] # o[i]}
        /\ n = [i \in DOMAIN o |-> IF i \in M THEN o[i] ELSE NoLine]
    BY DEF MissingOf, NewOf
  <1>1. /\ f \in Seq({f[i] : i \in DOMAIN f}) /\ DOMAIN f = 1 .. Len(f) /\ Len(f) \in Nat
    BY LenProperties DEF IsFile
  <1>2. /\ Len(o) \in 0 .. 2 /\ Len(o) \in Nat /\ DOMAIN o = 1 .. Len(o)
        /\ \A i \in DOMAIN o : o[i] \in SSHKeys
    <2>1. CASE o = <<>>
      BY <2>1
    <2>2. CASE \E k \in SSHKeys : o = <<k>>
      BY <2>2
    <2>3. CASE \E k, l \in SSHKeys : o = <<k, l>>
      BY <2>3
    <2> QED BY <2>1, <2>2, <2>3 DEF Offered
  <1>3. /\ DOMAIN n = DOMAIN o
        /\ n \in Seq(SSHKeys \cup {NoLine}) /\ Len(n) = Len(o)
    <2>2. \A i \in 1 .. Len(o) : (IF i \in M THEN o[i] ELSE NoLine) \in SSHKeys \cup {NoLine}
      BY <1>2
    <2>1. n = [i \in 1 .. Len(o) |-> IF i \in M THEN o[i] ELSE NoLine]
      BY <1>0, <1>2
    <2>3. Len(o) \in Nat
      BY <1>2
    <2>4. n \in Seq(SSHKeys \cup {NoLine})
      BY <2>1, <2>2, <2>3, IsASeq
    <2>5. DOMAIN n = 1 .. Len(n) /\ Len(n) \in Nat
      BY <2>4, LenProperties
    <2>6. Len(n) = Len(o)
      BY <1>0, <1>2, <2>5
    <2> QED BY <1>0, <1>2, <2>4, <2>6
  <1>4. \A i \in M : i \in DOMAIN o /\ o[i] \notin KeysOf(f)
    BY <1>0
  <1>5. \A i \in DOMAIN o : o[i] \in KeysOf(f) \/ \E j \in M : o[j] = o[i]
    <2> TAKE i \in DOMAIN o
    <2> SUFFICES ASSUME o[i] \notin KeysOf(f) PROVE \E j \in M : o[j] = o[i]
      OBVIOUS
    <2>1. CASE i = 1
      <3>1. i \in M
        BY <1>0, <1>2, <2>1
      <3> QED BY <3>1
    <2>2. CASE i = 2 /\ o[1] = o[2]
      <3>1. 1 \in DOMAIN o
        BY <1>0, <1>2, <2>2
      <3>2. 1 \in M
        BY <1>0, <1>2, <2>2, <3>1
      <3> QED BY <2>2, <3>2
    <2>3. CASE i = 2 /\ o[1] # o[2]
      <3>1. i \in M
        BY <1>0, <1>2, <2>3
      <3> QED BY <3>1
    <2> QED BY <1>2, <2>1, <2>2, <2>3
  <1> DEFINE T == {f[i] : i \in DOMAIN f} \cup SSHKeys \cup {NoLine}
  <1>6. f \in Seq(T) /\ n \in Seq(T)
    BY <1>1, <1>3, SeqMonotonic
  <1>7. /\ new \in Seq(T) /\ Len(new) = Len(f) + Len(o)
        /\ \A i \in 1 .. Len(f) : new[i] = f[i]
        /\ \A i \in 1 .. Len(o) : new[Len(f) + i] = n[i]
    <2>2. /\ new \in Seq(T) /\ Len(new) = Len(f) + Len(n)
          /\ \A i \in 1 .. Len(f) + Len(n) : new[i] = IF i <= Len(f) THEN f[i] ELSE n[i - Len(f)]
      BY <1>6, ConcatProperties
    <2>3. PICK p \in Nat, q \in Nat : p = Len(f) /\ q = Len(o)
      BY <1>1, <1>2
    <2>4. \A i \in 1 .. p : i \in 1 .. p + q /\ i <= p
      BY <2>3
    <2>5. \A i \in 1 .. q : p + i \in 1 .. p + q /\ ~(p + i <= p) /\ (p + i) - p = i
      BY <2>3
    <2>6. Len(n) = q
      BY <1>3, <2>3
    <2>7. new \in Seq(T) /\ Len(new) = p + q
      BY <2>2, <2>3, <2>6
    <2>8. \A i \in 1 .. p : new[i] = f[i]
      BY <2>2, <2>3, <2>4, <2>6
    <2>9. \A i \in 1 .. q : new[p + i] = n[i]
      BY <2>2, <2>3, <2>5, <2>6
    <2> QED BY <2>3, <2>7, <2>8, <2>9
  <1>8. DOMAIN new = 1 .. Len(f) + Len(o)
    BY <1>7, LenProperties
  <1>8a. PICK p \in Nat, q \in Nat :
                     /\ p = Len(f) /\ q = Len(o)
                     /\ DOMAIN f = 1 .. p /\ DOMAIN o = 1 .. q /\ DOMAIN new = 1 .. p + q
    BY <1>1, <1>2, <1>8
  <1>9. \A j \in DOMAIN new : j \in DOMAIN f \/ \E i \in DOMAIN o : j = Len(f) + i
    <2> TAKE j \in DOMAIN new
    <2>1. j \in 1 .. p \/ (j - p \in 1 .. q /\ j = p + (j - p))
      BY <1>8a
    <2> QED BY <1>8a, <2>1
  <1>10. \A i \in DOMAIN o : Len(f) + i \in DOMAIN new /\ ~(Len(f) + i \in DOMAIN f)
    BY <1>8a
  <1>11. DOMAIN f \subseteq DOMAIN new
    BY <1>8a
  <1>12. IsFile(new)
    BY <1>7, AnyFile
  <1>13. NoLine \notin SSHKeys
    BY KeysAssumption
  <1>14. KeysOf(new) = KeysOf(f) \union KeysOf(o)
    <2>1. ASSUME NEW k \in KeysOf(new) PROVE k \in KeysOf(f) \union KeysOf(o)
      <3>1. PICK j \in DOMAIN new : new[j] = k
        BY DEF KeysOf
      <3>2. CASE j \in DOMAIN f
        BY <1>1, <1>7, <3>1, <3>2 DEF KeysOf
      <3>3. CASE \E i \in DOMAIN o : j = Len(f) + i
        <4>1. PICK i \in DOMAIN o : j = Len(f) + i
          BY <3>3
        <4>2. k = n[i] /\ k \in SSHKeys
          BY <1>2, <1>7, <3>1, <4>1 DEF KeysOf
        <4>3. k = o[i]
          BY <1>0, <1>3, <1>13, <4>2
        <4> QED BY <4>2, <4>3 DEF KeysOf
      <3> QED BY <1>9, <3>2, <3>3
    <2>2. ASSUME NEW k \in KeysOf(f) PROVE k \in KeysOf(new)
      <3>1. PICK j \in DOMAIN f : f[j] = k
        BY DEF KeysOf
      <3> QED BY <1>1, <1>7, <1>11, <3>1 DEF KeysOf
    <2>3. ASSUME NEW k \in KeysOf(o), k \notin KeysOf(f) PROVE k \in KeysOf(new)
      <3>1. PICK i \in DOMAIN o : o[i] = k
        BY DEF KeysOf
      <3>2. PICK j \in M : o[j] = k
        BY <1>5, <2>3, <3>1
      <3>3. new[Len(f) + j] = k /\ Len(f) + j \in DOMAIN new
        BY <1>0, <1>2, <1>3, <1>4, <1>7, <1>10, <3>2
      <3> QED BY <3>3 DEF KeysOf
    <2> QED BY <2>1, <2>2, <2>3
  <1>15. OtherLines(new) = OtherLines(f)
    <2>1. \A j \in DOMAIN f : new[j] = f[j] /\ j \in DOMAIN new
      BY <1>1, <1>7, <1>11
    <2>2. ASSUME NEW j \in DOMAIN new, new[j] \notin SSHKeys \union {NoLine}
          PROVE  j \in DOMAIN f
      <3> SUFFICES ASSUME NEW i \in DOMAIN o, j = Len(f) + i PROVE FALSE
        BY <1>9
      <3>1. new[j] = n[i]
        BY <1>2, <1>7
      <3>2. n[i] \in SSHKeys \union {NoLine}
        BY <1>2, <1>3
      <3> QED BY <2>2, <3>1, <3>2
    <2> QED BY <2>1, <2>2 DEF OtherLines
  <1>16. KeysOf(new) # {}
    BY <1>2, <1>4, <1>14 DEF KeysOf
  <1> QED BY <1>12, <1>14, <1>15, <1>16 DEF Added

\* So does the merge of the file that was read.
LEMMA MergeAdds ==
    ASSUME NEW e, Called(edits[e]), edits[e].removes = {}, IsFile(edits[e].read), Missing(e) # {},
           NEW new, new = edits[e].read \o NewKeys(e)
    PROVE  /\ IsFile(new) /\ KeysOf(new) = KeysOf(edits[e].read) \union KeysOf(edits[e].adds)
           /\ OtherLines(new) = OtherLines(edits[e].read) /\ KeysOf(new) # {}
PROOF
  <1>1. PICK f : f = edits[e].read
    OBVIOUS
  <1>2. PICK o : o = edits[e].adds
    OBVIOUS
  <1>3. o \in Offered \cup {<<>>}
    BY <1>2 DEF Called
  <1>4. PICK M : M = MissingOf(f, o)
    OBVIOUS
  <1>5. Missing(e) = M
    BY <1>1, <1>2, <1>4 DEF Missing, MissingOf
  <1>6. PICK n : n = NewOf(o, M)
    OBVIOUS
  <1>7. NewKeys(e) = n
    BY <1>2, <1>5, <1>6 DEF NewKeys, NewOf
  <1>8. IsFile(f) /\ M # {} /\ new = f \o n
    BY <1>1, <1>5, <1>7
  <1>9. Added(f, o, new)
    BY <1>3, <1>4, <1>6, <1>8, OfferAdds
  <1> QED BY <1>1, <1>2, <1>9 DEF Added

\* What is removed are the lines of the key, and no others.
LEMMA RemoveRemoves ==
    ASSUME NEW e, IsFile(edits[e].read), NEW k \in SSHKeys, edits[e].removes = {k},
           KeysOf(edits[e].read) \intersect {k} # {},
           ~(KeysOf(edits[e].read) = {k} /\ ~edits[e].confirmed),
           NEW new, new = Without(e)
    PROVE  /\ IsFile(new) /\ KeysOf(new) = KeysOf(edits[e].read) \ {k}
           /\ OtherLines(new) = OtherLines(edits[e].read)
           /\ KeysOf(new) = {} => edits[e].confirmed
PROOF
  <1> DEFINE f == edits[e].read
  <1>1. f \in Seq({f[i] : i \in DOMAIN f}) /\ DOMAIN f = 1 .. Len(f) /\ Len(f) \in Nat
    BY LenProperties DEF IsFile
  <1>2. new = [i \in 1 .. Len(f) |-> IF f[i] = k THEN NoLine ELSE f[i]]
    BY <1>1 DEF Without
  <1> HIDE DEF f
  <1>3. IsFile(new)
    <2>1. DOMAIN new = 1 .. Len(f) /\ \A i \in 1 .. Len(f) : new[i] \in {new[j] : j \in DOMAIN new}
      BY <1>2
    <2>2. new = [i \in 1 .. Len(f) |-> new[i]]
      BY <1>2
    <2>3. new \in Seq({new[j] : j \in DOMAIN new})
      BY <1>1, <2>1, <2>2, IsASeq
    <2> QED BY <2>3 DEF IsFile
  <1>4. NoLine \notin SSHKeys
    BY KeysAssumption
  <1>5. KeysOf(new) = KeysOf(f) \ {k}
    BY <1>1, <1>2, <1>4 DEF KeysOf
  <1>6. OtherLines(new) = OtherLines(f)
    BY <1>1, <1>2 DEF OtherLines
  <1>7. KeysOf(new) = {} => edits[e].confirmed
    BY <1>5 DEF f
  <1> QED BY <1>3, <1>5, <1>6, <1>7 DEF f


\* The invariant holds at first.
LEMMA KeysStart == KeysInit => KeysInv
PROOF
  <1> SUFFICES ASSUME KeysInit PROVE KeysInv
    OBVIOUS
  <1>1. IsFile(keyFile)
    BY KeysAssumption DEF KeysInit, IsFile
  <1>2. \A e \in Edits : edits[e] = Idle
    BY DEF KeysInit
  <1>3. \A e \in Edits : EditKnows(e)
    BY <1>2, Zenon DEF EditKnows, Called, Idle, KeysInit
  <1> QED BY <1>1, <1>3 DEF KeysInv, KeysInit

\* What an edit knows is of its own record, the lock and the file.
LEMMA Undisturbed ==
    ASSUME NEW e, EditKnows(e), edits'[e] = edits[e], keyFile' = keyFile,
           keyLock = {e} => keyLock' = {e}
    PROVE  EditKnows(e)'
BY DEF EditKnows, Called, Edited

\* A step of one edit that leaves the file as it is keeps the invariant if it keeps what
\* that edit knows, and takes the lock from nobody.
LEMMA OneEdit ==
    ASSUME KeysInv, NEW e \in Edits, NEW r, edits' = [edits EXCEPT ![e] = r],
           keyFile' = keyFile, EditKnows(e)',
           \A d \in Edits : d # e /\ keyLock = {d} => keyLock' = {d}
    PROVE  KeysInv'
PROOF
  <1>1. edits' = [d \in Edits |-> edits'[d]] /\ \A d \in Edits : d # e => edits'[d] = edits[d]
    BY DEF KeysInv
  <1>2. \A d \in Edits : EditKnows(d)'
    BY <1>1, Undisturbed DEF KeysInv
  <1> QED BY <1>1, <1>2 DEF KeysInv, IsFile

\* Every step keeps it.
LEMMA KeysKept == KeysInv /\ [KeysNext]_keyVars => KeysInv'
PROOF
  <1> SUFFICES ASSUME KeysInv, [KeysNext]_keyVars PROVE KeysInv'
    OBVIOUS
  <1>f. /\ IsFile(keyFile) /\ edits = [d \in Edits |-> edits[d]]
        /\ \A d \in Edits : EditKnows(d)
    BY DEF KeysInv
  <1>1. ASSUME KeysCrash PROVE KeysInv'
    <2>1. ASSUME NEW d \in Edits PROVE EditKnows(d)'
      <3>1. EditKnows(d) /\ keyFile' = keyFile
        BY <1>1, <1>f DEF KeysCrash
      <3>2. CASE edits[d].step = "idle"
        <4>1. edits'[d] = edits[d]
          BY <1>1, <3>2 DEF KeysCrash, EditAt
        <4> QED BY <3>1, <3>2, <4>1 DEF EditKnows, Called
      <3>3. CASE edits[d].step # "idle"
        <4>1. edits'[d] = [edits[d] EXCEPT !.step = "over"]
          BY <1>1, <3>3 DEF KeysCrash, EditAt
        <4> QED BY <3>1, <4>1 DEF EditKnows, Called
      <3> QED BY <3>2, <3>3
    <2>2. edits' = [d \in Edits |-> edits'[d]]
      BY <1>1 DEF KeysCrash
    <2> QED BY <1>1, <1>f, <2>1, <2>2 DEF KeysInv, KeysCrash
  <1>2. ASSUME NEW e \in Edits, AddSSHKeys(e) PROVE KeysInv'
    <2>1. PICK r : /\ edits' = [edits EXCEPT ![e] = r]
                   /\ \/ \E offered \in Offered : r = [edits[e] EXCEPT !.step = "lock", !.adds = offered]
                      \/ r = [edits[e] EXCEPT !.step = "over", !.answer = "invalid"]
      <3>1. CASE \E offered \in Offered :
                   edits' = [edits EXCEPT ![e].step = "lock", ![e].adds = offered]
        <4>1. PICK offered \in Offered :
                     edits' = [edits EXCEPT ![e].step = "lock", ![e].adds = offered]
          BY <3>1
        <4>2. edits' = [edits EXCEPT ![e] = [edits[e] EXCEPT !.step = "lock", !.adds = offered]]
          BY <4>1
        <4> QED BY <4>2
      <3>2. CASE edits' = [edits EXCEPT ![e].step = "over", ![e].answer = "invalid"]
        <4>1. edits' = [edits EXCEPT ![e] = [edits[e] EXCEPT !.step = "over", !.answer = "invalid"]]
          BY <3>2
        <4> QED BY <4>1
      <3> QED BY <1>2, <3>1, <3>2 DEF AddSSHKeys
    <2>2. EditKnows(e) /\ edits'[e] = r /\ edits[e].step = "idle" /\ UNCHANGED <<keyFile, keyLock>>
      BY <1>2, <1>f, <2>1 DEF AddSSHKeys, EditAt
    <2>3. EditKnows(e)'
      BY <2>1, <2>2 DEF EditKnows, Called
    <2> QED BY <2>1, <2>2, <2>3, OneEdit
  <1>3. ASSUME NEW e \in Edits, DeleteSSHKey(e) PROVE KeysInv'
    <2>1. PICK k \in SSHKeys, confirm \in BOOLEAN :
             edits' = [edits EXCEPT ![e].step = "lock", ![e].removes = {k}, ![e].confirmed = confirm]
      BY <1>3 DEF DeleteSSHKey
    <2>2. PICK r : r = [edits[e] EXCEPT !.step = "lock", !.removes = {k}, !.confirmed = confirm]
      OBVIOUS
    <2>3. EditKnows(e) /\ edits[e].step = "idle" /\ UNCHANGED <<keyFile, keyLock>>
      BY <1>3, <1>f DEF DeleteSSHKey, EditAt
    <2>4. edits' = [edits EXCEPT ![e] = r]
      BY <2>1, <2>2
    <2>5. edits'[e] = r
      BY <1>f, <2>4
    <2>6. /\ r.step = "lock" /\ r.removes = {k} /\ r.confirmed = confirm /\ r.adds = edits[e].adds
          /\ DOMAIN r = DOMAIN edits[e]
      BY <2>2, <2>3 DEF EditKnows
    <2>7. EditKnows(e)'
      BY <2>3, <2>5, <2>6 DEF EditKnows, Called
    <2> QED BY <2>3, <2>4, <2>7, OneEdit
  <1>4. ASSUME NEW e \in Edits, acquireLock(e) PROVE KeysInv'
    <2>1. PICK r : r = [edits[e] EXCEPT !.step = "read"]
      OBVIOUS
    <2>2. /\ EditKnows(e) /\ edits[e].step = "lock" /\ keyFile' = keyFile /\ keyLock' = {e}
          /\ keyLock = {} /\ edits' = [edits EXCEPT ![e] = r]
      BY <1>4, <1>f, <2>1 DEF acquireLock, EditAt, EditGoes, Free
    <2>3. edits'[e] = r
      BY <1>f, <2>2
    <2>4. EditKnows(e)'
      BY <2>1, <2>2, <2>3 DEF EditKnows, Called
    <2> QED BY <2>2, <2>4, OneEdit
  <1>5. ASSUME NEW e \in Edits, ReadLines(e) PROVE KeysInv'
    <2>1. PICK r : r = [edits[e] EXCEPT !.step = IF edits[e].removes = {} THEN "merge" ELSE "remove",
                                        !.read = keyFile]
      OBVIOUS
    <2>2. /\ EditKnows(e) /\ edits[e].step = "read" /\ keyFile' = keyFile /\ keyLock' = keyLock
          /\ edits' = [edits EXCEPT ![e] = r]
      BY <1>5, <1>f, <2>1 DEF ReadLines, EditAt
    <2>3. edits'[e] = r
      BY <1>f, <2>2
    <2>4. EditKnows(e)'
      BY <2>1, <2>2, <2>3 DEF EditKnows, Called
    <2> QED BY <2>2, <2>4, OneEdit
  <1>6. ASSUME NEW e \in Edits, EditAt(e, "merge") \/ EditAt(e, "remove"), NEW answer, Answers(e, answer),
               UNCHANGED <<keyFile, keyLock>>
        PROVE  KeysInv'
    <2>1. PICK r : r = [edits[e] EXCEPT !.step = "unlock", !.answer = answer]
      OBVIOUS
    <2>2. /\ EditKnows(e) /\ edits[e].step \in {"merge", "remove"} /\ edits' = [edits EXCEPT ![e] = r]
      BY <1>6, <1>f, <2>1 DEF Answers, EditAt
    <2>3. edits'[e] = r
      BY <1>f, <2>2
    <2>4. EditKnows(e)'
      BY <1>6, <2>1, <2>2, <2>3 DEF EditKnows, Called
    <2> QED BY <1>6, <2>2, <2>4, OneEdit
  <1>7. ASSUME NEW e \in Edits, NEW new, NEW answer, EditAt(e, "merge") \/ EditAt(e, "remove"),
               edits' = [edits EXCEPT ![e].step = "rename", ![e].read = new, ![e].answer = answer],
               UNCHANGED <<keyFile, keyLock>>, IsFile(new),
               KeysOf(new) = (KeysOf(edits[e].read) \union KeysOf(edits[e].adds)) \ edits[e].removes,
               OtherLines(new) = OtherLines(edits[e].read), KeysOf(new) = {} => edits[e].confirmed
        PROVE  KeysInv'
    <2>1. PICK r : r = [edits[e] EXCEPT !.step = "rename", !.read = new, !.answer = answer]
      OBVIOUS
    <2>2. /\ EditKnows(e) /\ edits[e].step \in {"merge", "remove"} /\ edits' = [edits EXCEPT ![e] = r]
      BY <1>7, <1>f, <2>1 DEF EditAt
    <2>3. edits'[e] = r
      BY <1>f, <2>2
    <2>4. /\ r.step = "rename" /\ r.read = new /\ r.adds = edits[e].adds /\ r.removes = edits[e].removes
          /\ r.confirmed = edits[e].confirmed /\ DOMAIN r = DOMAIN edits[e]
      BY <2>1, <2>2 DEF EditKnows
    <2>5. Edited(keyFile, r) /\ Called(r)
      BY <1>7, <2>2, <2>4 DEF EditKnows, Edited, Called
    <2>6. EditKnows(e)'
      BY <1>7, <2>2, <2>3, <2>4, <2>5 DEF EditKnows, Called, Edited
    <2> QED BY <1>7, <2>2, <2>6, OneEdit
  <1>8. ASSUME NEW e \in Edits, EnsureAuthorizedKeysAt(e) PROVE KeysInv'
    <2>1. /\ EditKnows(e) /\ edits[e].step = "merge" /\ UNCHANGED <<keyFile, keyLock>>
      BY <1>8, <1>f DEF EnsureAuthorizedKeysAt, EditAt
    <2>2. CASE Missing(e) = {}
      BY <1>6, <1>8, <2>1, <2>2 DEF EnsureAuthorizedKeysAt
    <2>3. CASE Missing(e) # {}
      <3>1. PICK new : new = edits[e].read \o NewKeys(e)
        OBVIOUS
      <3>2. Called(edits[e]) /\ edits[e].removes = {} /\ IsFile(edits[e].read)
        BY <1>f, <2>1 DEF EditKnows
      <3>3. /\ IsFile(new) /\ KeysOf(new) = KeysOf(edits[e].read) \union KeysOf(edits[e].adds)
            /\ OtherLines(new) = OtherLines(edits[e].read) /\ KeysOf(new) # {}
        BY <2>3, <3>1, <3>2, MergeAdds
      <3>4. edits' = [edits EXCEPT ![e].step = "rename", ![e].read = new, ![e].answer = "added"]
        BY <1>8, <2>3, <3>1 DEF EnsureAuthorizedKeysAt
      <3>5. KeysOf(new) = (KeysOf(edits[e].read) \union KeysOf(edits[e].adds)) \ edits[e].removes
        BY <3>2, <3>3
      <3> QED BY <1>7, <1>8, <2>1, <3>3, <3>4, <3>5 DEF EnsureAuthorizedKeysAt
    <2> QED BY <2>2, <2>3
  <1>9. ASSUME NEW e \in Edits, RemoveAuthorizedKey(e) PROVE KeysInv'
    <2>1. /\ EditKnows(e) /\ edits[e].step = "remove" /\ UNCHANGED <<keyFile, keyLock>>
      BY <1>9, <1>f DEF RemoveAuthorizedKey, EditAt
    <2>2. /\ edits[e].removes # {} /\ Called(edits[e]) /\ IsFile(edits[e].read)
      BY <1>f, <2>1 DEF EditKnows
    <2>3. PICK k \in SSHKeys : edits[e].removes = {k} /\ edits[e].adds = <<>>
      BY <2>2 DEF Called
    <2>4. CASE Answers(e, "not found") \/ Answers(e, "confirm the last")
      BY <1>6, <1>9, <2>1, <2>4 DEF RemoveAuthorizedKey
    <2>5. CASE /\ KeysOf(edits[e].read) \intersect {k} # {}
               /\ ~(KeysOf(edits[e].read) = {k} /\ ~edits[e].confirmed)
               /\ edits' = [edits EXCEPT ![e].step = "rename", ![e].read = Without(e), ![e].answer = "removed"]
      <3>1. PICK new : new = Without(e)
        OBVIOUS
      <3>2. /\ IsFile(new) /\ KeysOf(new) = KeysOf(edits[e].read) \ {k}
            /\ OtherLines(new) = OtherLines(edits[e].read)
            /\ KeysOf(new) = {} => edits[e].confirmed
        BY <2>2, <2>3, <2>5, <3>1, RemoveRemoves
      <3>3. KeysOf(edits[e].adds) = {}
        BY <2>3 DEF KeysOf
      <3>4. KeysOf(new) = (KeysOf(edits[e].read) \union KeysOf(edits[e].adds)) \ edits[e].removes
        BY <2>3, <3>2, <3>3
      <3>5. edits' = [edits EXCEPT ![e].step = "rename", ![e].read = new, ![e].answer = "removed"]
        BY <2>5, <3>1
      <3> QED BY <1>7, <1>9, <2>1, <3>2, <3>4, <3>5 DEF RemoveAuthorizedKey
    <2> QED BY <1>9, <2>3, <2>4, <2>5 DEF RemoveAuthorizedKey
  <1>10. ASSUME NEW e \in Edits, writeAuthorizedKeysAtomic(e) PROVE KeysInv'
    <2>1. PICK r : r = [edits[e] EXCEPT !.step = "unlock"]
      OBVIOUS
    <2>2. /\ EditKnows(e) /\ edits[e].step = "rename" /\ keyLock' = keyLock /\ keyFile' = edits[e].read
          /\ edits' = [edits EXCEPT ![e] = r]
      BY <1>10, <1>f, <2>1 DEF writeAuthorizedKeysAtomic, EditAt, EditGoes
    <2>3. edits'[e] = r /\ edits' = [d \in Edits |-> edits'[d]]
      BY <1>f, <2>2
    <2>4. EditKnows(e)'
      BY <2>1, <2>2, <2>3 DEF EditKnows, Called
    <2>5. keyLock = {e} /\ IsFile(edits[e].read)
      BY <2>2 DEF EditKnows, Edited
    <2>6. ASSUME NEW d \in Edits, d # e PROVE EditKnows(d)'
      <3>1. edits'[d] = edits[d] /\ keyLock # {d} /\ EditKnows(d)
        BY <1>f, <2>2, <2>5, <2>6
      <3>2. edits[d].step \notin {"read", "merge", "remove", "rename", "unlock"}
        BY <3>1 DEF EditKnows
      <3> QED BY <2>2, <3>1, <3>2 DEF EditKnows, Called
    <2>7. \A d \in Edits : EditKnows(d)'
      BY <2>4, <2>6
    <2> QED BY <2>2, <2>3, <2>5, <2>7 DEF KeysInv, IsFile
  <1>11. ASSUME NEW e \in Edits, releaseLock(e) PROVE KeysInv'
    <2>1. PICK r : r = [edits[e] EXCEPT !.step = "over"]
      OBVIOUS
    <2>2. /\ EditKnows(e) /\ edits[e].step = "unlock" /\ keyFile' = keyFile /\ keyLock' = keyLock \ {e}
          /\ edits' = [edits EXCEPT ![e] = r]
      BY <1>11, <1>f, <2>1 DEF releaseLock, EditAt, EditGoes
    <2>3. edits'[e] = r
      BY <1>f, <2>2
    <2>4. EditKnows(e)'
      BY <2>1, <2>2, <2>3 DEF EditKnows, Called
    <2>5. \A d \in Edits : d # e /\ keyLock = {d} => keyLock' = {d}
      BY <2>2
    <2> QED BY <2>2, <2>4, <2>5, OneEdit
  <1>12. CASE UNCHANGED keyVars
    <2>1. edits' = edits /\ keyFile' = keyFile /\ keyLock' = keyLock
      BY <1>12 DEF keyVars
    <2>2. \A d \in Edits : EditKnows(d)'
      BY <1>f, <2>1, Undisturbed
    <2> QED BY <1>f, <2>1, <2>2 DEF KeysInv, IsFile
  <1> QED BY <1>1, <1>2, <1>3, <1>4, <1>5, <1>8, <1>9, <1>10, <1>11, <1>12 DEF KeysNext

\* The keys of the administrator stand, whoever edits beside whom.
THEOREM AccessStandsHolds == KeysSpec => AccessStands
PROOF
  <1>1. ASSUME KeysInv, [KeysNext]_keyVars, keyFile' # keyFile
        PROVE  \E e \in Edits :
                 /\ EditAt(e, "rename") /\ ~EditAt(e, "rename")'
                 /\ KeysOf(keyFile') = (KeysOf(keyFile) \union KeysOf(edits[e].adds)) \ edits[e].removes
                 /\ OtherLines(keyFile') = OtherLines(keyFile)
                 /\ KeysOf(keyFile') = {} => edits[e].confirmed
    <2>1. PICK e \in Edits : writeAuthorizedKeysAtomic(e)
      BY <1>1 DEF KeysNext, keyVars, KeysCrash, AddSSHKeys, DeleteSSHKey, acquireLock, ReadLines,
         EnsureAuthorizedKeysAt, RemoveAuthorizedKey, releaseLock
    <2>2. EditAt(e, "rename") /\ keyFile' = edits[e].read /\ EditGoes(e, "unlock")
      BY <2>1 DEF writeAuthorizedKeysAtomic
    <2>3. EditKnows(e) /\ edits = [d \in Edits |-> edits[d]]
      BY <1>1 DEF KeysInv
    <2>4. Edited(keyFile, edits[e]) /\ "step" \in DOMAIN edits[e]
      BY <2>2, <2>3 DEF EditKnows, EditAt
    <2>5. ~EditAt(e, "rename")'
      BY <2>2, <2>3, <2>4 DEF EditAt, EditGoes
    <2> QED BY <2>2, <2>4, <2>5 DEF Edited
  <1>2. KeysInv /\ [KeysNext]_keyVars
          => [keyFile' # keyFile =>
                \E e \in Edits :
                  /\ EditAt(e, "rename") /\ ~EditAt(e, "rename")'
                  /\ KeysOf(keyFile') = (KeysOf(keyFile) \union KeysOf(edits[e].adds)) \ edits[e].removes
                  /\ OtherLines(keyFile') = OtherLines(keyFile)
                  /\ KeysOf(keyFile') = {} => edits[e].confirmed]_keyVars
    BY <1>1
  <1> QED BY <1>2, KeysStart, KeysKept, PTL DEF KeysSpec, AccessStands

-----------------------------------------------------------------------------
(* The bodies of the nodes: where an administrator's credential is at work. *)

\* The steps of the bodies that touch no administrator.
PlainVerb ==
    {"client", "reuse", "rotate", "store", "access", "write", "restart", "converge", "sso",
     "botUser", "validate", "generate", "recreate", "oauthApp", "secretFile", "tryRestart",
     "generateFile", "derive", "mirror", "role", "install", "route", "bootstrap", "reveal",
     "tunnel", "enable", "oauthFiles", "healthy", "record", "zone", "https", "probe",
     "reprobe", "bind", "adopt", "issue", "keep", "alias", "defer", "systemctlRestart",
     "tryInstall", "tryConverge"}
PlainCred ==
    {"immich", "karakeep", "litellm", "jellyfin", "paperless", "technitium", "hermes",
     "forgejo", "bot", "hermes-token", "woodpecker", "db", "caddy", "tunnel", "embed", "ci",
     "karakeep-key", "hindsight-db", "hindsight-key", "hermes-key"}
PlainStep == PlainVerb \X PlainCred

Plain(s) == s \in Seq(PlainStep) /\ s # <<>>

\* Two such bodies make one.
LEMMA PlainJoined == ASSUME NEW s, NEW t, Plain(s), Plain(t) PROVE Plain(s \o t)
PROOF
  <1>1. s \o t \in Seq(PlainStep) /\ Len(s \o t) = Len(s) + Len(t)
    BY ConcatProperties DEF Plain
  <1>2. Len(s) \in Nat /\ Len(s) > 0 /\ Len(t) \in Nat
    BY EmptySeq, LenProperties DEF Plain
  <1>3. s \o t # <<>>
    BY <1>1, <1>2
  <1> QED BY <1>1, <1>3 DEF Plain

\* What the bodies that touch no administrator are made of.
LEMMA PlainParts ==
    /\ \A c \in PlainCred : Plain(OIDCClient(c))
    /\ \A c \in PlainCred : Plain(VirtualKey(c))
    /\ Plain(hermesOIDC)
    /\ Plain(ensureOmahabBot)
    /\ Plain(ensureHermesForgejoToken)
    /\ Plain(ensureForgejoOrgTeams)
    /\ Plain(ensureForgejoAuthSource)
    /\ Plain(ensureWoodpeckerOAuthApp)
    /\ Plain(woodpeckerEnv)
    /\ Plain(setupPhaseSecrets)
    /\ Plain(setupCoreAppNode)
    /\ Plain(setupCoreAppsShared)
    /\ Plain(setupPhaseTunnel)
    /\ Plain(setupWoodpeckerNode)
    /\ Plain(ensureWoodpeckerPostgresAuth)
    /\ Plain(exposeRoutes)
    /\ Plain(ensureEmbeddingWorkerConfig)
    /\ Plain(SetupWoodpecker)
    /\ Plain(ensureHindsightPostgresAuth)
    /\ Plain(ensureHindsightLiteLLMKey)
    /\ Plain(renderHindsightEnv)
    /\ Plain(installHindsight)
    /\ Plain(renderHermesKeyEnv)
    /\ Plain(renderHermesConfig)
PROOF
  <1> USE DEF Plain, PlainStep, PlainVerb
  <1>1. \A c \in PlainCred : Plain(OIDCClient(c))
    BY DEF OIDCClient
  <1>2. \A c \in PlainCred : Plain(VirtualKey(c))
    BY DEF VirtualKey
  <1>3. Plain(hermesOIDC)
    BY DEF PlainCred, hermesOIDC
  <1>4. Plain(ensureOmahabBot)
    BY DEF PlainCred, ensureOmahabBot
  <1>5. Plain(ensureHermesForgejoToken)
    BY DEF PlainCred, ensureHermesForgejoToken
  <1>6. Plain(ensureForgejoOrgTeams)
    BY DEF PlainCred, ensureForgejoOrgTeams
  <1>7. Plain(ensureForgejoAuthSource)
    BY DEF PlainCred, ensureForgejoAuthSource
  <1>8. Plain(ensureWoodpeckerOAuthApp)
    BY DEF PlainCred, ensureWoodpeckerOAuthApp
  <1>9. Plain(woodpeckerEnv)
    BY DEF PlainCred, woodpeckerEnv
  <1>10. Plain(setupPhaseSecrets)
    BY DEF PlainCred, setupPhaseSecrets
  <1>11. Plain(setupCoreAppNode)
    BY DEF PlainCred, setupCoreAppNode
  <1>12. Plain(setupCoreAppsShared)
    BY DEF PlainCred, setupCoreAppsShared
  <1>13. Plain(setupPhaseTunnel)
    BY DEF PlainCred, setupPhaseTunnel
  <1>14. Plain(setupWoodpeckerNode)
    BY DEF PlainCred, setupWoodpeckerNode
  <1>15. Plain(ensureWoodpeckerPostgresAuth)
    BY DEF PlainCred, ensureWoodpeckerPostgresAuth
  <1>16. Plain(exposeRoutes)
    BY DEF PlainCred, exposeRoutes
  <1>17. Plain(ensureEmbeddingWorkerConfig)
    BY DEF PlainCred, ensureEmbeddingWorkerConfig
  <1>18. Plain(SetupWoodpecker)
    BY DEF PlainCred, SetupWoodpecker
  <1>19. Plain(ensureHindsightPostgresAuth)
    BY DEF PlainCred, ensureHindsightPostgresAuth
  <1>20. Plain(ensureHindsightLiteLLMKey)
    BY DEF PlainCred, ensureHindsightLiteLLMKey
  <1>21. Plain(renderHindsightEnv)
    BY DEF PlainCred, renderHindsightEnv
  <1>22. Plain(installHindsight)
    BY DEF PlainCred, installHindsight
  <1>23. Plain(renderHermesKeyEnv)
    BY DEF PlainCred, renderHermesKeyEnv
  <1>24. Plain(renderHermesConfig)
    BY DEF PlainCred, renderHermesConfig
  <1> HIDE DEF Plain
  <1> QED BY <1>1, <1>2, <1>3, <1>4, <1>5, <1>6, <1>7, <1>8, <1>9, <1>10, <1>11, <1>12, <1>13, <1>14,
             <1>15, <1>16, <1>17, <1>18, <1>19, <1>20, <1>21, <1>22, <1>23, <1>24

\* Those that are joined from such parts.
LEMMA PlainBodies ==
    /\ Plain(ensureImmichOIDC)
    /\ Plain(ensureKarakeepOIDC)
    /\ Plain(ensureLitellmOIDC)
    /\ Plain(ensureJellyfinOIDC)
    /\ Plain(ensurePaperlessOIDC)
    /\ Plain(technitiumOIDC)
    /\ Plain(forgejoOIDC)
    /\ Plain(setupPhaseLoginExposure)
    /\ Plain(setupPhaseExposure)
    /\ Plain(ensureKarakeepLiteLLMKey)
    /\ Plain(ensureHindsightDependentApp)
    /\ Plain(ensureHermesLiteLLMKey)
    /\ Plain(ensureHermesDependentApp)
PROOF
  <1>1. Plain(ensureImmichOIDC)
    <2>1. Plain(<<<<"access", "immich">>, <<"write", "immich">>, <<"restart", "immich">>>>)
      BY DEF Plain, PlainStep, PlainVerb, PlainCred
    <2>2. "immich" \in PlainCred
      BY DEF PlainCred
    <2> QED BY <2>1, <2>2, PlainParts, PlainJoined DEF ensureImmichOIDC
  <1>2. Plain(ensureKarakeepOIDC)
    <2>1. Plain(<<<<"converge", "karakeep">>, <<"restart", "karakeep">>>>)
      BY DEF Plain, PlainStep, PlainVerb, PlainCred
    <2>2. "karakeep" \in PlainCred
      BY DEF PlainCred
    <2> QED BY <2>1, <2>2, PlainParts, PlainJoined DEF ensureKarakeepOIDC
  <1>3. Plain(ensureLitellmOIDC)
    <2>1. Plain(<<<<"access", "litellm">>, <<"converge", "litellm">>, <<"restart", "litellm">>>>)
      BY DEF Plain, PlainStep, PlainVerb, PlainCred
    <2>2. "litellm" \in PlainCred
      BY DEF PlainCred
    <2> QED BY <2>1, <2>2, PlainParts, PlainJoined DEF ensureLitellmOIDC
  <1>4. Plain(ensureJellyfinOIDC)
    <2>1. Plain(<<<<"access", "jellyfin">>, <<"converge", "jellyfin">>, <<"restart", "jellyfin">>>>)
      BY DEF Plain, PlainStep, PlainVerb, PlainCred
    <2>2. "jellyfin" \in PlainCred
      BY DEF PlainCred
    <2> QED BY <2>1, <2>2, PlainParts, PlainJoined DEF ensureJellyfinOIDC
  <1>5. Plain(ensurePaperlessOIDC)
    <2>1. Plain(<<<<"write", "paperless">>, <<"restart", "paperless">>>>)
      BY DEF Plain, PlainStep, PlainVerb, PlainCred
    <2>2. "paperless" \in PlainCred
      BY DEF PlainCred
    <2> QED BY <2>1, <2>2, PlainParts, PlainJoined DEF ensurePaperlessOIDC
  <1>6. Plain(technitiumOIDC)
    <2>1. Plain(<<<<"access", "technitium">>, <<"sso", "technitium">>>>)
      BY DEF Plain, PlainStep, PlainVerb, PlainCred
    <2>2. "technitium" \in PlainCred
      BY DEF PlainCred
    <2> QED BY <2>1, <2>2, PlainParts, PlainJoined DEF technitiumOIDC
  <1>7. Plain(forgejoOIDC)
    <2>1. Plain(<<<<"access", "forgejo">>>>)
      BY DEF Plain, PlainStep, PlainVerb, PlainCred
    <2>2. "forgejo" \in PlainCred
      BY DEF PlainCred
    <2> QED BY <2>1, <2>2, PlainParts, PlainJoined DEF forgejoOIDC
  <1>8. Plain(setupPhaseLoginExposure)
    BY PlainParts DEF setupPhaseLoginExposure
  <1>9. Plain(setupPhaseExposure)
    <2>1. Plain(<<<<"bootstrap", "caddy">>>>)
      BY DEF Plain, PlainStep, PlainVerb, PlainCred
    <2> QED BY <2>1, PlainParts, PlainJoined DEF setupPhaseExposure
  <1>10. Plain(ensureKarakeepLiteLLMKey)
    <2>1. Plain(<<<<"alias", "karakeep-key">>>>)
      BY DEF Plain, PlainStep, PlainVerb, PlainCred
    <2>2. Plain(<<<<"converge", "karakeep-key">>, <<"restart", "karakeep-key">>>>)
      BY DEF Plain, PlainStep, PlainVerb, PlainCred
    <2>3. "karakeep-key" \in PlainCred
      BY DEF PlainCred
    <2>4. Plain(<<<<"alias", "karakeep-key">>>> \o VirtualKey("karakeep-key"))
      BY <2>1, <2>2, <2>3, PlainParts, PlainJoined
    <2> QED BY <2>1, <2>2, <2>3, <2>4, PlainParts, PlainJoined DEF ensureKarakeepLiteLLMKey
  <1>11. Plain(ensureHindsightDependentApp)
    <2>1. Plain(<<<<"defer", "hindsight-key">>>>)
      BY DEF Plain, PlainStep, PlainVerb, PlainCred
    <2>2. Plain(<<<<"defer", "hindsight-key">>>> \o ensureHindsightPostgresAuth)
      BY <2>1, PlainParts, PlainJoined
    <2> QED BY <2>1, <2>2, PlainParts, PlainJoined DEF ensureHindsightDependentApp
  <1>12. Plain(ensureHermesLiteLLMKey)
    <2>1. "hermes-key" \in PlainCred
      BY DEF PlainCred
    <2>2. Plain(VirtualKey("hermes-key") \o renderHermesKeyEnv)
      BY <2>1, PlainParts, PlainJoined
    <2> QED BY <2>1, <2>2, PlainParts, PlainJoined DEF ensureHermesLiteLLMKey
  <1>13. Plain(ensureHermesDependentApp)
    <2>1. Plain(<<<<"tryInstall", "hermes-key">>>>)
      BY DEF Plain, PlainStep, PlainVerb, PlainCred
    <2>2. Plain(<<<<"route", "hermes-key">>>>)
      BY DEF Plain, PlainStep, PlainVerb, PlainCred
    <2>3. Plain(<<<<"tryInstall", "hermes-key">>>> \o renderHermesConfig)
      BY <2>1, <2>2, PlainParts, PlainJoined
    <2> QED BY <2>1, <2>2, <2>3, PlainParts, PlainJoined DEF ensureHermesDependentApp
  <1> QED BY <1>1, <1>2, <1>3, <1>4, <1>5, <1>6, <1>7, <1>8, <1>9, <1>10, <1>11, <1>12, <1>13

\* The steps of the bodies that do.
Jellyfin   == "jellyfin-admin"
Technitium == "technitium-admin"
Paperless  == "paperless-admin"

AdminStep ==
    {<<"newPassword", Jellyfin>>, <<"store", Jellyfin>>, <<"firstUser", Jellyfin>>,
     <<"complete", Jellyfin>>, <<"library", Jellyfin>>,
     <<"defaultLogin", Technitium>>, <<"storeWarn", Technitium>>, <<"settings", Technitium>>,
     <<"zone", Technitium>>,
     <<"adminRow", Paperless>>, <<"store", Paperless>>, <<"access", Paperless>>}
AdminVerb ==
    {"newPassword", "store", "firstUser", "complete", "library", "defaultLogin", "storeWarn",
     "settings", "zone", "adminRow", "access"}

\* Wherever the body s does v for c it has done u for it just before, and does v next.
Behind(s, u, v, c) ==
    \A i \in 1 .. Len(s) : s[i] = <<v, c>> => i - 1 \in 1 .. Len(s) /\ s[i - 1] = <<u, c>>
Ahead(s, u, v, c) ==
    \A i \in 1 .. Len(s) : s[i] = <<u, c>> => i + 1 \in 1 .. Len(s) /\ s[i + 1] = <<v, c>>

Shape(s) ==
    /\ Len(s) \in Nat /\ Len(s) > 0
    /\ \A i \in 1 .. Len(s) : s[i] \in PlainStep \cup AdminStep
    /\ Behind(s, "newPassword", "store", Jellyfin) /\ Behind(s, "store", "firstUser", Jellyfin)
    /\ Behind(s, "defaultLogin", "storeWarn", Technitium)
    /\ Ahead(s, "defaultLogin", "storeWarn", Technitium)
    /\ Behind(s, "adminRow", "store", Paperless) /\ Ahead(s, "adminRow", "store", Paperless)

\* A body that touches no administrator has the shape.
LEMMA PlainShape == ASSUME NEW s, Plain(s) PROVE Shape(s)
PROOF
  <1>1. Len(s) \in Nat /\ Len(s) > 0 /\ \A i \in 1 .. Len(s) : s[i] \in PlainStep
    BY EmptySeq, LenProperties, ElementOfSeq DEF Plain
  <1>2. \A v, c : <<v, c>> \in PlainStep => c \in PlainCred
    BY DEF PlainStep
  <1>3. \A v : /\ <<v, Jellyfin>> \notin PlainStep /\ <<v, Technitium>> \notin PlainStep
               /\ <<v, Paperless>> \notin PlainStep
    BY <1>2 DEF PlainCred, Jellyfin, Technitium, Paperless
  <1> QED BY <1>1, <1>3 DEF Shape, Behind, Ahead

\* So have the others.
LEMMA AdminShapes ==
    /\ Shape(ensureJellyfinSetup) /\ Shape(convergeTechnitiumOrDefer)
    /\ Shape(ensurePaperlessInitialAdmin) /\ Shape(ensurePaperlessMemberAccess)
PROOF
  <1> USE DEF Shape, Behind, Ahead, AdminStep, Jellyfin, Technitium, Paperless
  <1>1. Shape(ensureJellyfinSetup)
    BY DEF ensureJellyfinSetup
  <1>2. Shape(convergeTechnitiumOrDefer)
    <2>1. PICK s : s = convergeTechnitiumOrDefer
      OBVIOUS
    <2>2. PICK e, z : e = ensureTechnitium /\ z = <<<<"zone", Technitium>>>>
      OBVIOUS
    <2>3. e \in Seq(AdminStep) /\ Len(e) = 3 /\ z \in Seq(AdminStep) /\ Len(z) = 1 /\ s = e \o z
      BY <2>1, <2>2 DEF ensureTechnitium, convergeTechnitiumOrDefer
    <2>4. s \in Seq(AdminStep) /\ Len(s) = 4 /\ s[1] = e[1] /\ s[2] = e[2] /\ s[3] = e[3] /\ s[4] = z[1]
      <3> HIDE DEF AdminStep
      <3>1. Len(s) = Len(e) + Len(z) /\ s \in Seq(AdminStep)
            /\ \A i \in 1 .. Len(e) + Len(z) : s[i] = IF i <= Len(e) THEN e[i] ELSE z[i - Len(e)]
        BY ONLY <2>3, ConcatProperties
      <3> QED BY <2>3, <3>1
    <2>6. /\ s[1] = <<"defaultLogin", Technitium>> /\ s[2] = <<"storeWarn", Technitium>>
          /\ s[3] = <<"settings", Technitium>> /\ s[4] = <<"zone", Technitium>>
      BY <2>2, <2>4 DEF ensureTechnitium
    <2>5. Shape(s)
      BY <2>4, <2>6
    <2> QED BY <2>1, <2>5
  <1>3. Shape(ensurePaperlessInitialAdmin)
    BY DEF ensurePaperlessInitialAdmin
  <1>4. Shape(ensurePaperlessMemberAccess)
    BY DEF ensurePaperlessMemberAccess
  <1> QED BY <1>1, <1>2, <1>3, <1>4

\* Every body has that shape.
LEMMA Shapes == \A b \in NodeBodies : Shape(BodyOf(b))
PROOF
  <1> SUFFICES ASSUME NEW b \in NodeBodies PROVE Shape(BodyOf(b))
    OBVIOUS
  <1>1. CASE b = "immich"
    <2>1. BodyOf(b) = ensureImmichOIDC
      BY <1>1 DEF BodyOf
    <2> QED BY <2>1, PlainBodies, PlainShape
  <1>2. CASE b = "karakeep"
    <2>1. BodyOf(b) = ensureKarakeepOIDC
      BY <1>2 DEF BodyOf
    <2> QED BY <2>1, PlainBodies, PlainShape
  <1>3. CASE b = "litellm"
    <2>1. BodyOf(b) = ensureLitellmOIDC
      BY <1>3 DEF BodyOf
    <2> QED BY <2>1, PlainBodies, PlainShape
  <1>4. CASE b = "jellyfin"
    <2>1. BodyOf(b) = ensureJellyfinOIDC
      BY <1>4 DEF BodyOf
    <2> QED BY <2>1, PlainBodies, PlainShape
  <1>5. CASE b = "paperless"
    <2>1. BodyOf(b) = ensurePaperlessOIDC
      BY <1>5 DEF BodyOf
    <2> QED BY <2>1, PlainBodies, PlainShape
  <1>6. CASE b = "technitium"
    <2>1. BodyOf(b) = technitiumOIDC
      BY <1>6 DEF BodyOf
    <2> QED BY <2>1, PlainBodies, PlainShape
  <1>7. CASE b = "hermes"
    <2>1. BodyOf(b) = hermesOIDC
      BY <1>7 DEF BodyOf
    <2> QED BY <2>1, PlainParts, PlainShape
  <1>8. CASE b = "forgejo"
    <2>1. BodyOf(b) = forgejoOIDC
      BY <1>8 DEF BodyOf
    <2> QED BY <2>1, PlainBodies, PlainShape
  <1>9. CASE b = "jellyfin_setup"
    <2>1. BodyOf(b) = ensureJellyfinSetup
      BY <1>9 DEF BodyOf
    <2> QED BY <2>1, AdminShapes
  <1>10. CASE b = "technitium_setup"
    <2>1. BodyOf(b) = convergeTechnitiumOrDefer
      BY <1>10 DEF BodyOf
    <2> QED BY <2>1, AdminShapes
  <1>11. CASE b = "paperless_admin"
    <2>1. BodyOf(b) = ensurePaperlessInitialAdmin
      BY <1>11 DEF BodyOf
    <2> QED BY <2>1, AdminShapes
  <1>12. CASE b = "paperless_members"
    <2>1. BodyOf(b) = ensurePaperlessMemberAccess
      BY <1>12 DEF BodyOf
    <2> QED BY <2>1, AdminShapes
  <1>13. CASE b = "bot"
    <2>1. BodyOf(b) = ensureOmahabBot
      BY <1>13 DEF BodyOf
    <2> QED BY <2>1, PlainParts, PlainShape
  <1>14. CASE b = "hermes_token"
    <2>1. BodyOf(b) = ensureHermesForgejoToken
      BY <1>14 DEF BodyOf
    <2> QED BY <2>1, PlainParts, PlainShape
  <1>15. CASE b = "auth_source"
    <2>1. BodyOf(b) = ensureForgejoAuthSource
      BY <1>15 DEF BodyOf
    <2> QED BY <2>1, PlainParts, PlainShape
  <1>16. CASE b = "oauth_app"
    <2>1. BodyOf(b) = ensureWoodpeckerOAuthApp
      BY <1>16 DEF BodyOf
    <2> QED BY <2>1, PlainParts, PlainShape
  <1>17. CASE b = "woodpecker_env"
    <2>1. BodyOf(b) = woodpeckerEnv
      BY <1>17 DEF BodyOf
    <2> QED BY <2>1, PlainParts, PlainShape
  <1>18. CASE b = "secrets"
    <2>1. BodyOf(b) = setupPhaseSecrets
      BY <1>18 DEF BodyOf
    <2> QED BY <2>1, PlainParts, PlainShape
  <1>19. CASE b = "core_app"
    <2>1. BodyOf(b) = setupCoreAppNode
      BY <1>19 DEF BodyOf
    <2> QED BY <2>1, PlainParts, PlainShape
  <1>20. CASE b = "native_env"
    <2>1. BodyOf(b) = setupCoreAppsShared
      BY <1>20 DEF BodyOf
    <2> QED BY <2>1, PlainParts, PlainShape
  <1>21. CASE b = "tunnel"
    <2>1. BodyOf(b) = setupPhaseTunnel
      BY <1>21 DEF BodyOf
    <2> QED BY <2>1, PlainParts, PlainShape
  <1>22. CASE b = "woodpecker"
    <2>1. BodyOf(b) = setupWoodpeckerNode
      BY <1>22 DEF BodyOf
    <2> QED BY <2>1, PlainParts, PlainShape
  <1>23. CASE b = "karakeep_key"
    <2>1. BodyOf(b) = ensureKarakeepLiteLLMKey
      BY <1>23 DEF BodyOf
    <2> QED BY <2>1, PlainBodies, PlainShape
  <1>24. CASE b = "hindsight"
    <2>1. BodyOf(b) = ensureHindsightDependentApp
      BY <1>24 DEF BodyOf
    <2> QED BY <2>1, PlainBodies, PlainShape
  <1>25. CASE b = "hindsight_env"
    <2>1. BodyOf(b) = renderHindsightEnv
      BY <1>25 DEF BodyOf
    <2> QED BY <2>1, PlainParts, PlainShape
  <1>26. CASE b = "install_hindsight"
    <2>1. BodyOf(b) = installHindsight
      BY <1>26 DEF BodyOf
    <2> QED BY <2>1, PlainParts, PlainShape
  <1>27. CASE b = "org_teams"
    <2>1. BodyOf(b) = ensureForgejoOrgTeams
      BY <1>27 DEF BodyOf
    <2> QED BY <2>1, PlainParts, PlainShape
  <1>28. CASE b = "woodpecker_role"
    <2>1. BodyOf(b) = ensureWoodpeckerPostgresAuth
      BY <1>28 DEF BodyOf
    <2> QED BY <2>1, PlainParts, PlainShape
  <1>29. CASE b = "login_exposure"
    <2>1. BodyOf(b) = setupPhaseLoginExposure
      BY <1>29 DEF BodyOf
    <2> QED BY <2>1, PlainBodies, PlainShape
  <1>30. CASE b = "exposure"
    <2>1. BodyOf(b) = setupPhaseExposure
      BY <1>30 DEF BodyOf
    <2> QED BY <2>1, PlainBodies, PlainShape
  <1>31. CASE b = "embedding"
    <2>1. BodyOf(b) = ensureEmbeddingWorkerConfig
      BY <1>31 DEF BodyOf
    <2> QED BY <2>1, PlainParts, PlainShape
  <1>32. CASE b = "connect_woodpecker"
    <2>1. BodyOf(b) = SetupWoodpecker
      BY <1>32 DEF BodyOf
    <2> QED BY <2>1, PlainParts, PlainShape
  <1>33. CASE b = "hermes_key"
    <2>1. BodyOf(b) = ensureHermesLiteLLMKey
      BY <1>33 DEF BodyOf
    <2> QED BY <2>1, PlainBodies, PlainShape
  <1>34. CASE b = "hermes_app"
    <2>1. BodyOf(b) = ensureHermesDependentApp
      BY <1>34 DEF BodyOf
    <2> QED BY <2>1, PlainBodies, PlainShape
  <1> QED BY <1>1, <1>2, <1>3, <1>4, <1>5, <1>6, <1>7, <1>8, <1>9, <1>10, <1>11, <1>12, <1>13, <1>14,
             <1>15, <1>16, <1>17, <1>18, <1>19, <1>20, <1>21, <1>22, <1>23, <1>24, <1>25, <1>26,
             <1>27, <1>28, <1>29, <1>30, <1>31, <1>32, <1>33, <1>34 DEF NodeBodies

-----------------------------------------------------------------------------
(* The first administrators: the inductive invariant.                       *)

\* A body is at work at one of its steps, or none is.
NodePlace ==
    /\ agenda \in Seq(NodeBodies) \ {<<>>} /\ at \in 0 .. Len(agenda)
    /\ at > 0 => step \in 1 .. Len(BodyOf(Body))

AdminRecord(r) ==
    /\ {"accepted", "stored", "hand", "gen"} \subseteq DOMAIN r
    /\ r.gen \in Nat /\ 0 \notin r.accepted

\* Jellyfin takes only the password that is stored, which is never replaced while it is
\* taken; it is stored before the wizard is given it.
JellyfinKnown(r) ==
    /\ r.accepted # {} => r.stored # 0 /\ r.stored \in r.accepted
    /\ Here("store", Jellyfin) => r.hand # 0 /\ (r.stored = 0 \/ r.hand = r.stored)
    /\ Here("firstUser", Jellyfin) => r.hand # 0 /\ r.hand = r.stored

\* Technitium's is stored, about to be stored, was shown, or its body was cut off.
TechnitiumKnown(r) ==
    /\ r.accepted # {} => \/ r.stored \in r.accepted \/ shown \/ Technitium \in cut
                          \/ Here("storeWarn", Technitium)
    /\ Here("storeWarn", Technitium) => r.hand \in r.accepted \/ shown \/ Technitium \in cut

\* Paperless's is stored, about to be stored, or its body was cut off.
PaperlessKnown(r) ==
    /\ r.accepted # {} => \/ r.stored \in r.accepted \/ Paperless \in cut
                          \/ Here("store", Paperless)
    /\ Here("store", Paperless) => r.hand \in r.accepted

AdminsInv ==
    /\ \A a \in Admins \cap Cred : AdminRecord(cred[a])
    /\ Jellyfin \in Cred => JellyfinKnown(cred[Jellyfin])
    /\ Technitium \in Cred => TechnitiumKnown(cred[Technitium])
    /\ Paperless \in Cred => PaperlessKnown(cred[Paperless])

NodeInv == NodePlace /\ AdminsInv

\* To the next step of the body, or out of it.
Advances == at' = at /\ step' = step + 1 /\ step < Len(BodyOf(Body))
Leaves   == step' = 1 /\ at' \in 0 .. Len(agenda)

\* The body at work has the shape.
LEMMA ShapeHere == ASSUME NodePlace, at > 0 PROVE Body \in NodeBodies /\ Shape(BodyOf(Body))
PROOF
  <1>1. Body \in NodeBodies
    BY ElementOfSeq DEF NodePlace, Body
  <1> QED BY <1>1, Shapes

\* How a body goes on.
LEMMA GoesOn ==
    ASSUME NodePlace, at > 0
    PROVE  (\A done : MoveOn(done) => Leaves) /\ (Onward => Advances \/ Leaves)
PROOF
  <1>1. Len(agenda) \in Nat /\ at \in 1 .. Len(agenda) /\ step \in 1 .. Len(BodyOf(Body)) /\ Len(BodyOf(Body)) \in Nat
    BY LenProperties, ShapeHere DEF NodePlace, Shape
  <1>2. ASSUME NEW done, MoveOn(done) PROVE Leaves
    BY <1>1, <1>2 DEF MoveOn, Leaves
  <1>3. ASSUME Onward PROVE Advances \/ Leaves
    <2>1. CASE step = Len(BodyOf(Body))
      BY <1>2, <1>3, <2>1 DEF Onward
    <2>2. CASE step # Len(BodyOf(Body))
      BY <1>1, <1>3, <2>2 DEF Onward, Advances
    <2> QED BY <2>1, <2>2
  <1> QED BY <1>2, <1>3

\* It stays at one of its steps.
LEMMA StaysPlaced ==
    ASSUME NodePlace, agenda' = agenda, Leaves \/ (at > 0 /\ Advances)
    PROVE  NodePlace'
PROOF
  <1>0. Len(agenda) \in Nat
    BY LenProperties DEF NodePlace
  <1>1. CASE Leaves
    <2>1. at' > 0 => Body' \in NodeBodies
      BY <1>1, ElementOfSeq DEF NodePlace, Body, Leaves
    <2>2. at' > 0 => Shape(BodyOf(Body'))
      BY <2>1, Shapes
    <2>3. at' > 0 => 1 \in 1 .. Len(BodyOf(Body'))
      BY <2>2 DEF Shape
    <2> QED BY <1>1, <2>3 DEF NodePlace, Leaves
  <1>2. CASE at > 0 /\ Advances
    <2>1. Body' = Body /\ Len(BodyOf(Body)) \in Nat
      BY <1>2, ShapeHere DEF Advances, Body, Shape
    <2> QED BY <1>0, <1>2, <2>1 DEF NodePlace, Advances
  <1> QED BY <1>1, <1>2

\* Whoever is at v now was at u before it.
LEMMA CameFrom ==
    ASSUME NodePlace, agenda' = agenda, Leaves \/ (at > 0 /\ Advances), NEW u, NEW v, NEW c,
           \A b \in NodeBodies : Behind(BodyOf(b), u, v, c), Here(v, c)'
    PROVE  Here(u, c) /\ Advances
PROOF
  <1>1. at' > 0 /\ BodyOf(Body')[step'] = <<v, c>>
    BY DEF Here
  <1>2. NodePlace'
    BY StaysPlaced
  <1>3. Body' \in NodeBodies /\ step' \in 1 .. Len(BodyOf(Body')) /\ Len(BodyOf(Body')) \in Nat
    BY <1>1, <1>2, ElementOfSeq, Shapes DEF NodePlace, Body, Shape
  <1>4. step' - 1 \in 1 .. Len(BodyOf(Body')) /\ BodyOf(Body')[step' - 1] = <<u, c>>
    BY <1>1, <1>3 DEF Behind
  <1>5. step' # 1
    <2>1. PICK last \in Nat : last = Len(BodyOf(Body'))
      BY <1>3
    <2>2. step' - 1 \in 1 .. last
      BY <1>4, <2>1
    <2> QED BY <2>2
  <1>6. at > 0 /\ Advances
    BY <1>5 DEF Leaves
  <1>7. step' - 1 = step /\ Body' = Body
    BY <1>6 DEF Advances, Body, NodePlace
  <1> QED BY <1>4, <1>6, <1>7 DEF Here

\* Whoever is at u and goes on is at v then.
LEMMA GoesTo ==
    ASSUME NodePlace, agenda' = agenda, NEW u, NEW v, NEW c, Onward, Here(u, c),
           \A b \in NodeBodies : Ahead(BodyOf(b), u, v, c)
    PROVE  Here(v, c)'
PROOF
  <1>1. at > 0 /\ BodyOf(Body)[step] = <<u, c>>
    BY DEF Here
  <1>2. Body \in NodeBodies /\ step \in 1 .. Len(BodyOf(Body)) /\ Len(BodyOf(Body)) \in Nat
    BY <1>1, ShapeHere DEF NodePlace, Shape
  <1>3. step + 1 \in 1 .. Len(BodyOf(Body)) /\ BodyOf(Body)[step + 1] = <<v, c>>
    BY <1>1, <1>2 DEF Ahead
  <1>4. step # Len(BodyOf(Body))
    BY <1>2, <1>3
  <1>5. step' = step + 1 /\ at' = at
    BY <1>4 DEF Onward
  <1>6. Body' = Body
    BY <1>5 DEF Body
  <1> QED BY <1>1, <1>3, <1>5, <1>6 DEF Here

\* The step at work is one of the shape.
LEMMA StepHere ==
    ASSUME NodePlace, NEW v, NEW c, Here(v, c)
    PROVE  /\ at > 0 /\ (c \in Admins => <<v, c>> \in AdminStep)
           /\ v \notin PlainVerb => <<v, c>> \in AdminStep
PROOF
  <1>1. at > 0 /\ BodyOf(Body)[step] = <<v, c>> /\ step \in 1 .. Len(BodyOf(Body))
    BY DEF Here, NodePlace
  <1>2. <<v, c>> \in PlainStep \cup AdminStep
    BY <1>1, ShapeHere DEF Shape
  <1>3. <<v, c>> \in PlainStep => c \in PlainCred /\ v \in PlainVerb
    BY DEF PlainStep
  <1>4. c \in Admins => c \notin PlainCred
    BY DEF Admins, PlainCred
  <1> QED BY <1>1, <1>2, <1>3, <1>4

\* Only one step is at work.
LEMMA OneStep == ASSUME NEW v, NEW c, NEW u, NEW d, Here(v, c), Here(u, d) PROVE u = v /\ c = d
PROOF BY DEF Here

\* What a step that leaves the administrators alone does to them.
Alone == /\ agenda' = agenda /\ shown' = shown /\ cut \subseteq cut'
         /\ DOMAIN cred' = DOMAIN cred
         /\ Leaves \/ (at > 0 /\ Advances)

\* No body goes on from the step that makes or keeps a first password, and one that leaves
\* it leaves the password known.
Apart ==
    /\ \/ Leaves
       \/ /\ ~Here("newPassword", Jellyfin) /\ ~Here("store", Jellyfin)
          /\ ~Here("defaultLogin", Technitium) /\ ~Here("adminRow", Paperless)
    /\ Here("storeWarn", Technitium) /\ Technitium \in Cred =>
          \/ shown \/ Technitium \in cut' \/ cred[Technitium].stored = cred[Technitium].hand
    /\ Here("store", Paperless) /\ Paperless \in Cred =>
          \/ Paperless \in cut' \/ cred[Paperless].stored = cred[Paperless].hand

\* The orders that the bodies of the administrators keep.
LEMMA Orders ==
    \A b \in NodeBodies :
       /\ Behind(BodyOf(b), "newPassword", "store", Jellyfin)
       /\ Behind(BodyOf(b), "store", "firstUser", Jellyfin)
       /\ Behind(BodyOf(b), "defaultLogin", "storeWarn", Technitium)
       /\ Ahead(BodyOf(b), "defaultLogin", "storeWarn", Technitium)
       /\ Behind(BodyOf(b), "adminRow", "store", Paperless)
       /\ Ahead(BodyOf(b), "adminRow", "store", Paperless)
PROOF BY Shapes DEF Shape

\* Where a step of an administrator comes from.
LEMMA Arrivals ==
    ASSUME NodePlace, agenda' = agenda, Leaves \/ (at > 0 /\ Advances)
    PROVE  /\ Here("store", Jellyfin)' => Here("newPassword", Jellyfin) /\ Advances
           /\ Here("firstUser", Jellyfin)' => Here("store", Jellyfin) /\ Advances
           /\ Here("storeWarn", Technitium)' => Here("defaultLogin", Technitium) /\ Advances
           /\ Here("store", Paperless)' => Here("adminRow", Paperless) /\ Advances
PROOF
  <1>1. ASSUME Here("store", Jellyfin)' PROVE Here("newPassword", Jellyfin) /\ Advances
    BY <1>1, Orders, CameFrom
  <1>2. ASSUME Here("firstUser", Jellyfin)' PROVE Here("store", Jellyfin) /\ Advances
    BY <1>2, Orders, CameFrom
  <1>3. ASSUME Here("storeWarn", Technitium)' PROVE Here("defaultLogin", Technitium) /\ Advances
    BY <1>3, Orders, CameFrom
  <1>4. ASSUME Here("store", Paperless)' PROVE Here("adminRow", Paperless) /\ Advances
    BY <1>4, Orders, CameFrom
  <1> QED BY <1>1, <1>2, <1>3, <1>4

\* A body that leaves goes to no later step.
LEMMA LeavesNotAdvances == ASSUME NodePlace, at > 0 PROVE ~(Leaves /\ Advances)
BY ShapeHere DEF NodePlace, Leaves, Advances, Shape

\* Such a step keeps the invariant.
LEMMA ApartKeeps ==
    ASSUME NodeInv, Alone, Apart, \A a \in Admins \cap Cred : cred'[a] = cred[a]
    PROVE  NodeInv'
PROOF
  <1>1. NodePlace /\ NodePlace' /\ AdminsInv
    BY StaysPlaced DEF NodeInv, Alone
  <1>2. /\ Here("store", Jellyfin)' => Here("newPassword", Jellyfin) /\ Advances
        /\ Here("firstUser", Jellyfin)' => Here("store", Jellyfin) /\ Advances
        /\ Here("storeWarn", Technitium)' => Here("defaultLogin", Technitium) /\ Advances
        /\ Here("store", Paperless)' => Here("adminRow", Paperless) /\ Advances
    BY <1>1, Arrivals DEF Alone
  <1>3. /\ Here("newPassword", Jellyfin) => at # 0
        /\ Here("store", Jellyfin) => at # 0
        /\ Here("defaultLogin", Technitium) => at # 0
        /\ Here("adminRow", Paperless) => at # 0
    BY DEF Here
  <1>4. /\ ~Here("store", Jellyfin)' /\ ~Here("firstUser", Jellyfin)' /\ ~Here("storeWarn", Technitium)'
        /\ ~Here("store", Paperless)'
    <2>1. Leaves /\ Advances => at = 0
      BY <1>1, LeavesNotAdvances DEF NodePlace
    <2>2. ~Here("newPassword", Jellyfin) \/ ~Advances
      BY <1>3, <2>1 DEF Apart
    <2>3. ~Here("store", Jellyfin) \/ ~Advances
      BY <1>3, <2>1 DEF Apart
    <2>4. ~Here("defaultLogin", Technitium) \/ ~Advances
      BY <1>3, <2>1 DEF Apart
    <2>5. ~Here("adminRow", Paperless) \/ ~Advances
      BY <1>3, <2>1 DEF Apart
    <2> QED BY <1>2, <2>2, <2>3, <2>4, <2>5
  <1>5. Cred' = Cred /\ \A a \in Admins \cap Cred : AdminRecord(cred'[a])
    BY <1>1 DEF AdminsInv, Alone, Cred
  <1>6. Admins = {Jellyfin, Technitium, Paperless}
    BY DEF Admins, Jellyfin, Technitium, Paperless
  <1>7. ASSUME Jellyfin \in Cred PROVE JellyfinKnown(cred[Jellyfin])'
    <2>1. cred'[Jellyfin] = cred[Jellyfin] /\ JellyfinKnown(cred[Jellyfin])
      BY <1>1, <1>6, <1>7 DEF AdminsInv
    <2> QED BY <1>4, <2>1 DEF JellyfinKnown
  <1>8. ASSUME Technitium \in Cred PROVE TechnitiumKnown(cred[Technitium])'
    <2>1. cred'[Technitium] = cred[Technitium] /\ TechnitiumKnown(cred[Technitium])
      BY <1>1, <1>6, <1>8 DEF AdminsInv
    <2>2. shown' = shown /\ cut \subseteq cut'
      BY DEF Alone
    <2>3. \/ ~Here("storeWarn", Technitium) \/ shown \/ Technitium \in cut'
          \/ cred[Technitium].stored = cred[Technitium].hand
      BY <1>8 DEF Apart
    <2> QED BY <1>4, <2>1, <2>2, <2>3 DEF TechnitiumKnown
  <1>9. ASSUME Paperless \in Cred PROVE PaperlessKnown(cred[Paperless])'
    <2>1. cred'[Paperless] = cred[Paperless] /\ PaperlessKnown(cred[Paperless])
      BY <1>1, <1>6, <1>9 DEF AdminsInv
    <2>2. cut \subseteq cut'
      BY DEF Alone
    <2>3. \/ ~Here("store", Paperless) \/ Paperless \in cut'
          \/ cred[Paperless].stored = cred[Paperless].hand
      BY <1>9 DEF Apart
    <2> QED BY <1>4, <2>1, <2>2, <2>3 DEF PaperlessKnown
  <1> QED BY <1>1, <1>5, <1>7, <1>8, <1>9 DEF NodeInv, AdminsInv

\* A step of another credential: its verb is none of an administrator's.
Elsewhere(c) ==
    /\ \E v : v \notin AdminVerb /\ Here(v, c)
    /\ Alone /\ \A a \in Cred : a # c => cred'[a] = cred[a]

\* It keeps the invariant.
LEMMA ElsewhereKeeps == ASSUME NodeInv, NEW c, Elsewhere(c) PROVE NodeInv'
PROOF
  <1>1. PICK v : v \notin AdminVerb /\ Here(v, c)
    BY DEF Elsewhere
  <1>2. \A d : d \in Admins => <<v, d>> \notin AdminStep
    BY <1>1 DEF AdminStep, AdminVerb
  <1>3. at > 0 /\ c \notin Admins
    BY <1>1, <1>2, StepHere DEF NodeInv
  <1>4. \A a \in Admins \cap Cred : cred'[a] = cred[a]
    BY <1>3 DEF Elsewhere
  <1>5. /\ v # "newPassword" /\ v # "store" /\ v # "defaultLogin" /\ v # "adminRow" /\ v # "storeWarn"
    BY <1>1 DEF AdminVerb
  <1>6. /\ ~Here("newPassword", Jellyfin) /\ ~Here("store", Jellyfin)
        /\ ~Here("defaultLogin", Technitium) /\ ~Here("adminRow", Paperless)
        /\ ~Here("storeWarn", Technitium) /\ ~Here("store", Paperless)
    BY <1>1, <1>5 DEF Here
  <1>7. Apart
    BY <1>6 DEF Apart
  <1> QED BY <1>4, <1>7, ApartKeeps DEF Elsewhere

\* The steps that touch no administrator.
PlainBodyStep(c) ==
    \/ EnsureOIDCClient(c) \/ reuseStoredOIDCSecret(c) \/ CreateOIDCClientSecret(c)
    \/ writeAppEnv(c) \/ Converge(c) \/ redeployBundle(c) \/ RestartLost(c)
    \/ SingleSignOn(c) \/ RevealToken(c) \/ EnsureTunnel(c) \/ EnableConnector(c)
    \/ ensureDefaultApp(c) \/ waitHealthy(c) \/ writeBootstrapCaddyJSON(c)
    \/ ensureExposureRecord(c) \/ waitForHTTPSRoutes(c) \/ probeWoodpeckerUser(c)
    \/ ReprobeAdmin(c) \/ bindSCM(c) \/ GenerateSecretFile(c) \/ DeriveURL(c)
    \/ MirrorToBroker(c) \/ ensurePostgresAuth(c) \/ BotUser(c)
    \/ validateForgejoToken(c) \/ GenerateToken(c) \/ RecreateToken(c) \/ OAuthApp(c)
    \/ ReplaceSecretFile(c) \/ OAuthFiles(c) \/ AliasAvailable(c) \/ DeferHermes(c)
    \/ AdoptKey(c) \/ AdoptLost(c) \/ IssueKey(c) \/ KeepToken(c)

\* They are steps of another credential.
LEMMA PlainSteps == ASSUME NodeInv, NEW c \in Cred, PlainBodyStep(c) PROVE Elsewhere(c)
PROOF
  <1> DEFINE Goes == (Leaves \/ (at > 0 /\ Advances)) /\ agenda' = agenda /\ shown' = shown /\ cut \subseteq cut'
  <1> DEFINE Same == agenda' = agenda /\ shown' = shown
  <1>a. ASSUME at > 0, Same PROVE (Advance => Goes) /\ (Return => Goes) /\ (Defer => Goes)
    BY <1>a, GoesOn DEF Advance, Return, Defer, NodeInv, flaws
  <1>e. \A v : Does(v, c) => Here(v, c) /\ at > 0 /\ Same
    BY DEF Does, Here, nodeEnv
  <1>b. ASSUME NEW v, v \notin AdminVerb, Here(v, c), Goes, DOMAIN cred' = DOMAIN cred,
               \A a \in Cred : a # c => cred'[a] = cred[a]
        PROVE  Elsewhere(c)
    BY <1>b DEF Elsewhere, Alone
  <1> HIDE DEF Goes, Same
  <1>c. ASSUME NEW r, Put(c, r) PROVE DOMAIN cred' = DOMAIN cred /\ \A a \in Cred : a # c => cred'[a] = cred[a]
    BY <1>c DEF Put, Cred
  <1>d. ASSUME cred' = cred PROVE DOMAIN cred' = DOMAIN cred /\ \A a \in Cred : a # c => cred'[a] = cred[a]
    BY <1>d
  <1>1. ASSUME EnsureOIDCClient(c) PROVE Elsewhere(c)
    <2>1. Does("client", c)
      BY <1>1 DEF EnsureOIDCClient
    <2>2. "client" \notin AdminVerb
      BY DEF AdminVerb
    <2>3. Here("client", c) /\ Goes
      <3>1. Here("client", c) /\ at > 0 /\ Same
        BY <2>1 DEF Does, Here, nodeEnv, Same
      <3>2. (Advance => Goes) /\ (Return => Goes) /\ (Defer => Goes)
        BY <1>a, <3>1
      <3> QED BY <1>1, <3>1, <3>2 DEF EnsureOIDCClient
    <2>4. DOMAIN cred' = DOMAIN cred /\ \A a \in Cred : a # c => cred'[a] = cred[a]
      BY <1>c, <1>d, <1>1 DEF EnsureOIDCClient
    <2> QED BY <1>b, <2>2, <2>3, <2>4
  <1>2. ASSUME reuseStoredOIDCSecret(c) PROVE Elsewhere(c)
    <2>1. Does("reuse", c)
      BY <1>2 DEF reuseStoredOIDCSecret
    <2>2. "reuse" \notin AdminVerb
      BY DEF AdminVerb
    <2>3. Here("reuse", c) /\ Goes
      <3>1. Here("reuse", c) /\ at > 0 /\ Same
        BY <2>1 DEF Does, Here, nodeEnv, Same
      <3>2. (Advance => Goes) /\ (Return => Goes) /\ (Defer => Goes)
        BY <1>a, <3>1
      <3> QED BY <1>2, <3>1, <3>2 DEF reuseStoredOIDCSecret
    <2>4. DOMAIN cred' = DOMAIN cred /\ \A a \in Cred : a # c => cred'[a] = cred[a]
      BY <1>c, <1>d, <1>2 DEF reuseStoredOIDCSecret
    <2> QED BY <1>b, <2>2, <2>3, <2>4
  <1>3. ASSUME CreateOIDCClientSecret(c) PROVE Elsewhere(c)
    <2>1. Does("rotate", c)
      BY <1>3 DEF CreateOIDCClientSecret
    <2>2. "rotate" \notin AdminVerb
      BY DEF AdminVerb
    <2>3. Here("rotate", c) /\ Goes
      <3>1. Here("rotate", c) /\ at > 0 /\ Same
        BY <2>1 DEF Does, Here, nodeEnv, Same
      <3>2. (Advance => Goes) /\ (Return => Goes) /\ (Defer => Goes)
        BY <1>a, <3>1
      <3> QED BY <1>3, <3>1, <3>2 DEF CreateOIDCClientSecret
    <2>4. DOMAIN cred' = DOMAIN cred /\ \A a \in Cred : a # c => cred'[a] = cred[a]
      BY <1>c, <1>d, <1>3 DEF CreateOIDCClientSecret
    <2> QED BY <1>b, <2>2, <2>3, <2>4
  <1>4. ASSUME writeAppEnv(c) PROVE Elsewhere(c)
    <2>1. Does("write", c)
      BY <1>4 DEF writeAppEnv
    <2>2. "write" \notin AdminVerb
      BY DEF AdminVerb
    <2>3. Here("write", c) /\ Goes
      <3>1. Here("write", c) /\ at > 0 /\ Same
        BY <2>1 DEF Does, Here, nodeEnv, Same
      <3>2. (Advance => Goes) /\ (Return => Goes) /\ (Defer => Goes)
        BY <1>a, <3>1
      <3> QED BY <1>4, <3>1, <3>2 DEF writeAppEnv
    <2>4. DOMAIN cred' = DOMAIN cred /\ \A a \in Cred : a # c => cred'[a] = cred[a]
      BY <1>c, <1>d, <1>4 DEF writeAppEnv
    <2> QED BY <1>b, <2>2, <2>3, <2>4
  <1>5. ASSUME Converge(c) PROVE Elsewhere(c)
    <2>1. PICK v \in {"converge", "tryConverge"} : Does(v, c)
      BY <1>5 DEF Converge
    <2>2. v \notin AdminVerb
      BY DEF AdminVerb
    <2>3. Here(v, c) /\ Goes
      <3>1. Here(v, c) /\ at > 0 /\ Same
        BY <1>e, <2>1
      <3>2. MoveOn(ok \cup {Body}) \/ Onward
        BY <1>5 DEF Converge
      <3>3. cut' = cut
        BY <1>5 DEF Converge
      <3> QED BY <3>1, <3>2, <3>3, GoesOn DEF NodeInv, Goes, Same
    <2>4. DOMAIN cred' = DOMAIN cred /\ \A a \in Cred : a # c => cred'[a] = cred[a]
      BY <1>c, <1>d, <1>5 DEF Converge
    <2> QED BY <1>b, <2>2, <2>3, <2>4
  <1>6. ASSUME redeployBundle(c) PROVE Elsewhere(c)
    <2>1. PICK v \in {"restart", "tryRestart", "systemctlRestart"} : Does(v, c)
      BY <1>6 DEF redeployBundle
    <2>2. v \notin AdminVerb
      BY DEF AdminVerb
    <2>3. Here(v, c) /\ Goes
      <3>1. Here(v, c) /\ at > 0 /\ Same
        BY <1>e, <2>1
      <3>2. (Advance => Goes) /\ (Return => Goes) /\ (Defer => Goes)
        BY <1>a, <3>1
      <3> QED BY <1>6, <3>1, <3>2 DEF redeployBundle
    <2>4. DOMAIN cred' = DOMAIN cred /\ \A a \in Cred : a # c => cred'[a] = cred[a]
      BY <1>c, <1>d, <1>6 DEF redeployBundle
    <2> QED BY <1>b, <2>2, <2>3, <2>4
  <1>7. ASSUME RestartLost(c) PROVE Elsewhere(c)
    <2>1. PICK v \in {"tryRestart", "systemctlRestart"} : PassedOver(v, c)
      BY <1>7 DEF RestartLost
    <2>2. Here(v, c) /\ at > 0 /\ agenda' = agenda /\ shown' = shown
      BY <2>1 DEF PassedOver, Here, nodeEnv
    <2>3. cut \subseteq cut' /\ Onward
      BY <1>7 DEF RestartLost
    <2>4. Goes
      BY <2>2, <2>3, GoesOn DEF NodeInv, Goes
    <2>5. v \notin AdminVerb
      BY DEF AdminVerb
    <2>6. \E r : Put(c, r)
      BY <1>7 DEF RestartLost
    <2> QED BY <1>b, <1>c, <2>2, <2>4, <2>5, <2>6
  <1>8. ASSUME SingleSignOn(c) PROVE Elsewhere(c)
    <2>1. Does("sso", c)
      BY <1>8 DEF SingleSignOn
    <2>2. "sso" \notin AdminVerb
      BY DEF AdminVerb
    <2>3. Here("sso", c) /\ Goes
      <3>1. Here("sso", c) /\ at > 0 /\ Same
        BY <2>1 DEF Does, Here, nodeEnv, Same
      <3>2. (Advance => Goes) /\ (Return => Goes) /\ (Defer => Goes)
        BY <1>a, <3>1
      <3> QED BY <1>8, <3>1, <3>2 DEF SingleSignOn
    <2>4. DOMAIN cred' = DOMAIN cred /\ \A a \in Cred : a # c => cred'[a] = cred[a]
      BY <1>c, <1>d, <1>8 DEF SingleSignOn
    <2> QED BY <1>b, <2>2, <2>3, <2>4
  <1>9. ASSUME RevealToken(c) PROVE Elsewhere(c)
    <2>1. Does("reveal", c)
      BY <1>9 DEF RevealToken
    <2>2. "reveal" \notin AdminVerb
      BY DEF AdminVerb
    <2>3. Here("reveal", c) /\ Goes
      <3>1. Here("reveal", c) /\ at > 0 /\ Same
        BY <2>1 DEF Does, Here, nodeEnv, Same
      <3>2. (Advance => Goes) /\ (Return => Goes) /\ (Defer => Goes)
        BY <1>a, <3>1
      <3> QED BY <1>9, <3>1, <3>2 DEF RevealToken
    <2>4. DOMAIN cred' = DOMAIN cred /\ \A a \in Cred : a # c => cred'[a] = cred[a]
      BY <1>c, <1>d, <1>9 DEF RevealToken
    <2> QED BY <1>b, <2>2, <2>3, <2>4
  <1>10. ASSUME EnsureTunnel(c) PROVE Elsewhere(c)
    <2>1. Does("tunnel", c)
      BY <1>10 DEF EnsureTunnel
    <2>2. "tunnel" \notin AdminVerb
      BY DEF AdminVerb
    <2>3. Here("tunnel", c) /\ Goes
      <3>1. Here("tunnel", c) /\ at > 0 /\ Same
        BY <2>1 DEF Does, Here, nodeEnv, Same
      <3>2. (Advance => Goes) /\ (Return => Goes) /\ (Defer => Goes)
        BY <1>a, <3>1
      <3> QED BY <1>10, <3>1, <3>2 DEF EnsureTunnel
    <2>4. DOMAIN cred' = DOMAIN cred /\ \A a \in Cred : a # c => cred'[a] = cred[a]
      BY <1>c, <1>d, <1>10 DEF EnsureTunnel
    <2> QED BY <1>b, <2>2, <2>3, <2>4
  <1>11. ASSUME EnableConnector(c) PROVE Elsewhere(c)
    <2>1. Does("enable", c)
      BY <1>11 DEF EnableConnector
    <2>2. "enable" \notin AdminVerb
      BY DEF AdminVerb
    <2>3. Here("enable", c) /\ Goes
      <3>1. Here("enable", c) /\ at > 0 /\ Same
        BY <2>1 DEF Does, Here, nodeEnv, Same
      <3>2. (Advance => Goes) /\ (Return => Goes) /\ (Defer => Goes)
        BY <1>a, <3>1
      <3> QED BY <1>11, <3>1, <3>2 DEF EnableConnector
    <2>4. DOMAIN cred' = DOMAIN cred /\ \A a \in Cred : a # c => cred'[a] = cred[a]
      BY <1>c, <1>d, <1>11 DEF EnableConnector
    <2> QED BY <1>b, <2>2, <2>3, <2>4
  <1>12. ASSUME ensureDefaultApp(c) PROVE Elsewhere(c)
    <2>1. PICK v \in {"install", "tryInstall"} : Does(v, c)
      BY <1>12 DEF ensureDefaultApp
    <2>2. v \notin AdminVerb
      BY DEF AdminVerb
    <2>3. Here(v, c) /\ Goes
      <3>1. Here(v, c) /\ at > 0 /\ Same
        BY <1>e, <2>1
      <3>2. (Advance => Goes) /\ (Return => Goes) /\ (Defer => Goes)
        BY <1>a, <3>1
      <3> QED BY <1>12, <3>1, <3>2 DEF ensureDefaultApp
    <2>4. DOMAIN cred' = DOMAIN cred /\ \A a \in Cred : a # c => cred'[a] = cred[a]
      BY <1>c, <1>d, <1>12 DEF ensureDefaultApp
    <2> QED BY <1>b, <2>2, <2>3, <2>4
  <1>13. ASSUME waitHealthy(c) PROVE Elsewhere(c)
    <2>1. Does("healthy", c)
      BY <1>13 DEF waitHealthy
    <2>2. "healthy" \notin AdminVerb
      BY DEF AdminVerb
    <2>3. Here("healthy", c) /\ Goes
      <3>1. Here("healthy", c) /\ at > 0 /\ Same
        BY <2>1 DEF Does, Here, nodeEnv, Same
      <3>2. (Advance => Goes) /\ (Return => Goes) /\ (Defer => Goes)
        BY <1>a, <3>1
      <3> QED BY <1>13, <3>1, <3>2 DEF waitHealthy
    <2>4. DOMAIN cred' = DOMAIN cred /\ \A a \in Cred : a # c => cred'[a] = cred[a]
      BY <1>c, <1>d, <1>13 DEF waitHealthy
    <2> QED BY <1>b, <2>2, <2>3, <2>4
  <1>14. ASSUME writeBootstrapCaddyJSON(c) PROVE Elsewhere(c)
    <2>1. Does("bootstrap", c)
      BY <1>14 DEF writeBootstrapCaddyJSON
    <2>2. "bootstrap" \notin AdminVerb
      BY DEF AdminVerb
    <2>3. Here("bootstrap", c) /\ Goes
      <3>1. Here("bootstrap", c) /\ at > 0 /\ Same
        BY <2>1 DEF Does, Here, nodeEnv, Same
      <3>2. (Advance => Goes) /\ (Return => Goes) /\ (Defer => Goes)
        BY <1>a, <3>1
      <3> QED BY <1>14, <3>1, <3>2 DEF writeBootstrapCaddyJSON
    <2>4. DOMAIN cred' = DOMAIN cred /\ \A a \in Cred : a # c => cred'[a] = cred[a]
      BY <1>c, <1>d, <1>14 DEF writeBootstrapCaddyJSON
    <2> QED BY <1>b, <2>2, <2>3, <2>4
  <1>15. ASSUME ensureExposureRecord(c) PROVE Elsewhere(c)
    <2>1. Does("record", c)
      BY <1>15 DEF ensureExposureRecord
    <2>2. "record" \notin AdminVerb
      BY DEF AdminVerb
    <2>3. Here("record", c) /\ Goes
      <3>1. Here("record", c) /\ at > 0 /\ Same
        BY <2>1 DEF Does, Here, nodeEnv, Same
      <3>2. (Advance => Goes) /\ (Return => Goes) /\ (Defer => Goes)
        BY <1>a, <3>1
      <3> QED BY <1>15, <3>1, <3>2 DEF ensureExposureRecord
    <2>4. DOMAIN cred' = DOMAIN cred /\ \A a \in Cred : a # c => cred'[a] = cred[a]
      BY <1>c, <1>d, <1>15 DEF ensureExposureRecord
    <2> QED BY <1>b, <2>2, <2>3, <2>4
  <1>16. ASSUME waitForHTTPSRoutes(c) PROVE Elsewhere(c)
    <2>1. Does("https", c)
      BY <1>16 DEF waitForHTTPSRoutes
    <2>2. "https" \notin AdminVerb
      BY DEF AdminVerb
    <2>3. Here("https", c) /\ Goes
      <3>1. Here("https", c) /\ at > 0 /\ Same
        BY <2>1 DEF Does, Here, nodeEnv, Same
      <3>2. (Advance => Goes) /\ (Return => Goes) /\ (Defer => Goes)
        BY <1>a, <3>1
      <3> QED BY <1>16, <3>1, <3>2 DEF waitForHTTPSRoutes
    <2>4. DOMAIN cred' = DOMAIN cred /\ \A a \in Cred : a # c => cred'[a] = cred[a]
      BY <1>c, <1>d, <1>16 DEF waitForHTTPSRoutes
    <2> QED BY <1>b, <2>2, <2>3, <2>4
  <1>17. ASSUME probeWoodpeckerUser(c) PROVE Elsewhere(c)
    <2>1. Does("probe", c)
      BY <1>17 DEF probeWoodpeckerUser
    <2>2. "probe" \notin AdminVerb
      BY DEF AdminVerb
    <2>3. Here("probe", c) /\ Goes
      <3>1. Here("probe", c) /\ at > 0 /\ Same
        BY <2>1 DEF Does, Here, nodeEnv, Same
      <3>2. (Advance => Goes) /\ (Return => Goes) /\ (Defer => Goes)
        BY <1>a, <3>1
      <3> QED BY <1>17, <3>1, <3>2 DEF probeWoodpeckerUser
    <2>4. DOMAIN cred' = DOMAIN cred /\ \A a \in Cred : a # c => cred'[a] = cred[a]
      BY <1>c, <1>d, <1>17 DEF probeWoodpeckerUser
    <2> QED BY <1>b, <2>2, <2>3, <2>4
  <1>18. ASSUME ReprobeAdmin(c) PROVE Elsewhere(c)
    <2>1. Does("reprobe", c)
      BY <1>18 DEF ReprobeAdmin
    <2>2. "reprobe" \notin AdminVerb
      BY DEF AdminVerb
    <2>3. Here("reprobe", c) /\ Goes
      <3>1. Here("reprobe", c) /\ at > 0 /\ Same
        BY <2>1 DEF Does, Here, nodeEnv, Same
      <3>2. (Advance => Goes) /\ (Return => Goes) /\ (Defer => Goes)
        BY <1>a, <3>1
      <3> QED BY <1>18, <3>1, <3>2 DEF ReprobeAdmin
    <2>4. DOMAIN cred' = DOMAIN cred /\ \A a \in Cred : a # c => cred'[a] = cred[a]
      BY <1>c, <1>d, <1>18 DEF ReprobeAdmin
    <2> QED BY <1>b, <2>2, <2>3, <2>4
  <1>19. ASSUME bindSCM(c) PROVE Elsewhere(c)
    <2>1. Does("bind", c)
      BY <1>19 DEF bindSCM
    <2>2. "bind" \notin AdminVerb
      BY DEF AdminVerb
    <2>3. Here("bind", c) /\ Goes
      <3>1. Here("bind", c) /\ at > 0 /\ Same
        BY <2>1 DEF Does, Here, nodeEnv, Same
      <3>2. (Advance => Goes) /\ (Return => Goes) /\ (Defer => Goes)
        BY <1>a, <3>1
      <3> QED BY <1>19, <3>1, <3>2 DEF bindSCM
    <2>4. DOMAIN cred' = DOMAIN cred /\ \A a \in Cred : a # c => cred'[a] = cred[a]
      BY <1>c, <1>d, <1>19 DEF bindSCM
    <2> QED BY <1>b, <2>2, <2>3, <2>4
  <1>20. ASSUME GenerateSecretFile(c) PROVE Elsewhere(c)
    <2>1. Does("generateFile", c)
      BY <1>20 DEF GenerateSecretFile
    <2>2. "generateFile" \notin AdminVerb
      BY DEF AdminVerb
    <2>3. Here("generateFile", c) /\ Goes
      <3>1. Here("generateFile", c) /\ at > 0 /\ Same
        BY <2>1 DEF Does, Here, nodeEnv, Same
      <3>2. (Advance => Goes) /\ (Return => Goes) /\ (Defer => Goes)
        BY <1>a, <3>1
      <3> QED BY <1>20, <3>1, <3>2 DEF GenerateSecretFile
    <2>4. DOMAIN cred' = DOMAIN cred /\ \A a \in Cred : a # c => cred'[a] = cred[a]
      BY <1>c, <1>d, <1>20 DEF GenerateSecretFile
    <2> QED BY <1>b, <2>2, <2>3, <2>4
  <1>21. ASSUME DeriveURL(c) PROVE Elsewhere(c)
    <2>1. Does("derive", c)
      BY <1>21 DEF DeriveURL
    <2>2. "derive" \notin AdminVerb
      BY DEF AdminVerb
    <2>3. Here("derive", c) /\ Goes
      <3>1. Here("derive", c) /\ at > 0 /\ Same
        BY <2>1 DEF Does, Here, nodeEnv, Same
      <3>2. (Advance => Goes) /\ (Return => Goes) /\ (Defer => Goes)
        BY <1>a, <3>1
      <3> QED BY <1>21, <3>1, <3>2 DEF DeriveURL
    <2>4. DOMAIN cred' = DOMAIN cred /\ \A a \in Cred : a # c => cred'[a] = cred[a]
      BY <1>c, <1>d, <1>21 DEF DeriveURL
    <2> QED BY <1>b, <2>2, <2>3, <2>4
  <1>22. ASSUME MirrorToBroker(c) PROVE Elsewhere(c)
    <2>1. Does("mirror", c)
      BY <1>22 DEF MirrorToBroker
    <2>2. "mirror" \notin AdminVerb
      BY DEF AdminVerb
    <2>3. Here("mirror", c) /\ Goes
      <3>1. Here("mirror", c) /\ at > 0 /\ Same
        BY <2>1 DEF Does, Here, nodeEnv, Same
      <3>2. (Advance => Goes) /\ (Return => Goes) /\ (Defer => Goes)
        BY <1>a, <3>1
      <3> QED BY <1>22, <3>1, <3>2 DEF MirrorToBroker
    <2>4. DOMAIN cred' = DOMAIN cred /\ \A a \in Cred : a # c => cred'[a] = cred[a]
      BY <1>c, <1>d, <1>22 DEF MirrorToBroker
    <2> QED BY <1>b, <2>2, <2>3, <2>4
  <1>23. ASSUME ensurePostgresAuth(c) PROVE Elsewhere(c)
    <2>1. Does("role", c)
      BY <1>23 DEF ensurePostgresAuth
    <2>2. "role" \notin AdminVerb
      BY DEF AdminVerb
    <2>3. Here("role", c) /\ Goes
      <3>1. Here("role", c) /\ at > 0 /\ Same
        BY <2>1 DEF Does, Here, nodeEnv, Same
      <3>2. (Advance => Goes) /\ (Return => Goes) /\ (Defer => Goes)
        BY <1>a, <3>1
      <3> QED BY <1>23, <3>1, <3>2 DEF ensurePostgresAuth
    <2>4. DOMAIN cred' = DOMAIN cred /\ \A a \in Cred : a # c => cred'[a] = cred[a]
      BY <1>c, <1>d, <1>23 DEF ensurePostgresAuth
    <2> QED BY <1>b, <2>2, <2>3, <2>4
  <1>24. ASSUME BotUser(c) PROVE Elsewhere(c)
    <2>1. Does("botUser", c)
      BY <1>24 DEF BotUser
    <2>2. "botUser" \notin AdminVerb
      BY DEF AdminVerb
    <2>3. Here("botUser", c) /\ Goes
      <3>1. Here("botUser", c) /\ at > 0 /\ Same
        BY <2>1 DEF Does, Here, nodeEnv, Same
      <3>2. (Advance => Goes) /\ (Return => Goes) /\ (Defer => Goes)
        BY <1>a, <3>1
      <3> QED BY <1>24, <3>1, <3>2 DEF BotUser
    <2>4. DOMAIN cred' = DOMAIN cred /\ \A a \in Cred : a # c => cred'[a] = cred[a]
      BY <1>c, <1>d, <1>24 DEF BotUser
    <2> QED BY <1>b, <2>2, <2>3, <2>4
  <1>25. ASSUME validateForgejoToken(c) PROVE Elsewhere(c)
    <2>1. Does("validate", c)
      BY <1>25 DEF validateForgejoToken
    <2>2. "validate" \notin AdminVerb
      BY DEF AdminVerb
    <2>3. Here("validate", c) /\ Goes
      <3>1. Here("validate", c) /\ at > 0 /\ Same
        BY <2>1 DEF Does, Here, nodeEnv, Same
      <3>2. (Advance => Goes) /\ (Return => Goes) /\ (Defer => Goes)
        BY <1>a, <3>1
      <3> QED BY <1>25, <3>1, <3>2 DEF validateForgejoToken
    <2>4. DOMAIN cred' = DOMAIN cred /\ \A a \in Cred : a # c => cred'[a] = cred[a]
      BY <1>c, <1>d, <1>25 DEF validateForgejoToken
    <2> QED BY <1>b, <2>2, <2>3, <2>4
  <1>26. ASSUME GenerateToken(c) PROVE Elsewhere(c)
    <2>1. Does("generate", c)
      BY <1>26 DEF GenerateToken
    <2>2. "generate" \notin AdminVerb
      BY DEF AdminVerb
    <2>3. Here("generate", c) /\ Goes
      <3>1. Here("generate", c) /\ at > 0 /\ Same
        BY <2>1 DEF Does, Here, nodeEnv, Same
      <3>2. (Advance => Goes) /\ (Return => Goes) /\ (Defer => Goes)
        BY <1>a, <3>1
      <3> QED BY <1>26, <3>1, <3>2 DEF GenerateToken
    <2>4. DOMAIN cred' = DOMAIN cred /\ \A a \in Cred : a # c => cred'[a] = cred[a]
      BY <1>c, <1>d, <1>26 DEF GenerateToken
    <2> QED BY <1>b, <2>2, <2>3, <2>4
  <1>27. ASSUME RecreateToken(c) PROVE Elsewhere(c)
    <2>1. Does("recreate", c)
      BY <1>27 DEF RecreateToken
    <2>2. "recreate" \notin AdminVerb
      BY DEF AdminVerb
    <2>3. Here("recreate", c) /\ Goes
      <3>1. Here("recreate", c) /\ at > 0 /\ Same
        BY <2>1 DEF Does, Here, nodeEnv, Same
      <3>2. (Advance => Goes) /\ (Return => Goes) /\ (Defer => Goes)
        BY <1>a, <3>1
      <3> QED BY <1>27, <3>1, <3>2 DEF RecreateToken
    <2>4. DOMAIN cred' = DOMAIN cred /\ \A a \in Cred : a # c => cred'[a] = cred[a]
      BY <1>c, <1>d, <1>27 DEF RecreateToken
    <2> QED BY <1>b, <2>2, <2>3, <2>4
  <1>28. ASSUME OAuthApp(c) PROVE Elsewhere(c)
    <2>1. Does("oauthApp", c)
      BY <1>28 DEF OAuthApp
    <2>2. "oauthApp" \notin AdminVerb
      BY DEF AdminVerb
    <2>3. Here("oauthApp", c) /\ Goes
      <3>1. Here("oauthApp", c) /\ at > 0 /\ Same
        BY <2>1 DEF Does, Here, nodeEnv, Same
      <3>2. (Advance => Goes) /\ (Return => Goes) /\ (Defer => Goes)
        BY <1>a, <3>1
      <3> QED BY <1>28, <3>1, <3>2 DEF OAuthApp
    <2>4. DOMAIN cred' = DOMAIN cred /\ \A a \in Cred : a # c => cred'[a] = cred[a]
      BY <1>c, <1>d, <1>28 DEF OAuthApp
    <2> QED BY <1>b, <2>2, <2>3, <2>4
  <1>29. ASSUME ReplaceSecretFile(c) PROVE Elsewhere(c)
    <2>1. Does("secretFile", c)
      BY <1>29 DEF ReplaceSecretFile
    <2>2. "secretFile" \notin AdminVerb
      BY DEF AdminVerb
    <2>3. Here("secretFile", c) /\ Goes
      <3>1. Here("secretFile", c) /\ at > 0 /\ Same
        BY <2>1 DEF Does, Here, nodeEnv, Same
      <3>2. (Advance => Goes) /\ (Return => Goes) /\ (Defer => Goes)
        BY <1>a, <3>1
      <3> QED BY <1>29, <3>1, <3>2 DEF ReplaceSecretFile
    <2>4. DOMAIN cred' = DOMAIN cred /\ \A a \in Cred : a # c => cred'[a] = cred[a]
      BY <1>c, <1>d, <1>29 DEF ReplaceSecretFile
    <2> QED BY <1>b, <2>2, <2>3, <2>4
  <1>30. ASSUME OAuthFiles(c) PROVE Elsewhere(c)
    <2>1. Does("oauthFiles", c)
      BY <1>30 DEF OAuthFiles
    <2>2. "oauthFiles" \notin AdminVerb
      BY DEF AdminVerb
    <2>3. Here("oauthFiles", c) /\ Goes
      <3>1. Here("oauthFiles", c) /\ at > 0 /\ Same
        BY <2>1 DEF Does, Here, nodeEnv, Same
      <3>2. (Advance => Goes) /\ (Return => Goes) /\ (Defer => Goes)
        BY <1>a, <3>1
      <3> QED BY <1>30, <3>1, <3>2 DEF OAuthFiles
    <2>4. DOMAIN cred' = DOMAIN cred /\ \A a \in Cred : a # c => cred'[a] = cred[a]
      BY <1>c, <1>d, <1>30 DEF OAuthFiles
    <2> QED BY <1>b, <2>2, <2>3, <2>4
  <1>31. ASSUME AliasAvailable(c) PROVE Elsewhere(c)
    <2>1. Does("alias", c)
      BY <1>31 DEF AliasAvailable
    <2>2. "alias" \notin AdminVerb
      BY DEF AdminVerb
    <2>3. Here("alias", c) /\ Goes
      <3>1. Here("alias", c) /\ at > 0 /\ Same
        BY <2>1 DEF Does, Here, nodeEnv, Same
      <3>2. (Advance => Goes) /\ (Return => Goes) /\ (Defer => Goes)
        BY <1>a, <3>1
      <3> QED BY <1>31, <3>1, <3>2 DEF AliasAvailable
    <2>4. DOMAIN cred' = DOMAIN cred /\ \A a \in Cred : a # c => cred'[a] = cred[a]
      BY <1>c, <1>d, <1>31 DEF AliasAvailable
    <2> QED BY <1>b, <2>2, <2>3, <2>4
  <1>32. ASSUME DeferHermes(c) PROVE Elsewhere(c)
    <2>1. Does("defer", c)
      BY <1>32 DEF DeferHermes
    <2>2. "defer" \notin AdminVerb
      BY DEF AdminVerb
    <2>3. Here("defer", c) /\ Goes
      <3>1. Here("defer", c) /\ at > 0 /\ Same
        BY <2>1 DEF Does, Here, nodeEnv, Same
      <3>2. (Advance => Goes) /\ (Return => Goes) /\ (Defer => Goes)
        BY <1>a, <3>1
      <3> QED BY <1>32, <3>1, <3>2 DEF DeferHermes
    <2>4. DOMAIN cred' = DOMAIN cred /\ \A a \in Cred : a # c => cred'[a] = cred[a]
      BY <1>c, <1>d, <1>32 DEF DeferHermes
    <2> QED BY <1>b, <2>2, <2>3, <2>4
  <1>33. ASSUME AdoptKey(c) PROVE Elsewhere(c)
    <2>1. Does("adopt", c)
      BY <1>33 DEF AdoptKey
    <2>2. "adopt" \notin AdminVerb
      BY DEF AdminVerb
    <2>3. Here("adopt", c) /\ Goes
      <3>1. Here("adopt", c) /\ at > 0 /\ Same
        BY <2>1 DEF Does, Here, nodeEnv, Same
      <3>2. (Advance => Goes) /\ (Return => Goes) /\ (Defer => Goes)
        BY <1>a, <3>1
      <3> QED BY <1>33, <3>1, <3>2 DEF AdoptKey
    <2>4. DOMAIN cred' = DOMAIN cred /\ \A a \in Cred : a # c => cred'[a] = cred[a]
      BY <1>c, <1>d, <1>33 DEF AdoptKey
    <2> QED BY <1>b, <2>2, <2>3, <2>4
  <1>34. ASSUME IssueKey(c) PROVE Elsewhere(c)
    <2>1. Does("issue", c)
      BY <1>34 DEF IssueKey
    <2>2. "issue" \notin AdminVerb
      BY DEF AdminVerb
    <2>3. Here("issue", c) /\ Goes
      <3>1. Here("issue", c) /\ at > 0 /\ Same
        BY <2>1 DEF Does, Here, nodeEnv, Same
      <3>2. (Advance => Goes) /\ (Return => Goes) /\ (Defer => Goes)
        BY <1>a, <3>1
      <3> QED BY <1>34, <3>1, <3>2 DEF IssueKey
    <2>4. DOMAIN cred' = DOMAIN cred /\ \A a \in Cred : a # c => cred'[a] = cred[a]
      BY <1>c, <1>d, <1>34 DEF IssueKey
    <2> QED BY <1>b, <2>2, <2>3, <2>4
  <1>35. ASSUME KeepToken(c) PROVE Elsewhere(c)
    <2>1. Does("keep", c)
      BY <1>35 DEF KeepToken
    <2>2. "keep" \notin AdminVerb
      BY DEF AdminVerb
    <2>3. Here("keep", c) /\ Goes
      <3>1. Here("keep", c) /\ at > 0 /\ Same
        BY <2>1 DEF Does, Here, nodeEnv, Same
      <3>2. (Advance => Goes) /\ (Return => Goes) /\ (Defer => Goes)
        BY <1>a, <3>1
      <3> QED BY <1>35, <3>1, <3>2 DEF KeepToken
    <2>4. DOMAIN cred' = DOMAIN cred /\ \A a \in Cred : a # c => cred'[a] = cred[a]
      BY <1>c, <1>d, <1>35 DEF KeepToken
    <2> QED BY <1>b, <2>2, <2>3, <2>4
  <1>36. ASSUME AdoptLost(c) PROVE Elsewhere(c)
    <2>1. PassedOver("adopt", c) /\ Advance
      BY <1>36 DEF AdoptLost
    <2>2. Here("adopt", c) /\ at > 0 /\ Same
      BY <2>1 DEF PassedOver, Here, nodeEnv, Same
    <2>3. Goes
      BY <1>a, <2>1, <2>2
    <2>4. "adopt" \notin AdminVerb
      BY DEF AdminVerb
    <2>5. \E r : Put(c, r)
      BY <1>36 DEF AdoptLost
    <2> QED BY <1>b, <1>c, <2>2, <2>3, <2>4, <2>5
  <1> QED BY <1>1, <1>2, <1>3, <1>4, <1>5, <1>6, <1>7, <1>8, <1>9, <1>10, <1>11, <1>12, <1>13, <1>14,
             <1>15, <1>16, <1>17, <1>18, <1>19, <1>20, <1>21, <1>22, <1>23, <1>24, <1>25, <1>26,
             <1>27, <1>28, <1>29, <1>30, <1>31, <1>32, <1>33, <1>34, <1>35, <1>36
          DEF PlainBodyStep

\* A step that changes no credential and is at none that makes or keeps a password.
LEMMA CalmKeeps ==
    ASSUME NodeInv, NEW v, NEW c, Here(v, c), Alone, cred' = cred,
           v \notin {"newPassword", "store", "defaultLogin", "adminRow", "storeWarn"}
    PROVE  NodeInv'
PROOF
  <1>1. /\ v # "newPassword" /\ v # "store" /\ v # "defaultLogin" /\ v # "adminRow" /\ v # "storeWarn"
    OBVIOUS
  <1>2. /\ ~Here("newPassword", Jellyfin) /\ ~Here("store", Jellyfin)
        /\ ~Here("defaultLogin", Technitium) /\ ~Here("adminRow", Paperless)
        /\ ~Here("storeWarn", Technitium) /\ ~Here("store", Paperless)
    BY <1>1 DEF Here
  <1>3. Apart
    BY <1>2 DEF Apart
  <1> QED BY <1>3, ApartKeeps

\* A step of one administrator is none of the others.
LEMMA OneAdmin ==
    ASSUME NodeInv, Alone, NEW a \in Admins \cap Cred, NEW v, Here(v, a),
           \A b \in Admins \cap Cred : b # a => cred'[b] = cred[b],
           AdminRecord(cred'[a]),
           a = Jellyfin => JellyfinKnown(cred[Jellyfin])',
           a = Technitium => TechnitiumKnown(cred[Technitium])',
           a = Paperless => PaperlessKnown(cred[Paperless])'
    PROVE  NodeInv'
PROOF
  <1>1. NodePlace /\ NodePlace' /\ AdminsInv
    BY StaysPlaced DEF NodeInv, Alone
  <1>2. /\ Here("store", Jellyfin)' => Here("newPassword", Jellyfin)
        /\ Here("firstUser", Jellyfin)' => Here("store", Jellyfin)
        /\ Here("storeWarn", Technitium)' => Here("defaultLogin", Technitium)
        /\ Here("store", Paperless)' => Here("adminRow", Paperless)
    BY <1>1, Arrivals DEF Alone
  <1>3. \A u, b : Here(u, b) => b = a
    BY DEF Here
  <1>4. Cred' = Cred /\ \A b \in Admins \cap Cred : AdminRecord(cred'[b])
    BY <1>1 DEF AdminsInv, Alone, Cred
  <1>5. shown' = shown /\ cut \subseteq cut'
    BY DEF Alone
  <1>6. ASSUME Jellyfin \in Cred PROVE JellyfinKnown(cred[Jellyfin])'
    <2> SUFFICES ASSUME a # Jellyfin PROVE JellyfinKnown(cred[Jellyfin])'
      OBVIOUS
    <2>1. cred'[Jellyfin] = cred[Jellyfin] /\ JellyfinKnown(cred[Jellyfin])
      BY <1>1, <1>6 DEF AdminsInv, Admins, Jellyfin
    <2>2. ~Here("newPassword", Jellyfin) /\ ~Here("store", Jellyfin)
      BY DEF Here
    <2> QED BY <1>2, <2>1, <2>2 DEF JellyfinKnown
  <1>7. ASSUME Technitium \in Cred PROVE TechnitiumKnown(cred[Technitium])'
    <2> SUFFICES ASSUME a # Technitium PROVE TechnitiumKnown(cred[Technitium])'
      OBVIOUS
    <2>1. cred'[Technitium] = cred[Technitium] /\ TechnitiumKnown(cred[Technitium])
      BY <1>1, <1>7 DEF AdminsInv, Admins, Technitium
    <2>2. ~Here("defaultLogin", Technitium) /\ ~Here("storeWarn", Technitium)
      BY DEF Here
    <2> QED BY <1>2, <1>5, <2>1, <2>2 DEF TechnitiumKnown
  <1>8. ASSUME Paperless \in Cred PROVE PaperlessKnown(cred[Paperless])'
    <2> SUFFICES ASSUME a # Paperless PROVE PaperlessKnown(cred[Paperless])'
      OBVIOUS
    <2>1. cred'[Paperless] = cred[Paperless] /\ PaperlessKnown(cred[Paperless])
      BY <1>1, <1>8 DEF AdminsInv, Admins, Paperless
    <2>2. ~Here("adminRow", Paperless) /\ ~Here("store", Paperless)
      BY DEF Here
    <2> QED BY <1>2, <1>5, <2>1, <2>2 DEF PaperlessKnown
  <1> QED BY <1>1, <1>4, <1>6, <1>7, <1>8 DEF NodeInv, AdminsInv

\* Nothing an administrator's password depends on is touched.
LEMMA UntouchedKeeps ==
    ASSUME NodeInv, UNCHANGED <<agenda, at, step, shown>>, cut \subseteq cut',
           DOMAIN cred' = DOMAIN cred,
           \A a \in Admins \cap Cred : cred'[a] = cred[a]
    PROVE  NodeInv'
PROOF
  <1>1. \A v, c : Here(v, c)' = Here(v, c)
    BY DEF Here, Body
  <1>2. NodePlace'
    BY DEF NodeInv, NodePlace, Body
  <1>3. Admins = {Jellyfin, Technitium, Paperless}
    BY DEF Admins, Jellyfin, Technitium, Paperless
  <1>4. Cred' = Cred
    BY DEF Cred
  <1>5. /\ Here("store", Jellyfin)' = Here("store", Jellyfin)
        /\ Here("firstUser", Jellyfin)' = Here("firstUser", Jellyfin)
        /\ Here("storeWarn", Technitium)' = Here("storeWarn", Technitium)
        /\ Here("store", Paperless)' = Here("store", Paperless)
    BY DEF Here, Body
  <1>6. Jellyfin \in Cred => JellyfinKnown(cred[Jellyfin])'
    BY <1>3, <1>5 DEF NodeInv, AdminsInv, JellyfinKnown
  <1>7. Technitium \in Cred => TechnitiumKnown(cred[Technitium])'
    BY <1>3, <1>5 DEF NodeInv, AdminsInv, TechnitiumKnown
  <1>8. Paperless \in Cred => PaperlessKnown(cred[Paperless])'
    BY <1>3, <1>5 DEF NodeInv, AdminsInv, PaperlessKnown
  <1> QED BY <1>2, <1>4, <1>6, <1>7, <1>8 DEF NodeInv, AdminsInv

\* What follows a step that only Does and goes on.
LEMMA DoesAlone ==
    ASSUME NodeInv, NEW v, NEW c, Does(v, c), Advance \/ Return \/ Defer, DOMAIN cred' = DOMAIN cred
    PROVE  /\ Alone /\ Here(v, c) /\ cut' = cut /\ shown' = shown
           /\ Return \/ Defer => Leaves
PROOF
  <1>1. Here(v, c) /\ agenda' = agenda /\ shown' = shown /\ at > 0
    BY DEF Does, nodeEnv, Here
  <1>2. (\A done : MoveOn(done) => Leaves) /\ (Onward => Advances \/ Leaves)
    BY <1>1, GoesOn DEF NodeInv
  <1> QED BY <1>1, <1>2 DEF Advance, Return, Defer, Alone, flaws

\* What follows a call that fails and is passed over.
LEMMA PassedOverAlone ==
    ASSUME NodeInv, NEW v, NEW c, PassedOver(v, c), Onward \/ MoveOn(ok \cup {Body}), cred' = cred,
           cut \subseteq cut'
    PROVE  Alone /\ Here(v, c)
PROOF
  <1>1. Here(v, c) /\ agenda' = agenda /\ shown' = shown /\ at > 0
    BY DEF PassedOver, nodeEnv, Here
  <1>2. Leaves \/ Advances
    BY <1>1, GoesOn DEF NodeInv
  <1> QED BY <1>1, <1>2 DEF Alone

\* Jellyfin's steps.
LEMMA JellyfinSteps ==
    ASSUME NodeInv, NEW c \in Cred
    PROVE  /\ JellyfinPassword(c) \/ JellyfinFirstUser(c) => NodeInv'
           /\ c = Jellyfin /\ upsertSecret(c) => NodeInv'
PROOF
  <1>1. ASSUME JellyfinPassword(c) PROVE NodeInv'
    <2>1. Does("newPassword", c) /\ Here("newPassword", c)
      BY <1>1 DEF JellyfinPassword, Does
    <2>2. c = Jellyfin
      <3>1. "newPassword" \notin PlainVerb
        BY DEF PlainVerb
      <3>2. <<"newPassword", c>> \in AdminStep
        BY <2>1, <3>1, StepHere DEF NodeInv
      <3> QED BY <3>2 DEF AdminStep
    <2>3. /\ ~Here("store", Jellyfin) /\ ~Here("storeWarn", Technitium) /\ ~Here("store", Paperless)
      BY <2>1 DEF Here
    <2>4. CASE Return /\ UNCHANGED cred
      <3>1. Alone /\ Leaves
        BY <2>1, <2>4, DoesAlone
      <3>2. Apart
        BY <2>3, <3>1 DEF Apart
      <3> QED BY <2>4, <3>1, <3>2, ApartKeeps
    <2>5. CASE /\ Advance
               /\ Put(c, IF cred[c].stored # 0 THEN [cred[c] EXCEPT !.hand = cred[c].stored]
                         ELSE [cred[c] EXCEPT !.gen = Minted(c), !.hand = Minted(c)])
      <3>1. PICK r : r = IF cred[c].stored # 0 THEN [cred[c] EXCEPT !.hand = cred[c].stored]
                         ELSE [cred[c] EXCEPT !.gen = Minted(c), !.hand = Minted(c)]
        OBVIOUS
      <3>2. cred' = [cred EXCEPT ![c] = r]
        BY <2>5, <3>1 DEF Put
      <3>3. /\ DOMAIN cred' = DOMAIN cred /\ cred'[c] = r /\ \A b \in Cred : b # c => cred'[b] = cred[b]
        BY <3>2 DEF Cred
      <3>4. Alone
        BY <2>1, <2>5, <3>3, DoesAlone
      <3>5. AdminRecord(cred[c]) /\ JellyfinKnown(cred[c])
        BY <2>2 DEF NodeInv, AdminsInv, Admins, Jellyfin
      <3>6. /\ r.stored = cred[c].stored /\ r.accepted = cred[c].accepted /\ DOMAIN r = DOMAIN cred[c]
            /\ r.hand # 0 /\ (r.stored = 0 \/ r.hand = r.stored) /\ r.gen \in Nat
        BY <3>1, <3>5 DEF AdminRecord, Minted
      <3>7. AdminRecord(r)
        BY <3>5, <3>6 DEF AdminRecord
      <3>8. Here("firstUser", Jellyfin)' => Here("store", Jellyfin)
        BY <3>4, Arrivals DEF Alone, NodeInv
      <3>9. JellyfinKnown(cred[Jellyfin])'
        BY <2>2, <2>3, <3>3, <3>5, <3>6, <3>8 DEF JellyfinKnown
      <3>10. c \in Admins \cap Cred /\ c # Technitium /\ c # Paperless
        BY <2>2 DEF Admins, Jellyfin, Technitium, Paperless
      <3> QED BY <2>1, <3>3, <3>4, <3>7, <3>9, <3>10, OneAdmin
    <2> QED BY <1>1, <2>4, <2>5 DEF JellyfinPassword
  <1>2. ASSUME JellyfinFirstUser(c) PROVE NodeInv'
    <2>1. Does("firstUser", c) /\ Here("firstUser", c) /\ Advance
      BY <1>2 DEF JellyfinFirstUser, Does
    <2>2. c = Jellyfin
      <3>1. "firstUser" \notin PlainVerb
        BY DEF PlainVerb
      <3>2. <<"firstUser", c>> \in AdminStep
        BY <2>1, <3>1, StepHere DEF NodeInv
      <3> QED BY <3>2 DEF AdminStep
    <2>3. CASE UNCHANGED cred
      <3>1. Alone
        BY <2>1, <2>3, DoesAlone
      <3>2. "firstUser" \notin {"newPassword", "store", "defaultLogin", "adminRow", "storeWarn"}
        OBVIOUS
      <3> QED BY <2>1, <2>3, <3>1, <3>2, CalmKeeps
    <2>4. CASE Put(c, [cred[c] EXCEPT !.accepted = {cred[c].hand}])
      <3>1. PICK r : r = [cred[c] EXCEPT !.accepted = {cred[c].hand}]
        OBVIOUS
      <3>2. cred' = [cred EXCEPT ![c] = r]
        BY <2>4, <3>1 DEF Put
      <3>3. /\ DOMAIN cred' = DOMAIN cred /\ cred'[c] = r /\ \A b \in Cred : b # c => cred'[b] = cred[b]
        BY <3>2 DEF Cred
      <3>4. Alone
        BY <2>1, <3>3, DoesAlone
      <3>5. AdminRecord(cred[c]) /\ JellyfinKnown(cred[c])
        BY <2>2 DEF NodeInv, AdminsInv, Admins, Jellyfin
      <3>6. cred[c].hand # 0 /\ cred[c].hand = cred[c].stored
        BY <2>1, <2>2, <3>5 DEF JellyfinKnown
      <3>7. /\ r.accepted = {cred[c].hand} /\ r.stored = cred[c].stored /\ r.hand = cred[c].hand
            /\ r.gen = cred[c].gen /\ DOMAIN r = DOMAIN cred[c]
        BY <3>1, <3>5 DEF AdminRecord
      <3>8. AdminRecord(r)
        BY <3>5, <3>6, <3>7 DEF AdminRecord
      <3>9. /\ Here("firstUser", Jellyfin)' => Here("store", Jellyfin)
            /\ Here("store", Jellyfin)' => Here("newPassword", Jellyfin)
        BY <3>4, Arrivals DEF Alone, NodeInv
      <3>10. ~Here("store", Jellyfin) /\ ~Here("newPassword", Jellyfin)
        BY <2>1 DEF Here
      <3>11. JellyfinKnown(cred[Jellyfin])'
        BY <2>2, <3>3, <3>6, <3>7, <3>9, <3>10 DEF JellyfinKnown
      <3>12. c \in Admins \cap Cred /\ c # Technitium /\ c # Paperless
        BY <2>2 DEF Admins, Jellyfin, Technitium, Paperless
      <3> QED BY <2>1, <3>3, <3>4, <3>8, <3>11, <3>12, OneAdmin
    <2> QED BY <1>2, <2>3, <2>4 DEF JellyfinFirstUser
  <1>3. ASSUME c = Jellyfin, upsertSecret(c) PROVE NodeInv'
    <2>1. Does("store", c) /\ Here("store", c) /\ Advance
      BY <1>3 DEF upsertSecret, Does
    <2>2. PICK r : r = [cred[c] EXCEPT !.stored = cred[c].hand]
      OBVIOUS
    <2>3. cred' = [cred EXCEPT ![c] = r]
      BY <1>3, <2>2 DEF upsertSecret, Put
    <2>4. /\ DOMAIN cred' = DOMAIN cred /\ cred'[c] = r /\ \A b \in Cred : b # c => cred'[b] = cred[b]
      BY <2>3 DEF Cred
    <2>5. Alone
      BY <2>1, <2>4, DoesAlone
    <2>6. AdminRecord(cred[c]) /\ JellyfinKnown(cred[c])
      BY <1>3 DEF NodeInv, AdminsInv, Admins, Jellyfin
    <2>7. cred[c].hand # 0 /\ (cred[c].stored = 0 \/ cred[c].hand = cred[c].stored)
      BY <1>3, <2>1, <2>6 DEF JellyfinKnown
    <2>8. /\ r.accepted = cred[c].accepted /\ r.stored = cred[c].hand /\ r.hand = cred[c].hand
          /\ r.gen = cred[c].gen /\ DOMAIN r = DOMAIN cred[c]
      BY <2>2, <2>6 DEF AdminRecord
    <2>9. AdminRecord(r)
      BY <2>6, <2>8 DEF AdminRecord
    <2>10. Here("store", Jellyfin)' => Here("newPassword", Jellyfin)
      BY <2>5, Arrivals DEF Alone, NodeInv
    <2>11. ~Here("newPassword", Jellyfin)
      BY <2>1 DEF Here
    <2>12. JellyfinKnown(cred[Jellyfin])'
      BY <1>3, <2>4, <2>6, <2>7, <2>8, <2>10, <2>11 DEF JellyfinKnown
    <2>13. c \in Admins \cap Cred /\ c # Technitium /\ c # Paperless
      BY <1>3 DEF Admins, Jellyfin, Technitium, Paperless
    <2> QED BY <2>1, <2>4, <2>5, <2>9, <2>12, <2>13, OneAdmin
  <1> QED BY <1>1, <1>2, <1>3

\* Technitium's steps.
LEMMA TechnitiumSteps ==
    ASSUME NodeInv, NEW c \in Cred
    PROVE  TechnitiumLogin(c) \/ KeepInitialPassword(c) \/ KeepTokenLost(c) => NodeInv'
PROOF
  <1>1. ASSUME TechnitiumLogin(c) PROVE NodeInv'
    <2>1. Does("defaultLogin", c) /\ Here("defaultLogin", c) /\ Advance
      BY <1>1 DEF TechnitiumLogin, Does
    <2>2. c = Technitium
      <3>1. "defaultLogin" \notin PlainVerb
        BY DEF PlainVerb
      <3>2. <<"defaultLogin", c>> \in AdminStep
        BY <2>1, <3>1, StepHere DEF NodeInv
      <3> QED BY <3>2 DEF AdminStep
    <2>3. PICK r : r = IF cred[c].accepted = {} THEN Replaced(c)
                       ELSE [cred[c] EXCEPT !.hand = cred[c].stored]
      OBVIOUS
    <2>4. cred' = [cred EXCEPT ![c] = r]
      BY <1>1, <2>3 DEF TechnitiumLogin, Put
    <2>5. /\ DOMAIN cred' = DOMAIN cred /\ cred'[c] = r /\ \A b \in Cred : b # c => cred'[b] = cred[b]
      BY <2>4 DEF Cred
    <2>6. Alone /\ shown' = shown /\ cut' = cut
      BY <2>1, <2>5, DoesAlone
    <2>7. AdminRecord(cred[c]) /\ TechnitiumKnown(cred[c])
      BY <2>2 DEF NodeInv, AdminsInv, Admins, Technitium
    <2>8. CASE cred[c].accepted = {}
      <3>1. r.accepted = {r.hand} /\ r.hand # 0 /\ r.gen \in Nat /\ DOMAIN r = DOMAIN cred[c]
        BY <2>3, <2>7, <2>8 DEF AdminRecord, Replaced, Minted
      <3>2. AdminRecord(r)
        BY <2>7, <3>1 DEF AdminRecord
      <3>3. Here("storeWarn", Technitium)'
        BY <2>1, <2>2, <2>6, GoesTo, Orders DEF Advance, Alone, NodeInv
      <3>4. TechnitiumKnown(cred[Technitium])'
        BY <2>2, <2>5, <3>1, <3>3 DEF TechnitiumKnown
      <3> QED BY <2>1, <2>2, <2>5, <2>6, <3>2, <3>4, OneAdmin DEF Admins, Jellyfin, Technitium,
                 Paperless
    <2>9. CASE cred[c].accepted # {}
      <3>1. /\ r.accepted = cred[c].accepted /\ r.stored = cred[c].stored /\ r.hand = cred[c].stored
            /\ r.gen = cred[c].gen /\ DOMAIN r = DOMAIN cred[c]
        BY <2>3, <2>7, <2>9 DEF AdminRecord
      <3>2. AdminRecord(r)
        BY <2>7, <3>1 DEF AdminRecord
      <3>3. ~Here("storeWarn", Technitium)
        BY <2>1 DEF Here
      <3>4. cred[c].stored \in cred[c].accepted \/ shown \/ Technitium \in cut
        BY <2>7, <2>9, <3>3 DEF TechnitiumKnown
      <3>5. TechnitiumKnown(cred[Technitium])'
        BY <2>2, <2>5, <2>6, <3>1, <3>4 DEF TechnitiumKnown
      <3> QED BY <2>1, <2>2, <2>5, <2>6, <3>2, <3>5, OneAdmin DEF Admins, Jellyfin, Technitium,
                 Paperless
    <2> QED BY <2>8, <2>9
  <1>2. ASSUME KeepInitialPassword(c) PROVE NodeInv'
    <2>1. Does("storeWarn", c) /\ Here("storeWarn", c) /\ Advance
      BY <1>2 DEF KeepInitialPassword, Does
    <2>2. c = Technitium
      <3>1. "storeWarn" \notin PlainVerb
        BY DEF PlainVerb
      <3>2. <<"storeWarn", c>> \in AdminStep
        BY <2>1, <3>1, StepHere DEF NodeInv
      <3> QED BY <3>2 DEF AdminStep
    <2>3. PICK r : r = [cred[c] EXCEPT !.stored = cred[c].hand]
      OBVIOUS
    <2>4. cred' = [cred EXCEPT ![c] = r]
      BY <1>2, <2>3 DEF KeepInitialPassword, Put
    <2>5. /\ DOMAIN cred' = DOMAIN cred /\ cred'[c] = r /\ \A b \in Cred : b # c => cred'[b] = cred[b]
      BY <2>4 DEF Cred
    <2>6. Alone /\ shown' = shown /\ cut' = cut
      BY <2>1, <2>5, DoesAlone
    <2>7. AdminRecord(cred[c]) /\ TechnitiumKnown(cred[c])
      BY <2>2 DEF NodeInv, AdminsInv, Admins, Technitium
    <2>8. cred[c].hand \in cred[c].accepted \/ shown \/ Technitium \in cut
      BY <2>1, <2>2, <2>7 DEF TechnitiumKnown
    <2>9. /\ r.accepted = cred[c].accepted /\ r.stored = cred[c].hand /\ r.hand = cred[c].hand
          /\ r.gen = cred[c].gen /\ DOMAIN r = DOMAIN cred[c]
      BY <2>3, <2>7 DEF AdminRecord
    <2>10. AdminRecord(r)
      BY <2>7, <2>9 DEF AdminRecord
    <2>11. TechnitiumKnown(cred[Technitium])'
      BY <2>2, <2>5, <2>6, <2>8, <2>9 DEF TechnitiumKnown
    <2> QED BY <2>1, <2>2, <2>5, <2>6, <2>10, <2>11, OneAdmin DEF Admins, Jellyfin, Technitium,
               Paperless
  <1>3. ASSUME KeepTokenLost(c) PROVE NodeInv'
    <2>1. PICK v \in {"keep", "storeWarn"} : PassedOver(v, c)
      BY <1>3 DEF KeepTokenLost
    <2>2. /\ Onward /\ cred' = cred /\ cut \subseteq cut' /\ Here(v, c)
          /\ cred[c].stored = cred[c].hand \/ c \in cut'
      BY <1>3, <2>1 DEF KeepTokenLost, PassedOver
    <2>3. Alone
      BY <2>1, <2>2, PassedOverAlone
    <2>4. CASE v = "keep"
      <3>1. v \notin AdminVerb
        BY <2>4 DEF AdminVerb
      <3> QED BY <2>1, <2>2, <2>3, <3>1, ElsewhereKeeps DEF Elsewhere
    <2>5. CASE v = "storeWarn"
      <3>1. /\ ~Here("newPassword", Jellyfin) /\ ~Here("store", Jellyfin)
            /\ ~Here("defaultLogin", Technitium) /\ ~Here("adminRow", Paperless)
            /\ ~Here("store", Paperless) /\ (Here("storeWarn", Technitium) => c = Technitium)
        BY <2>2, <2>5 DEF Here
      <3>2. Here("storeWarn", Technitium) =>
               Technitium \in cut' \/ cred[Technitium].stored = cred[Technitium].hand
        BY <2>2, <3>1
      <3>3. Apart
        BY <3>1, <3>2 DEF Apart
      <3> QED BY <2>2, <2>3, <3>3, ApartKeeps
    <2> QED BY <2>1, <2>4, <2>5
  <1> QED BY <1>1, <1>2, <1>3

\* Paperless's steps.
LEMMA PaperlessSteps ==
    ASSUME NodeInv, NEW c \in Cred
    PROVE  /\ PaperlessAdminRow(c) => NodeInv'
           /\ c = Paperless /\ upsertSecret(c) => NodeInv'
PROOF
  <1>1. ASSUME PaperlessAdminRow(c) PROVE NodeInv'
    <2>1. Does("adminRow", c) /\ Here("adminRow", c)
      BY <1>1 DEF PaperlessAdminRow, Does
    <2>2. c = Paperless
      <3>1. "adminRow" \notin PlainVerb
        BY DEF PlainVerb
      <3>2. <<"adminRow", c>> \in AdminStep
        BY <2>1, <3>1, StepHere DEF NodeInv
      <3> QED BY <3>2 DEF AdminStep
    <2>3. /\ ~Here("storeWarn", Technitium) /\ ~Here("store", Paperless)
      BY <2>1 DEF Here
    <2>4. CASE cred[c].accepted # {}
      <3>1. Return /\ cred' = cred
        BY <1>1, <2>4 DEF PaperlessAdminRow
      <3>2. Alone /\ Leaves
        BY <2>1, <3>1, DoesAlone
      <3>3. Apart
        BY <2>3, <3>2 DEF Apart
      <3> QED BY <3>1, <3>2, <3>3, ApartKeeps
    <2>5. CASE cred[c].accepted = {}
      <3>1. PICK r : r = Replaced(c)
        OBVIOUS
      <3>2. Advance /\ cred' = [cred EXCEPT ![c] = r]
        BY <1>1, <2>5, <3>1 DEF PaperlessAdminRow, Put
      <3>3. /\ DOMAIN cred' = DOMAIN cred /\ cred'[c] = r /\ \A b \in Cred : b # c => cred'[b] = cred[b]
        BY <3>2 DEF Cred
      <3>4. Alone /\ shown' = shown /\ cut' = cut
        BY <2>1, <3>2, <3>3, DoesAlone
      <3>5. AdminRecord(cred[c])
        BY <2>2 DEF NodeInv, AdminsInv, Admins, Paperless
      <3>6. r.accepted = {r.hand} /\ r.hand # 0 /\ r.gen \in Nat /\ DOMAIN r = DOMAIN cred[c]
        BY <3>1, <3>5 DEF AdminRecord, Replaced, Minted
      <3>7. AdminRecord(r)
        BY <3>5, <3>6 DEF AdminRecord
      <3>8. Here("store", Paperless)'
        BY <2>1, <2>2, <3>2, <3>4, GoesTo, Orders DEF Advance, Alone, NodeInv
      <3>9. PaperlessKnown(cred[Paperless])'
        BY <2>2, <3>3, <3>6, <3>8 DEF PaperlessKnown
      <3> QED BY <2>1, <2>2, <3>3, <3>4, <3>7, <3>9, OneAdmin DEF Admins, Jellyfin, Technitium,
                 Paperless
    <2> QED BY <2>4, <2>5
  <1>2. ASSUME c = Paperless, upsertSecret(c) PROVE NodeInv'
    <2>1. Does("store", c) /\ Here("store", c) /\ Advance
      BY <1>2 DEF upsertSecret, Does
    <2>2. PICK r : r = [cred[c] EXCEPT !.stored = cred[c].hand]
      OBVIOUS
    <2>3. cred' = [cred EXCEPT ![c] = r]
      BY <1>2, <2>2 DEF upsertSecret, Put
    <2>4. /\ DOMAIN cred' = DOMAIN cred /\ cred'[c] = r /\ \A b \in Cred : b # c => cred'[b] = cred[b]
      BY <2>3 DEF Cred
    <2>5. Alone
      BY <2>1, <2>4, DoesAlone
    <2>6. AdminRecord(cred[c]) /\ PaperlessKnown(cred[c])
      BY <1>2 DEF NodeInv, AdminsInv, Admins, Paperless
    <2>7. cred[c].hand \in cred[c].accepted
      BY <1>2, <2>1, <2>6 DEF PaperlessKnown
    <2>8. /\ r.accepted = cred[c].accepted /\ r.stored = cred[c].hand /\ r.hand = cred[c].hand
          /\ r.gen = cred[c].gen /\ DOMAIN r = DOMAIN cred[c]
      BY <2>2, <2>6 DEF AdminRecord
    <2>9. AdminRecord(r)
      BY <2>6, <2>8 DEF AdminRecord
    <2>10. PaperlessKnown(cred[Paperless])'
      BY <1>2, <2>4, <2>7, <2>8 DEF PaperlessKnown
    <2> QED BY <1>2, <2>1, <2>4, <2>5, <2>9, <2>10, OneAdmin DEF Admins, Jellyfin, Technitium, Paperless
  <1> QED BY <1>1, <1>2

\* The steps that touch no first password, or one of another credential.
LEMMA OtherSteps ==
    ASSUME NodeInv, NEW c \in Cred
    PROVE  /\ upsertSecret(c) => NodeInv'
           /\ EnsureAccess(c) \/ reconcileTechnitiumZoneForSetup(c) => NodeInv'
           /\ JellyfinComplete(c) \/ JellyfinLibrary(c) \/ TechnitiumSettings(c) => NodeInv'
           /\ WriteLost(c) \/ ErrorDropped(c) => NodeInv'
           /\ RevokeVirtualKey(c) \/ ReplaceToken(c) => NodeInv'
PROOF
  <1>1. ASSUME upsertSecret(c) PROVE NodeInv'
    <2>1. Does("store", c) /\ Here("store", c) /\ Advance
      BY <1>1 DEF upsertSecret, Does
    <2>2. CASE c \in Admins
      <3>1. <<"store", c>> \in AdminStep
        BY <2>1, <2>2, StepHere DEF NodeInv
      <3>2. c = Jellyfin \/ c = Paperless
        BY <3>1 DEF AdminStep
      <3> QED BY <1>1, <3>2, JellyfinSteps, PaperlessSteps
    <2>3. CASE c \notin Admins
      <3>1. DOMAIN cred' = DOMAIN cred /\ \A a \in Admins \cap Cred : cred'[a] = cred[a]
        BY <1>1, <2>3 DEF upsertSecret, Put, Cred
      <3>2. Alone
        BY <2>1, <3>1, DoesAlone
      <3>3. c # Jellyfin /\ c # Paperless
        BY <2>3 DEF Admins, Jellyfin, Paperless
      <3>4. /\ ~Here("newPassword", Jellyfin) /\ ~Here("store", Jellyfin)
            /\ ~Here("defaultLogin", Technitium) /\ ~Here("adminRow", Paperless)
            /\ ~Here("store", Paperless) /\ ~Here("storeWarn", Technitium)
        BY <2>1, <3>3 DEF Here
      <3>5. Apart
        BY <3>4 DEF Apart
      <3> QED BY <3>1, <3>2, <3>5, ApartKeeps
    <2> QED BY <2>2, <2>3
  <1>2. ASSUME NEW v \in {"access", "route", "zone", "complete", "library", "settings"}, Does(v, c),
               Advance \/ Return, cred' = cred
        PROVE  NodeInv'
    <2>1. Alone /\ Here(v, c)
      BY <1>2, DoesAlone
    <2>2. v \notin {"newPassword", "store", "defaultLogin", "adminRow", "storeWarn"}
      BY <1>2
    <2> QED BY <1>2, <2>1, <2>2, CalmKeeps
  <1>3. ASSUME EnsureAccess(c) PROVE NodeInv'
    <2>1. PICK v \in {"access", "route"} : Does(v, c)
      BY <1>3 DEF EnsureAccess
    <2> QED BY <1>2, <1>3, <2>1 DEF EnsureAccess
  <1>4. ASSUME reconcileTechnitiumZoneForSetup(c) PROVE NodeInv'
    <2>1. Does("zone", c) /\ Advance /\ cred' = cred
      BY <1>4 DEF reconcileTechnitiumZoneForSetup
    <2> QED BY <1>2, <2>1
  <1>5. ASSUME JellyfinComplete(c) PROVE NodeInv'
    <2>1. Does("complete", c) /\ Advance /\ cred' = cred
      BY <1>5 DEF JellyfinComplete
    <2> QED BY <1>2, <2>1
  <1>6. ASSUME JellyfinLibrary(c) PROVE NodeInv'
    <2>1. Does("library", c) /\ Advance /\ cred' = cred
      BY <1>6 DEF JellyfinLibrary
    <2> QED BY <1>2, <2>1
  <1>7. ASSUME TechnitiumSettings(c) PROVE NodeInv'
    <2>1. Does("settings", c) /\ (Advance \/ Return) /\ cred' = cred
      BY <1>7 DEF TechnitiumSettings
    <2> QED BY <1>2, <2>1
  <1>8. ASSUME RevokeVirtualKey(c) \/ ReplaceToken(c) PROVE NodeInv'
    <2>1. c \notin Admins
      BY <1>8 DEF RevokeVirtualKey, ReplaceToken, Keys, Chosen, Admins
    <2>2. DOMAIN cred' = DOMAIN cred /\ \A a \in Admins \cap Cred : cred'[a] = cred[a]
      BY <1>8, <2>1 DEF RevokeVirtualKey, ReplaceToken, Put, Cred
    <2>3. UNCHANGED <<agenda, at, step, shown>> /\ cut \subseteq cut'
      BY <1>8 DEF RevokeVirtualKey, ReplaceToken, nodeEnv, place, flaws
    <2> QED BY <2>2, <2>3, UntouchedKeeps
  <1>9. ASSUME NEW v \in {"tryConverge", "reveal", "mirror", "bootstrap", "route", "zone", "tryInstall"},
               PassedOver(v, c), Onward \/ MoveOn(ok \cup {Body}), cred' = cred, cut' = cut
        PROVE  NodeInv'
    <2>1. Alone /\ Here(v, c)
      BY <1>9, PassedOverAlone
    <2>2. v \notin {"newPassword", "store", "defaultLogin", "adminRow", "storeWarn"}
      BY <1>9
    <2> QED BY <1>9, <2>1, <2>2, CalmKeeps
  <1>10. ASSUME WriteLost(c) PROVE NodeInv'
    <2>1. PICK v \in {"tryConverge", "reveal"} : PassedOver(v, c)
      BY <1>10 DEF WriteLost
    <2>2. MoveOn(ok \cup {Body}) /\ cred' = cred /\ cut' = cut
      BY <1>10 DEF WriteLost
    <2> QED BY <1>9, <2>1, <2>2
  <1>11. ASSUME ErrorDropped(c) PROVE NodeInv'
    <2>1. PICK v \in {"mirror", "bootstrap", "route", "zone", "tryInstall"} :
             PassedOver(v, c) /\ (Onward \/ Return)
      BY <1>11 DEF ErrorDropped
    <2>2. cred' = cred /\ cut' = cut
      BY <1>11 DEF ErrorDropped, flaws
    <2> QED BY <1>9, <2>1, <2>2 DEF Return
  <1> QED BY <1>1, <1>3, <1>4, <1>5, <1>6, <1>7, <1>8, <1>10, <1>11

\* A body that is left in the middle keeps what the invariant says, if what was lost is noted.
LEMMA CutOffKeeps ==
    ASSUME NodeInv, at > 0, Leaves, agenda' = agenda, shown' = shown, CutOff, DOMAIN cred' = DOMAIN cred,
           \A a \in Admins \cap Cred : cred'[a] = cred[a]
    PROVE  NodeInv'
PROOF
  <1>1. cut' = cut \cup {c \in Cred : LostSecret(c) \/ LostRestart(c)}
    BY DEF CutOff
  <1>2. Alone
    BY <1>1 DEF Alone
  <1>3. ASSUME Here("storeWarn", Technitium), Technitium \in Cred
        PROVE  shown \/ Technitium \in cut' \/ cred[Technitium].stored = cred[Technitium].hand
    <2>1. Technitium \in Admins /\ AdminRecord(cred[Technitium]) /\ TechnitiumKnown(cred[Technitium])
      BY <1>3 DEF NodeInv, AdminsInv, Admins, Technitium
    <2>2. cred[Technitium].hand \in cred[Technitium].accepted \/ shown \/ Technitium \in cut
      BY <1>3, <2>1 DEF TechnitiumKnown
    <2>3. cred[Technitium].hand \in cred[Technitium].accepted => cred[Technitium].hand # 0
      BY <2>1 DEF AdminRecord
    <2>4. \/ ~(cred[Technitium].hand \in cred[Technitium].accepted) \/ LostSecret(Technitium)
          \/ cred[Technitium].stored = cred[Technitium].hand
      BY <2>1, <2>3 DEF LostSecret
    <2> QED BY <1>1, <1>3, <2>2, <2>4
  <1>4. ASSUME Here("store", Paperless), Paperless \in Cred
        PROVE  Paperless \in cut' \/ cred[Paperless].stored = cred[Paperless].hand
    <2>1. Paperless \in Admins /\ AdminRecord(cred[Paperless]) /\ PaperlessKnown(cred[Paperless])
      BY <1>4 DEF NodeInv, AdminsInv, Admins, Paperless
    <2>2. cred[Paperless].hand \in cred[Paperless].accepted /\ cred[Paperless].hand # 0
      BY <1>4, <2>1 DEF PaperlessKnown, AdminRecord
    <2>3. LostSecret(Paperless) \/ cred[Paperless].stored = cred[Paperless].hand
      BY <2>1, <2>2 DEF LostSecret
    <2> QED BY <1>1, <1>4, <2>3
  <1>5. Apart
    BY <1>3, <1>4 DEF Apart
  <1> QED BY <1>2, <1>5, ApartKeeps

\* The first step of a body keeps no password.
LEMMA FirstStep ==
    ASSUME NodePlace, step = 1
    PROVE  ~Here("storeWarn", Technitium) /\ ~Here("store", Paperless)
PROOF
  <1>1. ASSUME NEW u, NEW v, NEW c, \A b \in NodeBodies : Behind(BodyOf(b), u, v, c), Here(v, c) PROVE FALSE
    <2>1. at > 0 /\ BodyOf(Body)[step] = <<v, c>>
      BY <1>1 DEF Here
    <2>2. Body \in NodeBodies /\ step \in 1 .. Len(BodyOf(Body))
      BY <2>1, ShapeHere DEF NodePlace
    <2>3. step - 1 \in 1 .. Len(BodyOf(Body))
      BY <1>1, <2>1, <2>2 DEF Behind
    <2> QED BY <2>3
  <1>2. ~Here("storeWarn", Technitium)
    BY <1>1, Orders
  <1>3. ~Here("store", Paperless)
    BY <1>1, Orders
  <1> QED BY <1>2, <1>3

\* The steps of the run, of the crash and of the operator.
LEMMA RunSteps ==
    ASSUME NodeInv,
           \/ BeginSetup \/ PassOverBody \/ BodyFails \/ RefusedBody \/ SetupCrash
           \/ GetTechnitiumSetup \/ SeedModelAliases \/ UNCHANGED nodeVars
    PROVE  NodeInv'
PROOF
  <1>0. NodePlace /\ AdminsInv
    BY DEF NodeInv
  <1>1. ASSUME BeginSetup PROVE NodeInv'
    <2>1. /\ at = 0 /\ at' = 1 /\ step' = 1 /\ agenda' = agenda /\ shown' = shown /\ cut' = cut
          /\ cred' = [c \in Cred |-> [cred[c] EXCEPT !.hand = 0]]
      BY <1>1 DEF BeginSetup, nodeEnv, flaws
    <2>2. Len(agenda) \in Nat /\ Len(agenda) > 0
      BY <1>0, LenProperties, EmptySeq DEF NodePlace
    <2>3. Leaves
      BY <2>1, <2>2 DEF Leaves
    <2>4. NodePlace'
      BY <1>0, <2>1, <2>3, StaysPlaced
    <2>5. /\ Here("store", Jellyfin)' => Here("newPassword", Jellyfin)
          /\ Here("firstUser", Jellyfin)' => Here("store", Jellyfin)
          /\ Here("storeWarn", Technitium)' => Here("defaultLogin", Technitium)
          /\ Here("store", Paperless)' => Here("adminRow", Paperless)
      BY <1>0, <2>1, <2>3, Arrivals
    <2>6. /\ ~Here("newPassword", Jellyfin) /\ ~Here("store", Jellyfin)
          /\ ~Here("defaultLogin", Technitium) /\ ~Here("adminRow", Paperless)
          /\ ~Here("storeWarn", Technitium) /\ ~Here("store", Paperless)
      BY <2>1 DEF Here
    <2>7. Cred' = Cred
      BY <2>1 DEF Cred
    <2>8. ASSUME NEW a \in Admins \cap Cred
          PROVE  /\ AdminRecord(cred'[a]) /\ cred'[a].accepted = cred[a].accepted
                 /\ cred'[a].stored = cred[a].stored
      <3>1. AdminRecord(cred[a]) /\ cred'[a] = [cred[a] EXCEPT !.hand = 0]
        BY <1>0, <2>1 DEF AdminsInv
      <3>2. /\ DOMAIN cred'[a] = DOMAIN cred[a] /\ cred'[a].accepted = cred[a].accepted
            /\ cred'[a].stored = cred[a].stored /\ cred'[a].gen = cred[a].gen
        BY <3>1 DEF AdminRecord
      <3> QED BY <3>1, <3>2 DEF AdminRecord
    <2>9. Admins = {Jellyfin, Technitium, Paperless}
      BY DEF Admins, Jellyfin, Technitium, Paperless
    <2>10. Jellyfin \in Cred => JellyfinKnown(cred[Jellyfin])'
      BY <1>0, <2>5, <2>6, <2>8, <2>9 DEF AdminsInv, JellyfinKnown
    <2>11. Technitium \in Cred => TechnitiumKnown(cred[Technitium])'
      BY <1>0, <2>1, <2>5, <2>6, <2>8, <2>9 DEF AdminsInv, TechnitiumKnown
    <2>12. Paperless \in Cred => PaperlessKnown(cred[Paperless])'
      BY <1>0, <2>1, <2>5, <2>6, <2>8, <2>9 DEF AdminsInv, PaperlessKnown
    <2> QED BY <2>4, <2>7, <2>8, <2>10, <2>11, <2>12 DEF NodeInv, AdminsInv
  <1>2. ASSUME PassOverBody PROVE NodeInv'
    <2>1. /\ at > 0 /\ step = 1 /\ MoveOn(ok) /\ agenda' = agenda /\ shown' = shown /\ cut' = cut
          /\ cred' = cred
      BY <1>2 DEF PassOverBody, Blocked, nodeEnv, flaws
    <2>2. Leaves /\ Alone
      BY <1>0, <2>1, GoesOn DEF Alone
    <2>3. Apart
      BY <1>0, <2>1, <2>2, FirstStep DEF Apart
    <2> QED BY <2>1, <2>2, <2>3, ApartKeeps
  <1>3. ASSUME BodyFails PROVE NodeInv'
    <2>1. at > 0 /\ MoveOn(ok) /\ CutOff /\ agenda' = agenda /\ shown' = shown
      BY <1>3 DEF BodyFails, nodeEnv
    <2>2. Leaves
      BY <1>0, <2>1, GoesOn
    <2>3. DOMAIN cred' = DOMAIN cred /\ \A a \in Admins \cap Cred : cred'[a] = cred[a]
      <3>1. CASE cred' = cred
        BY <3>1
      <3>2. CASE \E c, r : Here("restart", c) /\ Put(c, r)
        <4>1. PICK c, r : Here("restart", c) /\ Put(c, r)
          BY <3>2
        <4>2. <<"restart", c>> \notin AdminStep
          BY DEF AdminStep
        <4>3. c \notin Admins
          BY <1>0, <4>1, <4>2, StepHere
        <4> QED BY <4>1, <4>3 DEF Put, Cred
      <3> QED BY <1>3, <3>1, <3>2 DEF BodyFails
    <2> QED BY <2>1, <2>2, <2>3, CutOffKeeps
  <1>4. ASSUME RefusedBody PROVE NodeInv'
    <2>1. PICK c \in Cred, v \in {"role", "oauthFiles", "probe", "reprobe", "https", "healthy"} : Here(v, c)
      BY <1>4 DEF RefusedBody
    <2>2. at > 0 /\ MoveOn(ok) /\ agenda' = agenda /\ shown' = shown /\ cut' = cut /\ cred' = cred
      BY <1>4, <2>1 DEF RefusedBody, nodeEnv, Here, flaws
    <2>3. Alone
      BY <1>0, <2>2, GoesOn DEF Alone
    <2>4. v \notin AdminVerb
      BY <2>1 DEF AdminVerb
    <2> QED BY <2>1, <2>2, <2>3, <2>4, ElsewhereKeeps DEF Elsewhere
  <1>5. ASSUME SetupCrash PROVE NodeInv'
    <2>1. at > 0 /\ at' = 0 /\ step' = 1 /\ agenda' = agenda /\ shown' = shown
      BY <1>5 DEF SetupCrash, nodeEnv
    <2>2. Leaves
      BY <1>0, <2>1, LenProperties DEF Leaves, NodePlace
    <2>3. CASE CutOff /\ cred' = cred
      BY <2>1, <2>2, <2>3, CutOffKeeps
    <2>6. CASE CutOff /\ \E v \in {"restart", "tryRestart"} : \E c, r : Here(v, c) /\ Put(c, r)
      <3>5. PICK v \in {"restart", "tryRestart"} : \E c, r : Here(v, c) /\ Put(c, r)
        BY <2>6
      <3>1. PICK c, r : Here(v, c) /\ Put(c, r)
        BY <3>5
      <3>2. <<v, c>> \notin AdminStep
        BY DEF AdminStep
      <3>3. c \notin Admins
        BY <1>0, <3>1, <3>2, StepHere
      <3>4. DOMAIN cred' = DOMAIN cred /\ \A a \in Admins \cap Cred : cred'[a] = cred[a]
        BY <3>1, <3>3 DEF Put, Cred
      <3> QED BY <2>1, <2>2, <2>6, <3>4, CutOffKeeps
    <2>4. CASE \E c \in Cred : Here("generateFile", c) /\ Put(c, [cred[c] EXCEPT !.file = 0]) /\ cut' = cut
      <3>1. PICK c \in Cred : Here("generateFile", c) /\ Put(c, [cred[c] EXCEPT !.file = 0]) /\ cut' = cut
        BY <2>4
      <3>2. DOMAIN cred' = DOMAIN cred /\ \A a \in Cred : a # c => cred'[a] = cred[a]
        BY <3>1 DEF Put, Cred
      <3>3. "generateFile" \notin AdminVerb
        BY DEF AdminVerb
      <3>4. Alone
        BY <2>1, <2>2, <3>1, <3>2 DEF Alone
      <3> QED BY <3>1, <3>2, <3>3, <3>4, ElsewhereKeeps DEF Elsewhere
    <2>5. CASE \E c \in Cred : Here("derive", c) /\ cut' = cut \cup {c} /\ cred' = cred
      <3>1. PICK c \in Cred : Here("derive", c) /\ cut' = cut \cup {c} /\ cred' = cred
        BY <2>5
      <3>2. "derive" \notin AdminVerb
        BY DEF AdminVerb
      <3>3. Alone
        BY <2>1, <2>2, <3>1 DEF Alone
      <3> QED BY <3>1, <3>2, <3>3, ElsewhereKeeps DEF Elsewhere
    <2>7. \/ CutOff /\ cred' = cred
          \/ CutOff /\ \E v \in {"restart", "tryRestart"} : \E c, r : Here(v, c) /\ Put(c, r)
          \/ \E c \in Cred : Here("generateFile", c) /\ Put(c, [cred[c] EXCEPT !.file = 0]) /\ cut' = cut
          \/ \E c \in Cred : Here("derive", c) /\ cut' = cut \cup {c} /\ cred' = cred
      BY <1>5 DEF SetupCrash, flaws
    <2> QED BY <2>3, <2>4, <2>5, <2>6, <2>7
  <1>6. ASSUME GetTechnitiumSetup PROVE NodeInv'
    <2>1. /\ Technitium \in Cred /\ cred' = [cred EXCEPT ![Technitium].stored = 0] /\ shown' = TRUE
          /\ UNCHANGED <<agenda, at, step, cut>>
      BY <1>6 DEF GetTechnitiumSetup, place, Technitium, flaws
    <2>2. NodePlace' /\ Cred' = Cred
      BY <1>0, <2>1 DEF NodePlace, Body, Cred
    <2>3. /\ Here("store", Jellyfin)' = Here("store", Jellyfin)
          /\ Here("firstUser", Jellyfin)' = Here("firstUser", Jellyfin)
          /\ Here("store", Paperless)' = Here("store", Paperless)
      BY <2>1 DEF Here, Body
    <2>4. \A a \in Cred : a # Technitium => cred'[a] = cred[a]
      BY <2>1 DEF Cred
    <2>5. AdminRecord(cred[Technitium]) /\ cred'[Technitium] = [cred[Technitium] EXCEPT !.stored = 0]
      BY <1>0, <2>1 DEF AdminsInv, Admins, Technitium, Cred
    <2>6. AdminRecord(cred'[Technitium])
      BY <2>5 DEF AdminRecord
    <2>7. \A a \in Admins \cap Cred : AdminRecord(cred'[a])
      BY <1>0, <2>4, <2>6 DEF AdminsInv
    <2>8. TechnitiumKnown(cred[Technitium])'
      BY <2>1 DEF TechnitiumKnown
    <2>9. Jellyfin # Technitium /\ Paperless # Technitium
      BY DEF Jellyfin, Technitium, Paperless
    <2>10. Jellyfin \in Cred => JellyfinKnown(cred[Jellyfin])'
      BY <1>0, <2>3, <2>4, <2>9 DEF AdminsInv, JellyfinKnown
    <2>11. Paperless \in Cred => PaperlessKnown(cred[Paperless])'
      BY <1>0, <2>1, <2>3, <2>4, <2>9 DEF AdminsInv, PaperlessKnown
    <2> QED BY <2>2, <2>7, <2>8, <2>10, <2>11 DEF NodeInv, AdminsInv
  <1>7. ASSUME SeedModelAliases \/ UNCHANGED nodeVars PROVE NodeInv'
    <2>1. UNCHANGED <<agenda, at, step, shown, cut, cred>>
      BY <1>7 DEF SeedModelAliases, nodeVars, nodeEnv, place, flaws
    <2> QED BY <2>1, UntouchedKeeps
  <1> QED BY <1>1, <1>2, <1>3, <1>4, <1>5, <1>6, <1>7

\* Whatever step a body takes.
LEMMA BodyStepKeeps == ASSUME NodeInv, NEW c \in Cred, NodeBodyStep(c) PROVE NodeInv'
PROOF
  <1>1. CASE PlainBodyStep(c)
    BY <1>1, PlainSteps, ElsewhereKeeps
  <1>2. CASE JellyfinPassword(c) \/ JellyfinFirstUser(c)
    BY <1>2, JellyfinSteps
  <1>3. CASE TechnitiumLogin(c) \/ KeepInitialPassword(c) \/ KeepTokenLost(c)
    BY <1>3, TechnitiumSteps
  <1>4. CASE PaperlessAdminRow(c)
    BY <1>4, PaperlessSteps
  <1>5. CASE \/ upsertSecret(c) \/ EnsureAccess(c) \/ reconcileTechnitiumZoneForSetup(c)
             \/ JellyfinComplete(c) \/ JellyfinLibrary(c) \/ TechnitiumSettings(c)
             \/ RevokeVirtualKey(c) \/ ReplaceToken(c) \/ WriteLost(c) \/ ErrorDropped(c)
    BY <1>5, OtherSteps
  <1> QED BY <1>1, <1>2, <1>3, <1>4, <1>5 DEF NodeBodyStep, PlainBodyStep

\* At first no body is at work.
LEMMA NodeStart == NodeInit => NodeInv
PROOF
  <1> SUFFICES ASSUME NodeInit PROVE NodeInv
    OBVIOUS
  <1>1. PICK s \in NodeScenarios : agenda = s.agenda /\ cred = s.start /\ at = 0
    BY DEF NodeInit
  <1>2. /\ agenda \in Seq(NodeBodies) \ {<<>>}
        /\ \A c \in Cred : DOMAIN cred[c] = DOMAIN Unset
        /\ \A c \in Admins \cap Cred :
              /\ cred[c].gen \in Nat /\ 0 \notin cred[c].accepted
              /\ cred[c].accepted # {} => cred[c].stored \in cred[c].accepted
    BY <1>1, NodeScenarioAssumption DEF Cred
  <1>3. NodePlace
    BY <1>1, <1>2, LenProperties DEF NodePlace
  <1>4. \A a \in Admins \cap Cred : AdminRecord(cred[a])
    BY <1>2 DEF AdminRecord, Unset
  <1>5. /\ ~Here("store", Jellyfin) /\ ~Here("firstUser", Jellyfin)
        /\ ~Here("storeWarn", Technitium) /\ ~Here("store", Paperless)
    BY <1>1 DEF Here
  <1>6. Admins = {Jellyfin, Technitium, Paperless}
    BY DEF Admins, Jellyfin, Technitium, Paperless
  <1>7. Jellyfin \in Cred => JellyfinKnown(cred[Jellyfin])
    BY <1>2, <1>5, <1>6 DEF JellyfinKnown
  <1>8. Technitium \in Cred => TechnitiumKnown(cred[Technitium])
    BY <1>2, <1>5, <1>6 DEF TechnitiumKnown
  <1>9. Paperless \in Cred => PaperlessKnown(cred[Paperless])
    BY <1>2, <1>5, <1>6 DEF PaperlessKnown
  <1> QED BY <1>3, <1>4, <1>7, <1>8, <1>9 DEF NodeInv, AdminsInv

\* What the invariant says of an administrator is what the property asks.
LEMMA AdminsAreKnown == NodeInv => AdminIsKnown
PROOF
  <1> SUFFICES ASSUME NodeInv, NEW c \in Admins \cap Cred, cred[c].accepted # {}
               PROVE  \/ {cred[c].stored, cred[c].hand} \cap cred[c].accepted # {}
                      \/ c # "jellyfin-admin" /\ (shown \/ c \in cut)
    BY DEF AdminIsKnown
  <1>1. CASE c = Jellyfin
    <2>1. JellyfinKnown(cred[c])
      BY <1>1 DEF NodeInv, AdminsInv
    <2> QED BY <2>1 DEF JellyfinKnown
  <1>2. CASE c = Technitium
    <2>1. TechnitiumKnown(cred[c])
      BY <1>2 DEF NodeInv, AdminsInv
    <2> QED BY <1>2, <2>1 DEF TechnitiumKnown, Technitium
  <1>3. CASE c = Paperless
    <2>1. PaperlessKnown(cred[c])
      BY <1>3 DEF NodeInv, AdminsInv
    <2> QED BY <1>3, <2>1 DEF PaperlessKnown, Paperless
  <1> QED BY <1>1, <1>2, <1>3 DEF Admins, Jellyfin, Technitium, Paperless

\* The first administrator of a product can be signed in as.
THEOREM AdminIsKnownHolds == NodeSpec => []AdminIsKnown
PROOF
  <1>1. NodeInv /\ [NodeNext]_nodeVars => NodeInv'
    <2> SUFFICES ASSUME NodeInv, [NodeNext]_nodeVars PROVE NodeInv'
      OBVIOUS
    <2>1. CASE \E c \in Cred : NodeBodyStep(c)
      BY <2>1, BodyStepKeeps
    <2>2. CASE \/ BeginSetup \/ PassOverBody \/ BodyFails \/ RefusedBody \/ SetupCrash
               \/ GetTechnitiumSetup \/ SeedModelAliases \/ UNCHANGED nodeVars
      BY <2>2, RunSteps
    <2> QED BY <2>1, <2>2 DEF NodeNext
  <1> QED BY <1>1, NodeStart, AdminsAreKnown, PTL DEF NodeSpec

=============================================================================
