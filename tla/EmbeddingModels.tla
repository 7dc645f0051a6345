--------------------------- MODULE EmbeddingModels ---------------------------
(***************************************************************************)
(* The document-search choice and the models it needs                      *)
(* (internal/knowledge/fetch.go and embedding_config.go,                   *)
(* internal/controlplane/knowledge_ops.go, and ensureEmbeddingWorkerConfig *)
(* and redeployBundle of the setup run): models are downloaded beside      *)
(* their place and renamed into it, the worker's configuration is written, *)
(* the worker is stopped and started.  A request of the dashboard and the  *)
(* setup run do all this beside each other; nothing keeps them apart.      *)
(***************************************************************************)
EXTENDS Naturals, Sequences, SequencesExt

CONSTANTS
  EnglishAlias, WorldwideAlias,  \* the pinned models
  ModelBudget                    \* bound: choices, setup runs, failures, deaths

ASSUME ModelsAssumption == EnglishAlias # WorldwideAlias

VARIABLES
  indexChoice,    \* knowledge_settings, "" before the first
  staged,         \* the models in their place, whole and verified
  workerConfig,   \* the models pinned_models.json names
  worker,         \* the embedding worker: up, what it loaded, whether it is to run
  stagers,        \* "dashboard", "setup" -> how far the call has come
  overlapped,     \* two calls were staging the same model at once
  settled,        \* a setup run has converged the last choice with nothing beside it
  modelBudget

modelVars == <<indexChoice, staged, workerConfig, worker, stagers, overlapped, settled, modelBudget>>

IndexChoices == {"english", "worldwide", "full_text"}
Callers == {"dashboard", "setup"}
AtRest == [step |-> "idle", choice |-> "", todo |-> <<>>, alone |-> FALSE]

\* Mutated form: only the model of the documents.
DocumentModel(choice) ==
  CASE choice = "english" -> <<EnglishAlias>> [] choice = "worldwide" -> <<WorldwideAlias>> [] OTHER -> <<>>

\* English always, for the memory; worldwide also for the documents
ChoiceModelAliases(choice) ==
  IF choice = "worldwide" THEN <<EnglishAlias, WorldwideAlias>> ELSE <<EnglishAlias>>

\* what PrepareChoiceModel stages
ToStage(choice) == ChoiceModelAliases(choice)

EmbeddingWorkerConfigForChoice(choice) == ToSet(ChoiceModelAliases(choice))

ModelsInit ==
  /\ indexChoice = ""
  /\ staged = {}
  /\ workerConfig = {}
  /\ worker = [up |-> TRUE, loaded |-> {}, wanted |-> TRUE]
  /\ stagers = [p \in Callers |-> AtRest]
  /\ overlapped = FALSE
  /\ settled = FALSE
  /\ modelBudget = ModelBudget

ModelAt(p, s) == stagers[p].step = s
ModelGoes(p, s) == stagers' = [stagers EXCEPT ![p].step = s]
ModelOf(p) == Head(stagers[p].todo)

\* the worker's gate: it serves nothing unless every model it is to serve is there
load_config == IF workerConfig \subseteq staged
                 THEN [up |-> TRUE, loaded |-> workerConfig, wanted |-> TRUE]
                 ELSE [up |-> FALSE, loaded |-> {}, wanted |-> TRUE]

\* KnowledgeSetIndexSetup
SetIndexSetupChoice(choice) ==
  /\ ModelAt("dashboard", "idle") /\ modelBudget.choices > 0
  /\ modelBudget' = [modelBudget EXCEPT !.choices = @ - 1]
  /\ indexChoice' = choice
  /\ settled' = FALSE
  /\ stagers' = [stagers EXCEPT !.dashboard = [AtRest EXCEPT !.step = "verify", !.choice = choice, !.todo = ToStage(choice)],
                                !.setup.alone = FALSE]
  /\ UNCHANGED <<staged, workerConfig, worker, overlapped>>

\* ensureEmbeddingWorkerConfig, of the nodes of hermes and hindsight
EnsureWorkerConfig ==
  /\ ModelAt("setup", "idle") /\ indexChoice # "" /\ modelBudget.setups > 0
  /\ modelBudget' = [modelBudget EXCEPT !.setups = @ - 1]
  /\ stagers' = [stagers EXCEPT !.setup = [step |-> "verify", choice |-> indexChoice, todo |-> ToStage(indexChoice),
                                           alone |-> ModelAt("dashboard", "idle")]]
  /\ UNCHANGED <<indexChoice, staged, workerConfig, worker, overlapped, settled>>

\* FetchPinnedModel: what verifies is not fetched again
verifyStagedArtifact(p) ==
  /\ ModelAt(p, "verify")
  /\ IF stagers[p].todo = <<>> THEN ModelGoes(p, "write")
     ELSE IF ModelOf(p) \in staged THEN stagers' = [stagers EXCEPT ![p].todo = Tail(@)]
     ELSE ModelGoes(p, "download")
  /\ overlapped' = (overlapped \/ \E q \in Callers \ {p} :
                      /\ stagers[p].todo # <<>> /\ ModelOf(p) \notin staged
                      /\ stagers[q].step \in {"download", "clear", "rename"} /\ ModelOf(q) = ModelOf(p))
  /\ UNCHANGED <<indexChoice, staged, workerConfig, worker, settled, modelBudget>>

\* fetchPinnedFiles into a directory of its own, verified and owned there
downloadPinnedFiles(p) ==
  /\ ModelAt(p, "download")
  /\ ModelGoes(p, "clear")
  /\ UNCHANGED <<indexChoice, staged, workerConfig, worker, overlapped, settled, modelBudget>>

ClearDestination(p) ==
  /\ ModelAt(p, "clear")
  /\ staged' = staged \ {ModelOf(p)}
  /\ ModelGoes(p, "rename")
  /\ UNCHANGED <<indexChoice, workerConfig, worker, overlapped, settled, modelBudget>>

InstallStaged(p) ==
  /\ ModelAt(p, "rename")
  /\ staged' = staged \union {ModelOf(p)}
  /\ stagers' = [stagers EXCEPT ![p].todo = Tail(@), ![p].step = "verify"]
  /\ UNCHANGED <<indexChoice, workerConfig, worker, overlapped, settled, modelBudget>>

\* temporary file and rename; the setup run restarts the worker only if the bytes differ
WriteEmbeddingWorkerConfig(p) ==
  LET content == EmbeddingWorkerConfigForChoice(stagers[p].choice)
      unchanged == p = "setup" /\ content = workerConfig IN
  /\ ModelAt(p, "write")
  /\ workerConfig' = content
  /\ stagers' = [stagers EXCEPT ![p] = IF unchanged THEN AtRest ELSE [@ EXCEPT !.step = "stop"]]
  /\ settled' = (settled \/ (unchanged /\ stagers[p].alone))
  /\ UNCHANGED <<indexChoice, staged, worker, overlapped, modelBudget>>

\* redeployBundle: Stop, Start, wait
StopWorker(p) ==
  /\ ModelAt(p, "stop")
  /\ worker' = [up |-> FALSE, loaded |-> {}, wanted |-> FALSE]
  /\ ModelGoes(p, "start")
  /\ UNCHANGED <<indexChoice, staged, workerConfig, overlapped, settled, modelBudget>>

StartWorker(p) ==
  /\ ModelAt(p, "start")
  /\ worker' = load_config
  /\ stagers' = [stagers EXCEPT ![p] = AtRest]
  /\ settled' = (settled \/ (worker'.up /\ stagers[p].alone))
  /\ UNCHANGED <<indexChoice, staged, workerConfig, overlapped, modelBudget>>

\* a download, a write, a chown, a stop or a start fails, or the request ends after thirty
\* seconds: what is staged aside is removed, everything else is left as it is
ModelCallFails(p) ==
  /\ ~ModelAt(p, "idle") /\ modelBudget.failures > 0
  /\ modelBudget' = [modelBudget EXCEPT !.failures = @ - 1]
  /\ stagers' = [stagers EXCEPT ![p] = AtRest]
  /\ UNCHANGED <<indexChoice, staged, workerConfig, worker, overlapped, settled>>

\* omahabd dies; a power cut also starts the worker anew, if it is to run
ModelCrash ==
  /\ modelBudget.deaths > 0
  /\ modelBudget' = [modelBudget EXCEPT !.deaths = @ - 1]
  /\ stagers' = [p \in Callers |-> AtRest]
  /\ worker' \in {worker, IF worker.wanted THEN load_config ELSE [worker EXCEPT !.up = FALSE, !.loaded = {}]}
  /\ UNCHANGED <<indexChoice, staged, workerConfig, overlapped, settled>>

ModelsNext ==
  \/ \E choice \in IndexChoices : SetIndexSetupChoice(choice)
  \/ EnsureWorkerConfig
  \/ \E p \in Callers :
       \/ verifyStagedArtifact(p) \/ downloadPinnedFiles(p) \/ ClearDestination(p) \/ InstallStaged(p)
       \/ WriteEmbeddingWorkerConfig(p) \/ StopWorker(p) \/ StartWorker(p) \/ ModelCallFails(p)
  \/ ModelCrash

ModelsSpec == ModelsInit /\ [][ModelsNext]_modelVars

-----------------------------------------------------------------------------
\* "All required artifacts are staged and verified BEFORE the caller rewrites the live
\* worker config - never half-configured": whatever the configuration names is in its
\* place, through changes of the choice during a download, failures and restarts.  Two
\* calls that stage the same model at once are excepted: the later one clears what the
\* earlier one has installed and the configuration names.
NeverHalfConfigured == ~overlapped => workerConfig \subseteq staged

=============================================================================
