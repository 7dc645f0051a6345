----------------------------- MODULE MCSetupRun -----------------------------
(***************************************************************************)
(* The first-run setup for TLC: the graph of the nodes (SetupRun), what    *)
(* the bodies of the nodes do (SetupNodes), the checklist the dashboard    *)
(* shows (Checklist), the administrator's SSH keys (AuthorizedKeys) and    *)
(* the choice of an embedding model (EmbeddingModels).  A behaviour is one *)
(* of a single part, which "part" names: the graph looks at the outcome of *)
(* a body only, and the others share no state with it.                     *)
(***************************************************************************)
EXTENDS SetupRun, SetupNodes, Checklist, AuthorizedKeys, EmbeddingModels, TLC

CONSTANTS caddy, pocketId, hermes, k1, k2, text

VARIABLE part

\* The first bundles of the catalog: caddy <- pocket-id <- hermes.
CatalogRequires == caddy :> {} @@ pocketId :> {caddy} @@ hermes :> {pocketId}

InUse(c) == [Unset EXCEPT !.live = 9, !.conf = 9]
Scenario(ag, st) == [agenda |-> ag, start |-> st, paused |-> {}, mapped |-> TRUE]
MCNodeScenarios ==
  {Scenario(<<"embedding">>, [c \in {"embed"} |-> [Unset EXCEPT !.accepted = {1}, !.stored = 1, !.gen = 1, !.live = 9, !.conf = 9]]),
   Scenario(<<"connect_woodpecker">>, [c \in {"ci", "woodpecker"} |-> IF c = "ci" THEN [Unset EXCEPT !.accepted = {1}, !.gen = 1, !.live = 9, !.conf = 9] ELSE InUse(c)]),
   Scenario(<<"secrets", "woodpecker_role", "core_app">>, [c \in {"db"} |-> Unset]),
   Scenario(<<"immich", "karakeep">>, [c \in {"immich", "karakeep"} |-> InUse(c)]),
   Scenario(<<"litellm", "jellyfin", "jellyfin_setup">>, [c \in {"litellm", "jellyfin", "jellyfin-admin"} |-> IF c \in Admins THEN Unset ELSE InUse(c)]),
   Scenario(<<"technitium_setup", "technitium">>, [c \in {"technitium-admin", "technitium"} |-> IF c \in Admins THEN Unset ELSE InUse(c)]),
   Scenario(<<"paperless", "paperless_admin", "paperless_members">>, [c \in {"paperless-admin", "paperless"} |-> IF c \in Admins THEN Unset ELSE InUse(c)]),
   Scenario(<<"forgejo", "bot", "org_teams", "hermes_token", "auth_source", "oauth_app", "woodpecker_env", "woodpecker">>,
      [c \in {"forgejo", "bot", "hermes-token", "woodpecker"} |-> IF c = "forgejo" THEN InUse(c) ELSE IF c = "woodpecker" THEN [Unset EXCEPT !.accepted = {1}, !.stored = 1, !.gen = 1] ELSE Unset]),
   [Scenario(<<"karakeep_key">>, [c \in {"karakeep-key"} |-> InUse(c)]) EXCEPT !.mapped = FALSE],
   [Scenario(<<"hermes", "hindsight", "hindsight_env", "install_hindsight", "hermes_key", "hermes_app">>, [c \in {"hermes", "hindsight-key", "hindsight-db", "hermes-key"} |-> IF c = "hindsight-db" THEN [Unset EXCEPT !.stored = 1] ELSE Unset]) EXCEPT !.mapped = FALSE],
   [Scenario(<<"hindsight", "hindsight_env", "install_hindsight">>, [c \in {"hindsight-key", "hindsight-db"} |-> Unset]) EXCEPT !.paused = {"hindsight-key"}],
   Scenario(<<"login_exposure", "native_env", "tunnel", "exposure">>, [c \in {"caddy", "tunnel"} |-> IF c = "caddy" THEN [Unset EXCEPT !.accepted = {1}, !.stored = 1, !.gen = 1, !.live = 9, !.conf = 9] ELSE Unset])}

\* The facts of the host that change while the checklist is made.
MCChanging == {"run", "domain", "token", "rejected", "tailscale", "kit", "repositories", "passkeys"}

\* No file, one key twice beside another line, two keys.
MCFirstFiles == {<<>>, <<k1, text, k1>>, <<text, k1, k2>>}

MCModelBudget == [choices |-> 2, setups |-> 2, failures |-> 1, deaths |-> 1]

-----------------------------------------------------------------------------
MCVars == <<vars, nodeVars, checklistVars, keyVars, modelVars, part>>

MCInit ==
    /\ part \in {"graph", "bodies", "checklist", "keys", "models"}
    /\ Init /\ NodeInit /\ ChecklistInit /\ KeysInit /\ ModelsInit
    /\ part = "bodies" \/ agenda = <<"embedding">>
    /\ part = "checklist" \/ facts = AllDone
    /\ part = "keys" \/ keyFile = <<>>

MCNext ==
    \/ /\ part = "graph" /\ Next
       /\ UNCHANGED <<nodeVars, checklistVars, keyVars, modelVars, part>>
    \/ /\ part = "bodies" /\ NodeNext
       /\ UNCHANGED <<vars, checklistVars, keyVars, modelVars, part>>
    \/ /\ part = "checklist" /\ ChecklistNext
       /\ UNCHANGED <<vars, nodeVars, keyVars, modelVars, part>>
    \/ /\ part = "keys" /\ KeysNext
       /\ UNCHANGED <<vars, nodeVars, checklistVars, modelVars, part>>
    \/ /\ part = "models" /\ ModelsNext
       /\ UNCHANGED <<vars, nodeVars, checklistVars, keyVars, part>>

MCSpec == /\ MCInit /\ [][MCNext]_MCVars
          /\ part = "graph" => SetupFairness

\* SetupRun.RunningRowsSettle, in the behaviours of the graph.
RowsSettle == part = "graph" => RunningRowsSettle

=============================================================================
