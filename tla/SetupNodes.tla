----------------------------- MODULE SetupNodes -----------------------------
(***************************************************************************)
(* What the nodes of the setup graph do: they give two products a common   *)
(* credential (internal/controlplane/setup_phases.go, setup_oidc.go,       *)
(* setup_dag.go, setup_woodpecker.go, setup_hermes.go, setup_hindsight.go, *)
(* setup_karakeep.go, setup_models.go, jellyfin.go, technitium.go,         *)
(* paperless_admin.go, forgejo_bootstrap.go).                              *)
(*                                                                         *)
(* Every body is a sequence of steps, each a call that takes effect or     *)
(* fails; steps are pairs of a verb and a credential.  A credential has    *)
(* the values its provider accepts, the copy in the secret broker, the one *)
(* in a file of the state directory, the one in the configuration of its   *)
(* consumer and the one the running consumer has loaded.  The bodies of a  *)
(* run are tried in order, a failed one does not stop its siblings; a      *)
(* crash ends the run and the restarted daemon begins another.             *)
(***************************************************************************)
EXTENDS Integers, Sequences, FiniteSets, SequencesExt

CONSTANTS
    NodeScenarios, \* agenda: the bodies of a run, in order; start: the credentials
                   \* at first; paused: paused consumers; mapped: an alias exists
    MaxSetupRuns,  \* bound: runs of the setup
    MaxNodeFaults, \* bound: calls that fail
    MaxNodeCrashes \* bound: crashes of the daemon

Admins == {"jellyfin-admin", "technitium-admin", "paperless-admin"}
Keys   == {"hermes-key", "karakeep-key", "hindsight-key"}
Chosen == {"caddy", "embed"} \* given by the operator

Unset  == [accepted |-> {}, stored |-> 0, file |-> -1, conf |-> 0, live |-> 0,
           hand |-> 0, gen |-> 0]

\* The operations of the nodes.
NodeBodies ==
    {"immich", "karakeep", "litellm", "jellyfin", "paperless", "technitium", "hermes",
     "forgejo", "jellyfin_setup", "technitium_setup", "paperless_admin",
     "paperless_members", "bot", "hermes_token", "auth_source", "oauth_app",
     "woodpecker_env", "secrets", "core_app", "native_env", "tunnel", "woodpecker",
     "karakeep_key", "hindsight", "hindsight_env", "install_hindsight", "org_teams",
     "woodpecker_role", "login_exposure", "exposure", "embedding", "connect_woodpecker",
     "hermes_key", "hermes_app"}

\* Nodes run bodies there are, and an administrator a scenario begins with is known.
ASSUME NodeScenarioAssumption ==
    \A s \in NodeScenarios :
        /\ s.agenda \in Seq(NodeBodies) \ {<<>>}
        /\ \A c \in DOMAIN s.start : DOMAIN s.start[c] = DOMAIN Unset
        /\ \A c \in Admins \cap DOMAIN s.start :
              /\ s.start[c].gen \in Nat /\ 0 \notin s.start[c].accepted
              /\ s.start[c].accepted # {} => s.start[c].stored \in s.start[c].accepted

VARIABLES
    agenda, paused,  \* of the scenario
    cred,            \* the credentials; file is -1 when it does not exist, hand
                     \* is the local variable of the body at work
    consumer,        \* the consumers that are installed; live is -1 when one is down
    things,          \* what idempotent calls have made
    mapped,          \* the gateway has the alias a key is scoped to
    shown,           \* the operator has seen Technitium's password
    at, step, ok,    \* the body and the step at work (at = 0: no run), the
                     \* bodies of this run that were done and not deferred
    good,            \* those of the last complete run
    cut,             \* credentials whose body was cut off at a bad moment
    unwritten,       \* those whose configuration a later run has to write: the
                     \* write, or the look at the token, failed and was passed over
    setupRuns, nodeFaults, nodeCrashes

place    == <<at, step, ok>>
nodeEnv  == <<agenda, paused, mapped, shown>>
nodeCount == <<setupRuns, nodeFaults, nodeCrashes>>
flaws    == <<cut, unwritten>>
nodeVars == <<nodeEnv, place, cred, consumer, things, good, flaws, nodeCount>>

Cred == DOMAIN cred

----------------------------------------------------------------------------
(* The bodies *)

\* A confidential client of Pocket ID: what every sign-in begins with.
OIDCClient(c) == <<<<"client", c>>, <<"reuse", c>>, <<"rotate", c>>, <<"store", c>>>>

ensureImmichOIDC    == OIDCClient("immich") \o
    <<<<"access", "immich">>, <<"write", "immich">>, <<"restart", "immich">>>>
ensureKarakeepOIDC  == OIDCClient("karakeep") \o
    <<<<"converge", "karakeep">>, <<"restart", "karakeep">>>>
ensureLitellmOIDC   == OIDCClient("litellm") \o
    <<<<"access", "litellm">>, <<"converge", "litellm">>, <<"restart", "litellm">>>>
ensureJellyfinOIDC  == OIDCClient("jellyfin") \o
    <<<<"access", "jellyfin">>, <<"converge", "jellyfin">>, <<"restart", "jellyfin">>>>
ensurePaperlessOIDC == OIDCClient("paperless") \o
    <<<<"write", "paperless">>, <<"restart", "paperless">>>>
technitiumOIDC      == OIDCClient("technitium") \o
    <<<<"access", "technitium">>, <<"sso", "technitium">>>>
hermesOIDC          == <<<<"access", "hermes">>>>
forgejoOIDC         == OIDCClient("forgejo") \o <<<<"access", "forgejo">>>>

\* Mutated form: the wizard's user is created first, its password kept then.
ensureJellyfinSetupLate ==
    <<<<"newPassword", "jellyfin-admin">>, <<"firstUser", "jellyfin-admin">>,
      <<"store", "jellyfin-admin">>, <<"complete", "jellyfin-admin">>,
      <<"library", "jellyfin-admin">>>>

ensureJellyfinSetup ==
    <<<<"newPassword", "jellyfin-admin">>, <<"store", "jellyfin-admin">>,
      <<"firstUser", "jellyfin-admin">>, <<"complete", "jellyfin-admin">>,
      <<"library", "jellyfin-admin">>>>

ensureTechnitium ==
    <<<<"defaultLogin", "technitium-admin">>, <<"storeWarn", "technitium-admin">>,
      <<"settings", "technitium-admin">>>>
convergeTechnitiumOrDefer == ensureTechnitium \o <<<<"zone", "technitium-admin">>>>
ensurePaperlessInitialAdmin ==
    <<<<"adminRow", "paperless-admin">>, <<"store", "paperless-admin">>>>
ensurePaperlessMemberAccess == <<<<"access", "paperless-admin">>>>

ensureOmahabBot ==
    <<<<"botUser", "bot">>, <<"validate", "bot">>, <<"generate", "bot">>, <<"store", "bot">>>>
ensureHermesForgejoToken ==
    <<<<"validate", "hermes-token">>, <<"recreate", "hermes-token">>, <<"store", "hermes-token">>>>
\* Organization, teams and the members of the owners' team.
ensureForgejoOrgTeams == <<<<"access", "bot">>>>
\* The authentication source, whose key and secret are written on every run
\* and are in force at once.
ensureForgejoAuthSource == <<<<"sso", "forgejo">>>>
ensureWoodpeckerOAuthApp ==
    <<<<"oauthApp", "woodpecker">>, <<"store", "woodpecker">>, <<"secretFile", "woodpecker">>>>
woodpeckerEnv ==
    <<<<"tryConverge", "woodpecker">>, <<"tryRestart", "woodpecker">>>>

setupPhaseSecrets ==
    <<<<"generateFile", "db">>, <<"derive", "db">>, <<"mirror", "db">>>>
setupCoreAppNode  == <<<<"role", "db">>, <<"install", "db">>, <<"route", "db">>>>
setupCoreAppsShared ==
    <<<<"bootstrap", "caddy">>, <<"reveal", "caddy">>, <<"converge", "caddy">>, <<"restart", "caddy">>>>
setupPhaseTunnel  ==
    <<<<"tunnel", "tunnel">>, <<"store", "tunnel">>, <<"write", "tunnel">>,
      <<"enable", "tunnel">>>>
setupWoodpeckerNode ==
    <<<<"oauthFiles", "woodpecker">>, <<"install", "woodpecker">>, <<"healthy", "woodpecker">>,
      <<"route", "woodpecker">>>>
ensureWoodpeckerPostgresAuth == <<<<"role", "db">>>>

\* Records of the routes, then the zone of the household, then a wait until
\* every route answers with a certificate.
exposeRoutes == <<<<"record", "caddy">>, <<"zone", "caddy">>, <<"https", "caddy">>>>
setupPhaseLoginExposure == exposeRoutes
setupPhaseExposure == <<<<"bootstrap", "caddy">>>> \o exposeRoutes

ensureEmbeddingWorkerConfig ==
    <<<<"reveal", "embed">>, <<"access", "embed">>, <<"converge", "embed">>, <<"restart", "embed">>>>

\* Not a node: the operator's request that connects Woodpecker.
SetupWoodpecker ==
    <<<<"probe", "ci">>, <<"store", "ci">>, <<"restart", "woodpecker">>,
      <<"reprobe", "ci">>, <<"bind", "ci">>>>

\* A virtual key of the gateway; the errors of keeping the token are dropped.
VirtualKey(c) == <<<<"adopt", c>>, <<"issue", c>>, <<"keep", c>>>>

ensureKarakeepLiteLLMKey == <<<<"alias", "karakeep-key">>>> \o VirtualKey("karakeep-key") \o
    <<<<"converge", "karakeep-key">>, <<"restart", "karakeep-key">>>>
ensureHindsightPostgresAuth == <<<<"role", "hindsight-db">>>>
ensureHindsightLiteLLMKey ==
    <<<<"adopt", "hindsight-key">>, <<"issue", "hindsight-key">>, <<"store", "hindsight-key">>>>
renderHindsightEnv ==
    <<<<"converge", "hindsight-key">>, <<"tryRestart", "hindsight-key">>>>
ensureHindsightDependentApp ==
    <<<<"defer", "hindsight-key">>>> \o ensureHindsightPostgresAuth \o ensureHindsightLiteLLMKey
installHindsight == <<<<"install", "hindsight-key">>, <<"healthy", "hindsight-key">>>>

\* The restart of the key's file is logged when it fails; that of the
\* configuration, which follows it on every run, loads both.
renderHermesKeyEnv == <<<<"write", "hermes-key">>, <<"systemctlRestart", "hermes-key">>>>
renderHermesConfig == <<<<"access", "hermes-key">>, <<"systemctlRestart", "hermes-key">>>>
ensureHermesLiteLLMKey == VirtualKey("hermes-key") \o renderHermesKeyEnv \o renderHermesConfig
ensureHermesDependentApp ==
    <<<<"tryInstall", "hermes-key">>>> \o renderHermesConfig \o <<<<"route", "hermes-key">>>>

BodyOf(b) ==
    CASE b = "immich" -> ensureImmichOIDC [] b = "karakeep" -> ensureKarakeepOIDC
      [] b = "litellm" -> ensureLitellmOIDC [] b = "jellyfin" -> ensureJellyfinOIDC
      [] b = "paperless" -> ensurePaperlessOIDC [] b = "technitium" -> technitiumOIDC
      [] b = "hermes" -> hermesOIDC [] b = "forgejo" -> forgejoOIDC
      [] b = "jellyfin_setup" -> ensureJellyfinSetup
      [] b = "technitium_setup" -> convergeTechnitiumOrDefer
      [] b = "paperless_admin" -> ensurePaperlessInitialAdmin
      [] b = "paperless_members" -> ensurePaperlessMemberAccess
      [] b = "bot" -> ensureOmahabBot [] b = "hermes_token" -> ensureHermesForgejoToken
      [] b = "auth_source" -> ensureForgejoAuthSource
      [] b = "oauth_app" -> ensureWoodpeckerOAuthApp [] b = "woodpecker_env" -> woodpeckerEnv
      [] b = "secrets" -> setupPhaseSecrets [] b = "core_app" -> setupCoreAppNode
      [] b = "native_env" -> setupCoreAppsShared [] b = "tunnel" -> setupPhaseTunnel
      [] b = "woodpecker" -> setupWoodpeckerNode
      [] b = "karakeep_key" -> ensureKarakeepLiteLLMKey
      [] b = "hindsight" -> ensureHindsightDependentApp
      [] b = "hindsight_env" -> renderHindsightEnv
      [] b = "install_hindsight" -> installHindsight
      [] b = "org_teams" -> ensureForgejoOrgTeams
      [] b = "woodpecker_role" -> ensureWoodpeckerPostgresAuth
      [] b = "login_exposure" -> setupPhaseLoginExposure
      [] b = "exposure" -> setupPhaseExposure
      [] b = "embedding" -> ensureEmbeddingWorkerConfig
      [] b = "connect_woodpecker" -> SetupWoodpecker
      [] b = "hermes_key" -> ensureHermesLiteLLMKey
      [] b = "hermes_app" -> ensureHermesDependentApp

\* What one body needs of others of the same run: the rest of one operation
\* of the sign-in node, and the edges of the graph.
After(b) ==
    CASE b = "jellyfin_setup" -> {"jellyfin"}
      [] b = "paperless_admin" -> {"paperless"} [] b = "paperless_members" -> {"paperless_admin"}
      [] b = "bot" -> {"forgejo"} [] b = "hermes_token" -> {"bot"}
      [] b = "auth_source" -> {"org_teams"} [] b = "oauth_app" -> {"auth_source"}
      [] b \in {"woodpecker_env", "woodpecker"} -> {"oauth_app"}
      [] b = "core_app" -> {"secrets"} [] b = "hermes_app" -> {"hermes_key"}
      [] b = "hindsight_env" -> {"hindsight"} [] b = "install_hindsight" -> {"hindsight_env"}
      [] b = "org_teams" -> {"bot"} [] b = "exposure" -> {"native_env"}
      [] OTHER -> {}

Body == agenda[at]
Here(verb, c) == at > 0 /\ BodyOf(Body)[step] = <<verb, c>>

\* Next body of the agenda, once those it needs are known.
MoveOn(done) == /\ at' = IF at < Len(agenda) THEN at + 1 ELSE 0
                /\ step' = 1 /\ ok' = done
                /\ good' = IF at < Len(agenda) THEN good ELSE done
Return  == MoveOn(ok \cup {Body}) /\ UNCHANGED flaws
\* Left to the operator, which is no failure either.
Defer   == MoveOn(ok) /\ UNCHANGED flaws
Onward  == IF step = Len(BodyOf(Body)) THEN MoveOn(ok \cup {Body})
           ELSE step' = step + 1 /\ UNCHANGED <<at, ok, good>>
Advance == Onward /\ UNCHANGED flaws

Put(c, v) == cred' = [cred EXCEPT ![c] = v]
Minted(c) == cred[c].gen + 1
\* The provider replaces what it accepts by a new value, and reveals it once.
Replaced(c) == [cred[c] EXCEPT !.gen = Minted(c), !.accepted = {Minted(c)}, !.hand = Minted(c)]

NodeInit ==
    \E s \in NodeScenarios :
        /\ agenda = s.agenda /\ paused = s.paused /\ mapped = s.mapped
        /\ cred = s.start /\ consumer = {c \in DOMAIN s.start : s.start[c].live # 0}
        /\ things = {} /\ shown = FALSE
        /\ at = 0 /\ step = 1 /\ ok = {} /\ good = {} /\ cut = {} /\ unwritten = {}
        /\ setupRuns = 0 /\ nodeFaults = 0 /\ nodeCrashes = 0

BeginSetup ==
    /\ at = 0 /\ setupRuns < MaxSetupRuns /\ setupRuns' = setupRuns + 1
    /\ at' = 1 /\ step' = 1 /\ ok' = {} /\ good' = {}
    /\ cred' = [c \in Cred |-> [cred[c] EXCEPT !.hand = 0]]
    /\ UNCHANGED <<nodeEnv, consumer, things, flaws, nodeFaults, nodeCrashes>>

\* A body whose predecessors failed is not run.
Blocked == at > 0 /\ step = 1 /\ ~(After(Body) \cap Range(agenda) \subseteq ok)
PassOverBody == /\ Blocked /\ MoveOn(ok)
                /\ UNCHANGED <<nodeEnv, cred, consumer, things, flaws, nodeCount>>

Does(verb, c) == Here(verb, c) /\ ~Blocked /\ UNCHANGED <<nodeEnv, nodeCount>>
Keeps == UNCHANGED <<consumer, things>>
\* A call fails that the code only logs, or whose error it drops.
PassedOver(verb, c) ==
    /\ Here(verb, c) /\ ~Blocked
    /\ nodeFaults < MaxNodeFaults /\ nodeFaults' = nodeFaults + 1
    /\ UNCHANGED <<nodeEnv, consumer, things, setupRuns, nodeCrashes>>

\* A consumer that is not down.
Runs(c) == c \in consumer /\ cred[c].live # -1

----------------------------------------------------------------------------
(* Clients of the identity provider and copies of their secrets *)

EnsureOIDCClient(c) ==
    /\ Does("client", c) /\ Keeps /\ Advance
    /\ Put(c, IF cred[c].accepted = {} THEN Replaced(c) ELSE [cred[c] EXCEPT !.hand = 0])

reuseStoredOIDCSecret(c) ==
    /\ Does("reuse", c) /\ Keeps /\ Advance
    /\ Put(c, [cred[c] EXCEPT !.hand = IF @ # 0 THEN @ ELSE cred[c].stored])

CreateOIDCClientSecret(c) ==
    /\ Does("rotate", c) /\ Keeps /\ Advance
    /\ IF cred[c].hand # 0 THEN UNCHANGED cred ELSE Put(c, Replaced(c))

upsertSecret(c) ==
    /\ Does("store", c) /\ Keeps /\ Advance
    /\ Put(c, [cred[c] EXCEPT !.stored = cred[c].hand])

\* Calls that only make something that is not there yet: group access,
\* claims, permissions, organization and teams, routes.
EnsureAccess(c) == /\ \E v \in {"access", "route"} : Does(v, c)
                   /\ Advance /\ things' = things \cup {c} /\ UNCHANGED <<cred, consumer>>

----------------------------------------------------------------------------
(* Configuration of a consumer *)

writeAppEnv(c) ==
    /\ Does("write", c) /\ Keeps /\ Advance
    /\ Put(c, [cred[c] EXCEPT !.conf = cred[c].hand])

\* Read, compare, write: an unchanged file is left alone and nothing restarts.
Converge(c) ==
    /\ \E v \in {"converge", "tryConverge"} : Does(v, c)
    /\ Keeps /\ Put(c, [cred[c] EXCEPT !.conf = cred[c].hand])
    /\ IF cred[c].conf = cred[c].hand THEN MoveOn(ok \cup {Body}) ELSE Onward
    /\ cut' = cut /\ unwritten' = unwritten \ {c}

\* Woodpecker's environment was not written, which is only logged, or the
\* broker did not reveal the token of the edge and its file is passed over:
\* the node is done.
WriteLost(c) ==
    /\ PassedOver("tryConverge", c) \/ (c = "caddy" /\ PassedOver("reveal", c))
    /\ MoveOn(ok \cup {Body})
    /\ unwritten' = IF cred[c].conf = cred[c].stored THEN unwritten ELSE unwritten \cup {c}
    /\ UNCHANGED <<cred, cut>>

\* Stop and start, of a stopped consumer too; one that is not installed has
\* nothing to restart.
Loaded(c) == IF c \in consumer THEN [cred[c] EXCEPT !.live = cred[c].conf] ELSE cred[c]
\* What a restart that fails leaves: nothing done, stopped, or started and
\* not healthy.
Restarted(c) == IF c \in consumer THEN {cred[c].live, -1, cred[c].conf} ELSE {cred[c].live}

redeployBundle(c) ==
    /\ \E v \in {"restart", "tryRestart", "systemctlRestart"} : Does(v, c)
    /\ Keeps /\ Advance /\ Put(c, Loaded(c))

\* The restart fails where the caller only logs it.
RestartLost(c) ==
    /\ \E v \in {"tryRestart", "systemctlRestart"} : PassedOver(v, c)
    /\ Onward /\ unwritten' = unwritten
    /\ \E l \in Restarted(c) : Put(c, [cred[c] EXCEPT !.live = l])
    /\ cut' = IF Runs(c)' /\ cred'[c].live # cred[c].conf THEN cut \cup {c} ELSE cut

\* Settings written through the product's own API are in force at once; the
\* console of Technitium must be open to the stored password.
SingleSignOn(c) ==
    /\ Does("sso", c) /\ Keeps
    /\ IF c = "technitium" /\ cred["technitium-admin"].stored \notin cred["technitium-admin"].accepted
       THEN Defer /\ UNCHANGED cred
       ELSE Advance /\ Put(c, [cred[c] EXCEPT !.conf = cred[c].hand, !.live = cred[c].hand])

\* The token the operator has stored.
RevealToken(c) == /\ Does("reveal", c) /\ Keeps /\ Advance
                  /\ Put(c, [cred[c] EXCEPT !.hand = cred[c].stored])

\* The tunnel is made or found, its connector token is fetched either way.
EnsureTunnel(c) ==
    /\ Does("tunnel", c) /\ Keeps /\ Advance
    /\ Put(c, IF cred[c].accepted = {} THEN Replaced(c)
              ELSE [cred[c] EXCEPT !.hand = CHOOSE v \in cred[c].accepted : TRUE])

\* enable --now starts the connector; it does not restart a running one.
EnableConnector(c) ==
    /\ Does("enable", c) /\ Advance /\ consumer' = consumer \cup {c}
    /\ IF Runs(c) THEN UNCHANGED cred ELSE Put(c, [cred[c] EXCEPT !.live = cred[c].conf])
    /\ UNCHANGED things

\* A paused bundle is passed over; any other one is brought to run.
ensureDefaultApp(c) ==
    /\ \E v \in {"install", "tryInstall"} : Does(v, c)
    /\ Advance
    /\ IF c \in paused \/ Runs(c) THEN UNCHANGED <<cred, consumer>>
       ELSE consumer' = consumer \cup {c} /\ Put(c, [cred[c] EXCEPT !.live = cred[c].conf])
    /\ UNCHANGED things

\* Units active, containers healthy, within the time the code waits.
waitHealthy(c) == /\ Does("healthy", c) /\ Keeps /\ Advance
                  /\ (Runs(c) \/ c \in paused) /\ UNCHANGED cred

\* A routing, DNS or mirroring error is dropped; with Hermes not installed the
\* rest of its node is left for another time and the node is done.
ErrorDropped(c) ==
    /\ \/ (\E v \in {"mirror", "bootstrap", "route", "zone"} : PassedOver(v, c)) /\ Onward
       \/ PassedOver("tryInstall", c) /\ Return
    /\ UNCHANGED <<cred, flaws>>

\* The first configuration of the edge is written once; failure is dropped.
writeBootstrapCaddyJSON(c) == /\ Does("bootstrap", c) /\ Advance
                              /\ things' = things \cup {"caddy_json"} /\ UNCHANGED <<cred, consumer>>

\* Upsert, plan, apply: private routes need no confirmation.
ensureExposureRecord(c) == /\ Does("record", c) /\ Advance
                           /\ things' = things \cup {"record"} /\ UNCHANGED <<cred, consumer>>

\* The zone is served or deferred, for the reconciler to finish.
reconcileTechnitiumZoneForSetup(c) ==
    /\ Does("zone", c) /\ Advance /\ UNCHANGED <<cred, consumer>>
    /\ things' \in {things, things \cup {"zone"}}

\* A route answers once the edge has its record and a token that the
\* authority of the domain accepts.
waitForHTTPSRoutes(c) ==
    /\ Does("https", c) /\ Keeps /\ UNCHANGED cred
    /\ "record" \in things /\ cred[c].live \in cred[c].accepted /\ Advance

\* The token of the request is good; it is in hand for the rest.
probeWoodpeckerUser(c) ==
    /\ Does("probe", c) /\ Keeps /\ cred[c].accepted # {} /\ Advance
    /\ Put(c, [cred[c] EXCEPT !.hand = CHOOSE v \in cred[c].accepted : TRUE])

\* After the restart of Woodpecker the user must be an administrator.
ReprobeAdmin(c) == /\ Does("reprobe", c) /\ Keeps /\ UNCHANGED cred
                   /\ Runs("woodpecker") /\ Advance

\* The client of the control plane takes the token the broker has.
bindSCM(c) == /\ Does("bind", c) /\ Advance
              /\ Put(c, [cred[c] EXCEPT !.conf = cred[c].stored, !.live = cred[c].stored])
              /\ things' = things \cup {"scm"} /\ UNCHANGED consumer

----------------------------------------------------------------------------
(* Passwords of the databases: files, the URL derived from one, the broker *)

\* A file that exists is left alone, an empty one too.
GenerateSecretFile(c) ==
    /\ Does("generateFile", c) /\ Keeps /\ Advance
    /\ IF cred[c].file # -1 THEN UNCHANGED cred
       ELSE Put(c, [cred[c] EXCEPT !.gen = Minted(c), !.file = Minted(c)])

\* The URL reads the password and generates it when it is empty or missing.
DeriveURL(c) ==
    /\ Does("derive", c) /\ Advance
    /\ things' = things \cup {"url"} /\ UNCHANGED consumer
    /\ IF "url" \in things THEN UNCHANGED cred
       ELSE LET p == IF cred[c].file > 0 THEN cred[c].file ELSE Minted(c)
            IN  Put(c, [cred[c] EXCEPT !.file = p, !.conf = p,
                                       !.gen = IF cred[c].file > 0 THEN @ ELSE Minted(c)])

\* Files are copied to the broker unless it has a value or the file is empty.
MirrorToBroker(c) ==
    /\ Does("mirror", c) /\ Keeps /\ Advance
    /\ IF cred[c].stored # 0 \/ cred[c].file < 1 THEN UNCHANGED cred
       ELSE Put(c, [cred[c] EXCEPT !.stored = cred[c].file])

\* ALTER ROLE with the broker's password, else the file's.
ensurePostgresAuth(c) ==
    /\ Does("role", c) /\ Keeps
    /\ LET p == IF cred[c].stored # 0 THEN cred[c].stored ELSE cred[c].file
       IN  /\ p > 0 /\ Advance
           /\ Put(c, [cred[c] EXCEPT !.accepted = {p}])

----------------------------------------------------------------------------
(* First administrators *)

\* With the wizard done the password is the stored one; without it there is
\* nothing to sign in with and the rest is skipped.
JellyfinPassword(c) ==
    /\ Does("newPassword", c) /\ Keeps
    /\ IF cred[c].stored = 0 /\ "wizard" \in things THEN Return /\ UNCHANGED cred
       ELSE /\ Advance
            /\ Put(c, IF cred[c].stored # 0 THEN [cred[c] EXCEPT !.hand = cred[c].stored]
                      ELSE [cred[c] EXCEPT !.gen = Minted(c), !.hand = Minted(c)])

JellyfinFirstUser(c) ==
    /\ Does("firstUser", c) /\ Keeps /\ Advance
    /\ IF "wizard" \in things THEN UNCHANGED cred
       ELSE Put(c, [cred[c] EXCEPT !.accepted = {cred[c].hand}])

JellyfinComplete(c) == /\ Does("complete", c) /\ Advance
                       /\ things' = things \cup {"wizard"} /\ UNCHANGED <<cred, consumer>>

JellyfinLibrary(c) ==
    /\ Does("library", c) /\ Advance
    /\ things' = IF cred[c].hand \in cred[c].accepted THEN things \cup {"library"} ELSE things
    /\ UNCHANGED <<cred, consumer>>

\* The default password is replaced by a new one, then kept.
TechnitiumLogin(c) ==
    /\ Does("defaultLogin", c) /\ Keeps /\ Advance
    /\ Put(c, IF cred[c].accepted = {} THEN Replaced(c)
              ELSE [cred[c] EXCEPT !.hand = cred[c].stored])

KeepInitialPassword(c) ==
    /\ Does("storeWarn", c) /\ Keeps /\ Advance
    /\ Put(c, [cred[c] EXCEPT !.stored = cred[c].hand])

\* Settings need a session; without one household DNS is left to the operator.
TechnitiumSettings(c) ==
    /\ Does("settings", c)
    /\ IF cred[c].hand \in cred[c].accepted THEN Advance /\ things' = things \cup {"dns"}
       ELSE Return /\ UNCHANGED things
    /\ UNCHANGED <<cred, consumer>>

\* The setup view: the password is shown once and deleted.
GetTechnitiumSetup ==
    /\ "technitium-admin" \in Cred /\ cred["technitium-admin"].stored # 0
    /\ cred' = [cred EXCEPT !["technitium-admin"].stored = 0]
    /\ shown' = TRUE
    /\ UNCHANGED <<agenda, paused, mapped, place, consumer, things, good, flaws, nodeCount>>

\* Only a database without users gets an administrator.
PaperlessAdminRow(c) ==
    /\ Does("adminRow", c) /\ Keeps
    /\ IF cred[c].accepted # {} THEN Return /\ UNCHANGED cred
       ELSE Advance /\ Put(c, Replaced(c))

----------------------------------------------------------------------------
(* Tokens of Forgejo: reused only when Forgejo accepts them *)

BotUser(c) ==
    /\ Does("botUser", c) /\ Advance /\ things' = things \cup {"bot"}
    /\ Put(c, IF "bot" \in things THEN cred[c] ELSE [cred[c] EXCEPT !.accepted = {}])
    /\ UNCHANGED consumer

validateForgejoToken(c) ==
    /\ Does("validate", c) /\ Keeps /\ UNCHANGED cred
    /\ IF cred[c].stored \in cred[c].accepted THEN Return ELSE Advance

\* Tokens of the bot add up: an old one keeps its name and stays valid.
GenerateToken(c) ==
    /\ Does("generate", c) /\ Keeps /\ Advance
    /\ Put(c, [Replaced(c) EXCEPT !.accepted = cred[c].accepted \cup {Minted(c)}])

\* The token named hermes is deleted and created again.
RecreateToken(c) == /\ Does("recreate", c) /\ Keeps /\ Advance /\ Put(c, Replaced(c))

\* The list omits the secret: the stored one is used while the application is
\* confidential; else the update rotates it.
OAuthApp(c) ==
    /\ Does("oauthApp", c) /\ Advance
    /\ things' = things \cup {"confidential"}
    /\ Put(c, IF cred[c].accepted # {} /\ "confidential" \in things /\ cred[c].stored # 0
              THEN [cred[c] EXCEPT !.hand = cred[c].stored] ELSE Replaced(c))
    /\ UNCHANGED consumer

ReplaceSecretFile(c) == /\ Does("secretFile", c) /\ Keeps /\ Advance
                        /\ Put(c, [cred[c] EXCEPT !.file = cred[c].hand])

OAuthFiles(c) == /\ Does("oauthFiles", c) /\ Keeps /\ Advance
                 /\ cred[c].file > 0 /\ UNCHANGED cred

----------------------------------------------------------------------------
(* Virtual keys of the gateway *)

\* Karakeep's key waits for the alias it is scoped to and for Karakeep.
AliasAvailable(c) ==
    /\ Does("alias", c) /\ Keeps /\ UNCHANGED cred
    /\ IF mapped THEN Advance ELSE Defer

\* Without a memory model Hindsight is left to the operator; Hermes goes on.
DeferHermes(c) ==
    /\ Does("defer", c) /\ Keeps /\ UNCHANGED cred
    /\ IF mapped /\ c \notin paused THEN Advance ELSE Defer

\* Mutated form: the stored token is used whether or not its key is active.
AdoptStored(c) ==
    /\ Does("adopt", c) /\ Keeps /\ Advance
    /\ Put(c, [cred[c] EXCEPT !.hand = cred[c].stored])

\* An active key with a stored token is used; one without is revoked.
AdoptKey(c) ==
    /\ Does("adopt", c) /\ Keeps /\ Advance
    /\ Put(c, IF cred[c].accepted # {} /\ cred[c].stored # 0
              THEN [cred[c] EXCEPT !.hand = cred[c].stored]
              ELSE [cred[c] EXCEPT !.hand = 0, !.accepted = {}])

\* The look for an active key or its token fails, or the revocation, which is
\* dropped: another key is issued beside one that may stay active.
AdoptLost(c) ==
    /\ PassedOver("adopt", c) /\ Advance
    /\ \E a \in {{}, cred[c].accepted} : Put(c, [cred[c] EXCEPT !.hand = 0, !.accepted = a])

IssueKey(c) ==
    /\ Does("issue", c) /\ Keeps /\ Advance
    /\ IF cred[c].hand # 0 THEN UNCHANGED cred
       ELSE Put(c, [Replaced(c) EXCEPT !.accepted = cred[c].accepted \cup {Minted(c)}])

KeepToken(c) == /\ Does("keep", c) /\ Keeps /\ Advance
                /\ Put(c, [cred[c] EXCEPT !.stored = cred[c].hand])

\* The broker fails where the error is dropped, or only logged.
KeepTokenLost(c) ==
    /\ \E v \in {"keep", "storeWarn"} : PassedOver(v, c)
    /\ Onward /\ UNCHANGED <<cred, unwritten>>
    /\ cut' = IF cred[c].stored = cred[c].hand THEN cut ELSE cut \cup {c}

\* The operator gives the gateway the aliases of the household.
SeedModelAliases ==
    /\ ~mapped /\ mapped' = TRUE /\ good' = {}
    /\ UNCHANGED <<agenda, paused, shown, place, cred, consumer, things, flaws, nodeCount>>

\* The operator revokes a key, between two runs.  With another key of its owner
\* active the token of the revoked one is not replaced.
RevokeVirtualKey(c) ==
    /\ c \in Keys /\ at = 0 /\ good' = {}
    /\ \E v \in cred[c].accepted :
          /\ cred' = [cred EXCEPT ![c].accepted = @ \ {v}]
          /\ cut' = IF cred[c].accepted = {v} THEN cut ELSE cut \cup {c}
    /\ UNCHANGED <<nodeEnv, place, consumer, things, unwritten, nodeCount>>

\* The operator stores another token of Cloudflare, accepted in its place, or
\* makes another choice of the embedding models.
ReplaceToken(c) ==
    /\ c \in Chosen /\ at = 0 /\ Put(c, [Replaced(c) EXCEPT !.stored = Minted(c)]) /\ good' = {}
    /\ Minted(c) < 4
    /\ UNCHANGED <<nodeEnv, place, consumer, things, flaws, nodeCount>>

----------------------------------------------------------------------------
(* Failures *)

\* The provider accepts a value the broker will not return: an older one is
\* stored, or the provider will not reveal another.
LostSecret(c) == /\ cred[c].hand # 0 /\ cred[c].hand \in cred[c].accepted
                 /\ cred[c].stored # cred[c].hand
                 /\ cred[c].stored # 0 \/ c \in Admins
\* A configuration that counts as written was not loaded by what still runs.
LostRestart(c) == /\ Runs(c)' /\ cred[c].conf # cred'[c].live
                  /\ \E v \in {"restart", "tryRestart"} : Here(v, c)
                  /\ \E i \in 1..(step - 1), v \in {"converge", "tryConverge"} :
                        BodyOf(Body)[i] = <<v, c>>

CutOff == /\ cut' = cut \cup {c \in Cred : LostSecret(c) \/ LostRestart(c)}
          /\ unwritten' = unwritten

\* What the code goes on after when it fails.
Tolerated == {"tryConverge", "tryRestart", "systemctlRestart", "tryInstall", "keep",
              "storeWarn", "mirror", "bootstrap", "route", "zone"}

\* A call fails: the body ends.
BodyFails ==
    /\ at > 0 /\ BodyOf(Body)[step][1] \notin Tolerated
    /\ ~Blocked /\ nodeFaults < MaxNodeFaults /\ nodeFaults' = nodeFaults + 1
    /\ UNCHANGED <<nodeEnv, consumer, things, setupRuns, nodeCrashes>>
    /\ \/ UNCHANGED cred
       \/ \E c \in consumer : /\ Here("restart", c)
                              /\ \E l \in Restarted(c) : Put(c, [cred[c] EXCEPT !.live = l])
    /\ MoveOn(ok) /\ CutOff

\* Nothing that a password could be taken from, or what is waited for does
\* not come.
RefusedBody ==
    /\ \E c \in Cred : \/ Here("role", c) /\ cred[c].stored = 0 /\ cred[c].file < 1
                       \/ Here("oauthFiles", c) /\ cred[c].file < 1
                       \/ Here("probe", c) /\ cred[c].accepted = {}
                       \/ Here("reprobe", c)
                       \/ Here("https", c) /\ ~("record" \in things /\ cred[c].live \in cred[c].accepted)
                       \/ Here("healthy", c) /\ ~Runs(c) /\ c \notin paused
    /\ ~Blocked /\ MoveOn(ok)
    /\ UNCHANGED <<nodeEnv, cred, consumer, things, flaws, nodeCount>>

\* A file that is being written may be left empty, a consumer stopped.
SetupCrash ==
    /\ at > 0 /\ nodeCrashes < MaxNodeCrashes /\ nodeCrashes' = nodeCrashes + 1
    /\ UNCHANGED <<nodeEnv, consumer, setupRuns, nodeFaults>>
    /\ \/ UNCHANGED <<cred, things>> /\ CutOff
       \/ /\ \E c \in consumer : /\ Here("restart", c) \/ Here("tryRestart", c)
                                 /\ Put(c, [cred[c] EXCEPT !.live = -1])
          /\ UNCHANGED things /\ CutOff
       \/ \E c \in Cred : /\ Here("generateFile", c) /\ cred[c].file = -1
                          /\ Put(c, [cred[c] EXCEPT !.file = 0]) /\ UNCHANGED <<things, flaws>>
       \/ \E c \in Cred : /\ Here("derive", c) /\ "url" \notin things
                          /\ things' = things \cup {"url"} /\ cut' = cut \cup {c}
                          /\ UNCHANGED <<cred, unwritten>>
    /\ at' = 0 /\ step' = 1 /\ ok' = {} /\ good' = {}

NodeBodyStep(c) ==
    \/ EnsureOIDCClient(c) \/ reuseStoredOIDCSecret(c) \/ CreateOIDCClientSecret(c)
    \/ upsertSecret(c) \/ EnsureAccess(c) \/ writeAppEnv(c) \/ Converge(c)
    \/ WriteLost(c) \/ redeployBundle(c) \/ RestartLost(c) \/ ErrorDropped(c) \/ SingleSignOn(c) \/ RevealToken(c)
    \/ EnsureTunnel(c) \/ EnableConnector(c) \/ ensureDefaultApp(c)
    \/ waitHealthy(c) \/ writeBootstrapCaddyJSON(c) \/ ensureExposureRecord(c)
    \/ reconcileTechnitiumZoneForSetup(c) \/ waitForHTTPSRoutes(c)
    \/ probeWoodpeckerUser(c) \/ ReprobeAdmin(c) \/ bindSCM(c)
    \/ GenerateSecretFile(c) \/ DeriveURL(c) \/ MirrorToBroker(c) \/ ensurePostgresAuth(c)
    \/ JellyfinPassword(c) \/ JellyfinFirstUser(c) \/ JellyfinComplete(c) \/ JellyfinLibrary(c)
    \/ TechnitiumLogin(c) \/ KeepInitialPassword(c) \/ TechnitiumSettings(c)
    \/ PaperlessAdminRow(c) \/ BotUser(c) \/ validateForgejoToken(c) \/ GenerateToken(c)
    \/ RecreateToken(c) \/ OAuthApp(c) \/ ReplaceSecretFile(c) \/ OAuthFiles(c)
    \/ AliasAvailable(c) \/ DeferHermes(c) \/ AdoptKey(c) \/ AdoptLost(c) \/ IssueKey(c)
    \/ KeepToken(c)
    \/ KeepTokenLost(c) \/ RevokeVirtualKey(c) \/ ReplaceToken(c)

NodeNext ==
    \/ BeginSetup \/ PassOverBody \/ BodyFails \/ RefusedBody \/ SetupCrash
    \/ GetTechnitiumSetup \/ SeedModelAliases
    \/ \E c \in Cred : NodeBodyStep(c)

NodeSpec == NodeInit /\ [][NodeNext]_nodeVars

----------------------------------------------------------------------------
(* Properties *)

\* The body that gives a credential its value in the consumer.
WiredBy(c) ==
    CASE c = "db" -> {"core_app"} [] c = "caddy" -> {"native_env"}
      [] c = "woodpecker" -> {"oauth_app", "woodpecker_env"}
      [] c = "forgejo" -> {"auth_source"} [] c = "karakeep-key" -> {"karakeep_key"}
      [] c = "hindsight-key" -> {"hindsight", "hindsight_env"} [] c = "embed" -> {"embedding"}
      [] c = "ci" -> {"connect_woodpecker"} [] c = "hermes-key" -> {"hermes_key"}
      [] OTHER -> {c}

\* A setup run that reports the bodies of a credential done leaves a consumer
\* that is signed in: what it has loaded is what the provider accepts, after
\* any failures and crashes of earlier runs.  Credentials that were cut off
\* between the provider and the broker, or between a file and the restart,
\* are excepted: the code does not notice them.  So are those whose file could
\* not be written while the node reported done, until a later run writes it:
\* Woodpecker's environment, whose failed write is only logged, and the token
\* of the edge when the broker does not reveal it.
WorksWhenDone(c) ==
    at = 0 /\ WiredBy(c) \cap Range(agenda) # {} /\ WiredBy(c) \cap Range(agenda) \subseteq good
      => (Runs(c) => cred[c].live \in cred[c].accepted)
SuccessIsWired == \A c \in Cred \ (Admins \cup cut \cup unwritten) : WorksWhenDone(c)

\* "the password in secrets": the first administrator of a product can be
\* signed in as: the broker has a password the product accepts, or the body
\* that changes it is still at work.  Jellyfin's is never lost; Technitium's
\* may have been shown to the operator, and the other two may be cut off.
AdminIsKnown ==
    \A c \in Admins \cap Cred : cred[c].accepted # {} =>
        \/ {cred[c].stored, cred[c].hand} \cap cred[c].accepted # {}
        \/ c # "jellyfin-admin" /\ (shown \/ c \in cut)

=============================================================================
