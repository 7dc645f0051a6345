---------------------------- MODULE SourceControl ----------------------------
(* The repository behind a project: internal/scm/service.go with the         *)
(* Forgejo and Woodpecker clients (forgejo.go, woodpecker.go) and the calls   *)
(* of internal/controlplane/projects_ops.go.  CreateProject provisions the    *)
(* repository, its CI user, registry token and pipeline one remote call at a  *)
(* time; a failure is compensated and then deprovisioned; DeleteProject       *)
(* deprovisions.  Calls fail, answers get lost, request contexts end, omahabd *)
(* dies.  There is one name, and every project of it is a new project.        *)
EXTENDS Naturals, Sequences, FiniteSets

CONSTANTS ScmProject,     \* ids of the projects created one after another under the name
          ScmBudget       \* bound: pairs of a number of faults (failed calls, lost answers,
                          \* ended requests, deaths) and of requests beside the creations

ASSUME ScmProjectAssumption == "nobody" \notin ScmProject /\ "user" \notin ScmProject

VARIABLES world,     \* the tables, Forgejo, Woodpecker and the secret broker
          scmOp,     \* scmOp[p][a]: the request of kind a about p
          born,      \* the projects created so far
          beside,    \* projects whose creation and deletion have run beside each other
          scmFaults, scmRequests   \* what is left of both

scmVars == <<world, scmOp, born, beside, scmFaults, scmRequests>>

ScmActor == {"create", "delete", "mirror"}
NoRow == [obs |-> "none", adopted |-> FALSE, ci |-> FALSE]
NoRepo == [by |-> "nobody", piped |-> FALSE, pushes |-> FALSE]
NoOp == [todo |-> <<>>, made |-> {}, live |-> TRUE, keeps |-> FALSE, ci |-> FALSE]

ScmInit ==
    /\ world \in {[recs |-> {}, row |-> [p \in ScmProject |-> NoRow], mirror |-> {}, creds |-> {},
                   repo |-> [NoRepo EXCEPT !.by = o], users |-> {}, tokens |-> {}, kept |-> {},
                   wp |-> FALSE, secrets |-> {}, release |-> {}] : o \in {"nobody", "user"}}
    /\ scmOp = [p \in ScmProject |-> [a \in ScmActor |-> NoOp]]
    /\ born = {} /\ beside = {} /\ \E b \in ScmBudget : scmFaults = b[1] /\ scmRequests = b[2]

----------------------------------------------------------------------------
(* The bodies, as the calls they make *)

\* CreateProject issues a release token, then Service.Provision for a code project; the mirror it could take has no caller.
\* Calls that change nothing the properties see are part of the next one that does:
\* the clone address and Forgejo Actions, the access of the CI user, the webhook.
Provision == <<"issue", "row", "repo", "own", "ci", "cirow", "user", "token", "keep", "secrets", "pipeline", "ready">>

\* The documents stop after the repository itself.
ProvisionDocs == <<"row", "repo", "own", "ready">>

\* compensate: what this attempt made, without looking at errors.
Compensate == <<"undo_secrets", "undo_ci", "undo_user", "undo_kept", "undo_repo">>

\* Service.deprovision
Deprovision == <<"read", "drop_secrets", "deactivate", "drop_repo", "drop_token", "drop_user", "drop_kept", "drop_row">>

\* The failure path of CreateProject; a failure to insert the row has nothing to compensate.
CleanupOf(step) ==
    (IF step = "keep" THEN <<"drop_token">> ELSE <<>>)
    \o (IF step = "row" THEN <<>> ELSE <<"mark">> \o Compensate)
    \o Deprovision \o <<"record">>

\* Mutated form: the error of removing the CI user is dropped.
FatalButUser == {"read", "deactivate", "drop_repo", "record", "undeploy", "m_secret", "m_put", "m_row", "m_drop"}

\* The calls whose error ends the request: every other failure is passed over.
Fatal == {"read", "deactivate", "drop_repo", "drop_user", "record", "undeploy",
          "m_secret", "m_put", "m_row", "m_drop"}

Provisions(p) == \E i \in 1..Len(Provision) : Head(scmOp[p]["create"].todo) = Provision[i]

----------------------------------------------------------------------------
(* What each call does *)

HasRow(w, p) == w.row[p].obs # "none"
Exists(w) == w.repo.by # "nobody"

\* An update of a row that is gone succeeds and changes nothing.
SetRow(w, p, r) == IF HasRow(w, p) THEN [w EXCEPT !.row[p] = r] ELSE w

\* CreateRepo, or GetRepo when the name is taken.
CreateRepo(p, w) == IF Exists(w) THEN w ELSE [w EXCEPT !.repo = [NoRepo EXCEPT !.by = p]]

\* The row learns whether the repository was there before.
RecordOwnership(p, o, w) ==
    SetRow(w, p, [w.row[p] EXCEPT !.adopted = "repo" \notin o.made])

\* Only the hash of a release token is kept.
IssueReleaseToken(p, w) == [w EXCEPT !.release = @ \cup {p}]

EnsureRepo(p, w) == [w EXCEPT !.wp = TRUE]
CIRow(p, w) == [w EXCEPT !.row[p].ci = TRUE]
CreateUser(p, w) == [w EXCEPT !.users = @ \cup {p}]
DeleteUser(p, w) == [w EXCEPT !.users = @ \ {p}, !.tokens = @ \ {p}]
CreateToken(p, w) == [w EXCEPT !.tokens = @ \cup {p}]
DeleteToken(p, w) == [w EXCEPT !.tokens = @ \ {p}]
UpsertRepoSecrets(p, w) == [w EXCEPT !.secrets = @ \cup {p}]
DeleteRepoSecrets(p, w) == [w EXCEPT !.secrets = @ \ {p}]
DeactivateRepo(w) == [w EXCEPT !.wp = FALSE, !.secrets = {}]
DeleteRepo(w) == [w EXCEPT !.repo = NoRepo]

\* PutFile only creates: a pipeline that is there already is an error.
SeedPipeline(p, w) == [w EXCEPT !.repo.piped = TRUE]

\* The rows of the mirror and of the pipeline go with the row.
DropRow(p, w) == [w EXCEPT !.row[p] = NoRow, !.mirror = @ \ {p}]

MarkReady(p, w) == SetRow(w, p, [w.row[p] EXCEPT !.obs = "ready"])

ProvisionEffect(p, o, step, w) ==
    CASE step = "issue"    -> IssueReleaseToken(p, w)
      [] step = "row"      -> [w EXCEPT !.row[p] = [NoRow EXCEPT !.obs = "pending"]]
      [] step = "repo"     -> CreateRepo(p, w)
      [] step = "own"      -> RecordOwnership(p, o, w)
      [] step = "ci"       -> EnsureRepo(p, w)
      [] step = "cirow"    -> CIRow(p, w)
      [] step = "user"     -> CreateUser(p, w)
      [] step = "token"    -> CreateToken(p, w)
      [] step = "keep"     -> [w EXCEPT !.kept = @ \cup {p}]
      [] step = "secrets"  -> UpsertRepoSecrets(p, w)
      [] step = "pipeline" -> SeedPipeline(p, w)
      [] step = "ready"    -> MarkReady(p, w)
      [] OTHER             -> w

CompensateEffect(p, o, step, w) ==
    CASE step = "undo_secrets" /\ "secrets" \in o.made -> DeleteRepoSecrets(p, w)
      [] step = "undo_ci" /\ "ci" \in o.made           -> SetRow(DeactivateRepo(w), p, [w.row[p] EXCEPT !.ci = FALSE])
      [] step = "undo_user" /\ "user" \in o.made       -> DeleteUser(p, w)
      [] step = "undo_kept" /\ "keep" \in o.made       -> [w EXCEPT !.kept = @ \ {p}]
      [] step = "undo_repo" /\ "repo" \in o.made       -> DeleteRepo(w)
      [] OTHER -> w

DeprovisionEffect(p, o, step, w) ==
    CASE step = "drop_secrets" /\ o.ci     -> DeleteRepoSecrets(p, w)
      [] step = "deactivate" /\ o.ci       -> SetRow(DeactivateRepo(w), p, [w.row[p] EXCEPT !.ci = FALSE])
      [] step = "drop_repo" /\ ~o.keeps    -> DeleteRepo(w)
      [] step = "drop_token"               -> DeleteToken(p, w)
      [] step = "drop_user"                -> DeleteUser(p, w)
      [] step = "drop_kept"                -> [w EXCEPT !.kept = @ \ {p}, !.creds = @ \ {p}]
      [] step = "drop_row"                 -> DropRow(p, w)
      [] OTHER -> w

\* ConfigureMirror and RemoveMirror; Forgejo keeps a copy of the credential.
MirrorEffect(p, step, w) ==
    CASE step = "m_secret"   -> [w EXCEPT !.creds = @ \cup {p}]
      [] step = "m_put"      -> [w EXCEPT !.repo.pushes = TRUE]
      [] step = "m_row"      -> [w EXCEPT !.mirror = @ \cup {p}]
      [] step = "m_unput"    -> [w EXCEPT !.repo.pushes = FALSE]
      [] step = "m_unsecret" -> [w EXCEPT !.creds = @ \ {p}]
      [] step = "m_drop"     -> [w EXCEPT !.mirror = @ \ {p}]
      [] OTHER -> w

\* DeleteProjectRecord, and the transaction of DeleteWithTeardown.
RecordEffect(p, step, w) == IF step = "record" THEN [w EXCEPT !.recs = @ \ {p}, !.release = @ \ {p}] ELSE w
Effect(p, o, step, w) ==
    LET a == ProvisionEffect(p, o, step, w)
        b == CompensateEffect(p, o, step, a)
        c == DeprovisionEffect(p, o, step, b)
    IN RecordEffect(p, step, MirrorEffect(p, step, c))

\* What the other side refuses whatever its state of health: a second project of
\* the name, a row of a repository that is gone, a file that exists, and any call
\* about a repository that does not exist.
Refused(p, step) ==
    \/ step = "row" /\ \E q \in ScmProject : HasRow(world, q)
    \/ step \in {"cirow", "m_row"} /\ ~HasRow(world, p)
    \/ step \in {"ci", "token", "pipeline", "ready", "m_put"} /\ ~Exists(world)
    \/ step = "pipeline" /\ world.repo.piped
    \/ step = "token" /\ p \notin world.users
    \/ step = "secrets" /\ p \notin world.release
    \/ step = "record" /\ p \notin world.recs

----------------------------------------------------------------------------
(* Requests *)

Running(p, a) == scmOp[p][a].todo # <<>>
StepOf(p, a) == Head(scmOp[p][a].todo)
Becomes(p, a, o) == scmOp' = [scmOp EXCEPT ![p][a] = o]
Onwards(o) == IF Len(o.todo) = 1 THEN NoOp ELSE [o EXCEPT !.todo = Tail(@)]

\* CreateProject writes the record first; its name is unique.  It comes after the
\* requests about the projects before.
ScmCreateProject(p, body) ==
    /\ \A q \in ScmProject, a \in ScmActor : ~Running(q, a)
    /\ world.recs = {} /\ ~HasRow(world, p) /\ p \notin born
    /\ world' = [world EXCEPT !.recs = @ \cup {p}]
    /\ Becomes(p, "create", [NoOp EXCEPT !.todo = body])
    /\ born' = born \cup {p}
    /\ UNCHANGED <<beside, scmFaults, scmRequests>>

\* DeleteProject: the runtime, the remotes, the record, under the deploy lock.
ScmDeleteProject(p) ==
    /\ p \in world.recs /\ ~Running(p, "delete")
    /\ scmRequests > 0 /\ scmRequests' = scmRequests - 1
    /\ Becomes(p, "delete", [NoOp EXCEPT !.todo = <<"undeploy">> \o Deprovision \o <<"record">>])
    /\ beside' = IF Running(p, "create") THEN beside \cup {p} ELSE beside
    /\ UNCHANGED <<world, born, scmFaults>>

ConfigureMirror(p) ==
    /\ HasRow(world, p) /\ ~Running(p, "mirror")
    /\ scmRequests > 0 /\ scmRequests' = scmRequests - 1
    /\ Becomes(p, "mirror", [NoOp EXCEPT !.todo = <<"m_secret", "m_put", "m_row">>])
    /\ UNCHANGED <<world, born, beside, scmFaults>>

RemoveMirror(p) ==
    /\ HasRow(world, p) /\ p \in world.mirror /\ ~Running(p, "mirror")
    /\ scmRequests > 0 /\ scmRequests' = scmRequests - 1
    /\ Becomes(p, "mirror", [NoOp EXCEPT !.todo = <<"m_unput", "m_unsecret", "m_drop">>])
    /\ UNCHANGED <<world, born, beside, scmFaults>>

\* The call is made and answered.  What deprovision reads it goes by to its end.
ScmStep(p, a) ==
    /\ Running(p, a) /\ scmOp[p][a].live
    /\ LET o == scmOp[p][a]  s == StepOf(p, a) IN
       /\ ~Refused(p, s)
       /\ world' = Effect(p, o, s, world)
       /\ LET made == IF s = "repo" /\ Exists(world) THEN {} ELSE {s} \cap {"repo", "ci", "user", "keep", "secrets"}
              read == IF s = "read" THEN [o EXCEPT !.keeps = world.row[p].adopted \/ ~HasRow(world, p), !.ci = world.row[p].ci] ELSE o
          IN Becomes(p, a, Onwards([read EXCEPT !.made = @ \cup made]))
    /\ UNCHANGED <<born, beside, scmFaults, scmRequests>>

\* A failure while provisioning starts the clean-up, elsewhere it ends the request
\* or is passed over; the credential of a mirror that failed is removed.
AfterFailure(p, a) ==
    LET o == scmOp[p][a]  s == StepOf(p, a) IN
    IF s = "issue" THEN Onwards(o)
    ELSE IF a = "create" /\ Provisions(p) THEN [o EXCEPT !.todo = CleanupOf(s)]
    ELSE IF s = "m_put" THEN [o EXCEPT !.todo = <<"m_unsecret">>]
    ELSE IF s \in Fatal THEN NoOp
    ELSE Onwards(o)

\* A call is refused, or its context has ended before it is made.
ScmFail(p, a) ==
    /\ Running(p, a)
    /\ \/ (Refused(p, StepOf(p, a)) \/ ~scmOp[p][a].live) /\ UNCHANGED scmFaults
       \/ scmFaults > 0 /\ scmFaults' = scmFaults - 1
    /\ Becomes(p, a, AfterFailure(p, a))
    /\ UNCHANGED <<world, born, beside, scmRequests>>

\* The calls to Forgejo and Woodpecker; the others are statements of the database.
Remote == {"repo", "ci", "user", "token", "secrets", "pipeline", "undo_secrets", "undo_ci", "undo_user", "undo_repo",
           "drop_secrets", "deactivate", "drop_repo", "drop_token", "drop_user", "m_put", "m_unput"}

\* The call took effect, its answer is lost.
ScmLoseAnswer(p, a) ==
    /\ Running(p, a) /\ scmOp[p][a].live /\ StepOf(p, a) \in Remote /\ ~Refused(p, StepOf(p, a))
    /\ scmFaults > 0 /\ scmFaults' = scmFaults - 1
    /\ world' = Effect(p, scmOp[p][a], StepOf(p, a), world) /\ world' # world
    /\ Becomes(p, a, AfterFailure(p, a))
    /\ UNCHANGED <<born, beside, scmRequests>>

\* The request has been served for 30 seconds.
ScmRequestEnds(p, a) ==
    /\ Running(p, a) /\ scmOp[p][a].live
    /\ scmFaults > 0 /\ scmFaults' = scmFaults - 1
    /\ Becomes(p, a, [scmOp[p][a] EXCEPT !.live = FALSE])
    /\ UNCHANGED <<world, born, beside, scmRequests>>

ScmCrash ==
    /\ \E p \in ScmProject, a \in ScmActor : Running(p, a)
    /\ scmFaults > 0 /\ scmFaults' = scmFaults - 1
    /\ scmOp' = [p \in ScmProject |-> [a \in ScmActor |-> NoOp]]
    /\ UNCHANGED <<world, born, beside, scmRequests>>

\* Nothing is under way and nobody asks for anything more.
ScmRest ==
    /\ \A p \in ScmProject, a \in ScmActor : ~Running(p, a)
    /\ UNCHANGED scmVars

ScmNext ==
    \/ \E p \in ScmProject :
         \/ ScmCreateProject(p, Provision) \/ ScmCreateProject(p, ProvisionDocs)
         \/ ScmDeleteProject(p) \/ ConfigureMirror(p) \/ RemoveMirror(p)
    \/ \E p \in ScmProject, a \in ScmActor :
         ScmStep(p, a) \/ ScmFail(p, a) \/ ScmLoseAnswer(p, a) \/ ScmRequestEnds(p, a)
    \/ ScmCrash \/ ScmRest

ScmSpec == ScmInit /\ [][ScmNext]_scmVars

----------------------------------------------------------------------------
(* Properties *)

\* CreateProject: "never erase tracking of a repository that may still exist".
\* Whatever failed, was lost or died, a repository or a CI user that a project made
\* is there only with the project's record -- unless the project was deleted beside
\* its own creation, which nothing prevents.
LeftoversAreTracked ==
    \A p \in ScmProject :
        (p \in world.users \/ world.repo.by = p) /\ p \notin beside => p \in world.recs

=============================================================================
