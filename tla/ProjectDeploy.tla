---------------------------- MODULE ProjectDeploy ----------------------------
(***************************************************************************)
(* The releases of one project and the application that serves it: deploy, *)
(* rollback, delete and the clean-up of a failed creation, under the        *)
(* per-project lock in SQLite, and what omahab-once does to the container   *)
(* and its data volume when it is asked to deploy, update or undeploy.      *)
(*                                                                         *)
(*   internal/projects/deploy.go, service.go      the operations           *)
(*   internal/controlplane/projects_ops.go, once.go  callers and runner     *)
(*   third_party/once/internal/command, docker    the fork that is run     *)
(*                                                                         *)
(* The lock goes stale after ten minutes and every request ends after       *)
(* thirty seconds: a tick of the clock is longer than a request and than    *)
(* what it still does when it has ended, and a lock is stale after          *)
(* StaleAge ticks.  Errors of the database other than an ended context are  *)
(* left out, and so are other projects with the same host name.             *)
(***************************************************************************)
EXTENDS Naturals, FiniteSets

CONSTANTS
    Request,   \* requests that may be served at once
    Digest,    \* image digests that are deployed
    Host,      \* host names the project may have
    None,      \* no digest, no host name, no application
    StaleAge   \* age in ticks at which a lock counts as abandoned

ASSUME StaleAssumption == StaleAge \in Nat /\ StaleAge >= 2
ASSUME DigestAssumption == IsFiniteSet(Digest)
ASSUME NoneAssumption == /\ None \notin Digest /\ None \notin Host
                         /\ \A h \in Host \cup {None}, d \in Digest \cup {None}, b \in BOOLEAN :
                              None # [host |-> h, image |-> d, recorded |-> b]

VARIABLES
    proj,  \* row of projects
    rel,   \* rows of releases, by digest
    once,  \* the application container and the data volume of the project's slug
    req    \* where each request is

vars == <<proj, rel, once, req>>

Statuses == {"none", "deploying", "succeeded", "failed"}
Ops      == {"none", "deploy", "rollback", "delete", "create"}

\* Between beginDeployFlag and endDeployFlag, and outside.
Holding == {"locked", "run", "update", "probe", "activate", "fail", "undeploy",
            "teardown", "erase", "unlock"}
Outside == {"idle", "provision", "cleanup"}

ProjectRow == [exists : BOOLEAN, host : Host \cup {None}, deploying : BOOLEAN,
               age : 0..StaleAge]
ReleaseRow == [status : Statuses, active : BOOLEAN, born : Nat]
App        == [host : Host \cup {None}, image : Digest \cup {None}, recorded : BOOLEAN]
Runtime    == [app : App \cup {None}, volume : {"none", "data"}]
Call       == [op : Ops, pc : Holding \cup Outside, digest : Digest \cup {None},
               same : BOOLEAN, host : Host \cup {None}, recorded : BOOLEAN,
               ended : BOOLEAN]

NoProject  == [exists |-> FALSE, host |-> None, deploying |-> FALSE, age |-> 0]
NoReleases == [d \in Digest |-> [status |-> "none", active |-> FALSE, born |-> 0]]
Idle == [op |-> "none", pc |-> "idle", digest |-> None, same |-> TRUE, host |-> None,
         recorded |-> FALSE, ended |-> FALSE]

Init ==
    /\ proj = NoProject
    /\ rel = NoReleases
    /\ once = [app |-> None, volume |-> "none"]
    /\ req = [r \in Request |-> Idle]

At(r, pc)    == req[r].pc = pc
Going(r, pc) == req' = [req EXCEPT ![r].pc = pc]
Known        == {d \in Digest : rel[d].status # "none"}

----------------------------------------------------------------------------
(* The lock *)

\* beginDeployFlag finds a row it may take.
Lockable == proj.exists /\ (proj.deploying => proj.age >= StaleAge)

Lock == proj' = [proj EXCEPT !.deploying = TRUE, !.age = 0]

\* withDeployLock of Deploy, Release, Rollback or Delete; `same` says whether the
\* commit of the request is the one its digest was recorded with.
Begin(r, op, d, same) ==
    /\ At(r, "idle") /\ Lockable
    /\ Lock
    /\ req' = [req EXCEPT ![r] = [Idle EXCEPT !.op = op, !.pc = "locked",
                                              !.digest = d, !.same = same]]
    /\ UNCHANGED <<rel, once>>

\* endDeployFlag, in a deferred call with a context that never ends.
Unlock(r) ==
    /\ At(r, "unlock")
    /\ proj' = [proj EXCEPT !.deploying = FALSE, !.age = 0]
    /\ req' = [req EXCEPT ![r] = Idle]
    /\ UNCHANGED <<rel, once>>

----------------------------------------------------------------------------
(* Deploy and rollback *)

\* Mutated form: the row of a digest that is known keeps its status meanwhile.
BeginReleaseOfNew(d) ==
    IF d \in Known THEN rel
    ELSE [rel EXCEPT ![d] = [status |-> "deploying", active |-> FALSE,
                             born |-> 1 + Cardinality(Known)]]

\* beginRelease: the row of the digest is inserted, or marked deploying again.
BeginRelease(d) ==
    [rel EXCEPT ![d] = [status |-> "deploying", active |-> rel[d].active,
                        born |-> IF d \in Known THEN rel[d].born ELSE 1 + Cardinality(Known)]]

\* deployProject up to the runner.  A known digest with another commit makes
\* beginRelease return no row and an error, which nobody looks at.
DeployOf(r, d, same) ==
    LET recorded == d \notin Known \/ same IN
    /\ rel' = IF recorded THEN BeginRelease(d) ELSE rel
    /\ req' = [req EXCEPT ![r] = [@ EXCEPT !.pc = "run", !.digest = d, !.host = proj.host,
                                           !.recorded = recorded]]
    /\ UNCHANGED <<proj, once>>

Deploy(r) ==
    /\ At(r, "locked") /\ req[r].op = "deploy" /\ ~req[r].ended
    /\ DeployOf(r, req[r].digest, req[r].same)

\* previousSucceededRelease: the youngest row that succeeded, without the current one.
PreviousSucceeded(current) ==
    LET others == {d \in Digest : rel[d].status = "succeeded" /\ d # current}
    IN  {d \in others : \A e \in others : rel[e].born <= rel[d].born}

Rollback(r) ==
    /\ At(r, "locked") /\ req[r].op = "rollback" /\ ~req[r].ended
    /\ \E current \in {d \in Digest : rel[d].active} :
         \E d \in PreviousSucceeded(current) : DeployOf(r, d, TRUE)

\* Rollback finds no active release, or no other that succeeded.
RollbackRefused(r) ==
    /\ At(r, "locked") /\ req[r].op = "rollback" /\ ~req[r].ended
    /\ \A current \in {d \in Digest : rel[d].active} : PreviousSucceeded(current) = {}
    /\ Going(r, "unlock")
    /\ UNCHANGED <<proj, rel, once>>

InUse(h) == once.app # None /\ once.app.host = h

\* What is there when the new container has taken over, and when a failed
\* deployment has been cleaned up: Destroy(ctx, true) takes every container of
\* that name and its volume.
Served(r) == [app    |-> [host |-> req[r].host, image |-> req[r].digest,
                          recorded |-> req[r].recorded],
              volume |-> "data"]
Destroyed == [app |-> None, volume |-> "none"]

\* A deployment that fails before it starts leaves everything as it is; one that
\* fails later destroys the application, if its containers and then its volume can
\* be removed, which is only logged.
AfterFailedDeploy(r) == {once, Destroyed, [once EXCEPT !.app = None], Served(r)}

\* `omahab-once deploy` refuses a host name that is in use.  An application of
\* this name under another host is redeployed, and a failure destroys it.
OnceDeploy(r) ==
    /\ At(r, "run") /\ ~req[r].ended
    /\ \/ InUse(req[r].host)  /\ once' = once                     /\ Going(r, "update")
       \/ ~InUse(req[r].host) /\ once' = Served(r)                /\ Going(r, "probe")
       \/ ~InUse(req[r].host) /\ once' \in AfterFailedDeploy(r)   /\ Going(r, "fail")
       \/ InUse(req[r].host)  /\ once' = once                     /\ Going(r, "fail")
    /\ UNCHANGED <<proj, rel>>

\* A failed update removes the new container and leaves the old one in place; when it
\* fails to remove the old one, the proxy has switched to the new one already.
AfterFailedUpdate(r) == {once, Served(r)}

\* `omahab-once update`, the fall-back for a host name in use.
OnceUpdate(r) ==
    /\ At(r, "update") /\ ~req[r].ended
    /\ \/ once' = Served(r)                /\ Going(r, "probe")
       \/ once' \in AfterFailedUpdate(r) /\ Going(r, "fail")
    /\ UNCHANGED <<proj, rel>>

\* awaitHealth through the loopback proxy, with HealthTimeout.
Probe(r) ==
    /\ At(r, "probe")
    /\ \/ ~req[r].ended /\ InUse(req[r].host) /\ Going(r, "activate")
       \/ Going(r, "fail")
    /\ UNCHANGED <<proj, rel, once>>

\* The rows when a release has been activated in place of the one before.
Activated(d) ==
    [e \in Digest |-> [rel[e] EXCEPT !.status = IF e = d THEN "succeeded" ELSE @,
                                     !.active = e = d]]

\* activateRelease in one transaction.  Without a row it panics; with an ended
\* context it returns and the row stays deploying.
Activate(r) ==
    /\ At(r, "activate")
    /\ \/ req[r].recorded /\ ~req[r].ended /\ rel' = Activated(req[r].digest)
       \/ ~req[r].recorded /\ rel' = rel
       \/ req[r].ended     /\ rel' = rel
    /\ Going(r, "unlock")
    /\ UNCHANGED <<proj, once>>

FailedStatus == "failed"

\* failRelease, with a context that never ends: the status changes, the row of an
\* active release stays active.  Without a row it panics.
FailRelease(r) ==
    /\ At(r, "fail")
    /\ rel' = IF req[r].recorded THEN [rel EXCEPT ![req[r].digest].status = FailedStatus]
                                 ELSE rel
    /\ Going(r, "unlock")
    /\ UNCHANGED <<proj, once>>

----------------------------------------------------------------------------
(* Creation and deletion *)

\* Backend.CreateProject inserts the row and provisions the repository.
CreateProject(r, h) ==
    /\ At(r, "idle") /\ ~proj.exists
    /\ proj' = [exists |-> TRUE, host |-> h, deploying |-> FALSE, age |-> 0]
    /\ req' = [req EXCEPT ![r] = [Idle EXCEPT !.op = "create", !.pc = "provision"]]
    /\ UNCHANGED <<rel, once>>

\* Provision succeeds, or fails and its compensation fails too: the record stays.
Provisioned(r) ==
    /\ At(r, "provision")
    /\ req' = [req EXCEPT ![r] = Idle]
    /\ UNCHANGED <<proj, rel, once>>

\* Provision fails and is compensated.
ProvisionFails(r) ==
    /\ At(r, "provision") /\ ~req[r].ended
    /\ Going(r, "cleanup")
    /\ UNCHANGED <<proj, rel, once>>

\* DeleteProjectRecord takes the lock, or gives up.
CleanUp(r) ==
    /\ At(r, "cleanup") /\ ~req[r].ended /\ Lockable
    /\ Lock
    /\ Going(r, "erase")
    /\ UNCHANGED <<rel, once>>

CleanUpRefused(r) ==
    /\ At(r, "cleanup") /\ (req[r].ended \/ ~Lockable)
    /\ req' = [req EXCEPT ![r] = Idle]
    /\ UNCHANGED <<proj, rel, once>>

\* Mutated form: only an active release has something to undeploy.
HasReleasesActive == \E d \in Digest : rel[d].active

\* hasReleases
HasReleases == Known # {}

\* undeployIfActive under the lock of Delete.
BeginDelete(r) ==
    /\ At(r, "locked") /\ req[r].op = "delete" /\ ~req[r].ended
    /\ Going(r, IF HasReleases THEN "undeploy" ELSE "teardown")
    /\ UNCHANGED <<proj, rel, once>>

\* `omahab-once undeploy` finds the application by its name and keeps the volume;
\* that there is none is no error.
OnceUndeploy(r) ==
    /\ At(r, "undeploy") /\ ~req[r].ended
    /\ \/ once' = [once EXCEPT !.app = None] /\ Going(r, "teardown")
       \/ once' = once                       /\ Going(r, "unlock")
    /\ UNCHANGED <<proj, rel>>

\* The teardown given by DeleteProject: the repository and its pipeline.
Teardown(r) ==
    /\ At(r, "teardown")
    /\ \/ ~req[r].ended /\ Going(r, "erase")
       \/ Going(r, "unlock")
    /\ UNCHANGED <<proj, rel, once>>

\* The rows are removed in one transaction; endDeployFlag then finds no row.
Erase(r) ==
    /\ At(r, "erase") /\ ~req[r].ended
    /\ proj' = NoProject /\ rel' = NoReleases
    /\ req' = [req EXCEPT ![r] = Idle]
    /\ UNCHANGED once

----------------------------------------------------------------------------
(* Ended contexts, the clock, renames and deaths *)

\* What a killed omahab-once may have done.
Interrupted(r) ==
    CASE At(r, "run") /\ ~InUse(req[r].host) ->
           AfterFailedDeploy(r)
      [] At(r, "update")   -> AfterFailedUpdate(r)
      [] At(r, "undeploy") -> {once, [once EXCEPT !.app = None]}
      [] OTHER             -> {once}

\* exec.CommandContext kills omahab-once when the context ends.
Killed(r) ==
    /\ req[r].pc \in {"run", "update", "undeploy"} /\ req[r].ended
    /\ once' \in Interrupted(r)
    /\ Going(r, IF At(r, "undeploy") THEN "unlock" ELSE "fail")
    /\ UNCHANGED <<proj, rel>>

\* The first read or write of a request whose context has ended fails.
GivesUp(r) ==
    /\ req[r].pc \in {"locked", "erase"} /\ req[r].ended
    /\ Going(r, "unlock")
    /\ UNCHANGED <<proj, rel, once>>

\* A tick ends every request that is served; one that has ended is done before the next.
Tick ==
    /\ \A r \in Request : ~req[r].ended
    /\ proj.deploying \/ \E r \in Request : ~At(r, "idle")
    /\ proj' = [proj EXCEPT !.age = IF proj.deploying /\ @ < StaleAge THEN @ + 1 ELSE @]
    /\ req' = [r \in Request |-> [req[r] EXCEPT !.ended = ~At(r, "idle")]]
    /\ UNCHANGED <<rel, once>>

\* UpdateProject writes the host name of the row, and nothing else.
UpdateProject(h) ==
    /\ proj.exists /\ h # proj.host
    /\ proj' = [proj EXCEPT !.host = h]
    /\ UNCHANGED <<rel, once, req>>

\* omahabd dies and takes its omahab-once with it; no start-up looks at the lock.
Die(r) ==
    /\ ~At(r, "idle")
    /\ \A s \in Request : req[s].pc \in Holding => s = r
    /\ once' \in Interrupted(r)
    /\ req' = [s \in Request |-> Idle]
    /\ UNCHANGED <<proj, rel>>

Beginning(r) ==
    \/ \E d \in Digest, same \in BOOLEAN : Begin(r, "deploy", d, same)
    \/ Begin(r, "rollback", None, TRUE)
    \/ Begin(r, "delete", None, TRUE)

Step(r) ==
    \/ Beginning(r) \/ Unlock(r)
    \/ Deploy(r) \/ Rollback(r) \/ RollbackRefused(r)
    \/ OnceDeploy(r) \/ OnceUpdate(r) \/ Probe(r) \/ Activate(r) \/ FailRelease(r)
    \/ \E h \in Host : CreateProject(r, h)
    \/ Provisioned(r) \/ ProvisionFails(r) \/ CleanUp(r) \/ CleanUpRefused(r)
    \/ BeginDelete(r) \/ OnceUndeploy(r) \/ Teardown(r) \/ Erase(r)
    \/ Killed(r) \/ GivesUp(r) \/ Die(r)

Next ==
    \/ \E r \in Request : Step(r)
    \/ Tick
    \/ \E h \in Host : UpdateProject(h)

Spec == Init /\ [][Next]_vars

----------------------------------------------------------------------------
(* Properties *)

\* Every variable has its type.
TypeOK ==
    /\ proj \in ProjectRow
    /\ rel \in [Digest -> ReleaseRow]
    /\ once \in Runtime
    /\ req \in [Request -> Call]

\* "concurrent deploys across processes are rejected" (deploy.go): at most one
\* request is between beginDeployFlag and endDeployFlag, although the lock is taken
\* over when it is old and released by whoever held it, without a token.
OneHolder ==
    \A r, s \in Request : req[r].pc \in Holding /\ req[s].pc \in Holding => r = s

\* "activates only the resulting healthy digest" (Deploy): a release that becomes
\* succeeded is the only active one, and its container serves the host name that the
\* request asked for.
ActivatedServes ==
    [][\A d \in Digest : rel[d].status # "succeeded" /\ rel'[d].status = "succeeded" =>
         /\ \E r \in Request : At(r, "activate") /\ InUse(req[r].host) /\ once.app.image = d
         /\ \A e \in Digest : rel'[e].active <=> e = d]_vars

\* What serves is the active release, or its row says that it is deploying or has
\* failed: a list of releases never hides that an earlier one is back.  Excepted is
\* an image that was run for a request with the wrong commit, which has no row.
ServedIsShown ==
    /\ proj.exists /\ once.app # None
    /\ once.app.recorded /\ once.app.image \in Known
    /\ rel[once.app.image].status = "succeeded"
    => rel[once.app.image].active

\* "so a live deployment is never abandoned with its record deleted" (service.go):
\* when Delete removes rows of releases nothing serves them any more.
NeverAbandoned ==
    [][\A r \in Request :
         At(r, "erase") /\ req[r].op = "delete" /\ Known # {} /\ ~proj'.exists
         => once.app = None]_vars

\* What runner.go asks of every runner: "leave the previously active version serving
\* when a new version fails before becoming healthy".  Only an undeploy may take away
\* what serves.
RetainAndSwitch ==
    [][once.app # None /\ once'.app = None => \E r \in Request : At(r, "undeploy")]_vars

=============================================================================
