---------------------------- MODULE ClientDaemon -----------------------------
(* omahab-clientd on a person's desktop: the loop that reacts to events and   *)
(* reconciles every ten minutes, the requests that come over its socket, the  *)
(* tool environment it fetches, writes to environment.d and applies to the    *)
(* user manager, its list of projects, the folders, workspaces and web apps   *)
(* it sets up, and its update of itself (internal/client/daemon.go,           *)
(* environment.go, projects.go, webapp.go, mcp.go, updater.go, remote.go).    *)
(* The event stream itself is in Events.  The loop and every request are      *)
(* sequences of steps; a step fails or hangs, the daemon dies, and they       *)
(* overlap with each other and with the projects read in the background.      *)
EXTENDS Naturals, Sequences, FiniteSets

CONSTANTS ToolEnv,     \* the names granted to this device at each revision
          CliScenarios \* bound: what is asked, how often the server changes, how much fails

ASSUME ClientDaemonAssumption == DOMAIN ToolEnv = 1..Len(ToolEnv)

VARIABLES server,   \* revision of the environment, whether the device is revoked, projects, version
          news,     \* events on their way to the loop
          desk,     \* what the daemon has made of the desktop, and its own memory
          work,     \* the steps left of the loop and of a request, with what they remember
          raced,    \* two of them have been applying an environment at once
          hung,     \* those in a call that never returns
          cliQuota

cliVars == <<server, news, desk, work, raced, hung, cliQuota>>

Workers == {"loop", "socket", "background"}
Revisions == 1..Len(ToolEnv)
Names == UNION {ToolEnv[r] : r \in Revisions} \cup {"mcp"}

\* A file, or the environment of the user manager: the revision each value is of, 0 for none.
Blank == [n \in Names |-> 0]
Bundle(r) == [n \in Names |-> IF n \in ToolEnv[r] THEN r ELSE 0]
KeysOfEnv(f) == {n \in Names : f[n] # 0}
Quiet == [todo |-> <<>>, rev |-> 0, old |-> Blank, gone |-> {}, list |-> {}]

CliInit ==
    /\ server = [rev |-> 1, revoked |-> FALSE, projects |-> {}, version |-> 1]
    /\ news = {}
    /\ desk = [etag |-> 0, file |-> Blank, live |-> Blank, envErr |-> FALSE,
               online |-> FALSE, err |-> FALSE, web |-> FALSE, projects |-> {},
               made |-> {"old entry"}, binary |-> 1, runs |-> 1]
    /\ work = [p \in Workers |-> Quiet]
    /\ raced = FALSE /\ hung = {}
    /\ cliQuota \in CliScenarios

----------------------------------------------------------------------------
(* What the loop and the socket do, as sequences of steps *)

EnvSteps == {"fetch", "write", "unset", "set", "commit", "mcp"}
Sync == <<"fetch", "write", "unset", "set", "commit", "mcp">>
Clear == <<"remove file", "unset all", "forget">>

ProjectsOnce == <<"list projects", "sync projects">>
syncOnce == <<"status", "web apps", "read projects">>

\* Mutated form: the ten minutes bring the status up to date and nothing else.
ReconcileStatus == syncOnce \o <<"web apps">>

\* (Its git fetch of every project is a stub in the daemon that is built: no GitRunner is passed.)
reconcileOnce == syncOnce \o Sync \o ProjectsOnce \o <<"web apps">>

\* handleCompanionEvent: what each kind of event sets off, of those the server sends to a device.
handleCompanionEvent(kind) ==
    CASE kind = "environment.changed" -> Sync \o syncOnce \o <<"web apps", "notify">>
      [] kind = "agent.awaiting_approval" -> <<"notify">> \o syncOnce
      [] kind = "companion.revoked" -> <<"say revoked", "remove web apps", "notify">>

ProjectCreate == <<"create project", "clone", "upsert">>
SyncAdd == <<"share folder", "retire old entry", "add entry">>
WorkspaceCreate == <<"start workspace", "ssh config">>
WorkspaceStop == <<"stop workspace", "no ssh config">>
BackupRun == <<"backup", "backup status">>

\* dispatchSocket: the methods that change something.
dispatchSocket(method) ==
    CASE method = "environment.sync" -> Sync
      [] method = "environment.clear" -> Clear
      [] method = "project.create" -> ProjectCreate
      [] method = "sync.add" -> SyncAdd
      [] method = "workspace.create" -> WorkspaceCreate
      [] method = "workspace.stop" -> WorkspaceStop
      [] method = "backup.run" -> BackupRun

----------------------------------------------------------------------------
(* The tool environment *)

atomicWriteFile0600(d, r) == [d EXCEPT !.file = Bundle(r.rev)]

\* What the old file named and the bundle does not.
toRemove(d, r) == KeysOfEnv(d.file) \ ToolEnv[r.rev]
UnsetEnvironment(d, names) == [d EXCEPT !.live = [n \in Names |-> IF n \in names THEN 0 ELSE @[n]]]
SetEnvironment(d, r) == [d EXCEPT !.live = [n \in Names |-> IF n \in ToolEnv[r.rev] THEN r.rev ELSE @[n]]]

\* A D-Bus call failed: the file goes back, and so do the names that were unset.
revertFile(d, r) == [d EXCEPT !.file = r.old, !.envErr = TRUE]
restoreUnset(d, r) ==
    [revertFile(d, r) EXCEPT !.live = [n \in Names |-> IF n \in r.gone THEN r.old[n] ELSE @[n]]]

commit(d, r) == [d EXCEPT !.etag = r.rev, !.envErr = FALSE]

\* ensureEnvVar: OMAHAB_MCP_URL goes to the file, not to the user manager.
EnsureMCPConfig(d) == IF d.file["mcp"] = 0 THEN [d EXCEPT !.file["mcp"] = 1] ELSE d

forget(d) == [d EXCEPT !.etag = 0, !.envErr = FALSE]

----------------------------------------------------------------------------
(* The steps *)

\* The device's own endpoints, all refused once it is revoked.
RemoteSteps == {"fetch", "status", "list projects", "create project", "share folder",
                "start workspace", "stop workspace", "clone", "backup"}
Refused(step) == step \in RemoteSteps /\ server.revoked

\* 304: the server's revision is the one that was applied.
NotModified(step) == step = "fetch" /\ desk.etag = server.rev

statusRead(d) == [d EXCEPT !.online = TRUE, !.err = FALSE]

\* syncWebApps asks only for a token, which a revoked device still holds.
syncWebApps(d) == [d EXCEPT !.web = TRUE]
removeWebApps(d) == [d EXCEPT !.web = FALSE]

\* SyncFromRemote: what the list does not name goes, its local path too.
SyncFromRemote(d, list) == [d EXCEPT !.projects = {x \in @ : x[1] \in list}
                                                  \cup {<<p, FALSE>> : p \in {q \in list : \A x \in @ : x[1] # q}}]
Upsert(d) == [d EXCEPT !.projects = {x \in @ : x[1] # "new"} \cup {<<"new", TRUE>>}]

ensureLocalSyncthingFolder(d) == [d EXCEPT !.made = @ \cup {"entry"}]
ensureWorkspaceSSHConfig(d) == [d EXCEPT !.made = @ \cup {"ssh"}]

StepOf(d, r, step) ==
    CASE step = "write"            -> atomicWriteFile0600(d, r)
      [] step = "unset"            -> UnsetEnvironment(d, r.gone)
      [] step = "set"              -> SetEnvironment(d, r)
      [] step = "commit"           -> commit(d, r)
      [] step = "mcp"              -> EnsureMCPConfig(d)
      [] step = "remove file"      -> [d EXCEPT !.file = Blank]
      [] step = "unset all"        -> UnsetEnvironment(d, r.gone)
      [] step = "forget"           -> forget(d)
      [] step = "status"           -> statusRead(d)
      [] step = "say revoked"      -> [d EXCEPT !.err = TRUE]
      [] step = "web apps"         -> syncWebApps(d)
      [] step = "remove web apps"  -> removeWebApps(d)
      [] step = "sync projects"    -> SyncFromRemote(d, r.list)
      [] step = "clone"            -> [d EXCEPT !.made = @ \cup {"clone"}]
      [] step = "upsert"           -> Upsert(d)
      [] step = "retire old entry" -> [d EXCEPT !.made = @ \ {"old entry"}]
      [] step = "add entry"        -> ensureLocalSyncthingFolder(d)
      [] step = "ssh config"       -> ensureWorkspaceSSHConfig(d)
      [] step = "no ssh config"    -> [d EXCEPT !.made = @ \ {"ssh"}]
      [] OTHER -> d

Keeps(d, r, step) ==
    CASE step = "fetch"         -> [r EXCEPT !.rev = server.rev]
      [] step = "write"         -> [r EXCEPT !.old = d.file, !.gone = toRemove(d, r)]
      [] step = "remove file"   -> [r EXCEPT !.old = d.file, !.gone = KeysOfEnv(d.file)]
      [] step = "list projects" -> [r EXCEPT !.list = server.projects]
      [] OTHER -> r

Without(todo, steps) == SelectSeq(todo, LAMBDA s : s \notin steps)

\* An error ends a request; the loop goes on with what does not depend on the step.
AfterError(p, todo) ==
    CASE p = "socket" -> <<>>
      [] p # "socket" /\ Head(todo) = "list projects" -> Tail(Tail(todo))
      [] p # "socket" /\ Head(todo) = "status" -> SubSeq(todo, 1 + Len(syncOnce), Len(todo))
      [] p # "socket" /\ Head(todo) \in EnvSteps -> Without(todo, EnvSteps)
      [] OTHER -> Tail(todo)

\* What an error changes.
Undone(d, r, step) ==
    CASE step \in {"unset"}      -> revertFile(d, r)
      [] step = "set"            -> restoreUnset(d, r)
      [] step = "unset all"      -> revertFile(d, r)
      [] step \in {"fetch", "write", "remove file"} -> [d EXCEPT !.envErr = TRUE]
      [] step = "status"         -> [d EXCEPT !.err = TRUE]
      [] OTHER -> d

----------------------------------------------------------------------------
(* Actions *)

CliSpend(what) == cliQuota[what] > 0 /\ cliQuota' = [cliQuota EXCEPT ![what] = @ - 1]
Working(p) == work[p].todo # <<>>

\* It is past the fetch, or before it, and will touch the files or the user manager.
Applying(p) == p \notin hung /\ \E i \in 1..Len(work[p].todo) :
                  work[p].todo[i] \in (EnvSteps \ {"fetch"}) \cup {"unset all", "forget", "remove file"}
RacesNow(p) == Applying(p) /\ \E q \in Workers \ {p} : Applying(q)

\* The reading of the projects is begun beside the work (bound: one at a time).
Begins(p, step, w) ==
    IF step = "read projects" /\ ~Working("background") THEN [w EXCEPT !["background"].todo = ProjectsOnce] ELSE w
\* The ticker of ten minutes, and the pass with which the loop begins.
Reconcile ==
    /\ ~Working("loop") /\ work' = [work EXCEPT !["loop"].todo = reconcileOnce]
    /\ UNCHANGED <<server, news, desk, raced, hung, cliQuota>>

CliReceive(kind) ==
    /\ kind \in news /\ ~Working("loop")
    /\ news' = news \ {kind} /\ work' = [work EXCEPT !["loop"].todo = handleCompanionEvent(kind)]
    /\ UNCHANGED <<server, desk, raced, hung, cliQuota>>

\* The stream broke where Events shows that an event can be missed.
Missed(kind) ==
    /\ kind \in news /\ news' = news \ {kind} /\ CliSpend("faults")
    /\ UNCHANGED <<server, desk, work, raced, hung>>

Ask(method) ==
    /\ ~Working("socket") /\ method \in cliQuota.asks /\ cliQuota' = [cliQuota EXCEPT !.asks = @ \ {method}]
    /\ work' = [work EXCEPT !["socket"].todo = dispatchSocket(method)]
    /\ UNCHANGED <<server, news, desk, raced, hung>>

\* The projects of the server: the one that is created.
Serves(step) == server' = IF step = "create project" THEN [server EXCEPT !.projects = {"new"}] ELSE server

CliStep(p) ==
    /\ Working(p) /\ p \notin hung
    /\ LET r == work[p]
           step == Head(r.todo)
           kept == Keeps(desk, r, step)
           rest == IF NotModified(step) THEN Without(r.todo, EnvSteps \ {"mcp"}) ELSE Tail(r.todo)
       IN  /\ ~Refused(step)
           /\ desk' = IF NotModified(step) THEN [desk EXCEPT !.envErr = FALSE] ELSE StepOf(desk, kept, step)
           /\ work' = Begins(p, step, [work EXCEPT ![p] = IF rest = <<>> THEN Quiet ELSE [kept EXCEPT !.todo = rest]])
           /\ Serves(step)
    /\ raced' = (raced \/ RacesNow(p))
    /\ UNCHANGED <<news, hung, cliQuota>>

\* What cannot fail, or whose failure changes nothing; and a D-Bus call with nothing to unset is not made.
Safe(r, step) ==
    \/ step \in {"commit", "mcp", "forget", "sync projects", "read projects", "say revoked", "web apps",
                "remove web apps", "notify"}
    \/ step \in {"unset", "unset all"} /\ r.gone = {}

\* The server, the disk or D-Bus says no.
CliFail(p) ==
    /\ Working(p) /\ p \notin hung
    /\ LET r == work[p]
           step == Head(r.todo)
       IN  /\ IF Refused(step) THEN UNCHANGED cliQuota ELSE ~Safe(r, step) /\ CliSpend("faults")
           /\ desk' = Undone(desk, r, step)
           /\ work' = LET rest == AfterError(p, r.todo)
                      IN  [work EXCEPT ![p] = IF rest = <<>> THEN Quiet ELSE [r EXCEPT !.todo = rest]]
    /\ raced' = (raced \/ RacesNow(p))
    /\ UNCHANGED <<server, news, hung>>

\* The installers of web apps and notify-send are run without a time limit, and the calls to
\* the user manager take no context: one that does not return holds up whoever made it.
Endless == {"unset", "set", "unset all", "web apps", "remove web apps", "notify"}
CliHang(p) ==
    /\ Working(p) /\ p \notin hung /\ Head(work[p].todo) \in Endless /\ CliSpend("hangs")
    /\ hung' = hung \cup {p}
    /\ UNCHANGED <<server, news, desk, work, raced>>

\* The daemon ends where it is: its memory goes, and what runs next begins with a pass.
StartsAgain ==
    /\ desk' = [desk EXCEPT !.etag = 0, !.envErr = FALSE, !.online = FALSE, !.err = FALSE, !.projects = {},
                            !.runs = desk.binary]
    /\ work' = [p \in Workers |-> IF p = "loop" THEN [Quiet EXCEPT !.todo = reconcileOnce] ELSE Quiet]
    /\ raced' = FALSE /\ hung' = {}
    /\ UNCHANGED <<server, news>>

CliCrash == CliSpend("crashes") /\ StartsAgain

\* maybeSelfUpdate: the server runs another version; the binary that is downloaded
\* has the sum the server names, and is renamed into place before the restart.
Outdated == desk.online /\ ~desk.err /\ desk.runs # server.version
doSelfUpdate ==
    /\ Outdated /\ desk.binary # server.version
    /\ desk' = [desk EXCEPT !.binary = server.version]
    /\ UNCHANGED <<server, news, work, raced, hung, cliQuota>>

\* A download, the sum, the replacement or the restart fails: the error keeps other attempts
\* away until the status is read again.
SelfUpdateFails ==
    /\ Outdated /\ CliSpend("faults")
    /\ desk' = [desk EXCEPT !.err = TRUE]
    /\ UNCHANGED <<server, news, work, raced, hung>>

\* systemctl restart: every goroutine ends where it is.
CliRestart == desk.runs # desk.binary /\ StartsAgain /\ UNCHANGED cliQuota

ChangeEnvironment ==
    /\ server.rev < Len(ToolEnv) /\ CliSpend("changes")
    /\ server' = [server EXCEPT !.rev = @ + 1] /\ news' = news \cup {"environment.changed"}
    /\ UNCHANGED <<desk, work, raced, hung>>

RevokeThisDevice ==
    /\ ~server.revoked /\ CliSpend("revocations")
    /\ server' = [server EXCEPT !.revoked = TRUE] /\ news' = news \cup {"companion.revoked"}
    /\ UNCHANGED <<desk, work, raced, hung>>

UpgradeServer ==
    /\ CliSpend("upgrades")
    /\ server' = [server EXCEPT !.version = @ + 1]
    /\ UNCHANGED <<news, desk, work, raced, hung>>

\* An agent on the server waits for its owner.
AgentWaits ==
    /\ CliSpend("agents")
    /\ news' = news \cup {"agent.awaiting_approval"}
    /\ UNCHANGED <<server, desk, work, raced, hung>>

CliNext ==
    \/ Reconcile
    \/ \E kind \in {"environment.changed", "agent.awaiting_approval", "companion.revoked"} :
           CliReceive(kind) \/ Missed(kind)
    \/ \E method \in {"environment.sync", "environment.clear", "project.create", "sync.add",
                      "workspace.create", "workspace.stop", "backup.run"} : Ask(method)
    \/ \E p \in Workers : CliStep(p) \/ CliFail(p) \/ CliHang(p)
    \/ CliCrash \/ doSelfUpdate \/ SelfUpdateFails \/ CliRestart
    \/ ChangeEnvironment \/ RevokeThisDevice \/ UpgradeServer \/ AgentWaits

\* The requests to the server end with their contexts, those of the loop after fifteen
\* seconds at most, and the steps on files end; a call that has no such limit may never
\* return (CliHang), and whoever made it stands still until the daemon starts again.
\* Whoever is not held up goes on, and the ticker of the loop fires.
CliFairness ==
    /\ \A p \in Workers : WF_cliVars(CliStep(p) \/ CliFail(p))
    /\ WF_cliVars(Reconcile)
CliSpec == CliInit /\ [][CliNext]_cliVars /\ CliFairness

----------------------------------------------------------------------------
(* Properties *)

\* A device that is not revoked ends up with the current environment, in the file for
\* the next login and in the user manager of this one, though the event is missed, a
\* call fails, D-Bus refuses half of the change or the daemon dies: the pass of every
\* ten minutes makes good what the event did not (eventLoop, reconcileOnce, Sync).
\* Two things are excepted: a request that applies an environment beside the loop,
\* for nothing keeps them apart, and a loop held up for ever by a call without a limit.
EnvironmentArrives ==
    <>[](\/ raced \/ server.revoked \/ "loop" \in hung
         \/ \A n \in Names \ {"mcp"} :
               /\ desk.file[n] = Bundle(server.rev)[n]
               /\ n \in ToolEnv[server.rev] => desk.live[n] = server.rev)

=============================================================================
