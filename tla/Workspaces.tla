----------------------------- MODULE Workspaces -----------------------------
(***************************************************************************)
(* Development workspaces: the requests that create them (the API, the     *)
(* companion, the MCP tool and the automatic review of a pull request),    *)
(* the operator's stop, delete, use and attach tokens, and the pass that   *)
(* expires the idle ones.  A workspace owns a database row, a DevPod       *)
(* container, a model gateway key (the bearer the gateway accepts and the  *)
(* product's row about it) and a Forgejo token.                            *)
(*                                                                         *)
(* internal/workspaces/service.go, internal/workspaces/runner.go,          *)
(* internal/controlplane/workspaces_ops.go and projects_ops.go             *)
(* (OnPullRequest), internal/providers/service.go and litellm.go (virtual  *)
(* keys).  A request creates at most one workspace, so a workspace is      *)
(* named by the request that creates it.                                   *)
(***************************************************************************)
EXTENDS Naturals, FiniteSets

CONSTANTS Requests,   \* requests that create a workspace
          Scenarios,  \* what is considered: the kind of each creating request
                      \* and how many operator requests (bound)
          Operators,  \* operator sessions
          MaxReaders, \* bound: clients that present one attach token
          MaxFaults   \* bound: ended contexts, lost calls and daemon deaths

ASSUME WorkspaceAssumption ==
    /\ Requests \cap Operators = {}
    /\ Scenarios \subseteq [kind : [Requests -> {"create", "review", "none"}], ops : Nat]
    /\ MaxReaders \in Nat /\ MaxFaults \in Nat

VARIABLES kind,    \* the kind of each creating request
          proc,    \* requests in flight: creators and operators
          row,     \* workspaces.status, "none" without a row
          keyed,   \* workspaces.gateway_key_id is set
          vkrow,   \* provider_virtual_keys: the row of the workspace's key
          bearer,  \* what the gateway knows of that key
          token,   \* the Forgejo token ws-<id>
          box,     \* the DevPod container
          idle,    \* last_active_at is older than the idle timeout
          cap,     \* the attach token of the workspace
          readers, \* clients that read the token as unused
          uses,    \* how often an attach token was accepted
          sweep,   \* the pass of ExpireIdle
          crossed, \* a deletion read the row while its creation was running
          ops,     \* operator requests left
          faults

wvars == <<kind, proc, row, keyed, vkrow, bearer, token, box, idle, cap,
           readers, uses, sweep, crossed, ops, faults>>

Active == {"pending", "running"}
Procs == Requests \cup Operators
CreateSteps == {"insert", "branch", "keys", "up", "mark", "rollback", "rollrow"}
DeleteSteps == {"dget", "dkeys", "dbox", "drow"}
Steps == CreateSteps \cup DeleteSteps \cup
         {"new", "list", "listany", "print", "sget", "sbox", "srow", "done"}
Fresh == [at |-> "new", w |-> "none", next |-> "done", ended |-> FALSE,
          again |-> FALSE, saw |-> FALSE]
Finished == [Fresh EXCEPT !.at = "done"]

Init ==
    /\ \E s \in Scenarios : kind = s.kind /\ ops = s.ops
    /\ proc = [p \in Procs |-> Fresh]
    /\ row = [w \in Requests |-> "none"]
    /\ keyed = [w \in Requests |-> FALSE]
    /\ vkrow = [w \in Requests |-> "none"]
    /\ bearer = [w \in Requests |-> "none"]
    /\ token = [w \in Requests |-> "none"]
    /\ box = [w \in Requests |-> "none"]
    /\ idle = [w \in Requests |-> FALSE]
    /\ cap = [w \in Requests |-> "none"]
    /\ uses = [w \in Requests |-> 0]
    /\ readers = [w \in Requests |-> 0]
    /\ sweep = [todo |-> {}, w |-> "none", at |-> "rest"]
    /\ crossed = [w \in Requests |-> FALSE]
    /\ faults = 0

InCreate(w) == proc[w].at \in CreateSteps
Over(p) == proc[p].at = "done"
\* The reviews of one pull request share its head branch; every other
\* workspace has a branch of its own.
SameBranch(v, w) == v = w \/ (kind[v] = "review" /\ kind[w] = "review")
Go(p, at) == proc' = [proc EXCEPT ![p] = IF at = "done" THEN Finished
                                         ELSE [@ EXCEPT !.at = at]]

(***************************************************************************)
(* Faults.  A call on an ended context fails; so may any call that leaves  *)
(* the process.                                                            *)
(***************************************************************************)
Fault == faults < MaxFaults /\ faults' = faults + 1
Works(p) == ~proc[p].ended /\ UNCHANGED faults
Breaks(p) == \/ proc[p].ended /\ UNCHANGED faults
             \/ ~proc[p].ended /\ Fault

\* Every HTTP request has thirty seconds, webhooks included.
EndContext(p) ==
    /\ proc[p].at \in (Steps \ {"new", "done"}) /\ ~proc[p].ended
    /\ Fault
    /\ proc' = [proc EXCEPT ![p].ended = TRUE]
    /\ UNCHANGED <<kind, row, keyed, vkrow, bearer, token, box, idle, cap, readers, uses,
                   sweep, crossed, ops>>

\* The daemon dies and is started again: requests and the pass are gone.
Crash ==
    /\ Fault
    /\ proc' = [p \in Procs |-> IF proc[p].at = "new" THEN proc[p]
                                ELSE Finished]
    /\ sweep' = [todo |-> {}, w |-> "none", at |-> "rest"]
    /\ UNCHANGED <<kind, row, keyed, vkrow, bearer, token, box, idle, cap, readers, uses,
                   crossed, ops>>

(***************************************************************************)
(* Credentials.                                                            *)
(***************************************************************************)
\* RevokeVirtualKey: the product's row first, then the gateway; a gateway
\* that cannot be reached counts as done.
RevokeKey(w, ok) ==
    /\ vkrow' = [vkrow EXCEPT ![w] = IF @ = "live" THEN "revoked" ELSE @]
    /\ bearer' = IF ok THEN [bearer EXCEPT ![w] = "dead"] ELSE bearer

\* DeleteVirtualKey: the gateway first; a refusal keeps the row as a
\* tombstone, an unreachable gateway does not.
DeleteKey(w, answer) ==
    /\ bearer' = IF answer = "ok" THEN [bearer EXCEPT ![w] = "dead"] ELSE bearer
    /\ vkrow' = [vkrow EXCEPT ![w] = IF answer = "refused" THEN "revoked" ELSE "none"]

DropToken(w) == token' = [token EXCEPT ![w] = IF @ = "live" THEN "gone" ELSE @]

(***************************************************************************)
(* Creation.                                                               *)
(***************************************************************************)
Arrive(p, k, at) ==
    /\ p \in Requests /\ proc[p].at = "new" /\ kind[p] = k
    /\ Go(p, at)
    /\ UNCHANGED <<kind, row, keyed, vkrow, bearer, token, box, idle, cap, readers, uses,
                   sweep, crossed, ops, faults>>

\* A request of the API, the companion or the MCP server that passes the
\* checks of its fields.
StartCreate(p) == Arrive(p, "create", "insert")

\* A signed webhook about an opened or updated pull request; the review
\* first looks for a running one.
StartReview(p) == Arrive(p, "review", "list")

DeleteThen(p, w, next) ==
    proc' = [proc EXCEPT ![p].at = "dget", ![p].w = w, ![p].next = next]

\* OnPullRequest deletes the review that is pending or running; when Create
\* still reports the branch as taken it does so again, and then deletes any
\* row of the branch.
ListSame(p) ==
    LET seen == IF proc[p].ended THEN {}
                ELSE {v \in Requests : /\ SameBranch(v, p)
                                       /\ IF proc[p].at = "list" THEN row[v] \in Active
                                          ELSE row[v] # "none"}
        next == IF proc[p].at = "list" /\ proc[p].again THEN "listany" ELSE "insert"
    IN
    /\ proc[p].at \in {"list", "listany"}
    /\ IF seen = {} THEN Go(p, next) ELSE \E v \in seen : DeleteThen(p, v, next)
    /\ UNCHANGED <<kind, row, keyed, vkrow, bearer, token, box, idle, cap, readers, uses,
                   sweep, crossed, ops, faults>>

\* The branch is taken: a review tries once more.
Exists(p) ==
    IF kind[p] = "review" /\ ~proc[p].again
    THEN proc' = [proc EXCEPT ![p].at = "list", ![p].again = TRUE]
    ELSE Go(p, "done")

\* The branch must be free.  The query before the insertion looks at active
\* rows only, UNIQUE(project_id, branch) at rows of every status.
Insert(p) ==
    /\ proc[p].at = "insert"
    /\ \/ /\ proc[p].ended
          /\ Go(p, "done") /\ UNCHANGED row
       \/ /\ ~proc[p].ended
          /\ \E v \in Requests : SameBranch(v, p) /\ row[v] # "none"
          /\ Exists(p) /\ UNCHANGED row
       \/ /\ ~proc[p].ended
          /\ \A v \in Requests : SameBranch(v, p) => row[v] = "none"
          /\ row' = [row EXCEPT ![p] = "pending"]
          /\ Go(p, IF kind[p] = "review" THEN "keys" ELSE "branch")
    /\ UNCHANGED <<kind, keyed, vkrow, bearer, token, box, idle, cap, readers, uses,
                   sweep, crossed, ops, faults>>

\* A generated name that is taken is replaced once, within this step.
CreateBranch(p) ==
    /\ proc[p].at = "branch"
    /\ \/ ~proc[p].ended /\ Go(p, "keys")
       \/ Go(p, "rollrow")
    /\ UNCHANGED <<kind, row, keyed, vkrow, bearer, token, box, idle, cap, readers, uses,
                   sweep, crossed, ops, faults>>

\* The gateway's part of a key, and the product's: its row and the handle in
\* the workspace's row (no row is no error).
GatewayIssueKey(p) == bearer' = [bearer EXCEPT ![p] = "live"]
StoreVirtualKey(p) ==
    /\ vkrow' = [vkrow EXCEPT ![p] = "live"]
    /\ keyed' = [keyed EXCEPT ![p] = row[p] # "none"]
IssueVirtualKey(p) == GatewayIssueKey(p) /\ StoreVirtualKey(p)

\* The key fails at the gateway, or its row does after the gateway issued it:
\* then it is revoked on that same context, in vain when the context ended.
IssueVirtualKeyFails(p) ==
    /\ GatewayIssueKey(p) \/ UNCHANGED bearer
    /\ UNCHANGED <<vkrow, keyed>>

CreateAccessToken(p) == token' = [token EXCEPT ![p] = "live"]

\* The model key and the Forgejo token; creation goes on without either.
IssueKeys(p) ==
    /\ proc[p].at = "keys"
    /\ Go(p, "up")
    /\ \/ Works(p) /\ IssueVirtualKey(p) /\ CreateAccessToken(p)
       \/ ~proc[p].ended /\ Fault /\ IssueVirtualKey(p) /\ UNCHANGED token
       \/ ~proc[p].ended /\ Fault /\ IssueVirtualKeyFails(p) /\ CreateAccessToken(p)
       \/ proc[p].ended /\ UNCHANGED <<vkrow, keyed, bearer, token, faults>>
    /\ UNCHANGED <<kind, row, box, idle, cap, readers, uses, sweep, crossed, ops>>

\* Mutated form: the rollback forgets the credentials.
UpKeepsKey(p) ==
    /\ proc[p].at = "up"
    /\ \/ /\ ~proc[p].ended
          /\ box' = [box EXCEPT ![p] = "up"]
          /\ Go(p, "mark")
       \/ /\ \E b \in {"none", "up"} : box' = [box EXCEPT ![p] = b]
          /\ Go(p, "rollrow")
    /\ UNCHANGED <<kind, row, keyed, vkrow, bearer, token, idle, cap, readers, uses,
                   sweep, crossed, ops, faults>>

\* The runner: devpod up, the credentials, the task and the session; a later
\* one that fails leaves the container.
RunnerUp(p) == box' = [box EXCEPT ![p] = "up"]
RunnerUpFails(p) == RunnerUp(p) \/ UNCHANGED box

Up(p) ==
    /\ proc[p].at = "up"
    /\ \/ ~proc[p].ended /\ RunnerUp(p) /\ Go(p, "mark")
       \/ RunnerUpFails(p) /\ Go(p, "rollback")
    /\ UNCHANGED <<kind, row, keyed, vkrow, bearer, token, idle, cap, readers, uses,
                   sweep, crossed, ops, faults>>

\* No row is no error.
MarkRunning(p) ==
    /\ proc[p].at = "mark"
    /\ \/ /\ ~proc[p].ended
          /\ row' = [row EXCEPT ![p] = IF @ = "none" THEN "none" ELSE "running"]
          /\ Go(p, IF kind[p] = "review" THEN "print" ELSE "done")
       \/ /\ proc[p].ended
          /\ Go(p, "done") /\ UNCHANGED row
    /\ UNCHANGED <<kind, keyed, vkrow, bearer, token, box, idle, cap, readers, uses,
                   sweep, crossed, ops, faults>>

\* rollbackCreate, best effort: what was issued is taken back.
RollbackKeys(p) ==
    /\ proc[p].at = "rollback"
    /\ Go(p, "rollrow")
    /\ \/ Works(p) /\ DropToken(p)
          /\ IF vkrow[p] = "none" THEN UNCHANGED <<vkrow, bearer>> ELSE DeleteKey(p, "ok")
       \/ /\ ~proc[p].ended /\ Fault
          /\ \/ UNCHANGED token
                /\ IF vkrow[p] = "none" THEN UNCHANGED <<vkrow, bearer>> ELSE DeleteKey(p, "ok")
             \/ DropToken(p) /\ vkrow[p] # "none"
                /\ \E a \in {"refused", "unreachable"} : DeleteKey(p, a)
       \/ proc[p].ended /\ UNCHANGED <<vkrow, bearer, token, faults>>
    /\ UNCHANGED <<kind, row, keyed, box, idle, cap, readers, uses, sweep,
                   crossed, ops>>

RemoveRow(w) ==
    /\ row' = [row EXCEPT ![w] = "none"]
    /\ keyed' = [keyed EXCEPT ![w] = FALSE]
    /\ cap' = [cap EXCEPT ![w] = "none"]
    /\ idle' = [idle EXCEPT ![w] = FALSE]

RollbackRow(p) ==
    /\ proc[p].at = "rollrow"
    /\ Go(p, "done")
    /\ \/ ~proc[p].ended /\ RemoveRow(p)
       \/ proc[p].ended /\ UNCHANGED <<row, keyed, cap, idle>>
    /\ UNCHANGED <<kind, vkrow, bearer, token, box, readers, uses, sweep, crossed,
                   ops, faults>>

\* The review runs to its end or the request does; the deletion that follows
\* has a context of its own.
RunPrint(p) ==
    /\ proc[p].at = "print"
    /\ proc' = [proc EXCEPT ![p].at = "dget", ![p].w = p, ![p].next = "done",
                            ![p].ended = FALSE]
    /\ UNCHANGED <<kind, row, keyed, vkrow, bearer, token, box, idle, cap, readers, uses,
                   sweep, crossed, ops, faults>>

(***************************************************************************)
(* Deletion, by an operator or by a review.                                *)
(***************************************************************************)
DeleteGet(p) ==
    LET w == proc[p].w IN
    /\ proc[p].at = "dget"
    /\ IF proc[p].ended \/ row[w] = "none"
       THEN Go(p, proc[p].next) /\ UNCHANGED crossed
       ELSE /\ proc' = [proc EXCEPT ![p].at = "dkeys", ![p].saw = keyed[w]]
            /\ crossed' = [crossed EXCEPT ![w] = @ \/ InCreate(w)]
    /\ UNCHANGED <<kind, row, keyed, vkrow, bearer, token, box, idle, cap, readers, uses,
                   sweep, ops, faults>>

DeleteKeys(p) ==
    LET w == proc[p].w
        Revoke(ok) == IF proc[p].saw THEN RevokeKey(w, ok) ELSE UNCHANGED <<vkrow, bearer>>
    IN
    /\ proc[p].at = "dkeys"
    /\ Go(p, "dbox")
    /\ \/ Works(p) /\ Revoke(TRUE) /\ DropToken(w)
       \/ /\ ~proc[p].ended /\ Fault
          /\ (Revoke(TRUE) /\ UNCHANGED token) \/ (Revoke(FALSE) /\ DropToken(w))
       \/ proc[p].ended /\ UNCHANGED <<vkrow, bearer, token, faults>>
    /\ UNCHANGED <<kind, row, keyed, box, idle, cap, readers, uses, sweep,
                   crossed, ops>>

DeleteBox(p) ==
    /\ proc[p].at = "dbox"
    /\ \/ /\ Works(p)
          /\ box' = [box EXCEPT ![proc[p].w] = "none"]
          /\ Go(p, "drow")
       \/ /\ Breaks(p)
          /\ Go(p, proc[p].next) /\ UNCHANGED box
    /\ UNCHANGED <<kind, row, keyed, vkrow, bearer, token, idle, cap, readers, uses,
                   sweep, crossed, ops>>

DeleteRow(p) ==
    /\ proc[p].at = "drow"
    /\ Go(p, proc[p].next)
    /\ \/ ~proc[p].ended /\ RemoveRow(proc[p].w)
       \/ proc[p].ended /\ UNCHANGED <<row, keyed, cap, idle>>
    /\ UNCHANGED <<kind, vkrow, bearer, token, box, readers, uses, sweep, crossed,
                   ops, faults>>

(***************************************************************************)
(* The operator's other requests.                                          *)
(***************************************************************************)
OpStart(o, w, at) ==
    /\ o \in Operators /\ proc[o].at \in {"new", "done"} /\ ops > 0
    /\ row[w] # "none"
    /\ ops' = ops - 1
    /\ proc' = [proc EXCEPT ![o] = [Fresh EXCEPT !.at = at, !.w = w]]
    /\ UNCHANGED <<kind, row, keyed, vkrow, bearer, token, box, idle, cap, readers, uses,
                   sweep, crossed, faults>>

StopGet(p) ==
    /\ proc[p].at = "sget"
    /\ Go(p, IF proc[p].ended \/ row[proc[p].w] \notin Active THEN "done" ELSE "sbox")
    /\ UNCHANGED <<kind, row, keyed, vkrow, bearer, token, box, idle, cap, readers, uses,
                   sweep, crossed, ops, faults>>

HaltBox(w) == box' = [box EXCEPT ![w] = IF @ = "up" THEN "halted" ELSE @]

StopBox(p) ==
    /\ proc[p].at = "sbox"
    /\ \/ Works(p) /\ HaltBox(proc[p].w) /\ Go(p, "srow")
       \/ Breaks(p) /\ Go(p, "done") /\ UNCHANGED box
    /\ UNCHANGED <<kind, row, keyed, vkrow, bearer, token, idle, cap, readers, uses,
                   sweep, crossed, ops>>

SetStatus(w, s) == row' = [row EXCEPT ![w] = IF @ = "none" THEN "none" ELSE s]

StopRow(p) ==
    /\ proc[p].at = "srow"
    /\ Go(p, "done")
    /\ \/ ~proc[p].ended /\ SetStatus(proc[p].w, "stopped")
       \/ proc[p].ended /\ UNCHANGED row
    /\ UNCHANGED <<kind, keyed, vkrow, bearer, token, box, idle, cap, readers, uses,
                   sweep, crossed, ops, faults>>

\* Attach, Send, Touch: a workspace in use is not idle.
Touch(w) ==
    /\ row[w] \in Active /\ ops > 0
    /\ ops' = ops - 1
    /\ idle' = [idle EXCEPT ![w] = FALSE]
    /\ UNCHANGED <<kind, proc, row, keyed, vkrow, bearer, token, box, cap, readers, uses,
                   sweep, crossed, faults>>

\* People attach to the workspaces they create.
IssueCapability(w) ==
    /\ kind[w] = "create" /\ row[w] # "none" /\ cap[w] = "none"
    /\ cap' = [cap EXCEPT ![w] = "fresh"]
    /\ UNCHANGED <<kind, proc, row, keyed, vkrow, bearer, token, box, idle, readers, uses,
                   sweep, crossed, ops, faults>>

\* The lookup of ValidateCapability, which already refuses a used token.
ValidateRead(w) ==
    /\ cap[w] = "fresh" /\ readers[w] < MaxReaders
    /\ readers' = [readers EXCEPT ![w] = @ + 1]
    /\ UNCHANGED <<kind, proc, row, keyed, vkrow, bearer, token, box, idle, cap,
                   uses, sweep, crossed, ops, faults>>

\* UPDATE ... WHERE id = ? AND consumed_at IS NULL decides; the workspace
\* counts as used.
ValidateUse(w) ==
    /\ readers[w] > 0
    /\ readers' = [readers EXCEPT ![w] = @ - 1]
    /\ IF cap[w] = "fresh"
       THEN /\ cap' = [cap EXCEPT ![w] = "used"]
            /\ uses' = [uses EXCEPT ![w] = @ + 1]
            /\ idle' = [idle EXCEPT ![w] = FALSE]
       ELSE UNCHANGED <<cap, uses, idle>>
    /\ UNCHANGED <<kind, proc, row, keyed, vkrow, bearer, token, box, sweep,
                   crossed, ops, faults>>

(***************************************************************************)
(* Expiry.  A request lives for seconds, a workspace idles for half an     *)
(* hour.                                                                   *)
(***************************************************************************)
GrowIdle(w) ==
    /\ row[w] \in Active /\ Over(w) /\ ~idle[w]
    /\ idle' = [idle EXCEPT ![w] = TRUE]
    /\ UNCHANGED <<kind, proc, row, keyed, vkrow, bearer, token, box, cap, readers, uses,
                   sweep, crossed, ops, faults>>

\* Mutated form: only running workspaces are listed.
SweepListRunning ==
    /\ sweep.at = "rest"
    /\ \E w \in Requests : row[w] = "running" /\ idle[w]
    /\ sweep' = [todo |-> {w \in Requests : row[w] = "running" /\ idle[w]},
                 w |-> "none", at |-> "pick"]
    /\ UNCHANGED <<kind, proc, row, keyed, vkrow, bearer, token, box, idle, cap,
                   readers, uses, crossed, ops, faults>>

SweepList ==
    /\ sweep.at = "rest"
    /\ \E w \in Requests : row[w] \in Active /\ idle[w]
    /\ sweep' = [todo |-> {w \in Requests : row[w] \in Active /\ idle[w]},
                 w |-> "none", at |-> "pick"]
    /\ UNCHANGED <<kind, proc, row, keyed, vkrow, bearer, token, box, idle, cap,
                   readers, uses, crossed, ops, faults>>

\* Best effort: the container is stopped, the key revoked, the token deleted.
SweepOne(w) ==
    /\ sweep.at = "pick" /\ w \in sweep.todo
    /\ sweep' = [todo |-> sweep.todo \ {w}, w |-> w, at |-> "mark"]
    /\ \E lost \in {"nothing", "stop", "key", "token"} :
          /\ IF lost = "nothing" THEN UNCHANGED faults ELSE Fault
          /\ IF lost = "stop" THEN UNCHANGED box ELSE HaltBox(w)
          /\ IF keyed[w] THEN RevokeKey(w, lost # "key") ELSE UNCHANGED <<vkrow, bearer>>
          /\ IF lost = "token" THEN UNCHANGED token ELSE DropToken(w)
    /\ UNCHANGED <<kind, proc, row, keyed, idle, cap, readers, uses, crossed, ops>>

SweepMark ==
    /\ sweep.at = "mark"
    /\ sweep' = [sweep EXCEPT !.w = "none", !.at = IF sweep.todo = {} THEN "rest" ELSE "pick"]
    /\ SetStatus(sweep.w, "expired")
    /\ UNCHANGED <<kind, proc, keyed, vkrow, bearer, token, box, idle, cap, readers, uses,
                   crossed, ops, faults>>

-----------------------------------------------------------------------------
Create(p) ==
    \/ StartCreate(p) \/ StartReview(p) \/ ListSame(p)
    \/ Insert(p) \/ CreateBranch(p) \/ IssueKeys(p)
    \/ Up(p) \/ MarkRunning(p) \/ RollbackKeys(p)
    \/ RollbackRow(p) \/ RunPrint(p)
Delete(p) == DeleteGet(p) \/ DeleteKeys(p) \/ DeleteBox(p) \/ DeleteRow(p)
Operate(p) == StopGet(p) \/ StopBox(p) \/ StopRow(p)
Sweep == SweepList \/ (\E w \in Requests : SweepOne(w)) \/ SweepMark

Next ==
    \/ \E p \in Procs : Create(p) \/ Delete(p) \/ Operate(p) \/ EndContext(p)
    \/ \E o \in Operators, w \in Requests, at \in {"sget", "dget"} : OpStart(o, w, at)
    \/ \E w \in Requests : Touch(w) \/ IssueCapability(w) \/ ValidateRead(w)
                           \/ ValidateUse(w) \/ GrowIdle(w)
    \/ Sweep
    \/ Crash

\* Requests run to their end, time passes and the ticker of StartIdleExpirer
\* ticks; nobody has to use a workspace.
Fairness ==
    /\ WF_wvars(\E p \in Procs : Create(p) \/ Delete(p) \/ Operate(p))
    /\ WF_wvars(Sweep \/ \E w \in Requests : GrowIdle(w))

Spec == Init /\ [][Next]_wvars /\ Fairness
-----------------------------------------------------------------------------
(***************************************************************************)
(* Properties.                                                             *)
(***************************************************************************)
\* Every variable keeps its type; in particular a row refers to a gateway
\* key only while it exists.
TypeOK ==
    /\ \E s \in Scenarios : kind = s.kind /\ ops \in 0..s.ops
    /\ proc \in [Procs -> [at : Steps, w : Requests \cup {"none"},
                           next : {"done", "insert", "listany"}, ended : BOOLEAN,
                           again : BOOLEAN, saw : BOOLEAN]]
    /\ row \in [Requests -> Active \cup {"none", "stopped", "expired"}]
    /\ keyed \in [Requests -> BOOLEAN]
    /\ vkrow \in [Requests -> {"none", "live", "revoked"}]
    /\ bearer \in [Requests -> {"none", "live", "dead"}]
    /\ token \in [Requests -> {"none", "live", "gone"}]
    /\ box \in [Requests -> {"none", "up", "halted"}]
    /\ cap \in [Requests -> {"none", "fresh", "used"}]
    /\ idle \in [Requests -> BOOLEAN]
    /\ uses \in [Requests -> 0..MaxReaders]
    /\ readers \in [Requests -> 0..MaxReaders]
    /\ sweep \in [todo : SUBSET Requests, w : Requests \cup {"none"}, at : {"rest", "pick", "mark"}]
    /\ \A w \in Requests : keyed[w] => row[w] # "none"
    /\ crossed \in [Requests -> BOOLEAN]
    /\ faults \in 0..MaxFaults

\* An attach token is accepted once, whatever two clients that present it at
\* the same moment have read ("It enforces one-time use").
OneUse == \A w \in Requests : uses[w] <= 1

\* Deleting a workspace, and rolling a failed creation back ("the pending row
\* (and any issued credentials) is rolled back"), leave no credential: when
\* no call was lost and no deletion crossed the creation, a workspace without
\* a row has no bearer at the gateway and no Forgejo token.
CredentialsEnd ==
    \A w \in Requests :
        (faults = 0 /\ ~crossed[w] /\ Over(w) /\ row[w] = "none") =>
            bearer[w] # "live" /\ token[w] # "live"

\* A workspace nobody uses is collected: also the row a failed creation, an
\* ended request or a death of the daemon left pending ends expired, stopped
\* or deleted.
Collected(w) == (row[w] \in Active /\ Over(w)) ~> row[w] \notin Active

=============================================================================
