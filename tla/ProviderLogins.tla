--------------------------- MODULE ProviderLogins ----------------------------
(* Signing in to a model subscription (one provider, chatgpt or xai) and      *)
(* connecting a Z.ai key: the helper process of a login and the goroutine     *)
(* that reads it (internal/providers/provider_auth.go), the gateway's         *)
(* registry of sessions (litellm.go), the requests that start, poll, relay    *)
(* and disconnect (internal/controlplane/identity_ops.go, zai.go) and the     *)
(* credential row (internal/providers/service.go).  Every login is a new      *)
(* session; the helper is workers/provider-auth.                              *)
EXTENDS Naturals, Sequences, FiniteSets

CONSTANTS Logins,        \* bound: login sessions, numbered as they are started
          MaxDisconnects \* bound: disconnects

ASSUME ProviderLoginsAssumption == MaxDisconnects \in Nat /\ Logins \subseteq Nat

VARIABLES helper,      \* the child of each session
          procs,       \* ProviderAuthAdapter.procs: the session whose child holds the provider
          sess,        \* ProviderAuthAdapter.sessions
          late,        \* sessions past their expiry
          saved,       \* sessions whose child wrote auth.json last, {} when there is none
          registry,    \* litellmGateway.sessions: the status a poll has seen
          login,       \* the request that starts a session
          poll,        \* the request that polls it and probes a model
          disconnect,  \* the request that disconnects
          disconnects,
          health,      \* provider_credentials.health; {} without a row
          zai,         \* what a Z.ai connection has left behind
          zaiTodo      \* calls left of ConnectZAI or disconnectZAI

loginVars == <<helper, procs, sess, late, saved, registry, login>>
loginAll == <<loginVars, poll, disconnect, disconnects, health, zai, zaiTodo>>
zaiVars == <<zai, zaiTodo>>
probeVars == <<poll, health>>
disVars == <<disconnect, disconnects>>

Alive(s) == helper[s] \in {"runs", "saved", "done"}

LoginInit ==
    /\ helper = [s \in Logins |-> "none"] /\ procs = {}
    /\ sess = [s \in Logins |-> [status |-> "none", url |-> FALSE, killed |-> FALSE]]
    /\ late = {} /\ saved = {}
    /\ registry = [s \in Logins |-> "none"]
    /\ login = [s \in Logins |-> "none"] /\ poll = [s \in Logins |-> "none"]
    /\ disconnect = "none" /\ disconnects = 0 /\ health = {}
    /\ zai = {} /\ zaiTodo = <<>>

----------------------------------------------------------------------------
(* Starting: StartProviderOAuth, StartOAuth, ProviderAuthAdapter.Start *)

\* The row that tracks the sign-in is made unless there is one.
ensureOAuthMetadata == health' = IF health = {} THEN {"unknown"} ELSE health

\* One child at a time: the next login waits for the last child to be reaped.
Busy == procs # {}

Start(s) ==
    /\ login[s] = "none" /\ ~Busy
    /\ \A t \in Logins : t < s => login[t] # "none"
    /\ helper' = [helper EXCEPT ![s] = "runs"] /\ procs' = {s}
    /\ sess' = [sess EXCEPT ![s].status = "connecting"]
    /\ login' = [login EXCEPT ![s] = "waits"]
    /\ ensureOAuthMetadata
    /\ UNCHANGED <<late, saved, registry, poll, disVars, zaiVars>>

\* There is a challenge, an outcome, or no child any more.
StartOAuth(s) ==
    /\ login[s] = "waits"
    /\ sess[s].url \/ sess[s].status # "connecting" \/ procs = {}
    /\ login' = [login EXCEPT ![s] = "answered"]
    /\ registry' = [registry EXCEPT ![s] = sess[s].status]
    /\ UNCHANGED <<helper, procs, sess, late, saved, probeVars, disVars, zaiVars>>

\* proc.cancel(): the child is killed, it is not dead yet.
Kill(some) == [t \in Logins |-> [sess[t] EXCEPT !.killed = @ \/ t \in some]]

\* The request ended before the helper said anything.
cancelSession(s) ==
    /\ login[s] = "waits"
    /\ login' = [login EXCEPT ![s] = "failed"]
    /\ sess' = [Kill(procs) EXCEPT ![s].status = "expired"]
    /\ UNCHANGED <<helper, procs, late, saved, registry, probeVars, disVars, zaiVars>>

----------------------------------------------------------------------------
(* The child and readLoop *)

Says(s, status) == sess' = [sess EXCEPT ![s].status = status]

HelperChallenge(s) ==
    /\ helper[s] = "runs" /\ ~sess[s].url
    /\ sess' = [sess EXCEPT ![s].url = TRUE, ![s].status = "connecting"]
    /\ UNCHANGED <<helper, procs, late, saved, registry, login, probeVars, disVars, zaiVars>>

\* The person has approved the sign-in: auth.json is written.
Signed(s) ==
    /\ helper[s] = "runs" /\ sess[s].url
    /\ helper' = [helper EXCEPT ![s] = "saved"] /\ saved' = {s}
    /\ UNCHANGED <<procs, sess, late, registry, login, probeVars, disVars, zaiVars>>
HelperSaves(s) == Signed(s)

HelperCompletes(s) ==
    /\ helper[s] = "saved" /\ helper' = [helper EXCEPT ![s] = "done"]
    /\ Says(s, "connected")
    /\ UNCHANGED <<procs, late, saved, registry, login, probeVars, disVars, zaiVars>>

\* The other codes (not_entitled, quota_exceeded, not_authenticated) end a login as error does.
mapHelperError == {"expired", "error"}
HelperFails(s) ==
    /\ helper[s] = "runs" /\ helper' = [helper EXCEPT ![s] = "done"]
    /\ \E e \in mapHelperError : Says(s, e)
    /\ UNCHANGED <<procs, late, saved, registry, login, probeVars, disVars, zaiVars>>

\* It is done, killed, or it dies on its own.
HelperDies(s) ==
    /\ Alive(s) /\ helper' = [helper EXCEPT ![s] = "dead"]
    /\ UNCHANGED <<procs, sess, late, saved, registry, login, probeVars, disVars, zaiVars>>

\* Mutated form: a child that ended without an outcome keeps the provider.
ReapSpoken(s) ==
    /\ helper[s] = "dead" /\ helper' = [helper EXCEPT ![s] = "gone"]
    /\ procs' = IF sess[s].status = "connecting" THEN procs ELSE procs \ {s}
    /\ Says(s, IF sess[s].status = "connecting" THEN "expired" ELSE sess[s].status)
    /\ UNCHANGED <<late, saved, registry, login, probeVars, disVars, zaiVars>>

\* Wait has returned: the provider is free, and a session without an outcome expires.
readLoopEnds(s) ==
    /\ helper[s] = "dead" /\ helper' = [helper EXCEPT ![s] = "gone"]
    /\ procs' = procs \ {s}
    /\ Says(s, IF sess[s].status = "connecting" THEN "expired" ELSE sess[s].status)
    /\ UNCHANGED <<late, saved, registry, login, probeVars, disVars, zaiVars>>

\* Fifteen minutes are over; it matters while the gateway knows the session.
Overdue(s) ==
    /\ registry[s] # "none" /\ s \notin late /\ late' = late \cup {s}
    /\ UNCHANGED <<helper, procs, sess, saved, registry, login, probeVars, disVars, zaiVars>>

----------------------------------------------------------------------------
(* Polling, the relayed callback, and the probe *)

Live(s) == s \notin late

\* snapshot: a session past its time counts as expired unless it is connected.
snapshot(s) == IF ~Live(s) /\ sess[s].status # "connected" THEN "expired" ELSE sess[s].status

\* (One request polls at a time.)  A session the registry has forgotten is not found; one past its time is expired, whatever the helper said.
PollOAuth(s) ==
    /\ registry[s] # "none" /\ \A t \in Logins : poll[t] = "none"
    /\ LET status == IF Live(s) THEN snapshot(s) ELSE "expired"
       IN  /\ registry' = [registry EXCEPT ![s] = status]
           /\ sess' = IF Live(s) THEN [sess EXCEPT ![s].status = status] ELSE sess
           /\ poll' = [poll EXCEPT ![s] = IF status = "connected" THEN "connected" ELSE "none"]
    /\ UNCHANGED <<helper, procs, late, saved, login, health, disVars, zaiVars>>

\* The callback a browser could not reach is relayed to the helper, only for a
\* session that a poll still saw connecting.
ForwardOAuthCallback(s) == registry[s] = "connecting" /\ Live(s) /\ Signed(s)

\* probeAndMarkHealthy: no deployment to try, or a key for the probe, the answer, the key revoked.
probeSkips(s) ==
    /\ poll[s] = "connected" /\ poll' = [poll EXCEPT ![s] = "none"]
    /\ UNCHANGED <<loginVars, health, disVars, zaiVars>>

probeIssues(s) ==
    /\ poll[s] = "connected" /\ poll' = [poll EXCEPT ![s] = "probes"]
    /\ UNCHANGED <<loginVars, health, disVars, zaiVars>>

\* A model answers only with a sign-in that is there (degraded counts as unhealthy here).
ProbeModel == {"unhealthy"} \cup (IF saved = {} THEN {} ELSE {"healthy"})

probeMarks(s) ==
    /\ poll[s] = "probes" /\ poll' = [poll EXCEPT ![s] = "revokes"]
    /\ \E h \in ProbeModel : health' = {h}
    /\ UNCHANGED <<loginVars, disVars, zaiVars>>

probeRevokes(s) ==
    /\ poll[s] = "revokes" /\ poll' = [poll EXCEPT ![s] = "none"]
    /\ UNCHANGED <<loginVars, health, disVars, zaiVars>>

\* The request ends: the row is not touched, and the key of the probe is not revoked any more.
ProbeCutOff(s) ==
    /\ poll[s] # "none" /\ poll' = [poll EXCEPT ![s] = "none"]
    /\ UNCHANGED <<loginVars, health, disVars, zaiVars>>

----------------------------------------------------------------------------
(* DisconnectProvider *)

Disconnect ==
    /\ disconnect = "none" /\ disconnects < MaxDisconnects /\ disconnects' = disconnects + 1
    /\ sess' = Kill(procs) /\ disconnect' = "killed"
    /\ UNCHANGED <<helper, procs, late, saved, registry, login, probeVars, zaiVars>>

RemoveAuth ==
    /\ disconnect = "killed" /\ saved' = {} /\ disconnect' = "removed"
    /\ UNCHANGED <<helper, procs, sess, late, registry, login, probeVars, disconnects, zaiVars>>

ForgetSessions ==
    /\ disconnect = "removed" /\ disconnect' = "forgotten"
    /\ registry' = [s \in Logins |-> "none"]
    /\ UNCHANGED <<helper, procs, sess, late, saved, login, probeVars, disconnects, zaiVars>>

markSubscriptionCredential ==
    /\ disconnect = "forgotten" /\ disconnect' = "none"
    /\ health' = IF health = {} THEN {} ELSE {"unknown"}
    /\ UNCHANGED <<loginVars, poll, disconnects, zaiVars>>

\* auth.json cannot be removed, or the request ends.
DisconnectFails ==
    /\ disconnect # "none" /\ disconnect' = "none"
    /\ UNCHANGED <<loginVars, probeVars, disconnects, zaiVars>>

----------------------------------------------------------------------------
(* Z.ai: a key of its own, without a helper *)

ZAIConnection == <<"secret", "row", "credential", "deployment", "key", "probed", "no key">>
ConnectZAI ==
    /\ zaiTodo = <<>> /\ zai = {} /\ zaiTodo' = ZAIConnection
    /\ UNCHANGED <<loginVars, probeVars, disVars, zai>>

\* The row first, then the secret it names; what the gateway holds stays.
disconnectZAI ==
    /\ zaiTodo = <<>> /\ "row" \in zai /\ zaiTodo' = <<"no row", "no secret">>
    /\ UNCHANGED <<loginVars, probeVars, disVars, zai>>

\* The calls: a secret, the row that names it, the gateway's copy, a deployment.
CreateCredential(z) == z \cup {"row"}
DeleteCredential(z) == z \ {"row"}
CreateGatewayCredential(z) == z \cup {"credential"}
CreateModel(z) == z \cup {"deployment"}

ZAICall ==
    /\ zaiTodo # <<>> /\ zaiTodo' = Tail(zaiTodo)
    /\ zai' = CASE Head(zaiTodo) = "row" -> CreateCredential(zai)
                [] Head(zaiTodo) = "credential" -> CreateGatewayCredential(zai)
                [] Head(zaiTodo) = "deployment" -> CreateModel(zai)
                [] Head(zaiTodo) = "no row" -> DeleteCredential(zai)
                [] Head(zaiTodo) = "no key" -> zai \ {"key"}
                [] Head(zaiTodo) = "no secret" -> zai \ {"secret"}
                [] OTHER -> zai \cup {Head(zaiTodo)}
    /\ UNCHANGED <<loginVars, probeVars, disVars>>

\* An error ends it where it is; only the key of the probe is taken back.
ZAIFails ==
    /\ zaiTodo # <<>>
    /\ zaiTodo' = IF "key" \in zai /\ Head(zaiTodo) # "no key" THEN <<"no key">> ELSE <<>>
    /\ UNCHANGED <<loginVars, probeVars, disVars, zai>>

----------------------------------------------------------------------------
LoginOf(s) ==
    \/ Start(s) \/ StartOAuth(s) \/ cancelSession(s)
    \/ HelperChallenge(s) \/ HelperSaves(s) \/ HelperCompletes(s) \/ HelperFails(s)
    \/ HelperDies(s) \/ readLoopEnds(s) \/ Overdue(s)
    \/ PollOAuth(s) \/ ForwardOAuthCallback(s)
    \/ probeSkips(s) \/ probeIssues(s) \/ probeMarks(s) \/ probeRevokes(s) \/ ProbeCutOff(s)

LoginNext ==
    \/ \E s \in Logins : LoginOf(s)
    \/ Disconnect \/ RemoveAuth \/ ForgetSessions \/ markSubscriptionCredential \/ DisconnectFails
ZAINext == ConnectZAI \/ disconnectZAI \/ ZAICall \/ ZAIFails

\* A helper gives up when its login is over (fifteen minutes, five for xai), a
\* killed one dies, and readLoop runs when its pipe is closed.
LoginFairness == \A s \in Logins : WF_loginAll(HelperDies(s)) /\ WF_loginAll(readLoopEnds(s))

LoginSpec == LoginInit /\ [][LoginNext \/ ZAINext]_loginAll /\ LoginFairness

----------------------------------------------------------------------------
(* Properties *)

\* A login that was started, whether it succeeds, is cancelled, disconnected or
\* expires, frees its provider: "a dead child with no terminal event expires the
\* session" and the next login is not refused for ever (readLoop).
LoginsEnd == (procs # {}) ~> (procs = {})

=============================================================================
