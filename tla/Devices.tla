------------------------------ MODULE Devices -------------------------------
(***************************************************************************)
(* Companion devices: enrollment by a one-time code, the credentials a     *)
(* device gets (backup password, Forgejo token, model gateway key, shared  *)
(* folder), the environment it fetches, and its revocation with the queue  *)
(* of unconfirmed external revocations and the loop that drives it.        *)
(*                                                                         *)
(* internal/companion/service.go, internal/controlplane/companion_ops.go,  *)
(* sync_reconcile.go and workspaces_ops.go (companion folders),            *)
(* internal/syncer/service.go, reconcile.go and config.go,                 *)
(* cmd/omahabd/main.go (the loops).  A code is redeemed by an enrolling    *)
(* request, so a device is named by the request that enrolls it.           *)
(***************************************************************************)
EXTENDS Naturals, FiniteSets

CONSTANTS Devices,       \* enrolling requests, and the devices they create
          Codes,         \* enrollment codes
          DevScenarios,  \* bounds: how many enrollments, revocations, fetches,
                         \* folders and environment changes are asked for,
                         \* outages, and requests, answers or writes lost
          MaxKeys        \* bound: gateway keys issued to one device

ASSUME DevicesAssumption ==
    /\ MaxKeys \in Nat
    /\ DevScenarios \subseteq [present : SUBSET Devices, codes : SUBSET Codes, revoke : Nat, fetch : Nat,
                               share : Nat, env : Nat, outages : Nat, cuts : Nat]

Externals == {"gateway", "forgejo", "restic", "syncthing"}
VARIABLES code,     \* companion_enrollments: fresh, expired or the device it made
          device,   \* companion_devices: none, live, revoked
          htfile,   \* lines of the htpasswd file
          htserved, \* lines the backup server loaded at its last start
          token,    \* the Forgejo tokens device-<id> that exist
          keyrow,   \* provider_virtual_keys: the rows of each device's keys
          bearer,   \* the keys the gateway accepts
          secret,   \* devices whose key is cached as a secret
          pending,  \* device_revocation_pending: <<device, target, handle>>
          member,   \* sync_devices: devices enrolled in the folder
          shared,   \* devices Syncthing shares the folder with
          granted,  \* device_environment_grants
          value, revision, \* the tool environment and environment_meta.revision
          copy,     \* what each client holds
          req,      \* requests and loops in flight
          report,   \* what the last completed revocation of a device said
          raced,    \* a request that could undo the revocation overlapped it
          down,     \* externals that do not answer
          quota     \* requests and faults left

devVars == <<code, device, htfile, htserved, token, keyrow, bearer, secret, pending,
             member, shared, granted, value, revision, copy, req, report, raced,
             down, quota>>

Keys == Devices \X (1..MaxKeys)
KeysOf(d) == {k \in Keys : k[1] = d}
Enrolls == {<<"enroll", d>> : d \in Devices}
Revokes == {<<"revoke", d>> : d \in Devices}
Fetches == {<<"fetch", d>> : d \in Devices}
Shares == {<<"share", d>> : d \in Devices}
Retry == <<"retry", "loop">>
Poll == <<"poll", "loop">>
DevProcs == Enrolls \cup Revokes \cup Fetches \cup Shares \cup {Retry, Poll, <<"put", "env">>}

NoRow == <<"nobody", "nothing", 0>>
AtRest == [at |-> "rest", seen |-> {}, todo |-> {}, row |-> NoRow, rev |-> 0, val |-> 0]
DevAt(p) == req[p].at
InFlight(p) == req[p].at # "rest"
Step(p, at) == req' = [req EXCEPT ![p] = IF at = "rest" THEN AtRest ELSE [@ EXCEPT !.at = at]]
StepWith(p, at, seen, todo) ==
    req' = [req EXCEPT ![p].at = at, ![p].seen = seen, ![p].todo = todo]
Answers(x) == x \notin down
Spend(what) == quota[what] > 0 /\ quota' = [quota EXCEPT ![what] = @ - 1]

DevInit ==
    /\ \E s \in DevScenarios :
        /\ quota = [revoke |-> s.revoke, fetch |-> s.fetch, share |-> s.share,
                    env |-> s.env, outages |-> s.outages, cuts |-> s.cuts]
        /\ device = [d \in Devices |-> IF d \in s.present THEN "live" ELSE "none"]
        /\ htfile = s.present /\ htserved = s.present /\ token = s.present
        /\ granted = s.present
        /\ code = [c \in Codes |-> IF c \in s.codes THEN "fresh" ELSE "expired"]
    /\ keyrow = [k \in Keys |-> "none"]
    /\ bearer = {} /\ secret = {} /\ pending = {} /\ member = {} /\ shared = {}
    /\ value = 0 /\ revision = 1
    /\ copy = [d \in Devices |-> [rev |-> 0, val |-> {}]]
    /\ req = [p \in DevProcs |-> AtRest]
    /\ report = [d \in Devices |-> "none"]
    /\ raced = [d \in Devices |-> FALSE]
    /\ down = {}

envVars == <<granted, value, revision, copy>>
keyVars == <<keyrow, bearer, secret>>
htVars == <<htfile, htserved>>
syncVars == <<member, shared>>

(***************************************************************************)
(* The htpasswd file of the backup server is read, changed and renamed     *)
(* over without a lock; the server loads it when it is restarted.          *)
(***************************************************************************)
readHtpasswd(p, from, to) ==
    /\ DevAt(p) = from
    /\ StepWith(p, to, htfile, req[p].todo)
writeHtpasswd(lines) ==
    /\ htfile' = lines
    /\ htserved' = IF Answers("restic") THEN lines ELSE htserved

(***************************************************************************)
(* Enrollment.                                                             *)
(***************************************************************************)
\* The row of the code is read: not consumed, not older than ten minutes.
CheckCode(d) ==
    /\ device[d] = "none" /\ DevAt(<<"enroll", d>>) = "rest"
    /\ \E c \in Codes :
        /\ code[c] = "fresh"
        /\ StepWith(<<"enroll", d>>, "claim", {}, {c})
    /\ UNCHANGED <<code, device, token, pending, report, down, quota, envVars, keyVars, htVars, syncVars>>

Expire(c) ==
    /\ code[c] = "fresh" /\ code' = [code EXCEPT ![c] = "expired"]
    /\ UNCHANGED <<device, token, pending, report, down, quota, req, envVars, keyVars, htVars, syncVars>>

\* The transaction that consumes the code (still unconsumed) and inserts the
\* device.
ClaimCode(d) ==
    /\ DevAt(<<"enroll", d>>) = "claim"
    /\ \E c \in req[<<"enroll", d>>].todo :
        IF code[c] \notin Devices
        THEN /\ code' = [code EXCEPT ![c] = d]
             /\ device' = [device EXCEPT ![d] = "live"]
             /\ Step(<<"enroll", d>>, "ht")
        ELSE Step(<<"enroll", d>>, "rest") /\ UNCHANGED <<code, device>>
    /\ UNCHANGED <<token, pending, report, down, quota, envVars, keyVars, htVars, syncVars>>

\* ensureMachineBackupCredentials: failure of the restart costs the device
\* its credentials, not its enrollment.
ensureMachineBackupCredentials(d) ==
    LET p == <<"enroll", d>> IN
    /\ \/ readHtpasswd(p, "ht", "htw") /\ UNCHANGED htVars
       \/ /\ DevAt(p) = "htw"
          /\ writeHtpasswd(req[p].seen \cup {d})
          /\ Step(p, "token")
    /\ UNCHANGED <<code, device, token, pending, report, down, quota, envVars, keyVars, syncVars>>

\* The Forgejo token, best effort, and its recorded name.
EnrollToken(d) ==
    /\ DevAt(<<"enroll", d>>) = "token"
    /\ token' = IF Answers("forgejo") THEN token \cup {d} ELSE token
    /\ Step(<<"enroll", d>>, "rest")
    /\ UNCHANGED <<code, device, pending, report, down, quota, envVars, keyVars, htVars, syncVars>>

(***************************************************************************)
(* The environment.                                                        *)
(***************************************************************************)
IncrementRevision == revision' = revision + 1
IsDeviceGranted(d) == d \in granted

\* GrantDevice and RevokeGrant: the row, then the revision, if the row
\* changed.  A grant wants a device that is not revoked.
SetGrant(d) ==
    /\ device[d] = "live" /\ DevAt(<<"put", "env">>) = "rest" /\ Spend("env")
    /\ granted' = IF IsDeviceGranted(d) THEN granted \ {d} ELSE granted \cup {d}
    /\ Step(<<"put", "env">>, "bump")
    /\ UNCHANGED <<code, device, token, pending, report, down, value, revision, copy,
                   keyVars, htVars, syncVars>>

\* PutToolEnv and DeleteToolEnv: the secret, then the revision.
PutToolEnv ==
    LET p == <<"put", "env">> IN
    /\ \/ /\ DevAt(p) = "rest" /\ Spend("env")
          /\ value' = value + 1 /\ Step(p, "bump") /\ UNCHANGED revision
       \/ /\ DevAt(p) = "bump"
          /\ IncrementRevision /\ Step(p, "rest") /\ UNCHANGED <<quota, value>>
    /\ UNCHANGED <<code, device, token, pending, report, down, granted, copy,
                   keyVars, htVars, syncVars>>

\* ValidateDeviceToken and the check of the bundle: only a live device.
FetchStart(d) ==
    /\ device[d] = "live" /\ DevAt(<<"fetch", d>>) = "rest" /\ Spend("fetch")
    /\ Step(<<"fetch", d>>, "revision")
    /\ UNCHANGED <<code, device, token, pending, report, down, envVars, keyVars, htVars, syncVars>>

\* The revision is read before the grant and the values it stands for.
FetchRevision(d) ==
    LET p == <<"fetch", d>> IN
    /\ DevAt(p) = "revision"
    /\ req' = [req EXCEPT ![p].at = "values", ![p].rev = revision]
    /\ UNCHANGED <<code, device, token, pending, report, down, quota, envVars, keyVars, htVars, syncVars>>

Keep(d, rev, val) ==
    copy' = IF copy[d].rev = rev THEN copy    \* 304: the ETag is the revision
            ELSE [copy EXCEPT ![d] = [rev |-> rev, val |-> val]]

\* A device without a grant gets the empty bundle.
FetchValues(d) ==
    LET p == <<"fetch", d>> IN
    /\ DevAt(p) = "values"
    /\ IF IsDeviceGranted(d)
       THEN req' = [req EXCEPT ![p].at = "key", ![p].val = value] /\ UNCHANGED copy
       ELSE Keep(d, req[p].rev, {}) /\ Step(p, "rest")
    /\ UNCHANGED <<code, device, token, pending, report, down, quota, granted, value,
                   revision, keyVars, htVars, syncVars>>

ValidKeys(d) == {k \in KeysOf(d) : keyrow[k] = "valid"}
FreeKeys(d) == {k \in KeysOf(d) : keyrow[k] = "none" /\ k \notin bearer}

\* ensureDeviceVirtualKey: a valid row with its cached secret is used again;
\* otherwise the old row is revoked, and the gateway told if it answers.
ReuseOrRevoke(d) ==
    LET p == <<"fetch", d>> IN
    /\ DevAt(p) = "key" /\ UNCHANGED <<secret, revision, quota>>
    /\ IF ValidKeys(d) # {} /\ d \in secret
       THEN Step(p, "answer") /\ UNCHANGED <<keyrow, bearer>>
       ELSE /\ keyrow' = [x \in Keys |-> IF x \in ValidKeys(d) THEN "revoked" ELSE keyrow[x]]
            /\ bearer' = IF Answers("gateway") THEN bearer \ ValidKeys(d) ELSE bearer
            /\ Step(p, "issue")

\* IssueVirtualKey: the gateway issues the key first.  Its answer may be lost, and
\* then the key is accepted there and known to nobody; the bundle goes without one.
IssueKey(d) ==
    LET p == <<"fetch", d>> IN
    /\ DevAt(p) = "issue" /\ UNCHANGED <<keyrow, secret, revision>>
    /\ IF Answers("gateway") /\ FreeKeys(d) # {}
       THEN LET k == CHOOSE x \in FreeKeys(d) : TRUE IN
            /\ bearer' = bearer \cup {k}
            /\ \/ StepWith(p, "insert", {}, {k}) /\ UNCHANGED quota
               \/ Step(p, "answer") /\ Spend("cuts")
       ELSE Step(p, "answer") /\ UNCHANGED <<bearer, quota>>

\* Its row is written next.  When that fails the key is taken back once, and
\* whether the gateway heard it is not asked.
InsertKey(d) ==
    LET p == <<"fetch", d>> IN
    /\ DevAt(p) = "insert" /\ UNCHANGED <<secret, revision>>
    /\ \E k \in req[p].todo :
        \/ /\ keyrow' = [keyrow EXCEPT ![k] = "valid"]
           /\ Step(p, "cache") /\ UNCHANGED <<bearer, quota>>
        \/ /\ bearer' = IF Answers("gateway") THEN bearer \ {k} ELSE bearer
           /\ Step(p, "answer") /\ Spend("cuts") /\ UNCHANGED keyrow

\* The key is cached and the revision raised.
CacheKey(d) ==
    /\ DevAt(<<"fetch", d>>) = "cache"
    /\ secret' = secret \cup {d} /\ IncrementRevision
    /\ Step(<<"fetch", d>>, "answer") /\ UNCHANGED <<keyrow, bearer, quota>>

ensureDeviceVirtualKey(d) ==
    /\ ReuseOrRevoke(d) \/ IssueKey(d) \/ InsertKey(d) \/ CacheKey(d)
    /\ UNCHANGED <<code, device, token, pending, report, down, granted, value, copy, htVars, syncVars>>

FetchAnswer(d) ==
    LET p == <<"fetch", d>> IN
    /\ DevAt(p) = "answer"
    /\ Keep(d, req[p].rev, {req[p].val}) /\ Step(p, "rest")
    /\ UNCHANGED <<code, device, token, pending, report, down, quota, granted, value, revision,
                   keyVars, htVars, syncVars>>

(***************************************************************************)
(* Shared folders.                                                         *)
(***************************************************************************)
\* CreateCompanionSyncFolder: the folder, the device's row and its link,
\* then a reconciliation pass.
CreateCompanionSyncFolder(d) ==
    /\ device[d] = "live" /\ DevAt(<<"share", d>>) = "rest" /\ Spend("share")
    /\ Step(<<"share", d>>, "enroll")
    /\ UNCHANGED <<code, device, token, pending, report, down, envVars, keyVars, htVars, syncVars>>
EnrollDevice(d) ==
    /\ DevAt(<<"share", d>>) = "enroll"
    /\ member' = member \cup {d} /\ Step(<<"share", d>>, "list")
    /\ UNCHANGED <<code, device, token, pending, report, down, quota, shared, envVars, keyVars, htVars>>

\* Reconcile: the devices of the folder are listed, then the folder is
\* written with that list.  A folder whose Syncthing does not answer, is
\* maintained or misses its disk stays as it is.
EnsureFolder(list) == shared' = IF Answers("syncthing") THEN list ELSE shared
reconcileFolder(p, after) ==
    /\ \/ DevAt(p) = "list" /\ StepWith(p, "write", member, req[p].todo) /\ UNCHANGED shared
       \/ DevAt(p) = "write" /\ Step(p, after) /\ EnsureFolder(req[p].seen)
    /\ UNCHANGED <<code, device, token, pending, report, down, quota, member, envVars, keyVars, htVars>>

\* The poll of every five minutes, and the pass at the start of the daemon.  A
\* pass over a folder that nobody shares or is about to changes nothing.
PollSyncthing ==
    \/ /\ DevAt(Poll) = "rest" /\ Step(Poll, "list")
       /\ member \cup shared # {} \/ quota.share > 0 \/ \E p \in Shares : InFlight(p)
       /\ UNCHANGED <<code, device, token, pending, report, down, quota, envVars, keyVars, htVars, syncVars>>
    \/ reconcileFolder(Poll, "rest")

(***************************************************************************)
(* Revocation.                                                             *)
(***************************************************************************)
\* RevokeDevice: the device can no longer authenticate; a device that is
\* revoked already goes through the rest again.
RevokeDevice(d) ==
    LET p == <<"revoke", d>> IN
    /\ device[d] # "none" /\ DevAt(p) = "rest" /\ Spend("revoke")
    /\ device' = [device EXCEPT ![d] = "revoked"]
    /\ Step(p, "ht")
    /\ UNCHANGED <<code, token, pending, report, down, envVars, keyVars, htVars, syncVars>>

\* Its own removal of the htpasswd line ignores errors.
RevokeHtpasswd(d) ==
    LET p == <<"revoke", d>> IN
    /\ \/ readHtpasswd(p, "ht", "htw") /\ UNCHANGED htVars
       \/ /\ DevAt(p) = "htw"
          /\ writeHtpasswd(req[p].seen \ {d})
          /\ Step(p, "keys")
    /\ UNCHANGED <<code, device, token, pending, report, down, quota, envVars, keyVars, syncVars>>

Queue(d, target, handle) == pending' = pending \cup {<<d, target, handle>>}

\* revokeDeviceExternals lists the key rows, whatever their state.  A row whose scan
\* fails would end the list early, unnoticed; with columns that are never NULL only
\* the end of the request's context does that, and then every later step fails (CutOff).
ListKeys(d) ==
    LET p == <<"revoke", d>> IN
    /\ DevAt(p) = "keys"
    /\ StepWith(p, "key", {}, {k \in KeysOf(d) : keyrow[k] # "none"})
    /\ UNCHANGED <<code, device, token, pending, report, down, quota, envVars, keyVars, htVars, syncVars>>

\* Mutated form: the lenient revocation of the gateway is taken for an answer.
RevokeKeyLenient(d) ==
    LET p == <<"revoke", d>> IN
    /\ DevAt(p) = "key"
    /\ \/ \E k \in req[p].todo :
            /\ keyrow' = [keyrow EXCEPT ![k] = "revoked"]
            /\ bearer' = IF Answers("gateway") THEN bearer \ {k} ELSE bearer
            /\ UNCHANGED pending
            /\ StepWith(p, "key", {}, req[p].todo \ {k})
       \/ req[p].todo = {} /\ Step(p, "secret") /\ UNCHANGED <<keyrow, bearer, pending>>
    /\ UNCHANGED <<code, device, token, report, down, quota, secret, envVars, htVars, syncVars>>

\* Each row is revoked here, then strictly at the gateway; without its
\* confirmation the key is queued.
RevokeKey(d) ==
    LET p == <<"revoke", d>> IN
    /\ DevAt(p) = "key"
    /\ \/ \E k \in req[p].todo :
            /\ keyrow' = [keyrow EXCEPT ![k] = "revoked"]
            /\ IF Answers("gateway") THEN bearer' = bearer \ {k} /\ UNCHANGED pending
               ELSE Queue(d, "gateway_key", k[2]) /\ UNCHANGED bearer
            /\ StepWith(p, "key", {}, req[p].todo \ {k})
       \/ req[p].todo = {} /\ Step(p, "secret") /\ UNCHANGED <<keyrow, bearer, pending>>
    /\ UNCHANGED <<code, device, token, report, down, quota, secret, envVars, htVars, syncVars>>

RevokeSecret(d) ==
    /\ DevAt(<<"revoke", d>>) = "secret"
    /\ secret' = secret \ {d} /\ Step(<<"revoke", d>>, "token")
    /\ UNCHANGED <<code, device, token, pending, report, down, quota, keyrow, bearer, envVars, htVars, syncVars>>

RevokeToken(d) ==
    LET p == <<"revoke", d>> IN
    /\ DevAt(p) = "token" /\ Step(p, "ht2")
    /\ IF Answers("forgejo") THEN token' = token \ {d} /\ UNCHANGED pending
       ELSE Queue(d, "forgejo_token", 0) /\ UNCHANGED token
    /\ UNCHANGED <<code, device, report, down, quota, envVars, keyVars, htVars, syncVars>>

\* RemoveDeviceBackupCredentials: the line again, and a restart that counts.
RemoveDeviceBackupCredentials(d) ==
    LET p == <<"revoke", d>> IN
    /\ \/ readHtpasswd(p, "ht2", "htw2") /\ UNCHANGED <<htVars, pending>>
       \/ /\ DevAt(p) = "htw2"
          /\ writeHtpasswd(req[p].seen \ {d})
          /\ IF Answers("restic") THEN UNCHANGED pending ELSE Queue(d, "htpasswd", 0)
          /\ Step(p, "unshare")
    /\ UNCHANGED <<code, device, token, report, down, quota, envVars, keyVars, syncVars>>

\* RemoveCompanionDevice deletes the rows; what the pass that follows could
\* not tell Syncthing is left to the poll.
RemoveMember(d) == member' = member \ {d}
RemoveCompanionDevice(d) ==
    LET p == <<"revoke", d>> IN
    /\ DevAt(p) = "unshare" /\ RemoveMember(d)
    /\ Step(p, IF d \in member THEN "list" ELSE "drive")
    /\ UNCHANGED <<code, device, token, pending, report, down, quota, shared, envVars, keyVars, htVars>>

(***************************************************************************)
(* The queue.                                                              *)
(***************************************************************************)
ListRevocationPending(p, from) ==
    /\ DevAt(p) = from
    /\ StepWith(p, "row", {}, pending)
    /\ UNCHANGED <<code, device, token, pending, report, down, quota, envVars, keyVars, htVars, syncVars>>

\* Mutated form: a row is dropped when it was tried.
ConfirmsNobody(x) == "nobody"

\* Who must answer for a row to be confirmed.
Confirms(x) == CASE x[2] = "gateway_key" -> "gateway"
                 [] x[2] = "forgejo_token" -> "forgejo"
                 [] x[2] = "htpasswd" -> "restic"

\* One row is tried again; it is deleted only when it is confirmed.
Confirmed(x) == pending' = IF Answers(Confirms(x)) THEN pending \ {x} ELSE pending \cup {x}
RetryPendingRow(p) ==
    /\ DevAt(p) = "row"
    /\ \E x \in req[p].todo :
        \/ /\ x[2] = "htpasswd"
           /\ req' = [req EXCEPT ![p].at = "hw", ![p].seen = htfile, ![p].row = x]
           /\ UNCHANGED <<token, bearer, pending>>
        \/ /\ x[2] # "htpasswd" /\ Confirmed(x)
           /\ token' = IF x[2] = "forgejo_token" /\ Answers("forgejo") THEN token \ {x[1]} ELSE token
           /\ bearer' = IF x[2] = "gateway_key" /\ Answers("gateway") THEN bearer \ {<<x[1], x[3]>>} ELSE bearer
           /\ StepWith(p, "row", {}, req[p].todo \ {x})
    /\ UNCHANGED <<code, device, report, down, quota, keyrow, secret, htVars, envVars, syncVars>>
\* The line of the row again, from the file as it was read.
RetryHtpasswdRow(p) ==
    /\ DevAt(p) = "hw"
    /\ LET x == req[p].row IN
        /\ writeHtpasswd(req[p].seen \ {x[1]}) /\ Confirmed(x)
        /\ StepWith(p, "row", {}, req[p].todo \ {x})
    /\ UNCHANGED <<code, device, token, report, down, quota, keyVars, envVars, syncVars>>
RetryPendingEnd(p, after) ==
    /\ DevAt(p) = "row" /\ req[p].todo = {} /\ Step(p, after)
    /\ UNCHANGED <<code, device, token, pending, report, down, quota, envVars, keyVars, htVars, syncVars>>

\* The loop of the daemon: at its start and every minute.  A pass over an empty
\* queue does nothing.
RetryPendingDeviceRevocations ==
    \/ pending # {} /\ ListRevocationPending(Retry, "rest")
    \/ RetryPendingRow(Retry) \/ RetryHtpasswdRow(Retry)
    \/ RetryPendingEnd(Retry, "rest")

\* The request drives the queue too, and reports 503 while a row of its
\* device is left.
RevokeReport(d) ==
    LET p == <<"revoke", d>> IN
    /\ DevAt(p) = "report" /\ Step(p, "rest")
    /\ report' = [report EXCEPT ![d] = IF \E x \in pending : x[1] = d THEN "unconfirmed"
                                       ELSE "revoked"]
    /\ UNCHANGED <<code, device, token, pending, down, quota, envVars, keyVars, htVars, syncVars>>

RevokeCompanionDevice(d) ==
    \/ RevokeDevice(d) \/ RevokeHtpasswd(d) \/ ListKeys(d) \/ RevokeKey(d)
    \/ RevokeSecret(d) \/ RevokeToken(d) \/ RemoveDeviceBackupCredentials(d)
    \/ RemoveCompanionDevice(d) \/ reconcileFolder(<<"revoke", d>>, "drive")
    \/ ListRevocationPending(<<"revoke", d>>, "drive") \/ RetryPendingRow(<<"revoke", d>>)
    \/ RetryHtpasswdRow(<<"revoke", d>>)
    \/ RetryPendingEnd(<<"revoke", d>>, "report") \/ RevokeReport(d)

(***************************************************************************)
(* Faults: an external stops answering for a while; a request ends with    *)
(* its context or with the daemon, between two of its steps.               *)
(***************************************************************************)
Outage(x) ==
    /\ Answers(x) /\ Spend("outages") /\ down' = down \cup {x}
    /\ UNCHANGED <<code, device, token, pending, report, req, envVars, keyVars, htVars, syncVars>>
Recovers(x) ==
    /\ ~Answers(x) /\ down' = down \ {x}
    \* systemd starts the backup server again with the file as it is
    /\ htserved' = IF x = "restic" THEN htfile ELSE htserved
    /\ UNCHANGED <<code, device, token, pending, report, req, quota, htfile, envVars, keyVars, syncVars>>
CutOff(p) ==
    /\ InFlight(p) /\ p # <<"put", "env">> /\ Spend("cuts")
    /\ Step(p, "rest")
    /\ UNCHANGED <<code, device, token, pending, report, down, envVars, keyVars, htVars, syncVars>>

\* Requests that were let in before the revocation, or that write the whole
\* htpasswd file back as they read it, and overlap the revocation of d.
Overlaps(d) == \E p \in DevProcs :
    \/ InFlight(p) /\ (p[1] = "enroll" \/ p \in {<<"fetch", d>>, <<"share", d>>})
    \/ InFlight(p) /\ p \in Revokes \ {<<"revoke", d>>}
    \/ DevAt(p) = "hw" /\ p # <<"revoke", d>> /\ req[p].row[1] # d
NoteRaces == raced' = [d \in Devices |-> raced[d] \/ (InFlight(<<"revoke", d>>) /\ Overlaps(d))']

DevStep ==
    \/ \E d \in Devices :
        \/ CheckCode(d) \/ ClaimCode(d) \/ ensureMachineBackupCredentials(d) \/ EnrollToken(d)
        \/ SetGrant(d) \/ FetchStart(d) \/ FetchRevision(d) \/ FetchValues(d)
        \/ ensureDeviceVirtualKey(d) \/ FetchAnswer(d)
        \/ CreateCompanionSyncFolder(d) \/ EnrollDevice(d) \/ reconcileFolder(<<"share", d>>, "rest")
        \/ RevokeCompanionDevice(d)
    \/ PutToolEnv \/ PollSyncthing \/ RetryPendingDeviceRevocations
    \/ \E c \in Codes : Expire(c)
    \/ \E x \in Externals : Outage(x) \/ Recovers(x)
    \/ \E p \in DevProcs : CutOff(p)
DevNext == DevStep /\ NoteRaces

\* The loops run for as long as the daemon does; an outage ends.
DevFairness ==
    /\ WF_devVars(RetryPendingDeviceRevocations /\ NoteRaces)
    /\ WF_devVars(PollSyncthing /\ NoteRaces)
    /\ \A x \in Externals : WF_devVars(Recovers(x) /\ NoteRaces)
    /\ \A d \in Devices : WF_devVars(EnrollDevice(d) /\ NoteRaces)
                          /\ WF_devVars(reconcileFolder(<<"share", d>>, "rest") /\ NoteRaces)
DevSpec == DevInit /\ [][DevNext]_devVars /\ DevFairness

(***************************************************************************)
(* Properties.                                                             *)
(***************************************************************************)
\* The keys that the gateway accepts and that have a row here.
Recorded == {k \in bearer : keyrow[k] # "none"}

LiveAt(d) == {x \in {<<d, "forgejo_token", 0>>, <<d, "htpasswd", 0>>} :
                 IF x[2] = "forgejo_token" THEN d \in token ELSE d \in htserved}
             \cup {<<d, "gateway_key", k[2]>> : k \in KeysOf(d) \cap Recorded}

\* companion_ops.go: "Every failure persists its retry handle; nothing reports
\* success until confirmed".  Once a revocation that nothing overlapped has
\* run to its end, every credential of the device that an external still
\* accepts is in the queue, so a device reported revoked has none.  A key that
\* the gateway issued and whose row was never written is excepted: there is no
\* handle for it anywhere, and the device is reported revoked all the same
\* (IssueKey, InsertKey).
RevokedIsTracked == \A d \in Devices :
    (report[d] # "none" /\ ~raced[d]) => LiveAt(d) \subseteq pending

\* companion_ops.go: "recovery after a gateway/Forgejo/systemd outage needs
\* only this driver plus a live external".  A revocation that ran to its end
\* leaves, sooner or later, no credential and no shared folder; but for a key
\* without a row, as above.
RevocationsFinish == \A d \in Devices :
    (report[d] # "none" /\ ~raced[d]) ~>
    (raced[d] \/ (LiveAt(d) = {} /\ d \notin shared /\ \A x \in pending : x[1] # d))

=============================================================================
