------------------------------- MODULE Health -------------------------------
(***************************************************************************)
(* The health of the host (internal/health/service.go and probes.go) and   *)
(* the periodic emitter that turns it into events                          *)
(* (internal/controlplane/apps_ops.go, StartHealthEmitter).                *)
(*                                                                         *)
(* A tick is one period of the emitter.  Ages are counted in ticks and     *)
(* kept only as far as some comparison tells them apart.  What was last    *)
(* seen and last announced of a component lives in the memory of omahabd:  *)
(* the table health_emitted is written and never read.                     *)
(***************************************************************************)
EXTENDS Integers, FiniteSets, FiniteSetsExt

CONSTANTS
  Watched,        \* bound: the components whose condition the model follows
  MinInterval,    \* Options.MinInterval, in ticks
  BackupStale,    \* Options.BackupStale, in ticks
  VerifyStale,    \* Options.VerifyStale: backend.go leaves it zero
  DiskThreshold,  \* Options.DiskThreshold, percent
  Conditions,     \* bound: [field -> the values that field of the host takes]
  HealthBudget    \* bound: changes of the host, deaths of omahabd, lost events

ASSUME HealthAssumption ==
  /\ MinInterval \in Nat \ {0} /\ BackupStale \in Nat /\ VerifyStale \in Nat
  /\ DiskThreshold \in 10 .. 100

VARIABLES
  host,        \* what the probes find
  cycleDue,    \* the ticker has fired and CheckAndEmit has not run yet
  lastStatus,  \* component -> the status of the last cycle, "" before the first
  emittedAge,  \* component -> ticks since lastEmitted
  announced,   \* component -> the last event of it the sink took
  quietFor,    \* component -> ticks since that event
  healthBudget

healthVars == <<host, cycleDue, lastStatus, emittedAge, announced, quietFor, healthBudget>>

Bad == {"degraded", "unhealthy", "unknown"}
Failed == -1      \* a probe that answers with an error
Missing == -2     \* no row
Quiet == [type |-> "", severity |-> "", status |-> ""]

-----------------------------------------------------------------------------
(* the probes and the verdict of Check on each *)

\* the fullest of the watched paths; one path that cannot be read is an error
CheckDisk == IF Failed \in {host.data, host.state} THEN Failed ELSE Max({host.data, host.state})

DiskStatus ==
  CASE CheckDisk = Failed              -> "unknown"
    [] CheckDisk >= DiskThreshold      -> "unhealthy"
    [] CheckDisk \in DiskThreshold - 10 .. DiskThreshold - 1 -> "degraded"
    [] OTHER                           -> "healthy"

CheckServices(answers) == IF answers THEN "healthy" ELSE "degraded"

BackupStatus ==
  CASE host.backup = Failed      -> "unknown"
    [] host.backup = Missing     -> "degraded"
    [] host.backup > BackupStale -> "unhealthy"
    [] OTHER                     -> "healthy"

VerifiedStatus ==
  CASE host.verified = Failed -> "unknown"
    [] host.verified = Missing \/ host.verified > VerifyStale -> "degraded"
    [] OTHER -> "healthy"

TailscaleStatus ==
  CASE host.tailscale \in {"missing", "logged out"} -> "unhealthy"
    [] host.tailscale = "invisible" -> "degraded"
    [] OTHER -> "healthy"

DNSStatus == IF host.resolves THEN "healthy" ELSE "unhealthy"

\* a certificate with less than fourteen days left counts as a failure already
TLSStatus == IF host.resolves /\ host.certificate = "valid" THEN "healthy" ELSE "unhealthy"

PocketIDStatus == IF host.pocketid THEN "healthy" ELSE "unhealthy"

InstanceStatus == IF host.instance = "own" THEN "healthy" ELSE "unhealthy"

EncryptionStatus ==
  CASE host.luks = "unreadable" -> "unknown"
    [] host.luks = "none"       -> "degraded"
    [] OTHER                    -> "healthy"

CheckOf(c) ==
  CASE c = "disk"            -> DiskStatus
    [] c = "service:docker"  -> CheckServices(host.docker)
    [] c = "service:omahabd" -> CheckServices(host.unit)
    [] c = "backup"          -> BackupStatus
    [] c = "backup_verified" -> VerifiedStatus
    [] c = "tailscale"       -> TailscaleStatus
    [] c = "dns"             -> DNSStatus
    [] c = "tls"             -> TLSStatus
    [] c = "pocketid"        -> PocketIDStatus
    [] c = "instance"        -> InstanceStatus
    [] c = "encryption"      -> EncryptionStatus

componentToEventType(c, status) ==
  IF status = "healthy" THEN "service.healthy"
  ELSE CASE c \in {"disk", "encryption"} -> "host.disk_low"
         [] c = "backup"                 -> "backup.failed"
         [] c = "backup_verified"        -> "backup.restored"
         [] OTHER                        -> "service.unhealthy"

SeverityOf(status) ==
  CASE status = "unhealthy" -> "error" [] status = "healthy" -> "info" [] OTHER -> "warning"

EventOf(c) == [type |-> componentToEventType(c, CheckOf(c)), severity |-> SeverityOf(CheckOf(c)), status |-> CheckOf(c)]

-----------------------------------------------------------------------------
\* ages beyond this are all alike to the comparisons below
Old == 2 * MinInterval + 1
Older(age) == IF age < Old THEN age + 1 ELSE age
OlderRow(age, stale) == IF age \in 0 .. stale THEN age + 1 ELSE age

HealthInit ==
  /\ host = [data |-> 50, state |-> 50, docker |-> TRUE, unit |-> TRUE, backup |-> 0, verified |-> 0,
             tailscale |-> "ok", resolves |-> TRUE, certificate |-> "valid", pocketid |-> TRUE,
             instance |-> "own", luks |-> "yes"]
  /\ cycleDue = FALSE
  /\ lastStatus = [c \in Watched |-> ""]
  /\ emittedAge = [c \in Watched |-> Old]
  /\ announced = [c \in Watched |-> Quiet]
  /\ quietFor = [c \in Watched |-> Old]
  /\ healthBudget = HealthBudget

\* The time is read after the probes, so the time between two cycles is not quite
\* a whole number of periods: late holds the components whose exact number of
\* periods has passed in full.
Elapsed(c, n, late) == emittedAge[c] > n \/ (emittedAge[c] = n /\ c \in late)

\* Mutated form: what is still wrong is not repeated.
ShouldEmitChanges(c, late) == lastStatus[c] \notin {"", CheckOf(c)} /\ Elapsed(c, MinInterval, late)

\* CheckAndEmit: the first observation is the baseline; a change is held back within
\* the interval; what stays wrong is repeated after two intervals
ShouldEmit(c, late) ==
  /\ lastStatus[c] # ""
  /\ IF lastStatus[c] # CheckOf(c)
       THEN Elapsed(c, MinInterval, late)
       ELSE CheckOf(c) # "healthy" /\ Elapsed(c, 2 * MinInterval, late)

RestartsClock(c, late) == lastStatus[c] = "" \/ ShouldEmit(c, late)

CheckAndEmit ==
  /\ cycleDue
  /\ \E late \in SUBSET Watched : \E lost \in SUBSET {c \in Watched : ShouldEmit(c, late)} :
       LET taken == {c \in Watched : ShouldEmit(c, late)} \ lost IN
       /\ Cardinality(lost) <= healthBudget.lost
       /\ healthBudget' = [healthBudget EXCEPT !.lost = @ - Cardinality(lost)]
       /\ emittedAge' = [c \in Watched |-> IF RestartsClock(c, late) THEN 0 ELSE emittedAge[c]]
       /\ announced' = [c \in Watched |-> IF c \in taken THEN EventOf(c) ELSE announced[c]]
       /\ quietFor' = [c \in Watched |-> IF c \in taken THEN 0 ELSE quietFor[c]]
  /\ lastStatus' = [c \in Watched |-> CheckOf(c)]
  /\ cycleDue' = FALSE
  /\ UNCHANGED host

\* StartHealthEmitter: a cycle has at most one period
HealthTick ==
  /\ ~cycleDue
  /\ cycleDue' = TRUE
  /\ host' = [host EXCEPT !.backup = OlderRow(@, BackupStale), !.verified = OlderRow(@, VerifyStale)]
  /\ emittedAge' = [c \in Watched |-> Older(emittedAge[c])]
  /\ quietFor' = [c \in Watched |-> Older(quietFor[c])]
  /\ UNCHANGED <<lastStatus, announced, healthBudget>>

HostChanges(f) ==
  /\ healthBudget.changes > 0
  /\ \E v \in Conditions[f] \ {host[f]} : host' = [host EXCEPT ![f] = v]
  /\ healthBudget' = [healthBudget EXCEPT !.changes = @ - 1]
  /\ UNCHANGED <<cycleDue, lastStatus, emittedAge, announced, quietFor>>

HealthCrash ==
  /\ healthBudget.deaths > 0
  /\ healthBudget' = [healthBudget EXCEPT !.deaths = @ - 1]
  /\ cycleDue' = FALSE
  /\ lastStatus' = [c \in Watched |-> ""]
  /\ emittedAge' = [c \in Watched |-> Old]
  /\ UNCHANGED <<host, announced, quietFor>>

HealthNext ==
  \/ CheckAndEmit
  \/ HealthTick
  \/ \E f \in DOMAIN Conditions : HostChanges(f)
  \/ HealthCrash

\* the ticker fires and the goroutine of the emitter runs
HealthProgress == CheckAndEmit \/ HealthTick
HealthSpec == HealthInit /\ [][HealthNext]_healthVars /\ WF_healthVars(HealthProgress)

-----------------------------------------------------------------------------
\* "Genuine failures surface on the next cycle via the same-status reminder path":
\* whatever stays wrong is announced, though its first sight was a silent baseline, a
\* change of it was held back as flapping, or the sink lost the event.
FailureIsTold ==
  \A c \in Watched, s \in Bad : <>[](CheckOf(c) = s) => <>[](announced[c].status = s)

=============================================================================
