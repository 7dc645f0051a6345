---------------------------- MODULE RecoveryKeys ----------------------------
(***************************************************************************)
(* The recovery phrase and the backup repositories it opens                *)
(* (internal/controlplane/wizard.go, recovery_auth.go and hetzner.go,      *)
(* internal/secrets, Configure and AttachRepository of internal/backups).  *)
(*                                                                         *)
(* A browser has a phrase generated, its user saves it, the browser        *)
(* confirms it: recovery.kit is replaced, through one file beside it that  *)
(* all browsers share, and the seed is remembered.  A repository takes its *)
(* password from the phrase, its credentials are stored aside and then     *)
(* moved under the name of the repository.  Calls run beside each other    *)
(* and each may end between any two of its steps.                          *)
(***************************************************************************)
EXTENDS Naturals, FiniteSets

CONSTANTS
  Phrases,      \* bound: the phrases there are to generate
  Browsers,     \* bound: browsers in which the recovery key is set up
  Creations,    \* bound: calls of CreateBackupRepository
  RecoveryBudget  \* bound: failures, deaths, expired memories

ASSUME MasterKeyAssumption == IsFiniteSet(Phrases) /\ IsFiniteSet(Creations)

VARIABLES
  kit,          \* the phrase recovery.kit was made of, and the master key it wraps; NoKit if it cannot be read
  kitTmp,       \* recovery.kit.tmp, which all browsers share: {} if it is not there, else {its contents}
  recoveryPend, \* phrases generated and not yet confirmed
  confirmedSeed,\* lastConfirmedSeed with lastConfirmedFingerprint
  rituals,      \* browser -> its phrase and how far it has come
  saved,        \* phrases a user has written down
  masterFile,   \* the master key: what is on disk and what omahabd holds
  backupSSH,    \* the key pair of the host, the hosts that accept it, the pinned host keys
  credentials,  \* stored secrets: name -> the phrase of the password, the key that sealed it
  repositories, \* repository -> the name of its secret, whether attached, its phrase
  creations,    \* call -> where it is
  recoveryBudget

recoveryVars == <<kit, kitTmp, recoveryPend, confirmedSeed, rituals, saved, masterFile, backupSSH, credentials,
                  repositories, creations, recoveryBudget>>

None == "none"
Nowhere == [phrase |-> None, step |-> "idle"]
NoKit == [phrase |-> None, wraps |-> 0]
NotCalled == [step |-> "idle", mode |-> "", supplied |-> None, kitRead |-> NoKit, seed |-> None, source |-> None]
StagingOf(c) == <<"staging", c>>
SecretOf(c) == <<"repository", c>>
NoSecret == [phrase |-> None, key |-> 0]

RecoveryInit ==
  /\ kit = NoKit /\ kitTmp = {}
  /\ recoveryPend = {} /\ confirmedSeed = None /\ saved = {}
  /\ rituals = [b \in Browsers |-> Nowhere]
  /\ \E file \in {"missing", "empty"} : masterFile = [file |-> file, key |-> 0, held |-> 0]
  /\ backupSSH = [key |-> FALSE, accepted |-> FALSE, pinned |-> FALSE]
  /\ credentials = [n \in {StagingOf(c) : c \in Creations} \union {SecretOf(c) : c \in Creations} |-> NoSecret]
  /\ repositories = [c \in {} |-> None]
  /\ creations = [c \in Creations |-> NotCalled]
  /\ recoveryBudget = RecoveryBudget

Serves == masterFile.held # 0

NewMasterKey == [file |-> "whole", key |-> masterFile.key + 1, held |-> masterFile.key + 1]

\* Loader.Ensure at the start of omahabd: what is missing or empty is made anew
EnsureMasterKey ==
  /\ ~Serves
  /\ masterFile' = IF masterFile.file = "whole" THEN [masterFile EXCEPT !.held = masterFile.key] ELSE NewMasterKey
  /\ UNCHANGED <<kit, kitTmp, recoveryPend, confirmedSeed, rituals, saved, backupSSH, credentials, repositories, creations, recoveryBudget>>

-----------------------------------------------------------------------------
(* the ritual of the recovery key *)

GenerateRecoveryKey(b) ==
  /\ Serves /\ rituals[b].step = "idle"
  /\ \E p \in Phrases \ (saved \union {rituals[d].phrase : d \in Browsers} \union recoveryPend) :
       /\ recoveryPend' = recoveryPend \union {p}
       /\ rituals' = [rituals EXCEPT ![b] = [phrase |-> p, step |-> "shown"]]
  /\ UNCHANGED <<kit, kitTmp, confirmedSeed, saved, masterFile, backupSSH, credentials, repositories, creations, recoveryBudget>>

\* the user writes the phrase down and the browser checks it pasted back
SavePhrase(b) ==
  /\ rituals[b].step = "shown"
  /\ saved' = saved \union {rituals[b].phrase}
  /\ rituals' = [rituals EXCEPT ![b].step = "acked"]
  /\ UNCHANGED <<kit, kitTmp, recoveryPend, confirmedSeed, masterFile, backupSSH, credentials, repositories, creations, recoveryBudget>>

\* ConfirmRecoveryKeySavedAck: the pending seed, if the fifteen minutes are not over
ConfirmRecoveryKeySavedAck(b) ==
  /\ Serves /\ rituals[b].step = "acked"
  /\ rituals' = [rituals EXCEPT ![b].step = IF rituals[b].phrase \in recoveryPend THEN "kit" ELSE "over"]
  /\ UNCHANGED <<kit, kitTmp, recoveryPend, confirmedSeed, saved, masterFile, backupSSH, credentials, repositories, creations, recoveryBudget>>

\* the master key omahabd holds, sealed with a key derived from the phrase
WrapMasterKey(p) == [phrase |-> p, wraps |-> masterFile.held]
UnwrapsTo(k, p) == IF k.phrase = p THEN k.wraps ELSE 0

PhraseKept == UNCHANGED <<recoveryPend, confirmedSeed, saved, masterFile, backupSSH, credentials, repositories, creations>>

\* persistRecoveryKit: the file beside recovery.kit is made, or emptied under whoever writes it
OpenKitTmp(b) ==
  /\ rituals[b].step = "kit"
  /\ kitTmp' = {NoKit}
  /\ rituals' = [rituals EXCEPT ![b].step = "into tmp"]
  /\ PhraseKept /\ UNCHANGED <<kit, recoveryBudget>>

\* ... it is written, wherever it has been renamed to since
WriteKitTmp(b) ==
  /\ rituals[b].step \in {"into tmp", "into kit", "into nowhere"}
  /\ kitTmp' = IF rituals[b].step = "into tmp" THEN {WrapMasterKey(rituals[b].phrase)} ELSE kitTmp
  /\ kit' = IF rituals[b].step = "into kit" THEN WrapMasterKey(rituals[b].phrase) ELSE kit
  /\ rituals' = [rituals EXCEPT ![b].step = "rename"]
  /\ PhraseKept /\ UNCHANGED recoveryBudget

\* where the file that b has open has gone when the file beside the kit has become "to"
WritesInto(b, to) == CASE rituals[b].step = "into tmp" -> to
                       [] rituals[b].step = "into kit" /\ to = "into kit" -> "into nowhere"
                       [] OTHER -> rituals[b].step

TmpBecomes(to, b, step) == rituals' = [d \in Browsers |-> [rituals[d] EXCEPT !.step = IF d = b THEN step ELSE WritesInto(d, to)]]

\* ... and renamed over the kit, whosever it is by now; another's rename may have taken it
PersistKit(b) ==
  /\ rituals[b].step = "rename"
  /\ \/ /\ kitTmp = {}
        /\ rituals' = [rituals EXCEPT ![b].step = "remove"]
        /\ UNCHANGED <<kit, kitTmp>>
     \/ /\ kit' \in kitTmp /\ kitTmp' = {}
        /\ TmpBecomes("into kit", b, "remember")
  /\ PhraseKept /\ UNCHANGED recoveryBudget

\* after a rename that failed
RemoveKitTmp(b) ==
  /\ rituals[b].step = "remove"
  /\ kitTmp' = {}
  /\ TmpBecomes("into nowhere", b, "over")
  /\ PhraseKept /\ UNCHANGED <<kit, recoveryBudget>>

\* the file cannot be opened, written or renamed: the seed stays pending
KitFails(b) ==
  /\ rituals[b].step \in {"kit", "into tmp", "into kit", "into nowhere", "rename"} /\ recoveryBudget.failures > 0
  /\ recoveryBudget' = [recoveryBudget EXCEPT !.failures = @ - 1]
  /\ rituals' = [rituals EXCEPT ![b].step = IF @ = "rename" THEN "remove" ELSE "over"]
  /\ PhraseKept /\ UNCHANGED <<kit, kitTmp>>

\* ... last, under the lock, the seed is remembered
RememberSeed(b) ==
  /\ rituals[b].step = "remember"
  /\ confirmedSeed' = rituals[b].phrase
  /\ recoveryPend' = recoveryPend \ {rituals[b].phrase}
  /\ rituals' = [rituals EXCEPT ![b].step = "over"]
  /\ UNCHANGED <<kit, kitTmp, saved, masterFile, backupSSH, credentials, repositories, creations, recoveryBudget>>

\* fifteen minutes pass for what is pending, a day for what is remembered
MemoryExpires ==
  /\ recoveryBudget.expiries > 0
  /\ recoveryBudget' = [recoveryBudget EXCEPT !.expiries = @ - 1]
  /\ \/ recoveryPend # {} /\ recoveryPend' = {} /\ UNCHANGED confirmedSeed
     \/ confirmedSeed # None /\ confirmedSeed' = None /\ UNCHANGED recoveryPend
  /\ UNCHANGED <<kit, kitTmp, rituals, saved, masterFile, backupSSH, credentials, repositories, creations>>

-----------------------------------------------------------------------------
(* CreateBackupRepository *)

CreationAt(c, s) == creations[c].step = s
CreationGoes(c, s) == creations' = [creations EXCEPT ![c].step = s]
StillTrue == UNCHANGED <<kit, kitTmp, recoveryPend, confirmedSeed, rituals, saved, masterFile, recoveryBudget>>

\* the phrase of the source repository is that of its own time
CreateBackupRepository(c) ==
  /\ Serves /\ CreationAt(c, "idle")
  /\ \E mode \in {"create", "attach"}, supplied \in saved \union {None}, source \in saved \union {None} :
       /\ mode = "create" => source = None
       /\ creations' = [creations EXCEPT ![c] = [NotCalled EXCEPT !.step = "read", !.mode = mode, !.supplied = supplied,
                                                                  !.source = source]]
  /\ StillTrue /\ UNCHANGED <<backupSSH, credentials, repositories>>

ReadRecoveryKit(c) ==
  /\ CreationAt(c, "read")
  /\ creations' = [creations EXCEPT ![c].kitRead = kit, ![c].step = "authenticate"]
  /\ StillTrue /\ UNCHANGED <<backupSSH, credentials, repositories>>

\* the phrase supplied must open the kit and the kit must wrap the master key
AuthenticateSeed(c) == IF creations[c].kitRead = NoKit
                         THEN creations[c].supplied = confirmedSeed
                         ELSE UnwrapsTo(creations[c].kitRead, creations[c].supplied) = masterFile.held

\* Mutated form: whatever is remembered will do.
AnyConfirmedSeed(c) == confirmedSeed # None

\* the remembered seed must be that of the kit
ConfirmedSeed(c) == creations[c].kitRead # NoKit /\ confirmedSeed = creations[c].kitRead.phrase

\* "There is no random fallback": without a seed the call is refused before it does anything
Authenticate(c) ==
  /\ CreationAt(c, "authenticate")
  /\ creations' = [creations EXCEPT ![c] =
       IF creations[c].supplied # None
         THEN IF AuthenticateSeed(c) THEN [@ EXCEPT !.seed = creations[c].supplied, !.step = "key"] ELSE [@ EXCEPT !.step = "over"]
         ELSE IF ConfirmedSeed(c) THEN [@ EXCEPT !.seed = confirmedSeed, !.step = "key"] ELSE [@ EXCEPT !.step = "over"]]
  /\ StillTrue /\ UNCHANGED <<backupSSH, credentials, repositories>>

\* a key pair is made only if there is none
ensureBackupSSHKey(c) ==
  /\ CreationAt(c, "key")
  /\ backupSSH' = [backupSSH EXCEPT !.key = TRUE]
  /\ CreationGoes(c, "upload")
  /\ StillTrue /\ UNCHANGED <<credentials, repositories>>

\* the key is appended on the server if it is not among those accepted
appendRemoteKey(c) ==
  /\ CreationAt(c, "upload")
  /\ backupSSH' = [backupSSH EXCEPT !.accepted = TRUE]
  /\ CreationGoes(c, "pin")
  /\ StillTrue /\ UNCHANGED <<credentials, repositories>>

\* the key the server has shown, on first use
pinHostKey(c) ==
  /\ CreationAt(c, "pin")
  /\ backupSSH' = [backupSSH EXCEPT !.pinned = TRUE]
  /\ CreationGoes(c, "stage")
  /\ StillTrue /\ UNCHANGED <<credentials, repositories>>

\* Put of the secret: sealed with the master key omahabd holds
SealedNow(c) == [phrase |-> creations[c].seed, key |-> masterFile.held]

StageSecret(c) ==
  /\ CreationAt(c, "stage")
  /\ credentials' = [credentials EXCEPT ![StagingOf(c)] = SealedNow(c)]
  /\ CreationGoes(c, "configure")
  /\ StillTrue /\ UNCHANGED <<backupSSH, repositories>>

\* Configure, or AttachRepository before it looks at the source
InsertRepository(c) ==
  /\ CreationAt(c, "configure")
  /\ repositories' = [d \in DOMAIN repositories \union {c} |->
       IF d = c THEN [secret |-> StagingOf(c), attached |-> creations[c].mode = "attach", phrase |-> creations[c].seed]
       ELSE repositories[d]]
  /\ CreationGoes(c, IF creations[c].mode = "attach" THEN "snapshots" ELSE "move")
  /\ StillTrue /\ UNCHANGED <<backupSSH, credentials>>

WithoutRow(c) == [d \in DOMAIN repositories \ {c} |-> repositories[d]]

\* Resolve: the secret the row names can be opened and holds the password of the repository
Resolves(d) == credentials[repositories[d].secret] = [phrase |-> repositories[d].phrase, key |-> masterFile.held]

\* Resolve, then restic snapshots: a source that does not open, or is empty, is not attached
AttachRepository(c) ==
  /\ CreationAt(c, "snapshots")
  /\ IF c \in DOMAIN repositories /\ Resolves(c) /\ creations[c].source = creations[c].seed
       THEN CreationGoes(c, "move") /\ UNCHANGED repositories
       ELSE CreationGoes(c, "over") /\ repositories' = WithoutRow(c)
  /\ StillTrue /\ UNCHANGED <<backupSSH, credentials>>

MoveSecret(c) ==
  /\ CreationAt(c, "move")
  /\ credentials' = [credentials EXCEPT ![SecretOf(c)] = SealedNow(c)]
  /\ CreationGoes(c, "repoint")
  /\ StillTrue /\ UNCHANGED <<backupSSH, repositories>>

\* Configure of the row with the moved secret
RepointRepository(c) ==
  /\ CreationAt(c, "repoint")
  /\ repositories' = IF c \in DOMAIN repositories THEN [repositories EXCEPT ![c].secret = SecretOf(c)] ELSE repositories
  /\ CreationGoes(c, IF c \in DOMAIN repositories THEN "drop" ELSE "over")
  /\ StillTrue /\ UNCHANGED <<backupSSH, credentials>>

DropStaged(c) ==
  /\ CreationAt(c, "drop")
  /\ credentials' = [credentials EXCEPT ![StagingOf(c)] = NoSecret]
  /\ CreationGoes(c, "over")
  /\ StillTrue /\ UNCHANGED <<backupSSH, repositories>>

\* DeleteRepository: as long as nothing was recorded in it
DeleteRepository(c) ==
  /\ Serves /\ c \in DOMAIN repositories
  /\ repositories' = WithoutRow(c)
  /\ StillTrue /\ UNCHANGED <<backupSSH, credentials, creations>>

-----------------------------------------------------------------------------
\* a step fails, or the thirty seconds of the request are over: nothing is undone
CreationFails(c) ==
  /\ creations[c].step \notin {"idle", "over"} /\ recoveryBudget.failures > 0
  /\ recoveryBudget' = [recoveryBudget EXCEPT !.failures = @ - 1]
  /\ CreationGoes(c, "over")
  /\ UNCHANGED <<kit, kitTmp, recoveryPend, confirmedSeed, rituals, saved, masterFile, backupSSH, credentials, repositories>>

RecoveryCrash ==
  /\ Serves /\ recoveryBudget.deaths > 0
  /\ recoveryBudget' = [recoveryBudget EXCEPT !.deaths = @ - 1]
  /\ masterFile' = [masterFile EXCEPT !.held = 0]
  /\ recoveryPend' = {} /\ confirmedSeed' = None
  /\ rituals' = [b \in Browsers |-> IF rituals[b].step \in {"idle", "shown", "acked"} THEN rituals[b] ELSE [rituals[b] EXCEPT !.step = "over"]]
  /\ creations' = [c \in Creations |-> IF creations[c].step = "idle" THEN NotCalled ELSE [creations[c] EXCEPT !.step = "over"]]
  /\ UNCHANGED <<kit, kitTmp, saved, backupSSH, credentials, repositories>>

RecoveryNext ==
  \/ EnsureMasterKey \/ MemoryExpires \/ RecoveryCrash
  \/ \E b \in Browsers :
       \/ GenerateRecoveryKey(b) \/ SavePhrase(b) \/ ConfirmRecoveryKeySavedAck(b) \/ OpenKitTmp(b)
       \/ WriteKitTmp(b) \/ PersistKit(b) \/ RemoveKitTmp(b) \/ KitFails(b) \/ RememberSeed(b)
  \/ \E c \in Creations :
       \/ CreateBackupRepository(c) \/ ReadRecoveryKit(c) \/ Authenticate(c) \/ ensureBackupSSHKey(c) \/ appendRemoteKey(c) \/ pinHostKey(c)
       \/ StageSecret(c) \/ InsertRepository(c) \/ AttachRepository(c) \/ MoveSecret(c) \/ RepointRepository(c) \/ DropStaged(c)
       \/ DeleteRepository(c) \/ CreationFails(c)

RecoverySpec == RecoveryInit /\ [][RecoveryNext]_recoveryVars

-----------------------------------------------------------------------------
\* "an unrecoverable repository must never be created silently": the password of every
\* repository is that of a phrase its user has saved, and of the phrase the kit had when
\* the call looked at it, whatever was confirmed in the meantime and in whatever order;
\* the row always leads to a stored secret with this password that omahabd can open.
RepositoriesRecoverable ==
  /\ \A c \in Creations : creations[c].seed # None =>
       creations[c].seed \in saved /\ (creations[c].kitRead # NoKit => creations[c].seed = creations[c].kitRead.phrase)
  /\ Serves => \A c \in DOMAIN repositories : Resolves(c)

=============================================================================
