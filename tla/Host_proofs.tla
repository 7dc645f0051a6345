----------------------------- MODULE Host_proofs -----------------------------
(***************************************************************************)
(* Proofs about what outlives the daemon: the recovery phrase and the      *)
(* repositories it opens (RecoveryKeys), what an upgrade reports           *)
(* (HostGenerations), and the restore of a whole machine                   *)
(* (OfflineRecovery).                                                      *)
(***************************************************************************)
EXTENDS HostGenerations, OfflineRecovery, RecoveryKeys, TLAPS

-----------------------------------------------------------------------------
(* The recovery phrase: the inductive invariant.                            *)

SecretName == {StagingOf(c) : c \in Creations} \union {SecretOf(c) : c \in Creations}
AnyPhrase == Phrases \union {None}
KitForm == [phrase : AnyPhrase, wraps : Nat]
RitualStep == {"idle", "shown", "acked", "kit", "into tmp", "into kit", "into nowhere", "rename",
               "remove", "remember", "over"}
CallStep == {"idle", "read", "authenticate", "key", "upload", "pin", "stage", "configure",
             "snapshots", "move", "repoint", "drop", "over"}
CallForm == [step : CallStep, mode : {"", "create", "attach"}, supplied : AnyPhrase, kitRead : KitForm,
             seed : AnyPhrase, source : AnyPhrase]
RowForm == [secret : SecretName, attached : BOOLEAN, phrase : AnyPhrase]

MemoryTypes ==
    /\ kit \in KitForm /\ kitTmp \subseteq KitForm
    /\ saved \subseteq AnyPhrase /\ recoveryPend \subseteq AnyPhrase /\ confirmedSeed \in AnyPhrase
RitualTypes == rituals \in [Browsers -> [phrase : AnyPhrase, step : RitualStep]]
KeyTypes == masterFile \in [file : {"missing", "empty", "whole"}, key : Nat, held : Nat]
SecretTypes == credentials \in [SecretName -> [phrase : AnyPhrase, key : Nat]]
CallTypes == creations \in [Creations -> CallForm]
RowTypes == DOMAIN repositories \subseteq Creations /\ repositories \in [DOMAIN repositories -> RowForm]
KeysTypeOK == MemoryTypes /\ RitualTypes /\ KeyTypes /\ SecretTypes /\ CallTypes /\ RowTypes

\* omahabd holds the key of the file or none; nothing is stored before there is a file.
KeyOfTheFile ==
    /\ Serves => masterFile.file = "whole" /\ masterFile.held = masterFile.key
    /\ masterFile.file # "whole" => DOMAIN repositories = {}

\* What a browser confirms, what is remembered and what the kit was made of has
\* been saved by its user.
RitualsSaved == \A b \in Browsers : rituals[b].step \notin {"idle", "shown"} => rituals[b].phrase \in saved
KitsSaved == \A k \in {kit} \union kitTmp : k # NoKit => k.phrase \in saved
PhrasesSaved == RitualsSaved /\ KitsSaved /\ (confirmedSeed # None => confirmedSeed \in saved)

\* What a call has read and stored by the step it has come to.
CallSound(c) ==
    LET k == creations[c] IN
    /\ k.step \notin {"idle", "over"} => Serves
    /\ k.step \in {"idle", "read", "authenticate"} => k.seed = None
    /\ k.supplied # None => k.supplied \in saved
    /\ k.kitRead # NoKit => k.kitRead.phrase \in saved
    /\ k.seed # None => k.seed \in saved /\ (k.kitRead # NoKit => k.seed = k.kitRead.phrase)
    /\ k.step \in {"idle", "read", "authenticate", "key", "upload", "pin", "stage", "configure"}
          => c \notin DOMAIN repositories
    /\ k.step \in {"configure", "snapshots", "move", "repoint"} => credentials[StagingOf(c)] = SealedNow(c)
    /\ k.step \in {"repoint", "drop"} => credentials[SecretOf(c)] = SealedNow(c)
    /\ k.step = "drop" /\ c \in DOMAIN repositories => repositories[c].secret = SecretOf(c)

\* A row leads to the password it was made with, sealed with the master key.
RowSound(c) ==
    LET r == repositories[c] IN
    /\ r.phrase = creations[c].seed /\ r.secret \in {StagingOf(c), SecretOf(c)}
    /\ credentials[r.secret] = [phrase |-> r.phrase, key |-> masterFile.key]

KeysInv ==
    /\ KeysTypeOK /\ KeyOfTheFile /\ PhrasesSaved
    /\ \A c \in Creations : CallSound(c)
    /\ \A c \in DOMAIN repositories : RowSound(c)

\* The names under which two calls store their secrets differ.
LEMMA NamesDiffer ==
    ASSUME NEW c \in Creations, NEW d \in Creations
    PROVE  /\ StagingOf(c) \in SecretName /\ SecretOf(c) \in SecretName
           /\ StagingOf(c) # SecretOf(d)
           /\ StagingOf(c) = StagingOf(d) => c = d
           /\ SecretOf(c) = SecretOf(d) => c = d
PROOF BY DEF StagingOf, SecretOf, SecretName

\* What a call that goes on leaves of itself and of the others.
LEMMA CallGoes ==
    ASSUME CallTypes, NEW c \in Creations, NEW s \in CallStep, CreationGoes(c, s)
    PROVE  /\ CallTypes'
           /\ creations'[c].step = s
           /\ creations'[c].seed = creations[c].seed /\ creations'[c].supplied = creations[c].supplied
           /\ creations'[c].kitRead = creations[c].kitRead
           /\ \A d \in Creations \ {c} : creations'[d] = creations[d]
PROOF BY DEF CallTypes, CallForm, CreationGoes

\* A call is sound as long as nothing of its own changes.
LEMMA CallKept ==
    ASSUME NEW d \in Creations, CallSound(d), creations'[d] = creations[d],
           saved \subseteq saved', masterFile' = masterFile,
           d \in DOMAIN repositories'
              => d \in DOMAIN repositories /\ repositories'[d].secret = repositories[d].secret,
           credentials'[StagingOf(d)] = credentials[StagingOf(d)],
           credentials'[SecretOf(d)] = credentials[SecretOf(d)]
    PROVE  CallSound(d)'
PROOF BY DEF CallSound, SealedNow, Serves, StagingOf, SecretOf

\* So is a row.
LEMMA RowKept ==
    ASSUME NEW d \in DOMAIN repositories, RowSound(d), repositories'[d] = repositories[d],
           creations'[d].seed = creations[d].seed, masterFile'.key = masterFile.key,
           credentials'[repositories[d].secret] = credentials[repositories[d].secret]
    PROVE  RowSound(d)'
PROOF BY DEF RowSound, StagingOf, SecretOf

\* Nothing is stored yet and nothing is remembered.
LEMMA KeysInvInit == RecoveryInit => KeysInv
PROOF
  <1> SUFFICES ASSUME RecoveryInit PROVE KeysInv
    OBVIOUS
  <1> USE DEF RecoveryInit
  <1>1. MemoryTypes /\ RitualTypes /\ KeyTypes
    BY DEF MemoryTypes, RitualTypes, KeyTypes, AnyPhrase, KitForm, RitualStep, NoKit, Nowhere
  <1>2. SecretTypes /\ RowTypes
    BY DEF SecretTypes, RowTypes, SecretName, NoSecret, AnyPhrase
  <1>3. CallTypes
    BY DEF CallTypes, CallForm, CallStep, AnyPhrase, KitForm, NoKit, NotCalled
  <1>4. KeyOfTheFile /\ PhrasesSaved
    BY DEF KeyOfTheFile, PhrasesSaved, RitualsSaved, KitsSaved, Serves, Nowhere
  <1>5. ASSUME NEW c \in Creations PROVE CallSound(c)
    BY DEF CallSound, NotCalled
  <1> QED BY <1>1, <1>2, <1>3, <1>4, <1>5 DEF KeysInv, KeysTypeOK

\* The steps of the ritual.
LEMMA RitualSteps ==
    /\ {"idle", "shown", "acked", "kit", "into tmp", "into kit", "into nowhere"} \subseteq RitualStep
    /\ {"rename", "remove", "remember", "over"} \subseteq RitualStep
PROOF BY DEF RitualStep

\* A browser goes on, and nobody else.
LEMMA RitualMoves ==
    ASSUME RitualTypes, RitualsSaved, saved \subseteq saved', NEW b \in Browsers, NEW step \in RitualStep,
           rituals' = [rituals EXCEPT ![b].step = step],
           step \notin {"idle", "shown"} => rituals[b].phrase \in saved'
    PROVE  RitualTypes' /\ RitualsSaved'
PROOF BY DEF RitualTypes, RitualsSaved

\* A browser goes on and the file that others write is renamed or removed.
LEMMA TmpMoves ==
    ASSUME RitualTypes, RitualsSaved, UNCHANGED saved, NEW b \in Browsers, NEW step \in RitualStep,
           rituals[b].step \notin {"idle", "shown"},
           NEW to \in {"into kit", "into nowhere"}, TmpBecomes(to, b, step)
    PROVE  RitualTypes' /\ RitualsSaved'
PROOF
  <1>1. ASSUME NEW d \in Browsers PROVE WritesInto(d, to) \in RitualStep
    BY RitualSteps DEF WritesInto, RitualTypes
  <1>2. ASSUME NEW d \in Browsers PROVE WritesInto(d, to) = rituals[d].step \/ rituals[d].step \notin {"idle", "shown"}
    BY DEF WritesInto
  <1>3. ASSUME NEW d \in Browsers
        PROVE  /\ rituals'[d] = [rituals[d] EXCEPT !.step = IF d = b THEN step ELSE WritesInto(d, to)]
               /\ rituals[d] \in [phrase : AnyPhrase, step : RitualStep]
    BY DEF TmpBecomes, RitualTypes
  <1>4. RitualTypes'
    BY <1>1, <1>3 DEF TmpBecomes, RitualTypes
  <1>5. RitualsSaved'
    BY <1>2, <1>3 DEF RitualsSaved
  <1> QED BY <1>4, <1>5

\* A step of a browser, of its user or of the time keeps the invariant: what is
\* saved stays saved.
LEMMA RitualKeepsKeys ==
    ASSUME KeysInv,
           \/ MemoryExpires
           \/ \E b \in Browsers : \/ GenerateRecoveryKey(b) \/ SavePhrase(b) \/ ConfirmRecoveryKeySavedAck(b)
                                  \/ OpenKitTmp(b) \/ WriteKitTmp(b) \/ PersistKit(b) \/ RemoveKitTmp(b)
                                  \/ KitFails(b) \/ RememberSeed(b)
    PROVE  KeysInv'
PROOF
  <1> USE DEF KeysInv, KeysTypeOK
  <1>1. UNCHANGED <<masterFile, credentials, creations, repositories>> /\ saved \subseteq saved'
    BY DEF MemoryExpires, GenerateRecoveryKey, SavePhrase, ConfirmRecoveryKeySavedAck, PhraseKept,
       OpenKitTmp, WriteKitTmp, PersistKit, RemoveKitTmp, KitFails, RememberSeed
  <1>2. KeyTypes' /\ SecretTypes' /\ CallTypes' /\ RowTypes' /\ KeyOfTheFile'
    BY <1>1 DEF KeyTypes, SecretTypes, CallTypes, RowTypes, KeyOfTheFile, Serves
  <1>3. ASSUME NEW c \in Creations PROVE CallSound(c)'
    BY <1>1, CallKept
  <1>4. ASSUME NEW c \in DOMAIN repositories' PROVE RowSound(c)'
    BY <1>1, RowKept
  <1>5. MemoryTypes' /\ RitualTypes' /\ PhrasesSaved'
    <2>k. NoKit \in KitForm /\ \A p \in AnyPhrase : WrapMasterKey(p) \in KitForm
      BY DEF KitForm, NoKit, AnyPhrase, WrapMasterKey, KeyTypes
    <2>s. RitualsSaved /\ KitsSaved
      BY DEF PhrasesSaved
    <2> USE <2>s
    <2>1. CASE MemoryExpires
      <3>1. MemoryTypes'
        BY <2>1 DEF AnyPhrase, MemoryTypes, MemoryExpires
      <3>2. UNCHANGED <<rituals, saved, kit, kitTmp>> /\ confirmedSeed' \in {confirmedSeed, None}
        BY <2>1 DEF MemoryExpires
      <3>3. RitualTypes' /\ PhrasesSaved'
        BY <3>2 DEF RitualTypes, RitualsSaved, KitsSaved, PhrasesSaved
      <3> QED BY <3>1, <3>3
    <2>2. ASSUME NEW b \in Browsers, GenerateRecoveryKey(b) PROVE MemoryTypes' /\ RitualTypes' /\ PhrasesSaved'
      <3>1. PICK p \in Phrases : /\ recoveryPend' = recoveryPend \union {p}
                                 /\ rituals' = [rituals EXCEPT ![b] = [phrase |-> p, step |-> "shown"]]
        BY <2>2 DEF GenerateRecoveryKey
      <3>2. UNCHANGED <<kit, kitTmp, confirmedSeed, saved>>
        BY <2>2 DEF GenerateRecoveryKey
      <3>3. MemoryTypes'
        BY <3>1, <3>2 DEF MemoryTypes, AnyPhrase
      <3>4. RitualTypes'
        BY <3>1, RitualSteps DEF RitualTypes, AnyPhrase
      <3>5. PhrasesSaved'
        BY <3>1, <3>2 DEF RitualTypes, RitualsSaved, KitsSaved, PhrasesSaved
      <3> QED BY <3>3, <3>4, <3>5
    <2>3. ASSUME NEW b \in Browsers, SavePhrase(b) PROVE MemoryTypes' /\ RitualTypes' /\ PhrasesSaved'
      <3>1. MemoryTypes'
        BY <2>3, <2>k DEF MemoryTypes, RitualTypes, SavePhrase
      <3>2. RitualTypes' /\ RitualsSaved'
        BY <2>3, <1>1, RitualSteps, RitualMoves DEF SavePhrase
      <3>3. KitsSaved'
        BY <2>3 DEF KitsSaved, SavePhrase
      <3>4. (confirmedSeed # None => confirmedSeed \in saved)'
        BY <2>3 DEF SavePhrase, PhrasesSaved
      <3> QED BY <3>1, <3>2, <3>3, <3>4 DEF PhrasesSaved
    <2>4. ASSUME NEW b \in Browsers, ConfirmRecoveryKeySavedAck(b) PROVE MemoryTypes' /\ RitualTypes' /\ PhrasesSaved'
      <3>1. MemoryTypes'
        BY <2>4, <2>k DEF MemoryTypes, ConfirmRecoveryKeySavedAck
      <3>2. RitualTypes' /\ RitualsSaved'
        BY <2>4, <1>1, RitualSteps, RitualMoves DEF ConfirmRecoveryKeySavedAck, RitualsSaved
      <3>3. KitsSaved'
        BY <2>4 DEF KitsSaved, ConfirmRecoveryKeySavedAck
      <3>4. (confirmedSeed # None => confirmedSeed \in saved)'
        BY <2>4 DEF ConfirmRecoveryKeySavedAck, PhrasesSaved
      <3> QED BY <3>1, <3>2, <3>3, <3>4 DEF PhrasesSaved
    <2>5. ASSUME NEW b \in Browsers, OpenKitTmp(b) PROVE MemoryTypes' /\ RitualTypes' /\ PhrasesSaved'
      <3>1. MemoryTypes'
        BY <2>5, <2>k DEF MemoryTypes, OpenKitTmp, PhraseKept
      <3>2. RitualTypes' /\ RitualsSaved'
        BY <2>5, <1>1, RitualSteps, RitualMoves DEF OpenKitTmp, RitualsSaved, PhraseKept
      <3>3. KitsSaved'
        BY <2>5 DEF KitsSaved, OpenKitTmp, PhraseKept
      <3>4. (confirmedSeed # None => confirmedSeed \in saved)'
        BY <2>5 DEF OpenKitTmp, PhraseKept, PhrasesSaved
      <3> QED BY <3>1, <3>2, <3>3, <3>4 DEF PhrasesSaved
    <2>6. ASSUME NEW b \in Browsers, WriteKitTmp(b) PROVE MemoryTypes' /\ RitualTypes' /\ PhrasesSaved'
      <3>1. MemoryTypes'
        BY <2>6, <2>k DEF MemoryTypes, RitualTypes, WriteKitTmp, PhraseKept
      <3>2. RitualTypes' /\ RitualsSaved'
        BY <2>6, <1>1, RitualSteps, RitualMoves DEF WriteKitTmp, RitualsSaved, PhraseKept
      <3>3. KitsSaved'
        <4>1. rituals[b].phrase \in saved /\ saved' = saved /\ WrapMasterKey(rituals[b].phrase).phrase = rituals[b].phrase
          BY <2>6 DEF RitualsSaved, WriteKitTmp, PhraseKept, WrapMasterKey
        <4>2. /\ kit' \in {kit, WrapMasterKey(rituals[b].phrase)}
              /\ kitTmp' \in {kitTmp, {WrapMasterKey(rituals[b].phrase)}}
          BY <2>6 DEF WriteKitTmp
        <4> QED BY <4>1, <4>2 DEF KitsSaved
      <3>4. (confirmedSeed # None => confirmedSeed \in saved)'
        BY <2>6 DEF WriteKitTmp, PhraseKept, PhrasesSaved
      <3> QED BY <3>1, <3>2, <3>3, <3>4 DEF PhrasesSaved
    <2>7. ASSUME NEW b \in Browsers, PersistKit(b) PROVE MemoryTypes' /\ RitualTypes' /\ PhrasesSaved'
      <3>1. UNCHANGED <<recoveryPend, confirmedSeed, saved>> /\ kit' \in {kit} \union kitTmp /\ kitTmp' \subseteq kitTmp
        BY <2>7 DEF PersistKit, PhraseKept
      <3>2. MemoryTypes'
        BY <3>1 DEF MemoryTypes
      <3>3. KitsSaved'
        BY <3>1 DEF KitsSaved
      <3>4. RitualTypes' /\ RitualsSaved'
        <4>1. rituals[b].step = "rename"
          BY <2>7 DEF PersistKit
        <4>2. CASE rituals' = [rituals EXCEPT ![b].step = "remove"]
          BY <1>1, <4>1, <4>2, RitualSteps, RitualMoves DEF RitualsSaved
        <4>3. CASE TmpBecomes("into kit", b, "remember")
          BY <3>1, <4>1, <4>3, RitualSteps, TmpMoves
        <4> QED BY <2>7, <4>2, <4>3 DEF PersistKit
      <3> QED BY <3>1, <3>2, <3>3, <3>4 DEF PhrasesSaved
    <2>8. ASSUME NEW b \in Browsers, RemoveKitTmp(b) PROVE MemoryTypes' /\ RitualTypes' /\ PhrasesSaved'
      <3>1. UNCHANGED <<kit, recoveryPend, confirmedSeed, saved>> /\ kitTmp' = {}
        BY <2>8 DEF RemoveKitTmp, PhraseKept
      <3>2. MemoryTypes'
        BY <3>1 DEF MemoryTypes
      <3>3. KitsSaved'
        BY <3>1 DEF KitsSaved
      <3>4. RitualTypes' /\ RitualsSaved'
        BY <2>8, <3>1, RitualSteps, TmpMoves DEF RemoveKitTmp
      <3> QED BY <3>1, <3>2, <3>3, <3>4 DEF PhrasesSaved
    <2>9. ASSUME NEW b \in Browsers, KitFails(b) PROVE MemoryTypes' /\ RitualTypes' /\ PhrasesSaved'
      <3>1. MemoryTypes'
        BY <2>9, <2>k DEF MemoryTypes, KitFails, PhraseKept
      <3>2. RitualTypes' /\ RitualsSaved'
        BY <2>9, <1>1, RitualSteps, RitualMoves DEF KitFails, RitualsSaved, PhraseKept
      <3>3. KitsSaved'
        BY <2>9 DEF KitsSaved, KitFails, PhraseKept
      <3>4. (confirmedSeed # None => confirmedSeed \in saved)'
        BY <2>9 DEF KitFails, PhraseKept, PhrasesSaved
      <3> QED BY <3>1, <3>2, <3>3, <3>4 DEF PhrasesSaved
    <2>10. ASSUME NEW b \in Browsers, RememberSeed(b) PROVE MemoryTypes' /\ RitualTypes' /\ PhrasesSaved'
      <3>1. MemoryTypes'
        BY <2>10, <2>k DEF MemoryTypes, RitualTypes, RememberSeed
      <3>2. RitualTypes' /\ RitualsSaved'
        BY <2>10, <1>1, RitualSteps, RitualMoves DEF RememberSeed, RitualsSaved
      <3>3. KitsSaved'
        BY <2>10 DEF KitsSaved, RememberSeed
      <3>4. (confirmedSeed # None => confirmedSeed \in saved)'
        BY <2>10 DEF RememberSeed, RitualsSaved
      <3> QED BY <3>1, <3>2, <3>3, <3>4 DEF PhrasesSaved
    <2> QED BY <2>1, <2>2, <2>3, <2>4, <2>5, <2>6, <2>7, <2>8, <2>9, <2>10
  <1> QED BY <1>2, <1>3, <1>4, <1>5

\* A step of a call keeps the invariant.
LEMMA CallKeepsKeys ==
    ASSUME KeysInv, NEW c \in Creations,
           \/ CreateBackupRepository(c) \/ ReadRecoveryKit(c) \/ Authenticate(c) \/ ensureBackupSSHKey(c) \/ appendRemoteKey(c)
           \/ pinHostKey(c) \/ StageSecret(c) \/ InsertRepository(c) \/ AttachRepository(c) \/ MoveSecret(c)
           \/ RepointRepository(c) \/ DropStaged(c) \/ DeleteRepository(c) \/ CreationFails(c)
    PROVE  KeysInv'
PROOF
  <1> USE DEF KeysInv, KeysTypeOK
  <1>1. UNCHANGED <<kit, kitTmp, recoveryPend, confirmedSeed, rituals, saved, masterFile>>
    BY DEF StillTrue, CreateBackupRepository, ReadRecoveryKit, Authenticate, ensureBackupSSHKey,
       appendRemoteKey, pinHostKey, StageSecret, InsertRepository, AttachRepository, MoveSecret,
       RepointRepository, DropStaged, DeleteRepository, CreationFails
  <1>2. MemoryTypes' /\ RitualTypes' /\ KeyTypes' /\ PhrasesSaved'
    BY <1>1 DEF MemoryTypes, RitualTypes, KeyTypes, PhrasesSaved, RitualsSaved, KitsSaved
  <1>3. CASE ensureBackupSSHKey(c)
    <2>1. CreationGoes(c, "upload") /\ UNCHANGED <<credentials, repositories>>
      BY <1>3 DEF ensureBackupSSHKey
    <2>2. /\ CallTypes' /\ creations'[c].step = "upload" /\ creations'[c].seed = creations[c].seed
          /\ creations'[c].supplied = creations[c].supplied /\ creations'[c].kitRead = creations[c].kitRead
          /\ \A d \in Creations \ {c} : creations'[d] = creations[d]
      BY <2>1, CallGoes DEF CallStep
    <2>3. SecretTypes' /\ RowTypes' /\ KeyOfTheFile'
      BY <1>1, <2>1 DEF SecretTypes, RowTypes, KeyOfTheFile, Serves
    <2>4. CallSound(c)'
      BY <1>1, <2>1, <2>2, <1>3 DEF CallSound, SealedNow, Serves, CreationAt, ensureBackupSSHKey
    <2>5. ASSUME NEW d \in Creations PROVE CallSound(d)'
      BY <1>1, <2>1, <2>2, <2>4, CallKept
    <2>6. ASSUME NEW d \in DOMAIN repositories' PROVE RowSound(d)'
      BY <1>1, <2>1, <2>2, RowKept DEF RowTypes
    <2> QED BY <1>2, <2>2, <2>3, <2>5, <2>6
  <1>4. CASE appendRemoteKey(c)
    <2>1. CreationGoes(c, "pin") /\ UNCHANGED <<credentials, repositories>>
      BY <1>4 DEF appendRemoteKey
    <2>2. /\ CallTypes' /\ creations'[c].step = "pin" /\ creations'[c].seed = creations[c].seed
          /\ creations'[c].supplied = creations[c].supplied /\ creations'[c].kitRead = creations[c].kitRead
          /\ \A d \in Creations \ {c} : creations'[d] = creations[d]
      BY <2>1, CallGoes DEF CallStep
    <2>3. SecretTypes' /\ RowTypes' /\ KeyOfTheFile'
      BY <1>1, <2>1 DEF SecretTypes, RowTypes, KeyOfTheFile, Serves
    <2>4. CallSound(c)'
      BY <1>1, <2>1, <2>2, <1>4 DEF CallSound, SealedNow, Serves, CreationAt, appendRemoteKey
    <2>5. ASSUME NEW d \in Creations PROVE CallSound(d)'
      BY <1>1, <2>1, <2>2, <2>4, CallKept
    <2>6. ASSUME NEW d \in DOMAIN repositories' PROVE RowSound(d)'
      BY <1>1, <2>1, <2>2, RowKept DEF RowTypes
    <2> QED BY <1>2, <2>2, <2>3, <2>5, <2>6
  <1>5. CASE pinHostKey(c)
    <2>1. CreationGoes(c, "stage") /\ UNCHANGED <<credentials, repositories>>
      BY <1>5 DEF pinHostKey
    <2>2. /\ CallTypes' /\ creations'[c].step = "stage" /\ creations'[c].seed = creations[c].seed
          /\ creations'[c].supplied = creations[c].supplied /\ creations'[c].kitRead = creations[c].kitRead
          /\ \A d \in Creations \ {c} : creations'[d] = creations[d]
      BY <2>1, CallGoes DEF CallStep
    <2>3. SecretTypes' /\ RowTypes' /\ KeyOfTheFile'
      BY <1>1, <2>1 DEF SecretTypes, RowTypes, KeyOfTheFile, Serves
    <2>4. CallSound(c)'
      BY <1>1, <2>1, <2>2, <1>5 DEF CallSound, SealedNow, Serves, CreationAt, pinHostKey
    <2>5. ASSUME NEW d \in Creations PROVE CallSound(d)'
      BY <1>1, <2>1, <2>2, <2>4, CallKept
    <2>6. ASSUME NEW d \in DOMAIN repositories' PROVE RowSound(d)'
      BY <1>1, <2>1, <2>2, RowKept DEF RowTypes
    <2> QED BY <1>2, <2>2, <2>3, <2>5, <2>6
  <1>6. CASE CreationFails(c)
    <2>1. CreationGoes(c, "over") /\ UNCHANGED <<credentials, repositories>>
      BY <1>6 DEF CreationFails
    <2>2. /\ CallTypes' /\ creations'[c].step = "over" /\ creations'[c].seed = creations[c].seed
          /\ creations'[c].supplied = creations[c].supplied /\ creations'[c].kitRead = creations[c].kitRead
          /\ \A d \in Creations \ {c} : creations'[d] = creations[d]
      BY <2>1, CallGoes DEF CallStep
    <2>3. SecretTypes' /\ RowTypes' /\ KeyOfTheFile'
      BY <1>1, <2>1 DEF SecretTypes, RowTypes, KeyOfTheFile, Serves
    <2>4. CallSound(c)'
      BY <1>1, <2>1, <2>2, <1>6 DEF CallSound, SealedNow, Serves, CreationAt, CreationFails
    <2>5. ASSUME NEW d \in Creations PROVE CallSound(d)'
      BY <1>1, <2>1, <2>2, <2>4, CallKept
    <2>6. ASSUME NEW d \in DOMAIN repositories' PROVE RowSound(d)'
      BY <1>1, <2>1, <2>2, RowKept DEF RowTypes
    <2> QED BY <1>2, <2>2, <2>3, <2>5, <2>6
  <1>7. CASE CreateBackupRepository(c)
    <2>1. PICK mode \in {"create", "attach"}, supplied \in saved \union {None}, source \in saved \union {None} :
                creations' = [creations EXCEPT ![c] = [NotCalled EXCEPT !.step = "read", !.mode = mode,
                                                                        !.supplied = supplied, !.source = source]]
      BY <1>7 DEF CreateBackupRepository
    <2> DEFINE k == [NotCalled EXCEPT !.step = "read", !.mode = mode, !.supplied = supplied, !.source = source]
    <2>2. /\ k \in CallForm /\ creations' = [creations EXCEPT ![c] = k]
          /\ UNCHANGED <<credentials, repositories>>
      BY <2>1, <1>7 DEF CreateBackupRepository, NotCalled, CallForm, CallStep, AnyPhrase, KitForm,
         NoKit, MemoryTypes, StillTrue
    <2>3. /\ CallTypes' /\ creations'[c] = k
          /\ \A d \in Creations \ {c} : creations'[d] = creations[d]
      BY <2>2 DEF CallTypes
    <2>4. SecretTypes' /\ RowTypes' /\ KeyOfTheFile'
      BY <1>1, <2>2 DEF SecretTypes, RowTypes, KeyOfTheFile, Serves
    <2>5. c \notin DOMAIN repositories /\ Serves
      BY <1>7 DEF CallSound, CreationAt, CreateBackupRepository
    <2>6. /\ k.step = "read" /\ k.seed = None /\ (k.supplied # None => k.supplied \in saved) /\ k.kitRead = NoKit
      BY <2>1 DEF NotCalled
    <2> HIDE DEF k
    <2>7. CallSound(c)'
      BY <1>1, <2>2, <2>3, <2>5, <2>6 DEF CallSound, Serves
    <2>8. ASSUME NEW d \in Creations PROVE CallSound(d)'
      BY <1>1, <2>2, <2>3, <2>7, CallKept
    <2>9. ASSUME NEW d \in DOMAIN repositories' PROVE RowSound(d)'
      BY <1>1, <2>2, <2>3, <2>5, RowKept DEF RowTypes
    <2> QED BY <1>2, <2>3, <2>4, <2>8, <2>9
  <1>8. CASE ReadRecoveryKit(c)
    <2>1. creations[c] \in CallForm /\ creations[c].step = "read"
      BY <1>8 DEF CallTypes, ReadRecoveryKit, CreationAt
    <2> DEFINE k == [creations[c] EXCEPT !.kitRead = kit, !.step = "authenticate"]
    <2>2. /\ k \in CallForm /\ creations' = [creations EXCEPT ![c] = k]
          /\ UNCHANGED <<credentials, repositories>>
      BY <2>1, <1>8 DEF ReadRecoveryKit, CallTypes, CallForm, CallStep, MemoryTypes
    <2>3. /\ CallTypes' /\ creations'[c] = k
          /\ \A d \in Creations \ {c} : creations'[d] = creations[d]
      BY <2>2 DEF CallTypes
    <2>4. SecretTypes' /\ RowTypes' /\ KeyOfTheFile'
      BY <1>1, <2>2 DEF SecretTypes, RowTypes, KeyOfTheFile, Serves
    <2>5. c \notin DOMAIN repositories /\ Serves
      BY <1>8 DEF CallSound, CreationAt, ReadRecoveryKit
    <2>6. /\ k.step = "authenticate" /\ k.seed = None /\ (k.supplied # None => k.supplied \in saved)
          /\ k.kitRead # NoKit => k.kitRead.phrase \in saved
      BY <2>1 DEF CallForm, CallSound, PhrasesSaved, KitsSaved
    <2> HIDE DEF k
    <2>7. CallSound(c)'
      BY <1>1, <2>2, <2>3, <2>5, <2>6 DEF CallSound, Serves
    <2>8. ASSUME NEW d \in Creations PROVE CallSound(d)'
      BY <1>1, <2>2, <2>3, <2>7, CallKept
    <2>9. ASSUME NEW d \in DOMAIN repositories' PROVE RowSound(d)'
      BY <1>1, <2>2, <2>3, <2>5, RowKept DEF RowTypes
    <2> QED BY <1>2, <2>3, <2>4, <2>8, <2>9
  <1>9. CASE Authenticate(c)
    <2>1. creations[c] \in CallForm /\ creations[c].step = "authenticate" /\ Serves
      BY <1>9 DEF CallTypes, CallSound, Authenticate, CreationAt
    <2> DEFINE k == IF creations[c].supplied # None
                    THEN IF AuthenticateSeed(c)
                         THEN [creations[c] EXCEPT !.seed = creations[c].supplied, !.step = "key"]
                         ELSE [creations[c] EXCEPT !.step = "over"]
                    ELSE IF ConfirmedSeed(c)
                         THEN [creations[c] EXCEPT !.seed = confirmedSeed, !.step = "key"]
                         ELSE [creations[c] EXCEPT !.step = "over"]
    <2>2. /\ k \in CallForm /\ creations' = [creations EXCEPT ![c] = k]
          /\ UNCHANGED <<credentials, repositories>>
      BY <2>1, <1>9 DEF Authenticate, CallTypes, CallForm, CallStep, MemoryTypes
    <2>3. /\ CallTypes' /\ creations'[c] = k
          /\ \A d \in Creations \ {c} : creations'[d] = creations[d]
      BY <2>2 DEF CallTypes
    <2>4. SecretTypes' /\ RowTypes' /\ KeyOfTheFile'
      BY <1>1, <2>2 DEF SecretTypes, RowTypes, KeyOfTheFile, Serves
    <2>5. c \notin DOMAIN repositories /\ Serves
      BY <1>9 DEF CallSound, CreationAt, Authenticate
    <2>6. /\ k.step \in {"key", "over"} /\ (k.supplied # None => k.supplied \in saved)
          /\ k.kitRead # NoKit => k.kitRead.phrase \in saved
          /\ k.seed # None => k.seed \in saved /\ (k.kitRead # NoKit => k.seed = k.kitRead.phrase)
      <3> DEFINE m == creations[c]
      <3>1. /\ m.seed = None /\ (m.supplied # None => m.supplied \in saved)
            /\ m.kitRead # NoKit => m.kitRead.phrase \in saved
        BY <2>1 DEF CallSound
      <3>2. CASE m.supplied # None /\ AuthenticateSeed(c)
        <4>1. k = [m EXCEPT !.seed = m.supplied, !.step = "key"]
          BY <3>2
        <4>2. m.kitRead # NoKit => m.supplied = m.kitRead.phrase
          BY <3>2, <2>1 DEF AuthenticateSeed, UnwrapsTo, Serves
        <4> QED BY <4>1, <4>2, <3>1, <3>2, <2>1 DEF CallForm
      <3>3. CASE m.supplied = None /\ ConfirmedSeed(c)
        <4>1. k = [m EXCEPT !.seed = confirmedSeed, !.step = "key"]
          BY <3>3
        <4> QED BY <4>1, <3>1, <3>3, <2>1 DEF CallForm, ConfirmedSeed, PhrasesSaved
      <3>4. CASE IF m.supplied # None THEN ~AuthenticateSeed(c) ELSE ~ConfirmedSeed(c)
        <4>1. k = [m EXCEPT !.step = "over"]
          BY <3>4
        <4> QED BY <4>1, <3>1, <2>1 DEF CallForm
      <3> QED BY <3>2, <3>3, <3>4
    <2> HIDE DEF k
    <2>7. CallSound(c)'
      BY <1>1, <2>2, <2>3, <2>5, <2>6 DEF CallSound, Serves
    <2>8. ASSUME NEW d \in Creations PROVE CallSound(d)'
      BY <1>1, <2>2, <2>3, <2>7, CallKept
    <2>9. ASSUME NEW d \in DOMAIN repositories' PROVE RowSound(d)'
      BY <1>1, <2>2, <2>3, <2>5, RowKept DEF RowTypes
    <2> QED BY <1>2, <2>3, <2>4, <2>8, <2>9
  <1>10. CASE StageSecret(c)
    <2>1. CreationGoes(c, "configure") /\ UNCHANGED repositories
      BY <1>10 DEF StageSecret
    <2>2. /\ CallTypes' /\ creations'[c].step = "configure" /\ creations'[c].seed = creations[c].seed
          /\ creations'[c].supplied = creations[c].supplied /\ creations'[c].kitRead = creations[c].kitRead
          /\ \A d \in Creations \ {c} : creations'[d] = creations[d]
      BY <2>1, CallGoes DEF CallStep
    <2>3. SealedNow(c) \in [phrase : AnyPhrase, key : Nat]
      BY DEF CallTypes, CallForm, KeyTypes, SealedNow, NoSecret, AnyPhrase
    <2>4. /\ SecretTypes' /\ credentials'[StagingOf(c)] = SealedNow(c)
          /\ \A n \in SecretName \ {StagingOf(c)} : credentials'[n] = credentials[n]
      BY <2>3, <1>10, NamesDiffer DEF SecretTypes, StageSecret
    <2>5. RowTypes' /\ KeyOfTheFile'
      BY <1>1, <2>1 DEF RowTypes, KeyOfTheFile, Serves
    <2>6. CallSound(c)'
      BY <1>1, <2>1, <2>2, <2>4, <1>10, NamesDiffer DEF CallSound, SealedNow, Serves, CreationAt,
         StageSecret
    <2>7. ASSUME NEW d \in Creations \ {c}
          PROVE  /\ credentials'[StagingOf(d)] = credentials[StagingOf(d)]
                 /\ credentials'[SecretOf(d)] = credentials[SecretOf(d)]
      BY <2>4, NamesDiffer
    <2>8. ASSUME NEW d \in Creations PROVE CallSound(d)'
      BY <1>1, <2>1, <2>2, <2>6, <2>7, CallKept
    <2>9. ASSUME NEW d \in DOMAIN repositories' PROVE RowSound(d)'
      <3>1. d \in Creations /\ RowSound(d) /\ d \in DOMAIN repositories
        BY <2>1 DEF RowTypes
      <3>2. CASE d = c
        BY <1>1, <2>1, <2>2, <2>4, <3>1, <3>2, <1>10, NamesDiffer
           DEF RowSound, CallSound, KeyOfTheFile, Serves, SealedNow, CreationAt, StageSecret
      <3>3. CASE d # c
        BY <1>1, <2>1, <2>2, <2>7, <3>1, <3>3, RowKept DEF RowSound
      <3> QED BY <3>2, <3>3
    <2> QED BY <1>2, <2>2, <2>4, <2>5, <2>8, <2>9
  <1>11. CASE MoveSecret(c)
    <2>1. CreationGoes(c, "repoint") /\ UNCHANGED repositories
      BY <1>11 DEF MoveSecret
    <2>2. /\ CallTypes' /\ creations'[c].step = "repoint" /\ creations'[c].seed = creations[c].seed
          /\ creations'[c].supplied = creations[c].supplied /\ creations'[c].kitRead = creations[c].kitRead
          /\ \A d \in Creations \ {c} : creations'[d] = creations[d]
      BY <2>1, CallGoes DEF CallStep
    <2>3. SealedNow(c) \in [phrase : AnyPhrase, key : Nat]
      BY DEF CallTypes, CallForm, KeyTypes, SealedNow, NoSecret, AnyPhrase
    <2>4. /\ SecretTypes' /\ credentials'[SecretOf(c)] = SealedNow(c)
          /\ \A n \in SecretName \ {SecretOf(c)} : credentials'[n] = credentials[n]
      BY <2>3, <1>11, NamesDiffer DEF SecretTypes, MoveSecret
    <2>5. RowTypes' /\ KeyOfTheFile'
      BY <1>1, <2>1 DEF RowTypes, KeyOfTheFile, Serves
    <2>6. CallSound(c)'
      BY <1>1, <2>1, <2>2, <2>4, <1>11, NamesDiffer DEF CallSound, SealedNow, Serves, CreationAt,
         MoveSecret
    <2>7. ASSUME NEW d \in Creations \ {c}
          PROVE  /\ credentials'[StagingOf(d)] = credentials[StagingOf(d)]
                 /\ credentials'[SecretOf(d)] = credentials[SecretOf(d)]
      BY <2>4, NamesDiffer
    <2>8. ASSUME NEW d \in Creations PROVE CallSound(d)'
      BY <1>1, <2>1, <2>2, <2>6, <2>7, CallKept
    <2>9. ASSUME NEW d \in DOMAIN repositories' PROVE RowSound(d)'
      <3>1. d \in Creations /\ RowSound(d) /\ d \in DOMAIN repositories
        BY <2>1 DEF RowTypes
      <3>2. CASE d = c
        BY <1>1, <2>1, <2>2, <2>4, <3>1, <3>2, <1>11, NamesDiffer
           DEF RowSound, CallSound, KeyOfTheFile, Serves, SealedNow, CreationAt, MoveSecret
      <3>3. CASE d # c
        BY <1>1, <2>1, <2>2, <2>7, <3>1, <3>3, RowKept DEF RowSound
      <3> QED BY <3>2, <3>3
    <2> QED BY <1>2, <2>2, <2>4, <2>5, <2>8, <2>9
  <1>12. CASE DropStaged(c)
    <2>1. CreationGoes(c, "over") /\ UNCHANGED repositories
      BY <1>12 DEF DropStaged
    <2>2. /\ CallTypes' /\ creations'[c].step = "over" /\ creations'[c].seed = creations[c].seed
          /\ creations'[c].supplied = creations[c].supplied /\ creations'[c].kitRead = creations[c].kitRead
          /\ \A d \in Creations \ {c} : creations'[d] = creations[d]
      BY <2>1, CallGoes DEF CallStep
    <2>3. NoSecret \in [phrase : AnyPhrase, key : Nat]
      BY DEF CallTypes, CallForm, KeyTypes, SealedNow, NoSecret, AnyPhrase
    <2>4. /\ SecretTypes' /\ credentials'[StagingOf(c)] = NoSecret
          /\ \A n \in SecretName \ {StagingOf(c)} : credentials'[n] = credentials[n]
      BY <2>3, <1>12, NamesDiffer DEF SecretTypes, DropStaged
    <2>5. RowTypes' /\ KeyOfTheFile'
      BY <1>1, <2>1 DEF RowTypes, KeyOfTheFile, Serves
    <2>6. CallSound(c)'
      BY <1>1, <2>1, <2>2, <2>4, <1>12, NamesDiffer DEF CallSound, SealedNow, Serves, CreationAt,
         DropStaged
    <2>7. ASSUME NEW d \in Creations \ {c}
          PROVE  /\ credentials'[StagingOf(d)] = credentials[StagingOf(d)]
                 /\ credentials'[SecretOf(d)] = credentials[SecretOf(d)]
      BY <2>4, NamesDiffer
    <2>8. ASSUME NEW d \in Creations PROVE CallSound(d)'
      BY <1>1, <2>1, <2>2, <2>6, <2>7, CallKept
    <2>9. ASSUME NEW d \in DOMAIN repositories' PROVE RowSound(d)'
      <3>1. d \in Creations /\ RowSound(d) /\ d \in DOMAIN repositories
        BY <2>1 DEF RowTypes
      <3>2. CASE d = c
        <4>1. repositories[c].secret = SecretOf(c) /\ SecretOf(c) \in SecretName \ {StagingOf(c)}
          BY <3>1, <3>2, <1>12, NamesDiffer DEF CallSound, CreationAt, DropStaged
        <4> QED BY <1>1, <2>1, <2>2, <2>4, <3>1, <3>2, <4>1, RowKept
      <3>3. CASE d # c
        BY <1>1, <2>1, <2>2, <2>7, <3>1, <3>3, RowKept DEF RowSound
      <3> QED BY <3>2, <3>3
    <2> QED BY <1>2, <2>2, <2>4, <2>5, <2>8, <2>9
  <1>13. CASE InsertRepository(c)
    <2> DEFINE s == IF creations[c].mode = "attach" THEN "snapshots" ELSE "move"
    <2>1. CreationGoes(c, s) /\ UNCHANGED credentials /\ s \in CallStep
      BY <1>13 DEF InsertRepository, CallStep
    <2> HIDE DEF s
    <2>2. /\ CallTypes' /\ creations'[c].step = s /\ creations'[c].seed = creations[c].seed
          /\ creations'[c].supplied = creations[c].supplied /\ creations'[c].kitRead = creations[c].kitRead
          /\ \A d \in Creations \ {c} : creations'[d] = creations[d]
      BY <2>1, CallGoes
    <2>3. /\ \A d \in DOMAIN repositories' \ {c} : d \in DOMAIN repositories /\ repositories'[d] = repositories[d]
          /\ c \in DOMAIN repositories' => /\ repositories'[c] \in RowForm
                                           /\ repositories'[c].phrase = creations[c].seed
                                           /\ repositories'[c].secret = StagingOf(c)
      BY <1>13, NamesDiffer DEF InsertRepository, RowTypes, RowForm, CallTypes, CallForm, RowSound
    <2>4. RowTypes'
      BY <2>3, <1>13 DEF RowTypes, InsertRepository
    <2>5. SecretTypes' /\ KeyOfTheFile'
      BY <1>1, <2>1, <2>3, <1>13 DEF SecretTypes, KeyOfTheFile, Serves, CallSound, CreationAt,
         InsertRepository
    <2>6. CallSound(c)'
      BY <1>1, <2>1, <2>2, <2>3, <1>13 DEF s, CallSound, SealedNow, Serves, CreationAt,
         InsertRepository, StagingOf, SecretOf
    <2>7. ASSUME NEW d \in Creations PROVE CallSound(d)'
      BY <1>1, <2>1, <2>2, <2>3, <2>6, CallKept
    <2>8. ASSUME NEW d \in DOMAIN repositories' PROVE RowSound(d)'
      <3>1. CASE d = c
        BY <1>1, <2>1, <2>2, <2>3, <3>1, <1>13 DEF RowSound, CallSound, KeyOfTheFile, Serves,
           SealedNow, CreationAt, InsertRepository, StagingOf, SecretOf
      <3>2. CASE d # c
        BY <1>1, <2>1, <2>2, <2>3, <3>2, RowKept DEF RowTypes
      <3> QED BY <3>1, <3>2
    <2> QED BY <1>2, <2>2, <2>4, <2>5, <2>7, <2>8
  <1>14. CASE RepointRepository(c)
    <2> DEFINE s == IF c \in DOMAIN repositories THEN "drop" ELSE "over"
    <2>1. CreationGoes(c, s) /\ UNCHANGED credentials /\ s \in CallStep
      BY <1>14 DEF RepointRepository, CallStep
    <2> HIDE DEF s
    <2>2. /\ CallTypes' /\ creations'[c].step = s /\ creations'[c].seed = creations[c].seed
          /\ creations'[c].supplied = creations[c].supplied /\ creations'[c].kitRead = creations[c].kitRead
          /\ \A d \in Creations \ {c} : creations'[d] = creations[d]
      BY <2>1, CallGoes
    <2>3. /\ \A d \in DOMAIN repositories' \ {c} : d \in DOMAIN repositories /\ repositories'[d] = repositories[d]
          /\ c \in DOMAIN repositories' => /\ repositories'[c] \in RowForm
                                           /\ repositories'[c].phrase = creations[c].seed
                                           /\ repositories'[c].secret = SecretOf(c)
      BY <1>14, NamesDiffer DEF RepointRepository, RowTypes, RowForm, CallTypes, CallForm, RowSound
    <2>4. RowTypes'
      BY <2>3, <1>14 DEF RowTypes, RepointRepository
    <2>5. SecretTypes' /\ KeyOfTheFile'
      BY <1>1, <2>1, <2>3, <1>14 DEF SecretTypes, KeyOfTheFile, Serves, CallSound, CreationAt,
         RepointRepository
    <2>6. CallSound(c)'
      BY <1>1, <2>1, <2>2, <2>3, <1>14 DEF s, CallSound, SealedNow, Serves, CreationAt,
         RepointRepository, StagingOf, SecretOf
    <2>7. ASSUME NEW d \in Creations PROVE CallSound(d)'
      BY <1>1, <2>1, <2>2, <2>3, <2>6, CallKept
    <2>8. ASSUME NEW d \in DOMAIN repositories' PROVE RowSound(d)'
      <3>1. CASE d = c
        BY <1>1, <2>1, <2>2, <2>3, <3>1, <1>14 DEF RowSound, CallSound, KeyOfTheFile, Serves,
           SealedNow, CreationAt, RepointRepository, StagingOf, SecretOf
      <3>2. CASE d # c
        BY <1>1, <2>1, <2>2, <2>3, <3>2, RowKept DEF RowTypes
      <3> QED BY <3>1, <3>2
    <2> QED BY <1>2, <2>2, <2>4, <2>5, <2>7, <2>8
  <1>15. CASE AttachRepository(c)
    <2>1. /\ UNCHANGED credentials
          /\ DOMAIN repositories' \subseteq DOMAIN repositories
          /\ \A d \in DOMAIN repositories' : repositories'[d] = repositories[d]
      BY <1>15 DEF AttachRepository, WithoutRow, RowTypes
    <2>2. \E s \in {"move", "over"} : CreationGoes(c, s)
      BY <1>15 DEF AttachRepository
    <2>3. /\ CallTypes' /\ creations'[c].step \in {"move", "over"} /\ creations'[c].seed = creations[c].seed
          /\ creations'[c].supplied = creations[c].supplied /\ creations'[c].kitRead = creations[c].kitRead
          /\ \A d \in Creations \ {c} : creations'[d] = creations[d]
      BY <2>2, CallGoes DEF CallStep
    <2>4. CallSound(c)'
      BY <1>1, <2>1, <2>3, <1>15 DEF CallSound, SealedNow, Serves, CreationAt, AttachRepository,
         StagingOf, SecretOf
    <2>5. RowTypes' /\ SecretTypes' /\ KeyOfTheFile'
      <3>1. repositories' = [d \in DOMAIN repositories' |-> repositories'[d]]
        BY <1>15 DEF AttachRepository, WithoutRow, RowTypes
      <3> QED BY <1>1, <2>1, <3>1 DEF RowTypes, SecretTypes, KeyOfTheFile, Serves
    <2>6. ASSUME NEW d \in Creations PROVE CallSound(d)'
      BY <1>1, <2>1, <2>3, <2>4, CallKept
    <2>7. ASSUME NEW d \in DOMAIN repositories' PROVE RowSound(d)'
      BY <1>1, <2>1, <2>3, RowKept DEF RowTypes
    <2> QED BY <1>2, <2>3, <2>5, <2>6, <2>7
  <1>16. CASE DeleteRepository(c)
    <2>1. /\ UNCHANGED credentials
          /\ DOMAIN repositories' \subseteq DOMAIN repositories
          /\ \A d \in DOMAIN repositories' : repositories'[d] = repositories[d]
      BY <1>16 DEF DeleteRepository, WithoutRow, RowTypes
    <2>2. UNCHANGED creations
      BY <1>16 DEF DeleteRepository
    <2>3. CallTypes' /\ \A d \in Creations : creations'[d] = creations[d]
      BY <2>2 DEF CallTypes
    <2>4. CallSound(c)'
      BY <1>1, <2>1, <2>3, CallKept
    <2>5. RowTypes' /\ SecretTypes' /\ KeyOfTheFile'
      <3>1. repositories' = [d \in DOMAIN repositories' |-> repositories'[d]]
        BY <1>16 DEF DeleteRepository, WithoutRow, RowTypes
      <3> QED BY <1>1, <2>1, <3>1 DEF RowTypes, SecretTypes, KeyOfTheFile, Serves
    <2>6. ASSUME NEW d \in Creations PROVE CallSound(d)'
      BY <1>1, <2>1, <2>3, <2>4, CallKept
    <2>7. ASSUME NEW d \in DOMAIN repositories' PROVE RowSound(d)'
      BY <1>1, <2>1, <2>3, RowKept DEF RowTypes
    <2> QED BY <1>2, <2>3, <2>5, <2>6, <2>7
  <1> QED BY <1>3, <1>4, <1>5, <1>6, <1>7, <1>8, <1>9, <1>10, <1>11, <1>12, <1>13, <1>14, <1>15, <1>16

\* Every step keeps the invariant.
LEMMA KeysInvStep == KeysInv /\ [RecoveryNext]_recoveryVars => KeysInv'
PROOF
  <1> SUFFICES ASSUME KeysInv, [RecoveryNext]_recoveryVars PROVE KeysInv'
    OBVIOUS
  <1> USE DEF KeysInv, KeysTypeOK
  <1>1. CASE EnsureMasterKey
    <2>1. UNCHANGED <<kit, kitTmp, recoveryPend, confirmedSeed, rituals, saved, credentials, repositories, creations>>
      BY <1>1 DEF EnsureMasterKey
    <2>2. KeyTypes' /\ KeyOfTheFile'
      BY <1>1, <2>1 DEF EnsureMasterKey, NewMasterKey, KeyTypes, KeyOfTheFile, Serves
    <2>3. MemoryTypes' /\ RitualTypes' /\ SecretTypes' /\ CallTypes' /\ RowTypes' /\ PhrasesSaved'
      BY <2>1 DEF MemoryTypes, RitualTypes, SecretTypes, CallTypes, RowTypes, PhrasesSaved,
         RitualsSaved, KitsSaved
    <2>4. ASSUME NEW c \in Creations PROVE CallSound(c)'
      BY <1>1, <2>1 DEF EnsureMasterKey, CallSound, StagingOf, SecretOf
    <2>5. ASSUME NEW c \in DOMAIN repositories' PROVE RowSound(c)'
      <3>1. masterFile'.key = masterFile.key
        BY <1>1, <2>1 DEF EnsureMasterKey, KeyOfTheFile, KeyTypes
      <3> QED BY <2>1, <3>1, RowKept
    <2> QED BY <2>2, <2>3, <2>4, <2>5
  <1>2. CASE RecoveryCrash
    <2>1. UNCHANGED <<kit, kitTmp, saved, credentials, repositories>>
      BY <1>2 DEF RecoveryCrash
    <2>2. MemoryTypes' /\ SecretTypes' /\ RowTypes'
      BY <1>2, <2>1 DEF RecoveryCrash, MemoryTypes, SecretTypes, RowTypes, AnyPhrase
    <2>3. RitualTypes' /\ KeyTypes'
      BY <1>2 DEF RecoveryCrash, RitualTypes, RitualStep, KeyTypes
    <2>4. NotCalled \in CallForm
      BY DEF NotCalled, CallForm, CallStep, AnyPhrase, KitForm, NoKit
    <2>8. ASSUME NEW c \in Creations
          PROVE  /\ creations'[c] \in CallForm /\ creations'[c].step \in {"idle", "over"}
                 /\ creations'[c].step = "idle" => creations[c].step = "idle"
                 /\ creations'[c].seed = creations[c].seed
                 /\ creations'[c].supplied \in {None, creations[c].supplied}
                 /\ creations'[c].kitRead \in {NoKit, creations[c].kitRead}
      <3>1. creations[c] \in CallForm
        BY DEF CallTypes
      <3>2. CASE creations[c].step = "idle"
        <4>1. creations'[c] = NotCalled
          BY <1>2, <3>2 DEF RecoveryCrash
        <4>2. creations[c].seed = None
          BY <3>2 DEF CallSound
        <4>3. /\ NotCalled.step = "idle" /\ NotCalled.seed = None /\ NotCalled.supplied = None
              /\ NotCalled.kitRead = NoKit
          BY DEF NotCalled
        <4> HIDE DEF NotCalled
        <4> QED BY <4>1, <4>2, <4>3, <2>4, <3>2
      <3>3. CASE creations[c].step # "idle"
        <4>1. creations'[c] = [creations[c] EXCEPT !.step = "over"]
          BY <1>2, <3>3 DEF RecoveryCrash
        <4> QED BY <4>1, <3>1 DEF CallForm, CallStep
      <3> QED BY <3>2, <3>3
    <2>9. CallTypes'
      <3>1. creations' = [c \in Creations |-> creations'[c]]
        BY <1>2 DEF RecoveryCrash
      <3> QED BY <2>8, <3>1 DEF CallTypes
    <2>5. KeyOfTheFile' /\ PhrasesSaved'
      <3>1. KeyOfTheFile'
        BY <1>2, <2>1 DEF RecoveryCrash, KeyOfTheFile, Serves, KeyTypes
      <3>2. RitualsSaved'
        BY <1>2, <2>1 DEF RecoveryCrash, PhrasesSaved, RitualsSaved, RitualTypes
      <3>3. KitsSaved' /\ confirmedSeed' = None
        BY <1>2, <2>1 DEF RecoveryCrash, PhrasesSaved, KitsSaved
      <3> QED BY <3>1, <3>2, <3>3 DEF PhrasesSaved
    <2>6. ASSUME NEW c \in Creations PROVE CallSound(c)'
      BY <2>1, <2>8 DEF CallSound
    <2>7. ASSUME NEW c \in DOMAIN repositories' PROVE RowSound(c)'
      BY <1>2, <2>1, <2>8, RowKept DEF RecoveryCrash, KeyTypes, RowTypes
    <2> QED BY <2>2, <2>3, <2>9, <2>5, <2>6, <2>7
  <1>3. CASE UNCHANGED recoveryVars
    BY <1>3, CallKept, RowKept
       DEF recoveryVars, MemoryTypes, RitualTypes, KeyTypes, SecretTypes, CallTypes, RowTypes, KeyOfTheFile,
           PhrasesSaved, RitualsSaved,
           KitsSaved, Serves
  <1> QED BY <1>1, <1>2, <1>3, RitualKeepsKeys, CallKeepsKeys DEF RecoveryNext

\* RecoveryKeys.RepositoriesRecoverable (CreateBackupRepository and the ritual of the
\* recovery key, internal/controlplane/wizard.go): the password of every repository is
\* that of a saved phrase, and every row leads to a secret omahabd can open.
THEOREM RepositoriesRecoverableHolds == RecoverySpec => []RepositoriesRecoverable
PROOF
  <1>1. KeysInv => RepositoriesRecoverable
    BY DEF KeysInv, KeysTypeOK, RowTypes, CallSound, RowSound, RepositoriesRecoverable, Resolves,
       KeyOfTheFile
  <1> QED BY KeysInvInit, KeysInvStep, <1>1, PTL DEF RecoverySpec

-----------------------------------------------------------------------------
(* The generations of the host: the inductive invariant.                    *)

Tree == [Bundles -> {"none", "on", "off"}]
Generation == [flake : Nat, tree : Tree \cup {"none"}]
UnitForm == [at : {"off", "handoff", "check", "commit", "pin", "build", "switch", "gate", "rollback",
                   "outcome", "journal"},
             op : ApplyOps \cup {"none"}, rev : Tree \cup {"none"}, retried : BOOLEAN, prev : Nat,
             status : {"none", "completed", "failed", "rolled_back"}]
UpgradeResult == {"none", "healthy", "switch_failed", "switch_failed_unhealthy", "rolled_back",
                  "rolled_back_unhealthy", "rollback_failed", "rollback_mismatch"}
UpgradeForm == [at : {"idle", "switch", "failed", "unchanged", "revert", "reverted", "gate", "promote", "back"},
                prev : Nat, result : UpgradeResult,
                read : BOOLEAN, ref : Nat, left : Nat, alone : BOOLEAN]

TreeTypes == work \in Tree /\ head \in Tree
ProfileTypes == gens \in Seq(Generation) /\ active \in 1..Len(gens) /\ flake \in Nat
UnitTypes == unit \in UnitForm /\ handoff \in ApplyOps \cup {"none"}
UpgradeTypes == upg \in UpgradeForm /\ candidate \in Nat
HostTypeOK == TreeTypes /\ ProfileTypes /\ UnitTypes /\ UpgradeTypes

\* Until its end an upgrade has no result, and one that has switched runs its
\* flake until it goes back; what it has read of the profile is where the
\* profile is; with its result it says what is active.
UpgradeTold ==
    /\ upg.at # "idle" => upg.result = "none"
    /\ upg.at \notin {"idle", "reverted"} => ~upg.read
    /\ upg.alone =>
         /\ upg.at \in {"gate", "promote"} => gens[active].flake = upg.ref
         /\ upg.at = "unchanged" => active = upg.prev
         /\ upg.at = "reverted" /\ upg.read => active = upg.prev
         /\ upg.at = "idle" =>
              /\ upg.result = "healthy" => gens[active].flake = flake
              /\ upg.result \in {"switch_failed", "switch_failed_unhealthy"} => active = upg.prev
              /\ upg.result \in {"rolled_back", "rolled_back_unhealthy"} /\ upg.read => active = upg.prev
              /\ upg.result = "rollback_mismatch" => active # upg.prev

HostInv == HostTypeOK /\ UpgradeTold

\* A switch ends with the generation it built as the active one.
LEMMA Activated ==
    ASSUME ProfileTypes, NEW g \in Generation, Activate(g)
    PROVE  gens' \in Seq(Generation) /\ active' \in 1..Len(gens') /\ gens'[active'] = g
PROOF
  <1>1. CASE gens[Len(gens)] = g
    BY <1>1 DEF ProfileTypes, Activate
  <1>2. CASE gens[Len(gens)] # g
    BY <1>2 DEF ProfileTypes, Activate
  <1> QED BY <1>1, <1>2

\* Going back stays inside the profile.
LEMMA WentBack == ProfileTypes /\ Back => gens' \in Seq(Generation) /\ active' \in 1..Len(gens')
PROOF BY DEF ProfileTypes, Back

\* Whatever an edit writes is a tree.
LEMMA TreeWritten == ASSUME NEW t \in Tree, NEW b, NEW k PROVE Written(t, b, k) \in Tree
PROOF BY DEF Tree, Written

\* The initial host.
LEMMA HostInvInit == HostInit => HostInv
PROOF
  <1> SUFFICES ASSUME HostInit PROVE HostInv
    OBVIOUS
  <1>1. TreeTypes
    BY DEF HostInit, TreeTypes, Tree
  <1>2. ProfileTypes
    <2> DEFINE t == [b \in Bundles |-> IF b \in FirstTree THEN "on" ELSE "none"]
               g1 == [flake |-> 0, tree |-> [b \in Bundles |-> "none"]]
               g2 == [flake |-> 0, tree |-> t]
    <2>1. g1 \in Generation /\ g2 \in Generation
      BY DEF Generation, Tree
    <2>2. gens = <<g1, g2>> /\ active = 2 /\ flake = 0
      BY DEF HostInit
    <2> HIDE DEF g1, g2
    <2> QED BY <2>1, <2>2 DEF ProfileTypes
  <1>3. UnitTypes
    BY DEF HostInit, UnitTypes, UnitForm, NoUnit
  <1>4. UpgradeTypes /\ UpgradeTold
    BY HostAssumption DEF HostInit, UpgradeTypes, UpgradeForm, UpgradeResult, UpgradeTold
  <1> QED BY <1>1, <1>2, <1>3, <1>4 DEF HostInv, HostTypeOK

\* What neither switches nor upgrades leaves the profile and the upgrade alone.
LEMMA CalmKeepsHost ==
    ASSUME HostInv,
           \/ ApiEdits \/ CliEdits \/ Staging \/ Polls \/ DaemonStarts \/ DaemonDies
           \/ TakeHandoff \/ ValidateDirty \/ ApplyCommit \/ Pin \/ Build \/ HealthGate
           \/ WriteOutcome \/ WriteJournal
    PROVE  HostInv'
PROOF
  <1> USE DEF HostInv, HostTypeOK
  <1>1. CASE ApiWrite
    <2>1. UNCHANGED <<gens, active, flake, candidate, upg>> /\ UNCHANGED <<unit, handoff>>
      BY <1>1 DEF ApiWrite, repoVars, opVars, DaemonStopped, genVars
    <2>2. TreeTypes'
      BY <2>1, <1>1, TreeWritten DEF TreeTypes, ApiWrite
    <2>3. UnitTypes'
      BY <2>1, <1>1 DEF UnitTypes
    <2> QED BY <2>1, <2>2, <2>3 DEF ProfileTypes, UpgradeTypes, UpgradeTold
  <1>2. CASE ApiCommit
    <2>1. UNCHANGED <<gens, active, flake, candidate, upg>> /\ UNCHANGED <<unit, handoff>>
      BY <1>2 DEF ApiCommit, repoVars, opVars, DaemonStopped, genVars
    <2>2. TreeTypes'
      BY <2>1, <1>2 DEF TreeTypes, ApiCommit, CommitTree
    <2>3. UnitTypes'
      BY <2>1, <1>2 DEF UnitTypes
    <2> QED BY <2>1, <2>2, <2>3 DEF ProfileTypes, UpgradeTypes, UpgradeTold
  <1>3. ASSUME NEW b \in Bundles, NEW k \in {"add", "remove", "enable", "disable"}, ApiCheck(b, k)
        PROVE  HostInv'
    <2>1. /\ UNCHANGED <<gens, active, flake, candidate, upg>> /\ UNCHANGED <<work, head>>
          /\ UNCHANGED <<unit, handoff>>
      BY <1>3 DEF ApiCheck, repoVars, opVars, DaemonStopped, genVars
    <2>2. TreeTypes'
      BY <2>1, <1>3 DEF TreeTypes, ApiCheck
    <2>3. UnitTypes'
      BY <2>1, <1>3 DEF UnitTypes
    <2> QED BY <2>1, <2>2, <2>3 DEF ProfileTypes, UpgradeTypes, UpgradeTold
  <1>4. CASE CliCommit
    <2>1. UNCHANGED <<gens, active, flake, candidate, upg>> /\ UNCHANGED <<unit, handoff>>
      BY <1>4 DEF CliCommit, repoVars, opVars, DaemonStopped, genVars
    <2>2. TreeTypes'
      BY <2>1, <1>4 DEF TreeTypes, CliCommit, CommitTree
    <2>3. UnitTypes'
      BY <2>1, <1>4 DEF UnitTypes
    <2> QED BY <2>1, <2>2, <2>3 DEF ProfileTypes, UpgradeTypes, UpgradeTold
  <1>5. ASSUME NEW b \in Bundles, NEW k \in {"add", "remove", "enable", "disable"}, CliWrite(b, k)
        PROVE  HostInv'
    <2>1. UNCHANGED <<gens, active, flake, candidate, upg>> /\ UNCHANGED <<unit, handoff>>
      BY <1>5 DEF CliWrite, repoVars, opVars, DaemonStopped, genVars
    <2>2. TreeTypes'
      BY <2>1, <1>5, TreeWritten DEF TreeTypes, CliWrite
    <2>3. UnitTypes'
      BY <2>1, <1>5 DEF UnitTypes
    <2> QED BY <2>1, <2>2, <2>3 DEF ProfileTypes, UpgradeTypes, UpgradeTold
  <1>6. CASE StartStagedApply
    <2>1. UNCHANGED <<gens, active, flake, candidate, upg>> /\ UNCHANGED <<work, head>>
      BY <1>6 DEF StartStagedApply, repoVars, opVars, DaemonStopped, genVars
    <2>2. TreeTypes'
      BY <2>1, <1>6 DEF TreeTypes, StartStagedApply
    <2>3. UnitTypes'
      BY <2>1, <1>6 DEF UnitTypes, StartStagedApply, UnitForm
    <2> QED BY <2>1, <2>2, <2>3 DEF ProfileTypes, UpgradeTypes, UpgradeTold
  <1>7. CASE StartFails
    <2>1. UNCHANGED <<gens, active, flake, candidate, upg>> /\ UNCHANGED <<work, head>>
      BY <1>7 DEF StartFails, repoVars, opVars, DaemonStopped, genVars
    <2>2. TreeTypes'
      BY <2>1, <1>7 DEF TreeTypes, StartFails
    <2>3. UnitTypes'
      BY <2>1, <1>7 DEF UnitTypes, StartFails
    <2> QED BY <2>1, <2>2, <2>3 DEF ProfileTypes, UpgradeTypes, UpgradeTold
  <1>8. CASE NoteStarted
    <2>1. /\ UNCHANGED <<gens, active, flake, candidate, upg>> /\ UNCHANGED <<work, head>>
          /\ UNCHANGED <<unit, handoff>>
      BY <1>8 DEF NoteStarted, repoVars, opVars, DaemonStopped, genVars
    <2>2. TreeTypes'
      BY <2>1, <1>8 DEF TreeTypes, NoteStarted
    <2>3. UnitTypes'
      BY <2>1, <1>8 DEF UnitTypes
    <2> QED BY <2>1, <2>2, <2>3 DEF ProfileTypes, UpgradeTypes, UpgradeTold
  <1>9. ASSUME NEW o \in ApplyOps, StageApply(o) PROVE HostInv'
    <2>1. UNCHANGED <<gens, active, flake, candidate, upg>> /\ UNCHANGED <<work, head>>
      BY <1>9 DEF StageApply, repoVars, opVars, DaemonStopped, genVars
    <2>2. TreeTypes'
      BY <2>1, <1>9 DEF TreeTypes, StageApply
    <2>3. UnitTypes'
      BY <2>1, <1>9 DEF UnitTypes, StageApply
    <2> QED BY <2>1, <2>2, <2>3 DEF ProfileTypes, UpgradeTypes, UpgradeTold
  <1>10. ASSUME NEW o \in ApplyOps, GetBundleApplyStatus(o) PROVE HostInv'
    <2>1. /\ UNCHANGED <<gens, active, flake, candidate, upg>> /\ UNCHANGED <<work, head>>
          /\ UNCHANGED <<unit, handoff>>
      BY <1>10 DEF GetBundleApplyStatus, repoVars, opVars, DaemonStopped, genVars
    <2>2. TreeTypes'
      BY <2>1, <1>10 DEF TreeTypes, GetBundleApplyStatus
    <2>3. UnitTypes'
      BY <2>1, <1>10 DEF UnitTypes
    <2> QED BY <2>1, <2>2, <2>3 DEF ProfileTypes, UpgradeTypes, UpgradeTold
  <1>11. CASE DaemonStarts
    <2>1. UNCHANGED <<gens, active, flake, candidate, upg>> /\ UNCHANGED <<work, head>>
      BY <1>11 DEF DaemonStarts, repoVars, opVars, DaemonStopped, genVars
    <2>2. TreeTypes'
      BY <2>1, <1>11 DEF TreeTypes, DaemonStarts
    <2>3. UnitTypes'
      BY <2>1, <1>11 DEF UnitTypes, DaemonStarts
    <2> QED BY <2>1, <2>2, <2>3 DEF ProfileTypes, UpgradeTypes, UpgradeTold
  <1>12. CASE DaemonDies
    <2>1. /\ UNCHANGED <<gens, active, flake, candidate, upg>> /\ UNCHANGED <<work, head>>
          /\ UNCHANGED <<unit, handoff>>
      BY <1>12 DEF DaemonDies, repoVars, opVars, DaemonStopped, genVars
    <2>2. TreeTypes'
      BY <2>1, <1>12 DEF TreeTypes, DaemonDies
    <2>3. UnitTypes'
      BY <2>1, <1>12 DEF UnitTypes
    <2> QED BY <2>1, <2>2, <2>3 DEF ProfileTypes, UpgradeTypes, UpgradeTold
  <1>13. CASE TakeHandoff
    <2>1. UNCHANGED <<gens, active, flake, candidate, upg>> /\ UNCHANGED <<work, head>>
      BY <1>13 DEF TakeHandoff, repoVars, opVars, DaemonStopped, genVars
    <2>2. TreeTypes'
      BY <2>1, <1>13 DEF TreeTypes, TakeHandoff
    <2>3. UnitTypes'
      BY <2>1, <1>13 DEF UnitTypes, TakeHandoff, UnitForm, NoUnit
    <2> QED BY <2>1, <2>2, <2>3 DEF ProfileTypes, UpgradeTypes, UpgradeTold
  <1>14. CASE ValidateDirty
    <2>1. UNCHANGED <<gens, active, flake, candidate, upg>> /\ UNCHANGED <<work, head>>
      BY <1>14 DEF ValidateDirty, repoVars, opVars, DaemonStopped, genVars
    <2>2. TreeTypes'
      BY <2>1, <1>14 DEF TreeTypes, ValidateDirty
    <2>3. UnitTypes'
      BY <2>1, <1>14 DEF UnitTypes, ValidateDirty, UnitForm, At, Ends, opVars
    <2> QED BY <2>1, <2>2, <2>3 DEF ProfileTypes, UpgradeTypes, UpgradeTold
  <1>15. CASE ApplyCommit
    <2>1. UNCHANGED <<gens, active, flake, candidate, upg>>
      BY <1>15 DEF ApplyCommit, repoVars, opVars, DaemonStopped, genVars
    <2>2. TreeTypes'
      BY <2>1, <1>15 DEF TreeTypes, ApplyCommit, CommitTree
    <2>3. UnitTypes'
      BY <2>1, <1>15 DEF UnitTypes, ApplyCommit, UnitForm, At, opVars
    <2> QED BY <2>1, <2>2, <2>3 DEF ProfileTypes, UpgradeTypes, UpgradeTold
  <1>16. CASE Pin
    <2>1. UNCHANGED <<gens, active, flake, candidate, upg>> /\ UNCHANGED <<work, head>>
      BY <1>16 DEF Pin, repoVars, opVars, DaemonStopped, genVars
    <2>2. TreeTypes'
      BY <2>1, <1>16 DEF TreeTypes, Pin
    <2>3. UnitTypes'
      BY <2>1, <1>16 DEF UnitTypes, Pin, UnitForm, Ends, opVars, TreeTypes
    <2> QED BY <2>1, <2>2, <2>3 DEF ProfileTypes, UpgradeTypes, UpgradeTold
  <1>17. CASE Build
    <2>1. UNCHANGED <<gens, active, flake, candidate, upg>>
      BY <1>17 DEF Build, repoVars, opVars, DaemonStopped, genVars
    <2>2. TreeTypes'
      BY <2>1, <1>17 DEF TreeTypes, Build, Tree
    <2>3. UnitTypes'
      BY <2>1, <1>17 DEF UnitTypes, Build, UnitForm, At, Ends, opVars
    <2> QED BY <2>1, <2>2, <2>3 DEF ProfileTypes, UpgradeTypes, UpgradeTold
  <1>18. CASE HealthGate
    <2>1. UNCHANGED <<gens, active, flake, candidate, upg>> /\ UNCHANGED <<work, head>>
      BY <1>18 DEF HealthGate, repoVars, opVars, DaemonStopped, genVars
    <2>2. TreeTypes'
      BY <2>1, <1>18 DEF TreeTypes, HealthGate
    <2>3. UnitTypes'
      BY <2>1, <1>18 DEF UnitTypes, HealthGate, UnitForm, At, Ends, opVars
    <2> QED BY <2>1, <2>2, <2>3 DEF ProfileTypes, UpgradeTypes, UpgradeTold
  <1>19. CASE WriteOutcome
    <2>1. UNCHANGED <<gens, active, flake, candidate, upg>> /\ UNCHANGED <<work, head>>
      BY <1>19 DEF WriteOutcome, repoVars, opVars, DaemonStopped, genVars
    <2>2. TreeTypes'
      BY <2>1, <1>19 DEF TreeTypes, WriteOutcome
    <2>3. UnitTypes'
      BY <2>1, <1>19 DEF UnitTypes, WriteOutcome, UnitForm, At
    <2> QED BY <2>1, <2>2, <2>3 DEF ProfileTypes, UpgradeTypes, UpgradeTold
  <1>20. CASE WriteJournal
    <2>1. UNCHANGED <<gens, active, flake, candidate, upg>> /\ UNCHANGED <<work, head>>
      BY <1>20 DEF WriteJournal, repoVars, opVars, DaemonStopped, genVars
    <2>2. TreeTypes'
      BY <2>1, <1>20 DEF TreeTypes, WriteJournal
    <2>3. UnitTypes'
      BY <2>1, <1>20 DEF UnitTypes, WriteJournal, UnitForm, NoUnit
    <2> QED BY <2>1, <2>2, <2>3 DEF ProfileTypes, UpgradeTypes, UpgradeTold
  <1> QED BY <1>1, <1>2, <1>3, <1>4, <1>5, <1>6, <1>7, <1>8, <1>9, <1>10, <1>11, <1>12, <1>13, <1>14,
             <1>15, <1>16, <1>17, <1>18, <1>19, <1>20 DEF ApiEdits, CliEdits, Staging, Polls

\* Every step keeps the invariant.
LEMMA HostInvStep == HostInv /\ [HostNext]_hostVars => HostInv'
PROOF
  <1> SUFFICES ASSUME HostInv, [HostNext]_hostVars PROVE HostInv'
    OBVIOUS
  <1> USE DEF HostInv, HostTypeOK
  <1>1. CASE Switch
    <2>1. ToSwitch \in Generation
      BY <1>1 DEF ToSwitch, Generation, ProfileTypes, UnitTypes, UnitForm
    <2>2. /\ (Activate(ToSwitch) \/ UNCHANGED <<gens, active>>)
          /\ UNCHANGED <<work, head, flake, candidate, handoff>>
      BY <1>1 DEF Switch
    <2>3. ProfileTypes'
      BY <2>1, <2>2, Activated DEF ProfileTypes
    <2>4. UnitTypes'
      <3>1. active \in Nat
        BY DEF ProfileTypes
      <3>2. \/ unit' = [unit EXCEPT !.at = "gate", !.prev = active]
            \/ unit' = [unit EXCEPT !.at = "rollback"]
        BY <1>1 DEF Switch, At
      <3>3. unit' \in UnitForm
        BY <3>1, <3>2 DEF UnitTypes, UnitForm
      <3> QED BY <2>2, <3>3 DEF UnitTypes
    <2>5. UpgradeTypes' /\ UpgradeTold'
      BY <1>1, <2>2 DEF Switch, Disturbs, UpgradeTypes, UpgradeForm, UpgradeTold
    <2> QED BY <2>2, <2>3, <2>4, <2>5 DEF TreeTypes
  <1>2. CASE Rollback
    <2>1. (Back \/ UNCHANGED <<gens, active>>) /\ UNCHANGED <<work, head, flake, candidate, handoff>>
      BY <1>2 DEF Rollback, RollbackFails
    <2>2. ProfileTypes'
      BY <2>1, WentBack DEF ProfileTypes
    <2>3. UnitTypes'
      BY <1>2, <2>1 DEF Rollback, Ends, UnitTypes, UnitForm
    <2>4. UpgradeTypes' /\ UpgradeTold'
      BY <1>2, <2>1 DEF Rollback, Disturbs, UpgradeTypes, UpgradeForm, UpgradeTold
    <2> QED BY <2>1, <2>2, <2>3, <2>4 DEF TreeTypes
  <1>3. CASE HostReboots
    <2>1. UNCHANGED <<work, head, gens, active, flake, candidate>> /\ upg' = [upg EXCEPT !.at = "idle"]
          /\ unit' = NoUnit /\ handoff' = "none"
      BY <1>3 DEF HostReboots, genVars
    <2>2. UnitTypes' /\ TreeTypes' /\ ProfileTypes'
      BY <2>1 DEF UnitTypes, UnitForm, NoUnit, TreeTypes, ProfileTypes
    <2>3. UpgradeTypes' /\ UpgradeTold'
      BY <2>1 DEF UpgradeTypes, UpgradeForm, UpgradeTold
    <2> QED BY <2>2, <2>3
  <1>4. CASE CheckUpdate
    <2>1. UNCHANGED <<work, head, gens, active, flake, unit, handoff, upg>>
      BY <1>4 DEF CheckUpdate, repoVars, opVars
    <2>2. candidate' \in Nat
      <3> DEFINE latest == CHOOSE r \in Releases : \A q \in Releases : q <= r
      <3>1. latest \in Nat
        BY HostAssumption
      <3>2. candidate' = IF latest # gens[active].flake THEN latest ELSE 0
        BY <1>4 DEF CheckUpdate
      <3> HIDE DEF latest
      <3> QED BY <3>1, <3>2
    <2> QED BY <2>1, <2>2 DEF TreeTypes, ProfileTypes, UnitTypes, UpgradeTypes, UpgradeTold
  <1>5. ASSUME NEW ref \in Nat, UpgradeStaged(ref) PROVE HostInv'
    <2>1. UNCHANGED <<work, head, gens, active, flake, candidate, unit, handoff>>
      BY <1>5 DEF UpgradeStaged, repoVars, opVars, genVars
    <2>2. UpgradeTypes' /\ UpgradeTold'
      <3>1. active \in Nat
        BY DEF ProfileTypes
      <3>2. PICK g \in {active, 0} :
               upg' = [at |-> "switch", prev |-> g, result |-> "none", read |-> FALSE, ref |-> ref,
                       left |-> upg.left - 1, alone |-> TRUE]
        BY <1>5 DEF UpgradeStaged
      <3>3. upg.left \in Nat /\ upg.left > 0
        BY <1>5 DEF UpgradeStaged, UpgradeTypes, UpgradeForm
      <3>4. UpgradeTypes'
        BY <2>1, <3>1, <3>2, <3>3 DEF UpgradeTypes, UpgradeForm, UpgradeResult
      <3> QED BY <3>2, <3>4 DEF UpgradeTold
    <2> QED BY <2>1, <2>2 DEF TreeTypes, ProfileTypes, UnitTypes
  <1>6. CASE UpgradeSwitch
    <2> DEFINE g == [flake |-> upg.ref, tree |-> head]
    <2>1. g \in Generation /\ g.flake = upg.ref
      BY DEF Generation, UpgradeTypes, UpgradeForm, TreeTypes
    <2>2. UNCHANGED <<work, head, flake, candidate, unit, handoff>> /\ upg.at = "switch"
          /\ \/ Activate(g) /\ \E a \in {"gate", "failed"} : upg' = [upg EXCEPT !.at = a]
             \/ UNCHANGED <<gens, active>> /\ upg' = [upg EXCEPT !.at = "failed"]
      BY <1>6 DEF UpgradeSwitch, UpgradeAt
    <2> HIDE DEF g
    <2>3. CASE Activate(g) /\ \E a \in {"gate", "failed"} : upg' = [upg EXCEPT !.at = a]
      <3>1. gens' \in Seq(Generation) /\ active' \in 1..Len(gens') /\ gens'[active'] = g
        BY <2>1, <2>3, Activated
      <3>2. UpgradeTypes' /\ UpgradeTold'
        BY <2>1, <2>2, <2>3, <3>1 DEF UpgradeTypes, UpgradeForm, UpgradeTold
      <3> QED BY <2>2, <3>1, <3>2 DEF TreeTypes, ProfileTypes, UnitTypes
    <2>4. CASE UNCHANGED <<gens, active>> /\ upg' = [upg EXCEPT !.at = "failed"]
      BY <2>2, <2>4 DEF TreeTypes, ProfileTypes, UnitTypes, UpgradeTypes, UpgradeForm, UpgradeTold
    <2> QED BY <2>2, <2>3, <2>4
  <1>7. CASE UpgradeFailed
    <2>1. UNCHANGED <<work, head, gens, active, flake, candidate, unit, handoff>> /\ upg.at = "failed"
          /\ \/ active = upg.prev /\ upg' = [upg EXCEPT !.at = "unchanged"]
             \/ upg' = [upg EXCEPT !.at = "revert"]
      BY <1>7 DEF UpgradeFailed, UpgradeAt, repoVars, opVars, genVars
    <2>2. UpgradeTypes' /\ UpgradeTold'
      BY <2>1 DEF UpgradeTypes, UpgradeForm, UpgradeTold
    <2> QED BY <2>1, <2>2 DEF TreeTypes, ProfileTypes, UnitTypes
  <1>8. CASE UpgradeGate
    <2>1. UNCHANGED <<work, head, gens, active, flake, candidate, unit, handoff>> /\ upg.at = "gate"
          /\ \E a \in {"promote", "back"} : upg' = [upg EXCEPT !.at = a]
      BY <1>8 DEF UpgradeGate, UpgradeAt, repoVars, opVars, genVars
    <2>2. UpgradeTypes' /\ UpgradeTold'
      BY <2>1 DEF UpgradeTypes, UpgradeForm, UpgradeTold
    <2> QED BY <2>1, <2>2 DEF TreeTypes, ProfileTypes, UnitTypes
  <1>9. CASE UpgradePromote
    <2>1. UNCHANGED <<work, head, gens, active, unit, handoff>> /\ upg.at = "promote"
          /\ \/ /\ flake' = upg.ref /\ upg' = [upg EXCEPT !.at = "idle", !.result = "healthy", !.read = FALSE]
                /\ candidate' \in {0, candidate}
             \/ UNCHANGED <<flake, candidate>> /\ upg' = [upg EXCEPT !.at = "back"]
      BY <1>9 DEF UpgradePromote, UpgradeAt, UpgradeEnds, repoVars, opVars
    <2>2. CASE flake' = upg.ref /\ upg' = [upg EXCEPT !.at = "idle", !.result = "healthy", !.read = FALSE]
      <3>0. candidate' \in Nat /\ flake' \in Nat
        BY <2>1, <2>2 DEF UpgradeTypes, UpgradeForm
      <3>1. UpgradeTypes'
        BY <3>0, <2>2 DEF UpgradeTypes, UpgradeForm, UpgradeResult
      <3>2. UpgradeTold'
        BY <2>1, <2>2 DEF UpgradeTypes, UpgradeForm, UpgradeTold
      <3> QED BY <2>1, <3>0, <3>1, <3>2 DEF TreeTypes, ProfileTypes, UnitTypes
    <2>3. CASE UNCHANGED <<flake, candidate>> /\ upg' = [upg EXCEPT !.at = "back"]
      BY <2>1, <2>3 DEF UpgradeTypes, UpgradeForm, UpgradeTold, TreeTypes, ProfileTypes, UnitTypes
    <2> QED BY <2>1, <2>2, <2>3
  <1>10. CASE UpgradeBack
    <2>1. UNCHANGED <<work, head, flake, candidate, unit, handoff>> /\ upg.at = "back"
          /\ (Back \/ UNCHANGED <<gens, active>>)
          /\ upg' = [upg EXCEPT !.at = "idle", !.result = "rolled_back", !.read = FALSE]
      BY <1>10 DEF UpgradeBack, UpgradeEnds, RollbackFails
    <2>2. ProfileTypes'
      BY <2>1, WentBack DEF ProfileTypes
    <2>3. UpgradeTypes' /\ UpgradeTold'
      BY <2>1 DEF UpgradeTypes, UpgradeForm, UpgradeResult, UpgradeTold
    <2> QED BY <2>1, <2>2, <2>3 DEF TreeTypes, UnitTypes
  <1>11. CASE UNCHANGED hostVars
    BY <1>11 DEF hostVars, TreeTypes, ProfileTypes, UnitTypes, UpgradeTypes, UpgradeTold
  <1>12. ASSUME UpgradeBegins \/ UpgradeRefBegins PROVE HostInv'
    BY <1>5, <1>12, HostAssumption DEF UpgradeBegins, UpgradeRefBegins, UpgradeTypes
  <1>13. CASE UpgradeReverts
    <2>1. UNCHANGED <<work, head, flake, candidate, unit, handoff>> /\ upg.at = "revert"
          /\ \/ /\ Back /\ upg.prev # 0 /\ active' # upg.prev
                /\ upg' = [upg EXCEPT !.at = "idle", !.result = "rollback_mismatch", !.read = TRUE]
             \/ /\ Back /\ ~(upg.prev # 0 /\ active' # upg.prev)
                /\ upg' = [upg EXCEPT !.at = "reverted", !.read = upg.prev # 0]
             \/ Back /\ upg' = [upg EXCEPT !.at = "reverted"]
             \/ /\ Back \/ UNCHANGED <<gens, active>>
                /\ upg' = [upg EXCEPT !.at = "idle", !.result = "rollback_failed", !.read = FALSE]
      BY <1>13 DEF UpgradeReverts, UpgradeAt, UpgradeEnds, RollbackFails
    <2>2. ProfileTypes'
      BY <2>1, WentBack DEF ProfileTypes
    <2>3. UpgradeTypes'
      BY <2>1 DEF UpgradeTypes, UpgradeForm, UpgradeResult
    <2>4. UpgradeTold'
      BY <2>1 DEF UpgradeTypes, UpgradeForm, UpgradeTold
    <2> QED BY <2>1, <2>2, <2>3, <2>4 DEF TreeTypes, UnitTypes
  <1>14. CASE UpgradePanel
    <2>1. UNCHANGED <<work, head, gens, active, flake, candidate, unit, handoff>>
          /\ \/ /\ upg.at = "unchanged"
                /\ \E r \in {"switch_failed", "switch_failed_unhealthy"} :
                      upg' = [upg EXCEPT !.at = "idle", !.result = r, !.read = upg.read]
             \/ /\ upg.at = "reverted"
                /\ \E r \in {"rolled_back", "rolled_back_unhealthy"} :
                      upg' = [upg EXCEPT !.at = "idle", !.result = r, !.read = upg.read]
      BY <1>14 DEF UpgradePanel, UpgradeEnds, repoVars, opVars, genVars
    <2>2. UpgradeTypes'
      BY <2>1 DEF UpgradeTypes, UpgradeForm, UpgradeResult
    <2>3. UpgradeTold'
      BY <2>1 DEF UpgradeTypes, UpgradeForm, UpgradeTold
    <2> QED BY <2>1, <2>2, <2>3 DEF TreeTypes, ProfileTypes, UnitTypes
  <1> QED BY <1>1, <1>2, <1>3, <1>4, <1>6, <1>7, <1>8, <1>9, <1>10, <1>11, <1>12, <1>13, <1>14,
             CalmKeepsHost
       DEF HostNext, ApplyUnit, Upgrade

\* HostGenerations.UpgradeReportsTruth (runSystemUpgrade and
\* rollbackToPriorGeneration, cmd/omahab/system.go): what an upgrade reports is what
\* the host runs, unless an apply changed the profile since it began.
THEOREM UpgradeReportsTruthHolds == HostSpec => []UpgradeReportsTruth
PROOF
  <1>1. HostInv => UpgradeReportsTruth
    BY DEF HostInv, UpgradeTold, UpgradeReportsTruth
  <1> QED BY HostInvInit, HostInvStep, <1>1, PTL DEF HostSpec

-----------------------------------------------------------------------------
(* The restore of a whole machine: the inductive invariant.                 *)

SwapPath == Range1(SwapFiles)
Early == {"none", "listing", "staging", "staged", "swapping", "rolling_back"}
Late == {"swapped", "apps_paused", "unit-started", "bundles_written", "files_promoted",
         "databases_restored", "apps_resumed", "completed"}
JournalForm == [stage : Early \cup Late, status : {"none", "running", "pending", "failed", "completed"},
                resume : BOOLEAN, apply : Nat]
ExecForm == [at : {"off", "extract", "handoff", "load", "undo", "plan", "index", "swap", "rollback", "pause",
                   "daemon", "identity", "dispatch", "note", "start", "wait", "files", "databases",
                   "resume", "attach", "complete"},
             by : {"none", "unit", "cli"}, i : Nat, todo : SUBSET Carried, hadDaemon : BOOLEAN,
             fresh : BOOLEAN]
Payload == {"old", "part", "new"}

\* Where the executor is follows from the stage of the journal, and the work that is
\* left from what was selected.
Placed(a, s) ==
    /\ a = "extract" => s = "listing"
    /\ a \in {"handoff", "load"} => s \notin {"none", "listing", "staging", "completed"}
    /\ a \in {"undo", "plan", "index", "swap", "rollback"} => s \in {"staged", "swapping", "rolling_back"}
    /\ a = "pause" => s = "swapped" /\ Paused # {}
    /\ a = "daemon" => s = "apps_paused"
    /\ a \in {"identity", "dispatch", "note", "start", "wait"} => s = "unit-started"
    /\ a = "files" => s = "bundles_written"
    /\ a = "databases" => s = "files_promoted"
    /\ a = "resume" => \/ s = "databases_restored"
                       \/ s = "files_promoted" /\ AppScopes \cap Databases = {}
                       \/ s = "bundles_written" /\ AppScopes = {}
    /\ a \in {"attach", "complete"} => s = "apps_resumed" \/ (s = "swapped" /\ Paused = {})

JournalInv ==
    /\ jour \in JournalForm /\ rec \in ExecForm /\ selected \in Selections
    /\ Placed(rec.at, jour.stage)
    /\ jour.resume => jour.stage \notin {"none", "listing", "staging"}
    /\ jour.stage \in Late \ {"swapped", "completed"} => Paused # {}
    /\ jour.stage = "completed" => rec.at = "off"

\* A path as the machine had it.
Original(f) == IF f \in Originals THEN "old" ELSE "none"
InPlace(f) == live[f] = Original(f) /\ ~keep[f]

\* What a swap has done up to a path, and what going back has undone down to one.
SwapInv ==
    /\ live \in [SwapPath -> {"none", "old", "part", "new"}] /\ keep \in [SwapPath -> BOOLEAN]
    /\ \A f \in SwapPath : live[f] = "old" \/ keep[f] => f \in Originals
    /\ jour.stage \in Early =>
         \A f \in SwapPath : /\ f \in Originals => live[f] = "old" \/ keep[f]
                             /\ index # "written" => InPlace(f)
    /\ rec.at \in {"undo", "rollback"} =>
         rec.i <= Len(SwapFiles) /\ \A j \in (rec.i + 1)..Len(SwapFiles) : InPlace(SwapFiles[j])
    /\ rec.at = "swap" =>
         /\ index = "written" /\ rec.i > 0
         /\ \A j \in 1..Len(SwapFiles) : j < rec.i => live[SwapFiles[j]] = "new"
    /\ rec.at = "index" /\ rec.i # 0 => index # "written"
    /\ jour.stage \in Late => \A f \in SwapPath : live[f] = "new"

\* The payloads by the stage the journal has reached, and the gates.
DataTypes ==
    /\ data \in [Carried -> [{"files"} -> Payload] \cup [{"files", "db"} -> Payload]]
    /\ \A b \in Carried : data[b] \in [Parts(b) -> Payload]
    /\ \A b \in Carried \ Paused : \A p \in Parts(b) : data[b][p] = "old"
IdentityRestored == \A b \in IdentityScope : data[b]["files"] = "new"
FilesRestored == \A b \in AppScopes : data[b]["files"] = "new"
DatabasesRestored == \A b \in AppScopes \cap Databases : data[b]["db"] = "new"
GatesOpen == Paused \cap (marker \cup pauseRow) = {} /\ Paused \subseteq running

\* What the executor has ticked off is done.
TickedOff ==
    /\ rec.at \in {"handoff", "load"} => rec.todo = {}
    /\ rec.at = "identity" => rec.todo = {} \/ (rec.todo = IdentityScope /\ IdentityRestored)
    /\ rec.at \in {"dispatch", "note", "start", "wait"} => IdentityRestored
    /\ rec.at = "files" => rec.todo \subseteq AppScopes /\ \A b \in rec.todo : data[b]["files"] = "new"
    /\ rec.at = "databases" =>
         rec.todo \subseteq AppScopes \cap Databases /\ \A b \in rec.todo : data[b]["db"] = "new"
    /\ rec.at = "complete" => sourceRows = 1
\* What the journal has passed is done.
PassedBy(s) ==
    /\ s \in {"bundles_written", "files_promoted", "databases_restored", "apps_resumed", "completed"}
       => IdentityRestored
    /\ s \in {"files_promoted", "databases_restored", "apps_resumed", "completed"} => FilesRestored
    /\ s \in {"databases_restored", "apps_resumed", "completed"} => DatabasesRestored
    /\ s \in {"apps_resumed", "completed"} => GatesOpen
    /\ s = "completed" => sourceRows = 1
DataInv == DataTypes /\ TickedOff /\ PassedBy(jour.stage) /\ sourceRows \in {0, 1}

\* The stages in the order of the restore.
LEMMA StagesInOrder ==
    /\ \A s \in Early : stageIndex(s) = 0
    /\ stageIndex("swapped") = 1 /\ stageIndex("apps_paused") = 2 /\ stageIndex("unit-started") = 3
    /\ stageIndex("bundles_written") = 4 /\ stageIndex("files_promoted") = 5
    /\ stageIndex("databases_restored") = 6 /\ stageIndex("apps_resumed") = 7
    /\ stageIndex("completed") = 9
PROOF
  <1>1. DOMAIN offlineRestoreOrder = 1..9
    BY DEF offlineRestoreOrder
  <1>2. \A i, j \in 1..9 : offlineRestoreOrder[i] = offlineRestoreOrder[j] => i = j
    BY DEF offlineRestoreOrder
  <1>3. ASSUME NEW i \in 1..9 PROVE stageIndex(offlineRestoreOrder[i]) = i
    BY <1>1, <1>2 DEF stageIndex
  <1>4. ASSUME NEW s \in Early PROVE ~\E i \in 1..9 : offlineRestoreOrder[i] = s
    BY DEF offlineRestoreOrder, Early
  <1>5. \A s \in Early : stageIndex(s) = 0
    BY <1>1, <1>4 DEF stageIndex
  <1>6. /\ offlineRestoreOrder[1] = "swapped" /\ offlineRestoreOrder[2] = "apps_paused"
        /\ offlineRestoreOrder[3] = "unit-started" /\ offlineRestoreOrder[4] = "bundles_written"
        /\ offlineRestoreOrder[5] = "files_promoted" /\ offlineRestoreOrder[6] = "databases_restored"
        /\ offlineRestoreOrder[7] = "apps_resumed" /\ offlineRestoreOrder[9] = "completed"
    BY DEF offlineRestoreOrder
  <1> HIDE DEF offlineRestoreOrder
  <1> QED BY <1>3, <1>5, <1>6

\* What is before the swap.
LEMMA BeforeSwapped == jour.stage \in Early \cup Late => (Before("swapped") <=> jour.stage \in Early)
PROOF
  <1>1. \A s \in Late : stageIndex(s) \in Nat /\ stageIndex(s) >= 1
    BY StagesInOrder DEF Late
  <1>2. stageIndex("swapped") = 1 /\ \A s \in Early : stageIndex(s) = 0
    BY StagesInOrder
  <1>3. Late \cap Early = {}
    BY DEF Late, Early
  <1>4. Before("swapped") <=> stageIndex(jour.stage) < 1
    BY <1>2 DEF Before
  <1> QED BY <1>1, <1>2, <1>3, <1>4

\* The work after a stage is in its place.
LEMMA NextPlaced ==
    ASSUME NEW s \in Late \ {"completed"}, s # "swapped" => Paused # {}
    PROVE  /\ NextWork(s) \in {"pause", "daemon", "identity", "files", "databases", "resume", "attach"}
           /\ Placed(NextWork(s), s)
PROOF
  <1>1. AppScopes \subseteq Paused
    BY DEF Paused
  <1>2. CASE s = "swapped"
    <2>1. /\ stageIndex(s) < stageIndex("apps_paused")
          /\ stageIndex(s) < stageIndex("unit-started")
          /\ stageIndex(s) < stageIndex("bundles_written")
          /\ stageIndex(s) < stageIndex("files_promoted")
          /\ stageIndex(s) < stageIndex("databases_restored")
          /\ stageIndex(s) < stageIndex("apps_resumed")
      BY <1>2, StagesInOrder
    <2>2. NextWork(s) = IF Paused # {} THEN "pause" ELSE "attach"
      BY <1>1, <1>2, <2>1 DEF NextWork
    <2> QED BY <2>2, <1>2 DEF Placed
  <1>3. CASE s = "apps_paused"
    <2>1. /\ ~(stageIndex(s) < stageIndex("apps_paused"))
          /\ stageIndex(s) < stageIndex("unit-started")
          /\ stageIndex(s) < stageIndex("bundles_written")
          /\ stageIndex(s) < stageIndex("files_promoted")
          /\ stageIndex(s) < stageIndex("databases_restored")
          /\ stageIndex(s) < stageIndex("apps_resumed")
      BY <1>3, StagesInOrder
    <2>2. NextWork(s) = "daemon"
      BY <1>1, <1>3, <2>1 DEF NextWork
    <2> QED BY <2>2, <1>3 DEF Placed
  <1>4. CASE s = "unit-started"
    <2>1. /\ ~(stageIndex(s) < stageIndex("apps_paused"))
          /\ ~(stageIndex(s) < stageIndex("unit-started"))
          /\ stageIndex(s) < stageIndex("bundles_written")
          /\ stageIndex(s) < stageIndex("files_promoted")
          /\ stageIndex(s) < stageIndex("databases_restored")
          /\ stageIndex(s) < stageIndex("apps_resumed")
      BY <1>4, StagesInOrder
    <2>2. NextWork(s) = "identity"
      BY <1>1, <1>4, <2>1 DEF NextWork
    <2> QED BY <2>2, <1>4 DEF Placed
  <1>5. CASE s = "bundles_written"
    <2>1. /\ ~(stageIndex(s) < stageIndex("apps_paused"))
          /\ ~(stageIndex(s) < stageIndex("unit-started"))
          /\ ~(stageIndex(s) < stageIndex("bundles_written"))
          /\ stageIndex(s) < stageIndex("files_promoted")
          /\ stageIndex(s) < stageIndex("databases_restored")
          /\ stageIndex(s) < stageIndex("apps_resumed")
      BY <1>5, StagesInOrder
    <2>2. NextWork(s) = IF AppScopes # {} THEN "files" ELSE "resume"
      BY <1>1, <1>5, <2>1 DEF NextWork
    <2> QED BY <2>2, <1>5 DEF Placed
  <1>6. CASE s = "files_promoted"
    <2>1. /\ ~(stageIndex(s) < stageIndex("apps_paused"))
          /\ ~(stageIndex(s) < stageIndex("unit-started"))
          /\ ~(stageIndex(s) < stageIndex("bundles_written"))
          /\ ~(stageIndex(s) < stageIndex("files_promoted"))
          /\ stageIndex(s) < stageIndex("databases_restored")
          /\ stageIndex(s) < stageIndex("apps_resumed")
      BY <1>6, StagesInOrder
    <2>2. NextWork(s) = IF AppScopes \cap Databases # {} THEN "databases" ELSE "resume"
      BY <1>1, <1>6, <2>1 DEF NextWork
    <2> QED BY <2>2, <1>6 DEF Placed
  <1>7. CASE s = "databases_restored"
    <2>1. /\ ~(stageIndex(s) < stageIndex("apps_paused"))
          /\ ~(stageIndex(s) < stageIndex("unit-started"))
          /\ ~(stageIndex(s) < stageIndex("bundles_written"))
          /\ ~(stageIndex(s) < stageIndex("files_promoted"))
          /\ ~(stageIndex(s) < stageIndex("databases_restored"))
          /\ stageIndex(s) < stageIndex("apps_resumed")
      BY <1>7, StagesInOrder
    <2>2. NextWork(s) = "resume"
      BY <1>1, <1>7, <2>1 DEF NextWork
    <2> QED BY <2>2, <1>7 DEF Placed
  <1>8. CASE s = "apps_resumed"
    <2>1. /\ ~(stageIndex(s) < stageIndex("apps_paused"))
          /\ ~(stageIndex(s) < stageIndex("unit-started"))
          /\ ~(stageIndex(s) < stageIndex("bundles_written"))
          /\ ~(stageIndex(s) < stageIndex("files_promoted"))
          /\ ~(stageIndex(s) < stageIndex("databases_restored"))
          /\ ~(stageIndex(s) < stageIndex("apps_resumed"))
      BY <1>8, StagesInOrder
    <2>2. NextWork(s) = "attach"
      BY <1>1, <1>8, <2>1 DEF NextWork
    <2> QED BY <2>2, <1>8 DEF Placed
  <1> QED BY <1>2, <1>3, <1>4, <1>5, <1>6, <1>7, <1>8 DEF Late

\* A stage that is reached.
LEMMA Reached ==
    ASSUME jour \in JournalForm, rec \in ExecForm,
           NEW s \in Late \ {"completed"}, s # "swapped" => Paused # {}, Reach(s)
    PROVE  /\ jour' \in JournalForm /\ jour'.stage = s /\ jour'.resume = jour.resume
           /\ rec' \in ExecForm /\ rec'.at = NextWork(s) /\ rec'.todo = {}
           /\ rec'.at \in {"pause", "daemon", "identity", "files", "databases", "resume", "attach"}
           /\ Placed(rec'.at, jour'.stage)
PROOF
  <1>1. jour' \in JournalForm /\ jour'.stage = s /\ jour'.resume = jour.resume
    BY DEF Reach, Persist, JournalForm
  <1>2. rec' = [rec EXCEPT !.at = NextWork(s), !.todo = {}]
    BY DEF Reach
  <1>3. NextWork(s) \in {"pause", "daemon", "identity", "files", "databases", "resume", "attach"}
    BY NextPlaced
  <1>4. rec' \in ExecForm /\ rec'.at = NextWork(s) /\ rec'.todo = {}
    BY <1>2, <1>3 DEF ExecForm
  <1> QED BY <1>1, <1>3, <1>4, NextPlaced

\* An executor that ends is off.
LEMMA Ended == NoExec \in ExecForm /\ NoExec.at = "off"
PROOF BY DEF NoExec, ExecForm

\* One that begins is where it was sent.
LEMMA Begun ==
    ASSUME NEW a \in {"extract", "handoff", "load"}, NEW w \in {"unit", "cli"}, NEW h \in BOOLEAN
    PROVE  /\ [NoExec EXCEPT !.at = a, !.by = w] \in ExecForm
           /\ [NoExec EXCEPT !.at = a, !.by = w].at = a
           /\ [NoExec EXCEPT !.at = a, !.by = w, !.hadDaemon = h] \in ExecForm
           /\ [NoExec EXCEPT !.at = a, !.by = w, !.hadDaemon = h].at = a
PROOF
  <1>1. [NoExec EXCEPT !.at = a, !.by = w] \in ExecForm /\ [NoExec EXCEPT !.at = a, !.by = w].at = a
    BY Ended DEF ExecForm
  <1>2. /\ [NoExec EXCEPT !.at = a, !.by = w, !.hadDaemon = h] \in ExecForm
        /\ [NoExec EXCEPT !.at = a, !.by = w, !.hadDaemon = h].at = a
    BY Ended DEF ExecForm
  <1> QED BY <1>1, <1>2

\* A failure keeps the stage.
LEMMA FailureKeepsStage ==
    ASSUME jour \in JournalForm, offlineFailRestore
    PROVE  jour' \in JournalForm /\ jour'.stage = jour.stage /\ jour'.resume = jour.resume /\ rec' = NoExec
PROOF BY DEF JournalForm, offlineFailRestore, EndExec

\* No restore has begun.
LEMMA JournalInvInit == RecInit => JournalInv
PROOF
  <1> SUFFICES ASSUME RecInit PROVE JournalInv
    OBVIOUS
  <1>1. jour \in JournalForm /\ jour.stage = "none" /\ ~jour.resume
    BY DEF RecInit, NoJournal, JournalForm, Early
  <1>2. rec \in ExecForm /\ rec.at = "off" /\ selected \in Selections
    BY Ended DEF RecInit
  <1> QED BY <1>1, <1>2 DEF JournalInv, Placed, Late

\* What is restored is decided once.
LEMMA SelectedStays ==
    ASSUME [RecNext]_recVars
    PROVE  /\ UNCHANGED selected /\ Paused' = Paused /\ AppScopes' = AppScopes
           /\ IdentityScope' = IdentityScope
PROOF
  <1>1. UNCHANGED selected
    BY DEF RecNext, ExecutorStep, OperatorStep, recVars, sideVars, offlineStageAndValidate,
           readPhraseHandoffCLI, RunOfflineRecoveryRestore, RollbackServerConfigSwap,
           PlanServerConfigSwap, WriteRollbackIndex, swapOneFile, Swapped, offlinePauseAppWriters,
           StartDaemon, offlinePromoteIdentity, DispatchApply, JournalApply,
           startStagedBundleApply, offlineWaitBundleApply, offlinePromoteFiles,
           offlineRestoreDatabases, offlineResumeAppWriters, offlineAttachSourceRepository,
           Completed, PrepareRecoveryRestore, StageOfflineRecoverySnapshot,
           TriggerRecoveryRestoreUnit, RecoveryApplyCmd, ApplyEnds, IndexFails, SwapFails, StepFails,
           ExecutorKilled, PowerCut
  <1> QED BY <1>1 DEF Paused, AppScopes, IdentityScope

\* Every step keeps the executor in its place.
LEMMA JournalInvStep == JournalInv /\ [RecNext]_recVars => JournalInv'
PROOF
  <1> SUFFICES ASSUME JournalInv, [RecNext]_recVars PROVE JournalInv'
    OBVIOUS
  <1>1. UNCHANGED selected /\ Paused' = Paused /\ AppScopes' = AppScopes /\ IdentityScope' = IdentityScope
    BY SelectedStays
  <1>2. jour \in JournalForm /\ rec \in ExecForm /\ Placed(rec.at, jour.stage)
    BY DEF JournalInv
  <1>3. ASSUME NEW s \in Late \ {"completed"}, s # "swapped" => Paused # {}, Reach(s), jour.stage # "none",
               rec.at \notin {"off", "extract", "handoff", "load"}
        PROVE  JournalInv'
    <2>1. jour.resume => s \notin {"none", "listing", "staging"}
      BY DEF Late
    <2> QED BY <1>1, <1>2, <1>3, <2>1, Reached DEF JournalInv, Placed
  <1>4. ASSUME offlineFailRestore, jour.stage # "completed" PROVE JournalInv'
    BY <1>1, <1>2, <1>4, FailureKeepsStage, Ended DEF JournalInv, Placed
  <1>5. ASSUME rec' = NoExec, UNCHANGED jour PROVE JournalInv'
    BY <1>1, <1>2, <1>5, Ended DEF JournalInv, Placed
  <1>6. ASSUME NEW a \in ExecForm, rec' = a, UNCHANGED jour, Placed(a.at, jour.stage), jour.stage # "completed"
        PROVE  JournalInv'
    BY <1>1, <1>2, <1>6 DEF JournalInv, Placed
  <1>7. ASSUME NEW j \in JournalForm, NEW a \in ExecForm, jour' = j, rec' = a, Placed(a.at, j.stage),
               j.resume => j.stage \notin {"none", "listing", "staging"},
               j.stage \in Late \ {"swapped", "completed"} => Paused # {},
               j.stage = "completed" => a.at = "off"
        PROVE  JournalInv'
    BY <1>1, <1>7 DEF JournalInv, Placed
  <1>8. CASE offlineStageAndValidate
    <2>1. jour' \in JournalForm /\ jour'.stage \in {"staged", "staging"} /\ ~jour'.resume
      BY <1>2, <1>8 DEF offlineStageAndValidate, JournalForm, JournalInv, Placed, Early
    <2>2. rec' = NoExec
      BY <1>2, Ended, <1>8 DEF offlineStageAndValidate, EndExec
    <2>3. rec' \in ExecForm /\ Placed(rec'.at, jour'.stage) /\ (jour'.stage = "completed" => rec'.at = "off")
      BY <1>2, <2>1, <2>2, Ended DEF Placed
    <2>4. /\ jour'.resume => jour'.stage \notin {"none", "listing", "staging"}
          /\ jour'.stage \in Late \ {"swapped", "completed"} => Paused # {}
      BY <2>1 DEF JournalInv, Late
    <2> QED BY <1>2, <1>7, <2>1, <2>3, <2>4
  <1>9. CASE readPhraseHandoffCLI
    <2>1. UNCHANGED jour /\ (rec' = NoExec \/ (rec' \in ExecForm /\ rec'.at = "load"))
      BY <1>2, <1>9 DEF readPhraseHandoffCLI, ExecForm
    <2>2. Placed("load", jour.stage) /\ jour.stage # "completed"
      BY <1>2, <1>9 DEF readPhraseHandoffCLI, Placed
    <2> QED BY <1>5, <1>6, <2>1, <2>2
  <1>10. CASE RunOfflineRecoveryRestore
    <2>1. rec.at = "load" /\ jour.stage \notin {"none", "listing", "staging", "completed"}
      BY <1>2, <1>10 DEF RunOfflineRecoveryRestore, Placed
    <2>2. jour' \in JournalForm /\ jour'.stage = jour.stage
      BY <1>2, <1>10 DEF RunOfflineRecoveryRestore, JournalForm
    <2>3. jour.stage \in Early <=> Before("swapped")
      BY <1>2, BeforeSwapped DEF JournalForm
    <2>4. CASE jour.stage \in Early
      <3>1. SwapEntry \in {"undo", "plan"}
        BY DEF SwapEntry
      <3>4. PICK k \in {0, Len(SwapFiles)} : rec' = [rec EXCEPT !.at = SwapEntry, !.i = k]
        BY <1>10, <2>3, <2>4 DEF RunOfflineRecoveryRestore
      <3>5. k \in Nat
        BY RecoveryAssumption
      <3>2. rec' \in ExecForm /\ rec'.at \in {"undo", "plan"}
        BY <1>2, <3>1, <3>4, <3>5 DEF ExecForm
      <3>3. jour.stage \in {"staged", "swapping", "rolling_back"}
        BY <2>1, <2>4 DEF Early
      <3> QED BY <1>1, <2>1, <2>2, <3>2, <3>3 DEF JournalInv, Placed
    <2>5. CASE jour.stage \notin Early
      <3>1. jour.stage \in Late \ {"completed"} /\ (jour.stage # "swapped" => Paused # {})
        BY <1>2, <2>1, <2>5 DEF JournalForm, JournalInv
      <3>2. /\ NextWork(jour.stage) \in {"pause", "daemon", "identity", "files", "databases", "resume", "attach"}
            /\ Placed(NextWork(jour.stage), jour.stage)
        BY <3>1, NextPlaced
      <3>3. rec' = [rec EXCEPT !.at = NextWork(jour.stage), !.i = 0]
        BY <1>10, <2>3, <2>5 DEF RunOfflineRecoveryRestore
      <3>4. rec' \in ExecForm /\ rec'.at = NextWork(jour.stage)
        BY <1>2, <3>2, <3>3 DEF ExecForm
      <3> QED BY <1>1, <2>1, <2>2, <3>1, <3>2, <3>4 DEF JournalInv, Placed
    <2> QED BY <2>4, <2>5
  <1>11. CASE RollbackServerConfigSwap
    <2>1. \/ offlineFailRestore
          \/ UNCHANGED jour /\ rec' = [rec EXCEPT !.at = "plan", !.i = 0]
          \/ UNCHANGED jour /\ rec' = rec
          \/ UNCHANGED jour /\ rec' = [rec EXCEPT !.i = @ - 1] /\ rec.i # 0
      BY <1>11 DEF RollbackServerConfigSwap
    <2>2. jour.stage \in {"staged", "swapping", "rolling_back"} /\ rec.at \in {"undo", "rollback"}
      BY <1>2, <1>11 DEF RollbackServerConfigSwap, Placed
    <2>3. /\ [rec EXCEPT !.at = "plan", !.i = 0] \in ExecForm
          /\ (rec.i # 0 => [rec EXCEPT !.i = @ - 1] \in ExecForm)
      <3>1. rec.i \in Nat /\ (rec.i # 0 => rec.i - 1 \in Nat)
        BY <1>2 DEF ExecForm
      <3>2. \A k \in Nat : [rec EXCEPT !.i = k] \in ExecForm
        BY <1>2 DEF ExecForm
      <3>3. [rec EXCEPT !.at = "plan", !.i = 0] \in ExecForm
        BY <1>2 DEF ExecForm
      <3> QED BY <3>1, <3>2, <3>3
    <2>4. \A r \in ExecForm : r.at \in {"plan", "undo", "rollback"} => Placed(r.at, jour.stage)
      BY <2>2 DEF Placed
    <2>5. /\ [rec EXCEPT !.at = "plan", !.i = 0].at = "plan"
          /\ [rec EXCEPT !.i = @ - 1].at = rec.at
      BY <1>2 DEF ExecForm
    <2> QED BY <1>2, <1>4, <1>6, <2>1, <2>2, <2>3, <2>4, <2>5
  <1>12. CASE PlanServerConfigSwap
    <2>1. jour' \in JournalForm /\ jour'.stage = "swapping"
      BY <1>2, <1>12 DEF PlanServerConfigSwap, JournalForm, Persist, Early
    <2>2. rec' \in ExecForm /\ rec'.at = "index"
      <3>1. rec' = [rec EXCEPT !.at = "index", !.i = 0]
        BY <1>12 DEF PlanServerConfigSwap
      <3>3. /\ [rec EXCEPT !.at = "index", !.i = 0] \in ExecForm
            /\ [rec EXCEPT !.at = "index", !.i = 0].at = "index"
        BY <1>2 DEF ExecForm
      <3> QED BY <3>1, <3>3
    <2>3. rec' \in ExecForm /\ Placed(rec'.at, jour'.stage) /\ (jour'.stage = "completed" => rec'.at = "off")
      BY <1>2, <2>1, <2>2, Ended DEF Placed
    <2>4. /\ jour'.resume => jour'.stage \notin {"none", "listing", "staging"}
          /\ jour'.stage \in Late \ {"swapped", "completed"} => Paused # {}
      BY <2>1 DEF JournalInv, Late
    <2> QED BY <1>2, <1>7, <2>1, <2>3, <2>4
  <1>13. CASE WriteRollbackIndex
    <2>1. /\ UNCHANGED jour /\ rec.at = "index"
          /\ \/ rec' = [rec EXCEPT !.at = "undo", !.i = Len(SwapFiles)]
             \/ \E k \in {1, 2} : rec' = [rec EXCEPT !.i = k]
             \/ rec' = [rec EXCEPT !.at = "swap", !.i = 1]
      BY <1>13 DEF WriteRollbackIndex
    <2>2. Len(SwapFiles) \in Nat
      BY RecoveryAssumption DEF JournalInv, IdentityScope
    <2>3. /\ [rec EXCEPT !.at = "undo", !.i = Len(SwapFiles)] \in ExecForm
          /\ [rec EXCEPT !.at = "undo", !.i = Len(SwapFiles)].at = "undo"
      BY <1>2, <2>2 DEF ExecForm
    <2>4. \A k \in {1, 2} : [rec EXCEPT !.i = k] \in ExecForm /\ [rec EXCEPT !.i = k].at = rec.at
      BY <1>2, <2>2 DEF ExecForm
    <2>5. [rec EXCEPT !.at = "swap", !.i = 1] \in ExecForm /\ [rec EXCEPT !.at = "swap", !.i = 1].at = "swap"
      BY <1>2, <2>2 DEF ExecForm
    <2>6. rec' \in ExecForm /\ rec'.at \in {"undo", "index", "swap"}
      BY <1>2, <2>1, <2>3, <2>4, <2>5
    <2>7. Placed(rec'.at, jour.stage) /\ jour.stage # "completed"
      BY <1>2, <2>1, <2>6 DEF Placed
    <2> QED BY <1>6, <2>1, <2>6, <2>7
  <1>14. CASE swapOneFile
    <2>1. UNCHANGED jour /\ rec' \in ExecForm /\ rec'.at \in {"swap"}
      BY <1>2, <1>14 DEF swapOneFile, ExecForm
    <2>2. Placed(rec'.at, jour.stage) /\ jour.stage # "completed"
      BY <1>2, <1>14, <2>1 DEF swapOneFile, Placed
    <2> QED BY <1>6, <2>1, <2>2
  <1>15. CASE Swapped
    <2>1. Reach("swapped")
      BY <1>2, <1>15 DEF Swapped, Rsync, Paused
    <2>2. "swapped" \in Late \ {"completed"} /\ jour.stage \notin {"none", "completed"}
          /\ rec.at \notin {"off", "extract", "handoff", "load"}
      BY <1>2, <1>15 DEF Swapped, Placed, Late, JournalInv
    <2> QED BY <1>2, <1>3, <1>6, <2>1, <2>2
  <1>16. CASE offlinePauseAppWriters
    <2>0. \A b \in Paused : [rec EXCEPT !.todo = @ \cup {b}] \in ExecForm /\ [rec EXCEPT !.todo = @ \cup {b}].at = rec.at
      <3>1. Paused \subseteq Carried
        BY RecoveryAssumption DEF Paused, AppScopes, IdentityScope, JournalInv
      <3> QED BY <1>2, <3>1 DEF ExecForm
    <2>1. Reach("apps_paused") \/ (UNCHANGED jour /\ rec' \in ExecForm /\ rec'.at = rec.at)
      BY <1>2, <2>0, <1>16 DEF offlinePauseAppWriters, Rsync, Paused
    <2>2. "apps_paused" \in Late \ {"completed"} /\ Paused # {} /\ jour.stage \notin {"none", "completed"}
          /\ rec.at \notin {"off", "extract", "handoff", "load"}
      BY <1>2, <1>16 DEF offlinePauseAppWriters, Placed, Late, JournalInv
    <2> QED BY <1>2, <1>3, <1>6, <2>1, <2>2
  <1>17. CASE StartDaemon
    <2>1. Reach("unit-started")
      BY <1>2, <1>17 DEF StartDaemon, Rsync, Paused
    <2>2. "unit-started" \in Late \ {"completed"} /\ Paused # {} /\ jour.stage \notin {"none", "completed"}
          /\ rec.at \notin {"off", "extract", "handoff", "load"}
      BY <1>2, <1>17 DEF StartDaemon, Placed, Late, JournalInv
    <2> QED BY <1>2, <1>3, <1>6, <2>1, <2>2
  <1>18. CASE offlinePromoteIdentity
    <2>1. /\ UNCHANGED jour /\ rec.at = "identity"
          /\ \/ rec' = [rec EXCEPT !.at = "dispatch", !.todo = {}]
             \/ rec' = [rec EXCEPT !.todo = IdentityScope]
             \/ rec' = rec
      BY <1>18 DEF offlinePromoteIdentity
    <2>2. IdentityScope \subseteq Carried
      BY RecoveryAssumption DEF JournalInv, IdentityScope
    <2>3. /\ [rec EXCEPT !.at = "dispatch", !.todo = {}] \in ExecForm
          /\ [rec EXCEPT !.at = "dispatch", !.todo = {}].at = "dispatch"
      BY <1>2, <2>2 DEF ExecForm
    <2>4. [rec EXCEPT !.todo = IdentityScope] \in ExecForm /\ [rec EXCEPT !.todo = IdentityScope].at = rec.at
      BY <1>2, <2>2 DEF ExecForm
    <2>6. rec' \in ExecForm /\ rec'.at \in {"identity", "dispatch"}
      BY <1>2, <2>1, <2>3, <2>4
    <2>7. Placed(rec'.at, jour.stage) /\ jour.stage # "completed"
      BY <1>2, <2>1, <2>6 DEF Placed
    <2> QED BY <1>6, <2>1, <2>6, <2>7
  <1>19. CASE DispatchApply
    <2>1. UNCHANGED jour /\ rec' \in ExecForm /\ rec'.at \in {"note", "wait"}
      BY <1>2, <1>19 DEF DispatchApply, ExecForm
    <2>2. Placed(rec'.at, jour.stage) /\ jour.stage # "completed"
      BY <1>2, <1>19, <2>1 DEF DispatchApply, Placed
    <2> QED BY <1>6, <2>1, <2>2
  <1>20. CASE JournalApply
    <2>1. jour' \in JournalForm /\ jour'.stage = jour.stage /\ jour'.resume = jour.resume
      BY <1>2, <1>20 DEF JournalApply, JournalForm
    <2>2. rec' \in ExecForm /\ rec'.at = "start" /\ rec.at = "note"
      <3>1. rec' = [rec EXCEPT !.at = "start"] /\ rec.at = "note"
        BY <1>20 DEF JournalApply
      <3>3. [rec EXCEPT !.at = "start"] \in ExecForm /\ [rec EXCEPT !.at = "start"].at = "start"
        BY <1>2 DEF ExecForm
      <3> QED BY <3>1, <3>3
    <2>3. rec' \in ExecForm /\ Placed(rec'.at, jour'.stage) /\ (jour'.stage = "completed" => rec'.at = "off")
      BY <1>2, <2>1, <2>2, Ended DEF Placed
    <2>4. /\ jour'.resume => jour'.stage \notin {"none", "listing", "staging"}
          /\ jour'.stage \in Late \ {"swapped", "completed"} => Paused # {}
      BY <2>1 DEF JournalInv, Late
    <2> QED BY <1>2, <1>7, <2>1, <2>3, <2>4
  <1>21. CASE startStagedBundleApply
    <2>1. UNCHANGED jour /\ rec' \in ExecForm /\ rec'.at \in {"wait"}
      BY <1>2, <1>21 DEF startStagedBundleApply, ExecForm
    <2>2. Placed(rec'.at, jour.stage) /\ jour.stage # "completed"
      BY <1>2, <1>21, <2>1 DEF startStagedBundleApply, Placed
    <2> QED BY <1>6, <2>1, <2>2
  <1>22. CASE offlineWaitBundleApply
    <2>1. rec.at = "wait" /\ jour.stage = "unit-started" /\ Paused # {}
      BY <1>2, <1>22 DEF offlineWaitBundleApply, Placed, JournalInv, Late
    <2>2. \/ Reach("bundles_written") \/ offlineFailRestore
          \/ UNCHANGED jour /\ rec' = [rec EXCEPT !.at = "note", !.fresh = TRUE]
      BY <1>22 DEF offlineWaitBundleApply
    <2>3. /\ [rec EXCEPT !.at = "note", !.fresh = TRUE] \in ExecForm
          /\ [rec EXCEPT !.at = "note", !.fresh = TRUE].at = "note"
      BY <1>2 DEF ExecForm
    <2>4. Placed("note", jour.stage) /\ "bundles_written" \in Late
      BY <2>1 DEF Placed, Late
    <2> QED BY <1>3, <1>4, <1>6, <2>1, <2>2, <2>3, <2>4
  <1>23. CASE offlinePromoteFiles
    <2>0. \A b \in Paused : [rec EXCEPT !.todo = @ \cup {b}] \in ExecForm /\ [rec EXCEPT !.todo = @ \cup {b}].at = rec.at
      <3>1. Paused \subseteq Carried
        BY RecoveryAssumption DEF Paused, AppScopes, IdentityScope, JournalInv
      <3> QED BY <1>2, <3>1 DEF ExecForm
    <2>1. Reach("files_promoted") \/ (UNCHANGED jour /\ rec' \in ExecForm /\ rec'.at = rec.at)
      BY <1>2, <2>0, <1>23 DEF offlinePromoteFiles, Rsync, Paused
    <2>2. "files_promoted" \in Late \ {"completed"} /\ Paused # {} /\ jour.stage \notin {"none", "completed"}
          /\ rec.at \notin {"off", "extract", "handoff", "load"}
      BY <1>2, <1>23 DEF offlinePromoteFiles, Placed, Late, JournalInv
    <2> QED BY <1>2, <1>3, <1>6, <2>1, <2>2
  <1>24. CASE offlineRestoreDatabases
    <2>0. \A b \in Paused : [rec EXCEPT !.todo = @ \cup {b}] \in ExecForm /\ [rec EXCEPT !.todo = @ \cup {b}].at = rec.at
      <3>1. Paused \subseteq Carried
        BY RecoveryAssumption DEF Paused, AppScopes, IdentityScope, JournalInv
      <3> QED BY <1>2, <3>1 DEF ExecForm
    <2>1. Reach("databases_restored") \/ (UNCHANGED jour /\ rec' \in ExecForm /\ rec'.at = rec.at)
      BY <1>2, <2>0, <1>24 DEF offlineRestoreDatabases, Rsync, Paused
    <2>2. /\ "databases_restored" \in Late \ {"completed"} /\ Paused # {}
          /\ jour.stage \notin {"none", "completed"}
          /\ rec.at \notin {"off", "extract", "handoff", "load"}
      BY <1>2, <1>24 DEF offlineRestoreDatabases, Placed, Late, JournalInv
    <2> QED BY <1>2, <1>3, <1>6, <2>1, <2>2
  <1>25. CASE offlineResumeAppWriters
    <2>0. \A b \in Paused : [rec EXCEPT !.todo = @ \cup {b}] \in ExecForm /\ [rec EXCEPT !.todo = @ \cup {b}].at = rec.at
      <3>1. Paused \subseteq Carried
        BY RecoveryAssumption DEF Paused, AppScopes, IdentityScope, JournalInv
      <3> QED BY <1>2, <3>1 DEF ExecForm
    <2>1. Reach("apps_resumed") \/ (UNCHANGED jour /\ rec' \in ExecForm /\ rec'.at = rec.at)
      BY <1>2, <2>0, <1>25 DEF offlineResumeAppWriters, ResumeStage, Rsync, Paused
    <2>2. "apps_resumed" \in Late \ {"completed"} /\ Paused # {} /\ jour.stage \notin {"none", "completed"}
          /\ rec.at \notin {"off", "extract", "handoff", "load"}
      BY <1>2, <1>25 DEF offlineResumeAppWriters, ResumeStage, Placed, Late, JournalInv
    <2> QED BY <1>2, <1>3, <1>6, <2>1, <2>2
  <1>26. CASE offlineAttachSourceRepository
    <2>1. UNCHANGED jour /\ rec' \in ExecForm /\ rec'.at \in {"complete"}
      BY <1>2, <1>26 DEF offlineAttachSourceRepository, ExecForm
    <2>2. Placed(rec'.at, jour.stage) /\ jour.stage # "completed"
      BY <1>2, <1>26, <2>1 DEF offlineAttachSourceRepository, Placed
    <2> QED BY <1>6, <2>1, <2>2
  <1>27. CASE Completed
    <2>1. jour' \in JournalForm /\ jour'.stage = "completed" /\ ~jour'.resume
      BY <1>2, <1>27 DEF Completed, JournalForm, EndExec, Late
    <2>2. rec' = NoExec
      BY <1>2, Ended, <1>27 DEF Completed, EndExec
    <2>3. rec' \in ExecForm /\ Placed(rec'.at, jour'.stage) /\ (jour'.stage = "completed" => rec'.at = "off")
      BY <1>2, <2>1, <2>2, Ended DEF Placed
    <2>4. /\ jour'.resume => jour'.stage \notin {"none", "listing", "staging"}
          /\ jour'.stage \in Late \ {"swapped", "completed"} => Paused # {}
      BY <2>1 DEF JournalInv, Late
    <2> QED BY <1>2, <1>7, <2>1, <2>3, <2>4
  <1>28. CASE PrepareRecoveryRestore
    <2>1. jour' \in JournalForm /\ jour'.stage \in {"none", "staged"} /\ ~jour'.resume
      <3>1. \/ jour' = [stage |-> "staged", status |-> "completed", resume |-> FALSE, apply |-> 0]
            \/ jour' = [stage |-> "none", status |-> "none", resume |-> FALSE, apply |-> 0]
        BY <1>28 DEF PrepareRecoveryRestore, NoJournal
      <3>2. [stage |-> "staged", status |-> "completed", resume |-> FALSE, apply |-> 0] \in JournalForm
        BY DEF JournalForm, Early
      <3>3. [stage |-> "none", status |-> "none", resume |-> FALSE, apply |-> 0] \in JournalForm
        BY DEF JournalForm, Early
      <3>4. jour' \in JournalForm
        BY <3>1, <3>2, <3>3
      <3>5. jour'.stage \in {"none", "staged"} /\ jour'.resume = FALSE
        BY <3>1
      <3> QED BY <3>4, <3>5
    <2>2. rec' = rec /\ rec.at = "off"
      BY <1>2, Ended, <1>28 DEF PrepareRecoveryRestore, ExecForm
    <2>3. rec' \in ExecForm /\ Placed(rec'.at, jour'.stage) /\ (jour'.stage = "completed" => rec'.at = "off")
      BY <1>2, <2>1, <2>2, Ended DEF Placed
    <2>4. /\ jour'.resume => jour'.stage \notin {"none", "listing", "staging"}
          /\ jour'.stage \in Late \ {"swapped", "completed"} => Paused # {}
      BY <2>1 DEF JournalInv, Late
    <2> QED BY <1>2, <1>7, <2>1, <2>3, <2>4
  <1>29. CASE StageOfflineRecoverySnapshot
    <2>1. jour' \in JournalForm /\ jour'.stage = "listing" /\ ~jour'.resume
      BY <1>2, <1>29 DEF StageOfflineRecoverySnapshot, JournalForm, NoJournal, Early, JournalInv
    <2>2. rec' \in ExecForm /\ rec'.at = "extract"
      <3>1. rec' = [NoExec EXCEPT !.at = "extract", !.by = "cli"]
        BY <1>29 DEF StageOfflineRecoverySnapshot
      <3>3. /\ [NoExec EXCEPT !.at = "extract", !.by = "cli"] \in ExecForm
            /\ [NoExec EXCEPT !.at = "extract", !.by = "cli"].at = "extract"
        BY Begun
      <3> QED BY <3>1, <3>3
    <2>3. rec' \in ExecForm /\ Placed(rec'.at, jour'.stage) /\ (jour'.stage = "completed" => rec'.at = "off")
      BY <1>2, <2>1, <2>2, Ended DEF Placed
    <2>4. /\ jour'.resume => jour'.stage \notin {"none", "listing", "staging"}
          /\ jour'.stage \in Late \ {"swapped", "completed"} => Paused # {}
      BY <2>1 DEF JournalInv, Late
    <2> QED BY <1>2, <1>7, <2>1, <2>3, <2>4
  <1>30. CASE TriggerRecoveryRestoreUnit
    <2>1. /\ jour' \in JournalForm /\ jour'.stage = jour.stage
          /\ jour.stage \notin {"none", "listing", "staging", "completed"}
      BY <1>2, <1>30 DEF TriggerRecoveryRestoreUnit, JournalForm, JournalInv
    <2>2. (rec' = rec /\ rec.at = "off") \/ (rec' \in ExecForm /\ rec'.at = "handoff")
      <3>1. rec' = [NoExec EXCEPT !.at = "handoff", !.by = "unit"] \/ (rec' = rec /\ rec.at = "off")
        BY <1>30 DEF TriggerRecoveryRestoreUnit
      <3>3. /\ [NoExec EXCEPT !.at = "handoff", !.by = "unit"] \in ExecForm
            /\ [NoExec EXCEPT !.at = "handoff", !.by = "unit"].at = "handoff"
        BY Begun
      <3> QED BY <3>1, <3>3
    <2>3. rec' \in ExecForm /\ Placed(rec'.at, jour'.stage) /\ (jour'.stage = "completed" => rec'.at = "off")
      BY <1>2, <2>1, <2>2, Ended DEF Placed
    <2>4. /\ jour'.resume => jour'.stage \notin {"none", "listing", "staging"}
          /\ jour'.stage \in Late \ {"swapped", "completed"} => Paused # {}
      BY <2>1 DEF JournalInv, Late
    <2> QED BY <1>2, <1>7, <2>1, <2>3, <2>4
  <1>31. CASE RecoveryApplyCmd
    <2>1. jour' = jour /\ jour.stage \notin {"none", "listing", "staging", "completed"}
      BY <1>2, <1>31 DEF RecoveryApplyCmd, Runnable
    <2>2. rec' \in ExecForm /\ rec'.at = "load"
      <3>1. rec' = [NoExec EXCEPT !.at = "load", !.by = "cli", !.hadDaemon = omahabd = "up"]
        BY <1>31 DEF RecoveryApplyCmd
      <3>3. /\ [NoExec EXCEPT !.at = "load", !.by = "cli", !.hadDaemon = omahabd = "up"] \in ExecForm
            /\ [NoExec EXCEPT !.at = "load", !.by = "cli", !.hadDaemon = omahabd = "up"].at = "load"
        BY Begun
      <3> QED BY <3>1, <3>3
    <2>3. rec' \in ExecForm /\ Placed(rec'.at, jour'.stage) /\ (jour'.stage = "completed" => rec'.at = "off")
      BY <1>2, <2>1, <2>2, Ended DEF Placed
    <2>4. /\ jour'.resume => jour'.stage \notin {"none", "listing", "staging"}
          /\ jour'.stage \in Late \ {"swapped", "completed"} => Paused # {}
      BY <2>1 DEF JournalInv, Late
    <2> QED BY <1>2, <1>7, <2>1, <2>3, <2>4
  <1>32. CASE ApplyEnds
    BY <1>1, <1>32 DEF ApplyEnds, JournalInv, Placed
  <1>33. CASE SwapFails
    <2>1. jour' \in JournalForm /\ jour'.stage = "rolling_back"
      BY <1>2, <1>33 DEF SwapFails, JournalForm, Persist, Early
    <2>2. rec' \in ExecForm /\ rec'.at = "rollback"
      <3>1. rec' = [rec EXCEPT !.at = "rollback", !.i = Len(SwapFiles)]
        BY <1>33 DEF SwapFails
      <3>2. Len(SwapFiles) \in Nat
        BY RecoveryAssumption
      <3>3. /\ [rec EXCEPT !.at = "rollback", !.i = Len(SwapFiles)] \in ExecForm
            /\ [rec EXCEPT !.at = "rollback", !.i = Len(SwapFiles)].at = "rollback"
        BY <1>2, <3>2 DEF ExecForm
      <3> QED BY <3>1, <3>3
    <2>3. rec' \in ExecForm /\ Placed(rec'.at, jour'.stage) /\ (jour'.stage = "completed" => rec'.at = "off")
      BY <1>2, <2>1, <2>2, Ended DEF Placed
    <2>4. /\ jour'.resume => jour'.stage \notin {"none", "listing", "staging"}
          /\ jour'.stage \in Late \ {"swapped", "completed"} => Paused # {}
      BY <2>1 DEF JournalInv, Late
    <2> QED BY <1>2, <1>7, <2>1, <2>3, <2>4
  <1>34. CASE StepFails
    <2>1. jour.stage # "completed"
      BY <1>34 DEF StepFails, JournalInv
    <2> QED BY <1>4, <1>34, <2>1 DEF StepFails
  <1>35. CASE ExecutorKilled
    BY <1>5, <1>35 DEF ExecutorKilled
  <1>36. CASE PowerCut
    BY <1>5, <1>36 DEF PowerCut
  <1>37. CASE UNCHANGED recVars
    BY <1>1, <1>37 DEF recVars, JournalInv, Placed
  <1>38. CASE IndexFails
    <2>1. jour' \in JournalForm /\ jour'.stage = "rolling_back" /\ jour'.resume = jour.resume
      BY <1>2, <1>38 DEF IndexFails, JournalForm, Early
    <2>2. rec' = NoExec
      BY <1>38 DEF IndexFails, EndExec
    <2>3. jour'.stage \notin Late /\ jour'.stage \notin {"none", "listing", "staging", "completed"}
      BY <2>1 DEF Late
    <2> QED BY <1>7, <2>1, <2>2, <2>3, Ended DEF Placed
  <1> QED
    BY <1>8, <1>9, <1>10, <1>11, <1>12, <1>13, <1>14, <1>15, <1>16, <1>17, <1>18, <1>19, <1>20, <1>21, 
       <1>22, <1>23, <1>24, <1>25, <1>26, <1>27, <1>28, <1>29, <1>30, <1>31, <1>32, <1>33, <1>34, <1>35, 
       <1>36, <1>37, <1>38
       DEF RecNext, ExecutorStep, OperatorStep

-----------------------------------------------------------------------------
(* The restore of a whole machine: the swap of the configuration.           *)

\* A path of the list is a path.
LEMMA PathOfList == /\ Len(SwapFiles) \in Nat /\ \A j \in 1..Len(SwapFiles) : SwapFiles[j] \in SwapPath
                    /\ \A f \in SwapPath : \E j \in 1..Len(SwapFiles) : SwapFiles[j] = f
PROOF
  <1>1. Len(SwapFiles) \in Nat
    BY RecoveryAssumption
  <1> QED BY <1>1 DEF SwapPath, Range1

\* Nothing is moved and nobody swaps from here on.
LEMMA SwapKept ==
    ASSUME SwapInv, UNCHANGED swapVars, jour \in JournalForm, jour' \in JournalForm,
           jour'.stage \in Early <=> jour.stage \in Early,
           rec'.at \in {"undo", "rollback"} => rec'.i = Len(SwapFiles),
           rec'.at # "swap", rec'.at = "index" => rec'.i = 0
    PROVE  SwapInv'
PROOF
  <1>1. Len(SwapFiles) \in Nat
    BY PathOfList
  <1>2. jour'.stage \in Late => jour.stage \in Late
    BY DEF JournalForm, Early, Late
  <1>3. UNCHANGED <<live, keep, index>>
    BY DEF swapVars
  <1>4. \A f : InPlace(f)' <=> InPlace(f)
    BY <1>3 DEF InPlace, Original
  <1>5. rec'.at \in {"undo", "rollback"} =>
           rec'.i <= Len(SwapFiles) /\ \A j \in (rec'.i + 1)..Len(SwapFiles) : InPlace(SwapFiles[j])'
    BY <1>1
  <1> QED BY <1>2, <1>3, <1>4, <1>5 DEF SwapInv

\* Nothing is swapped yet.
LEMMA SwapInvInit == RecInit => SwapInv
PROOF
  <1> SUFFICES ASSUME RecInit PROVE SwapInv
    OBVIOUS
  <1>1. /\ live = [f \in SwapPath |-> Original(f)] /\ keep = [f \in SwapPath |-> FALSE]
        /\ jour.stage = "none" /\ rec.at = "off"
    BY DEF RecInit, NoJournal, NoExec, SwapPath, Original
  <1>2. \A f \in SwapPath : InPlace(f) /\ live[f] = Original(f) /\ ~keep[f]
    BY <1>1 DEF InPlace
  <1>3. live \in [SwapPath -> {"none", "old", "part", "new"}] /\ keep \in [SwapPath -> BOOLEAN]
    BY <1>1 DEF Original
  <1> QED BY <1>1, <1>2, <1>3 DEF SwapInv, Original, Late

\* Every step keeps what the machine had, in place or put aside.
LEMMA SwapInvStep == JournalInv /\ JournalInv' /\ SwapInv /\ [RecNext]_recVars => SwapInv'
PROOF
  <1> SUFFICES ASSUME JournalInv, JournalInv', SwapInv, [RecNext]_recVars PROVE SwapInv'
    OBVIOUS
  <1>1. /\ jour \in JournalForm /\ rec \in ExecForm /\ jour' \in JournalForm /\ rec' \in ExecForm
        /\ Placed(rec.at, jour.stage)
    BY DEF JournalInv
  <1>2. Len(SwapFiles) \in Nat /\ \A j \in 1..Len(SwapFiles) : SwapFiles[j] \in SwapPath
    BY PathOfList
  <1>3. \A s : NextWork(s) \notin {"undo", "rollback", "swap", "index"}
    BY DEF NextWork
  <1>4. ASSUME NEW s \in Late, jour.stage \in Late, Reach(s), UNCHANGED swapVars PROVE SwapInv'
    <2>1. jour'.stage = s /\ rec'.at = NextWork(s)
      BY <1>1, <1>4 DEF Reach, Persist, JournalForm, ExecForm
    <2> QED BY <1>1, <1>3, <1>4, <2>1, SwapKept DEF Early, Late
  <1>5. ASSUME offlineFailRestore, UNCHANGED swapVars PROVE SwapInv'
    <2>1. jour'.stage = jour.stage /\ rec'.at = "off"
      BY <1>1, <1>5, FailureKeepsStage, Ended
    <2> QED BY <1>1, <1>5, <2>1, SwapKept
  <1>6. ASSUME UNCHANGED jour, UNCHANGED swapVars, rec'.at \notin {"undo", "rollback", "swap", "index"} PROVE SwapInv'
    BY <1>1, <1>6, SwapKept
  <1>7. ASSUME UNCHANGED <<jour, live, keep, index, rec>> PROVE SwapInv'
    BY <1>7 DEF SwapInv, InPlace, Original
  <1>8. CASE offlineStageAndValidate
    <2>1. UNCHANGED swapVars /\ rec' = NoExec /\ jour.stage = "listing"
      BY <1>1, <1>8 DEF offlineStageAndValidate, Placed
    <2>2. jour'.stage \in {"staged", "staging"}
      BY <1>1, <1>8 DEF offlineStageAndValidate, JournalForm
    <2> QED BY <1>1, <2>1, <2>2, Ended, SwapKept DEF Early
  <1>9. CASE readPhraseHandoffCLI
    <2>1. UNCHANGED jour /\ UNCHANGED swapVars /\ rec' \in {[rec EXCEPT !.at = "load"], NoExec}
      BY <1>9 DEF readPhraseHandoffCLI
    <2>2. rec'.at \notin {"undo", "rollback", "swap", "index"}
      BY <1>1, <2>1, Ended, <1>9 DEF ExecForm, readPhraseHandoffCLI
    <2> QED BY <1>6, <2>1, <2>2
  <1>10. CASE RunOfflineRecoveryRestore
    <2>1. jour'.stage = jour.stage /\ UNCHANGED swapVars
      BY <1>1, <1>10 DEF RunOfflineRecoveryRestore, JournalForm
    <2>2. /\ rec'.at \in {SwapEntry, NextWork(jour.stage)}
          /\ rec'.at = "undo" => rec'.i = Len(SwapFiles)
      <3>1. PICK a \in {SwapEntry, NextWork(jour.stage)}, i \in {Len(SwapFiles), 0} :
               /\ rec' = [rec EXCEPT !.at = a, !.i = i]
               /\ a = "undo" => i = Len(SwapFiles)
        <4>1. CASE Before("swapped") /\ SwapEntry = "undo"
          BY <1>10, <4>1 DEF RunOfflineRecoveryRestore
        <4>2. CASE Before("swapped") /\ SwapEntry # "undo"
          BY <1>10, <4>2 DEF RunOfflineRecoveryRestore
        <4>3. CASE ~Before("swapped")
          BY <1>3, <1>10, <4>3 DEF RunOfflineRecoveryRestore
        <4> QED BY <4>1, <4>2, <4>3
      <3>2. rec'.at = a /\ rec'.i = i
        BY <1>1, <3>1 DEF ExecForm
      <3> QED BY <3>1, <3>2
    <2>3. SwapEntry \in {"undo", "plan"}
      BY DEF SwapEntry
    <2> QED BY <1>1, <1>3, <2>1, <2>2, <2>3, SwapKept
  <1>11. CASE RollbackServerConfigSwap
    <2>1. /\ rec.at \in {"undo", "rollback"} /\ jour.stage \in Early /\ jour.stage \notin Late
          /\ rec.i \in Nat /\ rec.i <= Len(SwapFiles)
          /\ \A j \in (rec.i + 1)..Len(SwapFiles) : InPlace(SwapFiles[j])
      BY <1>1, <1>11 DEF RollbackServerConfigSwap, Placed, Early, Late, ExecForm, SwapInv
    <2>4. CASE index = "torn"
      BY <1>5, <1>11, <2>4 DEF RollbackServerConfigSwap
    <2>2. CASE index # "torn" /\ (rec.i = 0 \/ index # "written")
      <3>1. UNCHANGED <<live, keep>>
        BY <1>11, <2>2 DEF RollbackServerConfigSwap
      <3>2. \A f \in SwapPath : InPlace(f)
        <4>1. CASE rec.i = 0
          BY <1>2, <2>1, <4>1, PathOfList
        <4>2. CASE index # "written"
          BY <2>1, <4>2 DEF SwapInv
        <4> QED BY <2>2, <4>1, <4>2
      <3>3. \A f \in SwapPath : InPlace(f)' /\ (f \in Originals => live'[f] = "old")
        BY <3>1, <3>2 DEF InPlace, Original
      <3>4. jour'.stage = jour.stage /\ rec'.at \in {"plan", "off"}
        <4>1. CASE rec.at = "undo"
          BY <1>1, <1>11, <2>2, <4>1 DEF RollbackServerConfigSwap, ExecForm
        <4>2. CASE rec.at = "rollback"
          <5>1. offlineFailRestore
            BY <1>11, <2>2, <4>2 DEF RollbackServerConfigSwap
          <5> QED BY <1>1, <5>1, FailureKeepsStage, Ended
        <4> QED BY <2>1, <4>1, <4>2
      <3> QED BY <2>1, <3>1, <3>3, <3>4 DEF SwapInv
    <2>3. CASE rec.i # 0 /\ index = "written"
      <3>0. PICK f \in SwapPath : f = SwapFiles[rec.i]
        BY <1>2, <2>1, <2>3
      <3>1. UNCHANGED <<index, jour>> /\ f \in SwapPath
        BY <2>1, <2>3, <1>11 DEF RollbackServerConfigSwap
      <3>2. CASE ToRemove(f) /\ live[f] # "none"
        <4>1. /\ live' = [live EXCEPT ![f] = IF @ = "part" THEN "none" ELSE "part"] /\ UNCHANGED <<keep, rec>>
              /\ f \in Originals => keep[f]
          BY <2>3, <3>0, <3>1, <3>2, <1>11 DEF RollbackServerConfigSwap, SwapInv, ToRemove
        <4>2. \A j \in (rec.i + 1)..Len(SwapFiles) : InPlace(SwapFiles[j])'
          <5> SUFFICES ASSUME NEW j \in (rec.i + 1)..Len(SwapFiles) PROVE InPlace(SwapFiles[j])'
            OBVIOUS
          <5>1. InPlace(SwapFiles[j]) /\ SwapFiles[j] # f /\ SwapFiles[j] \in SwapPath
            BY <1>2, <2>1, <3>2, <4>1 DEF InPlace, Original
          <5> QED BY <4>1, <5>1 DEF InPlace, Original, SwapInv
        <4> QED BY <2>1, <2>3, <3>1, <3>2, <4>1, <4>2 DEF SwapInv
      <3>3. CASE ~(ToRemove(f) /\ live[f] # "none")
        <4>1. /\ live' = [live EXCEPT ![f] = IF keep[f] THEN "old" ELSE live[f]] /\ keep' = [keep EXCEPT ![f] = FALSE]
              /\ rec' = [rec EXCEPT !.i = @ - 1]
          BY <2>3, <3>0, <3>3, <1>11 DEF RollbackServerConfigSwap
        <4>2. (IF keep[f] THEN "old" ELSE live[f]) = Original(f)
          BY <2>1, <3>1, <3>3 DEF ToRemove, Original, SwapInv
        <4>3. InPlace(f)' /\ \A g \in SwapPath : g # f => live'[g] = live[g] /\ keep'[g] = keep[g] /\ (InPlace(g) => InPlace(g)')
          BY <3>1, <4>1, <4>2 DEF InPlace, Original, SwapInv
        <4>4. rec'.i = rec.i - 1 /\ rec'.at = rec.at
          BY <1>1, <4>1 DEF ExecForm
        <4>5. \A j \in (rec'.i + 1)..Len(SwapFiles) : InPlace(SwapFiles[j])'
          <5> SUFFICES ASSUME NEW j \in (rec'.i + 1)..Len(SwapFiles) PROVE InPlace(SwapFiles[j])'
            OBVIOUS
          <5>1. j = rec.i \/ j \in (rec.i + 1)..Len(SwapFiles)
            BY <2>1, <4>4
          <5>2. CASE j = rec.i
            BY <3>0, <4>3, <5>2
          <5>3. CASE j \in (rec.i + 1)..Len(SwapFiles)
            <6>1. SwapFiles[j] \in SwapPath /\ InPlace(SwapFiles[j])
              BY <1>2, <2>1, <5>3
            <6> QED BY <4>3, <6>1
          <5> QED BY <5>1, <5>2, <5>3
        <4>6. live' \in [SwapPath -> {"none", "old", "part", "new"}] /\ keep' \in [SwapPath -> BOOLEAN]
          BY <3>1, <4>1, <4>2 DEF SwapInv, Original
        <4>7. (f \in Originals => live'[f] = "old") /\ (live'[f] = "old" => f \in Originals) /\ ~keep'[f]
          BY <4>3 DEF InPlace, Original
        <4>8. rec'.i <= Len(SwapFiles)
          BY <1>2, <2>1, <4>4
        <4> QED BY <2>1, <2>3, <3>1, <4>3, <4>4, <4>5, <4>6, <4>7, <4>8 DEF SwapInv
      <3> QED BY <3>2, <3>3
    <2> QED BY <2>2, <2>3, <2>4
  <1>12. CASE PlanServerConfigSwap
    <2>1. jour' = [jour EXCEPT !.stage = "swapping"] /\ rec' = [rec EXCEPT !.at = "index", !.i = 0]
      BY <1>12 DEF PlanServerConfigSwap, Persist
    <2>2. jour'.stage = "swapping" /\ rec'.at = "index" /\ rec'.i = 0
      BY <1>1, <2>1 DEF JournalForm, ExecForm
    <2>3. jour.stage \in Early /\ UNCHANGED swapVars
      BY <1>1, <1>12 DEF PlanServerConfigSwap, Placed, Early
    <2> QED BY <1>1, <2>2, <2>3, SwapKept DEF Early
  <1>13. CASE WriteRollbackIndex
    <2>1. rec.at = "index" /\ jour.stage \in Early /\ jour.stage \notin Late /\ UNCHANGED <<jour, live, keep>>
      BY <1>1, <1>13 DEF WriteRollbackIndex, Placed, Early, Late
    <2>2. CASE rec.i = 0 /\ index # "none"
      <3>1. UNCHANGED index /\ rec' = [rec EXCEPT !.at = "undo", !.i = Len(SwapFiles)]
        BY <1>13, <2>2 DEF WriteRollbackIndex
      <3>2. rec'.at = "undo" /\ rec'.i = Len(SwapFiles)
        BY <1>1, <3>1 DEF ExecForm
      <3> QED BY <1>1, <2>1, <3>1, <3>2, SwapKept DEF swapVars
    <2>3. CASE rec.i = 0 /\ index = "none"
      <3>1. rec' = [rec EXCEPT !.i = 1] /\ index' = "dir"
        BY <1>13, <2>3 DEF WriteRollbackIndex
      <3>2. rec'.at = "index"
        BY <1>1, <2>1, <3>1 DEF ExecForm
      <3>3. \A f \in SwapPath : InPlace(f)'
        BY <2>1, <2>3 DEF SwapInv, InPlace, Original
      <3> QED BY <2>1, <3>1, <3>2, <3>3 DEF SwapInv
    <2>5. CASE rec.i = 1
      <3>1. rec' = [rec EXCEPT !.i = 2] /\ index' = "torn"
        BY <1>13, <2>5 DEF WriteRollbackIndex
      <3>2. rec'.at = "index"
        BY <1>1, <2>1, <3>1 DEF ExecForm
      <3>3. \A f \in SwapPath : InPlace(f)'
        BY <2>1, <2>5 DEF SwapInv, InPlace, Original
      <3> QED BY <2>1, <3>1, <3>2, <3>3 DEF SwapInv
    <2>4. CASE rec.i # 0 /\ rec.i # 1
      <3>1. index' = "written" /\ rec' = [rec EXCEPT !.at = "swap", !.i = 1]
        BY <1>13, <2>4 DEF WriteRollbackIndex
      <3>2. rec'.at = "swap" /\ rec'.i = 1
        BY <1>1, <3>1 DEF ExecForm
      <3> QED BY <1>2, <2>1, <3>1, <3>2 DEF SwapInv
    <2> QED BY <2>2, <2>3, <2>4, <2>5
  <1>14. CASE swapOneFile
    <2>1. /\ rec.at = "swap" /\ jour.stage \in Early /\ jour.stage \notin Late /\ UNCHANGED <<jour, index>>
          /\ index = "written" /\ rec.i \in 1..Len(SwapFiles)
          /\ \A j \in 1..Len(SwapFiles) : j < rec.i => live[SwapFiles[j]] = "new"
      BY <1>1, <1>2, <1>14 DEF swapOneFile, Placed, Early, Late, ExecForm, SwapInv
    <2> DEFINE f == SwapFiles[rec.i]
    <2>2. f \in SwapPath
      BY <1>2, <2>1
    <2>3. CASE live[f] = "old"
      <3>1. live' = [live EXCEPT ![f] = "none"] /\ keep' = [keep EXCEPT ![f] = TRUE] /\ UNCHANGED rec
        BY <1>14, <2>3 DEF swapOneFile
      <3>2. f \in Originals
        BY <2>2, <2>3 DEF SwapInv
      <3>3. \A j \in 1..Len(SwapFiles) : j < rec'.i => live'[SwapFiles[j]] = "new"
        BY <1>2, <2>1, <2>3, <3>1 DEF SwapInv
      <3> HIDE DEF f
      <3> QED BY <2>1, <2>2, <3>1, <3>2, <3>3 DEF SwapInv
    <2>4. CASE live[f] = "none"
      <3>1. live' = [live EXCEPT ![f] = "part"] /\ UNCHANGED <<keep, rec>>
        BY <1>14, <2>4 DEF swapOneFile
      <3>2. \A j \in 1..Len(SwapFiles) : j < rec'.i => live'[SwapFiles[j]] = "new"
        BY <1>2, <2>1, <2>4, <3>1 DEF SwapInv
      <3> HIDE DEF f
      <3> QED BY <2>1, <2>2, <2>4, <3>1, <3>2 DEF SwapInv
    <2>5. CASE live[f] \notin {"old", "none"}
      <3>1. live' = [live EXCEPT ![f] = "new"] /\ rec' = [rec EXCEPT !.i = @ + 1] /\ UNCHANGED keep
        BY <1>14, <2>5 DEF swapOneFile
      <3>2. rec'.i = rec.i + 1 /\ rec'.at = "swap"
        BY <1>1, <2>1, <3>1 DEF ExecForm
      <3>3. \A j \in 1..Len(SwapFiles) : j < rec'.i => live'[SwapFiles[j]] = "new"
        <4> SUFFICES ASSUME NEW j \in 1..Len(SwapFiles), j < rec'.i PROVE live'[SwapFiles[j]] = "new"
          OBVIOUS
        <4>1. j = rec.i \/ j < rec.i
          BY <2>1, <3>2
        <4> QED BY <1>2, <2>1, <3>1, <4>1 DEF SwapInv
      <3>4. rec'.i > 0
        BY <2>1, <3>2
      <3> HIDE DEF f
      <3> QED BY <2>1, <2>2, <2>5, <3>1, <3>2, <3>3, <3>4 DEF SwapInv
    <2> QED BY <2>3, <2>4, <2>5
  <1>15. CASE Swapped
    <2>1. /\ rec.at = "swap" /\ rec.i > Len(SwapFiles) /\ Reach("swapped") /\ rec.i \in Nat
          /\ UNCHANGED <<live, keep, index>>
      BY <1>1, <1>15 DEF Swapped, swapVars, ExecForm
    <2>2. \A f \in SwapPath : live'[f] = "new"
      <3> SUFFICES ASSUME NEW f \in SwapPath PROVE live'[f] = "new"
        OBVIOUS
      <3>1. PICK j \in 1..Len(SwapFiles) : SwapFiles[j] = f
        BY PathOfList
      <3>2. j < rec.i
        BY <1>2, <2>1
      <3> QED BY <2>1, <3>1, <3>2 DEF SwapInv
    <2>3. jour'.stage = "swapped" /\ rec'.at = NextWork("swapped")
      BY <1>1, <2>1 DEF Reach, Persist, JournalForm, ExecForm
    <2>4. jour'.stage \notin Early /\ rec'.at \notin {"undo", "rollback", "swap", "index"}
      BY <1>3, <2>3 DEF Early
    <2> QED BY <2>1, <2>2, <2>4 DEF SwapInv
  <1>16. CASE offlinePauseAppWriters
    <2>1. jour.stage \in Late /\ UNCHANGED swapVars /\ rec.at \notin {"undo", "rollback", "swap", "index"}
      BY <1>1, <1>16 DEF offlinePauseAppWriters, Placed, Late
    <2>2. Reach("apps_paused") \/ (UNCHANGED jour /\ (rec' = rec \/ \E b : rec' = [rec EXCEPT !.todo = @ \cup {b}]))
      BY <1>16 DEF offlinePauseAppWriters
    <2>3. (\E b : rec' = [rec EXCEPT !.todo = @ \cup {b}]) => rec'.at = rec.at
      BY <1>1 DEF ExecForm
    <2> QED BY <1>4, <1>6, <2>1, <2>2, <2>3 DEF Late
  <1>17. CASE StartDaemon
    <2>1. jour.stage \in Late /\ UNCHANGED swapVars /\ rec.at \notin {"undo", "rollback", "swap", "index"}
      BY <1>1, <1>17 DEF StartDaemon, Placed, Late
    <2>2. Reach("unit-started")
      BY <1>17 DEF StartDaemon
    <2> QED BY <1>4, <2>1, <2>2 DEF Late
  <1>18. CASE offlinePromoteIdentity
    <2>1. /\ UNCHANGED jour /\ UNCHANGED swapVars
          /\ rec' \in {[rec EXCEPT !.at = "dispatch", !.todo = {}], [rec EXCEPT !.todo = IdentityScope], rec}
      BY <1>18 DEF offlinePromoteIdentity
    <2>2. rec'.at \notin {"undo", "rollback", "swap", "index"}
      BY <1>1, <2>1, Ended, <1>18 DEF ExecForm, offlinePromoteIdentity
    <2> QED BY <1>6, <2>1, <2>2
  <1>19. CASE DispatchApply
    <2>1. /\ UNCHANGED jour /\ UNCHANGED swapVars
          /\ rec' \in {[rec EXCEPT !.at = "note", !.fresh = TRUE], [rec EXCEPT !.at = "wait", !.fresh = FALSE]}
      BY <1>19 DEF DispatchApply
    <2>2. rec'.at \notin {"undo", "rollback", "swap", "index"}
      BY <1>1, <2>1, Ended, <1>19 DEF ExecForm, DispatchApply
    <2> QED BY <1>6, <2>1, <2>2
  <1>20. CASE JournalApply
    <2>1. /\ jour' = [jour EXCEPT !.apply = Len(applies)] /\ UNCHANGED swapVars
          /\ rec' = [rec EXCEPT !.at = "start"]
      BY <1>20 DEF JournalApply
    <2>2. jour'.stage = jour.stage /\ rec'.at = "start"
      BY <1>1, <2>1 DEF JournalForm, ExecForm
    <2> QED BY <1>1, <2>1, <2>2, SwapKept
  <1>21. CASE startStagedBundleApply
    <2>1. UNCHANGED jour /\ UNCHANGED swapVars /\ rec' \in {[rec EXCEPT !.at = "wait"]}
      BY <1>21 DEF startStagedBundleApply
    <2>2. rec'.at \notin {"undo", "rollback", "swap", "index"}
      BY <1>1, <2>1, Ended, <1>21 DEF ExecForm, startStagedBundleApply
    <2> QED BY <1>6, <2>1, <2>2
  <1>22. CASE offlineWaitBundleApply
    <2>1. jour.stage \in Late /\ UNCHANGED swapVars
      BY <1>1, <1>22 DEF offlineWaitBundleApply, Placed, Late
    <2>2. \/ Reach("bundles_written") \/ offlineFailRestore
          \/ UNCHANGED jour /\ rec' = [rec EXCEPT !.at = "note", !.fresh = TRUE]
      BY <1>22 DEF offlineWaitBundleApply
    <2>3. rec' = [rec EXCEPT !.at = "note", !.fresh = TRUE] => rec'.at = "note"
      BY <1>1 DEF ExecForm
    <2> QED BY <1>4, <1>5, <1>6, <2>1, <2>2, <2>3 DEF Late
  <1>23. CASE offlinePromoteFiles
    <2>1. jour.stage \in Late /\ UNCHANGED swapVars /\ rec.at \notin {"undo", "rollback", "swap", "index"}
      BY <1>1, <1>23 DEF offlinePromoteFiles, Placed, Late
    <2>2. Reach("files_promoted") \/ (UNCHANGED jour /\ (rec' = rec \/ \E b : rec' = [rec EXCEPT !.todo = @ \cup {b}]))
      BY <1>23 DEF offlinePromoteFiles
    <2>3. (\E b : rec' = [rec EXCEPT !.todo = @ \cup {b}]) => rec'.at = rec.at
      BY <1>1 DEF ExecForm
    <2> QED BY <1>4, <1>6, <2>1, <2>2, <2>3 DEF Late
  <1>24. CASE offlineRestoreDatabases
    <2>1. jour.stage \in Late /\ UNCHANGED swapVars /\ rec.at \notin {"undo", "rollback", "swap", "index"}
      BY <1>1, <1>24 DEF offlineRestoreDatabases, Placed, Late
    <2>2. Reach("databases_restored") \/ (UNCHANGED jour /\ (rec' = rec \/ \E b : rec' = [rec EXCEPT !.todo = @ \cup {b}]))
      BY <1>24 DEF offlineRestoreDatabases
    <2>3. (\E b : rec' = [rec EXCEPT !.todo = @ \cup {b}]) => rec'.at = rec.at
      BY <1>1 DEF ExecForm
    <2> QED BY <1>4, <1>6, <2>1, <2>2, <2>3 DEF Late
  <1>25. CASE offlineResumeAppWriters
    <2>1. jour.stage \in Late /\ UNCHANGED swapVars /\ rec.at \notin {"undo", "rollback", "swap", "index"}
      BY <1>1, <1>25 DEF offlineResumeAppWriters, ResumeStage, Placed, Late
    <2>2. Reach("apps_resumed") \/ (UNCHANGED jour /\ (rec' = rec \/ \E b : rec' = [rec EXCEPT !.todo = @ \cup {b}]))
      BY <1>25 DEF offlineResumeAppWriters, ResumeStage
    <2>3. (\E b : rec' = [rec EXCEPT !.todo = @ \cup {b}]) => rec'.at = rec.at
      BY <1>1 DEF ExecForm
    <2> QED BY <1>4, <1>6, <2>1, <2>2, <2>3 DEF Late
  <1>26. CASE offlineAttachSourceRepository
    <2>1. UNCHANGED jour /\ UNCHANGED swapVars /\ rec' \in {[rec EXCEPT !.at = "complete"]}
      BY <1>26 DEF offlineAttachSourceRepository
    <2>2. rec'.at \notin {"undo", "rollback", "swap", "index"}
      BY <1>1, <2>1, Ended, <1>26 DEF ExecForm, offlineAttachSourceRepository
    <2> QED BY <1>6, <2>1, <2>2
  <1>27. CASE Completed
    <2>1. /\ jour' = [jour EXCEPT !.stage = "completed", !.status = "completed", !.resume = FALSE]
          /\ UNCHANGED swapVars /\ rec' = NoExec /\ jour.stage \in Late
      BY <1>1, <1>27 DEF Completed, EndExec, Placed, Late
    <2>2. jour'.stage = "completed" /\ rec'.at = "off"
      BY <1>1, <2>1, Ended DEF JournalForm
    <2> QED BY <1>1, <2>1, <2>2, SwapKept DEF Early, Late
  <1>28. CASE PrepareRecoveryRestore
    <2>1. UNCHANGED swapVars /\ rec' = rec /\ rec.at = "off" /\ jour.stage = "none"
      BY <1>28 DEF PrepareRecoveryRestore, NoJournal
    <2>2. jour'.stage \in {"none", "staged"}
      BY <1>28 DEF PrepareRecoveryRestore, NoJournal
    <2> QED BY <1>1, <2>1, <2>2, SwapKept DEF Early
  <1>29. CASE StageOfflineRecoverySnapshot
    <2>1. UNCHANGED swapVars /\ jour.stage \in {"none", "listing", "staging"} /\ jour'.stage = "listing"
      BY <1>29 DEF StageOfflineRecoverySnapshot, NoJournal
    <2>2. rec'.at = "extract"
      BY <1>29, Begun DEF StageOfflineRecoverySnapshot
    <2> QED BY <1>1, <2>1, <2>2, SwapKept DEF Early
  <1>30. CASE TriggerRecoveryRestoreUnit
    <2>1. UNCHANGED swapVars /\ jour'.stage = jour.stage
      BY <1>1, <1>30 DEF TriggerRecoveryRestoreUnit, JournalForm
    <2>2. rec'.at \in {"handoff", "off"}
      BY <1>30, Begun DEF TriggerRecoveryRestoreUnit
    <2> QED BY <1>1, <2>1, <2>2, SwapKept
  <1>31. CASE RecoveryApplyCmd
    <2>1. UNCHANGED swapVars /\ UNCHANGED jour
      BY <1>31 DEF RecoveryApplyCmd
    <2>2. rec'.at = "load"
      BY <1>31, Begun DEF RecoveryApplyCmd
    <2> QED BY <1>6, <2>1, <2>2
  <1>32. CASE ApplyEnds
    BY <1>7, <1>32 DEF ApplyEnds, swapVars
  <1>33. CASE SwapFails
    <2>1. /\ jour' = [jour EXCEPT !.stage = "rolling_back"]
          /\ rec' = [rec EXCEPT !.at = "rollback", !.i = Len(SwapFiles)]
      BY <1>33 DEF SwapFails, Persist
    <2>2. jour'.stage = "rolling_back" /\ rec'.at = "rollback" /\ rec'.i = Len(SwapFiles)
      BY <1>1, <2>1 DEF JournalForm, ExecForm
    <2>3. jour.stage \in Early /\ UNCHANGED swapVars
      BY <1>1, <1>33 DEF SwapFails, Placed, Early
    <2> QED BY <1>1, <2>2, <2>3, SwapKept DEF Early
  <1>34. CASE StepFails
    BY <1>5, <1>34 DEF StepFails
  <1>35. CASE ExecutorKilled
    <2>1. UNCHANGED jour /\ UNCHANGED swapVars /\ rec' \in {NoExec}
      BY <1>35 DEF ExecutorKilled
    <2>2. rec'.at \notin {"undo", "rollback", "swap", "index"}
      BY <1>1, <2>1, Ended, <1>35 DEF ExecForm, ExecutorKilled
    <2> QED BY <1>6, <2>1, <2>2
  <1>36. CASE PowerCut
    <2>1. UNCHANGED jour /\ UNCHANGED swapVars /\ rec' \in {NoExec}
      BY <1>36 DEF PowerCut
    <2>2. rec'.at \notin {"undo", "rollback", "swap", "index"}
      BY <1>1, <2>1, Ended, <1>36 DEF ExecForm, PowerCut
    <2> QED BY <1>6, <2>1, <2>2
  <1>38. CASE IndexFails
    <2>1. rec.at = "index" /\ jour.stage \in Early /\ UNCHANGED <<live, keep>>
      BY <1>1, <1>38 DEF IndexFails, Placed, Early
    <2>2. jour'.stage = "rolling_back" /\ rec'.at = "off"
      BY <1>1, <1>38, Ended DEF IndexFails, EndExec, JournalForm
    <2>3. index' # "written" => index # "written"
      BY <1>38 DEF IndexFails
    <2>4. ASSUME NEW f \in SwapPath, index' # "written" PROVE InPlace(f)'
      BY <2>1, <2>3, <2>4 DEF SwapInv, InPlace, Original
    <2> QED BY <2>1, <2>2, <2>3, <2>4 DEF SwapInv, Early, Late
  <1>37. CASE UNCHANGED recVars
    BY <1>7, <1>37 DEF recVars
  <1> QED
    BY <1>8, <1>9, <1>10, <1>11, <1>12, <1>13, <1>14, <1>15, <1>16, <1>17, <1>18, <1>19, <1>20, <1>21, 
       <1>22, <1>23, <1>24, <1>25, <1>26, <1>27, <1>28, <1>29, <1>30, <1>31, <1>32, <1>33, <1>34, <1>35, 
       <1>36, <1>37, <1>38
       DEF RecNext, ExecutorStep, OperatorStep

-----------------------------------------------------------------------------
(* The restore of a whole machine: payloads and gates.                      *)

\* What is restored is carried by the snapshot.
LEMMA PausedCarried ==
    JournalInv => /\ Paused \subseteq Carried /\ AppScopes \subseteq Paused /\ IdentityScope \subseteq {Identity}
                  /\ IdentityScope \subseteq Paused /\ Identity \notin AppScopes
PROOF BY RecoveryAssumption DEF JournalInv, Paused, AppScopes, IdentityScope

\* The next stage and its executor.
LEMMA WorkAfter == \A s : NextWork(s) \in {"pause", "daemon", "identity", "files", "databases", "resume", "attach"}
PROOF BY DEF NextWork

\* One part of one payload is written.
LEMMA PartWritten ==
    ASSUME DataTypes, NEW b \in Paused, b \in Carried, NEW p \in Parts(b), NEW v \in Payload,
           data' = [data EXCEPT ![b][p] = v], Paused' = Paused
    PROVE  /\ DataTypes' /\ data'[b][p] = v
           /\ \A q \in Parts(b) : q # p => data'[b][q] = data[b][q]
           /\ \A c \in Carried : c # b => data'[c] = data[c]
PROOF
  <1>1. data' = [data EXCEPT ![b] = [data[b] EXCEPT ![p] = v]]
    OBVIOUS
  <1>2. data[b] \in [Parts(b) -> Payload]
    BY DEF DataTypes
  <1>3. [data[b] EXCEPT ![p] = v] \in [Parts(b) -> Payload]
    BY <1>2
  <1>4. [data[b] EXCEPT ![p] = v] \in [{"files"} -> Payload] \cup [{"files", "db"} -> Payload]
    BY <1>3 DEF Parts
  <1> DEFINE w == [data[b] EXCEPT ![p] = v]
  <1>5. w[p] = v /\ \A q \in Parts(b) : q # p => w[q] = data[b][q]
    BY <1>2
  <1> HIDE DEF w
  <1>6. data' = [data EXCEPT ![b] = w] /\ w \in [Parts(b) -> Payload]
        /\ w \in [{"files"} -> Payload] \cup [{"files", "db"} -> Payload]
    BY <1>1, <1>3, <1>4 DEF w
  <1>7. data'[b] = w /\ \A c \in Carried : c # b => data'[c] = data[c]
    BY <1>6 DEF DataTypes
  <1>8. data' \in [Carried -> [{"files"} -> Payload] \cup [{"files", "db"} -> Payload]]
    BY <1>6 DEF DataTypes
  <1>9. \A c \in Carried : data'[c] \in [Parts(c) -> Payload]
    BY <1>6, <1>7 DEF DataTypes
  <1>10. \A c \in Carried \ Paused : \A q \in Parts(c) : data'[c][q] = "old"
    BY <1>7 DEF DataTypes
  <1>11. DataTypes'
    BY <1>8, <1>9, <1>10 DEF DataTypes, Parts
  <1> QED BY <1>5, <1>7, <1>11

\* A copy that is made, or cut off, writes the files of one bundle.
LEMMA FilesWritten ==
    ASSUME DataTypes, NEW b \in Paused, b \in Carried, Rsync(b), Paused' = Paused
    PROVE  /\ DataTypes'
           /\ \A q \in Parts(b) : q # "files" => data'[b][q] = data[b][q]
           /\ \A c \in Carried : c # b => data'[c] = data[c]
PROOF
  <1>1. PICK v \in Payload : data' = [data EXCEPT ![b]["files"] = v]
    <2>1. (IF data[b]["files"] = "old" THEN "part" ELSE "new") \in Payload
      BY DEF Payload
    <2> QED BY <2>1 DEF Rsync
  <1>2. "files" \in Parts(b)
    BY DEF Parts
  <1> QED BY <1>1, <1>2, PartWritten

\* pg_restore writes the database of one bundle.
Reloaded(b) == data' = [data EXCEPT ![b]["db"] = IF @ = "part" THEN "new" ELSE "part"]
LEMMA DatabaseWritten ==
    ASSUME DataTypes, NEW b \in Paused, b \in Carried, Reloaded(b), "db" \in Parts(b), Paused' = Paused
    PROVE  /\ DataTypes'
           /\ \A q \in Parts(b) : q # "db" => data'[b][q] = data[b][q]
           /\ \A c \in Carried : c # b => data'[c] = data[c]
PROOF
  <1>1. PICK v \in Payload : data' = [data EXCEPT ![b]["db"] = v]
    <2>1. (IF data[b]["db"] = "part" THEN "new" ELSE "part") \in Payload
      BY DEF Payload
    <2> QED BY <2>1 DEF Reloaded
  <1> QED BY <1>1, PartWritten

\* Nothing is restored yet.
LEMMA DataInvInit == RecInit => DataInv
PROOF
  <1> SUFFICES ASSUME RecInit PROVE DataInv
    OBVIOUS
  <1>1. data = [b \in Carried |-> [p \in Parts(b) |-> "old"]]
    BY DEF RecInit
  <1>2. \A b \in Carried : [p \in Parts(b) |-> "old"] \in [Parts(b) -> Payload]
    BY DEF Payload
  <1>3. \A b \in Carried : [p \in Parts(b) |-> "old"] \in [{"files"} -> Payload] \cup [{"files", "db"} -> Payload]
    BY DEF Payload, Parts
  <1>4. DataTypes
    BY <1>1, <1>2, <1>3 DEF DataTypes
  <1>5. jour.stage = "none" /\ rec.at = "off" /\ sourceRows \in {0, 1}
    BY DEF RecInit, NoJournal, NoExec
  <1> QED BY <1>4, <1>5 DEF DataInv, TickedOff, PassedBy

\* A step that restores nothing, and leaves the executor off, at the beginning of
\* its work or where it was.
LEMMA DataKept ==
    ASSUME DataInv, UNCHANGED <<data, marker, pauseRow, sourceRows>>,
           Paused \cap marker = {} => running' = running \/ Paused \subseteq running',
           Paused' = Paused, AppScopes' = AppScopes, IdentityScope' = IdentityScope,
           jour'.stage \in Early \cup {jour.stage},
           rec'.at \in {"handoff", "load", "identity", "files", "databases"} => rec'.todo = {} \/ UNCHANGED rec,
           rec'.at \in {"dispatch", "note", "start", "wait"} => rec.at \in {"dispatch", "note", "start", "wait"},
           rec'.at = "complete" => rec.at = "complete", Paused \subseteq Carried
    PROVE  DataInv'
PROOF
  <1>1. DataTypes' /\ (IdentityRestored' <=> IdentityRestored) /\ (FilesRestored' <=> FilesRestored)
        /\ (DatabasesRestored' <=> DatabasesRestored)
    BY DEF DataInv, DataTypes, Parts, IdentityRestored, FilesRestored, DatabasesRestored
  <1>2. GatesOpen => GatesOpen'
    BY DEF GatesOpen
  <1>3. TickedOff'
    BY <1>1 DEF DataInv, TickedOff
  <1>4. PassedBy(jour.stage)'
    BY <1>1, <1>2 DEF DataInv, PassedBy, Early
  <1> QED BY <1>1, <1>3, <1>4 DEF DataInv

\* A stage is reached once its work is done.
LEMMA StageDone ==
    ASSUME DataInv, JournalInv, UNCHANGED <<data, sourceRows>>, NEW s \in Late, s # "completed", Reach(s),
           Paused' = Paused, AppScopes' = AppScopes, IdentityScope' = IdentityScope,
           s \in {"bundles_written", "files_promoted", "databases_restored", "apps_resumed"} => IdentityRestored,
           s \in {"files_promoted", "databases_restored", "apps_resumed"} => FilesRestored,
           s \in {"databases_restored", "apps_resumed"} => DatabasesRestored,
           s = "apps_resumed" => GatesOpen'
    PROVE  DataInv'
PROOF
  <1>1. DataTypes' /\ (IdentityRestored' <=> IdentityRestored) /\ (FilesRestored' <=> FilesRestored)
        /\ (DatabasesRestored' <=> DatabasesRestored)
    BY DEF DataInv, DataTypes, Parts, IdentityRestored, FilesRestored, DatabasesRestored
  <1>2. jour'.stage = s /\ rec'.at = NextWork(s) /\ rec'.todo = {}
    BY DEF Reach, Persist, JournalInv, JournalForm, ExecForm
  <1>3. TickedOff'
    BY <1>1, <1>2, WorkAfter DEF TickedOff
  <1>4. PassedBy(jour.stage)'
    BY <1>1, <1>2 DEF PassedBy
  <1> QED BY <1>1, <1>3, <1>4 DEF DataInv

\* Every step restores what it ticks off.
LEMMA DataInvStep == JournalInv /\ JournalInv' /\ DataInv /\ [RecNext]_recVars => DataInv'
PROOF
  <1> SUFFICES ASSUME JournalInv, JournalInv', DataInv, [RecNext]_recVars PROVE DataInv'
    OBVIOUS
  <1>1. /\ jour \in JournalForm /\ rec \in ExecForm /\ jour' \in JournalForm /\ rec' \in ExecForm
        /\ Placed(rec.at, jour.stage)
    BY DEF JournalInv
  <1>2. /\ Paused' = Paused /\ AppScopes' = AppScopes /\ IdentityScope' = IdentityScope
        /\ Paused \subseteq Carried /\ AppScopes \subseteq Paused /\ IdentityScope \subseteq {Identity}
        /\ IdentityScope \subseteq Paused /\ Identity \notin AppScopes
    BY PausedCarried, SelectedStays
  <1>3. DataTypes /\ TickedOff /\ PassedBy(jour.stage) /\ sourceRows \in {0, 1}
    BY DEF DataInv
  <1>4. ASSUME UNCHANGED <<data, marker, pauseRow, running, sourceRows>>, jour'.stage \in Early \cup {jour.stage},
               rec'.at \in {"off", "handoff", "extract", "load", "undo", "plan", "index", "swap", "rollback",
                            "pause", "daemon", "resume", "attach"},
               rec'.at \in {"handoff", "load"} => rec'.todo = {}
        PROVE  DataInv'
    BY <1>2, <1>4, DataKept
  <1>5. ASSUME UNCHANGED <<data, marker, pauseRow, running, sourceRows>>, offlineFailRestore PROVE DataInv'
    <2>1. jour'.stage = jour.stage /\ rec'.at = "off"
      BY <1>1, <1>5, FailureKeepsStage, Ended
    <2> QED BY <1>4, <1>5, <2>1
  <1>6. CASE offlineStageAndValidate
    <2>1. UNCHANGED <<data, marker, pauseRow, running, sourceRows>>
      BY <1>6 DEF offlineStageAndValidate, appVars
    <2>2. jour'.stage \in {"staged", "staging"} /\ rec' = NoExec
      BY <1>1, <1>6 DEF offlineStageAndValidate, JournalForm
    <2> QED BY <1>4, <2>1, <2>2, Ended DEF Early
  <1>7. CASE readPhraseHandoffCLI
    <2>1. UNCHANGED <<data, marker, pauseRow, running, sourceRows>>
      BY <1>7 DEF readPhraseHandoffCLI, appVars
    <2>2. UNCHANGED jour /\ rec.at = "handoff" /\ (rec' = NoExec \/ rec' = [rec EXCEPT !.at = "load"])
      BY <1>7 DEF readPhraseHandoffCLI
    <2>3. rec.todo = {}
      BY <1>3, <2>2 DEF TickedOff
    <2>4. rec'.at = "off" \/ (rec'.at = "load" /\ rec'.todo = {})
      BY <1>1, <2>2, <2>3, Ended DEF ExecForm
    <2> QED BY <1>4, <2>1, <2>2, <2>4
  <1>8. CASE RunOfflineRecoveryRestore
    <2>1. UNCHANGED <<data, marker, pauseRow, running, sourceRows>>
      BY <1>8 DEF RunOfflineRecoveryRestore, appVars, sideVars
    <2>2. jour'.stage = jour.stage /\ rec.at = "load" /\ rec.todo = {}
      BY <1>1, <1>3, <1>8 DEF RunOfflineRecoveryRestore, JournalForm, TickedOff
    <2>3. PICK a, i : rec' = [rec EXCEPT !.at = a, !.i = i] /\ a \in {SwapEntry, NextWork(jour.stage)}
      BY <1>8 DEF RunOfflineRecoveryRestore
    <2>4. rec'.at = a /\ rec'.todo = {}
      BY <1>1, <2>2, <2>3 DEF ExecForm
    <2>5. a \in {"undo", "plan", "pause", "daemon", "identity", "files", "databases", "resume", "attach"}
      BY <2>3, WorkAfter DEF SwapEntry
    <2> QED BY <1>2, <2>1, <2>2, <2>4, <2>5, DataKept
  <1>9. CASE RollbackServerConfigSwap
    <2>1. UNCHANGED <<data, marker, pauseRow, running, sourceRows>> /\ rec.at \in {"undo", "rollback"}
      BY <1>9 DEF RollbackServerConfigSwap, appVars
    <2>2. \/ offlineFailRestore
          \/ UNCHANGED jour /\ rec' = [rec EXCEPT !.at = "plan", !.i = 0]
          \/ UNCHANGED jour /\ rec' = rec
          \/ UNCHANGED jour /\ rec' = [rec EXCEPT !.i = @ - 1]
      BY <1>9 DEF RollbackServerConfigSwap
    <2>3. /\ [rec EXCEPT !.at = "plan", !.i = 0].at = "plan"
          /\ [rec EXCEPT !.i = @ - 1].at = rec.at
      BY <1>1 DEF ExecForm
    <2> QED BY <1>4, <1>5, <2>1, <2>2, <2>3
  <1>10. CASE PlanServerConfigSwap
    <2>1. UNCHANGED <<data, marker, pauseRow, running, sourceRows>>
      BY <1>10 DEF PlanServerConfigSwap, appVars, sideVars
    <2>2. jour' = [jour EXCEPT !.stage = "swapping"] /\ rec' = [rec EXCEPT !.at = "index", !.i = 0]
      BY <1>10 DEF PlanServerConfigSwap, Persist
    <2>3. jour'.stage \in Early \cup {jour.stage} /\ rec'.at \in {"index"}
      BY <1>1, <2>2 DEF JournalForm, ExecForm, Early
    <2> QED BY <1>4, <2>1, <2>3
  <1>11. CASE WriteRollbackIndex
    <2>1. UNCHANGED <<data, marker, pauseRow, running, sourceRows>>
      BY <1>11 DEF WriteRollbackIndex, appVars, sideVars
    <2>2. /\ UNCHANGED jour /\ rec.at = "index"
          /\ \/ rec' = [rec EXCEPT !.at = "undo", !.i = Len(SwapFiles)]
             \/ \E k \in {1, 2} : rec' = [rec EXCEPT !.i = k]
             \/ rec' = [rec EXCEPT !.at = "swap", !.i = 1]
      BY <1>11 DEF WriteRollbackIndex, Persist
    <2>3. jour'.stage \in Early \cup {jour.stage} /\ rec'.at \in {"index", "undo", "swap"}
      BY <1>1, <2>2 DEF JournalForm, ExecForm, Early
    <2> QED BY <1>4, <2>1, <2>3
  <1>12. CASE swapOneFile
    <2>1. UNCHANGED <<data, marker, pauseRow, running, sourceRows>>
      BY <1>12 DEF swapOneFile, appVars, sideVars
    <2>2. /\ UNCHANGED jour /\ rec.at = "swap"
          /\ rec' = rec \/ rec' = [rec EXCEPT !.i = @ + 1]
      BY <1>12 DEF swapOneFile, Persist
    <2>3. jour'.stage \in Early \cup {jour.stage} /\ rec'.at \in {"swap"}
      BY <1>1, <2>2 DEF JournalForm, ExecForm, Early
    <2> QED BY <1>4, <2>1, <2>3
  <1>13. CASE Swapped
    <2>1. UNCHANGED <<data, marker, pauseRow, running, sourceRows>>
      BY <1>13 DEF Swapped, appVars, sideVars
    <2>2. Reach("swapped")
      BY <1>13 DEF Swapped
    <2> QED BY <1>2, <2>1, <2>2, StageDone DEF Late
  <1>14. CASE offlinePauseAppWriters
    <2>1. UNCHANGED <<data, sourceRows>> /\ rec.at = "pause" /\ jour.stage = "swapped"
      BY <1>1, <1>14 DEF offlinePauseAppWriters, appVars, sideVars, Placed
    <2>2. \/ Reach("apps_paused")
          \/ UNCHANGED jour /\ (rec' = rec \/ \E b : rec' = [rec EXCEPT !.todo = @ \cup {b}])
      BY <1>14 DEF offlinePauseAppWriters
    <2>3. CASE Reach("apps_paused")
      BY <1>2, <2>1, <2>3, StageDone DEF Late
    <2>4. CASE UNCHANGED jour /\ (rec' = rec \/ \E b : rec' = [rec EXCEPT !.todo = @ \cup {b}])
      <3>1. rec'.at = "pause"
        BY <1>1, <2>1, <2>4 DEF ExecForm
      <3>2. DataTypes'
        BY <1>2, <1>3, <2>1 DEF DataTypes, Parts
      <3> QED BY <1>3, <2>1, <2>4, <3>1, <3>2 DEF DataInv, TickedOff, PassedBy
    <2> QED BY <2>2, <2>3, <2>4
  <1>15. CASE StartDaemon
    <2>1. UNCHANGED <<data, marker, pauseRow, running, sourceRows>>
      BY <1>15 DEF StartDaemon, appVars
    <2>2. Reach("unit-started")
      BY <1>15 DEF StartDaemon
    <2> QED BY <1>2, <2>1, <2>2, StageDone DEF Late
  <1>16. CASE offlinePromoteIdentity
    <2>1. /\ UNCHANGED <<jour, sourceRows>> /\ rec.at = "identity" /\ jour.stage = "unit-started"
          /\ rec.todo = {} \/ (rec.todo = IdentityScope /\ IdentityRestored)
      BY <1>1, <1>3, <1>16 DEF offlinePromoteIdentity, sideVars, Placed, TickedOff
    <2>2. CASE rec.todo = IdentityScope
      <3>1. /\ UNCHANGED data /\ rec' = [rec EXCEPT !.at = "dispatch", !.todo = {}]
            /\ UNCHANGED <<marker, pauseRow, running>>
        BY <1>16, <2>2 DEF offlinePromoteIdentity
      <3>2. rec'.at = "dispatch"
        BY <1>1, <3>1 DEF ExecForm
      <3>3. IdentityRestored'
        BY <1>2, <2>1, <2>2, <3>1 DEF IdentityRestored
      <3>4. DataTypes'
        BY <1>2, <1>3, <3>1 DEF DataTypes, Parts
      <3> QED BY <1>3, <2>1, <3>2, <3>3, <3>4 DEF DataInv, TickedOff, PassedBy
    <2>3. CASE rec.todo # IdentityScope
      <3>1. /\ Rsync(Identity) /\ rec.todo = {} /\ IdentityScope = {Identity}
            /\ rec' = IF data'[Identity]["files"] = "new" THEN [rec EXCEPT !.todo = IdentityScope] ELSE rec
        BY <1>2, <1>16, <2>1, <2>3 DEF offlinePromoteIdentity
      <3>2. Identity \in Paused /\ Identity \in Carried
        BY <1>2, <3>1
      <3>3. DataTypes'
        BY <1>2, <1>3, <3>1, <3>2, FilesWritten
      <3>4. /\ rec'.at = "identity"
            /\ (rec'.todo = {} \/ (rec'.todo = IdentityScope /\ data'[Identity]["files"] = "new"))
        BY <1>1, <2>1, <3>1 DEF ExecForm
      <3>5. data'[Identity]["files"] = "new" => IdentityRestored'
        BY <1>2, <3>1 DEF IdentityRestored
      <3> QED BY <1>2, <1>3, <2>1, <3>3, <3>4, <3>5 DEF DataInv, TickedOff, PassedBy
    <2> QED BY <2>2, <2>3
  <1>17. CASE DispatchApply
    <2>1. UNCHANGED <<data, marker, pauseRow, running, sourceRows>>
      BY <1>17 DEF DispatchApply, appVars, sideVars
    <2>2. /\ UNCHANGED jour /\ rec.at = "dispatch"
          /\ (rec' = [rec EXCEPT !.at = "note", !.fresh = TRUE] \/ rec' = [rec EXCEPT !.at = "wait", !.fresh = FALSE])
      BY <1>17 DEF DispatchApply
    <2>3. rec'.at \in {"note", "wait"}
      BY <1>1, <2>2 DEF ExecForm
    <2> QED BY <1>2, <2>1, <2>2, <2>3, DataKept
  <1>18. CASE JournalApply
    <2>1. UNCHANGED <<data, marker, pauseRow, running, sourceRows>>
      BY <1>18 DEF JournalApply, appVars, sideVars
    <2>2. /\ jour' = [jour EXCEPT !.apply = Len(applies)] /\ rec.at = "note"
          /\ rec' = [rec EXCEPT !.at = "start"]
      BY <1>18 DEF JournalApply
    <2>3. jour'.stage = jour.stage /\ rec'.at = "start"
      BY <1>1, <2>2 DEF JournalForm, ExecForm
    <2> QED BY <1>2, <2>1, <2>2, <2>3, DataKept
  <1>19. CASE startStagedBundleApply
    <2>1. UNCHANGED <<data, marker, pauseRow, running, sourceRows>>
      BY <1>19 DEF startStagedBundleApply, appVars, sideVars
    <2>2. UNCHANGED jour /\ rec.at = "start" /\ (rec' = [rec EXCEPT !.at = "wait"])
      BY <1>19 DEF startStagedBundleApply
    <2>3. rec'.at \in {"wait"}
      BY <1>1, <2>2 DEF ExecForm
    <2> QED BY <1>2, <2>1, <2>2, <2>3, DataKept
  <1>20. CASE offlineWaitBundleApply
    <2>1. UNCHANGED <<data, marker, pauseRow, running, sourceRows>>
      BY <1>20 DEF offlineWaitBundleApply, appVars
    <2>2. \/ Reach("bundles_written") \/ offlineFailRestore
          \/ UNCHANGED jour /\ rec' = [rec EXCEPT !.at = "note", !.fresh = TRUE]
      BY <1>20 DEF offlineWaitBundleApply
    <2>3. rec.at = "wait" /\ IdentityRestored
      BY <1>3, <1>20 DEF offlineWaitBundleApply, TickedOff
    <2>4. CASE Reach("bundles_written")
      BY <1>2, <2>1, <2>3, <2>4, StageDone DEF Late
    <2>5. CASE UNCHANGED jour /\ rec' = [rec EXCEPT !.at = "note", !.fresh = TRUE]
      <3>1. rec'.at = "note"
        BY <1>1, <2>5 DEF ExecForm
      <3> QED BY <1>2, <2>1, <2>3, <2>5, <3>1, DataKept
    <2> QED BY <1>5, <2>1, <2>2, <2>4, <2>5
  <1>21. CASE offlinePromoteFiles
    <2>1. /\ UNCHANGED <<marker, pauseRow, running, sourceRows>> /\ rec.at = "files"
          /\ jour.stage = "bundles_written" /\ IdentityRestored
          /\ rec.todo \subseteq AppScopes /\ \A b \in rec.todo : data[b]["files"] = "new"
      BY <1>1, <1>3, <1>21 DEF offlinePromoteFiles, sideVars, Placed, TickedOff, PassedBy
    <2>2. CASE rec.todo = AppScopes
      <3>1. Reach("files_promoted") /\ UNCHANGED data /\ FilesRestored
        BY <1>21, <2>1, <2>2 DEF offlinePromoteFiles, FilesRestored
      <3> QED BY <1>2, <2>1, <3>1, StageDone DEF Late
    <2>3. CASE rec.todo # AppScopes
      <3>1. PICK b \in AppScopes \ rec.todo :
               /\ Rsync(b) /\ UNCHANGED jour
               /\ rec' = IF data'[b]["files"] = "new" THEN [rec EXCEPT !.todo = @ \cup {b}] ELSE rec
        BY <1>21, <2>3 DEF offlinePromoteFiles
      <3>2. b \in Paused /\ b \in Carried /\ b \notin IdentityScope
        BY <1>2
      <3>3. DataTypes' /\ \A c \in Carried : c # b => data'[c] = data[c]
        BY <1>2, <1>3, <3>1, <3>2, FilesWritten
      <3>4. /\ rec'.at = "files"
            /\ (rec'.todo = rec.todo \/ (rec'.todo = rec.todo \cup {b} /\ data'[b]["files"] = "new"))
        BY <1>1, <2>1, <3>1 DEF ExecForm
      <3>5. IdentityRestored'
        BY <1>2, <2>1, <3>2, <3>3 DEF IdentityRestored
      <3>6. rec'.todo \subseteq AppScopes /\ \A c \in rec'.todo : data'[c]["files"] = "new"
        BY <1>2, <2>1, <3>1, <3>3, <3>4
      <3>7. TickedOff'
        BY <1>2, <3>4, <3>6 DEF TickedOff
      <3>8. PassedBy(jour.stage)'
        BY <2>1, <3>1, <3>5 DEF PassedBy
      <3> QED BY <1>3, <2>1, <3>3, <3>7, <3>8 DEF DataInv
    <2> QED BY <2>2, <2>3
  <1>22. CASE offlineRestoreDatabases
    <2>1. /\ UNCHANGED <<marker, pauseRow, running, sourceRows>> /\ rec.at = "databases"
          /\ jour.stage = "files_promoted" /\ IdentityRestored /\ FilesRestored
          /\ rec.todo \subseteq AppScopes \cap Databases /\ \A b \in rec.todo : data[b]["db"] = "new"
      BY <1>1, <1>3, <1>22 DEF offlineRestoreDatabases, sideVars, Placed, TickedOff, PassedBy
    <2>2. CASE rec.todo = AppScopes \cap Databases
      <3>1. Reach("databases_restored") /\ UNCHANGED data /\ DatabasesRestored
        BY <1>22, <2>1, <2>2 DEF offlineRestoreDatabases, DatabasesRestored
      <3> QED BY <1>2, <2>1, <3>1, StageDone DEF Late
    <2>3. CASE rec.todo # AppScopes \cap Databases
      <3>1. PICK b \in (AppScopes \cap Databases) \ rec.todo :
               /\ Reloaded(b) /\ UNCHANGED jour
               /\ rec' = IF data'[b]["db"] = "new" THEN [rec EXCEPT !.todo = @ \cup {b}] ELSE rec
        BY <1>22, <2>3 DEF offlineRestoreDatabases, Reloaded
      <3>2. /\ b \in Paused /\ b \in Carried /\ b \notin IdentityScope /\ "db" \in Parts(b)
            /\ "files" \in Parts(b)
        BY <1>2 DEF Parts
      <3>4. /\ DataTypes' /\ \A q \in Parts(b) : q # "db" => data'[b][q] = data[b][q]
            /\ \A c \in Carried : c # b => data'[c] = data[c]
        BY <1>2, <1>3, <3>1, <3>2, DatabaseWritten
      <3>5. /\ rec'.at = "databases"
            /\ (rec'.todo = rec.todo \/ (rec'.todo = rec.todo \cup {b} /\ data'[b]["db"] = "new"))
        BY <1>1, <2>1, <3>1 DEF ExecForm
      <3>6. data'[b]["files"] = data[b]["files"]
        BY <3>2, <3>4
      <3>7. IdentityRestored' /\ FilesRestored'
        BY <1>2, <2>1, <3>2, <3>4, <3>6 DEF IdentityRestored, FilesRestored
      <3>8. rec'.todo \subseteq AppScopes \cap Databases /\ \A c \in rec'.todo : data'[c]["db"] = "new"
        BY <1>2, <2>1, <3>1, <3>4, <3>5
      <3>9. TickedOff'
        BY <1>2, <3>5, <3>8 DEF TickedOff
      <3>10. PassedBy(jour.stage)'
        BY <2>1, <3>1, <3>7 DEF PassedBy
      <3> QED BY <1>3, <2>1, <3>4, <3>9, <3>10 DEF DataInv
    <2> QED BY <2>2, <2>3
  <1>23. CASE offlineResumeAppWriters
    <2>1. /\ UNCHANGED <<data, sourceRows>> /\ rec.at = "resume"
          /\ \/ jour.stage = "databases_restored"
             \/ jour.stage = "files_promoted" /\ AppScopes \cap Databases = {}
             \/ jour.stage = "bundles_written" /\ AppScopes = {}
      BY <1>1, <1>23 DEF offlineResumeAppWriters, ResumeStage, sideVars, Placed
    <2>2. CASE Paused \cap (marker \cup pauseRow) # {}
      <3>1. UNCHANGED <<jour, rec>>
        BY <1>23, <2>2 DEF offlineResumeAppWriters
      <3>2. DataTypes'
        BY <1>2, <1>3, <2>1 DEF DataTypes, Parts
      <3>3. /\ IdentityRestored => IdentityRestored'
            /\ FilesRestored => FilesRestored'
            /\ DatabasesRestored => DatabasesRestored'
        BY <1>2, <2>1 DEF IdentityRestored, FilesRestored, DatabasesRestored
      <3> QED BY <1>3, <2>1, <3>1, <3>2, <3>3 DEF DataInv, TickedOff, PassedBy
    <2>3. CASE Paused \cap (marker \cup pauseRow) = {}
      <3>1. Reach("apps_resumed") /\ running' = running \cup Paused /\ UNCHANGED <<marker, pauseRow>>
        BY <1>23, <2>3 DEF offlineResumeAppWriters
      <3>2. GatesOpen'
        BY <1>2, <2>3, <3>1 DEF GatesOpen
      <3>3. IdentityRestored /\ FilesRestored /\ DatabasesRestored
        BY <1>3, <2>1 DEF PassedBy, FilesRestored, DatabasesRestored
      <3> QED BY <1>2, <2>1, <3>1, <3>2, <3>3, StageDone DEF Late
    <2> QED BY <2>2, <2>3
  <1>24. CASE offlineAttachSourceRepository
    <2>1. /\ UNCHANGED <<jour, data, marker, pauseRow, running>>
          /\ rec' = [rec EXCEPT !.at = "complete"] /\ sourceRows' = 1
          /\ rec.at = "attach"
      BY <1>3, <1>24 DEF offlineAttachSourceRepository, AttachedRow, appVars
    <2>2. rec'.at = "complete"
      BY <1>1, <2>1 DEF ExecForm
    <2>3. DataTypes' /\ (IdentityRestored' <=> IdentityRestored) /\ (FilesRestored' <=> FilesRestored)
          /\ (DatabasesRestored' <=> DatabasesRestored) /\ (GatesOpen' <=> GatesOpen)
      BY <1>2, <1>3, <2>1 DEF DataTypes, Parts, IdentityRestored, FilesRestored, DatabasesRestored,
         GatesOpen
    <2> QED BY <1>3, <2>1, <2>2, <2>3 DEF DataInv, TickedOff, PassedBy
  <1>25. CASE Completed
    <2>1. /\ UNCHANGED <<data, marker, pauseRow, running, sourceRows>> /\ rec.at = "complete" /\ rec' = NoExec
          /\ jour' = [jour EXCEPT !.stage = "completed", !.status = "completed", !.resume = FALSE]
      BY <1>25 DEF Completed, appVars, EndExec
    <2>2. jour'.stage = "completed" /\ rec'.at = "off"
      BY <1>1, <2>1, Ended DEF JournalForm
    <2>3. sourceRows = 1 /\ (jour.stage = "apps_resumed" \/ Paused = {})
      BY <1>1, <1>3, <2>1 DEF TickedOff, Placed
    <2>4. IdentityRestored /\ FilesRestored /\ DatabasesRestored /\ GatesOpen
      <3>1. CASE jour.stage = "apps_resumed"
        BY <1>3, <3>1 DEF PassedBy
      <3>2. CASE Paused = {}
        BY <1>2, <3>2 DEF IdentityRestored, FilesRestored, DatabasesRestored, GatesOpen
      <3> QED BY <2>3, <3>1, <3>2
    <2>5. DataTypes' /\ IdentityRestored' /\ FilesRestored' /\ DatabasesRestored' /\ GatesOpen'
      BY <1>2, <1>3, <2>1, <2>4 DEF DataTypes, Parts, IdentityRestored, FilesRestored,
         DatabasesRestored, GatesOpen
    <2> QED BY <2>1, <2>2, <2>3, <2>5 DEF DataInv, TickedOff, PassedBy
  <1>26. CASE PrepareRecoveryRestore
    <2>1. UNCHANGED <<data, marker, pauseRow, running, sourceRows>>
      BY <1>26 DEF PrepareRecoveryRestore, appVars
    <2>2. rec' = rec /\ rec.at = "off" /\ jour'.stage \in {"none", "staged"}
      BY <1>26 DEF PrepareRecoveryRestore, NoJournal
    <2> QED BY <1>4, <2>1, <2>2 DEF Early
  <1>27. CASE StageOfflineRecoverySnapshot
    <2>1. UNCHANGED <<data, marker, pauseRow, running, sourceRows>>
      BY <1>27 DEF StageOfflineRecoverySnapshot, appVars
    <2>2. rec'.at = "extract" /\ jour'.stage = "listing"
      BY <1>27, Begun DEF StageOfflineRecoverySnapshot
    <2> QED BY <1>4, <2>1, <2>2 DEF Early
  <1>28. CASE TriggerRecoveryRestoreUnit
    <2>1. UNCHANGED <<data, marker, pauseRow, running, sourceRows>>
      BY <1>28 DEF TriggerRecoveryRestoreUnit, appVars
    <2>2. \/ rec' = rec /\ rec.at = "off"
          \/ rec' = [NoExec EXCEPT !.at = "handoff", !.by = "unit"]
      BY <1>28 DEF TriggerRecoveryRestoreUnit
    <2>3. /\ [NoExec EXCEPT !.at = "handoff", !.by = "unit"].at = "handoff"
          /\ [NoExec EXCEPT !.at = "handoff", !.by = "unit"].todo = {}
      BY DEF NoExec
    <2>4. jour'.stage = jour.stage
      BY <1>1, <1>28 DEF TriggerRecoveryRestoreUnit, JournalForm
    <2> QED BY <1>4, <2>1, <2>2, <2>3, <2>4
  <1>29. CASE RecoveryApplyCmd
    <2>1. UNCHANGED <<data, marker, pauseRow, running, sourceRows>>
      BY <1>29 DEF RecoveryApplyCmd, appVars
    <2>2. UNCHANGED jour /\ rec' = [NoExec EXCEPT !.at = "load", !.by = "cli", !.hadDaemon = omahabd = "up"]
      BY <1>29 DEF RecoveryApplyCmd
    <2>3. rec'.at = "load" /\ rec'.todo = {}
      BY <2>2 DEF NoExec
    <2> QED BY <1>4, <2>1, <2>2, <2>3
  <1>30. CASE ApplyEnds
    <2>1. UNCHANGED <<jour, rec, data, marker, pauseRow, sourceRows>> /\ running \subseteq running'
      BY <1>30 DEF ApplyEnds, sideVars
    <2>2. DataTypes' /\ (IdentityRestored' <=> IdentityRestored) /\ (FilesRestored' <=> FilesRestored)
          /\ (DatabasesRestored' <=> DatabasesRestored) /\ (GatesOpen => GatesOpen')
      BY <1>2, <1>3, <2>1 DEF DataTypes, Parts, IdentityRestored, FilesRestored, DatabasesRestored,
         GatesOpen
    <2> QED BY <1>2, <1>3, <2>1, <2>2 DEF DataInv, TickedOff, PassedBy
  <1>31. CASE SwapFails
    <2>1. UNCHANGED <<data, marker, pauseRow, running, sourceRows>>
      BY <1>31 DEF SwapFails, appVars, sideVars
    <2>2. /\ jour' = [jour EXCEPT !.stage = "rolling_back"]
          /\ rec' = [rec EXCEPT !.at = "rollback", !.i = Len(SwapFiles)]
      BY <1>31 DEF SwapFails, Persist
    <2>3. jour'.stage \in Early \cup {jour.stage} /\ rec'.at \in {"rollback"}
      BY <1>1, <2>2 DEF JournalForm, ExecForm, Early
    <2> QED BY <1>4, <2>1, <2>3
  <1>32. CASE StepFails
    <2>1. UNCHANGED <<data, marker, pauseRow, running, sourceRows>>
      BY <1>32 DEF StepFails, appVars
    <2> QED BY <1>5, <2>1, <1>32 DEF StepFails
  <1>33. CASE ExecutorKilled
    <2>1. UNCHANGED <<data, marker, pauseRow, running, sourceRows>>
      BY <1>33 DEF ExecutorKilled, appVars
    <2> QED BY <1>4, <2>1, Ended, <1>33 DEF ExecutorKilled
  <1>34. CASE PowerCut
    <2>1. /\ UNCHANGED <<jour, data, marker, pauseRow, sourceRows>> /\ rec' = NoExec
          /\ running' = Carried \ marker
      BY <1>34 DEF PowerCut
    <2>2. Paused \cap marker = {} => Paused \subseteq running'
      BY <1>2, <2>1
    <2> QED BY <1>2, <2>1, <2>2, Ended, DataKept
  <1>35. CASE UNCHANGED recVars
    <2>1. UNCHANGED <<jour, rec, data, marker, pauseRow, running, sourceRows>>
      BY <1>35 DEF recVars
    <2> QED BY <1>2, <2>1, DataKept
  <1>36. CASE IndexFails
    <2>1. UNCHANGED <<data, marker, pauseRow, running, sourceRows>>
      BY <1>36 DEF IndexFails, appVars
    <2>2. jour' = [jour EXCEPT !.stage = "rolling_back", !.status = "failed"] /\ rec' = NoExec
      BY <1>36 DEF IndexFails, EndExec
    <2>3. jour'.stage \in Early \cup {jour.stage} /\ rec'.at \in {"off"}
      BY <1>1, <2>2, Ended DEF JournalForm, Early
    <2> QED BY <1>4, <2>1, <2>3
  <1> QED
    BY <1>6, <1>7, <1>8, <1>9, <1>10, <1>11, <1>12, <1>13, <1>14, <1>15, <1>16, <1>17, <1>18, <1>19, 
       <1>20, <1>21, <1>22, <1>23, <1>24, <1>25, <1>26, <1>27, <1>28, <1>29, <1>30, <1>31, <1>32, <1>33, 
       <1>34, <1>35, <1>36
       DEF RecNext, ExecutorStep, OperatorStep

\* Where the journal is, the paths and the payloads together.
THEOREM RecoveryInvariantHolds == RecSpec => [](JournalInv /\ SwapInv /\ DataInv)
PROOF
  <1>1. RecInit => JournalInv /\ SwapInv /\ DataInv
    BY JournalInvInit, SwapInvInit, DataInvInit
  <1>2. JournalInv /\ SwapInv /\ DataInv /\ [RecNext]_recVars => (JournalInv /\ SwapInv /\ DataInv)'
    BY JournalInvStep, SwapInvStep, DataInvStep
  <1> QED BY <1>1, <1>2, PTL DEF RecSpec

\* ApplyServerConfigSwap and RollbackServerConfigSwap: until the journal says swapped,
\* whatever failed or was cut off, every path the machine had is in place or put
\* aside under a written index.
THEOREM SwapIsReversibleHolds == RecSpec => []SwapIsReversible
PROOF
  <1>1. JournalInv /\ SwapInv => SwapIsReversible
    <2> SUFFICES ASSUME JournalInv, SwapInv, Before("swapped") PROVE SwapIsReversible
      BY DEF SwapIsReversible
    <2>1. jour.stage \in Early
      BY BeforeSwapped DEF JournalInv, JournalForm
    <2> QED BY <2>1 DEF SwapInv, SwapIsReversible, InPlace, Original, SwapPath
  <1> QED BY <1>1, RecoveryInvariantHolds, PTL

\* A journal that says completed: the paths and every selected payload are the
\* snapshot's, the others untouched, the gates open, the source repository attached.
THEOREM CompletedIsWholeHolds == RecSpec => []CompletedIsWhole
PROOF
  <1>1. JournalInv /\ SwapInv /\ DataInv => CompletedIsWhole
    <2> SUFFICES ASSUME JournalInv, SwapInv, DataInv, jour.stage = "completed" PROVE CompletedIsWhole
      BY DEF CompletedIsWhole
    <2>1. \A f \in Range1(SwapFiles) : live[f] = "new"
      BY DEF SwapInv, Late, SwapPath
    <2>2. IdentityRestored /\ FilesRestored /\ DatabasesRestored /\ GatesOpen /\ sourceRows = 1
      BY DEF DataInv, PassedBy
    <2>3. ASSUME NEW b \in Paused, NEW p \in Parts(b) PROVE data[b][p] = "new"
      <3>1. CASE p = "files"
        BY <2>2, <3>1 DEF Paused, IdentityRestored, FilesRestored
      <3>2. CASE p # "files"
        <4>1. p = "db" /\ b \in Databases
          BY <3>2 DEF Parts
        <4>2. b \in AppScopes
          BY <4>1, RecoveryAssumption DEF Paused, IdentityScope
        <4> QED BY <2>2, <4>1, <4>2 DEF DatabasesRestored
      <3> QED BY <3>1, <3>2
    <2>4. \A b \in Carried \ Paused : \A p \in Parts(b) : data[b][p] = "old"
      BY DEF DataInv, DataTypes
    <2> QED BY <2>1, <2>2, <2>3, <2>4 DEF CompletedIsWhole, GatesOpen
  <1> QED BY <1>1, RecoveryInvariantHolds, PTL

=============================================================================
