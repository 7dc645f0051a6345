----------------------- MODULE AppMaintenance_proofs ------------------------
(***************************************************************************)
(* Theorems about the application lifecycle and its maintenance pauses.    *)
(* AckedStands is made inductive by what the job in progress knows: that   *)
(* the record it is about to mark is set, and that the one it is about to  *)
(* unmark is no longer acknowledged.  ReconcileConverges needs what the    *)
(* starting daemon may rely on while nobody takes the flock (QuietInv).    *)
(***************************************************************************)
EXTENDS AppMaintenance, TLAPS

\* The bundle a job is at between the two halves of a pause or a resume.
CurInv ==
    /\ phase \in {"mark", "unmark", "starting"} => cur \in Bundle
    /\ phase = "mark" => record[cur] # "none"
    /\ phase = "unmark" => cur \notin acked

IInv == TypeOK /\ CurInv /\ AckedStands

USE DEF rowVars, jobVars, bootVars, ghost, pauses, Reason, Desired, Observed,
        Call, Kind, Phase

\* Ending a job keeps the types of its variables.
LEMMA IdleJobType == ASSUME IdleJob
                     PROVE  /\ kind' \in Kind /\ phase' = "idle"
                            /\ owners' = {} /\ left' = {} /\ todo' = {}
                            /\ cur' = "none"
BY DEF IdleJob

\* The dependents of a bundle are bundles.
LEMMA AffectedType == \A t \in Bundle : Affected(t) \in SUBSET Bundle
BY DEF Affected

\* The initial state satisfies the invariant.
LEMMA InitInv == Init => IInv
BY DEF Init, IInv, TypeOK, CurInv, AckedStands

\* API calls leave pauses and jobs alone and keep the types of the rows.
LEMMA ApiInv == ASSUME IInv, NEW b \in Bundle, ApiStep(b)
                PROVE  IInv'
<1>1. TypeOK'
  <2>1. CASE InstallCheck(b) BY <2>1 DEF InstallCheck, IInv, TypeOK
  <2>2. CASE InstallClaim(b) BY <2>2 DEF InstallClaim, IInv, TypeOK
  <2>3. CASE InstallEnd(b)   BY <2>3 DEF InstallEnd, IInv, TypeOK
  <2>4. CASE StartBegin(b)   BY <2>4 DEF StartBegin, IInv, TypeOK
  <2>5. CASE StartEnd(b)     BY <2>5 DEF StartEnd, Started, IInv, TypeOK
  <2>6. CASE StopBegin(b)    BY <2>6 DEF StopBegin, IInv, TypeOK
  <2>7. CASE StopEnd(b)      BY <2>7 DEF StopEnd, IInv, TypeOK
  <2> QED BY <2>1, <2>2, <2>3, <2>4, <2>5, <2>6, <2>7 DEF ApiStep
<1>2. UNCHANGED <<pauses, jobVars>>
  BY DEF ApiStep, InstallCheck, InstallClaim, InstallEnd, StartBegin, StartEnd,
         StopBegin, StopEnd
<1> QED BY <1>1, <1>2 DEF IInv, CurInv, AckedStands

\* The steps of a job on one bundle.
LEMMA JobBundleInv ==
    ASSUME IInv, NEW b \in Bundle,
           \/ StorageNextOwner(b) \/ Quiesce(b) \/ PauseRecord(b) \/ Clear(b)
           \/ ResumeSkip(b) \/ ResumeWanted(b)
    PROVE  IInv'
<1>1. CASE StorageNextOwner(b)
  BY <1>1, AffectedType DEF StorageNextOwner, IInv, TypeOK, CurInv, AckedStands
<1>2. CASE Quiesce(b)
  <2>1. TypeOK'
    <3>1. todo' \in SUBSET Bundle
      BY <1>2 DEF Quiesce, IInv, TypeOK, Affected
    <3>2. unit' \in [Bundle -> BOOLEAN] /\ observed' \in [Bundle -> Observed]
      BY <1>2 DEF Quiesce, IInv, TypeOK
    <3> QED BY <1>2, <3>1, <3>2 DEF Quiesce, IInv, TypeOK
  <2> QED BY <1>2, <2>1 DEF Quiesce, IInv, CurInv, AckedStands
<1>3. CASE PauseRecord(b)
  <2>1. JobReason \in Reason BY DEF JobReason
  <2>2. TypeOK' BY <1>3, <2>1 DEF PauseRecord, FirstOf, IInv, TypeOK
  <2> QED BY <1>3, <2>1, <2>2 DEF PauseRecord, IInv, TypeOK, CurInv, AckedStands
<1>4. CASE Clear(b)
  BY <1>4 DEF Clear, IInv, TypeOK, CurInv, AckedStands
<1>5. CASE ResumeSkip(b)
  BY <1>5 DEF ResumeSkip, IInv, TypeOK, CurInv, AckedStands
<1>6. CASE ResumeWanted(b)
  BY <1>6 DEF ResumeWanted, IInv, TypeOK, CurInv, AckedStands
<1> QED BY <1>1, <1>2, <1>3, <1>4, <1>5, <1>6

\* The other steps of a job.
LEMMA JobInv ==
    ASSUME IInv,
           \/ PauseMark \/ StorageWork \/ Unmark \/ ResumeStart
           \/ ResumeDone \/ JobConflict \/ JobAbort
    PROVE  IInv'
<1>1. CASE PauseMark
  <2>1. cur \in Bundle /\ record[cur] # "none"
    BY <1>1 DEF PauseMark, IInv, CurInv
  <2>2. TypeOK' BY <1>1, <2>1 DEF PauseMark, IdleJob, IInv, TypeOK
  <2>3. phase' \notin {"mark", "unmark", "starting"}
    BY <1>1 DEF PauseMark, IdleJob
  <2>4. AckedStands' BY <1>1, <2>1 DEF PauseMark, IInv, TypeOK, AckedStands
  <2> QED BY <2>2, <2>3, <2>4 DEF IInv, CurInv
<1>2. CASE StorageWork
  BY <1>2 DEF StorageWork, IInv, TypeOK, CurInv, AckedStands
<1>3. CASE Unmark
  <2>1. cur \in Bundle /\ cur \notin acked BY <1>3 DEF Unmark, IInv, CurInv
  <2>2. faults' \in Nat /\ quiet' \in BOOLEAN
    BY <1>3 DEF Unmark, Fault, IInv, TypeOK
  <2>3. marker' \in [Bundle -> BOOLEAN] /\ phase' \in Phase /\ todo' \in SUBSET Bundle
    BY <1>3 DEF Unmark, IInv, TypeOK
  <2>4. TypeOK' BY <1>3, <2>2, <2>3 DEF Unmark, IInv, TypeOK
  <2>5. phase' \notin {"mark", "unmark", "starting"} BY <1>3 DEF Unmark
  <2>6. AckedStands'
    BY <1>3, <2>1 DEF Unmark, IInv, TypeOK, AckedStands
  <2> QED BY <2>4, <2>5, <2>6 DEF IInv, CurInv
<1>4. CASE ResumeStart
  <2>1. desired' \in [Bundle -> Desired] /\ observed' \in [Bundle -> Observed]
    BY <1>4 DEF ResumeStart, IInv, TypeOK
  <2>2. unit' \in [Bundle -> BOOLEAN]
    BY <1>4 DEF ResumeStart, Started, IInv, TypeOK
  <2>3. TypeOK' BY <1>4, <2>1, <2>2 DEF ResumeStart, IInv, TypeOK
  <2> QED BY <1>4, <2>3 DEF ResumeStart, IInv, CurInv, AckedStands
<1>5. CASE ResumeDone
  BY <1>5, IdleJobType DEF ResumeDone, IInv, TypeOK, CurInv, AckedStands
<1>6. CASE JobConflict
  BY <1>6, IdleJobType DEF JobConflict, IInv, TypeOK, CurInv, AckedStands
<1>7. CASE JobAbort
  BY <1>7, IdleJobType DEF JobAbort, Fault, IInv, TypeOK, CurInv, AckedStands
<1> QED BY <1>1, <1>2, <1>3, <1>4, <1>5, <1>6, <1>7

\* Taking the flock.
LEMMA AcquireInv ==
    ASSUME IInv,
           \/ \E b \in Bundle : PauseAcquire(b) \/ ResumeAcquire(b)
           \/ \E S \in SUBSET Bundle : StorageAcquire(S)
    PROVE  IInv'
<1>1. ASSUME NEW b \in Bundle, PauseAcquire(b) PROVE IInv'
  BY <1>1, AffectedType DEF PauseAcquire, TakeFlock, IInv, TypeOK, CurInv, AckedStands
<1>2. ASSUME NEW b \in Bundle, ResumeAcquire(b) PROVE IInv'
  BY <1>2, AffectedType DEF ResumeAcquire, TakeFlock, IInv, TypeOK, CurInv, AckedStands
<1>3. ASSUME NEW S \in SUBSET Bundle, StorageAcquire(S) PROVE IInv'
  BY <1>3 DEF StorageAcquire, TakeFlock, IInv, TypeOK, CurInv, AckedStands
<1> QED BY <1>1, <1>2, <1>3

\* Crashes, reboots and the reconcile of a starting daemon.
LEMMA BootInv == ASSUME IInv, DaemonCrash \/ Reboot \/ BootStep
                 PROVE  IInv'
<1>1. CASE DaemonCrash
  BY <1>1, IdleJobType DEF DaemonCrash, Fault, IInv, TypeOK, CurInv, AckedStands
<1>2. CASE Reboot
  BY <1>2, IdleJobType DEF Reboot, Fault, IInv, TypeOK, CurInv, AckedStands
<1>3. CASE ReconcileRead
  BY <1>3 DEF ReconcileRead, IInv, TypeOK, CurInv, AckedStands
<1>4. CASE ReconcileMarkers
  BY <1>4 DEF ReconcileMarkers, IInv, TypeOK, CurInv, AckedStands
<1>5. CASE ReconcileAdopt
  BY <1>5 DEF ReconcileAdopt, IInv, TypeOK, CurInv, AckedStands
<1> QED BY <1>1, <1>2, <1>3, <1>4, <1>5 DEF BootStep

\* Every step preserves the invariant.
LEMMA NextInv == IInv /\ [Next]_vars => IInv'
<1> SUFFICES ASSUME IInv, [Next]_vars PROVE IInv'
  OBVIOUS
<1>1. CASE UNCHANGED vars
  BY <1>1 DEF vars, IInv, TypeOK, CurInv, AckedStands
<1>2. CASE Next
  BY <1>2, ApiInv, JobBundleInv, JobInv, AcquireInv, BootInv DEF Next, JobStep
<1> QED BY <1>1, <1>2

THEOREM Inductive == Spec => []IInv
<1> QED BY InitInv, NextInv, PTL DEF Spec

\* The variables keep their types.
THEOREM TypeCorrect == Spec => []TypeOK
<1>1. IInv => TypeOK BY DEF IInv
<1> QED BY <1>1, Inductive, PTL

\* An acknowledged pause keeps its record and its marker, through crashes,
\* reboots, reconciles and jobs on other bundles, until it is cleared.
THEOREM AckedPausesStand == Spec => []AckedStands
<1>1. IInv => AckedStands BY DEF IInv
<1> QED BY <1>1, Inductive, PTL

\* While an acknowledged pause stands, no step of any actor brings a unit that
\* is down up again.
THEOREM PausedUnitsStayDown == Spec => PausedStaysDown
<1> DEFINE Down == \A b \in acked \cap acked' : ~unit[b] => ~unit'[b]
<1>1. ASSUME IInv, [Next]_vars PROVE Down
  <2> SUFFICES ASSUME NEW b \in acked, ~unit[b], b \in acked' PROVE ~unit'[b]
    OBVIOUS
  <2>1. marker[b] /\ b \in Bundle /\ unit \in [Bundle -> BOOLEAN]
        /\ cur \in Bundle \cup {"none"}
    BY <1>1 DEF IInv, TypeOK, AckedStands
  <2>2. CASE UNCHANGED vars BY <2>2 DEF vars
  <2>3. ASSUME NEW c \in Bundle, ApiStep(c) PROVE ~unit'[b]
    BY <2>1, <2>3 DEF ApiStep, InstallCheck, InstallClaim, InstallEnd, StartBegin,
       StartEnd, Started, StopBegin, StopEnd
  <2>4. ASSUME NEW c \in Bundle,
               \/ PauseAcquire(c) \/ ResumeAcquire(c) \/ StorageNextOwner(c)
               \/ Quiesce(c) \/ PauseRecord(c) \/ Clear(c)
               \/ ResumeSkip(c) \/ ResumeWanted(c)
        PROVE  ~unit'[b]
    BY <2>1, <2>4 DEF PauseAcquire, ResumeAcquire, StorageNextOwner, Quiesce,
       PauseRecord, Clear, ResumeSkip, ResumeWanted
  <2>5. ASSUME NEW S \in SUBSET Bundle, StorageAcquire(S) PROVE ~unit'[b]
    BY <2>5 DEF StorageAcquire
  <2>6. CASE PauseMark \/ StorageWork \/ Unmark \/ ResumeDone \/ JobConflict \/ JobAbort
    BY <2>6 DEF PauseMark, StorageWork, Unmark, ResumeDone, JobConflict, JobAbort
  <2>7. CASE ResumeStart
    BY <2>1, <2>7 DEF ResumeStart, Started
  <2>8. CASE DaemonCrash
    BY <2>1, <2>8 DEF DaemonCrash, UnitAfterCrash
  <2>9. CASE Reboot
    BY <2>1, <2>9 DEF Reboot
  <2>10. CASE BootStep
    BY <2>10 DEF BootStep, ReconcileRead, ReconcileMarkers, ReconcileAdopt
  <2> QED
    BY <1>1, <2>2, <2>3, <2>4, <2>5, <2>6, <2>7, <2>8, <2>9, <2>10 DEF Next, JobStep
<1>2. IInv /\ [Next]_vars => [Down]_vars
  BY <1>1
<1> QED BY Inductive, <1>2, PTL DEF Spec, PausedStaysDown

\* What the reconcile of a starting daemon may rely on while nobody has taken the
\* flock since it listed the records: the list is the records, and after the
\* markers every one of them has its marker.
QuietInv ==
    /\ kind = "idle" <=> phase = "idle"
    /\ daemon \in {"read", "restored"} /\ quiet =>
          /\ kind = "idle"
          /\ snap = {b \in Bundle : record[b] # "none"}
          /\ daemon = "restored" => \A b \in snap : marker[b]

\* A job that has ended is idle in both of its variables.
LEMMA IdleIsIdle == ASSUME IdleJob PROVE kind' = "idle" /\ phase' = "idle"
BY DEF IdleJob

\* API calls write neither half of a pause.
LEMMA ApiQuiet == ASSUME QuietInv, NEW b \in Bundle, ApiStep(b) PROVE QuietInv'
<1>1. UNCHANGED <<record, marker, kind, phase, daemon, snap, quiet>>
  BY DEF ApiStep, InstallCheck, InstallClaim, InstallEnd, StartBegin, StartEnd,
         StopBegin, StopEnd
<1> QED BY <1>1 DEF QuietInv

\* Whoever takes the flock ends the quiet.
LEMMA AcquireQuiet ==
    ASSUME QuietInv,
           \/ \E b \in Bundle : PauseAcquire(b) \/ ResumeAcquire(b)
           \/ \E S \in SUBSET Bundle : StorageAcquire(S)
    PROVE  QuietInv'
<1>1. ~quiet' /\ kind' # "idle" /\ phase' # "idle"
  BY DEF PauseAcquire, ResumeAcquire, StorageAcquire, TakeFlock
<1> QED BY <1>1 DEF QuietInv

\* A step of a job is taken under the flock, so it is not in a quiet reconcile; it
\* ends the job in both variables or in none.
LEMMA JobQuiet == ASSUME TypeOK, QuietInv, JobStep \/ JobAbort PROVE QuietInv'
<1>1. kind # "idle" /\ phase # "idle"
  BY DEF QuietInv, JobStep, StorageNextOwner, Quiesce, PauseRecord, Clear, ResumeSkip,
     ResumeWanted, PauseMark, StorageWork, Unmark, ResumeStart, ResumeDone, JobConflict,
     InConflict, JobAbort
<1>2. kind' = "idle" <=> phase' = "idle"
  <2>1. ASSUME NEW b \in Bundle,
               \/ StorageNextOwner(b) \/ Quiesce(b) \/ PauseRecord(b) \/ Clear(b)
               \/ ResumeSkip(b) \/ ResumeWanted(b)
        PROVE  kind' = kind /\ phase' # "idle"
    BY <1>1, <2>1 DEF StorageNextOwner, Quiesce, PauseRecord, Clear, ResumeSkip, ResumeWanted
  <2>2. CASE PauseMark
    BY <1>1, <2>2, IdleIsIdle DEF PauseMark
  <2>3. CASE StorageWork \/ Unmark \/ ResumeStart
    BY <1>1, <2>3 DEF StorageWork, Unmark, ResumeStart
  <2>4. CASE ResumeDone \/ JobConflict \/ JobAbort
    BY <2>4, IdleIsIdle DEF ResumeDone, JobConflict, JobAbort
  <2> QED BY <1>1, <2>1, <2>2, <2>3, <2>4 DEF JobStep
<1>3. daemon' = daemon /\ (quiet' => quiet)
  BY DEF JobStep, StorageNextOwner, Quiesce, PauseRecord, Clear, ResumeSkip,
     ResumeWanted, PauseMark, StorageWork, Unmark, ResumeStart, ResumeDone, JobConflict,
     JobAbort, Fault
<1> QED BY <1>1, <1>2, <1>3 DEF QuietInv

\* Crashes, reboots and the steps of the reconcile.
LEMMA BootQuiet == ASSUME TypeOK, QuietInv, DaemonCrash \/ Reboot \/ BootStep
                   PROVE  QuietInv'
<1>1. CASE DaemonCrash
  <2>1. daemon' = "down" BY <1>1 DEF DaemonCrash
  <2>2. kind' = "idle" <=> phase' = "idle"
    BY <1>1, IdleIsIdle DEF DaemonCrash, QuietInv
  <2> QED BY <2>1, <2>2 DEF QuietInv
<1>2. CASE Reboot
  <2>1. daemon' = "down" BY <1>2 DEF Reboot
  <2>2. kind' = "idle" /\ phase' = "idle" BY <1>2, IdleIsIdle DEF Reboot
  <2> QED BY <2>1, <2>2 DEF QuietInv
<1>3. CASE ReconcileRead
  BY <1>3 DEF ReconcileRead, QuietInv
<1>4. CASE ReconcileMarkers
  <2>1. quiet => \A b \in snap : b \in Bundle BY <1>4 DEF ReconcileMarkers, QuietInv
  <2> QED BY <1>4, <2>1 DEF ReconcileMarkers, QuietInv
<1>5. CASE ReconcileAdopt
  BY <1>5 DEF ReconcileAdopt, QuietInv
<1> QED BY <1>1, <1>2, <1>3, <1>4, <1>5 DEF BootStep

\* ReconcileMaintenance makes the two halves of every pause agree, whatever a
\* crash or a reboot left of them, provided that no job took the flock since it
\* listed the records.
THEOREM ReconcileConvergesHolds == Spec => ReconcileConverges
<1>1. Init => QuietInv
  BY DEF Init, QuietInv
<1>2. TypeOK /\ QuietInv /\ [Next]_vars => QuietInv'
  <2> SUFFICES ASSUME TypeOK, QuietInv, [Next]_vars PROVE QuietInv'
    OBVIOUS
  <2>1. CASE UNCHANGED vars BY <2>1 DEF vars, QuietInv
  <2>2. CASE Next
    BY <2>2, ApiQuiet, AcquireQuiet, JobQuiet, BootQuiet DEF Next
  <2> QED BY <2>1, <2>2
<1> DEFINE Converged ==
      daemon = "restored" /\ daemon' = "up" /\ quiet => \A b \in Bundle : Agree(b)'
<1>3. ASSUME TypeOK, QuietInv, [Next]_vars PROVE Converged
  <2> SUFFICES ASSUME daemon = "restored", daemon' = "up", quiet
               PROVE  \A b \in Bundle : Agree(b)'
    OBVIOUS
  <2>1. ReconcileAdopt
    <3>1. ~UNCHANGED vars BY DEF vars
    <3>2. ASSUME NEW b \in Bundle, ApiStep(b) \/ PauseAcquire(b) \/ ResumeAcquire(b)
          PROVE  daemon' = daemon
      BY <3>2 DEF ApiStep, InstallCheck, InstallClaim, InstallEnd, StartBegin, StartEnd,
         StopBegin, StopEnd, PauseAcquire, ResumeAcquire
    <3>3. ASSUME NEW S \in SUBSET Bundle, StorageAcquire(S) PROVE daemon' = daemon
      BY <3>3 DEF StorageAcquire
    <3>4. ASSUME JobStep \/ JobAbort PROVE daemon' = daemon
      BY <3>4 DEF JobStep, StorageNextOwner, Quiesce, PauseRecord, Clear, ResumeSkip,
         ResumeWanted, PauseMark, StorageWork, Unmark, ResumeStart, ResumeDone,
         JobConflict, JobAbort
    <3>5. ~DaemonCrash /\ ~Reboot /\ ~ReconcileRead /\ ~ReconcileMarkers
      BY DEF DaemonCrash, Reboot, ReconcileRead, ReconcileMarkers
    <3> QED BY <1>3, <3>1, <3>2, <3>3, <3>4, <3>5 DEF Next, BootStep
  <2> SUFFICES ASSUME NEW b \in Bundle PROVE marker'[b] <=> record'[b] # "none"
    BY DEF Agree
  <2>2. marker' = marker /\ marker[b] \in BOOLEAN /\ (record[b] # "none" <=> b \in snap)
    BY <1>3, <2>1 DEF ReconcileAdopt, QuietInv, TypeOK
  <2>3. b \in snap => marker[b]
    BY <1>3 DEF QuietInv
  <2>4. record'[b] = IF marker[b] /\ b \notin snap THEN "import" ELSE record[b]
    BY <2>1 DEF ReconcileAdopt
  <2> QED BY <2>2, <2>3, <2>4
<1>4. TypeOK /\ QuietInv /\ [Next]_vars => [Converged]_vars
  BY <1>3
<1> QED BY <1>1, <1>2, <1>4, TypeCorrect, PTL DEF Spec, ReconcileConverges

=============================================================================
