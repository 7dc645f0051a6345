------------------------ MODULE ProjectDeploy_proofs ------------------------
(***************************************************************************)
(* Theorems about the deploy lock and what it protects.  The lock is taken *)
(* over by age and released without a token, so that one request holds it  *)
(* at a time follows only together with the clock: a lock that is held is   *)
(* at most a tick old, and at that age its request has ended.  What serves  *)
(* is shown, and never abandoned, because the holder is alone: its row is   *)
(* marked and its container is the one it started until it releases.  And   *)
(* theorems about the repository behind a project (SourceControl): what     *)
(* provisioning left is there only with the record of its project.          *)
(***************************************************************************)
EXTENDS ProjectDeploy, SourceControl, FiniteSetTheorems, SequenceTheorems, TLAPS

\* A request that deploys knows its digest.
HasDigest ==
    \A r \in Request :
        \/ req[r].pc = "locked" /\ req[r].op = "deploy"
        \/ req[r].pc \in {"run", "update", "probe", "activate", "fail"}
        => req[r].digest \in Digest

\* A request that holds the lock keeps it young.
HeldIsYoung ==
    \A r \in Request : req[r].pc \in Holding =>
        /\ proj.exists /\ proj.deploying
        /\ proj.age = 0 \/ (proj.age = 1 /\ req[r].ended)

LockInv == TypeOK /\ HasDigest /\ HeldIsYoung /\ OneHolder

USE StaleAssumption, NoneAssumption, DigestAssumption

----------------------------------------------------------------------------
(* Types *)

\* The number of known digests is a natural number.
LEMMA KnownType == Cardinality(Known) \in Nat
<1>1. IsFiniteSet(Known)
  BY FS_Subset DEF Known
<1> QED BY <1>1, FS_CardinalityType

\* A request that moves on keeps the type of the requests.
LEMMA GoingType ==
    ASSUME TypeOK, NEW r \in Request, NEW pc \in Holding \cup Outside, Going(r, pc)
    PROVE  req' \in [Request -> Call]
BY DEF TypeOK, Going, Call

\* Idle is a call, and replacing any fields of a call gives one.
LEMMA CallType ==
    /\ Idle \in Call
    /\ \A c \in Call :
        /\ \A x \in Ops : [c EXCEPT !.op = x] \in Call
        /\ \A x \in Holding \cup Outside : [c EXCEPT !.pc = x] \in Call
        /\ \A x \in Digest \cup {None} : [c EXCEPT !.digest = x] \in Call
        /\ \A x \in Host \cup {None} : [c EXCEPT !.host = x] \in Call
        /\ \A x \in BOOLEAN : /\ [c EXCEPT !.same = x] \in Call
                             /\ [c EXCEPT !.recorded = x] \in Call
                             /\ [c EXCEPT !.ended = x] \in Call
<1>1. Idle \in Call
  BY DEF Idle, Call, Ops, Outside
<1> QED BY <1>1 DEF Call

\* So a request that is idle again keeps the type of the requests.
LEMMA IdleType ==
    ASSUME TypeOK, NEW r \in Request, req' = [req EXCEPT ![r] = Idle]
    PROVE  req' \in [Request -> Call]
BY CallType DEF TypeOK

\* The row of the project with another lock, and the empty one.
LEMMA ProjectType ==
    ASSUME TypeOK
    PROVE  /\ \A b \in BOOLEAN : [proj EXCEPT !.deploying = b, !.age = 0] \in ProjectRow
           /\ \A n \in 0..StaleAge : [proj EXCEPT !.age = n] \in ProjectRow
           /\ NoProject \in ProjectRow
<1>1. 0 \in 0..StaleAge
  OBVIOUS
<1> QED BY <1>1 DEF TypeOK, ProjectRow, NoProject

\* The rows after beginRelease, activateRelease and failRelease.
LEMMA ReleaseType ==
    ASSUME TypeOK, NEW d \in Digest
    PROVE  /\ BeginRelease(d) \in [Digest -> ReleaseRow]
           /\ Activated(d) \in [Digest -> ReleaseRow]
           /\ [rel EXCEPT ![d].status = FailedStatus] \in [Digest -> ReleaseRow]
<1>1. BeginRelease(d) \in [Digest -> ReleaseRow]
  BY KnownType DEF TypeOK, BeginRelease, ReleaseRow, Statuses
<1>2. Activated(d) \in [Digest -> ReleaseRow]
  BY DEF TypeOK, Activated, ReleaseRow, Statuses
<1>3. [rel EXCEPT ![d].status = FailedStatus] \in [Digest -> ReleaseRow]
  BY DEF TypeOK, FailedStatus, ReleaseRow, Statuses
<1> QED BY <1>1, <1>2, <1>3

\* What omahab-once leaves behind, done or killed.
LEMMA RuntimeType ==
    ASSUME TypeOK, NEW r \in Request
    PROVE  /\ Served(r) \in Runtime /\ Destroyed \in Runtime
           /\ [once EXCEPT !.app = None] \in Runtime
           /\ Interrupted(r) \subseteq Runtime
<1>1. Served(r) \in Runtime
  BY DEF TypeOK, Served, Runtime, App, Call
<1>2. Destroyed \in Runtime /\ [once EXCEPT !.app = None] \in Runtime /\ once \in Runtime
  BY DEF TypeOK, Destroyed, Runtime
<1> QED BY <1>1, <1>2 DEF Interrupted, AfterFailedDeploy, AfterFailedUpdate

\* The steps of a deployment on its digest.
LEMMA DeployOfType ==
    ASSUME TypeOK, NEW r \in Request, NEW d \in Digest, NEW same \in BOOLEAN,
           DeployOf(r, d, same)
    PROVE  TypeOK'
<1>1. rel' \in [Digest -> ReleaseRow]
  BY ReleaseType DEF DeployOf, TypeOK
<1>2. PICK recorded \in BOOLEAN :
        req' = [req EXCEPT ![r] = [@ EXCEPT !.pc = "run", !.digest = d, !.host = proj.host,
                                            !.recorded = recorded]]
  BY DEF DeployOf
<1>3. [req[r] EXCEPT !.pc = "run", !.digest = d, !.host = proj.host, !.recorded = recorded]
        \in Call
  <2>1. req[r] \in Call /\ proj.host \in Host \cup {None} /\ "run" \in Holding
    BY DEF TypeOK, ProjectRow, Holding
  <2> QED BY <2>1, CallType
<1>4. req' \in [Request -> Call]
  BY <1>2, <1>3 DEF TypeOK
<1> QED BY <1>1, <1>4 DEF DeployOf, TypeOK

\* Every step keeps the types.
LEMMA TypeStep == ASSUME LockInv, [Next]_vars PROVE TypeOK'
<1> USE DEF LockInv, At
<1>1. ASSUME NEW r \in Request, Beginning(r) PROVE TypeOK'
  <2>1. PICK op \in {"deploy", "rollback", "delete"}, d \in Digest \cup {None}, same \in BOOLEAN :
          Begin(r, op, d, same)
    BY <1>1 DEF Beginning
  <2>2. [Idle EXCEPT !.op = op, !.pc = "locked", !.digest = d, !.same = same] \in Call
    <3>1. op \in Ops /\ "locked" \in Holding
      BY DEF Ops, Holding
    <3> QED BY <3>1, CallType
  <2>3. proj' \in ProjectRow /\ req' \in [Request -> Call]
    BY <2>1, <2>2, ProjectType DEF Begin, Lock, TypeOK
  <2> QED BY <2>1, <2>3 DEF Begin, TypeOK
<1>2. ASSUME NEW r \in Request, Unlock(r) \/ Erase(r) PROVE TypeOK'
  <2>1. NoReleases \in [Digest -> ReleaseRow]
    BY DEF NoReleases, ReleaseRow, Statuses
  <2> QED BY <1>2, <2>1, IdleType, ProjectType DEF Unlock, Erase, TypeOK
<1>3. ASSUME NEW r \in Request, Deploy(r) \/ Rollback(r) PROVE TypeOK'
  BY <1>3, DeployOfType DEF Deploy, Rollback, HasDigest, TypeOK, Call, PreviousSucceeded
<1>4. ASSUME NEW r \in Request, OnceDeploy(r) \/ OnceUpdate(r) \/ OnceUndeploy(r) \/ Killed(r)
      PROVE  TypeOK'
  <2>1. once' \in Runtime
    BY <1>4, RuntimeType DEF OnceDeploy, OnceUpdate, OnceUndeploy, Killed, AfterFailedUpdate, AfterFailedDeploy, TypeOK
  <2>2. PICK pc \in Holding \cup Outside : Going(r, pc)
    BY <1>4 DEF OnceDeploy, OnceUpdate, OnceUndeploy, Killed, Holding
  <2>3. req' \in [Request -> Call]
    BY <2>2, GoingType
  <2> QED BY <1>4, <2>1, <2>3 DEF OnceDeploy, OnceUpdate, OnceUndeploy, Killed, TypeOK
<1>5. ASSUME NEW r \in Request, Activate(r) \/ FailRelease(r) PROVE TypeOK'
  <2>1. req[r].digest \in Digest
    BY <1>5 DEF Activate, FailRelease, HasDigest
  <2>2. rel' \in [Digest -> ReleaseRow]
    BY <1>5, <2>1, ReleaseType DEF Activate, FailRelease, TypeOK
  <2>3. req' \in [Request -> Call]
    BY <1>5, GoingType DEF Activate, FailRelease, Holding
  <2> QED BY <1>5, <2>2, <2>3 DEF Activate, FailRelease, TypeOK
<1>6. ASSUME NEW r \in Request,
             \/ RollbackRefused(r) \/ Probe(r) \/ ProvisionFails(r) \/ CleanUp(r)
             \/ BeginDelete(r) \/ Teardown(r) \/ GivesUp(r)
      PROVE  TypeOK'
  <2>1. PICK pc \in Holding \cup Outside : Going(r, pc)
    BY <1>6 DEF RollbackRefused, Probe, ProvisionFails, CleanUp, BeginDelete, Teardown, GivesUp,
                Holding, Outside
  <2>2. req' \in [Request -> Call]
    BY <2>1, GoingType
  <2>3. proj' \in ProjectRow
    BY <1>6, ProjectType
       DEF RollbackRefused, Probe, ProvisionFails, CleanUp, Lock, BeginDelete, Teardown, GivesUp,
           TypeOK
  <2> QED BY <1>6, <2>2, <2>3
          DEF RollbackRefused, Probe, ProvisionFails, CleanUp, BeginDelete, Teardown, GivesUp, TypeOK
<1>7. ASSUME NEW r \in Request, Provisioned(r) \/ CleanUpRefused(r) PROVE TypeOK'
  BY <1>7, IdleType DEF Provisioned, CleanUpRefused, TypeOK
<1>8. ASSUME NEW r \in Request, NEW h \in Host, CreateProject(r, h) PROVE TypeOK'
  <2>1. [Idle EXCEPT !.op = "create", !.pc = "provision"] \in Call
    <3>1. "create" \in Ops /\ "provision" \in Outside
      BY DEF Ops, Outside
    <3> QED BY <3>1, CallType
  <2>2. proj' \in ProjectRow /\ req' \in [Request -> Call]
    BY <1>8, <2>1 DEF CreateProject, TypeOK, ProjectRow
  <2> QED BY <1>8, <2>2 DEF CreateProject, TypeOK
<1>9. ASSUME NEW r \in Request, Die(r) PROVE TypeOK'
  <2> QED BY <1>9, CallType, RuntimeType DEF Die, TypeOK
<1>10. CASE Tick
  <2>1. proj' \in ProjectRow
    <3>1. proj.age \in 0..StaleAge
      BY DEF TypeOK, ProjectRow
    <3>2. (IF proj.deploying /\ proj.age < StaleAge THEN proj.age + 1 ELSE proj.age) \in 0..StaleAge
      BY <3>1
    <3> QED BY <1>10, <3>2, ProjectType DEF Tick
  <2>2. req' \in [Request -> Call]
    <3>1. \A r \in Request : [req[r] EXCEPT !.ended = ~At(r, "idle")] \in Call
      BY CallType DEF TypeOK
    <3> QED BY <1>10, <3>1 DEF Tick
  <2> QED BY <1>10, <2>1, <2>2 DEF Tick, TypeOK
<1>11. ASSUME NEW h \in Host, UpdateProject(h) PROVE TypeOK'
  BY <1>11 DEF UpdateProject, TypeOK, ProjectRow
<1>12. CASE UNCHANGED vars
  BY <1>12 DEF vars, TypeOK
<1> QED BY <1>1, <1>2, <1>3, <1>4, <1>5, <1>6, <1>7, <1>8, <1>9, <1>10, <1>11, <1>12 DEF Next, Step

----------------------------------------------------------------------------
(* The lock *)

\* A step of one request that takes no lock and touches no project row.
LEMMA InsideStep ==
    ASSUME LockInv, NEW r \in Request, NEW c, proj' = proj,
           req' = [req EXCEPT ![r] = c],
           c.pc \in Holding => req[r].pc \in Holding,
           c.ended = req[r].ended \/ c.pc \notin Holding
    PROVE  HeldIsYoung' /\ OneHolder'
BY DEF LockInv, TypeOK, HeldIsYoung, OneHolder

\* A lock that may be taken is held by nobody.
LEMMA LockableIsFree ==
    ASSUME LockInv, Lockable
    PROVE  \A r \in Request : req[r].pc \notin Holding
BY DEF LockInv, HeldIsYoung, Lockable, TypeOK, ProjectRow

\* A request that takes a lock is the only one that holds it.
LEMMA LockStep ==
    ASSUME LockInv, Lockable, Lock, NEW r \in Request, NEW c, req' = [req EXCEPT ![r] = c]
    PROVE  HeldIsYoung' /\ OneHolder'
<1>1. \A s \in Request : s # r => req'[s].pc \notin Holding
  BY LockableIsFree DEF LockInv, TypeOK
<1>2. proj'.exists /\ proj'.deploying /\ proj'.age = 0
  BY DEF Lockable, Lock, LockInv, TypeOK, ProjectRow
<1> QED BY <1>1, <1>2 DEF HeldIsYoung, OneHolder

\* A request that releases the lock, or erases the row, leaves no holder.
LEMMA FreeStep ==
    ASSUME LockInv, NEW r \in Request, req[r].pc \in Holding, req' = [req EXCEPT ![r] = Idle]
    PROVE  HeldIsYoung' /\ OneHolder'
<1>1. \A s \in Request : req'[s].pc \notin Holding
  BY DEF LockInv, TypeOK, OneHolder, Idle, Holding
<1> QED BY <1>1 DEF HeldIsYoung, OneHolder

\* Every step keeps the lock invariant.
LEMMA LockNext == ASSUME LockInv, [Next]_vars PROVE HeldIsYoung' /\ OneHolder'
<1> USE DEF At
<1>1. ASSUME NEW r \in Request, Beginning(r) PROVE HeldIsYoung' /\ OneHolder'
  BY <1>1, LockStep DEF Beginning, Begin
<1>2. ASSUME NEW r \in Request, CleanUp(r) PROVE HeldIsYoung' /\ OneHolder'
  BY <1>2, LockStep DEF CleanUp, Going
<1>3. ASSUME NEW r \in Request, Unlock(r) \/ Erase(r) PROVE HeldIsYoung' /\ OneHolder'
  BY <1>3, FreeStep DEF Unlock, Erase, Holding
<1>4. ASSUME NEW r \in Request,
             \/ RollbackRefused(r) \/ OnceDeploy(r) \/ OnceUpdate(r) \/ Probe(r) \/ Activate(r)
             \/ FailRelease(r) \/ BeginDelete(r) \/ OnceUndeploy(r) \/ Teardown(r) \/ Killed(r)
             \/ GivesUp(r) \/ ProvisionFails(r)
      PROVE  HeldIsYoung' /\ OneHolder'
  <2>1. /\ proj' = proj
        /\ req[r].pc \in Holding \/ At(r, "provision")
    BY <1>4 DEF RollbackRefused, OnceDeploy, OnceUpdate, Probe, Activate, FailRelease, BeginDelete,
                OnceUndeploy, Teardown, Killed, GivesUp, ProvisionFails, Holding
  <2>2. PICK pc : Going(r, pc) /\ (pc \in Holding => req[r].pc \in Holding)
    BY <1>4, <2>1 DEF RollbackRefused, OnceDeploy, OnceUpdate, Probe, Activate, FailRelease,
                BeginDelete, OnceUndeploy, Teardown, Killed, GivesUp, ProvisionFails, Holding
  <2>3. req' = [req EXCEPT ![r] = [req[r] EXCEPT !.pc = pc]]
    BY <2>2 DEF Going
  <2>4. [req[r] EXCEPT !.pc = pc].pc = pc /\ [req[r] EXCEPT !.pc = pc].ended = req[r].ended
    BY DEF LockInv, TypeOK, Call
  <2> QED BY <2>1, <2>2, <2>3, <2>4, InsideStep
<1>5. ASSUME NEW r \in Request, NEW d \in Digest, NEW same \in BOOLEAN, At(r, "locked"),
             DeployOf(r, d, same)
      PROVE  HeldIsYoung' /\ OneHolder'
  <2>1. req[r].pc \in Holding /\ proj' = proj
    BY <1>5 DEF Holding, DeployOf
  <2>2. PICK recorded \in BOOLEAN :
          req' = [req EXCEPT ![r] = [@ EXCEPT !.pc = "run", !.digest = d, !.host = proj.host,
                                              !.recorded = recorded]]
    BY <1>5 DEF DeployOf
  <2> DEFINE c == [req[r] EXCEPT !.pc = "run", !.digest = d, !.host = proj.host,
                                 !.recorded = recorded]
  <2>3. c.ended = req[r].ended /\ req' = [req EXCEPT ![r] = c]
    BY <2>2 DEF LockInv, TypeOK, Call
  <2> HIDE DEF c
  <2> QED BY <2>1, <2>3, InsideStep
<1>6. ASSUME NEW r \in Request, Deploy(r) \/ Rollback(r) PROVE HeldIsYoung' /\ OneHolder'
  BY <1>6, <1>5 DEF Deploy, Rollback, LockInv, HasDigest, TypeOK, Call, PreviousSucceeded
<1>7. ASSUME NEW r \in Request, Provisioned(r) \/ CleanUpRefused(r)
      PROVE  HeldIsYoung' /\ OneHolder'
  <2>1. Idle.pc \notin Holding
    BY DEF Idle, Holding
  <2> QED BY <1>7, <2>1, InsideStep DEF Provisioned, CleanUpRefused
<1>8. ASSUME NEW r \in Request, NEW h \in Host, CreateProject(r, h)
      PROVE  HeldIsYoung' /\ OneHolder'
  <2>1. \A s \in Request : req[s].pc \notin Holding
    BY <1>8 DEF CreateProject, LockInv, HeldIsYoung
  <2>2. \A s \in Request : req'[s].pc \notin Holding
    BY <1>8, <2>1 DEF CreateProject, LockInv, TypeOK, Idle, Holding
  <2> QED BY <2>2 DEF HeldIsYoung, OneHolder
<1>9. ASSUME NEW r \in Request, Die(r) PROVE HeldIsYoung' /\ OneHolder'
  BY <1>9 DEF Die, HeldIsYoung, OneHolder, Idle, Holding
<1>10. CASE Tick
  <2>1. \A s \in Request : req'[s].pc = req[s].pc /\ (req[s].pc \in Holding => req'[s].ended)
    BY <1>10 DEF Tick, LockInv, TypeOK, Call, Holding
  <2>2. \A s \in Request : req[s].pc \in Holding =>
            proj'.exists /\ proj'.deploying /\ proj'.age = 1
    BY <1>10 DEF Tick, LockInv, HeldIsYoung, TypeOK, ProjectRow
  <2> QED BY <2>1, <2>2 DEF LockInv, HeldIsYoung, OneHolder
<1>11. ASSUME NEW h \in Host, UpdateProject(h) PROVE HeldIsYoung' /\ OneHolder'
  BY <1>11 DEF UpdateProject, LockInv, HeldIsYoung, OneHolder, TypeOK, ProjectRow
<1>12. CASE UNCHANGED vars
  BY <1>12 DEF vars, LockInv, HeldIsYoung, OneHolder
<1> QED BY <1>1, <1>2, <1>3, <1>4, <1>6, <1>7, <1>8, <1>9, <1>10, <1>11, <1>12 DEF Next, Step

\* Every step keeps a digest with every request that deploys.
LEMMA DigestNext == ASSUME LockInv, [Next]_vars PROVE HasDigest'
<1> USE DEF LockInv, HasDigest, TypeOK, At
<1>1. ASSUME NEW r \in Request, Beginning(r) PROVE HasDigest'
  <2>1. PICK op \in {"deploy", "rollback", "delete"}, d \in Digest \cup {None}, same \in BOOLEAN :
          Begin(r, op, d, same) /\ (op = "deploy" => d \in Digest)
    BY <1>1 DEF Beginning
  <2>2. /\ req'[r].pc = "locked" /\ req'[r].op = op /\ req'[r].digest = d
        /\ \A s \in Request : s # r => req'[s] = req[s]
    BY <2>1 DEF Begin, Idle
  <2> QED BY <2>1, <2>2
<1>2. ASSUME NEW r \in Request, Unlock(r) \/ Erase(r) \/ Provisioned(r) \/ CleanUpRefused(r)
      PROVE  HasDigest'
  BY <1>2 DEF Unlock, Erase, Provisioned, CleanUpRefused, Idle
<1>3. ASSUME NEW r \in Request, Deploy(r) \/ Rollback(r) PROVE HasDigest'
  <2>1. PICK d \in Digest, same \in BOOLEAN : DeployOf(r, d, same)
    BY <1>3 DEF Deploy, Rollback, PreviousSucceeded, Call
  <2>2. req'[r].digest = d /\ \A s \in Request : s # r => req'[s] = req[s]
    BY <2>1 DEF DeployOf, Call
  <2> QED BY <2>2
<1>4. ASSUME NEW r \in Request,
             \/ RollbackRefused(r) \/ OnceDeploy(r) \/ OnceUpdate(r) \/ Probe(r) \/ Activate(r)
             \/ FailRelease(r) \/ BeginDelete(r) \/ OnceUndeploy(r) \/ Teardown(r) \/ Killed(r)
             \/ GivesUp(r) \/ ProvisionFails(r) \/ CleanUp(r)
      PROVE  HasDigest'
  <2>1. PICK pc : /\ Going(r, pc)
                  /\ pc \in {"update", "probe", "activate", "fail"} =>
                        req[r].pc \in {"run", "update", "probe"}
                  /\ pc \notin {"locked", "run"}
    BY <1>4 DEF RollbackRefused, OnceDeploy, OnceUpdate, Probe, Activate, FailRelease, BeginDelete,
                OnceUndeploy, Teardown, Killed, GivesUp, ProvisionFails, CleanUp
  <2>2. /\ req'[r].digest = req[r].digest /\ req'[r].pc = pc
        /\ \A s \in Request : s # r => req'[s] = req[s]
    BY <2>1 DEF Going, Call
  <2> QED BY <2>1, <2>2
<1>5. ASSUME NEW r \in Request, NEW h \in Host, CreateProject(r, h) PROVE HasDigest'
  <2>1. req'[r].pc = "provision" /\ \A s \in Request : s # r => req'[s] = req[s]
    BY <1>5 DEF CreateProject, Idle
  <2> QED BY <2>1
<1>6. ASSUME NEW r \in Request, Die(r) PROVE HasDigest'
  BY <1>6 DEF Die, Idle
<1>7. CASE Tick
  <2>1. \A s \in Request : /\ req'[s].pc = req[s].pc /\ req'[s].op = req[s].op
                           /\ req'[s].digest = req[s].digest
    BY <1>7 DEF Tick, Call
  <2> QED BY <2>1
<1>8. ASSUME NEW h \in Host, UpdateProject(h) PROVE HasDigest'
  BY <1>8 DEF UpdateProject
<1>9. CASE UNCHANGED vars
  BY <1>9 DEF vars
<1> QED BY <1>1, <1>2, <1>3, <1>4, <1>5, <1>6, <1>7, <1>8, <1>9 DEF Next, Step

\* The initial state satisfies the invariant.
LEMMA InitLock == Init => LockInv
<1> SUFFICES ASSUME Init PROVE LockInv
  OBVIOUS
<1>1. TypeOK
  <2>1. NoReleases \in [Digest -> ReleaseRow] /\ NoProject \in ProjectRow
    BY DEF NoReleases, ReleaseRow, Statuses, NoProject, ProjectRow
  <2> QED BY <2>1, CallType DEF Init, TypeOK, Runtime
<1>2. HasDigest /\ HeldIsYoung /\ OneHolder
  BY DEF Init, HasDigest, HeldIsYoung, OneHolder, Idle, Holding
<1> QED BY <1>1, <1>2 DEF LockInv

\* The lock invariant holds of every behaviour.
LEMMA LockInvariant == Spec => []LockInv
<1>1. LockInv /\ [Next]_vars => LockInv'
  BY TypeStep, LockNext, DigestNext DEF LockInv
<1> QED BY InitLock, <1>1, PTL DEF Spec

\* Every variable has its type in every reachable state.
THEOREM TypeCorrect == Spec => []TypeOK
BY LockInvariant, PTL DEF LockInv

\* One request at a time holds the deploy lock, however many requests come, although
\* the lock is taken over by age and released without a token.
THEOREM OneHolderHolds == Spec => []OneHolder
BY LockInvariant, PTL DEF LockInv

----------------------------------------------------------------------------
(* What serves, and what its row says *)

\* What a request relies on while it deploys or deletes: its row is marked, its
\* container serves, and nothing serves any more what it is about to erase.
CallOK(r) ==
    /\ req[r].pc \in {"run", "update", "probe", "activate", "fail"} /\ req[r].recorded
         => rel[req[r].digest].status = "deploying"
    /\ req[r].pc \in {"probe", "activate"} => once.app = Served(r).app
    /\ req[r].pc \in {"teardown", "erase"} /\ req[r].op = "delete" /\ Known # {}
         => once.app = None
    /\ req[r].pc \in {"provision", "cleanup"} => req[r].op = "create"

\* A project that is not there has no releases.
Unreleased == ~proj.exists => Known = {}

ReleaseInv == /\ LockInv /\ Unreleased /\ ServedIsShown
              /\ \A r \in Request : CallOK(r)

\* A request that moves on keeps its other fields.
LEMMA GoingFields ==
    ASSUME TypeOK, NEW r \in Request, NEW pc, Going(r, pc)
    PROVE  /\ req'[r].pc = pc
           /\ req'[r].op = req[r].op /\ req'[r].digest = req[r].digest
           /\ req'[r].host = req[r].host /\ req'[r].recorded = req[r].recorded
           /\ \A s \in Request : s # r => req'[s] = req[s]
BY DEF TypeOK, Going, Call

\* When the holder of the lock moves, nobody else relies on rows or containers.
LEMMA HolderStep ==
    ASSUME LockInv, \A s \in Request : CallOK(s), NEW r \in Request, req[r].pc \in Holding,
           \A s \in Request : s # r => req'[s] = req[s],
           CallOK(r)'
    PROVE  \A s \in Request : CallOK(s)'
<1>1. \A s \in Request : s # r => req[s].pc \notin Holding
  BY DEF LockInv, OneHolder
<1>2. ASSUME NEW s \in Request, s # r PROVE CallOK(s)'
  BY <1>1, <1>2 DEF CallOK, Holding
<1> QED BY <1>2

\* What a killed omahab-once leaves: what was there, nothing, or the new container.
LEMMA InterruptedApp ==
    ASSUME TypeOK, NEW r \in Request, NEW after \in Interrupted(r)
    PROVE  \/ after = once \/ after.app = None
           \/ after = Served(r) /\ req[r].pc \in {"run", "update"}
<1>1. [once EXCEPT !.app = None].app = None
  BY DEF TypeOK, Runtime
<1>2. CASE At(r, "run") /\ ~InUse(req[r].host)
  <2>1. Interrupted(r) = AfterFailedDeploy(r)
    BY <1>2 DEF Interrupted, At
  <2>3. after \in {once, Served(r), Destroyed, [once EXCEPT !.app = None]}
    BY <2>1 DEF AfterFailedDeploy
  <2>2. Destroyed.app = None
    BY DEF Destroyed
  <2> HIDE DEF Destroyed
  <2> QED BY <1>1, <1>2, <2>3, <2>2 DEF At
<1>3. CASE At(r, "run") /\ InUse(req[r].host)
  BY <1>3 DEF Interrupted, At
<1>4. CASE At(r, "update")
  BY <1>4 DEF Interrupted, AfterFailedUpdate, At
<1>5. CASE At(r, "undeploy")
  BY <1>1, <1>5 DEF Interrupted, At
<1>6. CASE req[r].pc \notin {"run", "update", "undeploy"}
  BY <1>6 DEF Interrupted, At
<1> QED BY <1>2, <1>3, <1>4, <1>5, <1>6 DEF At

\* Every step keeps what serves and what its row says.
LEMMA ReleaseNext ==
    ASSUME ReleaseInv, [Next]_vars, LockInv'
    PROVE  Unreleased' /\ ServedIsShown' /\ \A s \in Request : CallOK(s)'
<1> DEFINE Goal == Unreleased' /\ ServedIsShown' /\ \A s \in Request : CallOK(s)'
<1> USE DEF At
<1>t. TypeOK /\ LockInv /\ TypeOK'
  BY DEF ReleaseInv, LockInv
<1>h. ASSUME NEW r \in Request, NEW pc, Going(r, pc), req[r].pc \in Holding, CallOK(r)'
      PROVE  \A s \in Request : CallOK(s)'
  BY <1>h, <1>t, GoingFields, HolderStep DEF ReleaseInv
<1>n. \A r \in Request : req[r].pc \in {"locked", "run"} => proj.exists
  BY DEF ReleaseInv, LockInv, HeldIsYoung, Holding
<1>1. ASSUME NEW r \in Request, Beginning(r) PROVE Goal
  <2>1. /\ req'[r].pc = "locked" /\ \A s \in Request : s # r => req'[s] = req[s]
        /\ rel' = rel /\ once' = once /\ proj.exists /\ proj'.exists
    <3>1. PICK op \in Ops, d \in Digest \cup {None}, same \in BOOLEAN : Begin(r, op, d, same)
      BY <1>1 DEF Beginning, Ops
    <3>2. [Idle EXCEPT !.op = op, !.pc = "locked", !.digest = d, !.same = same].pc = "locked"
      BY DEF Idle
    <3>3. proj.exists /\ proj'.exists
      BY <3>1, <1>t DEF Begin, Lock, Lockable, TypeOK, ProjectRow
    <3> QED BY <3>1, <3>2, <3>3, <1>t DEF Begin, TypeOK
  <2>2. \A s \in Request : CallOK(s)'
    BY <2>1 DEF ReleaseInv, CallOK, Known, Served
  <2> QED BY <2>1, <2>2 DEF ReleaseInv, Unreleased, ServedIsShown, Known
<1>2. ASSUME NEW r \in Request, Unlock(r) PROVE Goal
  <2>1. /\ req'[r].pc = "idle" /\ \A s \in Request : s # r => req'[s] = req[s]
        /\ rel' = rel /\ once' = once /\ proj'.exists = proj.exists
    BY <1>2, <1>t DEF Unlock, Idle, TypeOK, ProjectRow
  <2>2. \A s \in Request : CallOK(s)'
    BY <2>1 DEF ReleaseInv, CallOK, Known, Served
  <2> QED BY <2>1, <2>2 DEF ReleaseInv, Unreleased, ServedIsShown, Known
<1>3. ASSUME NEW r \in Request, Deploy(r) \/ Rollback(r) PROVE Goal
  <2>1. PICK d \in Digest, same \in BOOLEAN : DeployOf(r, d, same)
    BY <1>3, <1>t DEF Deploy, Rollback, PreviousSucceeded, LockInv, HasDigest, TypeOK, Call
  <2>2. PICK recorded \in BOOLEAN :
          /\ req' = [req EXCEPT ![r] = [@ EXCEPT !.pc = "run", !.digest = d, !.host = proj.host,
                                                !.recorded = recorded]]
          /\ rel' = IF recorded THEN BeginRelease(d) ELSE rel
    BY <2>1 DEF DeployOf
  <2>3. /\ req'[r].pc = "run" /\ req'[r].digest = d /\ req'[r].recorded = recorded
        /\ \A s \in Request : s # r => req'[s] = req[s]
    BY <2>2, <1>t DEF TypeOK, Call
  <2>4. recorded => rel'[d].status = "deploying" /\ \A e \in Digest : e # d => rel'[e] = rel[e]
    BY <2>2, <1>t DEF BeginRelease, TypeOK, ReleaseRow
  <2>5. CallOK(r)'
    BY <2>3, <2>4 DEF CallOK
  <2>6. req[r].pc \in Holding /\ proj.exists /\ proj' = proj /\ once' = once
    BY <1>3, <2>1, <1>n DEF Deploy, Rollback, DeployOf, Holding
  <2>7. \A s \in Request : CallOK(s)'
    BY <2>3, <2>5, <2>6, HolderStep DEF ReleaseInv
  <2>8. ServedIsShown'
    BY <2>2, <2>4, <2>6 DEF ReleaseInv, ServedIsShown, Known
  <2> QED BY <2>6, <2>7, <2>8 DEF Unreleased
<1>4. ASSUME NEW r \in Request, OnceDeploy(r) \/ OnceUpdate(r) \/ Killed(r) PROVE Goal
  <2>1. PICK pc \in {"update", "probe", "fail", "unlock"} :
          /\ Going(r, pc)
          /\ pc = "probe" => once' = Served(r)
          /\ pc # "unlock" => req[r].pc \in {"run", "update"}
    BY <1>4 DEF OnceDeploy, OnceUpdate, Killed
  <2>2. req[r].pc \in Holding /\ rel' = rel /\ proj' = proj
    BY <1>4 DEF OnceDeploy, OnceUpdate, Killed, Holding
  <2>3. CallOK(r)'
    BY <2>1, <2>2, <1>t, GoingFields DEF ReleaseInv, CallOK, Served, Known
  <2>4. once' = once \/ once'.app = None \/ (once' = Served(r) /\ req[r].pc \in {"run", "update"})
    <3>1. [once EXCEPT !.app = None].app = None /\ Destroyed.app = None
      BY <1>t DEF TypeOK, Runtime, Destroyed
    <3> HIDE DEF Destroyed
    <3>2. CASE OnceDeploy(r)
      BY <3>1, <3>2 DEF OnceDeploy, AfterFailedDeploy, At
    <3>3. CASE OnceUpdate(r)
      BY <3>3 DEF OnceUpdate, AfterFailedUpdate, At
    <3>4. CASE Killed(r)
      BY <3>4, <1>t, InterruptedApp DEF Killed
    <3> QED BY <1>4, <3>2, <3>3, <3>4
  <2>5. ServedIsShown'
    <3>1. CASE once' = Served(r) /\ req[r].pc \in {"run", "update"}
      BY <3>1, <2>2 DEF ReleaseInv, CallOK, Served, ServedIsShown
    <3> QED BY <2>2, <2>4, <3>1 DEF ReleaseInv, ServedIsShown, Known
  <2> QED BY <2>1, <2>2, <2>3, <2>5, <1>h DEF ReleaseInv, Unreleased, Known
<1>5. ASSUME NEW r \in Request, Probe(r) \/ RollbackRefused(r) \/ GivesUp(r) \/ Teardown(r)
      PROVE  Goal
  <2>1. PICK pc \in {"activate", "fail", "unlock", "erase"} :
          /\ Going(r, pc)
          /\ pc \in {"activate", "fail"} => req[r].pc = "probe"
          /\ pc = "erase" => req[r].pc = "teardown"
    BY <1>5 DEF Probe, RollbackRefused, GivesUp, Teardown
  <2>2. req[r].pc \in Holding /\ rel' = rel /\ proj' = proj /\ once' = once
    BY <1>5 DEF Probe, RollbackRefused, GivesUp, Teardown, Holding
  <2>3. CallOK(r)'
    BY <2>1, <2>2, <1>t, GoingFields DEF ReleaseInv, CallOK, Served, Known
  <2> QED BY <2>1, <2>2, <2>3, <1>h DEF ReleaseInv, Unreleased, Known, ServedIsShown
<1>6. ASSUME NEW r \in Request, Activate(r) PROVE Goal
  <2>1. Going(r, "unlock") /\ req[r].pc = "activate" /\ proj' = proj /\ once' = once
    BY <1>6 DEF Activate
  <2>2. CallOK(r)' /\ req[r].pc \in Holding
    BY <2>1, <1>t, GoingFields DEF CallOK, Holding
  <2>3. req[r].digest \in Digest /\ once.app = Served(r).app
    BY <2>1 DEF ReleaseInv, LockInv, HasDigest, CallOK
  <2>4. rel' = rel \/ rel' = Activated(req[r].digest)
    BY <1>6 DEF Activate
  <2>5. ServedIsShown'
    <3>1. CASE rel' = Activated(req[r].digest)
      <4>1. rel'[req[r].digest].active
        BY <3>1, <2>3, <1>t DEF Activated, TypeOK, ReleaseRow
      <4>2. once'.app.image = req[r].digest
        BY <2>1, <2>3 DEF Served
      <4> QED BY <4>1, <4>2 DEF ServedIsShown
    <3> QED BY <2>1, <2>4, <3>1 DEF ReleaseInv, ServedIsShown, Known
  <2>6. Unreleased'
    BY <2>1, <2>2 DEF ReleaseInv, LockInv, HeldIsYoung, Unreleased
  <2> QED BY <2>1, <2>2, <2>5, <2>6, <1>h
<1>7. ASSUME NEW r \in Request, FailRelease(r) PROVE Goal
  <2>1. Going(r, "unlock") /\ req[r].pc = "fail" /\ proj' = proj /\ once' = once
    BY <1>7 DEF FailRelease
  <2>2. CallOK(r)' /\ req[r].pc \in Holding
    BY <2>1, <1>t, GoingFields DEF CallOK, Holding
  <2>3. req[r].digest \in Digest
    BY <2>1 DEF ReleaseInv, LockInv, HasDigest
  <2>4. \A e \in Digest : rel'[e] = rel[e] \/ rel'[e].status = "failed"
    BY <1>7, <2>3, <1>t DEF FailRelease, FailedStatus, TypeOK, ReleaseRow
  <2>5. ServedIsShown'
    BY <2>1, <2>4 DEF ReleaseInv, ServedIsShown, Known
  <2>6. Unreleased'
    BY <2>1, <2>2 DEF ReleaseInv, LockInv, HeldIsYoung, Unreleased
  <2> QED BY <2>1, <2>2, <2>5, <2>6, <1>h
<1>8. ASSUME NEW r \in Request, NEW h \in Host, CreateProject(r, h) PROVE Goal
  <2>1. /\ req'[r].pc = "provision" /\ req'[r].op = "create"
        /\ \A s \in Request : s # r => req'[s] = req[s]
        /\ rel' = rel /\ once' = once /\ proj'.exists /\ ~proj.exists
    BY <1>8, <1>t DEF CreateProject, Idle, TypeOK
  <2>2. Known = {} /\ Known' = {}
    BY <2>1 DEF ReleaseInv, Unreleased, Known
  <2>3. \A s \in Request : CallOK(s)'
    BY <2>1 DEF ReleaseInv, CallOK, Known, Served
  <2> QED BY <2>1, <2>2, <2>3 DEF Unreleased, ServedIsShown
<1>9. ASSUME NEW r \in Request, Provisioned(r) \/ CleanUpRefused(r) PROVE Goal
  <2>1. /\ req'[r].pc = "idle" /\ \A s \in Request : s # r => req'[s] = req[s]
        /\ rel' = rel /\ once' = once /\ proj' = proj
    BY <1>9, <1>t DEF Provisioned, CleanUpRefused, Idle, TypeOK
  <2>2. \A s \in Request : CallOK(s)'
    BY <2>1 DEF ReleaseInv, CallOK, Known, Served
  <2> QED BY <2>1, <2>2 DEF ReleaseInv, Unreleased, ServedIsShown, Known
<1>10. ASSUME NEW r \in Request, ProvisionFails(r) \/ CleanUp(r) PROVE Goal
  <2>1. PICK pc \in {"cleanup", "erase"} : Going(r, pc) /\ req[r].pc \in {"provision", "cleanup"}
    BY <1>10 DEF ProvisionFails, CleanUp
  <2>2. /\ req'[r].pc = pc /\ req'[r].op = "create"
        /\ \A s \in Request : s # r => req'[s] = req[s]
    BY <2>1, <1>t, GoingFields DEF ReleaseInv, CallOK
  <2>3. rel' = rel /\ once' = once /\ proj'.exists = proj.exists
    BY <1>10, <1>t DEF ProvisionFails, CleanUp, Lock, TypeOK, ProjectRow
  <2>4. \A s \in Request : CallOK(s)'
    BY <2>2, <2>3 DEF ReleaseInv, CallOK, Known, Served
  <2> QED BY <2>3, <2>4 DEF ReleaseInv, Unreleased, ServedIsShown, Known
<1>11. ASSUME NEW r \in Request, BeginDelete(r) \/ OnceUndeploy(r) PROVE Goal
  <2>1. PICK pc \in {"undeploy", "teardown", "unlock"} :
          /\ Going(r, pc)
          /\ pc = "teardown" => once'.app = None \/ Known = {}
    BY <1>11, <1>t DEF BeginDelete, OnceUndeploy, HasReleases, TypeOK, Runtime
  <2>2. /\ req[r].pc \in Holding /\ rel' = rel /\ proj' = proj
        /\ once'.app = once.app \/ once'.app = None
    BY <1>11, <1>t DEF BeginDelete, OnceUndeploy, Holding, TypeOK, Runtime
  <2>3. CallOK(r)'
    BY <2>1, <2>2, <1>t, GoingFields DEF CallOK, Known
  <2> QED BY <2>1, <2>2, <2>3, <1>h DEF ReleaseInv, Unreleased, Known, ServedIsShown
<1>12. ASSUME NEW r \in Request, Erase(r) PROVE Goal
  <2>1. req'[r].pc = "idle" /\ \A s \in Request : s # r => req'[s] = req[s]
    BY <1>12, <1>t DEF Erase, Idle, TypeOK
  <2>2. CallOK(r)' /\ req[r].pc \in Holding
    BY <1>12, <2>1 DEF Erase, CallOK, Holding
  <2>3. ~proj'.exists /\ Known' = {}
    BY <1>12 DEF Erase, NoProject, NoReleases, Known
  <2>4. \A s \in Request : CallOK(s)'
    BY <2>1, <2>2, HolderStep DEF ReleaseInv
  <2> QED BY <2>3, <2>4 DEF Unreleased, ServedIsShown
<1>13. ASSUME NEW r \in Request, Die(r) PROVE Goal
  <2>1. \A s \in Request : CallOK(s)'
    BY <1>13 DEF Die, Idle, CallOK
  <2>2. /\ rel' = rel /\ proj' = proj
        /\ \/ once' = once \/ once'.app = None
           \/ once' = Served(r) /\ req[r].pc \in {"run", "update"}
    BY <1>13, <1>t, InterruptedApp DEF Die
  <2>3. ServedIsShown'
    <3>1. CASE once' = Served(r) /\ req[r].pc \in {"run", "update"}
      BY <3>1, <2>2 DEF ReleaseInv, CallOK, Served, ServedIsShown
    <3> QED BY <2>2, <3>1 DEF ReleaseInv, ServedIsShown, Known
  <2> QED BY <2>1, <2>2, <2>3 DEF ReleaseInv, Unreleased, Known
<1>14. CASE Tick
  <2>1. \A s \in Request :
          /\ req'[s].pc = req[s].pc /\ req'[s].op = req[s].op /\ req'[s].digest = req[s].digest
          /\ req'[s].host = req[s].host /\ req'[s].recorded = req[s].recorded
    BY <1>14, <1>t DEF Tick, TypeOK, Call
  <2>2. rel' = rel /\ once' = once /\ proj'.exists = proj.exists
    BY <1>14, <1>t DEF Tick, TypeOK, ProjectRow
  <2>3. \A s \in Request : CallOK(s)'
    BY <2>1, <2>2 DEF ReleaseInv, CallOK, Known, Served
  <2> QED BY <2>2, <2>3 DEF ReleaseInv, Unreleased, ServedIsShown, Known
<1>15. ASSUME NEW h \in Host, UpdateProject(h) PROVE Goal
  <2>1. rel' = rel /\ once' = once /\ req' = req /\ proj'.exists = proj.exists
    BY <1>15, <1>t DEF UpdateProject, TypeOK, ProjectRow
  <2>2. \A s \in Request : CallOK(s)'
    BY <2>1 DEF ReleaseInv, CallOK, Known, Served
  <2> QED BY <2>1, <2>2 DEF ReleaseInv, Unreleased, ServedIsShown, Known
<1>16. CASE UNCHANGED vars
  BY <1>16 DEF vars, ReleaseInv, Unreleased, ServedIsShown, Known, CallOK, Served
<1> QED BY <1>1, <1>2, <1>3, <1>4, <1>5, <1>6, <1>7, <1>8, <1>9, <1>10, <1>11, <1>12, <1>13, <1>14,
           <1>15, <1>16 DEF Next, Step

\* The initial state satisfies the invariant, and so does every state.
LEMMA ReleaseInvariant == Spec => []ReleaseInv
<1>1. Init => ReleaseInv
  <2> SUFFICES ASSUME Init PROVE ReleaseInv
    OBVIOUS
  <2>1. Known = {}
    BY DEF Init, NoReleases, Known
  <2> QED BY InitLock, <2>1
          DEF Init, ReleaseInv, Unreleased, ServedIsShown, CallOK, Idle, NoProject
<1>2. ReleaseInv /\ [Next]_vars => ReleaseInv'
  <2> SUFFICES ASSUME ReleaseInv, [Next]_vars PROVE ReleaseInv'
    OBVIOUS
  <2>1. LockInv'
    BY TypeStep, LockNext, DigestNext DEF ReleaseInv, LockInv
  <2> QED BY <2>1, ReleaseNext DEF ReleaseInv
<1> QED BY <1>1, <1>2, PTL DEF Spec

\* What serves is the active release, or its row says that it is deploying or has
\* failed, whatever is killed or dies in the middle of a deployment.
THEOREM ServedIsShownHolds == Spec => []ServedIsShown
BY ReleaseInvariant, PTL DEF ReleaseInv

\* Delete never removes the rows of a release that still serves.
THEOREM NeverAbandonedHolds == Spec => NeverAbandoned
<1>1. ReleaseInv =>
        [\A r \in Request :
           At(r, "erase") /\ req[r].op = "delete" /\ Known # {} /\ ~proj'.exists
           => once.app = None]_vars
  BY DEF ReleaseInv, CallOK, At
<1> QED BY <1>1, ReleaseInvariant, PTL DEF NeverAbandoned

\* Only activateRelease makes a release succeed, and then the container that it asked
\* for serves its host name, and no other release is active.
LEMMA Succeeds ==
    ASSUME ReleaseInv, [Next]_vars, NEW d \in Digest,
           rel[d].status # "succeeded", rel'[d].status = "succeeded"
    PROVE  /\ \E r \in Request : At(r, "activate") /\ InUse(req[r].host) /\ once.app.image = d
           /\ \A e \in Digest : rel'[e].active <=> e = d
<1>t. TypeOK
  BY DEF ReleaseInv, LockInv
<1>1. ASSUME NEW r \in Request, Deploy(r) \/ Rollback(r) PROVE FALSE
  <2>1. PICK c \in Digest, same \in BOOLEAN : DeployOf(r, c, same)
    BY <1>1, <1>t DEF Deploy, Rollback, PreviousSucceeded, ReleaseInv, LockInv, HasDigest, TypeOK,
                      Call, At
  <2>2. rel' = rel \/ rel' = BeginRelease(c)
    BY <2>1 DEF DeployOf
  <2>3. BeginRelease(c)[d] = rel[d] \/ BeginRelease(c)[d].status = "deploying"
    <3>1. CASE c = d
      BY <3>1, <1>t DEF BeginRelease, TypeOK
    <3>2. CASE c # d
      BY <3>2, <1>t DEF BeginRelease, TypeOK
    <3> QED BY <3>1, <3>2
  <2> QED BY <2>2, <2>3
<1>2. ASSUME NEW r \in Request, FailRelease(r) PROVE FALSE
  <2>1. rel'[d] = rel[d] \/ rel'[d].status = "failed"
    BY <1>2, <1>t DEF FailRelease, FailedStatus, TypeOK, ReleaseRow
  <2> QED BY <2>1
<1>3. ASSUME NEW r \in Request, Erase(r) PROVE FALSE
  BY <1>3 DEF Erase, NoReleases
<1>4. PICK r \in Request : Activate(r)
  <2>1. rel' # rel
    OBVIOUS
  <2> QED BY <2>1, <1>1, <1>2, <1>3
          DEF Next, vars, Step, Beginning, Begin, Unlock, RollbackRefused, OnceDeploy, OnceUpdate,
              Probe, CreateProject, Provisioned, ProvisionFails, CleanUp, CleanUpRefused,
              BeginDelete, OnceUndeploy, Teardown, Killed, GivesUp, Die, Tick, UpdateProject
<1>5. rel' = Activated(req[r].digest) /\ At(r, "activate")
  BY <1>4 DEF Activate
<1>6. req[r].digest \in Digest /\ once.app = Served(r).app
  BY <1>5 DEF ReleaseInv, LockInv, HasDigest, CallOK, At
<1>7. /\ \A e \in Digest : rel'[e].active <=> e = req[r].digest
      /\ d # req[r].digest => rel'[d].status = rel[d].status
  BY <1>5, <1>t DEF Activated, TypeOK, ReleaseRow
<1>8. req[r].host \in Host \cup {None} /\ req[r].recorded \in BOOLEAN
  BY <1>t DEF TypeOK, Call
<1>9. /\ once.app = [host |-> req[r].host, image |-> req[r].digest, recorded |-> req[r].recorded]
      /\ once.app # None
  BY <1>6, <1>8 DEF Served
<1>10. once.app.image = req[r].digest /\ InUse(req[r].host)
  BY <1>9 DEF InUse
<1> QED BY <1>5, <1>7, <1>10

\* A release that becomes succeeded serves the host name its request asked for, and
\* is the only active one.
THEOREM ActivatedServesHolds == Spec => ActivatedServes
<1>1. ReleaseInv /\ [Next]_vars =>
        [\A d \in Digest : rel[d].status # "succeeded" /\ rel'[d].status = "succeeded" =>
           /\ \E r \in Request : At(r, "activate") /\ InUse(req[r].host) /\ once.app.image = d
           /\ \A e \in Digest : rel'[e].active <=> e = d]_vars
  BY Succeeds
<1> QED BY <1>1, ReleaseInvariant, PTL DEF Spec, ActivatedServes

----------------------------------------------------------------------------
(* The repository behind a project.  What tracks a repository is the record; *)
(* it is forgotten by the last call of a deletion or a clean-up.  The calls  *)
(* that are left say what was done: once "drop_repo" is no longer among      *)
(* them, the repository is not the project's.                                *)

Row == [obs : {"none", "pending", "ready"}, adopted : BOOLEAN, ci : BOOLEAN]
Repo == [by : ScmProject \cup {"nobody", "user"}, piped : BOOLEAN, pushes : BOOLEAN]
World == [recs : SUBSET ScmProject, row : [ScmProject -> Row], mirror : SUBSET ScmProject,
          creds : SUBSET ScmProject, repo : Repo, users : SUBSET ScmProject, tokens : SUBSET ScmProject,
          kept : SUBSET ScmProject, wp : BOOLEAN, secrets : SUBSET ScmProject, release : SUBSET ScmProject]
CallName == {"issue", "row", "repo", "own", "ci", "cirow", "user", "token", "keep", "secrets", "pipeline", "ready",
         "mark", "undo_secrets", "undo_ci", "undo_user", "undo_kept", "undo_repo",
         "read", "drop_secrets", "deactivate", "drop_repo", "drop_token", "drop_user", "drop_kept", "drop_row",
         "record", "undeploy", "m_secret", "m_put", "m_row", "m_unput", "m_unsecret", "m_drop"}
ScmOp == [todo : Seq(CallName), made : SUBSET CallName, live : BOOLEAN, keeps : BOOLEAN, ci : BOOLEAN]

Has(t, x) == \E i \in DOMAIN t : t[i] = x
Before(x, y, t) == \A i, j \in DOMAIN t : t[i] = y /\ t[j] = x => j < i
Once(x, t) == \A i, j \in DOMAIN t : t[i] = x /\ t[j] = x => i = j
Making == {"row", "repo", "own", "user"}

\* What is in a sequence is its head or in its tail.
LEMMA HasTail ==
    ASSUME NEW t \in Seq(CallName), t # <<>>, NEW x
    PROVE  Has(t, x) <=> Head(t) = x \/ Has(Tail(t), x)
<1>1. ASSUME NEW i \in DOMAIN t, t[i] = x PROVE Head(t) = x \/ Has(Tail(t), x)
  <2>1. CASE i = 1
    BY <1>1, <2>1
  <2>2. CASE i # 1
    <3>1. i - 1 \in DOMAIN Tail(t) /\ Tail(t)[i - 1] = t[i]
      BY <2>2
    <3> QED BY <3>1, <1>1 DEF Has
  <2> QED BY <2>1, <2>2
<1>2. ASSUME NEW i \in DOMAIN Tail(t), Tail(t)[i] = x PROVE Has(t, x)
  <2>1. i + 1 \in DOMAIN t /\ t[i + 1] = x
    BY <1>2
  <2> QED BY <2>1 DEF Has
<1>3. Head(t) = x => Has(t, x)
  <2>1. 1 \in DOMAIN t /\ t[1] = Head(t)
    OBVIOUS
  <2> QED BY <2>1 DEF Has
<1> QED BY <1>1, <1>2, <1>3 DEF Has

\* What is in two sequences in a row is in one of them.
LEMMA HasConcat ==
    ASSUME NEW s \in Seq(CallName), NEW t \in Seq(CallName), NEW x
    PROVE  Has(s \o t, x) <=> Has(s, x) \/ Has(t, x)
<1>1. ASSUME NEW i \in DOMAIN (s \o t), (s \o t)[i] = x PROVE Has(s, x) \/ Has(t, x)
  <2>1. CASE i <= Len(s)
    <3>1. i \in DOMAIN s /\ s[i] = x
      BY <1>1, <2>1
    <3> QED BY <3>1 DEF Has
  <2>2. CASE ~(i <= Len(s))
    <3>1. i - Len(s) \in DOMAIN t /\ t[i - Len(s)] = x
      BY <1>1, <2>2
    <3> QED BY <3>1 DEF Has
  <2> QED BY <2>1, <2>2
<1>2. ASSUME NEW i \in DOMAIN s, s[i] = x PROVE Has(s \o t, x)
  <2>1. i \in DOMAIN (s \o t) /\ (s \o t)[i] = x
    BY <1>2
  <2> QED BY <2>1 DEF Has
<1>3. ASSUME NEW i \in DOMAIN t, t[i] = x PROVE Has(s \o t, x)
  <2>1. i + Len(s) \in DOMAIN (s \o t) /\ (s \o t)[i + Len(s)] = x
    BY <1>3
  <2> QED BY <2>1 DEF Has
<1> QED BY <1>1, <1>2, <1>3 DEF Has

\* The order of two calls holds of the rest, and a call that comes first has none before it.
LEMMA BeforeTail ==
    ASSUME NEW t \in Seq(CallName), t # <<>>, NEW x, NEW y, Before(x, y, t)
    PROVE  /\ Before(x, y, Tail(t))
           /\ Head(t) = y => ~Has(t, x)
<1>1. ASSUME NEW i \in DOMAIN Tail(t), NEW j \in DOMAIN Tail(t), Tail(t)[i] = y, Tail(t)[j] = x PROVE j < i
  <2>1. i + 1 \in DOMAIN t /\ j + 1 \in DOMAIN t /\ t[i + 1] = y /\ t[j + 1] = x
    BY <1>1
  <2>2. j + 1 < i + 1
    BY <2>1 DEF Before
  <2> QED BY <2>2
<1>2. ASSUME Head(t) = y, NEW j \in DOMAIN t, t[j] = x PROVE FALSE
  <2>1. 1 \in DOMAIN t /\ t[1] = y
    BY <1>2
  <2>2. j < 1
    BY <2>1, <1>2 DEF Before
  <2> QED BY <2>2
<1> QED BY <1>1, <1>2 DEF Before, Has

\* A call that occurs once does not come again.
LEMMA OnceTail ==
    ASSUME NEW t \in Seq(CallName), t # <<>>, NEW x, Once(x, t)
    PROVE  /\ Once(x, Tail(t))
           /\ Head(t) = x => ~Has(Tail(t), x)
<1>1. ASSUME NEW i \in DOMAIN Tail(t) PROVE i + 1 \in DOMAIN t /\ Tail(t)[i] = t[i + 1] /\ i + 1 # 1 /\ i \in Nat
  OBVIOUS
<1>2. Once(x, Tail(t))
  <2> SUFFICES ASSUME NEW i \in DOMAIN Tail(t), NEW j \in DOMAIN Tail(t), Tail(t)[i] = x, Tail(t)[j] = x PROVE i = j
    BY DEF Once
  <2>1. i + 1 = j + 1
    BY <1>1 DEF Once
  <2> QED BY <2>1, <1>1
<1>3. ASSUME Head(t) = x, NEW i \in DOMAIN Tail(t), Tail(t)[i] = x PROVE FALSE
  <2>1. 1 \in DOMAIN t /\ t[1] = x
    BY <1>3
  <2> QED BY <2>1, <1>1, <1>3 DEF Once
<1> QED BY <1>2, <1>3 DEF Has

\* The order of two calls in a body put together of two.
LEMMA BeforeConcat ==
    ASSUME NEW s \in Seq(CallName), NEW t \in Seq(CallName), NEW x, NEW y,
           Before(x, y, s), Before(x, y, t), ~Has(s, y) \/ ~Has(t, x)
    PROVE  Before(x, y, s \o t)
<1> SUFFICES ASSUME NEW i \in DOMAIN (s \o t), NEW j \in DOMAIN (s \o t), (s \o t)[i] = y, (s \o t)[j] = x
             PROVE  j < i
    BY DEF Before
<1>1. CASE i <= Len(s) /\ j <= Len(s)
  <2>1. i \in DOMAIN s /\ j \in DOMAIN s /\ s[i] = y /\ s[j] = x
    BY <1>1
  <2> QED BY <2>1 DEF Before
<1>2. CASE i > Len(s) /\ j > Len(s)
  <2>1. i - Len(s) \in DOMAIN t /\ j - Len(s) \in DOMAIN t /\ t[i - Len(s)] = y /\ t[j - Len(s)] = x
    BY <1>2
  <2>2. j - Len(s) < i - Len(s)
    BY <2>1 DEF Before
  <2> QED BY <2>2
<1>3. CASE i <= Len(s) /\ j > Len(s)
  <2>1. i \in DOMAIN s /\ s[i] = y
    BY <1>3
  <2>2. j - Len(s) \in DOMAIN t /\ t[j - Len(s)] = x
    BY <1>3
  <2> QED BY <2>1, <2>2 DEF Has
<1>4. CASE i > Len(s) /\ j <= Len(s)
  BY <1>4
<1> QED BY <1>1, <1>2, <1>3, <1>4

Shape(t) ==
    /\ Before("row", "repo", t) /\ Once("repo", t) /\ Before("repo", "own", t)
    /\ Before("read", "drop_repo", t) /\ Before("drop_repo", "drop_row", t)
    /\ \A i \in DOMAIN t : t[i] = "record" => i = Len(t)
    /\ Has(t, "drop_row") => Has(t, "record")
    /\ Has(t, "record") => \A x \in Making : ~Has(t, x)

Whole(t) == Has(t, "read") /\ Has(t, "drop_repo") /\ Has(t, "drop_user")

\* The rest of a body has its shape; the record is forgotten by the last call.
LEMMA ShapeTail ==
    ASSUME NEW t \in Seq(CallName), t # <<>>, Shape(t)
    PROVE  /\ Shape(Tail(t))
           /\ Head(t) = "record" => Len(t) = 1
           /\ Head(t) = "drop_row" => Len(t) # 1
           /\ \A x : Has(Tail(t), x) => Len(t) # 1
<1>0. \A x : Has(Tail(t), x) => Len(t) # 1
  BY DEF Has
<1>1. ASSUME NEW x, NEW y, Before(x, y, t) PROVE Before(x, y, Tail(t))
  BY <1>1, BeforeTail
<1>2. Before("row", "repo", Tail(t)) /\ Before("repo", "own", Tail(t)) /\ Before("read", "drop_repo", Tail(t)) /\ Before("drop_repo", "drop_row", Tail(t))
  BY <1>1 DEF Shape
<1>3. ASSUME NEW i \in DOMAIN Tail(t), Tail(t)[i] = "record" PROVE i = Len(Tail(t))
  <2>1. i + 1 \in DOMAIN t /\ t[i + 1] = "record"
    BY <1>3
  <2>2. i + 1 = Len(t)
    BY <2>1 DEF Shape
  <2> QED BY <2>2
<1>4. Head(t) = "record" => Len(t) = 1
  <2>1. 1 \in DOMAIN t /\ t[1] = Head(t)
    OBVIOUS
  <2> QED BY <2>1 DEF Shape
<1>5. Has(Tail(t), "drop_row") => Has(Tail(t), "record")
  <2>1. Has(Tail(t), "drop_row") => Has(t, "record")
    BY HasTail DEF Shape
  <2>2. Has(Tail(t), "drop_row") => Head(t) # "record"
    <3>1. Has(Tail(t), "drop_row") => Len(t) # 1
      BY DEF Has
    <3> QED BY <3>1, <1>4
  <2> QED BY <2>1, <2>2, HasTail
<1>6. Has(Tail(t), "record") => \A x \in Making : ~Has(Tail(t), x)
  BY HasTail DEF Shape
<1>7. Head(t) = "drop_row" => Len(t) # 1
  <2> SUFFICES ASSUME Head(t) = "drop_row", Len(t) = 1 PROVE FALSE
    OBVIOUS
  <2>1. Has(t, "record")
    BY HasTail DEF Shape
  <2>2. ~Has(Tail(t), "record")
    BY <1>0
  <2>3. Head(t) = "record"
    BY <2>1, <2>2, HasTail
  <2> QED BY <2>3
<1>8. Once("repo", Tail(t))
  BY OnceTail DEF Shape
<1> QED BY <1>0, <1>2, <1>3, <1>4, <1>5, <1>6, <1>7, <1>8 DEF Shape

\* Service.deprovision reads first, drops the repository before the row, and forgets no record.
LEMMA BodyFacts ==
    /\ Deprovision \in Seq(CallName) /\ Whole(Deprovision)
    /\ \A x \in Making \cup {"record", "drop_row"} : Has(Deprovision, x) => x = "drop_row"
    /\ Before("read", "drop_repo", Deprovision) /\ Before("drop_repo", "drop_row", Deprovision)
<1>1. Deprovision \in Seq(CallName)
  BY DEF Deprovision, CallName
<1>2. DOMAIN Deprovision = 1..8
  BY DEF Deprovision
<1>3. Deprovision[1] = "read" /\ Deprovision[4] = "drop_repo" /\ Deprovision[6] = "drop_user" /\ Deprovision[8] = "drop_row"
  BY DEF Deprovision
<1>4. \A i \in 1..8 : /\ Deprovision[i] \notin Making \cup {"record"}
                      /\ Deprovision[i] = "read" => i = 1
                      /\ Deprovision[i] = "drop_repo" => i = 4
                      /\ Deprovision[i] = "drop_row" => i = 8
  BY DEF Deprovision, Making
<1>5. Whole(Deprovision)
  BY <1>2, <1>3 DEF Whole, Has
<1> QED BY <1>1, <1>2, <1>4, <1>5 DEF Has, Before

\* A body that makes nothing, and drops all there is before it forgets the record.
Harmless(t) == (\A x \in Making : ~Has(t, x)) /\ (Has(t, "record") => Whole(t))

\* What comes before deprovisioning in a clean-up or a deletion.
Quiet(s) == \A x \in Making \cup {"record", "read", "drop_repo", "drop_row"} : ~Has(s, x)

\* A body that ends with deprovisioning and the record.
LEMMA EndingShape ==
    ASSUME NEW s \in Seq(CallName), Quiet(s)
    PROVE  LET t == s \o Deprovision \o <<"record">> IN t \in Seq(CallName) /\ t # <<>> /\ Shape(t) /\ Harmless(t)
<1> DEFINE b == s \o Deprovision
           t == b \o <<"record">>
<1>1. b \in Seq(CallName) /\ <<"record">> \in Seq(CallName) /\ t \in Seq(CallName)
  <2>1. <<"record">> \in Seq(CallName)
    BY DEF CallName
  <2> QED BY <2>1, BodyFacts
<1>2. \A x : Has(b, x) <=> Has(s, x) \/ Has(Deprovision, x)
  BY BodyFacts, HasConcat
<1>3. \A x : Has(<<"record">>, x) <=> x = "record"
  BY DEF Has
<1>4. \A x : Has(t, x) <=> Has(b, x) \/ x = "record"
  BY <1>1, <1>3, HasConcat
<1>5. /\ Before("read", "drop_repo", s) /\ Before("drop_repo", "drop_row", s)
  BY DEF Quiet, Before, Has
<1>6. Before("read", "drop_repo", b) /\ Before("drop_repo", "drop_row", b)
  BY <1>5, BodyFacts, BeforeConcat DEF Quiet
<1>7. Before("read", "drop_repo", <<"record">>) /\ Before("drop_repo", "drop_row", <<"record">>)
  BY DEF Before
<1>8. Before("read", "drop_repo", t) /\ Before("drop_repo", "drop_row", t)
  BY <1>1, <1>3, <1>6, <1>7, BeforeConcat
<1>9. \A x \in Making \cup {"record"} : ~Has(b, x)
  BY <1>2, BodyFacts DEF Quiet, Making
<1>10. Before("row", "repo", t) /\ Once("repo", t) /\ Before("repo", "own", t)
  <2>1. ~Has(t, "repo") /\ ~Has(t, "own")
    BY <1>4, <1>9 DEF Making
  <2> QED BY <2>1 DEF Before, Has, Once
<1>11. \A i \in DOMAIN t : t[i] = "record" => i = Len(t)
  <2> SUFFICES ASSUME NEW i \in DOMAIN t, t[i] = "record", i # Len(t) PROVE FALSE
    OBVIOUS
  <2>1. i \in DOMAIN b /\ b[i] = "record"
    BY <1>1
  <2> QED BY <2>1, <1>9 DEF Has
<1>12. Has(t, "record") /\ Whole(t) /\ \A x \in Making : ~Has(t, x)
  BY <1>2, <1>4, <1>9, BodyFacts DEF Whole, Making
<1>13. t # <<>>
  BY <1>1
<1> HIDE DEF b, t
<1>14. t \in Seq(CallName) /\ t # <<>> /\ Shape(t) /\ Harmless(t)
  BY <1>1, <1>8, <1>10, <1>11, <1>12, <1>13 DEF Shape, Harmless
<1> QED BY <1>14 DEF t, b

\* The clean-up of any failure.
LEMMA CleanupShape ==
    ASSUME NEW x PROVE CleanupOf(x) \in Seq(CallName) /\ CleanupOf(x) # <<>> /\ Shape(CleanupOf(x)) /\ Harmless(CleanupOf(x))
<1> DEFINE a == IF x = "keep" THEN <<"drop_token">> ELSE <<>>
           c == IF x = "row" THEN <<>> ELSE <<"mark">> \o Compensate
<1>1. Compensate \in Seq(CallName) /\ <<"mark">> \in Seq(CallName) /\ <<"drop_token">> \in Seq(CallName) /\ <<>> \in Seq(CallName)
  BY DEF Compensate, CallName
<1>2. Quiet(<<"drop_token">>) /\ Quiet(<<>>) /\ Quiet(<<"mark">>)
  BY DEF Quiet, Has, Making
<1>3. Quiet(Compensate)
  <2>1. DOMAIN Compensate = 1..5
    BY DEF Compensate
  <2>2. \A i \in 1..5 : Compensate[i] \notin Making \cup {"record", "read", "drop_repo", "drop_row"}
    BY DEF Compensate, Making
  <2> QED BY <2>1, <2>2 DEF Quiet, Has
<1>4. ASSUME NEW s \in Seq(CallName), NEW t \in Seq(CallName), Quiet(s), Quiet(t) PROVE Quiet(s \o t)
  BY <1>4, HasConcat DEF Quiet
<1>5. a \in Seq(CallName) /\ Quiet(a)
  BY <1>1, <1>2
<1>6. c \in Seq(CallName) /\ Quiet(c)
  <2>1. <<"mark">> \o Compensate \in Seq(CallName)
    BY <1>1
  <2>2. Quiet(<<"mark">> \o Compensate)
    BY <1>1, <1>2, <1>3, <1>4
  <2> QED BY <1>1, <1>2, <2>1, <2>2
<1>7. CleanupOf(x) = (a \o c) \o Deprovision \o <<"record">>
  BY DEF CleanupOf
<1> HIDE DEF a, c
<1>8. a \o c \in Seq(CallName) /\ Quiet(a \o c)
  BY <1>4, <1>5, <1>6
<1> QED BY <1>7, <1>8, EndingShape

\* The body of DeleteProject.
LEMMA DeletionShape ==
    LET t == <<"undeploy">> \o Deprovision \o <<"record">>
    IN  t \in Seq(CallName) /\ t # <<>> /\ Shape(t) /\ Harmless(t)
<1>1. <<"undeploy">> \in Seq(CallName)
  BY DEF CallName
<1>2. \A x : Has(<<"undeploy">>, x) => x = "undeploy"
  BY DEF Has
<1>3. Quiet(<<"undeploy">>)
  BY <1>2 DEF Quiet, Making
<1> QED BY <1>1, <1>3, EndingShape

\* The two bodies of CreateProject.
LEMMA ProvisionShape ==
    /\ Provision \in Seq(CallName) /\ Shape(Provision) /\ Has(Provision, "row") /\ Has(Provision, "repo") /\ ~Has(Provision, "record")
    /\ ProvisionDocs \in Seq(CallName) /\ Shape(ProvisionDocs) /\ Has(ProvisionDocs, "row") /\ Has(ProvisionDocs, "repo")
    /\ ~Has(ProvisionDocs, "record")
<1>1. Provision \in Seq(CallName) /\ ProvisionDocs \in Seq(CallName) /\ DOMAIN Provision = 1..12 /\ DOMAIN ProvisionDocs = 1..4
  BY DEF Provision, ProvisionDocs, CallName
<1>2. Provision[2] = "row" /\ Provision[3] = "repo" /\ ProvisionDocs[1] = "row" /\ ProvisionDocs[2] = "repo"
  BY DEF Provision, ProvisionDocs
<1>3. \A i \in 1..12 : /\ Provision[i] \notin {"record", "drop_row", "drop_repo", "read"}
                       /\ Provision[i] = "row" => i = 2
                       /\ Provision[i] = "repo" => i = 3
                       /\ Provision[i] = "own" => i = 4
  BY DEF Provision
<1>4. \A i \in 1..4 : /\ ProvisionDocs[i] \notin {"record", "drop_row", "drop_repo", "read"}
                      /\ ProvisionDocs[i] = "row" => i = 1
                      /\ ProvisionDocs[i] = "repo" => i = 2
                      /\ ProvisionDocs[i] = "own" => i = 3
  BY DEF ProvisionDocs
<1>5. Shape(Provision) /\ ~Has(Provision, "record")
  BY <1>1, <1>3 DEF Shape, Has, Before, Once
<1>6. Shape(ProvisionDocs) /\ ~Has(ProvisionDocs, "record")
  BY <1>1, <1>4 DEF Shape, Has, Before, Once
<1> QED BY <1>1, <1>2, <1>5, <1>6 DEF Has

----------------------------------------------------------------------------
(* What the calls change *)

USE ScmProjectAssumption

\* What a call changes for its own project and for the others.
Moves(p, o, s, w, v) ==
    /\ v \in World
    /\ v.recs = IF s = "record" THEN w.recs \ {p} ELSE w.recs
    /\ \A q \in ScmProject : q \in v.users => q \in w.users \/ (s = "user" /\ q = p)
    /\ s = "drop_user" => p \notin v.users
    /\ v.repo.by \in {w.repo.by, "nobody"} \/ (s = "repo" /\ v.repo.by = p /\ w.repo.by = "nobody")
    /\ s = "drop_repo" /\ ~o.keeps => v.repo.by = "nobody"
    /\ \A q \in ScmProject : q # p => v.row[q] = w.row[q]
    /\ s \notin {"row", "drop_row"} => (HasRow(v, p) <=> HasRow(w, p))
    /\ s \notin {"row", "drop_row", "own"} => v.row[p].adopted = w.row[p].adopted
    /\ s = "own" /\ "repo" \in o.made /\ ~w.row[p].adopted => ~v.row[p].adopted
    /\ s = "row" => HasRow(v, p) /\ ~v.row[p].adopted

ProvisionSteps == {"issue", "row", "repo", "own", "ci", "cirow", "user", "token", "keep", "secrets", "pipeline", "ready"}
CompensateSteps == {"undo_secrets", "undo_ci", "undo_user", "undo_kept", "undo_repo"}
DeprovisionSteps == {"drop_secrets", "deactivate", "drop_repo", "drop_token", "drop_user", "drop_kept", "drop_row"}
MirrorSteps == {"m_secret", "m_put", "m_row", "m_unput", "m_unsecret", "m_drop"}

\* Writing a row changes nothing else.
LEMMA RowChange ==
    ASSUME NEW p \in ScmProject, NEW w \in World, NEW r \in Row
    PROVE  /\ [w EXCEPT !.row[p] = r] \in World
           /\ [w EXCEPT !.row[p] = r].row[p] = r
           /\ \A q \in ScmProject : q # p => [w EXCEPT !.row[p] = r].row[q] = w.row[q]
           /\ [w EXCEPT !.row[p] = r].recs = w.recs
           /\ [w EXCEPT !.row[p] = r].users = w.users
           /\ [w EXCEPT !.row[p] = r].repo = w.repo
BY DEF World

\* Updating a row that may be gone changes nothing else.
LEMMA SetRowMoves ==
    ASSUME NEW p \in ScmProject, NEW w \in World, NEW r \in Row
    PROVE  LET v == SetRow(w, p, r) IN
           /\ v \in World /\ v.recs = w.recs /\ v.users = w.users /\ v.repo = w.repo
           /\ \A q \in ScmProject : q # p => v.row[q] = w.row[q]
           /\ v.row[p] = IF HasRow(w, p) THEN r ELSE w.row[p]
BY RowChange DEF SetRow

\* What a call of Provision changes.
LEMMA ProvisionMoves ==
    ASSUME NEW p \in ScmProject, NEW o \in ScmOp, NEW w \in World, NEW s \in CallName
    PROVE  IF s \in ProvisionSteps THEN Moves(p, o, s, w, ProvisionEffect(p, o, s, w)) ELSE ProvisionEffect(p, o, s, w) = w
<1>0. w.row[p] \in Row /\ w.repo \in Repo
  BY DEF World
<1>1. CASE s = "issue"
  <2>1. ProvisionEffect(p, o, s, w) = [w EXCEPT !.release = @ \cup {p}]
    BY <1>1 DEF ProvisionEffect, IssueReleaseToken
  <2> QED BY <1>1, <2>1 DEF Moves, World, HasRow, ProvisionSteps
<1>2. CASE s = "row"
  <2> DEFINE r == [NoRow EXCEPT !.obs = "pending"]
  <2>1. ProvisionEffect(p, o, s, w) = [w EXCEPT !.row[p] = r]
    BY <1>2 DEF ProvisionEffect
  <2>2. r \in Row /\ r.obs = "pending" /\ r.adopted = FALSE
    BY DEF Row, NoRow
  <2> HIDE DEF r
  <2>3. PICK v : v = [w EXCEPT !.row[p] = r]
    OBVIOUS
  <2>4. /\ v \in World /\ v.row[p] = r /\ v.recs = w.recs /\ v.users = w.users /\ v.repo = w.repo
        /\ \A q \in ScmProject : q # p => v.row[q] = w.row[q]
    BY <2>2, <2>3, RowChange
  <2>5. Moves(p, o, s, w, v)
    BY <1>2, <2>2, <2>4 DEF Moves, HasRow
  <2> QED BY <1>2, <2>1, <2>3, <2>5 DEF ProvisionSteps
<1>3. CASE s = "repo"
  <2>1. ProvisionEffect(p, o, s, w) = CreateRepo(p, w)
    BY <1>3 DEF ProvisionEffect
  <2>2. CASE Exists(w)
    BY <1>3, <2>1, <2>2 DEF CreateRepo, Moves, HasRow, World, ProvisionSteps
  <2>3. CASE ~Exists(w)
    <3>1. PICK r : r = [NoRepo EXCEPT !.by = p]
      OBVIOUS
    <3>2. r \in Repo /\ r.by = p
      BY <3>1 DEF NoRepo, Repo
    <3>3. CreateRepo(p, w) = [w EXCEPT !.repo = r]
      BY <2>3, <3>1 DEF CreateRepo
    <3> QED BY <1>3, <2>1, <2>3, <3>2, <3>3 DEF Moves, World, HasRow, Exists, ProvisionSteps
  <2> QED BY <2>2, <2>3
<1>4. CASE s = "own"
  <2>1. PICK b \in BOOLEAN : b = ("repo" \notin o.made)
    OBVIOUS
  <2>2. PICK r : r = [w.row[p] EXCEPT !.adopted = b]
    OBVIOUS
  <2>3. r \in Row /\ r.obs = w.row[p].obs /\ r.adopted = b
    BY <1>0, <2>2 DEF Row
  <2>4. ProvisionEffect(p, o, s, w) = SetRow(w, p, r)
    BY <1>4, <2>1, <2>2 DEF ProvisionEffect, RecordOwnership
  <2>5. PICK v : v = SetRow(w, p, r)
    OBVIOUS
  <2>6. /\ v \in World /\ v.recs = w.recs /\ v.users = w.users /\ v.repo = w.repo
        /\ \A q \in ScmProject : q # p => v.row[q] = w.row[q]
        /\ v.row[p] = IF HasRow(w, p) THEN r ELSE w.row[p]
    BY <2>3, <2>5, SetRowMoves
  <2>7. Moves(p, o, s, w, v)
    BY <1>4, <2>1, <2>3, <2>6 DEF Moves, HasRow
  <2> QED BY <1>4, <2>4, <2>5, <2>7 DEF ProvisionSteps
<1>5. CASE s = "ci"
  <2>1. ProvisionEffect(p, o, s, w) = [w EXCEPT !.wp = TRUE]
    BY <1>5 DEF ProvisionEffect, EnsureRepo
  <2> QED BY <1>5, <2>1 DEF Moves, World, HasRow, ProvisionSteps
<1>6. CASE s = "cirow"
  <2>1. PICK r : r = [w.row[p] EXCEPT !.ci = TRUE]
    OBVIOUS
  <2>2. r \in Row /\ r.obs = w.row[p].obs /\ r.adopted = w.row[p].adopted
    BY <1>0, <2>1 DEF Row
  <2>3. ProvisionEffect(p, o, s, w) = [w EXCEPT !.row[p] = r]
    BY <1>6, <2>1 DEF ProvisionEffect, CIRow, World
  <2>4. PICK v : v = [w EXCEPT !.row[p] = r]
    OBVIOUS
  <2>5. /\ v \in World /\ v.row[p] = r /\ v.recs = w.recs /\ v.users = w.users /\ v.repo = w.repo
        /\ \A q \in ScmProject : q # p => v.row[q] = w.row[q]
    BY <2>2, <2>4, RowChange
  <2>6. Moves(p, o, s, w, v)
    BY <1>6, <2>2, <2>5 DEF Moves, HasRow
  <2> QED BY <1>6, <2>3, <2>4, <2>6 DEF ProvisionSteps
<1>7. CASE s = "user"
  <2>1. ProvisionEffect(p, o, s, w) = [w EXCEPT !.users = @ \cup {p}]
    BY <1>7 DEF ProvisionEffect, CreateUser
  <2> QED BY <1>7, <2>1 DEF Moves, World, HasRow, ProvisionSteps
<1>8. CASE s = "token"
  <2>1. ProvisionEffect(p, o, s, w) = [w EXCEPT !.tokens = @ \cup {p}]
    BY <1>8 DEF ProvisionEffect, CreateToken
  <2> QED BY <1>8, <2>1 DEF Moves, World, HasRow, ProvisionSteps
<1>9. CASE s = "keep"
  <2>1. ProvisionEffect(p, o, s, w) = [w EXCEPT !.kept = @ \cup {p}]
    BY <1>9 DEF ProvisionEffect
  <2> QED BY <1>9, <2>1 DEF Moves, World, HasRow, ProvisionSteps
<1>10. CASE s = "secrets"
  <2>1. ProvisionEffect(p, o, s, w) = [w EXCEPT !.secrets = @ \cup {p}]
    BY <1>10 DEF ProvisionEffect, UpsertRepoSecrets
  <2> QED BY <1>10, <2>1 DEF Moves, World, HasRow, ProvisionSteps
<1>11. CASE s = "pipeline"
  <2>1. PICK r : r = [w.repo EXCEPT !.piped = TRUE]
    OBVIOUS
  <2>2. r \in Repo /\ r.by = w.repo.by
    BY <1>0, <2>1 DEF Repo
  <2>3. ProvisionEffect(p, o, s, w) = [w EXCEPT !.repo = r]
    BY <1>11, <2>1 DEF ProvisionEffect, SeedPipeline, World
  <2> QED BY <1>11, <2>2, <2>3 DEF Moves, World, HasRow, ProvisionSteps
<1>12. CASE s = "ready"
  <2>1. PICK r : r = [w.row[p] EXCEPT !.obs = "ready"]
    OBVIOUS
  <2>2. r \in Row /\ r.obs = "ready" /\ r.adopted = w.row[p].adopted
    BY <1>0, <2>1 DEF Row
  <2>3. PICK v : v = SetRow(w, p, r)
    OBVIOUS
  <2>4. ProvisionEffect(p, o, s, w) = v
    BY <1>12, <2>1, <2>3 DEF ProvisionEffect, MarkReady
  <2>5. /\ v \in World /\ v.recs = w.recs /\ v.users = w.users /\ v.repo = w.repo
        /\ \A q \in ScmProject : q # p => v.row[q] = w.row[q]
        /\ v.row[p] = IF HasRow(w, p) THEN r ELSE w.row[p]
    BY <2>2, <2>3, SetRowMoves
  <2>6. Moves(p, o, s, w, v)
    BY <1>12, <2>2, <2>5 DEF Moves, HasRow
  <2> QED BY <1>12, <2>4, <2>6 DEF ProvisionSteps
<1>13. CASE s \notin ProvisionSteps
  BY <1>13 DEF ProvisionSteps, ProvisionEffect
<1> QED BY <1>1, <1>2, <1>3, <1>4, <1>5, <1>6, <1>7, <1>8, <1>9, <1>10, <1>11, <1>12, <1>13 DEF ProvisionSteps

\* What a call of compensate changes.
LEMMA CompensateMoves ==
    ASSUME NEW p \in ScmProject, NEW o \in ScmOp, NEW w \in World, NEW s \in CallName
    PROVE  IF s \in CompensateSteps THEN Moves(p, o, s, w, CompensateEffect(p, o, s, w))
           ELSE CompensateEffect(p, o, s, w) = w
<1>0. w.row[p] \in Row /\ w.repo \in Repo
  BY DEF World
<1>1. ASSUME s \in CompensateSteps, CompensateEffect(p, o, s, w) = w PROVE Moves(p, o, s, w, CompensateEffect(p, o, s, w))
  BY <1>1 DEF CompensateSteps, Moves, HasRow
<1>2. CASE s = "undo_secrets" /\ "secrets" \in o.made
  <2>1. CompensateEffect(p, o, s, w) = [w EXCEPT !.secrets = @ \ {p}]
    BY <1>2 DEF CompensateEffect, DeleteRepoSecrets
  <2> QED BY <1>2, <2>1 DEF Moves, World, HasRow, CompensateSteps
<1>3. CASE s = "undo_ci" /\ "ci" \in o.made
  <2>1. PICK u : u = [w EXCEPT !.wp = FALSE, !.secrets = {}]
    OBVIOUS
  <2>2. PICK r : r = [w.row[p] EXCEPT !.ci = FALSE]
    OBVIOUS
  <2>3. r \in Row /\ r.obs = w.row[p].obs /\ r.adopted = w.row[p].adopted
    BY <1>0, <2>2 DEF Row
  <2>4. u \in World /\ u.row = w.row /\ u.recs = w.recs /\ u.users = w.users /\ u.repo = w.repo
    BY <2>1 DEF World
  <2>5. PICK v : v = SetRow(u, p, r)
    OBVIOUS
  <2>6. CompensateEffect(p, o, s, w) = v
    BY <1>3, <2>1, <2>2, <2>5 DEF CompensateEffect, DeactivateRepo
  <2>7. /\ v \in World /\ v.recs = u.recs /\ v.users = u.users /\ v.repo = u.repo
        /\ \A q \in ScmProject : q # p => v.row[q] = u.row[q]
        /\ v.row[p] = IF HasRow(u, p) THEN r ELSE u.row[p]
    BY <2>3, <2>4, <2>5, SetRowMoves
  <2>8. Moves(p, o, s, w, v)
    BY <1>3, <2>3, <2>4, <2>7 DEF Moves, HasRow
  <2> QED BY <1>3, <2>6, <2>8 DEF CompensateSteps
<1>4. CASE s = "undo_user" /\ "user" \in o.made
  <2>1. CompensateEffect(p, o, s, w) = [w EXCEPT !.users = @ \ {p}, !.tokens = @ \ {p}]
    BY <1>4 DEF CompensateEffect, DeleteUser
  <2> QED BY <1>4, <2>1 DEF Moves, World, HasRow, CompensateSteps
<1>5. CASE s = "undo_kept" /\ "keep" \in o.made
  <2>1. CompensateEffect(p, o, s, w) = [w EXCEPT !.kept = @ \ {p}]
    BY <1>5 DEF CompensateEffect
  <2> QED BY <1>5, <2>1 DEF Moves, World, HasRow, CompensateSteps
<1>6. CASE s = "undo_repo" /\ "repo" \in o.made
  <2>1. PICK r : r = NoRepo
    OBVIOUS
  <2>2. r \in Repo /\ r.by = "nobody"
    BY <2>1 DEF NoRepo, Repo
  <2>3. CompensateEffect(p, o, s, w) = [w EXCEPT !.repo = r]
    BY <1>6, <2>1 DEF CompensateEffect, DeleteRepo
  <2> QED BY <1>6, <2>2, <2>3 DEF Moves, World, HasRow, CompensateSteps
<1>7. CASE ~\/ s = "undo_secrets" /\ "secrets" \in o.made
            \/ s = "undo_ci" /\ "ci" \in o.made
            \/ s = "undo_user" /\ "user" \in o.made
            \/ s = "undo_kept" /\ "keep" \in o.made
            \/ s = "undo_repo" /\ "repo" \in o.made
  <2>1. CompensateEffect(p, o, s, w) = w
    BY <1>7 DEF CompensateEffect
  <2> QED BY <1>1, <2>1
<1> QED BY <1>2, <1>3, <1>4, <1>5, <1>6, <1>7

\* What a call of deprovision changes.
LEMMA DeprovisionMoves ==
    ASSUME NEW p \in ScmProject, NEW o \in ScmOp, NEW w \in World, NEW s \in CallName
    PROVE  IF s \in DeprovisionSteps THEN Moves(p, o, s, w, DeprovisionEffect(p, o, s, w))
           ELSE DeprovisionEffect(p, o, s, w) = w
<1>0. w.row[p] \in Row /\ w.repo \in Repo
  BY DEF World
<1>1. CASE s = "drop_secrets" /\ o.ci
  <2>1. DeprovisionEffect(p, o, s, w) = [w EXCEPT !.secrets = @ \ {p}]
    BY <1>1 DEF DeprovisionEffect, DeleteRepoSecrets
  <2> QED BY <1>1, <2>1 DEF Moves, World, HasRow, DeprovisionSteps
<1>2. CASE s = "deactivate" /\ o.ci
  <2>1. PICK u : u = [w EXCEPT !.wp = FALSE, !.secrets = {}]
    OBVIOUS
  <2>2. PICK r : r = [w.row[p] EXCEPT !.ci = FALSE]
    OBVIOUS
  <2>3. r \in Row /\ r.obs = w.row[p].obs /\ r.adopted = w.row[p].adopted
    BY <1>0, <2>2 DEF Row
  <2>4. u \in World /\ u.row = w.row /\ u.recs = w.recs /\ u.users = w.users /\ u.repo = w.repo
    BY <2>1 DEF World
  <2>5. PICK v : v = SetRow(u, p, r)
    OBVIOUS
  <2>6. DeprovisionEffect(p, o, s, w) = v
    BY <1>2, <2>1, <2>2, <2>5 DEF DeprovisionEffect, DeactivateRepo
  <2>7. /\ v \in World /\ v.recs = u.recs /\ v.users = u.users /\ v.repo = u.repo
        /\ \A q \in ScmProject : q # p => v.row[q] = u.row[q]
        /\ v.row[p] = IF HasRow(u, p) THEN r ELSE u.row[p]
    BY <2>3, <2>4, <2>5, SetRowMoves
  <2>8. Moves(p, o, s, w, v)
    BY <1>2, <2>3, <2>4, <2>7 DEF Moves, HasRow
  <2> QED BY <1>2, <2>6, <2>8 DEF DeprovisionSteps
<1>3. CASE s = "drop_repo" /\ ~o.keeps
  <2>1. PICK r : r = NoRepo
    OBVIOUS
  <2>2. r \in Repo /\ r.by = "nobody"
    BY <2>1 DEF NoRepo, Repo
  <2>3. DeprovisionEffect(p, o, s, w) = [w EXCEPT !.repo = r]
    BY <1>3, <2>1 DEF DeprovisionEffect, DeleteRepo
  <2> QED BY <1>3, <2>2, <2>3 DEF Moves, World, HasRow, DeprovisionSteps
<1>4. CASE s = "drop_token"
  <2>1. DeprovisionEffect(p, o, s, w) = [w EXCEPT !.tokens = @ \ {p}]
    BY <1>4 DEF DeprovisionEffect, DeleteToken
  <2> QED BY <1>4, <2>1 DEF Moves, World, HasRow, DeprovisionSteps
<1>5. CASE s = "drop_user"
  <2>1. DeprovisionEffect(p, o, s, w) = [w EXCEPT !.users = @ \ {p}, !.tokens = @ \ {p}]
    BY <1>5 DEF DeprovisionEffect, DeleteUser
  <2> QED BY <1>5, <2>1 DEF Moves, World, HasRow, DeprovisionSteps
<1>6. CASE s = "drop_kept"
  <2>1. DeprovisionEffect(p, o, s, w) = [w EXCEPT !.kept = @ \ {p}, !.creds = @ \ {p}]
    BY <1>6 DEF DeprovisionEffect
  <2> QED BY <1>6, <2>1 DEF Moves, World, HasRow, DeprovisionSteps
<1>7. CASE s = "drop_row"
  <2>1. PICK r : r = NoRow
    OBVIOUS
  <2>2. r \in Row
    BY <2>1 DEF NoRow, Row
  <2>3. PICK u : u = [w EXCEPT !.row[p] = r]
    OBVIOUS
  <2>4. /\ u \in World /\ u.row[p] = r /\ u.recs = w.recs /\ u.users = w.users /\ u.repo = w.repo
        /\ \A q \in ScmProject : q # p => u.row[q] = w.row[q]
    BY <2>2, <2>3, RowChange
  <2>5. PICK v : v = [u EXCEPT !.mirror = @ \ {p}]
    OBVIOUS
  <2>6. v \in World /\ v.row = u.row /\ v.recs = u.recs /\ v.users = u.users /\ v.repo = u.repo
    BY <2>4, <2>5 DEF World
  <2>7. DeprovisionEffect(p, o, s, w) = v
    BY <1>7, <2>1, <2>3, <2>5 DEF DeprovisionEffect, DropRow, World
  <2>8. Moves(p, o, s, w, v)
    BY <1>7, <2>4, <2>6 DEF Moves, HasRow
  <2> QED BY <1>7, <2>7, <2>8 DEF DeprovisionSteps
<1>8. CASE ~\/ s = "drop_secrets" /\ o.ci
            \/ s = "deactivate" /\ o.ci
            \/ s = "drop_repo" /\ ~o.keeps
            \/ s \in {"drop_token", "drop_user", "drop_kept", "drop_row"}
  <2>1. DeprovisionEffect(p, o, s, w) = w
    BY <1>8 DEF DeprovisionEffect
  <2> QED BY <1>8, <2>1 DEF Moves, HasRow, DeprovisionSteps
<1> QED BY <1>1, <1>2, <1>3, <1>4, <1>5, <1>6, <1>7, <1>8

\* What a call about the mirror changes.
LEMMA MirrorMoves ==
    ASSUME NEW p \in ScmProject, NEW o \in ScmOp, NEW w \in World, NEW s \in CallName
    PROVE  IF s \in MirrorSteps THEN Moves(p, o, s, w, MirrorEffect(p, s, w)) ELSE MirrorEffect(p, s, w) = w
<1>0. w.repo \in Repo
  BY DEF World
<1>1. CASE s = "m_secret"
  <2>1. MirrorEffect(p, s, w) = [w EXCEPT !.creds = @ \cup {p}]
    BY <1>1 DEF MirrorEffect
  <2> QED BY <1>1, <2>1 DEF Moves, World, HasRow, MirrorSteps
<1>2. CASE s = "m_put"
  <2>1. PICK r : r = [w.repo EXCEPT !.pushes = TRUE]
    OBVIOUS
  <2>2. r \in Repo /\ r.by = w.repo.by
    BY <1>0, <2>1 DEF Repo
  <2>3. MirrorEffect(p, s, w) = [w EXCEPT !.repo = r]
    BY <1>2, <2>1 DEF MirrorEffect, World
  <2> QED BY <1>2, <2>2, <2>3 DEF Moves, World, HasRow, MirrorSteps
<1>3. CASE s = "m_row"
  <2>1. MirrorEffect(p, s, w) = [w EXCEPT !.mirror = @ \cup {p}]
    BY <1>3 DEF MirrorEffect
  <2> QED BY <1>3, <2>1 DEF Moves, World, HasRow, MirrorSteps
<1>4. CASE s = "m_unput"
  <2>1. PICK r : r = [w.repo EXCEPT !.pushes = FALSE]
    OBVIOUS
  <2>2. r \in Repo /\ r.by = w.repo.by
    BY <1>0, <2>1 DEF Repo
  <2>3. MirrorEffect(p, s, w) = [w EXCEPT !.repo = r]
    BY <1>4, <2>1 DEF MirrorEffect, World
  <2> QED BY <1>4, <2>2, <2>3 DEF Moves, World, HasRow, MirrorSteps
<1>5. CASE s = "m_unsecret"
  <2>1. MirrorEffect(p, s, w) = [w EXCEPT !.creds = @ \ {p}]
    BY <1>5 DEF MirrorEffect
  <2> QED BY <1>5, <2>1 DEF Moves, World, HasRow, MirrorSteps
<1>6. CASE s = "m_drop"
  <2>1. MirrorEffect(p, s, w) = [w EXCEPT !.mirror = @ \ {p}]
    BY <1>6 DEF MirrorEffect
  <2> QED BY <1>6, <2>1 DEF Moves, World, HasRow, MirrorSteps
<1>7. CASE s \notin MirrorSteps
  BY <1>7 DEF MirrorSteps, MirrorEffect
<1> QED BY <1>1, <1>2, <1>3, <1>4, <1>5, <1>6, <1>7 DEF MirrorSteps

\* After a call the tables and the remotes are again what they can be.
LEMMA MovesType == ASSUME NEW p, NEW o, NEW s, NEW w, NEW v, Moves(p, o, s, w, v) PROVE v \in World
BY DEF Moves

\* What any call changes.
LEMMA EffectMoves ==
    ASSUME NEW p \in ScmProject, NEW o \in ScmOp, NEW w \in World, NEW s \in CallName
    PROVE  Moves(p, o, s, w, Effect(p, o, s, w))
<1> DEFINE a == ProvisionEffect(p, o, s, w)
           b == CompensateEffect(p, o, s, a)
           c == DeprovisionEffect(p, o, s, b)
           d == MirrorEffect(p, s, c)
<1>0. Effect(p, o, s, w) = RecordEffect(p, s, d)
  BY DEF Effect
<1>1. CASE s \in ProvisionSteps
  <2>1. Moves(p, o, s, w, a) /\ a \in World
    <3>1. Moves(p, o, s, w, a)
      BY <1>1, ProvisionMoves
    <3> QED BY <3>1, MovesType
  <2>2. b = a
    BY <1>1, <2>1, CompensateMoves DEF ProvisionSteps, CompensateSteps
  <2>3. c = b
    BY <1>1, <2>1, <2>2, DeprovisionMoves DEF ProvisionSteps, DeprovisionSteps
  <2>4. d = c
    BY <1>1, <2>1, <2>2, <2>3, MirrorMoves DEF ProvisionSteps, MirrorSteps
  <2>5. RecordEffect(p, s, d) = d
    BY <1>1 DEF RecordEffect, ProvisionSteps
  <2> QED BY <1>0, <2>1, <2>2, <2>3, <2>4, <2>5
<1>2. CASE s \in CompensateSteps
  <2>1. a = w
    BY <1>2, ProvisionMoves DEF ProvisionSteps, CompensateSteps
  <2>2. Moves(p, o, s, w, b) /\ b \in World
    <3>1. Moves(p, o, s, w, b)
      BY <1>2, <2>1, CompensateMoves
    <3> QED BY <3>1, MovesType
  <2>3. c = b
    BY <1>2, <2>2, DeprovisionMoves DEF CompensateSteps, DeprovisionSteps
  <2>4. d = c
    BY <1>2, <2>2, <2>3, MirrorMoves DEF CompensateSteps, MirrorSteps
  <2>5. RecordEffect(p, s, d) = d
    BY <1>2 DEF RecordEffect, CompensateSteps
  <2> QED BY <1>0, <2>2, <2>3, <2>4, <2>5
<1>3. CASE s \in DeprovisionSteps
  <2>1. a = w
    BY <1>3, ProvisionMoves DEF ProvisionSteps, DeprovisionSteps
  <2>2. b = w
    BY <1>3, <2>1, CompensateMoves DEF CompensateSteps, DeprovisionSteps
  <2>3. Moves(p, o, s, w, c) /\ c \in World
    <3>1. Moves(p, o, s, w, c)
      BY <1>3, <2>2, DeprovisionMoves
    <3> QED BY <3>1, MovesType
  <2>4. d = c
    BY <1>3, <2>3, MirrorMoves DEF DeprovisionSteps, MirrorSteps
  <2>5. RecordEffect(p, s, d) = d
    BY <1>3 DEF RecordEffect, DeprovisionSteps
  <2> QED BY <1>0, <2>3, <2>4, <2>5
<1>4. CASE s \notin ProvisionSteps \cup CompensateSteps \cup DeprovisionSteps
  <2>1. a = w
    BY <1>4, ProvisionMoves
  <2>2. b = w
    BY <1>4, <2>1, CompensateMoves
  <2>3. c = w
    BY <1>4, <2>2, DeprovisionMoves
  <2>4. CASE s \in MirrorSteps
    <3>1. Moves(p, o, s, w, d)
      BY <2>3, <2>4, MirrorMoves
    <3>2. RecordEffect(p, s, d) = d
      BY <2>4 DEF RecordEffect, MirrorSteps
    <3> QED BY <1>0, <3>1, <3>2
  <2>5. CASE s \notin MirrorSteps
    <3>1. d = w
      BY <2>3, <2>5, MirrorMoves
    <3>2. CASE s = "record"
      <4>1. PICK v : v = [w EXCEPT !.recs = @ \ {p}, !.release = @ \ {p}]
        OBVIOUS
      <4>2. v \in World /\ v.recs = w.recs \ {p} /\ v.users = w.users /\ v.repo = w.repo /\ v.row = w.row
        BY <4>1 DEF World
      <4>3. Moves(p, o, s, w, v)
        BY <3>2, <4>2 DEF Moves, HasRow
      <4> QED BY <1>0, <3>1, <3>2, <4>1, <4>3 DEF RecordEffect
    <3>3. CASE s # "record"
      <4>1. RecordEffect(p, s, d) = w
        BY <3>1, <3>3 DEF RecordEffect
      <4>2. Moves(p, o, s, w, w)
        BY <1>4, <3>3 DEF Moves, HasRow, ProvisionSteps, DeprovisionSteps
      <4> QED BY <1>0, <4>1, <4>2
    <3> QED BY <3>2, <3>3
  <2> QED BY <2>4, <2>5
<1> QED BY <1>1, <1>2, <1>3, <1>4

----------------------------------------------------------------------------
(* The invariant *)

\* What a request that works on t finds, and still has to do.
Asks(w, p, o) ==
    /\ Has(o.todo, "repo") => w.repo.by # p
    /\ Has(o.todo, "repo") /\ ~Has(o.todo, "row") => HasRow(w, p) /\ ~w.row[p].adopted
    /\ Has(o.todo, "own") /\ w.repo.by = p => "repo" \in o.made
    /\ Has(o.todo, "record") /\ ~Has(o.todo, "read") /\ w.repo.by = p => ~o.keeps
    /\ Has(o.todo, "record") /\ ~Has(o.todo, "drop_repo") => w.repo.by # p
    /\ Has(o.todo, "record") /\ ~Has(o.todo, "drop_user") => p \notin w.users

\* The bodies of each kind of request.
Fit(a, t) ==
    /\ Shape(t)
    /\ a # "create" => \A x \in Making : ~Has(t, x)
    /\ a = "mirror" => \A x \in {"record", "drop_row", "drop_repo", "drop_user"} : ~Has(t, x)

Sound(w, ops, p) ==
    /\ ops["create"].todo # <<>> => ops["delete"].todo = <<>> /\ p \in w.recs
    /\ w.repo.by = p => HasRow(w, p) /\ ~w.row[p].adopted
    /\ w.repo.by = p \/ p \in w.users => p \in w.recs
    /\ \A a \in ScmActor : Asks(w, p, ops[a])

\* The request goes on after its call: the head is done.
Done(w, o, n) ==
    /\ n.todo = Tail(o.todo)
    /\ n.todo # <<>> =>
         /\ o.made \subseteq n.made
         /\ Head(o.todo) = "repo" /\ ~Exists(w) => "repo" \in n.made
         /\ Head(o.todo) # "read" => n.keeps = o.keeps
Reads(w, p, o, n) == n.todo # <<>> /\ Head(o.todo) = "read" /\ HasRow(w, p) /\ ~w.row[p].adopted => ~n.keeps

\* Nothing is in the empty sequence.
LEMMA EmptyHas == ASSUME NEW x PROVE ~Has(<<>>, x)
BY DEF Has

\* The next call is one of the calls left.
LEMMA HeadHas == ASSUME NEW t \in Seq(CallName), t # <<>> PROVE Has(t, Head(t)) /\ Head(t) \in CallName
BY HasTail

\* A harmless body finds what it needs in any world.
LEMMA HarmlessAsks ==
    ASSUME NEW p \in ScmProject, NEW w \in World, NEW n \in ScmOp, Harmless(n.todo)
    PROVE  Asks(w, p, n)
BY DEF Harmless, Whole, Making, Asks

\* A request that has ended asks for nothing.
LEMMA EmptyHarmless == Harmless(<<>>) /\ \A a \in ScmActor : Fit(a, <<>>)
<1>1. \A x : ~Has(<<>>, x)
  BY EmptyHas
<1>2. Shape(<<>>)
  BY <1>1 DEF Shape, Before, Once
<1> QED BY <1>1, <1>2 DEF Harmless, Fit

\* The call of another request, or of a request about another project.
LEMMA OtherCall ==
    ASSUME NEW p \in ScmProject, NEW q \in ScmProject, q # p, NEW ops \in [ScmActor -> ScmOp],
           NEW o \in ScmOp, NEW s \in CallName, NEW w \in World, NEW v, Moves(q, o, s, w, v), Sound(w, ops, p)
    PROVE  Sound(v, ops, p)
<1>1. /\ p \in w.recs => p \in v.recs
      /\ p \in v.users => p \in w.users
      /\ v.repo.by = p => w.repo.by = p
      /\ v.row[p] = w.row[p]
  BY DEF Moves
<1>2. HasRow(w, p) <=> HasRow(v, p)
  BY <1>1 DEF HasRow
<1>3. ASSUME NEW a \in ScmActor PROVE Asks(v, p, ops[a])
  BY <1>1, <1>2 DEF Sound, Asks
<1> QED BY <1>1, <1>2, <1>3 DEF Sound

\* The call of the request a of p: what the requests beside it have to do.
LEMMA BesideCall ==
    ASSUME NEW p \in ScmProject, NEW ops \in [ScmActor -> ScmOp], NEW w \in World, NEW v,
           NEW a \in ScmActor, NEW b \in ScmActor, b # a,
           ops[a].todo # <<>>, Fit(a, ops[a].todo), Fit(b, ops[b].todo),
           Moves(p, ops[a], Head(ops[a].todo), w, v), Sound(w, ops, p)
    PROVE  Asks(v, p, ops[b])
<1> DEFINE s == Head(ops[a].todo)
           t == ops[a].todo
           u == ops[b].todo
<1>0. ops[a] \in ScmOp /\ ops[b] \in ScmOp /\ t \in Seq(CallName) /\ u \in Seq(CallName) /\ s \in CallName /\ Has(t, s)
  BY HeadHas DEF ScmOp
<1>1. Asks(w, p, ops[b])
  BY DEF Sound
<1>2. CASE u = <<>>
  BY <1>0, <1>2, EmptyHarmless, HarmlessAsks DEF Moves
<1>3. CASE u # <<>>
  <2>1. a = "mirror" \/ b = "mirror"
    BY <1>3 DEF Sound, ScmActor
  <2>2. CASE a = "mirror"
    <3>1. s \notin Making \cup {"record", "drop_row", "drop_repo", "drop_user"}
      BY <1>0, <2>2 DEF Fit
    <3>2. /\ p \in v.users => p \in w.users
          /\ v.repo.by = p => w.repo.by = p
          /\ HasRow(w, p) <=> HasRow(v, p)
          /\ v.row[p].adopted = w.row[p].adopted
      BY <3>1 DEF Moves, Making
    <3> QED BY <1>1, <3>2 DEF Asks
  <2>3. CASE b = "mirror"
    <3>1. \A x \in Making \cup {"record"} : ~Has(u, x)
      BY <2>3 DEF Fit
    <3> QED BY <3>1 DEF Asks, Making
  <2> QED BY <2>1, <2>2, <2>3
<1> QED BY <1>2, <1>3

\* What the request itself has left to do.
LEMMA OwnCall ==
    ASSUME NEW p \in ScmProject, NEW ops \in [ScmActor -> ScmOp], NEW w \in World, NEW v,
           NEW a \in ScmActor, NEW n \in ScmOp,
           ops[a].todo # <<>>, Fit(a, ops[a].todo),
           Moves(p, ops[a], Head(ops[a].todo), w, v), Sound(w, ops, p),
           Done(w, ops[a], n), Reads(w, p, ops[a], n)
    PROVE  Asks(v, p, n)
<1> DEFINE o == ops[a]
           t == ops[a].todo
           s == Head(ops[a].todo)
<1>0. o \in ScmOp /\ t \in Seq(CallName) /\ s \in CallName /\ v \in World
  BY HeadHas DEF ScmOp, Moves
<1>1. Asks(w, p, o) /\ Shape(t) /\ (w.repo.by = p => HasRow(w, p) /\ ~w.row[p].adopted)
  BY DEF Sound, Fit
<1>2. CASE n.todo = <<>>
  BY <1>0, <1>2, EmptyHarmless, HarmlessAsks
<1>3. CASE n.todo # <<>>
  <2>0. n.todo = Tail(t)
    BY DEF Done
  <2>1. \A x : Has(t, x) <=> s = x \/ Has(n.todo, x)
    BY <1>0, <2>0, HasTail
  <2>2. \A x, y : Before(x, y, t) => (s = y => ~Has(t, x))
    BY <1>0, BeforeTail
  <2>3. s = "repo" => ~Has(n.todo, "repo")
    BY <1>0, <1>1, <2>0, OnceTail DEF Shape
  <2>4. Has(n.todo, "repo") => v.repo.by # p
    BY <1>1, <2>1, <2>3 DEF Asks, Moves, World
  <2>5. Has(n.todo, "repo") /\ ~Has(n.todo, "row") => HasRow(v, p) /\ ~v.row[p].adopted
    <3> SUFFICES ASSUME Has(n.todo, "repo"), ~Has(n.todo, "row") PROVE HasRow(v, p) /\ ~v.row[p].adopted
      OBVIOUS
    <3>1. CASE s = "row"
      BY <3>1 DEF Moves
    <3>2. CASE s # "row"
      <4>1. HasRow(w, p) /\ ~w.row[p].adopted
        BY <1>1, <2>1, <3>2 DEF Asks
      <4>2. s # "own"
        BY <1>1, <2>1, <2>2 DEF Shape
      <4>3. s # "drop_row"
        <5>1. s = "drop_row" => Has(t, "record")
          BY <1>1, <2>1 DEF Shape
        <5> QED BY <1>1, <2>1, <5>1 DEF Shape, Making
      <4> QED BY <3>2, <4>1, <4>2, <4>3 DEF Moves
    <3> QED BY <3>1, <3>2
  <2>6. Has(n.todo, "own") /\ v.repo.by = p => "repo" \in n.made
    <3> SUFFICES ASSUME Has(n.todo, "own"), v.repo.by = p PROVE "repo" \in n.made
      OBVIOUS
    <3>1. CASE w.repo.by = p
      BY <1>1, <1>3, <2>1, <3>1 DEF Asks, Done
    <3>2. CASE w.repo.by # p
      <4>1. s = "repo" /\ w.repo.by = "nobody"
        BY <3>2 DEF Moves
      <4> QED BY <1>3, <4>1 DEF Done, Exists
    <3> QED BY <3>1, <3>2
  <2>7. Has(n.todo, "record") /\ v.repo.by = p => w.repo.by = p
    <3>1. Has(n.todo, "record") => s # "repo"
      BY <1>1, <2>1 DEF Shape, Making
    <3> QED BY <3>1 DEF Moves
  <2>8. Has(n.todo, "record") /\ ~Has(n.todo, "read") /\ v.repo.by = p => ~n.keeps
    <3> SUFFICES ASSUME Has(n.todo, "record"), ~Has(n.todo, "read"), v.repo.by = p PROVE ~n.keeps
      OBVIOUS
    <3>1. CASE s = "read"
      BY <1>1, <1>3, <2>7, <3>1 DEF Reads
    <3>2. CASE s # "read"
      <4>1. ~o.keeps
        BY <1>1, <2>1, <2>7, <3>2 DEF Asks
      <4> QED BY <1>3, <3>2, <4>1 DEF Done
    <3> QED BY <3>1, <3>2
  <2>9. Has(n.todo, "record") /\ ~Has(n.todo, "drop_repo") => v.repo.by # p
    <3> SUFFICES ASSUME Has(n.todo, "record"), ~Has(n.todo, "drop_repo"), v.repo.by = p PROVE FALSE
      OBVIOUS
    <3>1. w.repo.by = p
      BY <2>7
    <3>2. s = "drop_repo"
      BY <1>1, <2>1, <3>1 DEF Asks
    <3>3. ~Has(t, "read") /\ Has(t, "record")
      BY <1>1, <2>1, <2>2, <3>2 DEF Shape
    <3>4. ~o.keeps
      BY <1>1, <3>1, <3>3 DEF Asks
    <3> QED BY <3>2, <3>4 DEF Moves
  <2>10. Has(n.todo, "record") /\ ~Has(n.todo, "drop_user") => p \notin v.users
    <3> SUFFICES ASSUME Has(n.todo, "record"), ~Has(n.todo, "drop_user"), p \in v.users PROVE FALSE
      OBVIOUS
    <3>1. s # "user"
      BY <1>1, <2>1 DEF Shape, Making
    <3>2. p \in w.users
      BY <3>1 DEF Moves
    <3>3. s = "drop_user"
      BY <1>1, <2>1, <3>2 DEF Asks
    <3> QED BY <3>3 DEF Moves
  <2> QED BY <2>4, <2>5, <2>6, <2>8, <2>9, <2>10 DEF Asks
<1> QED BY <1>2, <1>3

\* A request makes a call and goes on, or gives up and cleans up.
LEMMA MadeCall ==
    ASSUME NEW p \in ScmProject, NEW ops \in [ScmActor -> ScmOp], NEW w \in World, NEW v,
           NEW a \in ScmActor, NEW n \in ScmOp,
           ops[a].todo # <<>>, \A b \in ScmActor : Fit(b, ops[b].todo),
           Moves(p, ops[a], Head(ops[a].todo), w, v), Sound(w, ops, p),
           Harmless(n.todo) \/ (Done(w, ops[a], n) /\ Reads(w, p, ops[a], n)),
           Head(ops[a].todo) = "record" => n.todo = <<>>
    PROVE  Sound(v, [ops EXCEPT ![a] = n], p)
<1> DEFINE o == ops[a]
           t == ops[a].todo
           s == Head(ops[a].todo)
           new == [ops EXCEPT ![a] = n]
<1>0. /\ o \in ScmOp /\ t \in Seq(CallName) /\ s \in CallName /\ v \in World /\ Has(t, s)
      /\ new \in [ScmActor -> ScmOp] /\ new[a] = n /\ \A b \in ScmActor : b # a => new[b] = ops[b]
  BY HeadHas DEF ScmOp, Moves
<1>1. /\ Asks(w, p, o) /\ Fit(a, t) /\ Shape(t)
      /\ w.repo.by = p => HasRow(w, p) /\ ~w.row[p].adopted
      /\ w.repo.by = p \/ p \in w.users => p \in w.recs
  BY DEF Sound, Fit
<1>2. \A x, y : Before(x, y, t) => (s = y => ~Has(t, x))
  BY <1>0, BeforeTail
<1>3. s \in Making => a = "create" /\ p \in w.recs
  <2>1. s \in Making => a = "create"
    BY <1>0, <1>1 DEF Fit
  <2> QED BY <2>1 DEF Sound
<1>4. v.repo.by = p => HasRow(v, p) /\ ~v.row[p].adopted
  <2> SUFFICES ASSUME v.repo.by = p PROVE HasRow(v, p) /\ ~v.row[p].adopted
    OBVIOUS
  <2>1. CASE w.repo.by = p
    <3>1. s # "drop_row"
      <4>1. s = "drop_row" => Has(t, "record") /\ ~Has(t, "drop_repo")
        BY <1>0, <1>1, <1>2 DEF Shape
      <4> QED BY <1>1, <2>1, <4>1 DEF Asks
    <3>2. s = "own" => "repo" \in o.made
      BY <1>0, <1>1, <2>1 DEF Asks
    <3>3. CASE s = "row"
      BY <3>3 DEF Moves
    <3>4. CASE s = "own"
      BY <1>1, <2>1, <3>2, <3>4 DEF Moves
    <3>5. CASE s \notin {"row", "own"}
      BY <1>1, <2>1, <3>1, <3>5 DEF Moves
    <3> QED BY <3>3, <3>4, <3>5
  <2>2. CASE w.repo.by # p
    <3>1. s = "repo"
      BY <2>2 DEF Moves
    <3>2. Has(t, "repo") /\ ~Has(t, "row")
      BY <1>0, <1>1, <1>2, <3>1 DEF Shape
    <3>3. HasRow(w, p) /\ ~w.row[p].adopted
      BY <1>1, <3>2 DEF Asks
    <3> QED BY <3>1, <3>3 DEF Moves
  <2> QED BY <2>1, <2>2
<1>5. v.repo.by = p => w.repo.by = p \/ s = "repo"
  BY DEF Moves
<1>6. p \in v.users => p \in w.users \/ s = "user"
  BY DEF Moves
<1>7. v.repo.by = p \/ p \in v.users => p \in v.recs
  <2> SUFFICES ASSUME v.repo.by = p \/ p \in v.users PROVE p \in v.recs
    OBVIOUS
  <2>1. p \in w.recs
    BY <1>1, <1>3, <1>5, <1>6 DEF Making
  <2>2. s # "record"
    <3> SUFFICES ASSUME s = "record" PROVE FALSE
      OBVIOUS
    <3>1. \A x : Has(t, x) => x = "record"
      BY <1>0, <1>1, HasTail, ShapeTail
    <3>2. w.repo.by # p /\ p \notin w.users
      BY <1>0, <1>1, <3>1 DEF Asks
    <3> QED BY <1>5, <1>6, <3>2
  <2> QED BY <2>1, <2>2 DEF Moves
<1>8. new["create"].todo # <<>> => new["delete"].todo = <<>> /\ p \in v.recs
  <2> SUFFICES ASSUME new["create"].todo # <<>> PROVE new["delete"].todo = <<>> /\ p \in v.recs
    OBVIOUS
  <2>1. ops["create"].todo # <<>>
    BY <1>0 DEF ScmActor
  <2>2. ops["delete"].todo = <<>> /\ p \in w.recs
    BY <2>1 DEF Sound
  <2>3. a # "delete"
    BY <2>2
  <2>4. new["delete"].todo = <<>>
    BY <1>0, <2>2, <2>3 DEF ScmActor
  <2>5. s # "record"
    <3>1. a = "mirror" => s # "record"
      BY <1>0, <1>1 DEF Fit
    <3>2. a = "create" => s # "record"
      BY <1>0
    <3> QED BY <2>3, <3>1, <3>2 DEF ScmActor
  <2> QED BY <2>2, <2>4, <2>5 DEF Moves
<1>9. ASSUME NEW b \in ScmActor PROVE Asks(v, p, new[b])
  <2>1. CASE b # a
    <3>1. Asks(v, p, ops[b])
      BY <1>1, <2>1, BesideCall
    <3> QED BY <1>0, <2>1, <3>1
  <2>2. CASE b = a /\ Harmless(n.todo)
    BY <1>0, <2>2, HarmlessAsks
  <2>3. CASE b = a /\ Done(w, o, n) /\ Reads(w, p, o, n)
    <3>1. Asks(v, p, n)
      BY <1>1, <2>3, OwnCall
    <3> QED BY <1>0, <2>3, <3>1
  <2> QED BY <2>1, <2>2, <2>3
<1> HIDE DEF new
<1>10. Sound(v, new, p)
  BY <1>4, <1>7, <1>8, <1>9 DEF Sound
<1> QED BY <1>10 DEF new

\* A request begins or gives up, and no call is made.
LEMMA NoCall ==
    ASSUME NEW p \in ScmProject, NEW ops \in [ScmActor -> ScmOp], NEW w \in World,
           NEW a \in ScmActor, NEW n \in ScmOp, Sound(w, ops, p), Harmless(n.todo),
           n.todo # <<>> => ops[a].todo # <<>> \/ a = "mirror" \/ (a = "delete" /\ ops["create"].todo = <<>>)
    PROVE  Sound(w, [ops EXCEPT ![a] = n], p)
<1> DEFINE new == [ops EXCEPT ![a] = n]
<1>0. new \in [ScmActor -> ScmOp] /\ new[a] = n /\ \A b \in ScmActor : b # a => new[b] = ops[b]
  OBVIOUS
<1>1. ASSUME NEW b \in ScmActor PROVE Asks(w, p, new[b])
  <2>1. CASE b # a
    BY <1>0, <2>1 DEF Sound
  <2>2. CASE b = a
    BY <1>0, <2>2, HarmlessAsks
  <2> QED BY <2>1, <2>2
<1>2. new["create"].todo # <<>> => new["delete"].todo = <<>> /\ p \in w.recs
  <2>1. "create" \in ScmActor /\ "delete" \in ScmActor
    BY DEF ScmActor
  <2>2. CASE a = "create"
    BY <1>0, <2>1, <2>2 DEF Sound
  <2>3. CASE a = "delete"
    BY <1>0, <2>1, <2>3 DEF Sound
  <2>4. CASE a = "mirror"
    BY <1>0, <2>1, <2>4 DEF Sound
  <2> QED BY <2>2, <2>3, <2>4 DEF ScmActor
<1> HIDE DEF new
<1>3. Sound(w, new, p)
  BY <1>1, <1>2 DEF Sound
<1> QED BY <1>3 DEF new

TypesHold ==
    /\ world \in World /\ scmOp \in [ScmProject -> [ScmActor -> ScmOp]]
    /\ born \in SUBSET ScmProject /\ beside \in SUBSET ScmProject
BodiesFit == \A p \in ScmProject, a \in ScmActor : Fit(a, scmOp[p][a].todo)
AllSound == \A p \in ScmProject : p \notin beside => Sound(world, scmOp[p], p)
UnbornIsNone ==
    \A p \in ScmProject : p \notin born =>
        world.repo.by # p /\ p \notin world.users /\ scmOp[p]["create"].todo = <<>>
ScmInv == TypesHold /\ BodiesFit /\ AllSound /\ UnbornIsNone

\* A request that is not under way.
LEMMA NoOpFacts == NoOp \in ScmOp /\ NoOp.todo = <<>>
BY DEF NoOp, ScmOp

\* Nothing is left after the only call.
LEMMA EmptyTail == ASSUME NEW t \in Seq(CallName), Len(t) = 1 PROVE Tail(t) = <<>>
<1>1. Tail(t) \in Seq(CallName) /\ Len(Tail(t)) = 0
  OBVIOUS
<1> QED BY <1>1, EmptySeq

\* A request that goes on has the rest of its calls left and knows what it knew.
LEMMA OnwardsFacts ==
    ASSUME NEW o \in ScmOp, o.todo # <<>>
    PROVE  /\ Onwards(o) \in ScmOp /\ Onwards(o).todo = Tail(o.todo)
           /\ Onwards(o).todo # <<>> => Onwards(o).made = o.made /\ Onwards(o).keeps = o.keeps
<1>1. o.todo \in Seq(CallName)
  BY DEF ScmOp
<1>2. CASE Len(o.todo) = 1
  <2>1. Onwards(o) = NoOp
    BY <1>2 DEF Onwards
  <2>2. Tail(o.todo) = <<>>
    BY <1>1, <1>2, EmptyTail
  <2> QED BY <2>1, <2>2, NoOpFacts
<1>3. CASE Len(o.todo) # 1
  <2>1. PICK t : t = Tail(o.todo)
    OBVIOUS
  <2>2. t \in Seq(CallName)
    BY <1>1, <2>1
  <2>3. Onwards(o) = [o EXCEPT !.todo = t]
    BY <1>3, <2>1 DEF Onwards, ScmOp
  <2> QED BY <2>1, <2>2, <2>3 DEF ScmOp
<1> QED BY <1>2, <1>3

\* The rest of a body of a kind of request is of that kind.
LEMMA FitTail ==
    ASSUME NEW a \in ScmActor, NEW t \in Seq(CallName), t # <<>>, Fit(a, t)
    PROVE  Fit(a, Tail(t))
<1>1. Shape(Tail(t))
  BY ShapeTail DEF Fit
<1>2. \A x : Has(Tail(t), x) => Has(t, x)
  BY HasTail
<1> QED BY <1>1, <1>2 DEF Fit

\* The bodies about the mirror are harmless.
LEMMA MirrorBody ==
    ASSUME NEW t \in {<<"m_secret", "m_put", "m_row">>, <<"m_unput", "m_unsecret", "m_drop">>, <<"m_unsecret">>}
    PROVE  t \in Seq(CallName) /\ Harmless(t) /\ \A a \in ScmActor : Fit(a, t)
<1>1. t \in Seq(CallName)
  <2>1. /\ <<"m_secret", "m_put", "m_row">> \in Seq(CallName)
        /\ <<"m_unput", "m_unsecret", "m_drop">> \in Seq(CallName)
        /\ <<"m_unsecret">> \in Seq(CallName)
    BY DEF CallName
  <2> QED BY <2>1
<1>2. \A x : Has(t, x) => x \in MirrorSteps
  <2>1. CASE t = <<"m_secret", "m_put", "m_row">>
    BY <2>1 DEF Has, MirrorSteps
  <2>2. CASE t = <<"m_unput", "m_unsecret", "m_drop">>
    BY <2>2 DEF Has, MirrorSteps
  <2>3. CASE t = <<"m_unsecret">>
    BY <2>3 DEF Has, MirrorSteps
  <2> QED BY <2>1, <2>2, <2>3
<1>3. \A x \in Making \cup {"record", "read", "drop_row", "drop_repo", "drop_user"} : ~Has(t, x)
  BY <1>2 DEF Making, MirrorSteps
<1>4. ~Has(t, "row") /\ ~Has(t, "repo") /\ ~Has(t, "own") /\ ~Has(t, "drop_repo") /\ ~Has(t, "drop_row") /\ ~Has(t, "record")
  BY <1>3 DEF Making
<1>5. Shape(t)
  BY <1>4 DEF Shape, Before, Once, Has
<1> QED BY <1>1, <1>3, <1>5 DEF Harmless, Fit

\* What a failure turns the request into.
LEMMA AfterFailureFacts ==
    ASSUME ScmInv, NEW p \in ScmProject, NEW a \in ScmActor, Running(p, a)
    PROVE  LET o == scmOp[p][a]  n == AfterFailure(p, a)  s == Head(o.todo) IN
           /\ n \in ScmOp /\ Fit(a, n.todo)
           /\ s = "record" => n.todo = <<>>
           /\ Harmless(n.todo) \/ (n = Onwards(o) /\ s \notin Fatal \cup Making)
<1> DEFINE o == scmOp[p][a]
           n == AfterFailure(p, a)
           s == Head(o.todo)
<1>0. o \in ScmOp /\ o.todo # <<>> /\ o.todo \in Seq(CallName) /\ s \in CallName /\ Fit(a, o.todo) /\ Has(o.todo, s) /\ StepOf(p, a) = s
  BY HeadHas DEF ScmInv, TypesHold, BodiesFit, Running, ScmOp, StepOf
<1>1. Onwards(o) \in ScmOp /\ Fit(a, Onwards(o).todo)
  BY <1>0, OnwardsFacts, FitTail
<1>2. ASSUME NEW t \in Seq(CallName) PROVE [o EXCEPT !.todo = t] \in ScmOp /\ [o EXCEPT !.todo = t].todo = t
  BY <1>0 DEF ScmOp
<1>3. CASE s = "issue"
  <2>1. n = Onwards(o)
    BY <1>0, <1>3 DEF AfterFailure
  <2> QED BY <1>0, <1>1, <1>3, <2>1 DEF Fatal, Making
<1>4. CASE s # "issue" /\ a = "create" /\ Provisions(p)
  <2>1. n = [o EXCEPT !.todo = CleanupOf(s)]
    BY <1>0, <1>4 DEF AfterFailure
  <2>2. Fit(a, CleanupOf(s))
    BY <1>4, CleanupShape DEF Fit
  <2>3. s # "record"
    <3>1. PICK i \in 1..Len(Provision) : s = Provision[i]
      BY <1>4 DEF Provisions
    <3>2. DOMAIN Provision = 1..Len(Provision)
      BY ProvisionShape
    <3> QED BY <3>1, <3>2, ProvisionShape DEF Has
  <2> QED BY <1>2, <2>1, <2>2, <2>3, CleanupShape
<1>5. CASE s # "issue" /\ ~(a = "create" /\ Provisions(p)) /\ s = "m_put"
  <2>1. n = [o EXCEPT !.todo = <<"m_unsecret">>]
    BY <1>0, <1>5 DEF AfterFailure
  <2> QED BY <1>2, <1>5, <2>1, MirrorBody
<1>6. CASE s # "issue" /\ ~(a = "create" /\ Provisions(p)) /\ s # "m_put" /\ s \in Fatal
  <2>1. n = NoOp
    BY <1>0, <1>6 DEF AfterFailure
  <2> QED BY <2>1, NoOpFacts, EmptyHarmless
<1>7. CASE s # "issue" /\ ~(a = "create" /\ Provisions(p)) /\ s # "m_put" /\ s \notin Fatal
  <2>1. n = Onwards(o)
    BY <1>0, <1>7 DEF AfterFailure
  <2>2. s # "record"
    BY <1>7 DEF Fatal
  <2>3. s \notin Making
    <3> SUFFICES ASSUME s \in Making PROVE FALSE
      OBVIOUS
    <3>1. a = "create"
      BY <1>0 DEF Fit
    <3>2. \E i \in 1..Len(Provision) : s = Provision[i]
      <4>1. Len(Provision) = 12 /\ Provision[2] = "row" /\ Provision[3] = "repo" /\ Provision[4] = "own" /\ Provision[7] = "user"
        BY DEF Provision
      <4>2. 2 \in 1..12 /\ 3 \in 1..12 /\ 4 \in 1..12 /\ 7 \in 1..12
        OBVIOUS
      <4> QED BY <4>1, <4>2 DEF Making
    <3> QED BY <1>7, <3>1, <3>2 DEF Provisions
  <2> QED BY <1>1, <1>7, <2>1, <2>2, <2>3
<1> HIDE DEF n
<1> QED BY <1>3, <1>4, <1>5, <1>6, <1>7 DEF n

\* A request makes a call.
LEMMA Called ==
    ASSUME ScmInv, NEW p \in ScmProject, NEW a \in ScmActor, Running(p, a), NEW n \in ScmOp, NEW v,
           Moves(p, scmOp[p][a], StepOf(p, a), world, v), Fit(a, n.todo),
           Harmless(n.todo) \/ (Done(world, scmOp[p][a], n) /\ Reads(world, p, scmOp[p][a], n)),
           StepOf(p, a) = "record" => n.todo = <<>>,
           world' = v, Becomes(p, a, n), born' = born, beside' = beside
    PROVE  ScmInv'
<1> DEFINE ops == scmOp[p]
           new == [ops EXCEPT ![a] = n]
           s == Head(ops[a].todo)
<1>0. /\ ops \in [ScmActor -> ScmOp] /\ ops[a] \in ScmOp /\ ops[a].todo # <<>> /\ ops[a].todo \in Seq(CallName)
      /\ \A b \in ScmActor : Fit(b, ops[b].todo)
      /\ world \in World /\ StepOf(p, a) = s
  BY DEF ScmInv, TypesHold, BodiesFit, Running, ScmOp, StepOf
<1>1. s \in CallName /\ Has(ops[a].todo, s)
  BY <1>0, HeadHas
<1>2. new \in [ScmActor -> ScmOp] /\ new[a] = n /\ \A b \in ScmActor : b # a => new[b] = ops[b]
  BY <1>0
<1>3. scmOp' = [scmOp EXCEPT ![p] = new]
  BY DEF Becomes
<1> HIDE DEF new
<1>4. scmOp' \in [ScmProject -> [ScmActor -> ScmOp]] /\ scmOp'[p] = new /\ \A q \in ScmProject : q # p => scmOp'[q] = scmOp[q]
  BY <1>2, <1>3 DEF ScmInv, TypesHold
<1>5. TypesHold'
  BY <1>4 DEF ScmInv, TypesHold, Moves
<1>6. BodiesFit'
  <2> SUFFICES ASSUME NEW q \in ScmProject, NEW b \in ScmActor PROVE Fit(b, scmOp'[q][b].todo)
    BY DEF BodiesFit
  <2>1. CASE q = p
    BY <1>0, <1>2, <1>4, <2>1
  <2>2. CASE q # p
    BY <1>4, <2>2 DEF ScmInv, BodiesFit
  <2> QED BY <2>1, <2>2
<1>7. AllSound'
  <2> SUFFICES ASSUME NEW q \in ScmProject, q \notin beside PROVE Sound(v, scmOp'[q], q)
    BY DEF AllSound
  <2>1. Sound(world, scmOp[q], q)
    BY DEF ScmInv, AllSound
  <2>2. CASE q = p
    <3>1. Sound(v, new, p)
      BY <1>0, <2>1, <2>2, MadeCall DEF new
    <3> QED BY <1>4, <2>2, <3>1
  <2>3. CASE q # p
    <3>1. scmOp[q] \in [ScmActor -> ScmOp]
      BY DEF ScmInv, TypesHold
    <3>2. Sound(v, scmOp[q], q)
      BY <1>0, <1>1, <2>1, <2>3, <3>1, OtherCall
    <3> QED BY <1>4, <2>3, <3>2
  <2> QED BY <2>2, <2>3
<1>8. UnbornIsNone'
  <2> SUFFICES ASSUME NEW q \in ScmProject, q \notin born
               PROVE  v.repo.by # q /\ q \notin v.users /\ scmOp'[q]["create"].todo = <<>>
    BY DEF UnbornIsNone
  <2>1. world.repo.by # q /\ q \notin world.users /\ scmOp[q]["create"].todo = <<>>
    BY DEF ScmInv, UnbornIsNone
  <2>2. q = p => s \notin Making /\ a # "create"
    <3>1. q = p => a # "create"
      BY <1>0, <2>1
    <3> QED BY <1>0, <1>1, <3>1 DEF Fit
  <2>3. v.repo.by # q /\ q \notin v.users
    BY <1>0, <2>1, <2>2 DEF Moves, Making
  <2>4. scmOp'[q]["create"].todo = <<>>
    BY <1>2, <1>4, <2>1, <2>2 DEF ScmActor
  <2> QED BY <2>3, <2>4
<1> QED BY <1>5, <1>6, <1>7, <1>8 DEF ScmInv

\* A request begins, gives up or is told to, and no call is made.
LEMMA NotCalled ==
    ASSUME ScmInv, NEW p \in ScmProject, NEW a \in ScmActor, NEW n \in ScmOp,
           Harmless(n.todo), Fit(a, n.todo), Running(p, a) \/ a \in {"mirror", "delete"},
           a = "delete" /\ Running(p, "create") /\ ~Running(p, a) => p \in beside',
           world' = world, Becomes(p, a, n), born' = born,
           beside' \in SUBSET ScmProject, beside \subseteq beside'
    PROVE  ScmInv'
<1> DEFINE ops == scmOp[p]
           new == [ops EXCEPT ![a] = n]
<1>0. ops \in [ScmActor -> ScmOp] /\ world \in World
  BY DEF ScmInv, TypesHold
<1>2. new \in [ScmActor -> ScmOp] /\ new[a] = n /\ \A b \in ScmActor : b # a => new[b] = ops[b]
  BY <1>0
<1>3. scmOp' = [scmOp EXCEPT ![p] = new]
  BY DEF Becomes
<1> HIDE DEF new
<1>4. scmOp' \in [ScmProject -> [ScmActor -> ScmOp]] /\ scmOp'[p] = new /\ \A q \in ScmProject : q # p => scmOp'[q] = scmOp[q]
  BY <1>2, <1>3 DEF ScmInv, TypesHold
<1>5. TypesHold'
  BY <1>4 DEF ScmInv, TypesHold
<1>6. BodiesFit'
  <2> SUFFICES ASSUME NEW q \in ScmProject, NEW b \in ScmActor PROVE Fit(b, scmOp'[q][b].todo)
    BY DEF BodiesFit
  <2>1. CASE q = p
    BY <1>2, <1>4, <2>1 DEF ScmInv, BodiesFit
  <2>2. CASE q # p
    BY <1>4, <2>2 DEF ScmInv, BodiesFit
  <2> QED BY <2>1, <2>2
<1>7. AllSound'
  <2> SUFFICES ASSUME NEW q \in ScmProject, q \notin beside' PROVE Sound(world, scmOp'[q], q)
    BY DEF AllSound
  <2>1. Sound(world, scmOp[q], q)
    BY DEF ScmInv, AllSound
  <2>2. CASE q = p
    <3>1. n.todo # <<>> => ops[a].todo # <<>> \/ a = "mirror" \/ (a = "delete" /\ ops["create"].todo = <<>>)
      BY <2>2 DEF Running
    <3>2. Sound(world, new, p)
      BY <1>0, <2>1, <2>2, <3>1, NoCall DEF new
    <3> QED BY <1>4, <2>2, <3>2
  <2>3. CASE q # p
    BY <1>4, <2>1, <2>3
  <2> QED BY <2>2, <2>3
<1>8. UnbornIsNone'
  <2> SUFFICES ASSUME NEW q \in ScmProject, q \notin born
               PROVE  world.repo.by # q /\ q \notin world.users /\ scmOp'[q]["create"].todo = <<>>
    BY DEF UnbornIsNone
  <2>1. world.repo.by # q /\ q \notin world.users /\ scmOp[q]["create"].todo = <<>>
    BY DEF ScmInv, UnbornIsNone
  <2>2. q = p => a # "create"
    BY <2>1 DEF Running
  <2> QED BY <1>2, <1>4, <2>1, <2>2 DEF ScmActor
<1> QED BY <1>5, <1>6, <1>7, <1>8 DEF ScmInv

\* The invariant holds at first, with a repository of a user or without one.
LEMMA ScmInitInv == ScmInit => ScmInv
<1> SUFFICES ASSUME ScmInit PROVE ScmInv
  OBVIOUS
<1>1. PICK o \in {"nobody", "user"} :
        world = [recs |-> {}, row |-> [p \in ScmProject |-> NoRow], mirror |-> {}, creds |-> {},
                 repo |-> [NoRepo EXCEPT !.by = o], users |-> {}, tokens |-> {}, kept |-> {},
                 wp |-> FALSE, secrets |-> {}, release |-> {}]
  BY DEF ScmInit
<1>2. PICK r : r = [NoRepo EXCEPT !.by = o]
  OBVIOUS
<1>3. r \in Repo /\ r.by = o
  BY <1>2 DEF NoRepo, Repo
<1>4. [p \in ScmProject |-> NoRow] \in [ScmProject -> Row]
  BY DEF NoRow, Row
<1>5. world \in World /\ world.users = {} /\ world.repo = r
  BY <1>1, <1>2, <1>3, <1>4 DEF World
<1>6. \A p \in ScmProject, a \in ScmActor : scmOp[p][a] = NoOp
  BY DEF ScmInit
<1>7. TypesHold
  BY <1>5, NoOpFacts DEF TypesHold, ScmInit
<1>8. BodiesFit
  BY <1>6, NoOpFacts, EmptyHarmless DEF BodiesFit
<1>9. \A p \in ScmProject : r.by # p
  BY <1>3
<1>10. UnbornIsNone
  BY <1>5, <1>6, <1>9, NoOpFacts DEF UnbornIsNone, ScmActor
<1>11. \A p \in ScmProject, a \in ScmActor : Asks(world, p, scmOp[p][a])
  BY <1>5, <1>6, NoOpFacts, EmptyHarmless, HarmlessAsks
<1>12. AllSound
  BY <1>5, <1>6, <1>9, <1>11, NoOpFacts DEF AllSound, Sound, ScmActor
<1> QED BY <1>7, <1>8, <1>10, <1>12 DEF ScmInv

\* CreateProject writes the record before anything else.
LEMMA CreateInv ==
    ASSUME ScmInv, NEW p \in ScmProject, NEW body \in {Provision, ProvisionDocs}, ScmCreateProject(p, body)
    PROVE  ScmInv'
<1>1. PICK v : v = [world EXCEPT !.recs = @ \cup {p}]
  OBVIOUS
<1>2. world \in World /\ v = world'
  BY <1>1 DEF ScmCreateProject, ScmInv, TypesHold
<1>3. v \in World /\ v.recs = world.recs \cup {p} /\ v.row = world.row /\ v.users = world.users /\ v.repo = world.repo
  BY <1>1, <1>2 DEF World
<1>4. /\ body \in Seq(CallName) /\ Shape(body) /\ Has(body, "row") /\ Has(body, "repo") /\ ~Has(body, "record")
  BY ProvisionShape
<1>5. PICK n : n = [NoOp EXCEPT !.todo = body]
  OBVIOUS
<1>6. n \in ScmOp /\ n.todo = body
  BY <1>4, <1>5 DEF NoOp, ScmOp
<1>7. scmOp' = [scmOp EXCEPT ![p]["create"] = n] /\ born' = born \cup {p} /\ beside' = beside /\ p \notin born
  BY <1>5 DEF ScmCreateProject, Becomes
<1>8. \A q \in ScmProject, a \in ScmActor : scmOp[q][a] \in ScmOp /\ scmOp[q][a].todo = <<>>
  BY DEF ScmCreateProject, Running, ScmInv, TypesHold
<1>9. /\ scmOp' \in [ScmProject -> [ScmActor -> ScmOp]] /\ scmOp'[p]["create"] = n
      /\ \A q \in ScmProject, a \in ScmActor : q # p \/ a # "create" => scmOp'[q][a] = scmOp[q][a]
  BY <1>6, <1>7 DEF ScmInv, TypesHold, ScmActor
<1>10. TypesHold'
  BY <1>2, <1>3, <1>7, <1>9 DEF ScmInv, TypesHold
<1>11. BodiesFit'
  <2> SUFFICES ASSUME NEW q \in ScmProject, NEW b \in ScmActor PROVE Fit(b, scmOp'[q][b].todo)
    BY DEF BodiesFit
  <2>1. CASE q = p /\ b = "create"
    BY <1>4, <1>6, <1>9, <2>1 DEF Fit
  <2>2. CASE ~(q = p /\ b = "create")
    BY <1>9, <2>2 DEF ScmInv, BodiesFit
  <2> QED BY <2>1, <2>2
<1>12. world.repo.by # p /\ p \notin world.users
  BY <1>7 DEF ScmInv, UnbornIsNone
<1>13. AllSound'
  <2> SUFFICES ASSUME NEW q \in ScmProject, q \notin beside PROVE Sound(v, scmOp'[q], q)
    BY <1>2, <1>7 DEF AllSound
  <2>1. Sound(world, scmOp[q], q)
    BY DEF ScmInv, AllSound
  <2>2. ASSUME NEW b \in ScmActor, q # p \/ b # "create" PROVE Asks(v, q, scmOp'[q][b])
    <3>1. scmOp'[q][b] \in ScmOp /\ scmOp'[q][b].todo = <<>>
      BY <1>8, <1>9, <2>2
    <3> QED BY <1>3, <3>1, EmptyHarmless, HarmlessAsks
  <2>3. Asks(v, p, n)
    BY <1>3, <1>4, <1>6, <1>12 DEF Asks
  <2>4. \A b \in ScmActor : Asks(v, q, scmOp'[q][b])
    BY <1>9, <2>2, <2>3
  <2>5. scmOp'[q]["delete"].todo = <<>>
    BY <1>8, <1>9 DEF ScmActor
  <2>6. scmOp'[q]["create"].todo # <<>> => q = p
    BY <1>8, <1>9 DEF ScmActor
  <2>7. HasRow(v, q) <=> HasRow(world, q)
    BY <1>3 DEF HasRow
  <2> QED BY <1>3, <2>1, <2>4, <2>5, <2>6, <2>7 DEF Sound
<1>14. UnbornIsNone'
  <2> SUFFICES ASSUME NEW q \in ScmProject, q \notin born \cup {p}
               PROVE  v.repo.by # q /\ q \notin v.users /\ scmOp'[q]["create"].todo = <<>>
    BY <1>2, <1>7 DEF UnbornIsNone
  <2>1. world.repo.by # q /\ q \notin world.users /\ scmOp[q]["create"].todo = <<>>
    BY DEF ScmInv, UnbornIsNone
  <2> QED BY <1>3, <1>9, <2>1 DEF ScmActor
<1> QED BY <1>10, <1>11, <1>13, <1>14 DEF ScmInv

\* A call is made and answered.
LEMMA StepInv ==
    ASSUME ScmInv, NEW p \in ScmProject, NEW a \in ScmActor, ScmStep(p, a)
    PROVE  ScmInv'
<1> DEFINE o == scmOp[p][a]
           s == StepOf(p, a)
<1>0. /\ Running(p, a) /\ o \in ScmOp /\ o.todo # <<>> /\ o.todo \in Seq(CallName) /\ s = Head(o.todo) /\ s \in CallName
      /\ Fit(a, o.todo) /\ world \in World /\ world.row[p] \in Row
  BY HeadHas DEF ScmStep, ScmInv, TypesHold, BodiesFit, Running, ScmOp, StepOf, World
<1>1. PICK v : v = Effect(p, o, s, world)
  OBVIOUS
<1>2. world' = v /\ Moves(p, o, s, world, v)
  BY <1>0, <1>1, EffectMoves DEF ScmStep
<1>3. PICK made \in SUBSET CallName : made = IF s = "repo" /\ Exists(world) THEN {} ELSE {s} \cap {"repo", "ci", "user", "keep", "secrets"}
  BY <1>0
<1>4. PICK k \in BOOLEAN : k = (world.row[p].adopted \/ ~HasRow(world, p))
  OBVIOUS
<1>5. PICK c \in BOOLEAN : c = world.row[p].ci
  BY <1>0 DEF Row
<1>6. PICK read : read = IF s = "read" THEN [o EXCEPT !.keeps = k, !.ci = c] ELSE o
  OBVIOUS
<1>7. read \in ScmOp /\ read.todo = o.todo /\ read.made = o.made /\ read.keeps = (IF s = "read" THEN k ELSE o.keeps)
  BY <1>0, <1>6 DEF ScmOp
<1>8. PICK m : m = [read EXCEPT !.made = @ \cup made]
  OBVIOUS
<1>9. m \in ScmOp /\ m.todo = o.todo /\ m.made = o.made \cup made /\ m.keeps = read.keeps
  BY <1>3, <1>7, <1>8 DEF ScmOp
<1>10. PICK n : n = Onwards(m)
  OBVIOUS
<1>11. n \in ScmOp /\ n.todo = Tail(o.todo) /\ (n.todo # <<>> => n.made = m.made /\ n.keeps = m.keeps)
  BY <1>0, <1>9, <1>10, OnwardsFacts
<1>12. Becomes(p, a, n) /\ born' = born /\ beside' = beside
  BY <1>3, <1>4, <1>5, <1>6, <1>8, <1>10 DEF ScmStep
<1>13. Fit(a, n.todo)
  BY <1>0, <1>11, FitTail
<1>14. s = "record" => n.todo = <<>>
  <2>1. s = "record" => Len(o.todo) = 1
    BY <1>0, ShapeTail DEF Fit
  <2>2. Len(o.todo) = 1 => Tail(o.todo) = <<>>
    BY <1>0, EmptyTail
  <2> QED BY <1>11, <2>1, <2>2
<1>15. Done(world, o, n)
  BY <1>0, <1>3, <1>7, <1>9, <1>11 DEF Done
<1>16. Reads(world, p, o, n)
  BY <1>0, <1>4, <1>7, <1>9, <1>11 DEF Reads
<1> QED BY <1>0, <1>2, <1>11, <1>12, <1>13, <1>14, <1>15, <1>16, Called

\* A call is refused or not made.
LEMMA FailInv ==
    ASSUME ScmInv, NEW p \in ScmProject, NEW a \in ScmActor, ScmFail(p, a)
    PROVE  ScmInv'
<1> DEFINE o == scmOp[p][a]
           s == StepOf(p, a)
<1>0. /\ Running(p, a) /\ o \in ScmOp /\ o.todo # <<>> /\ o.todo \in Seq(CallName) /\ s = Head(o.todo) /\ s \in CallName
      /\ Fit(a, o.todo) /\ world \in World
  BY HeadHas DEF ScmFail, ScmInv, TypesHold, BodiesFit, Running, ScmOp, StepOf
<1>1. PICK n : n = AfterFailure(p, a)
  OBVIOUS
<1>2. /\ n \in ScmOp /\ Fit(a, n.todo) /\ (s = "record" => n.todo = <<>>)
      /\ Harmless(n.todo) \/ (n = Onwards(o) /\ s \notin Fatal \cup Making)
  BY <1>0, <1>1, AfterFailureFacts
<1>3. Becomes(p, a, n) /\ world' = world /\ born' = born /\ beside' = beside /\ beside \in SUBSET ScmProject
  BY <1>1 DEF ScmFail, ScmInv, TypesHold
<1>4. CASE Harmless(n.todo)
  BY <1>0, <1>2, <1>3, <1>4, NotCalled
<1>5. CASE n = Onwards(o) /\ s \notin Fatal \cup Making
  <2>1. Moves(p, o, s, world, world)
    BY <1>0, <1>5 DEF Moves, Fatal, Making
  <2>2. n.todo = Tail(o.todo) /\ (n.todo # <<>> => n.made = o.made /\ n.keeps = o.keeps)
    BY <1>0, <1>5, OnwardsFacts
  <2>3. Done(world, o, n) /\ Reads(world, p, o, n)
    BY <1>0, <1>5, <2>2 DEF Done, Reads, Fatal, Making
  <2> QED BY <1>0, <1>2, <1>3, <2>1, <2>3, Called
<1> QED BY <1>2, <1>4, <1>5

\* A call takes effect and its answer is lost.
LEMMA LoseInv ==
    ASSUME ScmInv, NEW p \in ScmProject, NEW a \in ScmActor, ScmLoseAnswer(p, a)
    PROVE  ScmInv'
<1> DEFINE o == scmOp[p][a]
           s == StepOf(p, a)
<1>0. /\ Running(p, a) /\ o \in ScmOp /\ o.todo # <<>> /\ o.todo \in Seq(CallName) /\ s = Head(o.todo) /\ s \in CallName
      /\ Fit(a, o.todo) /\ world \in World
  BY HeadHas DEF ScmLoseAnswer, ScmInv, TypesHold, BodiesFit, Running, ScmOp, StepOf
<1>1. PICK n : n = AfterFailure(p, a)
  OBVIOUS
<1>2. /\ n \in ScmOp /\ Fit(a, n.todo) /\ (s = "record" => n.todo = <<>>)
      /\ Harmless(n.todo) \/ (n = Onwards(o) /\ s \notin Fatal \cup Making)
  BY <1>0, <1>1, AfterFailureFacts
<1>3. PICK v : v = Effect(p, o, s, world)
  OBVIOUS
<1>4. Moves(p, o, s, world, v)
  BY <1>0, <1>3, EffectMoves
<1>5. Becomes(p, a, n) /\ world' = v /\ born' = born /\ beside' = beside
  BY <1>1, <1>3 DEF ScmLoseAnswer
<1>6. CASE Harmless(n.todo)
  BY <1>0, <1>2, <1>4, <1>5, <1>6, Called
<1>7. CASE n = Onwards(o) /\ s \notin Fatal \cup Making
  <2>1. n.todo = Tail(o.todo) /\ (n.todo # <<>> => n.made = o.made /\ n.keeps = o.keeps)
    BY <1>0, <1>7, OnwardsFacts
  <2>2. Done(world, o, n) /\ Reads(world, p, o, n)
    BY <1>0, <1>7, <2>1 DEF Done, Reads, Fatal, Making
  <2> QED BY <1>0, <1>2, <1>4, <1>5, <2>2, Called
<1> QED BY <1>2, <1>6, <1>7

\* DeleteProject, ConfigureMirror and RemoveMirror begin.
LEMMA BeginInv ==
    ASSUME ScmInv, NEW p \in ScmProject, ScmDeleteProject(p) \/ ConfigureMirror(p) \/ RemoveMirror(p)
    PROVE  ScmInv'
<1>1. ASSUME NEW t \in Seq(CallName) PROVE [NoOp EXCEPT !.todo = t] \in ScmOp /\ [NoOp EXCEPT !.todo = t].todo = t
  BY DEF NoOp, ScmOp
<1>2. CASE ScmDeleteProject(p)
  <2>1. PICK t : t = <<"undeploy">> \o Deprovision \o <<"record">>
    OBVIOUS
  <2>2. t \in Seq(CallName) /\ Shape(t) /\ Harmless(t)
    BY <2>1, DeletionShape
  <2>3. Fit("delete", t)
    BY <2>2 DEF Fit, Harmless
  <2>4. PICK n : n = [NoOp EXCEPT !.todo = t]
    OBVIOUS
  <2>5. n \in ScmOp /\ n.todo = t
    BY <1>1, <2>2, <2>4
  <2>6. Becomes(p, "delete", n) /\ world' = world /\ born' = born /\ beside' = IF Running(p, "create") THEN beside \cup {p} ELSE beside
    BY <1>2, <2>1, <2>4 DEF ScmDeleteProject
  <2>7. beside' \in SUBSET ScmProject /\ beside \subseteq beside' /\ (Running(p, "create") => p \in beside')
    BY <2>6 DEF ScmInv, TypesHold
  <2>8. "delete" \in ScmActor
    BY DEF ScmActor
  <2> QED BY <2>2, <2>3, <2>5, <2>6, <2>7, <2>8, NotCalled
<1>3. ASSUME NEW t \in {<<"m_secret", "m_put", "m_row">>, <<"m_unput", "m_unsecret", "m_drop">>},
             Becomes(p, "mirror", [NoOp EXCEPT !.todo = t]), world' = world, born' = born, beside' = beside
      PROVE  ScmInv'
  <2>1. t \in Seq(CallName) /\ Harmless(t) /\ Fit("mirror", t)
    BY MirrorBody DEF ScmActor
  <2>2. PICK n : n = [NoOp EXCEPT !.todo = t]
    OBVIOUS
  <2>3. n \in ScmOp /\ n.todo = t /\ Becomes(p, "mirror", n)
    BY <1>1, <1>3, <2>1, <2>2
  <2>4. "mirror" \in ScmActor /\ beside' \in SUBSET ScmProject
    BY <1>3 DEF ScmActor, ScmInv, TypesHold
  <2> QED BY <1>3, <2>1, <2>3, <2>4, NotCalled
<1>4. CASE ConfigureMirror(p)
  BY <1>3, <1>4 DEF ConfigureMirror
<1>5. CASE RemoveMirror(p)
  BY <1>3, <1>5 DEF RemoveMirror
<1> QED BY <1>2, <1>4, <1>5

\* Nothing about the requests changes that the invariant is about.
LEMMA EndsInv ==
    ASSUME ScmInv, NEW p \in ScmProject, NEW a \in ScmActor, ScmRequestEnds(p, a)
    PROVE  ScmInv'
<1> DEFINE o == scmOp[p][a]
<1>1. PICK n : n = [o EXCEPT !.live = FALSE]
  OBVIOUS
<1>2. n \in ScmOp /\ n.todo = o.todo /\ n.made = o.made /\ n.keeps = o.keeps
  <2>1. o \in ScmOp
    BY DEF ScmInv, TypesHold
  <2> HIDE DEF o
  <2> QED BY <1>1, <2>1 DEF ScmOp
<1>3. scmOp' = [scmOp EXCEPT ![p][a] = n] /\ world' = world /\ born' = born /\ beside' = beside
  BY <1>1 DEF ScmRequestEnds, Becomes
<1>4. /\ scmOp' \in [ScmProject -> [ScmActor -> ScmOp]]
      /\ \A q \in ScmProject, b \in ScmActor :
            scmOp'[q][b].todo = scmOp[q][b].todo /\ scmOp'[q][b].made = scmOp[q][b].made
            /\ scmOp'[q][b].keeps = scmOp[q][b].keeps
  BY <1>2, <1>3 DEF ScmInv, TypesHold
<1>5. ASSUME NEW q \in ScmProject, NEW b \in ScmActor, Asks(world, q, scmOp[q][b]) PROVE Asks(world, q, scmOp'[q][b])
  BY <1>4, <1>5 DEF Asks
<1>6. ASSUME NEW q \in ScmProject, Sound(world, scmOp[q], q) PROVE Sound(world, scmOp'[q], q)
  BY <1>4, <1>5, <1>6 DEF Sound, ScmActor
<1>7. TypesHold' /\ BodiesFit' /\ AllSound'
  BY <1>3, <1>4, <1>6 DEF ScmInv, TypesHold, BodiesFit, AllSound
<1>8. UnbornIsNone'
  BY <1>3, <1>4 DEF ScmInv, UnbornIsNone, ScmActor
<1> QED BY <1>7, <1>8 DEF ScmInv

\* omahabd dies: no request is under way.
LEMMA ScmCrashInv == ASSUME ScmInv, ScmCrash PROVE ScmInv'
<1>1. /\ scmOp' = [p \in ScmProject |-> [a \in ScmActor |-> NoOp]]
      /\ world' = world /\ born' = born /\ beside' = beside
  BY DEF ScmCrash
<1>2. /\ scmOp' \in [ScmProject -> [ScmActor -> ScmOp]]
      /\ \A q \in ScmProject, b \in ScmActor : scmOp'[q][b] \in ScmOp /\ scmOp'[q][b].todo = <<>>
  BY <1>1, NoOpFacts
<1>3. TypesHold' /\ BodiesFit'
  BY <1>1, <1>2, EmptyHarmless DEF ScmInv, TypesHold, BodiesFit
<1>4. \A q \in ScmProject, b \in ScmActor : Asks(world, q, scmOp'[q][b])
  BY <1>2, EmptyHarmless, HarmlessAsks DEF ScmInv, TypesHold
<1>5. AllSound'
  BY <1>1, <1>2, <1>4 DEF ScmInv, AllSound, Sound, ScmActor
<1>6. UnbornIsNone'
  BY <1>1, <1>2 DEF ScmInv, UnbornIsNone, ScmActor
<1> QED BY <1>3, <1>5, <1>6 DEF ScmInv

\* Every step keeps the invariant.
LEMMA ScmNextInv == ScmInv /\ [ScmNext]_scmVars => ScmInv'
<1> SUFFICES ASSUME ScmInv, [ScmNext]_scmVars PROVE ScmInv'
  OBVIOUS
<1>1. ASSUME NEW p \in ScmProject,
             \/ ScmCreateProject(p, Provision) \/ ScmCreateProject(p, ProvisionDocs)
             \/ ScmDeleteProject(p) \/ ConfigureMirror(p) \/ RemoveMirror(p)
      PROVE  ScmInv'
  BY <1>1, CreateInv, BeginInv
<1>2. ASSUME NEW p \in ScmProject, NEW a \in ScmActor,
             ScmStep(p, a) \/ ScmFail(p, a) \/ ScmLoseAnswer(p, a) \/ ScmRequestEnds(p, a)
      PROVE  ScmInv'
  BY <1>2, StepInv, FailInv, LoseInv, EndsInv
<1>3. CASE ScmCrash
  BY <1>3, ScmCrashInv
<1>4. CASE ScmRest \/ UNCHANGED scmVars
  <2>1. world' = world /\ scmOp' = scmOp /\ born' = born /\ beside' = beside
    BY <1>4 DEF ScmRest, scmVars
  <2> QED BY <2>1 DEF ScmInv, TypesHold, BodiesFit, AllSound, UnbornIsNone
<1> QED BY <1>1, <1>2, <1>3, <1>4 DEF ScmNext

\* CreateProject: "never erase tracking of a repository that may still exist": for any
\* number of projects and faults, whatever call fails or loses its answer and whenever
\* the request ends or omahabd dies, a repository or a CI user that a project made is
\* there only with the project's record, unless it was deleted beside its creation.
THEOREM LeftoversAreTrackedHolds == ScmSpec => []LeftoversAreTracked
<1>1. ScmInv => LeftoversAreTracked
  BY DEF ScmInv, AllSound, Sound, LeftoversAreTracked
<1> QED BY <1>1, ScmInitInv, ScmNextInv, PTL DEF ScmSpec

=============================================================================
