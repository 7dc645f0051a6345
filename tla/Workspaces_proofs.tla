-------------------------- MODULE Workspaces_proofs --------------------------
(***************************************************************************)
(* Theorems about the credentials of a workspace.  That deleting or        *)
(* rolling a workspace back leaves no credential is made inductive by what *)
(* each request in flight knows: a creation past its row has the row, a    *)
(* rollback's key has the product's row that lets it be found, and a       *)
(* deletion works on a workspace whose creation is over, with the handle   *)
(* of its key as long as the key works.                                    *)
(***************************************************************************)
EXTENDS Workspaces, TLAPS

USE WorkspaceAssumption DEF wvars

\* The steps of a request that has not inserted its row, among them the deletion of an
\* older review of the branch.
BeforeRow(w) ==
    \/ proc[w].at \in {"new", "list", "listany", "insert"}
    \/ proc[w].at \in DeleteSteps /\ proc[w].next # "done"
\* ... and of one that has issued nothing.
BeforeKeys(w) == BeforeRow(w) \/ proc[w].at \in {"branch", "keys"}
\* What follows a creation: nothing, the run of a review, its own deletion.
Created(w) == ~BeforeRow(w) /\ ~InCreate(w)

Clean(w) == bearer[w] # "live" /\ token[w] # "live"

-----------------------------------------------------------------------------
(* The parts of the inductive invariant.                                    *)

\* A deletion is the deletion of a workspace, and only requests that create one create.
DeletesOne(p) ==
    /\ proc[p].at \in DeleteSteps => proc[p].w \in Requests
    /\ proc[p].at \in CreateSteps \cup {"list", "listany", "print"} => p \in Requests
    /\ proc[p].at \in DeleteSteps /\ proc[p].next # "done" => p \in Requests

\* Without its row a workspace has no attach token and nobody used one.
NotBeforeRow ==
    \A w \in Requests : BeforeRow(w) => row[w] = "none" /\ cap[w] = "none" /\ uses[w] = 0

\* A token that is still to be issued or to be used was not used.
UsedOnce ==
    \A w \in Requests :
        /\ uses[w] \in 0..1
        /\ cap[w] = "fresh" => uses[w] = 0
        /\ cap[w] = "none" /\ row[w] # "none" => uses[w] = 0

UseInv == TypeOK /\ (\A p \in Procs : DeletesOne(p)) /\ NotBeforeRow /\ UsedOnce

\* What a deletion that read the row knows about the creation.
Crosses(p) ==
    proc[p].at \in {"dkeys", "dbox", "drow"} => crossed[proc[p].w] \/ Created(proc[p].w)

CleanBefore == \A w \in Requests : BeforeKeys(w) => Clean(w)

\* As long as no call was lost a key that works has the product's row, ...
KeyHasRow == \A w \in Requests : bearer[w] = "live" => vkrow[w] # "none"

\* ... and if no deletion crossed it, a creation past the insertion has its row, a key that
\* works is named by the row, and what is rolled back or gone is clean, ...
CreationInv(w) ==
    ~crossed[w] =>
        /\ proc[w].at \in {"branch", "keys", "up", "mark", "rollback", "rollrow"} => row[w] # "none"
        /\ bearer[w] = "live" /\ row[w] # "none" => keyed[w]
        /\ proc[w].at = "rollrow" => Clean(w)
        /\ row[w] = "none" => Clean(w)

\* ... as is what a deletion is past the credentials of.
DeletionInv(p) ==
    proc[p].at \in {"dkeys", "dbox", "drow"} /\ ~crossed[proc[p].w] =>
        /\ proc[p].at = "dkeys" /\ bearer[proc[p].w] = "live" => proc[p].saw
        /\ proc[p].at \in {"dbox", "drow"} => Clean(proc[p].w)

Lossless ==
    /\ \A p \in Procs : ~proc[p].ended
    /\ KeyHasRow
    /\ \A w \in Requests : CreationInv(w)
    /\ \A p \in Procs : DeletionInv(p)

IInv ==
    /\ UseInv
    /\ \A p \in Procs : Crosses(p)
    /\ CleanBefore
    /\ faults = 0 => Lossless

-----------------------------------------------------------------------------
(* Moves of one request.                                                    *)

Proc == [at : Steps, w : Requests \cup {"none"}, next : {"done", "insert", "listany"},
         ended : BOOLEAN, again : BOOLEAN, saw : BOOLEAN]

\* Every variable but the requests keeps its type.
Data ==
    /\ \E s \in Scenarios : kind = s.kind /\ ops \in 0..s.ops
    /\ row \in [Requests -> Active \cup {"none", "stopped", "expired"}]
    /\ keyed \in [Requests -> BOOLEAN]
    /\ vkrow \in [Requests -> {"none", "live", "revoked"}]
    /\ bearer \in [Requests -> {"none", "live", "dead"}]
    /\ token \in [Requests -> {"none", "live", "gone"}]
    /\ box \in [Requests -> {"none", "up", "halted"}]
    /\ cap \in [Requests -> {"none", "fresh", "used"}]
    /\ idle \in [Requests -> BOOLEAN]
    /\ uses \in [Requests -> 0..MaxReaders]
    /\ readers \in [Requests -> 0..MaxReaders]
    /\ sweep \in [todo : SUBSET Requests, w : Requests \cup {"none"}, at : {"rest", "pick", "mark"}]
    /\ \A w \in Requests : keyed[w] => row[w] # "none"
    /\ crossed \in [Requests -> BOOLEAN]
    /\ faults \in 0..MaxFaults

LEMMA TypeParts == TypeOK <=> Data /\ proc \in [Procs -> Proc]
BY DEF TypeOK, Data, Proc

\* An action of p is of p alone.
Alone(p) == proc' \in [Procs -> Proc] /\ \A q \in Procs : q # p => proc'[q] = proc[q]

\* A request that goes somewhere leaves the others where they are, and keeps what it
\* knows unless it ends.
LEMMA GoMoves ==
    ASSUME TypeOK, NEW p \in Procs, NEW at, Go(p, at)
    PROVE  /\ at \in Steps => Alone(p)
           /\ proc'[p].at = at
           /\ at = "done" => proc'[p].ended = FALSE
           /\ at # "done" => /\ proc'[p].w = proc[p].w /\ proc'[p].next = proc[p].next
                             /\ proc'[p].ended = proc[p].ended /\ proc'[p].saw = proc[p].saw
<1>1. proc \in [Procs -> Proc]
  BY DEF TypeOK, Proc
<1>2. Finished \in Proc /\ Finished.at = "done" /\ Finished.ended = FALSE
  BY DEF Finished, Fresh, Proc, Steps
<1>3. CASE at = "done"
  BY <1>1, <1>2, <1>3 DEF Go, Alone
<1>4. CASE at # "done"
  BY <1>1, <1>4 DEF Go, Alone, Proc
<1> QED BY <1>3, <1>4

\* So does a request that turns to the deletion of an older review ...
LEMMA DeleteThenMoves ==
    ASSUME TypeOK, NEW p \in Procs, NEW w \in Requests,
           NEW next \in {"done", "insert", "listany"}, DeleteThen(p, w, next)
    PROVE  /\ Alone(p)
           /\ proc'[p].at = "dget" /\ proc'[p].w = w /\ proc'[p].next = next
           /\ proc'[p].ended = proc[p].ended
<1>1. proc \in [Procs -> Proc]
  BY TypeParts
<1>2. proc' = [proc EXCEPT ![p] = [proc[p] EXCEPT !.at = "dget", !.w = w, !.next = next]]
  BY <1>1 DEF DeleteThen, Proc
<1>3. [proc[p] EXCEPT !.at = "dget", !.w = w, !.next = next] \in Proc
  BY <1>1 DEF Proc, Steps, DeleteSteps
<1> QED BY <1>1, <1>2, <1>3 DEF Alone, Proc

\* ... or of its own workspace, on a context of its own, ...
LEMMA RunPrintMoves ==
    ASSUME TypeOK, NEW p \in Requests, RunPrint(p)
    PROVE  /\ Alone(p)
           /\ proc'[p].at = "dget" /\ proc'[p].w = p /\ proc'[p].next = "done"
           /\ proc'[p].ended = FALSE
<1>1. proc \in [Procs -> Proc] /\ p \in Procs
  BY TypeParts DEF Procs
<1>2. proc' = [proc EXCEPT ![p] = [proc[p] EXCEPT !.at = "dget", !.w = p, !.next = "done", !.ended = FALSE]]
  BY <1>1 DEF RunPrint, Proc
<1>3. [proc[p] EXCEPT !.at = "dget", !.w = p, !.next = "done", !.ended = FALSE] \in Proc
  BY <1>1 DEF Proc, Steps, DeleteSteps
<1> QED BY <1>1, <1>2, <1>3 DEF Alone, Proc

\* ... or finds its branch taken, ...
LEMMA ExistsMoves ==
    ASSUME TypeOK, NEW p \in Procs, Exists(p)
    PROVE  /\ Alone(p)
           /\ proc'[p].at \in {"list", "done"}
           /\ proc'[p].ended => proc[p].ended
<1>1. proc \in [Procs -> Proc]
  BY TypeParts
<1>2. CASE kind[p] = "review" /\ ~proc[p].again
  <2>1. proc' = [proc EXCEPT ![p] = [proc[p] EXCEPT !.at = "list", !.again = TRUE]]
    BY <1>1, <1>2 DEF Exists, Proc
  <2>2. [proc[p] EXCEPT !.at = "list", !.again = TRUE] \in Proc
    BY <1>1 DEF Proc, Steps
  <2> QED BY <1>1, <2>1, <2>2 DEF Alone, Proc
<1>3. CASE ~(kind[p] = "review" /\ ~proc[p].again)
  BY <1>3, GoMoves DEF Exists, Steps
<1> QED BY <1>2, <1>3

\* ... or reads the row of what it deletes.
LEMMA DeleteGetMoves ==
    ASSUME TypeOK, NEW p \in Procs, DeletesOne(p), DeleteGet(p)
    PROVE  /\ Alone(p)
           /\ \/ /\ proc[p].ended \/ row[proc[p].w] = "none"
                 /\ Go(p, proc[p].next) /\ UNCHANGED crossed
              \/ /\ ~proc[p].ended /\ row[proc[p].w] # "none"
                 /\ proc'[p].at = "dkeys" /\ proc'[p].saw = keyed[proc[p].w]
                 /\ proc'[p].w = proc[p].w /\ proc'[p].next = proc[p].next
                 /\ proc'[p].ended = proc[p].ended
                 /\ crossed' = [crossed EXCEPT ![proc[p].w] = @ \/ InCreate(proc[p].w)]
<1>1. proc \in [Procs -> Proc] /\ keyed \in [Requests -> BOOLEAN]
  BY TypeParts DEF Data
<1>2. proc[p].w \in Requests
  BY DEF DeletesOne, DeleteGet, DeleteSteps
<1>3. CASE proc[p].ended \/ row[proc[p].w] = "none"
  <2>1. Go(p, proc[p].next) /\ UNCHANGED crossed
    BY <1>3 DEF DeleteGet
  <2>2. proc[p].next \in Steps
    BY <1>1 DEF Proc, Steps, CreateSteps
  <2> QED BY <1>3, <2>1, <2>2, GoMoves
<1>4. CASE ~(proc[p].ended \/ row[proc[p].w] = "none")
  <2>1. proc' = [proc EXCEPT ![p] = [proc[p] EXCEPT !.at = "dkeys", !.saw = keyed[proc[p].w]]]
    BY <1>1, <1>4 DEF DeleteGet, Proc
  <2>2. [proc[p] EXCEPT !.at = "dkeys", !.saw = keyed[proc[p].w]] \in Proc
    BY <1>1, <1>2 DEF Proc, Steps, DeleteSteps
  <2>3. crossed' = [crossed EXCEPT ![proc[p].w] = @ \/ InCreate(proc[p].w)]
    BY <1>4 DEF DeleteGet
  <2> QED BY <1>1, <1>4, <2>1, <2>2, <2>3 DEF Alone, Proc
<1> QED BY <1>3, <1>4

LEMMA ProcStep ==
    ASSUME TypeOK, NEW p \in Procs, DeletesOne(p),
           Create(p) \/ Delete(p) \/ Operate(p) \/ EndContext(p)
    PROVE  Alone(p)
<1>0. proc \in [Procs -> Proc] /\ proc[p] \in Proc
  BY TypeParts
<1>1. CASE StartCreate(p)
  BY <1>0, <1>1, GoMoves DEF Arrive, StartCreate, Steps, CreateSteps, DeleteSteps
<1>2. CASE StartReview(p)
  BY <1>0, <1>2, GoMoves DEF Arrive, StartReview, Steps, CreateSteps, DeleteSteps
<1>3. CASE ListSame(p)
  BY <1>0, <1>3, GoMoves, DeleteThenMoves DEF ListSame, Proc, Steps, CreateSteps, DeleteSteps
<1>4. CASE Insert(p)
  BY <1>0, <1>4, GoMoves, ExistsMoves DEF Insert, Steps, CreateSteps, DeleteSteps
<1>5. CASE CreateBranch(p)
  BY <1>0, <1>5, GoMoves DEF CreateBranch, Steps, CreateSteps, DeleteSteps
<1>6. CASE IssueKeys(p)
  BY <1>0, <1>6, GoMoves DEF IssueKeys, Steps, CreateSteps, DeleteSteps
<1>7. CASE Up(p)
  BY <1>0, <1>7, GoMoves DEF Up, Steps, CreateSteps, DeleteSteps
<1>8. CASE MarkRunning(p)
  BY <1>0, <1>8, GoMoves DEF MarkRunning, Steps, CreateSteps, DeleteSteps
<1>9. CASE RollbackKeys(p)
  BY <1>0, <1>9, GoMoves DEF RollbackKeys, Steps, CreateSteps, DeleteSteps
<1>10. CASE RollbackRow(p)
  BY <1>0, <1>10, GoMoves DEF RollbackRow, Steps, CreateSteps, DeleteSteps
<1>11. CASE RunPrint(p)
  BY <1>11, RunPrintMoves DEF DeletesOne, RunPrint
<1>12. CASE DeleteGet(p)
  BY <1>12, DeleteGetMoves
<1>13. CASE DeleteKeys(p)
  BY <1>0, <1>13, GoMoves DEF DeleteKeys, Steps, CreateSteps, DeleteSteps
<1>14. CASE DeleteBox(p)
  BY <1>0, <1>14, GoMoves DEF DeleteBox, Proc, Steps, CreateSteps, DeleteSteps
<1>15. CASE DeleteRow(p)
  BY <1>0, <1>15, GoMoves DEF DeleteRow, Proc, Steps, CreateSteps, DeleteSteps
<1>16. CASE StopGet(p)
  BY <1>0, <1>16, GoMoves DEF StopGet, Steps, CreateSteps, DeleteSteps
<1>17. CASE StopBox(p)
  BY <1>0, <1>17, GoMoves DEF StopBox, Steps, CreateSteps, DeleteSteps
<1>18. CASE StopRow(p)
  BY <1>0, <1>18, GoMoves DEF StopRow, Steps, CreateSteps, DeleteSteps
<1>19. CASE EndContext(p)
  BY <1>0, <1>19, GoMoves DEF EndContext, Alone, Proc
<1> QED
  BY <1>1, <1>2, <1>3, <1>4, <1>5, <1>6, <1>7, <1>8, <1>9, <1>10, <1>11, <1>12, <1>13, <1>14, <1>15, <1>16, <1>17, <1>18, <1>19 DEF Create, Delete, Operate

-----------------------------------------------------------------------------
(* One use of an attach token.                                              *)

\* The initial state satisfies the invariant.
LEMMA InitUse == Init => UseInv
<1> SUFFICES ASSUME Init PROVE UseInv
  OBVIOUS
<1>1. Fresh \in Proc /\ Fresh.at = "new"
  BY DEF Fresh, Proc, Steps
<1>2. PICK s \in Scenarios : kind = s.kind /\ ops = s.ops
  BY DEF Init
<1>3. s.ops \in Nat
  OBVIOUS
<1>4. TypeOK
  BY <1>1, <1>2, <1>3 DEF Init, TypeOK, Proc, Active
<1>5. (\A p \in Procs : DeletesOne(p)) /\ NotBeforeRow /\ UsedOnce
  BY <1>1 DEF Init, DeletesOne, NotBeforeRow, UsedOnce, CreateSteps, DeleteSteps, Procs
<1> QED BY <1>4, <1>5 DEF UseInv

\* Where a request goes: not back before its row, and not out of its deletion.
Onward(p) ==
    /\ DeletesOne(p)'
    /\ BeforeRow(p)' => BeforeRow(p)
    /\ BeforeKeys(p)' => BeforeKeys(p)
    /\ Created(p) => Created(p)'
    /\ proc'[p].at \in {"dkeys", "dbox", "drow"} =>
          proc[p].at \in DeleteSteps /\ proc'[p].w = proc[p].w

LEMMA RequestsGoOn ==
    ASSUME TypeOK, NEW p \in Procs, DeletesOne(p),
           Create(p) \/ Delete(p) \/ Operate(p) \/ EndContext(p)
    PROVE  Onward(p)
<1>0. proc \in [Procs -> Proc] /\ proc[p] \in Proc
  BY TypeParts
<1> USE <1>0, GoMoves DEF Onward, DeletesOne, Created, InCreate, BeforeRow, BeforeKeys, CreateSteps, DeleteSteps
<1>1. CASE StartCreate(p)
  <2>1. proc[p].at = "new" /\ \E at \in {"insert"} : Go(p, at)
    BY <1>1 DEF StartCreate, Arrive
  <2> QED BY <2>1, <1>1 DEF StartCreate, Arrive
<1>2. CASE StartReview(p)
  <2>1. proc[p].at = "new" /\ \E at \in {"list"} : Go(p, at)
    BY <1>2 DEF StartReview, Arrive
  <2> QED BY <2>1, <1>2 DEF StartReview, Arrive
<1>3. CASE ListSame(p)
  BY <1>3, DeleteThenMoves DEF ListSame
<1>4. CASE Insert(p)
  BY <1>4, ExistsMoves DEF Insert
<1>5. CASE CreateBranch(p)
  <2>1. proc[p].at = "branch" /\ \E at \in {"keys", "rollrow"} : Go(p, at)
    BY <1>5 DEF CreateBranch
  <2> QED BY <2>1
<1>6. CASE IssueKeys(p)
  <2>1. proc[p].at = "keys" /\ \E at \in {"up"} : Go(p, at)
    BY <1>6 DEF IssueKeys
  <2> QED BY <2>1
<1>7. CASE Up(p)
  <2>1. proc[p].at = "up" /\ \E at \in {"mark", "rollback"} : Go(p, at)
    BY <1>7 DEF Up
  <2> QED BY <2>1
<1>8. CASE MarkRunning(p)
  <2>1. proc[p].at = "mark" /\ \E at \in {"print", "done"} : Go(p, at)
    BY <1>8 DEF MarkRunning
  <2> QED BY <2>1
<1>9. CASE RollbackKeys(p)
  <2>1. proc[p].at = "rollback" /\ \E at \in {"rollrow"} : Go(p, at)
    BY <1>9 DEF RollbackKeys
  <2> QED BY <2>1
<1>10. CASE RollbackRow(p)
  <2>1. proc[p].at = "rollrow" /\ \E at \in {"done"} : Go(p, at)
    BY <1>10 DEF RollbackRow
  <2> QED BY <2>1
<1>11. CASE RunPrint(p)
  BY <1>11, RunPrintMoves DEF RunPrint
<1>12. CASE DeleteGet(p)
  BY <1>12, DeleteGetMoves DEF DeleteGet
<1>13. CASE DeleteKeys(p)
  <2>1. proc[p].at = "dkeys" /\ \E at \in {"dbox"} : Go(p, at)
    BY <1>13 DEF DeleteKeys
  <2> QED BY <2>1
<1>14. CASE DeleteBox(p)
  <2>1. proc[p].at = "dbox" /\ \E at \in {"drow", proc[p].next} : Go(p, at)
    BY <1>14 DEF DeleteBox
  <2> QED BY <2>1
<1>15. CASE DeleteRow(p)
  <2>1. proc[p].at = "drow" /\ \E at \in {proc[p].next} : Go(p, at)
    BY <1>15 DEF DeleteRow
  <2> QED BY <2>1
<1>16. CASE StopGet(p)
  <2>1. proc[p].at = "sget" /\ \E at \in {"sbox", "done"} : Go(p, at)
    BY <1>16 DEF StopGet
  <2> QED BY <2>1
<1>17. CASE StopBox(p)
  <2>1. proc[p].at = "sbox" /\ \E at \in {"srow", "done"} : Go(p, at)
    BY <1>17 DEF StopBox
  <2> QED BY <2>1
<1>18. CASE StopRow(p)
  <2>1. proc[p].at = "srow" /\ \E at \in {"done"} : Go(p, at)
    BY <1>18 DEF StopRow
  <2> QED BY <2>1
<1>19. CASE EndContext(p)
  BY <1>19 DEF EndContext, Alone
<1> QED
  BY <1>1, <1>2, <1>3, <1>4, <1>5, <1>6, <1>7, <1>8, <1>9, <1>10, <1>11, <1>12, <1>13, <1>14, <1>15, <1>16, <1>17, <1>18, <1>19 DEF Create, Delete, Operate

\* Removing a row keeps the types.
LEMMA RemoveRowType ==
    ASSUME Data, NEW w \in Requests, RemoveRow(w)
    PROVE  /\ row' \in [Requests -> Active \cup {"none", "stopped", "expired"}]
           /\ keyed' \in [Requests -> BOOLEAN]
           /\ cap' \in [Requests -> {"none", "fresh", "used"}]
           /\ idle' \in [Requests -> BOOLEAN]
           /\ \A v \in Requests : keyed'[v] => row'[v] # "none"
BY DEF Data, RemoveRow
\* Requests keep the types, and what is known of the attach tokens.
LEMMA RequestUse ==
    ASSUME UseInv, NEW p \in Procs, Create(p) \/ Delete(p) \/ Operate(p) \/ EndContext(p)
    PROVE  UseInv'
<1>0. /\ Alone(p) /\ Onward(p)
      /\ TypeOK /\ Data /\ proc \in [Procs -> Proc] /\ proc[p] \in Proc
      /\ DeletesOne(p) /\ NotBeforeRow /\ UsedOnce
  BY ProcStep, RequestsGoOn, TypeParts DEF UseInv
<1>1. /\ \A q \in Procs : DeletesOne(q)'
      /\ \A w \in Requests : BeforeRow(w)' => BeforeRow(w)
  BY <1>0 DEF UseInv, Alone, Onward, DeletesOne, BeforeRow, Procs
<1>2. Data' /\ NotBeforeRow' /\ UsedOnce'
  <2>1. CASE StartCreate(p)
    BY <1>0, <1>1, <2>1 DEF Data, Active, NotBeforeRow, UsedOnce, Arrive, StartCreate
  <2>2. CASE StartReview(p)
    BY <1>0, <1>1, <2>2 DEF Data, Active, NotBeforeRow, UsedOnce, Arrive, StartReview
  <2>3. CASE ListSame(p)
    BY <1>0, <1>1, <2>3 DEF Data, Active, NotBeforeRow, UsedOnce, ListSame
  <2>4. CASE Insert(p)
    <3>1. Data'
      BY <1>0, <2>4 DEF Data, Active, DeletesOne, CreateSteps, DeleteSteps, Insert
    <3>0. UNCHANGED row \/ \E at \in {"keys", "branch"} : Go(p, at)
      BY <2>4 DEF Insert
    <3>1a. BeforeRow(p)' => UNCHANGED row
      BY <1>0, <3>0, GoMoves DEF BeforeRow, DeleteSteps
    <3>2. NotBeforeRow'
      BY <1>0, <1>1, <2>4, <3>1a DEF Data, DeletesOne, CreateSteps, NotBeforeRow, Insert
    <3>3. UsedOnce'
      BY <1>0, <2>4 DEF Data, DeletesOne, CreateSteps, DeleteSteps, NotBeforeRow, BeforeRow, UsedOnce, Insert
    <3> QED BY <3>1, <3>2, <3>3
  <2>5. CASE CreateBranch(p)
    BY <1>0, <1>1, <2>5 DEF Data, Active, NotBeforeRow, UsedOnce, CreateBranch
  <2>6. CASE IssueKeys(p)
    <3>a. p \in Requests
      BY <1>0, <2>6 DEF DeletesOne, CreateSteps, IssueKeys
    <3>b. keyed' \in [Requests -> BOOLEAN] /\ \A w \in Requests : keyed'[w] => row'[w] # "none"
      <4>1. CASE IssueVirtualKey(p)
        BY <1>0, <2>6, <3>a, <4>1 DEF Data, IssueKeys, IssueVirtualKey, StoreVirtualKey
      <4>2. CASE UNCHANGED keyed
        BY <1>0, <2>6, <4>2 DEF Data, IssueKeys
      <4> QED BY <2>6, <4>1, <4>2 DEF IssueKeys, IssueVirtualKeyFails
    <3>1. Data'
      BY <1>0, <2>6, <3>a, <3>b DEF Data, IssueKeys, Works, Fault, IssueVirtualKey, GatewayIssueKey, StoreVirtualKey, IssueVirtualKeyFails, CreateAccessToken
    <3>2. NotBeforeRow'
      BY <1>0, <1>1, <2>6 DEF Data, DeletesOne, CreateSteps, DeleteSteps, NotBeforeRow, IssueKeys, Works, Fault, IssueVirtualKey, GatewayIssueKey, StoreVirtualKey, IssueVirtualKeyFails, CreateAccessToken
    <3>3. UsedOnce'
      BY <1>0, <2>6 DEF Data, DeletesOne, CreateSteps, DeleteSteps, NotBeforeRow, BeforeRow, UsedOnce, IssueKeys, Works, Fault, IssueVirtualKey, GatewayIssueKey, StoreVirtualKey, IssueVirtualKeyFails, CreateAccessToken
    <3> QED BY <3>1, <3>2, <3>3
  <2>7. CASE Up(p)
    BY <1>0, <1>1, <2>7 DEF Data, Active, NotBeforeRow, UsedOnce, Up, RunnerUp, RunnerUpFails
  <2>8. CASE MarkRunning(p)
    <3>1. Data'
      BY <1>0, <2>8 DEF Data, Active, DeletesOne, CreateSteps, DeleteSteps, MarkRunning
    <3>2. NotBeforeRow'
      BY <1>0, <1>1, <2>8 DEF Data, DeletesOne, CreateSteps, DeleteSteps, NotBeforeRow, MarkRunning
    <3>3. UsedOnce'
      BY <1>0, <2>8 DEF Data, DeletesOne, CreateSteps, DeleteSteps, NotBeforeRow, BeforeRow, UsedOnce, MarkRunning
    <3> QED BY <3>1, <3>2, <3>3
  <2>9. CASE RollbackKeys(p)
    BY <1>0, <1>1, <2>9 DEF Data, Active, NotBeforeRow, UsedOnce, RollbackKeys, Works, Fault, DropToken, DeleteKey
  <2>10. CASE RollbackRow(p)
    <3>0. p \in Requests
      BY <1>0, <2>10 DEF DeletesOne, CreateSteps, DeleteSteps, RollbackRow
    <3>1. Data'
      BY <1>0, <2>10, <3>0, RemoveRowType DEF Data, RollbackRow
    <3>2. NotBeforeRow'
      BY <1>0, <1>1, <2>10 DEF Data, DeletesOne, CreateSteps, DeleteSteps, NotBeforeRow, RollbackRow, RemoveRow
    <3>3. UsedOnce'
      BY <1>0, <2>10 DEF Data, DeletesOne, CreateSteps, DeleteSteps, NotBeforeRow, BeforeRow, UsedOnce, RollbackRow, RemoveRow
    <3> QED BY <3>1, <3>2, <3>3
  <2>11. CASE RunPrint(p)
    BY <1>0, <1>1, <2>11 DEF Data, Active, NotBeforeRow, UsedOnce, RunPrint
  <2>12. CASE DeleteGet(p)
    <3>1. crossed \in [Requests -> BOOLEAN]
      BY <1>0 DEF Data
    <3>2. PICK w : crossed' = crossed \/ crossed' = [crossed EXCEPT ![w] = crossed[w] \/ InCreate(w)]
      BY <2>12 DEF DeleteGet
    <3>3. crossed' \in [Requests -> BOOLEAN]
      BY <3>1, <3>2, Zenon DEF InCreate
    <3> QED BY <1>0, <1>1, <2>12, <3>3 DEF Data, Active, NotBeforeRow, UsedOnce, DeleteGet
  <2>13. CASE DeleteKeys(p)
    BY <1>0, <1>1, <2>13 DEF Data, Active, NotBeforeRow, UsedOnce, DeleteKeys, Works, Fault, RevokeKey, DropToken
  <2>14. CASE DeleteBox(p)
    BY <1>0, <1>1, <2>14 DEF Data, Active, NotBeforeRow, UsedOnce, DeleteBox, Works, Breaks, Fault
  <2>15. CASE DeleteRow(p)
    <3>0. proc[p].w \in Requests
      BY <1>0, <2>15 DEF DeletesOne, CreateSteps, DeleteSteps, DeleteRow
    <3>1. Data'
      BY <1>0, <2>15, <3>0, RemoveRowType DEF Data, DeleteRow
    <3>2. NotBeforeRow'
      BY <1>0, <1>1, <2>15 DEF Data, DeletesOne, CreateSteps, DeleteSteps, NotBeforeRow, DeleteRow, RemoveRow
    <3>3. UsedOnce'
      BY <1>0, <2>15 DEF Data, DeletesOne, CreateSteps, DeleteSteps, NotBeforeRow, BeforeRow, UsedOnce, DeleteRow, RemoveRow
    <3> QED BY <3>1, <3>2, <3>3
  <2>16. CASE StopGet(p)
    BY <1>0, <1>1, <2>16 DEF Data, Active, NotBeforeRow, UsedOnce, StopGet
  <2>17. CASE StopBox(p)
    BY <1>0, <1>1, <2>17 DEF Data, Active, NotBeforeRow, UsedOnce, StopBox, Works, Breaks, Fault, HaltBox
  <2>18. CASE StopRow(p)
    <3>1. Data'
      BY <1>0, <2>18 DEF Data, Active, DeletesOne, CreateSteps, DeleteSteps, StopRow, SetStatus
    <3>2. NotBeforeRow'
      BY <1>0, <1>1, <2>18 DEF Data, DeletesOne, CreateSteps, DeleteSteps, NotBeforeRow, StopRow, SetStatus
    <3>3. UsedOnce'
      BY <1>0, <2>18 DEF Data, DeletesOne, CreateSteps, DeleteSteps, NotBeforeRow, BeforeRow, UsedOnce, StopRow, SetStatus
    <3> QED BY <3>1, <3>2, <3>3
  <2>19. CASE EndContext(p)
    BY <1>0, <1>1, <2>19 DEF Data, Active, NotBeforeRow, UsedOnce, EndContext, Fault
  <2> QED
    BY <2>1, <2>2, <2>3, <2>4, <2>5, <2>6, <2>7, <2>8, <2>9, <2>10, <2>11, <2>12, <2>13, <2>14, <2>15, <2>16, <2>17, <2>18, <2>19 DEF Create, Delete, Operate
<1>3. TypeOK'
  BY <1>0, <1>2 DEF TypeOK, Data, Proc, Alone
<1> QED BY <1>1, <1>2, <1>3 DEF UseInv

\* Starting an operator's request, and a death of the daemon, change only requests.
LEMMA OpStartMoves ==
    ASSUME TypeOK, NEW o \in Operators, NEW w \in Requests, NEW at \in {"sget", "dget"},
           OpStart(o, w, at)
    PROVE  /\ Alone(o) /\ o \in Procs /\ o \notin Requests
           /\ proc'[o].at = at /\ proc'[o].w = w /\ proc'[o].next = "done"
           /\ ~proc'[o].ended
<1>1. proc \in [Procs -> Proc] /\ o \in Procs /\ o \notin Requests
  BY TypeParts DEF Procs
<1>2. [Fresh EXCEPT !.at = at, !.w = w] \in Proc
  BY DEF Fresh, Proc, Steps, DeleteSteps
<1> QED BY <1>1, <1>2 DEF OpStart, Fresh, Alone

LEMMA OneLess ==
    ASSUME Data, ops > 0, ops' = ops - 1, UNCHANGED kind
    PROVE  \E s \in Scenarios : kind' = s.kind /\ ops' \in 0..s.ops
<1>1. PICK s \in Scenarios : kind = s.kind /\ ops \in 0..s.ops
  BY DEF Data
<1>2. s.ops \in Nat
  OBVIOUS
<1>3. ops' \in 0..s.ops
  BY <1>1, <1>2
<1> QED BY <1>1, <1>3

LEMMA CrashEnds ==
    ASSUME TypeOK, Crash
    PROVE  /\ proc' \in [Procs -> Proc]
           /\ \A p \in Procs : proc'[p] = proc[p] \/ proc'[p] = Finished
BY TypeParts DEF Crash, Finished, Fresh, Proc, Steps

\* What is not a step of a request keeps the types and what is known of the tokens.
LEMMA OtherUse ==
    ASSUME UseInv,
           \/ \E o \in Operators, w \in Requests, at \in {"sget", "dget"} : OpStart(o, w, at)
           \/ \E w \in Requests : Touch(w) \/ IssueCapability(w) \/ ValidateRead(w)
                                  \/ ValidateUse(w) \/ GrowIdle(w)
           \/ Sweep \/ Crash
    PROVE  UseInv'
<1>0. /\ TypeOK /\ Data /\ proc \in [Procs -> Proc]
      /\ (\A p \in Procs : DeletesOne(p)) /\ NotBeforeRow /\ UsedOnce
  BY TypeParts DEF UseInv
<1>1. ASSUME NEW o \in Operators, NEW w \in Requests, NEW at \in {"sget", "dget"},
             OpStart(o, w, at)
      PROVE  UseInv'
  <2>1. \A q \in Procs : DeletesOne(q)'
    BY <1>0, <1>1, OpStartMoves DEF DeletesOne, Alone, CreateSteps, DeleteSteps
  <2>2. \A v \in Requests : BeforeRow(v)' => BeforeRow(v)
    BY <1>0, <1>1, OpStartMoves DEF BeforeRow, Alone, Procs
  <2>3. NotBeforeRow' /\ UsedOnce'
    BY <1>0, <1>1, <2>2 DEF NotBeforeRow, UsedOnce, OpStart
  <2>4. proc' \in [Procs -> Proc]
    BY <1>0, <1>1, OpStartMoves DEF Alone
  <2>5. \E s \in Scenarios : kind' = s.kind /\ ops' \in 0..s.ops
    BY <1>0, <1>1, OneLess DEF Data, OpStart
  <2>6. Data'
    BY <1>0, <1>1, <2>5 DEF Data, OpStart
  <2>7. TypeOK'
    BY <2>4, <2>6 DEF TypeOK, Data, Proc
  <2> QED BY <2>1, <2>3, <2>7 DEF UseInv
<1>2. ASSUME NEW w \in Requests,
             Touch(w) \/ IssueCapability(w) \/ ValidateRead(w) \/ ValidateUse(w) \/ GrowIdle(w)
      PROVE  UseInv'
  <2>1. UNCHANGED <<proc, row>>
    BY <1>2 DEF Touch, IssueCapability, ValidateRead, ValidateUse, GrowIdle
  <2>2. (\A q \in Procs : DeletesOne(q)') /\ \A v \in Requests : BeforeRow(v)' => BeforeRow(v)
    BY <1>0, <2>1 DEF DeletesOne, BeforeRow
  <2>3. CASE Touch(w)
    <3>1. \E s \in Scenarios : kind' = s.kind /\ ops' \in 0..s.ops
      BY <1>0, <2>3, OneLess DEF Data, Touch
    <3> QED BY <1>0, <2>1, <2>2, <2>3, <3>1 DEF UseInv, TypeOK, Data, NotBeforeRow, UsedOnce, Touch
  <2>7. CASE GrowIdle(w)
    BY <1>0, <2>1, <2>2, <2>7 DEF UseInv, TypeOK, Data, NotBeforeRow, UsedOnce, GrowIdle
  <2>4. CASE IssueCapability(w)
    BY <1>0, <2>1, <2>2, <2>4 DEF UseInv, TypeOK, Data, NotBeforeRow, UsedOnce, IssueCapability
  <2>5. CASE ValidateRead(w)
    BY <1>0, <2>1, <2>2, <2>5 DEF UseInv, TypeOK, Data, NotBeforeRow, UsedOnce, ValidateRead
  <2>6. CASE ValidateUse(w)
    <3>0. readers[w] - 1 \in 0..MaxReaders /\ 1 \in 0..MaxReaders
      BY <1>0, <2>6 DEF Data, ValidateUse
    <3>4. uses' \in [Requests -> 0..MaxReaders]
      <4>1. CASE cap[w] = "fresh"
        <5>1. uses' = [uses EXCEPT ![w] = 1]
          BY <1>0, <2>6, <4>1 DEF Data, UsedOnce, ValidateUse
        <5> QED BY <1>0, <3>0, <5>1 DEF Data
      <4>2. CASE cap[w] # "fresh"
        BY <1>0, <2>6, <4>2 DEF Data, ValidateUse
      <4> QED BY <4>1, <4>2
    <3>5. readers' \in [Requests -> 0..MaxReaders]
      BY <1>0, <2>6, <3>0 DEF Data, ValidateUse
    <3>1. /\ uses' \in [Requests -> 0..MaxReaders] /\ readers' \in [Requests -> 0..MaxReaders]
          /\ cap' \in [Requests -> {"none", "fresh", "used"}] /\ idle' \in [Requests -> BOOLEAN]
      <4>1. CASE cap[w] = "fresh"
        <5>1. cap' = [cap EXCEPT ![w] = "used"] /\ idle' = [idle EXCEPT ![w] = FALSE]
          BY <2>6, <4>1 DEF ValidateUse
        <5> QED BY <1>0, <3>4, <3>5, <5>1 DEF Data
      <4>2. CASE cap[w] # "fresh"
        BY <1>0, <2>6, <3>4, <3>5, <4>2 DEF Data, ValidateUse
      <4> QED BY <4>1, <4>2
    <3>2. TypeOK'
      BY <1>0, <2>1, <2>6, <3>1 DEF TypeOK, Data, ValidateUse
    <3>3. NotBeforeRow' /\ UsedOnce'
      BY <1>0, <2>1, <2>2, <2>6 DEF Data, NotBeforeRow, UsedOnce, ValidateUse
    <3> QED BY <2>2, <3>2, <3>3 DEF UseInv
  <2> QED BY <1>2, <2>3, <2>4, <2>5, <2>6, <2>7
<1>3. ASSUME Sweep PROVE UseInv'
  <2>1. UNCHANGED <<proc, cap, uses>>
    BY <1>3 DEF Sweep, SweepList, SweepOne, SweepMark
  <2>2. \A v \in Requests : (row'[v] = "none") <=> (row[v] = "none")
    BY <1>0, <1>3 DEF Data, Sweep, SweepList, SweepOne, SweepMark, SetStatus
  <2>3. /\ \A q \in Procs : DeletesOne(q)'
        /\ NotBeforeRow' /\ UsedOnce'
    BY <1>0, <2>1, <2>2 DEF DeletesOne, BeforeRow, NotBeforeRow, UsedOnce
  <2>a. sweep' \in [todo : SUBSET Requests, w : Requests \cup {"none"}, at : {"rest", "pick", "mark"}]
    <3>1. CASE SweepList
      BY <3>1 DEF SweepList
    <3>2. ASSUME NEW w \in Requests, SweepOne(w)
          PROVE  sweep' \in [todo : SUBSET Requests, w : Requests \cup {"none"}, at : {"rest", "pick", "mark"}]
      BY <1>0, <3>2 DEF Data, SweepOne
    <3>3. CASE SweepMark
      BY <1>0, <3>3 DEF Data, SweepMark
    <3> QED BY <1>3, <3>1, <3>2, <3>3 DEF Sweep
  <2>4. ASSUME SweepList PROVE TypeOK'
    <3>1. UNCHANGED <<kind, proc, row, keyed, vkrow, bearer, token, box, idle, cap, readers,
                      uses, crossed, ops, faults>>
      BY <2>4 DEF SweepList
    <3> QED BY <1>0, <2>a, <3>1 DEF TypeOK, Data, Active
  <2>5. ASSUME NEW w \in Requests, SweepOne(w) PROVE TypeOK'
    <3>1. faults' \in 0..MaxFaults
      BY <1>0, <2>5 DEF Data, SweepOne, Fault
    <3>2. /\ vkrow' \in [Requests -> {"none", "live", "revoked"}]
          /\ bearer' \in [Requests -> {"none", "live", "dead"}]
          /\ token' \in [Requests -> {"none", "live", "gone"}]
          /\ box' \in [Requests -> {"none", "up", "halted"}]
      BY <1>0, <2>5 DEF Data, SweepOne, HaltBox, RevokeKey, DropToken
    <3> QED BY <1>0, <2>a, <2>5, <3>1, <3>2 DEF TypeOK, Data, Active, SweepOne
  <2>6. ASSUME SweepMark PROVE TypeOK'
    <3>1. row' \in [Requests -> Active \cup {"none", "stopped", "expired"}]
      BY <1>0, <2>6 DEF Data, SweepMark, SetStatus, Active
    <3>2. UNCHANGED <<kind, proc, keyed, vkrow, bearer, token, box, idle, cap, readers,
                      uses, crossed, ops, faults>>
      BY <2>6 DEF SweepMark
    <3> QED BY <1>0, <2>a, <2>2, <3>1, <3>2 DEF TypeOK, Data, Active
  <2> QED BY <1>3, <2>3, <2>4, <2>5, <2>6 DEF UseInv, Sweep
<1>4. ASSUME Crash PROVE UseInv'
  <2>1. \A q \in Procs : DeletesOne(q)'
    BY <1>0, <1>4, CrashEnds DEF DeletesOne, Finished, Fresh, CreateSteps, DeleteSteps
  <2>2. NotBeforeRow' /\ UsedOnce'
    BY <1>0, <1>4, CrashEnds DEF NotBeforeRow, UsedOnce, BeforeRow, Finished, Fresh, DeleteSteps, Crash, Procs
  <2>3. TypeOK'
    BY <1>0, <1>4, CrashEnds DEF TypeOK, Data, Proc, Crash, Fault
  <2> QED BY <2>1, <2>2, <2>3 DEF UseInv
<1> QED BY <1>1, <1>2, <1>3, <1>4

\* UseInv is inductive.
LEMMA UseStep == UseInv /\ [Next]_wvars => UseInv'
<1> SUFFICES ASSUME UseInv, [Next]_wvars PROVE UseInv'
  OBVIOUS
<1>1. CASE Next
  BY <1>1, RequestUse, OtherUse DEF Next
<1>2. CASE UNCHANGED wvars
  BY <1>2 DEF UseInv, TypeOK, DeletesOne, NotBeforeRow, UsedOnce, BeforeRow
<1> QED BY <1>1, <1>2

\* Every variable keeps its type, and a row names a gateway key only while it exists,
\* whatever the requests, the operators and the expiry do beside each other.
THEOREM TypeCorrect == Spec => []TypeOK
<1>1. UseInv => TypeOK
  BY DEF UseInv
<1> QED BY <1>1, InitUse, UseStep, PTL DEF Spec

\* "It enforces one-time use": the attach token of a workspace is accepted once, whoever
\* presents it while another presentation, a deletion or a death of the daemon is under way.
THEOREM OneUseHolds == Spec => []OneUse
<1>1. UseInv => OneUse
  BY DEF UseInv, UsedOnce, OneUse
<1> QED BY <1>1, InitUse, UseStep, PTL DEF Spec

-----------------------------------------------------------------------------
(* Deleting and rolling back.                                               *)

\* The initial state satisfies the invariant.
LEMMA InitInv == Init => IInv
BY InitUse DEF Init, IInv, Crosses, CleanBefore, Clean, Lossless, KeyHasRow, CreationInv, DeletionInv, Procs, Fresh

\* What a deletion knows of the creation stays true.
LEMMA CrossesStep ==
    ASSUME IInv, NEW p \in Procs, Create(p) \/ Delete(p) \/ Operate(p) \/ EndContext(p)
    PROVE  \A q \in Procs : Crosses(q)'
<1>0. /\ Alone(p) /\ Onward(p) /\ UseInv /\ TypeOK /\ DeletesOne(p) /\ Data /\ NotBeforeRow
      /\ proc \in [Procs -> Proc]
  BY ProcStep, RequestsGoOn, TypeParts DEF IInv, UseInv
<1>1. \A w \in Requests : Created(w) => Created(w)'
  BY <1>0 DEF Alone, Onward, Created, BeforeRow, InCreate, Procs
<1>2. \A w \in Requests : crossed[w] => crossed'[w]
  <2>1. CASE DeleteGet(p)
    BY <1>0, <2>1 DEF Data, DeleteGet
  <2>2. CASE ~DeleteGet(p)
    <3>1. UNCHANGED crossed
      BY <2>2 DEF Create, Delete, Operate, StartCreate, StartReview, Arrive, ListSame, Insert, CreateBranch,
         IssueKeys, Up, MarkRunning, RollbackKeys, RollbackRow, RunPrint, DeleteKeys, DeleteBox, DeleteRow,
         StopGet, StopBox, StopRow, EndContext
    <3> QED BY <3>1
  <2> QED BY <2>1, <2>2
<1>3. ASSUME NEW q \in Procs, q # p PROVE Crosses(q)'
  BY <1>0, <1>1, <1>2, <1>3 DEF IInv, UseInv, Alone, Crosses, DeletesOne, DeleteSteps
<1>4. CASE proc[p].at # "dget"
  <2>1. Crosses(p)'
    BY <1>0, <1>1, <1>2, <1>4 DEF IInv, Onward, Crosses, DeletesOne, DeleteSteps
  <2> QED BY <1>3, <2>1
<1>5. CASE proc[p].at = "dget"
  <2> SUFFICES Crosses(p)' BY <1>3
  <2>1. CASE DeleteGet(p)
    <3>1. CASE Go(p, proc[p].next)
      <4>1. proc[p].next \in {"done", "insert", "listany"} /\ proc'[p].at = proc[p].next
        BY <1>0, <3>1, GoMoves DEF Proc
      <4> QED BY <4>1 DEF Crosses
    <3>2. CASE ~Go(p, proc[p].next)
      <4>1. PICK w \in Requests :
              /\ w = proc[p].w /\ proc'[p].w = w /\ row[w] # "none"
              /\ crossed' = [crossed EXCEPT ![w] = @ \/ InCreate(w)]
        BY <1>0, <2>1, <3>2, DeleteGetMoves DEF DeletesOne, DeleteGet, DeleteSteps
      <4>2. InCreate(w) => crossed'[w]
        BY <1>0, <4>1 DEF Data
      <4>3. ~InCreate(w) => Created(w)'
        BY <1>0, <1>1, <4>1 DEF NotBeforeRow, Created
      <4> QED BY <4>1, <4>2, <4>3 DEF Crosses
    <3> QED BY <3>1, <3>2
  <2>2. CASE EndContext(p)
    BY <1>0, <1>3, <1>5, <2>2 DEF EndContext, Crosses, Proc
  <2> QED
    BY <1>5, <2>1, <2>2 DEF Create, Delete, Operate, StartCreate, StartReview, Arrive, ListSame, Insert, CreateBranch,
       IssueKeys, Up, MarkRunning, RollbackKeys, RollbackRow, RunPrint, DeleteKeys, DeleteBox, DeleteRow,
       StopGet, StopBox, StopRow, EndContext
<1> QED BY <1>4, <1>5

\* What has issued nothing stays clean.
LEMMA CleanBeforeStep ==
    ASSUME IInv, NEW p \in Procs, Create(p) \/ Delete(p) \/ Operate(p) \/ EndContext(p)
    PROVE  CleanBefore'
<1>0. /\ Alone(p) /\ Onward(p) /\ TypeOK /\ DeletesOne(p) /\ Data /\ CleanBefore
      /\ proc \in [Procs -> Proc]
  BY ProcStep, RequestsGoOn, TypeParts DEF IInv, UseInv
<1>1. \A w \in Requests : BeforeKeys(w)' => BeforeKeys(w)
  BY <1>0 DEF Alone, Onward, BeforeKeys, BeforeRow, Procs
<1>2. CASE IssueKeys(p)
  <2>1. proc'[p].at = "up" /\ p \in Requests
    BY <1>0, <1>2, GoMoves DEF IssueKeys, DeletesOne, CreateSteps
  <2>2. ~BeforeKeys(p)'
    BY <2>1 DEF BeforeKeys, BeforeRow, DeleteSteps
  <2>3. \A w \in Requests : w # p => bearer'[w] = bearer[w] /\ token'[w] = token[w]
    BY <1>0, <1>2 DEF Data, IssueKeys, IssueVirtualKey, GatewayIssueKey, IssueVirtualKeyFails, CreateAccessToken
  <2> QED BY <1>0, <1>1, <2>2, <2>3 DEF CleanBefore, Clean
<1>3. CASE ~IssueKeys(p)
  <2>1. \A w \in Requests : (bearer'[w] = "live" => bearer[w] = "live") /\ (token'[w] = "live" => token[w] = "live")
    BY <1>0, <1>3 DEF Data, Create, Delete, Operate, StartCreate, StartReview, Arrive, ListSame, Insert, CreateBranch,
         Up, MarkRunning, RollbackKeys, DropToken, DeleteKey, RollbackRow, RunPrint, DeleteGet, DeleteKeys, RevokeKey,
         DeleteBox, DeleteRow, StopGet, StopBox, StopRow, EndContext
  <2> QED BY <1>0, <1>1, <2>1 DEF CleanBefore, Clean
<1> QED BY <1>2, <1>3

\* Where a request comes from, when its context does not end.
WithRow(p) == proc[p].at \in {"branch", "keys", "up", "mark", "rollback", "rollrow"}
Comes(p) ==
    /\ WithRow(p)' => WithRow(p) \/ (Insert(p) /\ row' # row)
    /\ proc'[p].at = "rollrow" => CreateBranch(p) \/ RollbackKeys(p)
    /\ proc'[p].at = "dkeys" => DeleteGet(p)
    /\ proc'[p].at = "dbox" => DeleteKeys(p)
    /\ proc'[p].at = "drow" => DeleteBox(p)

LEMMA RequestsCome ==
    ASSUME TypeOK, NEW p \in Procs, DeletesOne(p), Create(p) \/ Delete(p) \/ Operate(p)
    PROVE  Comes(p)
<1>0. proc \in [Procs -> Proc] /\ proc[p] \in Proc
      /\ proc[p].next \in {"done", "insert", "listany"}
  BY TypeParts DEF Proc
<1> USE <1>0, GoMoves DEF Comes, WithRow
<1>1. CASE StartCreate(p)
  <2>1. proc[p].at = "new" /\ \E at \in {"insert"} : Go(p, at)
    BY <1>1 DEF Arrive, StartCreate
  <2> QED BY <1>1, <2>1
<1>2. CASE StartReview(p)
  <2>1. proc[p].at = "new" /\ \E at \in {"list"} : Go(p, at)
    BY <1>2 DEF Arrive, StartReview
  <2> QED BY <1>2, <2>1
<1>3. CASE ListSame(p)
  <2>1. \/ \E at \in {"listany", "insert"} : Go(p, at)
        \/ \E v \in Requests, next \in {"listany", "insert"} : DeleteThen(p, v, next)
    BY <1>3 DEF ListSame
  <2>2. ASSUME NEW v \in Requests, NEW next \in {"listany", "insert"}, DeleteThen(p, v, next)
        PROVE  proc'[p].at = "dget"
    BY <2>2, DeleteThenMoves
  <2>3. proc'[p].at \in {"listany", "insert", "dget"}
    BY <2>1, <2>2
  <2> QED BY <2>3
<1>4. CASE Insert(p)
  <2>1. Go(p, "done") \/ Exists(p) \/ (row' # row /\ \E at \in {"keys", "branch"} : Go(p, at))
    <3>1. p \in Requests
      BY <1>4 DEF Insert, DeletesOne, CreateSteps
    <3>2. row' = [row EXCEPT ![p] = "pending"] /\ row[p] = "none" => row' # row
      BY <3>1, TypeParts DEF Data
    <3> QED BY <1>4, <3>1, <3>2 DEF Insert, SameBranch
  <2>2. proc'[p].at \in {"list", "done"} \/ (row' # row /\ proc'[p].at \in {"keys", "branch"})
    BY <2>1, ExistsMoves
  <2> QED BY <1>4, <2>2
<1>5. CASE CreateBranch(p)
  <2>1. proc[p].at = "branch" /\ \E at \in {"keys", "rollrow"} : Go(p, at)
    BY <1>5 DEF CreateBranch
  <2> QED BY <1>5, <2>1
<1>6. CASE IssueKeys(p)
  <2>1. proc[p].at = "keys" /\ \E at \in {"up"} : Go(p, at)
    BY <1>6 DEF IssueKeys
  <2> QED BY <1>6, <2>1
<1>7. CASE Up(p)
  <2>1. proc[p].at = "up" /\ \E at \in {"mark", "rollback"} : Go(p, at)
    BY <1>7 DEF Up
  <2> QED BY <1>7, <2>1
<1>8. CASE MarkRunning(p)
  <2>1. proc[p].at = "mark" /\ \E at \in {"print", "done"} : Go(p, at)
    BY <1>8 DEF MarkRunning
  <2> QED BY <1>8, <2>1
<1>9. CASE RollbackKeys(p)
  <2>1. proc[p].at = "rollback" /\ \E at \in {"rollrow"} : Go(p, at)
    BY <1>9 DEF RollbackKeys
  <2> QED BY <1>9, <2>1
<1>10. CASE RollbackRow(p)
  <2>1. proc[p].at = "rollrow" /\ \E at \in {"done"} : Go(p, at)
    BY <1>10 DEF RollbackRow
  <2> QED BY <1>10, <2>1
<1>11. CASE RunPrint(p)
  BY <1>11, RunPrintMoves DEF DeletesOne, CreateSteps, DeleteSteps, RunPrint
<1>12. CASE DeleteGet(p)
  BY <1>12, DeleteGetMoves DEF DeletesOne, CreateSteps, DeleteSteps, DeleteGet
<1>13. CASE DeleteKeys(p)
  <2>1. proc[p].at = "dkeys" /\ \E at \in {"dbox"} : Go(p, at)
    BY <1>13 DEF DeleteKeys
  <2> QED BY <1>13, <2>1
<1>14. CASE DeleteBox(p)
  <2>1. proc[p].at = "dbox" /\ \E at \in {"drow", proc[p].next} : Go(p, at)
    BY <1>14 DEF DeleteBox
  <2> QED BY <1>14, <2>1
<1>15. CASE DeleteRow(p)
  <2>1. proc[p].at = "drow" /\ \E at \in {proc[p].next} : Go(p, at)
    BY <1>15 DEF DeleteRow
  <2> QED BY <1>15, <2>1
<1>16. CASE StopGet(p)
  <2>1. proc[p].at = "sget" /\ \E at \in {"sbox", "done"} : Go(p, at)
    BY <1>16 DEF StopGet
  <2> QED BY <1>16, <2>1
<1>17. CASE StopBox(p)
  <2>1. proc[p].at = "sbox" /\ \E at \in {"srow", "done"} : Go(p, at)
    BY <1>17 DEF StopBox
  <2> QED BY <1>17, <2>1
<1>18. CASE StopRow(p)
  <2>1. proc[p].at = "srow" /\ \E at \in {"done"} : Go(p, at)
    BY <1>18 DEF StopRow
  <2> QED BY <1>18, <2>1
<1> QED
  BY <1>1, <1>2, <1>3, <1>4, <1>5, <1>6, <1>7, <1>8, <1>9, <1>10, <1>11, <1>12, <1>13, <1>14, <1>15, <1>16, <1>17, <1>18 DEF Create, Delete, Operate

\* What a step leaves of a workspace at most.
Spares(w) ==
    /\ row'[w] = "none" <=> row[w] = "none"
    /\ keyed'[w] = keyed[w]
    /\ bearer'[w] = "live" => bearer[w] = "live"
    /\ token'[w] = "live" => token[w] = "live"
    /\ crossed[w] => crossed'[w]

LEMMA RequestsSpare ==
    ASSUME UseInv, NEW p \in Procs, Create(p) \/ Delete(p) \/ Operate(p), faults = 0, ~proc[p].ended,
           NEW w \in Requests,
           ~IssueKeys(p), ~RollbackRow(p), ~DeleteRow(p), Insert(p) => row' = row
    PROVE  Spares(w)
<1>0. DeletesOne(p) /\ Data
  BY TypeParts DEF UseInv
<1> USE <1>0 DEF Data, Spares
<1>1. CASE StartCreate(p)
  BY <1>1 DEF Arrive, StartCreate
<1>2. CASE StartReview(p)
  BY <1>2 DEF Arrive, StartReview
<1>3. CASE ListSame(p)
  BY <1>3 DEF ListSame
<1>4. CASE Insert(p)
  BY <1>4 DEF Insert
<1>5. CASE CreateBranch(p)
  BY <1>5 DEF CreateBranch
<1>6. CASE IssueKeys(p)
  BY <1>6 DEF IssueKeys, Works, Fault, IssueVirtualKey, GatewayIssueKey, StoreVirtualKey, IssueVirtualKeyFails, CreateAccessToken
<1>7. CASE Up(p)
  BY <1>7 DEF Up, RunnerUp, RunnerUpFails
<1>8. CASE MarkRunning(p)
  BY <1>8 DEF MarkRunning
<1>9. CASE RollbackKeys(p)
  BY <1>9 DEF RollbackKeys, Works, Fault, DropToken, DeleteKey
<1>10. CASE RollbackRow(p)
  BY <1>10 DEF RollbackRow, RemoveRow
<1>11. CASE RunPrint(p)
  BY <1>11 DEF RunPrint
<1>12. CASE DeleteGet(p)
  BY <1>12 DEF DeleteGet
<1>13. CASE DeleteKeys(p)
  BY <1>13 DEF DeleteKeys, Works, Fault, RevokeKey, DropToken
<1>14. CASE DeleteBox(p)
  BY <1>14 DEF DeleteBox, Works, Breaks, Fault
<1>15. CASE DeleteRow(p)
  BY <1>15 DEF DeleteRow, RemoveRow
<1>16. CASE StopGet(p)
  BY <1>16 DEF StopGet
<1>17. CASE StopBox(p)
  BY <1>17 DEF StopBox, Works, Breaks, Fault, HaltBox
<1>18. CASE StopRow(p)
  BY <1>18 DEF StopRow, SetStatus
<1> QED
  BY <1>1, <1>2, <1>3, <1>4, <1>5, <1>6, <1>7, <1>8, <1>9, <1>10, <1>11, <1>12, <1>13, <1>14, <1>15, <1>16, <1>17, <1>18 DEF Create, Delete, Operate

\* A step that spares the workspaces keeps what is known of every creation and of every
\* deletion but its own.
LEMMA SparedKeep ==
    ASSUME IInv, Lossless, NEW p \in Procs, Alone(p), Comes(p),
           \A w \in Requests : Spares(w),
           Insert(p) => row' = row,
           p \in Requests => (proc'[p].at = "rollrow" => Clean(p)')
    PROVE  /\ \A w \in Requests : CreationInv(w)'
           /\ \A q \in Procs : q # p => DeletionInv(q)'
<1>1. ASSUME NEW w \in Requests PROVE CreationInv(w)'
  <2>1. CreationInv(w) /\ Spares(w) /\ w \in Procs
    BY DEF Lossless, Procs
  <2>2. CASE w # p
    BY <2>1, <2>2 DEF Alone, CreationInv, Spares, Clean
  <2>3. CASE w = p
    BY <2>1, <2>3 DEF Comes, WithRow, CreationInv, Spares, Clean
  <2> QED BY <2>2, <2>3
<1>2. ASSUME NEW q \in Procs, q # p PROVE DeletionInv(q)'
  <2>1. DeletionInv(q) /\ DeletesOne(q) /\ proc'[q] = proc[q]
    BY <1>2 DEF IInv, UseInv, Lossless, Alone
  <2>2. CASE proc[q].at \in {"dkeys", "dbox", "drow"}
    <3>1. PICK v \in Requests : v = proc[q].w
      BY <2>1, <2>2 DEF DeletesOne, DeleteSteps
    <3>2. Spares(v)
      OBVIOUS
    <3> QED BY <2>1, <3>1, <3>2 DEF DeletionInv, Spares, Clean
  <2>3. CASE proc[q].at \notin {"dkeys", "dbox", "drow"}
    BY <2>1, <2>3 DEF DeletionInv
  <2> QED BY <2>2, <2>3
<1> QED BY <1>1, <1>2

\* A deletion goes on with the credentials it has seen, and past them without any.
LEMMA OwnDeletion ==
    ASSUME IInv, Lossless, faults = 0, faults' = 0, NEW p \in Procs,
           Create(p) \/ Delete(p) \/ Operate(p)
    PROVE  DeletionInv(p)'
<1>0. /\ TypeOK /\ DeletesOne(p) /\ Data /\ Comes(p) /\ DeletionInv(p) /\ ~proc[p].ended
      /\ proc \in [Procs -> Proc]
  BY RequestsCome, TypeParts DEF IInv, UseInv, Lossless
<1>1. CASE proc'[p].at \notin {"dkeys", "dbox", "drow"}
  BY <1>1 DEF DeletionInv
<1>2. CASE DeleteGet(p) /\ proc'[p].at = "dkeys"
  <2>1. PICK v \in Requests : v = proc[p].w
    BY <1>0, <1>2 DEF DeletesOne, DeleteGet, DeleteSteps
  <2>2. proc[p].next # "dkeys"
    BY <1>0 DEF Proc
  <2>3. proc'[p].w = v /\ proc'[p].saw = keyed[v] /\ row[v] # "none"
        /\ crossed' = [crossed EXCEPT ![v] = @ \/ InCreate(v)]
    BY <1>0, <1>2, <2>1, <2>2, DeleteGetMoves, GoMoves
  <2>4. crossed[v] => crossed'[v]
    BY <1>0, <2>3 DEF Data
  <2>5. UNCHANGED <<bearer, row, token>> /\ CreationInv(v)
    BY <1>2 DEF DeleteGet, Lossless
  <2> QED BY <1>2, <2>1, <2>3, <2>4, <2>5 DEF DeletionInv, CreationInv
<1>3. CASE DeleteKeys(p) /\ proc'[p].at = "dbox"
  <2>1. PICK v \in Requests : v = proc[p].w
    BY <1>0, <1>3 DEF DeletesOne, DeleteKeys, DeleteSteps
  <2>2. proc'[p].w = v
    BY <1>0, <1>3, <2>1, GoMoves DEF DeleteKeys
  <2>3. /\ proc[p].at = "dkeys" /\ UNCHANGED crossed
        /\ token'[v] # "live"
        /\ proc[p].saw => bearer'[v] = "dead"
        /\ ~proc[p].saw => bearer' = bearer
    BY <1>0, <1>3, <2>1 DEF Data, DeleteKeys, Works, Fault, RevokeKey, DropToken
  <2> QED BY <1>0, <1>3, <2>1, <2>2, <2>3 DEF DeletionInv, Clean
<1>4. CASE DeleteBox(p) /\ proc'[p].at = "drow"
  <2>1. proc[p].at = "dbox" /\ UNCHANGED <<crossed, bearer, token>>
    BY <1>4 DEF DeleteBox
  <2>2. proc'[p].w = proc[p].w
    BY <1>0, <1>4, GoMoves DEF DeleteBox
  <2> QED BY <1>0, <1>4, <2>1, <2>2 DEF DeletionInv, Clean
<1> QED BY <1>0, <1>1, <1>2, <1>3, <1>4 DEF Comes

\* As long as nothing is lost, keys keep their rows and requests their contexts.
LEMMA RequestsKeepKeys ==
    ASSUME IInv, NEW p \in Procs, Create(p) \/ Delete(p) \/ Operate(p) \/ EndContext(p), faults' = 0
    PROVE  /\ faults = 0 /\ ~EndContext(p)
           /\ KeyHasRow' /\ \A q \in Procs : ~proc'[q].ended
<1>0. /\ Alone(p) /\ TypeOK /\ Data /\ DeletesOne(p)
  BY ProcStep, TypeParts DEF IInv, UseInv
<1>19. ~EndContext(p)
  BY <1>0 DEF Data, EndContext, Fault
<1>1. CASE StartCreate(p)
  <2>1. faults = 0 /\ Lossless
    BY <1>0, <1>1 DEF IInv, Data, Arrive, StartCreate
  <2>2. KeyHasRow'
    BY <1>0, <1>1, <2>1 DEF Lossless, KeyHasRow, Data, Arrive, StartCreate
  <2>3. ~proc'[p].ended
    BY <1>0, <1>1, <2>1, GoMoves DEF Lossless, Arrive, StartCreate
  <2> QED BY <1>0, <1>19, <2>1, <2>2, <2>3 DEF Lossless, Alone
<1>2. CASE StartReview(p)
  <2>1. faults = 0 /\ Lossless
    BY <1>0, <1>2 DEF IInv, Data, Arrive, StartReview
  <2>2. KeyHasRow'
    BY <1>0, <1>2, <2>1 DEF Lossless, KeyHasRow, Data, Arrive, StartReview
  <2>3. ~proc'[p].ended
    BY <1>0, <1>2, <2>1, GoMoves DEF Lossless, Arrive, StartReview
  <2> QED BY <1>0, <1>19, <2>1, <2>2, <2>3 DEF Lossless, Alone
<1>3. CASE ListSame(p)
  <2>1. faults = 0 /\ Lossless
    BY <1>0, <1>3 DEF IInv, Data, ListSame
  <2>2. KeyHasRow'
    BY <1>0, <1>3, <2>1 DEF Lossless, KeyHasRow, Data, ListSame
  <2>3. ~proc'[p].ended
    BY <1>0, <1>3, <2>1, GoMoves, DeleteThenMoves DEF Lossless, ListSame
  <2> QED BY <1>0, <1>19, <2>1, <2>2, <2>3 DEF Lossless, Alone
<1>4. CASE Insert(p)
  <2>1. faults = 0 /\ Lossless
    BY <1>0, <1>4 DEF IInv, Data, Insert
  <2>2. KeyHasRow'
    BY <1>0, <1>4, <2>1 DEF Lossless, KeyHasRow, Data, Insert
  <2>3. ~proc'[p].ended
    BY <1>0, <1>4, <2>1, GoMoves, ExistsMoves DEF Lossless, Insert
  <2> QED BY <1>0, <1>19, <2>1, <2>2, <2>3 DEF Lossless, Alone
<1>5. CASE CreateBranch(p)
  <2>1. faults = 0 /\ Lossless
    BY <1>0, <1>5 DEF IInv, Data, CreateBranch
  <2>2. KeyHasRow'
    BY <1>0, <1>5, <2>1 DEF Lossless, KeyHasRow, Data, CreateBranch
  <2>3. ~proc'[p].ended
    BY <1>0, <1>5, <2>1, GoMoves DEF Lossless, CreateBranch
  <2> QED BY <1>0, <1>19, <2>1, <2>2, <2>3 DEF Lossless, Alone
<1>6. CASE IssueKeys(p)
  <2>1. faults = 0 /\ Lossless
    BY <1>0, <1>6 DEF IInv, Data, IssueKeys, Works, Fault, IssueVirtualKey, GatewayIssueKey, StoreVirtualKey, IssueVirtualKeyFails, CreateAccessToken
  <2>2. KeyHasRow'
    BY <1>0, <1>6, <2>1 DEF Lossless, KeyHasRow, Data, IssueKeys, Works, Fault, IssueVirtualKey, GatewayIssueKey, StoreVirtualKey, IssueVirtualKeyFails, CreateAccessToken
  <2>3. ~proc'[p].ended
    BY <1>0, <1>6, <2>1, GoMoves DEF Lossless, IssueKeys, Works, Fault, IssueVirtualKey, GatewayIssueKey, StoreVirtualKey, IssueVirtualKeyFails, CreateAccessToken
  <2> QED BY <1>0, <1>19, <2>1, <2>2, <2>3 DEF Lossless, Alone
<1>7. CASE Up(p)
  <2>1. faults = 0 /\ Lossless
    BY <1>0, <1>7 DEF IInv, Data, Up, RunnerUp, RunnerUpFails
  <2>2. KeyHasRow'
    BY <1>0, <1>7, <2>1 DEF Lossless, KeyHasRow, Data, Up, RunnerUp, RunnerUpFails
  <2>3. ~proc'[p].ended
    BY <1>0, <1>7, <2>1, GoMoves DEF Lossless, Up, RunnerUp, RunnerUpFails
  <2> QED BY <1>0, <1>19, <2>1, <2>2, <2>3 DEF Lossless, Alone
<1>8. CASE MarkRunning(p)
  <2>1. faults = 0 /\ Lossless
    BY <1>0, <1>8 DEF IInv, Data, MarkRunning
  <2>2. KeyHasRow'
    BY <1>0, <1>8, <2>1 DEF Lossless, KeyHasRow, Data, MarkRunning
  <2>3. ~proc'[p].ended
    BY <1>0, <1>8, <2>1, GoMoves DEF Lossless, MarkRunning
  <2> QED BY <1>0, <1>19, <2>1, <2>2, <2>3 DEF Lossless, Alone
<1>9. CASE RollbackKeys(p)
  <2>1. faults = 0 /\ Lossless
    BY <1>0, <1>9 DEF IInv, Data, RollbackKeys, Works, Fault, DropToken, DeleteKey
  <2>2. KeyHasRow'
    BY <1>0, <1>9, <2>1 DEF Lossless, KeyHasRow, Data, RollbackKeys, Works, Fault, DropToken, DeleteKey
  <2>3. ~proc'[p].ended
    BY <1>0, <1>9, <2>1, GoMoves DEF Lossless, RollbackKeys, Works, Fault, DropToken, DeleteKey
  <2> QED BY <1>0, <1>19, <2>1, <2>2, <2>3 DEF Lossless, Alone
<1>10. CASE RollbackRow(p)
  <2>1. faults = 0 /\ Lossless
    BY <1>0, <1>10 DEF IInv, Data, RollbackRow, RemoveRow
  <2>2. KeyHasRow'
    BY <1>0, <1>10, <2>1 DEF Lossless, KeyHasRow, Data, RollbackRow, RemoveRow
  <2>3. ~proc'[p].ended
    BY <1>0, <1>10, <2>1, GoMoves DEF Lossless, RollbackRow, RemoveRow
  <2> QED BY <1>0, <1>19, <2>1, <2>2, <2>3 DEF Lossless, Alone
<1>11. CASE RunPrint(p)
  <2>1. faults = 0 /\ Lossless
    BY <1>0, <1>11 DEF IInv, Data, RunPrint
  <2>2. KeyHasRow'
    BY <1>0, <1>11, <2>1 DEF Lossless, KeyHasRow, Data, RunPrint
  <2>3. ~proc'[p].ended
    BY <1>0, <1>11, <2>1, GoMoves, RunPrintMoves DEF Lossless, DeletesOne, RunPrint
  <2> QED BY <1>0, <1>19, <2>1, <2>2, <2>3 DEF Lossless, Alone
<1>12. CASE DeleteGet(p)
  <2>1. faults = 0 /\ Lossless
    BY <1>0, <1>12 DEF IInv, Data, DeleteGet
  <2>2. KeyHasRow'
    BY <1>0, <1>12, <2>1 DEF Lossless, KeyHasRow, Data, DeleteGet
  <2>3. ~proc'[p].ended
    BY <1>0, <1>12, <2>1, GoMoves, DeleteGetMoves DEF Lossless, DeleteGet
  <2> QED BY <1>0, <1>19, <2>1, <2>2, <2>3 DEF Lossless, Alone
<1>13. CASE DeleteKeys(p)
  <2>1. faults = 0 /\ Lossless
    BY <1>0, <1>13 DEF IInv, Data, DeleteKeys, Works, Fault, RevokeKey, DropToken
  <2>2. KeyHasRow'
    BY <1>0, <1>13, <2>1 DEF Lossless, KeyHasRow, Data, DeleteKeys, Works, Fault, RevokeKey, DropToken
  <2>3. ~proc'[p].ended
    BY <1>0, <1>13, <2>1, GoMoves DEF Lossless, DeleteKeys, Works, Fault, RevokeKey, DropToken
  <2> QED BY <1>0, <1>19, <2>1, <2>2, <2>3 DEF Lossless, Alone
<1>14. CASE DeleteBox(p)
  <2>1. faults = 0 /\ Lossless
    BY <1>0, <1>14 DEF IInv, Data, DeleteBox, Works, Breaks, Fault
  <2>2. KeyHasRow'
    BY <1>0, <1>14, <2>1 DEF Lossless, KeyHasRow, Data, DeleteBox, Works, Breaks, Fault
  <2>3. ~proc'[p].ended
    BY <1>0, <1>14, <2>1, GoMoves DEF Lossless, DeleteBox, Works, Breaks, Fault
  <2> QED BY <1>0, <1>19, <2>1, <2>2, <2>3 DEF Lossless, Alone
<1>15. CASE DeleteRow(p)
  <2>1. faults = 0 /\ Lossless
    BY <1>0, <1>15 DEF IInv, Data, DeleteRow, RemoveRow
  <2>2. KeyHasRow'
    BY <1>0, <1>15, <2>1 DEF Lossless, KeyHasRow, Data, DeleteRow, RemoveRow
  <2>3. ~proc'[p].ended
    BY <1>0, <1>15, <2>1, GoMoves DEF Lossless, DeleteRow, RemoveRow
  <2> QED BY <1>0, <1>19, <2>1, <2>2, <2>3 DEF Lossless, Alone
<1>16. CASE StopGet(p)
  <2>1. faults = 0 /\ Lossless
    BY <1>0, <1>16 DEF IInv, Data, StopGet
  <2>2. KeyHasRow'
    BY <1>0, <1>16, <2>1 DEF Lossless, KeyHasRow, Data, StopGet
  <2>3. ~proc'[p].ended
    BY <1>0, <1>16, <2>1, GoMoves DEF Lossless, StopGet
  <2> QED BY <1>0, <1>19, <2>1, <2>2, <2>3 DEF Lossless, Alone
<1>17. CASE StopBox(p)
  <2>1. faults = 0 /\ Lossless
    BY <1>0, <1>17 DEF IInv, Data, StopBox, Works, Breaks, Fault, HaltBox
  <2>2. KeyHasRow'
    BY <1>0, <1>17, <2>1 DEF Lossless, KeyHasRow, Data, StopBox, Works, Breaks, Fault, HaltBox
  <2>3. ~proc'[p].ended
    BY <1>0, <1>17, <2>1, GoMoves DEF Lossless, StopBox, Works, Breaks, Fault, HaltBox
  <2> QED BY <1>0, <1>19, <2>1, <2>2, <2>3 DEF Lossless, Alone
<1>18. CASE StopRow(p)
  <2>1. faults = 0 /\ Lossless
    BY <1>0, <1>18 DEF IInv, Data, StopRow, SetStatus
  <2>2. KeyHasRow'
    BY <1>0, <1>18, <2>1 DEF Lossless, KeyHasRow, Data, StopRow, SetStatus
  <2>3. ~proc'[p].ended
    BY <1>0, <1>18, <2>1, GoMoves DEF Lossless, StopRow, SetStatus
  <2> QED BY <1>0, <1>19, <2>1, <2>2, <2>3 DEF Lossless, Alone
<1> QED
  BY <1>1, <1>2, <1>3, <1>4, <1>5, <1>6, <1>7, <1>8, <1>9, <1>10, <1>11, <1>12, <1>13, <1>14, <1>15, <1>16, <1>17, <1>18, <1>19 DEF Create, Delete, Operate

\* A step of a request that loses nothing.
LEMMA LosslessStep ==
    ASSUME IInv, NEW p \in Procs, Create(p) \/ Delete(p) \/ Operate(p) \/ EndContext(p), faults' = 0
    PROVE  Lossless'
<1>0. /\ Alone(p) /\ UseInv /\ TypeOK /\ DeletesOne(p) /\ Data /\ CleanBefore
      /\ proc \in [Procs -> Proc] /\ \A q \in Procs : Crosses(q) /\ DeletesOne(q)
      /\ (Create(p) \/ Delete(p) \/ Operate(p)) /\ faults = 0 /\ Lossless /\ ~proc[p].ended
  BY ProcStep, TypeParts, RequestsKeepKeys DEF IInv, UseInv, Lossless
<1>1. Comes(p)
  BY <1>0, RequestsCome
<1> SUFFICES /\ \A w \in Requests : CreationInv(w)'
             /\ \A q \in Procs : q # p => DeletionInv(q)'
  BY <1>0, OwnDeletion, RequestsKeepKeys DEF Lossless
<1>2. CASE Insert(p) /\ row' # row
  <2>1. /\ p \in Requests /\ Clean(p) /\ row' = [row EXCEPT ![p] = "pending"]
        /\ UNCHANGED <<keyed, bearer, token, crossed>> /\ proc'[p].at \in {"keys", "branch"}
    BY <1>0, <1>2, GoMoves DEF Insert, DeletesOne, CreateSteps, CleanBefore, BeforeKeys, BeforeRow
  <2>2. ASSUME NEW w \in Requests PROVE CreationInv(w)'
    BY <1>0, <2>1 DEF Lossless, CreationInv, Clean, Alone, Data, Procs
  <2>3. ASSUME NEW q \in Procs, q # p PROVE DeletionInv(q)'
    BY <1>0, <2>1, <2>3 DEF Lossless, DeletionInv, Clean, Alone
  <2> QED BY <2>2, <2>3
<1>3. CASE IssueKeys(p)
  <2>0. p \in Requests /\ proc[p].at = "keys" /\ proc'[p].at = "up"
    BY <1>0, <1>3, GoMoves DEF IssueKeys, DeletesOne, CreateSteps
  <2>a. ~Fault
    BY <1>0 DEF Fault
  <2>b. UNCHANGED <<row, crossed>> /\ IssueVirtualKey(p) /\ CreateAccessToken(p)
    BY <1>0, <1>3, <2>a DEF IssueKeys
  <2>1. /\ p \in Requests /\ proc[p].at = "keys" /\ proc'[p].at = "up"
        /\ UNCHANGED <<row, crossed>>
        /\ IssueVirtualKey(p) /\ CreateAccessToken(p)
    BY <2>0, <2>b
  <2>c. keyed' = [keyed EXCEPT ![p] = row[p] # "none"]
    BY <2>1 DEF IssueVirtualKey, StoreVirtualKey
  <2>d. \A w \in Requests : w # p => bearer'[w] = bearer[w] /\ token'[w] = token[w] /\ keyed'[w] = keyed[w]
    BY <1>0, <2>1, <2>c DEF Data, IssueVirtualKey, GatewayIssueKey, CreateAccessToken
  <2>2. /\ \A w \in Requests : w # p => Spares(w)
        /\ row[p] # "none" => keyed'[p]
    BY <1>0, <2>1, <2>c, <2>d DEF Spares, Data
  <2>3. ASSUME NEW w \in Requests PROVE CreationInv(w)'
    BY <1>0, <2>1, <2>2 DEF Lossless, CreationInv, Clean, Spares, Alone, Procs
  <2>4. ASSUME NEW q \in Procs, q # p PROVE DeletionInv(q)'
    <3>1. DeletionInv(q) /\ Crosses(q) /\ DeletesOne(q) /\ proc'[q] = proc[q]
      BY <1>0, <2>4 DEF Lossless, Alone
    <3>2. ~Created(p)
      BY <2>1 DEF Created, InCreate, CreateSteps
    <3> SUFFICES ASSUME proc[q].at \in {"dkeys", "dbox", "drow"} PROVE DeletionInv(q)'
      BY <3>1 DEF DeletionInv
    <3>3. PICK v \in Requests : v = proc[q].w
      BY <3>1 DEF DeletesOne, DeleteSteps
    <3> QED BY <2>1, <2>2, <3>1, <3>2, <3>3 DEF DeletionInv, Crosses, Spares, Clean
  <2> QED BY <2>3, <2>4
<1>4. CASE RollbackRow(p)
  <2>1. /\ p \in Requests /\ proc[p].at = "rollrow" /\ proc'[p].at = "done"
        /\ RemoveRow(p) /\ UNCHANGED <<bearer, token, crossed>>
    BY <1>0, <1>4, GoMoves DEF RollbackRow, DeletesOne, CreateSteps
  <2>2. ASSUME NEW w \in Requests PROVE CreationInv(w)'
    BY <1>0, <2>1 DEF Lossless, CreationInv, Clean, Alone, Data, Procs, RemoveRow
  <2>3. ASSUME NEW q \in Procs, q # p PROVE DeletionInv(q)'
    BY <1>0, <2>1, <2>3 DEF Lossless, DeletionInv, Clean, Alone
  <2> QED BY <2>2, <2>3
<1>5. CASE DeleteRow(p)
  <2>1. PICK v \in Requests : v = proc[p].w
    BY <1>0, <1>5 DEF DeletesOne, DeleteRow, DeleteSteps
  <2>2. /\ proc[p].at = "drow" /\ RemoveRow(v) /\ UNCHANGED <<bearer, token, crossed>>
    BY <1>0, <1>5, <2>1 DEF DeleteRow
  <2>3. proc'[p].at \in {"done", "insert", "listany"}
    BY <1>0, <1>5, GoMoves DEF DeleteRow, Proc
  <2>4. crossed[v] \/ (Clean(v) /\ Created(v))
    BY <1>0, <2>1, <2>2 DEF Lossless, DeletionInv, Crosses
  <2>5. Created(v) => ~WithRow(v)
    BY DEF Created, InCreate, CreateSteps, WithRow
  <2>6. ASSUME NEW w \in Requests PROVE CreationInv(w)'
    BY <1>0, <2>2, <2>3, <2>4, <2>5 DEF Lossless, CreationInv, WithRow, Clean, Alone, Data, Procs, RemoveRow
  <2>7. ASSUME NEW q \in Procs, q # p PROVE DeletionInv(q)'
    BY <1>0, <2>2, <2>7 DEF Lossless, DeletionInv, Clean, Alone
  <2> QED BY <2>6, <2>7
<1>6. CASE ~(Insert(p) /\ row' # row) /\ ~IssueKeys(p) /\ ~RollbackRow(p) /\ ~DeleteRow(p)
  <2>1. \A w \in Requests : Spares(w)
    BY <1>0, <1>6, RequestsSpare
  <2>2. CASE CreateBranch(p) /\ p \in Requests
    <3>1. Clean(p) /\ UNCHANGED <<bearer, token>>
      BY <1>0, <2>2 DEF CreateBranch, CleanBefore, BeforeKeys
    <3> QED BY <1>0, <1>1, <1>6, <2>1, <3>1, SparedKeep DEF Clean
  <2>3. CASE RollbackKeys(p) /\ p \in Requests
    <3>1. Clean(p)'
      BY <1>0, <2>3, RequestsKeepKeys DEF RollbackKeys, Works, Fault, DropToken, DeleteKey, Lossless, KeyHasRow, Data, Clean
    <3> QED BY <1>0, <1>1, <1>6, <2>1, <3>1, SparedKeep
  <2>4. CASE p \in Requests => ~CreateBranch(p) /\ ~RollbackKeys(p)
    BY <1>0, <1>1, <1>6, <2>1, <2>4, SparedKeep DEF Comes
  <2> QED BY <2>2, <2>3, <2>4
<1> QED BY <1>2, <1>3, <1>4, <1>5, <1>6

\* A step that changes no request and spares the workspaces keeps the invariant.
LEMMA StillStep ==
    ASSUME IInv, UseInv', UNCHANGED <<proc, crossed>>, \A w \in Requests : Spares(w),
           faults' = 0 => faults = 0 /\ KeyHasRow'
    PROVE  IInv'
<1>0. /\ (\A p \in Procs : Crosses(p) /\ DeletesOne(p)) /\ CleanBefore
  BY DEF IInv, UseInv
<1>1. \A p \in Procs : Crosses(p)'
  BY <1>0 DEF Crosses, Created, BeforeRow, InCreate
<1>2. CleanBefore'
  BY <1>0 DEF CleanBefore, Clean, BeforeKeys, BeforeRow, Spares
<1>3. ASSUME faults' = 0 PROVE Lossless'
  <2>1. Lossless /\ KeyHasRow'
    BY <1>3 DEF IInv
  <2>2. \A w \in Requests : CreationInv(w)'
    BY <2>1 DEF Lossless, CreationInv, Spares, Clean
  <2>3. ASSUME NEW p \in Procs PROVE DeletionInv(p)'
    <3> SUFFICES ASSUME proc[p].at \in {"dkeys", "dbox", "drow"} PROVE DeletionInv(p)'
      BY DEF DeletionInv
    <3>1. PICK v \in Requests : v = proc[p].w
      BY <1>0 DEF DeletesOne, DeleteSteps
    <3>2. Spares(v) /\ DeletionInv(p)
      BY <2>1 DEF Lossless
    <3> QED BY <3>1, <3>2 DEF DeletionInv, Spares, Clean
  <2> QED BY <2>1, <2>2, <2>3 DEF Lossless
<1> QED BY <1>1, <1>2, <1>3 DEF IInv

\* What is not a step of a request keeps the invariant.
LEMMA OtherInv ==
    ASSUME IInv,
           \/ \E o \in Operators, w \in Requests, at \in {"sget", "dget"} : OpStart(o, w, at)
           \/ \E w \in Requests : Touch(w) \/ IssueCapability(w) \/ ValidateRead(w)
                                  \/ ValidateUse(w) \/ GrowIdle(w)
           \/ Sweep \/ Crash
    PROVE  IInv'
<1>0. /\ UseInv' /\ TypeOK /\ Data /\ proc \in [Procs -> Proc]
      /\ (\A p \in Procs : Crosses(p) /\ DeletesOne(p)) /\ CleanBefore
  BY OtherUse, TypeParts DEF IInv, UseInv
<1>1. ASSUME NEW o \in Operators, NEW w \in Requests, NEW at \in {"sget", "dget"},
             OpStart(o, w, at)
      PROVE  IInv'
  <2>0. /\ UNCHANGED <<row, keyed, vkrow, bearer, token, crossed, faults>>
        /\ \A v \in Requests : proc'[v] = proc[v]
        /\ \A q \in Procs : q # o => proc'[q] = proc[q]
        /\ proc'[o].at \in {"sget", "dget"} /\ ~proc'[o].ended
    BY <1>0, <1>1, OpStartMoves DEF OpStart, Alone, Procs
  <2>1. \A p \in Procs : Crosses(p)'
    BY <1>0, <2>0 DEF Crosses, Created, BeforeRow, InCreate, DeletesOne, DeleteSteps
  <2>2. CleanBefore'
    BY <1>0, <2>0 DEF CleanBefore, Clean, BeforeKeys, BeforeRow
  <2>3. ASSUME faults' = 0 PROVE Lossless'
    <3>1. Lossless
      BY <2>0, <2>3 DEF IInv
    <3>2. KeyHasRow' /\ (\A q \in Procs : ~proc'[q].ended)
      BY <2>0, <3>1 DEF Lossless, KeyHasRow
    <3>3. \A v \in Requests : CreationInv(v)'
      BY <2>0, <3>1 DEF Lossless, CreationInv, Clean
    <3>4. \A q \in Procs : DeletionInv(q)'
      BY <2>0, <3>1 DEF Lossless, DeletionInv, Clean
    <3> QED BY <3>2, <3>3, <3>4 DEF Lossless
  <2> QED BY <1>0, <2>1, <2>2, <2>3 DEF IInv
<1>2. ASSUME NEW w \in Requests,
             Touch(w) \/ IssueCapability(w) \/ ValidateRead(w) \/ ValidateUse(w) \/ GrowIdle(w)
      PROVE  IInv'
  <2>1. UNCHANGED <<proc, row, keyed, vkrow, bearer, token, crossed, faults>>
    BY <1>2 DEF Touch, IssueCapability, ValidateRead, ValidateUse, GrowIdle
  <2>2. \A v \in Requests : Spares(v)
    BY <2>1 DEF Spares
  <2>3. faults' = 0 => faults = 0 /\ KeyHasRow'
    BY <2>1 DEF IInv, Lossless, KeyHasRow
  <2> QED BY <1>0, <2>1, <2>2, <2>3, StillStep
<1>3. ASSUME Sweep PROVE IInv'
  <2>1. UNCHANGED <<proc, crossed, keyed>>
    BY <1>3 DEF Sweep, SweepList, SweepOne, SweepMark
  <2>2. ASSUME NEW v \in Requests
        PROVE  /\ row'[v] = "none" <=> row[v] = "none"
               /\ bearer'[v] = "live" => bearer[v] = "live"
               /\ token'[v] = "live" => token[v] = "live"
               /\ vkrow'[v] = "none" => vkrow[v] = "none"
    <3>1. CASE SweepList
      BY <3>1 DEF SweepList
    <3>2. ASSUME NEW w \in Requests, SweepOne(w)
          PROVE  /\ row' = row
                 /\ bearer'[v] = "live" => bearer[v] = "live"
                 /\ token'[v] = "live" => token[v] = "live"
                 /\ vkrow'[v] = "none" => vkrow[v] = "none"
      BY <1>0, <3>2 DEF Data, SweepOne, RevokeKey, DropToken
    <3>3. CASE SweepMark
      BY <1>0, <3>3 DEF Data, SweepMark, SetStatus
    <3> QED BY <1>3, <3>1, <3>2, <3>3 DEF Sweep
  <2>3. faults' = 0 => faults = 0
    BY <1>0, <1>3 DEF Data, Sweep, SweepList, SweepOne, SweepMark, Fault
  <2>4. faults' = 0 => KeyHasRow'
    BY <2>2, <2>3 DEF IInv, Lossless, KeyHasRow
  <2>5. \A v \in Requests : Spares(v)
    BY <2>1, <2>2 DEF Spares
  <2> QED BY <1>0, <2>1, <2>3, <2>4, <2>5, StillStep
<1>4. ASSUME Crash PROVE IInv'
  <2>0. /\ UNCHANGED <<bearer, token, crossed>> /\ faults' # 0
        /\ \A p \in Procs : proc'[p] = proc[p] \/ proc'[p] = Finished
        /\ Finished.at = "done"
    BY <1>0, <1>4, CrashEnds DEF Crash, Fault, Data, Finished, Fresh
  <2>1. \A w \in Requests : Created(w) => Created(w)'
    BY <2>0 DEF Created, BeforeRow, InCreate, DeleteSteps, CreateSteps, Procs
  <2>2. ASSUME NEW p \in Procs PROVE Crosses(p)'
    BY <1>0, <2>0, <2>1 DEF Crosses, DeletesOne, DeleteSteps
  <2>3. CleanBefore'
    BY <1>0, <2>0 DEF CleanBefore, Clean, BeforeKeys, BeforeRow, DeleteSteps, Procs
  <2> QED BY <1>0, <2>0, <2>2, <2>3 DEF IInv
<1> QED BY <1>1, <1>2, <1>3, <1>4

\* IInv is inductive.
LEMMA InvStep == IInv /\ [Next]_wvars => IInv'
<1> SUFFICES ASSUME IInv, [Next]_wvars PROVE IInv'
  OBVIOUS
<1>0. UseInv'
  BY UseStep DEF IInv
<1>1. ASSUME NEW p \in Procs, Create(p) \/ Delete(p) \/ Operate(p) \/ EndContext(p) PROVE IInv'
  BY <1>0, <1>1, CrossesStep, CleanBeforeStep, LosslessStep DEF IInv
<1>2. CASE UNCHANGED wvars
  <2>1. \A w \in Requests : Spares(w)
    BY <1>2 DEF Spares
  <2>2. faults' = 0 => faults = 0 /\ KeyHasRow'
    BY <1>2 DEF IInv, Lossless, KeyHasRow
  <2> QED BY <1>0, <1>2, <2>1, <2>2, StillStep
<1> QED BY <1>1, <1>2, OtherInv DEF Next

\* Deleting a workspace, and rolling a failed creation back, leave no credential
\* (rollbackCreate, Delete, ExpireIdle), however many requests run beside each other: as
\* long as no call was lost and no deletion crossed the creation.
THEOREM CredentialsEndHolds == Spec => []CredentialsEnd
<1>1. IInv => CredentialsEnd
  BY DEF IInv, Lossless, CreationInv, CredentialsEnd, Clean
<1> QED BY <1>1, InitInv, InvStep, PTL DEF Spec

=============================================================================
