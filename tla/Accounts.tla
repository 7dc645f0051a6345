------------------------------ MODULE Accounts -------------------------------
(* One person's account: the row in controlplane_users, the Pocket ID account *)
(* it is linked to, the enrollment links that are handed out and the ledger   *)
(* of them (internal/controlplane/identity_ops.go, internal/identity/         *)
(* identity.go and pocketid.go).  A request is the sequence of its calls;     *)
(* requests interleave, a call fails or loses its answer, the context of a    *)
(* request ends, omahabd dies.                                                *)
EXTENDS Naturals, Sequences, FiniteSets

CONSTANTS AccRequests,   \* slots for requests that run beside each other
          AccGroups,     \* sets of groups a request may ask for
          AccBudget,     \* bound: pairs of a number of requests and of faults
          AccMaxCodes    \* bound: one-time codes Pocket ID mints

ASSUME AccountsAssumption == AccMaxCodes \in Nat /\ AccBudget \subseteq Nat \X Nat

VARIABLES acc,        \* rows, ledger and Pocket ID
          accReq,     \* the requests under way
          settled,    \* what the last request that ran alone was told it did
          accQuota    \* requests and faults left

accVars == <<acc, accReq, settled, accQuota>>

AccCodes == 1..AccMaxCodes
NoUser == [is |-> FALSE, disabled |-> FALSE, groups |-> 0, linked |-> FALSE]
NoAccount == [is |-> FALSE, disabled |-> FALSE, groups |-> 0]
NoRequest == [op |-> "none", todo |-> <<>>, wish |-> 0, asks |-> FALSE, want |-> 0, old |-> NoUser,
              seen |-> {}, code |-> 0, live |-> TRUE, alone |-> TRUE]

AccInit ==
    /\ \E u \in {NoUser, [NoUser EXCEPT !.is = TRUE, !.linked = TRUE]} :
        acc = [row |-> u, up |-> [NoAccount EXCEPT !.is = u.is], minted |-> 0, works |-> {},
               handed |-> {}, ledger |-> [c \in AccCodes |-> "none"], recoveries |-> {}]
    /\ accReq = [p \in AccRequests |-> NoRequest]
    /\ settled = [flag |-> {}, listed |-> {}, groups |-> {}]
    /\ \E b \in AccBudget : accQuota = [requests |-> b[1], faults |-> b[2]]

----------------------------------------------------------------------------
(* The requests, as the calls they make *)

\* A PATCH with the flag, and one without it.
UserUpdate == <<"read", "flag", "transition">>
UserPatch == <<"read", "flag", "ack">>

\* Mutated form: a request that changes nothing is answered without a word to Pocket ID.
ConvergeNothing(r) == <<"ack">>

\* The flag did not change: Pocket ID is brought in line with it.
Converge(r) == <<"disable", "verify", "ack">>

\* The links go while Pocket ID still accepts them.
Disable == <<"list", "supersede", "burn", "disable", "verify", "forget", "ack">>
Enable == <<"disable", "verify", "ack">>

Enrollment == <<"read", "blocked", "which">>
FirstLink == <<"account", "mint", "link", "record", "ack">>
NextLink == <<"list", "burn_closed", "supersede", "mint", "record", "ack">>

NewUser == <<"insert", "account", "mint", "link", "ack">>
GroupChange == <<"read", "put_groups", "read_groups", "groups", "ack">>
RecoverySession == <<"read", "blocked", "mint", "persist", "ack">>
Deletion == <<"delete", "ack">>

BodyOf(op) ==
    CASE op = "update" -> UserUpdate
      [] op = "patch" -> UserPatch
      [] op = "enroll" -> Enrollment
      [] op = "create" -> NewUser
      [] op = "groups" -> GroupChange
      [] op = "recover" -> RecoverySession
      [] op = "delete" -> Deletion

----------------------------------------------------------------------------
(* The calls: what they change, and the error each may meet *)

\* The row is read by its id; there is none.
GetUser(a) == a.row.is

InsertUser(a, r) == [a EXCEPT !.row = [NoUser EXCEPT !.is = TRUE, !.groups = r.wish]]
SetFlag(a, flag, groups) ==
    IF a.row.is THEN [a EXCEPT !.row.disabled = flag, !.row.groups = groups] ELSE a
SetGroups(a, groups) == IF a.row.is THEN [a EXCEPT !.row.groups = groups] ELSE a

\* UpdateUser writes the flag and the groups together: as asked for, else as it read them.
FlagOf(r) == IF r.op = "patch" THEN r.old.disabled ELSE r.wish = 1
GroupsOf(r) == IF r.asks THEN r.want ELSE r.old.groups

\* EnsureGroups is part of it: with names it could not resolve Pocket ID refuses.
CreateAccount(a, r) == [a EXCEPT !.up = [NoAccount EXCEPT !.is = TRUE, !.groups = r.old.groups]]

\* POST one-time-access-token: it works until it is redeemed or sixteen minutes are over.
createOneTimeToken(a) == [a EXCEPT !.minted = @ + 1, !.works = @ \cup {a.minted + 1}]

\* Redeeming a link kills it; one that is dead already counts as burned.
ConsumeOneTimeToken(a, codes) == [a EXCEPT !.works = @ \ codes]

\* The user is read whole and put back with the flag changed.
DisableUser(a, flag) == [a EXCEPT !.up.disabled = flag]

SetUserGroups(a, groups) == [a EXCEPT !.up.groups = groups]

listActiveInvitations(a) == {c \in AccCodes : a.ledger[c] = "current"}
supersedeInvitations(a) ==
    [a EXCEPT !.ledger = [c \in AccCodes |-> IF @[c] = "current" THEN "superseded" ELSE @[c]]]
recordInvitation(a, code) == [a EXCEPT !.ledger[code] = "current"]

deleteRecoveryArtifacts(a) == [a EXCEPT !.recoveries = {}]

AccEffect(a, r, step) ==
    CASE step = "insert"     -> InsertUser(a, r)
      [] step = "flag"       -> SetFlag(a, FlagOf(r), GroupsOf(r))
      [] step = "roll_back"  -> SetFlag(a, r.old.disabled, a.row.groups)
      [] step = "disable"    -> IF r.old.linked THEN DisableUser(a, r.wish = 1) ELSE a
      [] step = "supersede"  -> supersedeInvitations(a)
      [] step \in {"burn", "burn_closed"} -> ConsumeOneTimeToken(a, r.seen)
      [] step = "burn_new"   -> ConsumeOneTimeToken(a, {r.code})
      [] step = "forget"     -> deleteRecoveryArtifacts(a)
      [] step = "blocked"    -> IF a.up.is /\ a.up.disabled /\ r.old.linked /\ ~r.old.disabled
                                THEN SetFlag(a, TRUE, a.row.groups) ELSE a
      [] step = "account"    -> CreateAccount(a, r)
      [] step = "mint"       -> createOneTimeToken(a)
      [] step = "link"       -> IF a.row.is THEN [a EXCEPT !.row.linked = TRUE] ELSE a
      [] step = "record"     -> recordInvitation(a, r.code)
      [] step = "persist"    -> [a EXCEPT !.recoveries = @ \cup {r.code}]
      [] step = "put_groups" -> SetUserGroups(a, r.wish)
      [] step = "groups"     -> SetGroups(a, r.old.groups)
      [] step \in {"drop", "delete"} -> [a EXCEPT !.row = NoUser]
      [] step = "ack"        -> [a EXCEPT !.handed = IF r.code = 0 \/ r.op = "recover" THEN @ ELSE @ \cup {r.code}]
      [] OTHER -> a

\* userLoginBlocked: the flag of the row, else that of Pocket ID.
userLoginBlocked(a, r) == r.old.disabled \/ (r.old.linked /\ a.up.is /\ a.up.disabled)

\* What ends a request without any fault.
AccRefused(a, r, step) ==
    \/ step = "read" /\ ~GetUser(a)
    \/ step \in {"insert", "delete"} /\ (step = "insert" <=> a.row.is)
    \/ step = "blocked" /\ userLoginBlocked(a, r)
    \/ step = "account" /\ a.up.is
    \/ step = "mint" /\ ~a.up.is
    \/ step \in {"put_groups", "read_groups"} /\ ~r.old.linked
    \/ step = "verify" /\ r.old.linked /\ (~a.up.is \/ a.up.disabled # (r.wish = 1))

\* What a request keeps of the answer.
AccRemembers(a, r, step) ==
    CASE step = "insert"      -> [r EXCEPT !.old = [NoUser EXCEPT !.is = TRUE, !.groups = r.wish]]
      [] step = "read"        -> [r EXCEPT !.old = a.row]
      [] step = "list"        -> [r EXCEPT !.seen = listActiveInvitations(a)]
      [] step = "mint"        -> [r EXCEPT !.code = a.minted + 1]
      [] step = "read_groups" -> [r EXCEPT !.old.groups = a.up.groups]
      [] OTHER -> r

\* What follows a call that succeeded.
AccAfter(r, step) ==
    CASE step = "transition" ->
            IF (r.wish = 1) = r.old.disabled THEN Converge(r)
            ELSE IF r.wish = 1 THEN Disable ELSE Enable
      [] step = "which" -> IF r.old.linked THEN NextLink ELSE FirstLink
      [] OTHER -> Tail(r.todo)

\* What follows one that did not: links that could not be burned are noted when
\* the account is being disabled; the row goes back to what it said; the row of
\* a user that could not be created goes; a link that is not in the ledger is burned.
AccAfterFailure(r, step) ==
    CASE step \in {"burn", "link"} -> Tail(r.todo)
      [] step = "blocked" /\ ~r.old.disabled -> Tail(r.todo)
      [] step \in {"disable", "verify"} /\ (r.wish = 1) # r.old.disabled -> <<"roll_back">>
      [] step \in {"account", "mint"} /\ r.op = "create" -> <<"drop">>
      [] step = "record" -> <<"burn_new">>
      [] OTHER -> <<>>

----------------------------------------------------------------------------
(* Requests and their environment *)

Spent(what) == accQuota[what] > 0 /\ accQuota' = [accQuota EXCEPT ![what] = @ - 1]
AccIdle(p) == accReq[p].op = "none"
AccOverlaps(p) == \E q \in AccRequests \ {p} : ~AccIdle(q)

\* A request that begins beside another leaves neither alone, and unsettles what it is about:
\* the flag, the groups the row lists, the groups at Pocket ID.
AccBegin(p, op, wish, asks, want) ==
    /\ AccIdle(p) /\ Spent("requests")
    /\ accReq' = [q \in AccRequests |->
        IF q = p
        THEN [NoRequest EXCEPT !.op = op, !.todo = BodyOf(op), !.wish = wish, !.asks = asks, !.want = want,
                               !.alone = ~AccOverlaps(p)]
        ELSE IF AccIdle(q) THEN NoRequest ELSE [accReq[q] EXCEPT !.alone = FALSE]]
    /\ settled' = [flag |-> IF op \in {"groups", "recover", "patch"} THEN settled.flag ELSE {},
                   listed |-> IF op = "recover" \/ (op \in {"update", "patch"} /\ ~asks)
                              THEN settled.listed ELSE {},
                   groups |-> IF op \in {"update", "patch", "recover"} THEN settled.groups ELSE {}]
    /\ UNCHANGED acc

CreateUser(p) == \E g \in AccGroups : AccBegin(p, "create", g, FALSE, 0)

\* The groups of a PATCH go into the row; Pocket ID is not told of them.
UpdateUser(p) ==
    \/ \E flag \in {0, 1} : AccBegin(p, "update", flag, FALSE, 0)
    \/ \E g \in AccGroups, flag \in {0, 1} : AccBegin(p, "update", flag, TRUE, g)
    \/ \E g \in AccGroups : AccBegin(p, "patch", 0, TRUE, g)
    \/ AccBegin(p, "patch", 0, FALSE, 0)

DeleteUser(p) == AccBegin(p, "delete", 0, FALSE, 0)
IssueUserEnrollment(p) == AccBegin(p, "enroll", 0, FALSE, 0)
ChangeGroups(p) == \E g \in AccGroups : AccBegin(p, "groups", g, FALSE, 0)
CreateUserRecoverySession(p) == AccBegin(p, "recover", 0, FALSE, 0)

\* The request is answered; one that ran alone has settled what it was about.
Settle(r) ==
    settled' = IF ~r.alone THEN settled
               ELSE [flag |-> IF r.op = "update" THEN {r.wish = 1} ELSE settled.flag,
                     listed |-> IF r.op = "groups" THEN {r.wish}
                                ELSE IF r.op \in {"update", "patch"} /\ r.asks THEN {r.want} ELSE settled.listed,
                     groups |-> IF r.op = "groups" THEN {r.wish} ELSE settled.groups]

Goes(p, r, todo) ==
    accReq' = [accReq EXCEPT ![p] = IF todo = <<>> THEN NoRequest ELSE [r EXCEPT !.todo = todo]]

AccStep(p) ==
    /\ ~AccIdle(p) /\ accReq[p].live
    /\ LET r == accReq[p]
           step == Head(r.todo)
       IN  /\ ~AccRefused(acc, r, step)
           /\ step = "mint" => acc.minted < AccMaxCodes
           /\ acc' = AccEffect(acc, r, step)
           /\ Goes(p, AccRemembers(acc, r, step), AccAfter(AccRemembers(acc, r, step), step))
           /\ IF step = "ack" THEN Settle(r) ELSE UNCHANGED settled
    /\ UNCHANGED accQuota

\* The answer of the code itself is no: there is no such row, the name is taken,
\* the account is disabled (which the row then says too), Pocket ID disagrees.
AccRefuse(p) ==
    /\ ~AccIdle(p) /\ accReq[p].live
    /\ LET r == accReq[p]
           step == Head(r.todo)
       IN  /\ AccRefused(acc, r, step)
           /\ acc' = IF step = "blocked" THEN AccEffect(acc, r, step) ELSE acc
           /\ Goes(p, r, IF step = "blocked" THEN <<>> ELSE AccAfterFailure(r, step))
    /\ UNCHANGED <<settled, accQuota>>

PocketCalls == {"disable", "verify", "burn", "burn_closed", "burn_new", "blocked", "account", "mint",
                "put_groups", "read_groups"}

\* A call of Pocket ID fails; under an ended context every call does.
AccFail(p) ==
    /\ ~AccIdle(p)
    /\ IF accReq[p].live THEN Head(accReq[p].todo) \in PocketCalls /\ Spent("faults") ELSE UNCHANGED accQuota
    /\ Goes(p, accReq[p], AccAfterFailure(accReq[p], Head(accReq[p].todo)))
    /\ UNCHANGED <<acc, settled>>

\* Pocket ID did it (of several links: burned some) and the answer is lost.
AccLoseAnswer(p) ==
    /\ ~AccIdle(p) /\ accReq[p].live /\ Head(accReq[p].todo) \in PocketCalls /\ Spent("faults")
    /\ LET r == accReq[p]
           step == Head(r.todo)
       IN  /\ ~AccRefused(acc, r, step)
           /\ step = "mint" => acc.minted < AccMaxCodes
           /\ \E some \in SUBSET r.seen : acc' = AccEffect(acc, [r EXCEPT !.seen = some], step)
           /\ Goes(p, r, AccAfterFailure(r, step))
    /\ UNCHANGED settled

\* Thirty seconds are over, or the caller hung up.
AccRequestEnds(p) ==
    /\ ~AccIdle(p) /\ accReq[p].live /\ Spent("faults")
    /\ accReq' = [accReq EXCEPT ![p].live = FALSE]
    /\ UNCHANGED <<acc, settled>>

AccCrash ==
    /\ \E p \in AccRequests : ~AccIdle(p)
    /\ Spent("faults") /\ accReq' = [p \in AccRequests |-> NoRequest]
    /\ UNCHANGED <<acc, settled>>

\* The person uses a link, or it expires.
LinkDies(c) ==
    /\ c \in acc.works
    /\ acc' = [acc EXCEPT !.works = @ \ {c}]
    /\ UNCHANGED <<accReq, settled, accQuota>>

AccRest ==
    /\ \A p \in AccRequests : AccIdle(p)
    /\ UNCHANGED accVars

AccRequest(p) ==
    \/ CreateUser(p) \/ UpdateUser(p) \/ DeleteUser(p) \/ IssueUserEnrollment(p) \/ ChangeGroups(p)
    \/ CreateUserRecoverySession(p)
    \/ AccStep(p) \/ AccRefuse(p) \/ AccFail(p) \/ AccLoseAnswer(p) \/ AccRequestEnds(p)

AccNext ==
    \/ \E p \in AccRequests : AccRequest(p)
    \/ \E c \in AccCodes : LinkDies(c)
    \/ AccCrash \/ AccRest

AccSpec == AccInit /\ [][AccNext]_accVars

----------------------------------------------------------------------------
(* Properties *)

\* What a request that ran alone was told it did to the account is what the row
\* and Pocket ID say until the next request about it, whatever failed before:
\* "a disabled account cannot redeem any link", "a retried PATCH after a sync
\* outage: converge upstream to the local flag so a previously failed sync heals
\* instead of being skipped forever" (UpdateUser, syncPocketDisabled, SetUserGroups).
\* The groups of a PATCH are the exception: it is acknowledged when the row lists
\* them, and Pocket ID goes on with those it was last told by SetUserGroups.
AckedAccountStands ==
    /\ \A flag \in settled.flag : acc.row.disabled = flag /\ (acc.row.linked => acc.up.disabled = flag)
    /\ \A g \in settled.listed : acc.row.groups = g
    /\ \A g \in settled.groups : acc.up.groups = g

=============================================================================
