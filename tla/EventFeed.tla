----------------------------- MODULE EventFeed ------------------------------
(***************************************************************************)
(* What the event inbox promises, without channels, pages or transactions: *)
(* publishing is one step that records at most one event per idempotency   *)
(* key and answers with the recorded event, and only recorded events reach *)
(* a reader.  A desktop shows an event once in the time its notifier       *)
(* remembers it; the forwarder posts an event once.                        *)
(***************************************************************************)
CONSTANTS Publishers, \* calls of Publish; an event is named by the call that
                      \* recorded it
          Key         \* the idempotency key of each call, "" without one

VARIABLES log,     \* events recorded
          answer,  \* what each call answered
          shown,   \* how often the desktop showed each event it remembers
          posted   \* how often each event was posted to ntfy

fvars == <<log, answer, shown, posted>>

FeedInit ==
    /\ log = {}
    /\ answer = [p \in Publishers |-> "none"]
    /\ shown = [p \in Publishers |-> 0]
    /\ posted = [p \in Publishers |-> 0]

Twin(p) == {e \in log : Key[p] # "" /\ Key[e] = Key[p]}

Record(p) ==
    /\ answer[p] = "none"
    /\ \/ \E e \in Twin(p) : answer' = [answer EXCEPT ![p] = e] /\ UNCHANGED log
       \/ /\ Twin(p) = {}
          /\ log' = log \cup {p}
          /\ answer' = [answer EXCEPT ![p] = p]
    /\ UNCHANGED <<shown, posted>>

\* A failed call, or all those a dying daemon had begun.
Refuse(P) ==
    /\ \A p \in P : answer[p] = "none"
    /\ answer' = [p \in Publishers |-> IF p \in P THEN "error" ELSE answer[p]]
    /\ UNCHANGED <<log, shown, posted>>

Show(e) ==
    /\ e \in log /\ shown[e] = 0
    /\ shown' = [shown EXCEPT ![e] = 1]
    /\ UNCHANGED <<log, answer, posted>>

ForgetShown ==
    /\ shown' = [p \in Publishers |-> 0]
    /\ UNCHANGED <<log, answer, posted>>

Post(e) ==
    /\ e \in log /\ posted[e] = 0
    /\ posted' = [posted EXCEPT ![e] = 1]
    /\ UNCHANGED <<log, answer, shown>>

FeedNext ==
    \/ \E p \in Publishers : Record(p) \/ Show(p) \/ Post(p)
    \/ \E P \in SUBSET Publishers : Refuse(P)
    \/ ForgetShown

FeedSpec == FeedInit /\ [][FeedNext]_fvars

=============================================================================
