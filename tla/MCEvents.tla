------------------------------ MODULE MCEvents ------------------------------
(* The event bus, the desktop daemon and the sign-in to a model subscription, *)
(* for TLC.  A behaviour is about one of the three: the desktop's end of the  *)
(* stream is part of Events, and the rest share no state.                     *)
EXTENDS Events, ClientDaemon, ProviderLogins, TLC

CONSTANTS p1, p2, p3

VARIABLE part

\* Two calls with one idempotency key and one without; the texts of the last two agree.
MCKey == p1 :> "k" @@ p2 :> "k" @@ p3 :> ""
MCScenarios == {[calls |-> {p1, p2}, ticks |-> 1, cuts |-> 1],
                [calls |-> {p1, p3}, ticks |-> 1, cuts |-> 1],
                [calls |-> {p1, p2, p3}, ticks |-> 0, cuts |-> 0]}
MCBody == p1 :> "a" @@ p2 :> "b" @@ p3 :> "b"

\* A name goes, then another comes back.
MCToolEnv == <<{"a", "b"}, {"b"}, {"a"}>>
Nothing == [asks |-> {}, changes |-> 0, faults |-> 0, hangs |-> 0, crashes |-> 0, revocations |-> 0,
            upgrades |-> 0, agents |-> 0]
MCCliScenarios ==
    {[Nothing EXCEPT !.changes = 1, !.faults = 1, !.crashes = 1],
     [Nothing EXCEPT !.changes = 2, !.faults = 2],
     [Nothing EXCEPT !.changes = 1, !.hangs = 1, !.agents = 1, !.upgrades = 1],
     [Nothing EXCEPT !.changes = 1, !.faults = 1, !.asks = {"environment.sync"}],
     [Nothing EXCEPT !.changes = 1, !.faults = 1, !.asks = {"environment.clear"}],
     [Nothing EXCEPT !.asks = {"environment.sync", "environment.clear"}],
     [Nothing EXCEPT !.changes = 1, !.hangs = 1, !.asks = {"environment.sync"}],
     [Nothing EXCEPT !.changes = 1, !.revocations = 1],
     [Nothing EXCEPT !.upgrades = 1, !.faults = 1],
     [Nothing EXCEPT !.faults = 1, !.asks = {"project.create", "sync.add"}],
     [Nothing EXCEPT !.faults = 1, !.asks = {"workspace.create", "workspace.stop", "backup.run"}]}

BusVars == <<evars, cliVars, loginAll, part>>

\* A part that does not run has one initial state.
BusInit ==
    /\ Init /\ CliInit /\ LoginInit /\ part \in {"events", "client", "login", "zai"}
    /\ part # "events" => cuts = 0
    /\ part # "client" => cliQuota.upgrades = 1 /\ cliQuota.hangs = 0

OnBus(A) == part = "events" /\ A /\ UNCHANGED <<cliVars, loginAll, part>>
OnDesktop(A) == part = "client" /\ A /\ UNCHANGED <<evars, loginAll, part>>

BusNext ==
    \/ part = "events" /\ Next /\ UNCHANGED <<cliVars, loginAll, part>>
    \/ part = "client" /\ CliNext /\ UNCHANGED <<evars, loginAll, part>>
    \/ part = "login" /\ LoginNext /\ UNCHANGED <<evars, cliVars, part>>
    \/ part = "zai" /\ ZAINext /\ UNCHANGED <<evars, cliVars, part>>

\* Fairness of Events and CliFairness of ClientDaemon, each for the behaviours of its part;
\* no helper runs in the others.
BusFairness ==
    /\ \A p \in Publishers : WF_BusVars(OnBus(Publish(p)))
    /\ \A s \in Slots : WF_BusVars(OnBus(Subscribe(s))) /\ WF_BusVars(OnBus(ReaderEnds(s)))
    /\ WF_BusVars(OnBus(Connect)) /\ WF_BusVars(OnBus(Receive))
    /\ \A p \in Workers : WF_BusVars(OnDesktop(CliStep(p) \/ CliFail(p)))
    /\ WF_BusVars(OnDesktop(Reconcile))

BusSpec == BusInit /\ [][BusNext]_BusVars /\ BusFairness /\ LoginFairness

\* EnvironmentArrives where the desktop daemon runs.
EnvironmentComes == part = "client" => EnvironmentArrives

=============================================================================
