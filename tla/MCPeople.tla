------------------------------ MODULE MCPeople ------------------------------
(* What belongs to people, for TLC: their devices (Devices), their accounts   *)
(* (Accounts), and what the owner is told of the server's health (Health).    *)
(* A behaviour is about one of the three: they share no table.                *)
EXTENDS Devices, Accounts, Health

VARIABLE part

Asked == [present |-> {"d1"}, codes |-> {}, revoke |-> 1, fetch |-> 0, share |-> 0, env |-> 0,
          outages |-> 1, cuts |-> 1]
MCDevScenarios ==
    {[Asked EXCEPT !.share = 1], [Asked EXCEPT !.revoke = 2],
     [Asked EXCEPT !.share = 1, !.revoke = 2, !.outages = 0],
     [Asked EXCEPT !.present = {"d1", "d2"}, !.revoke = 2, !.outages = 0, !.cuts = 0],
     [Asked EXCEPT !.fetch = 2],
     [Asked EXCEPT !.present = {}, !.codes = {"c"}],
     [Asked EXCEPT !.codes = {"c"}],
     [Asked EXCEPT !.revoke = 0, !.fetch = 3, !.env = 2]}

\* Two requests, beside or after each other, and a fault.
MCAccBudget == {<<2, 1>>}

MCConditions == [state |-> {50, 75, 85, Failed}, backup |-> {0, Failed}]
MCBudget     == [changes |-> 2, deaths |-> 1, lost |-> 1]

MCVars == <<devVars, accVars, healthVars, part>>

\* The parts that do not run have one initial state each.
DevStill == quota.revoke = 1 /\ quota.fetch = 2
AccStill == ~acc.row.is

PeopleInit ==
    /\ DevInit /\ AccInit /\ HealthInit
    /\ part \in {"devices", "account", "health"}
    /\ part # "devices" => DevStill
    /\ part # "account" => AccStill

Emitting(A) == part = "health" /\ A /\ UNCHANGED <<devVars, accVars, part>>

PeopleNext ==
    \/ part = "devices" /\ DevNext /\ UNCHANGED <<accVars, healthVars, part>>
    \/ part = "account" /\ AccNext /\ UNCHANGED <<devVars, healthVars, part>>
    \/ Emitting(HealthNext)

\* No fair action of the devices is enabled in the initial state of another part.
PeopleSpec == /\ PeopleInit /\ [][PeopleNext]_MCVars /\ DevFairness
              /\ WF_MCVars(Emitting(HealthProgress))

=============================================================================
