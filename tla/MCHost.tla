------------------------------- MODULE MCHost -------------------------------
(***************************************************************************)
(* What outlives the daemon, for TLC: the generations of the host          *)
(* (HostGenerations), with two colliding bundles, one of them with a       *)
(* failing health check, and one that does not build; the recovery phrase  *)
(* and the backup repositories under it (RecoveryKeys); and the restore of *)
(* a whole machine (OfflineRecovery), which is what a new machine runs     *)
(* before anything else.  A behaviour is one of a single part, which       *)
(* "part" names; the parts share no state.                                 *)
(***************************************************************************)
EXTENDS HostGenerations, OfflineRecovery, RecoveryKeys

VARIABLE part

MCBundles == {"a", "b", "c"}
MCCollide == {{"a", "b"}}
MCHostScenarios ==
    {[api |-> 1, cli |-> 1, ops |-> {"o1", "o2"}, upgrades |-> 0, faults |-> 1],
     [api |-> 1, cli |-> 1, ops |-> {}, upgrades |-> 2, faults |-> 2],
     [api |-> 0, cli |-> 0, ops |-> {"o1"}, upgrades |-> 1, faults |-> 1]}
MCSwapFiles  == <<"control.db", "recovery.kit", "master.key">>
MCSelections == {{}, {"pocket-id"}, {"pocket-id", "app", "notes"}}

MCRecoveryBudget == [failures |-> 1, deaths |-> 1, expiries |-> 1]

-----------------------------------------------------------------------------
MCVars == <<hostVars, recVars, recoveryVars, part>>

MCInit ==
    /\ part \in {"generations", "recovery", "phrase"}
    /\ HostInit /\ RecInit /\ RecoveryInit
    /\ part = "generations" \/ hostFaults = 1
    /\ part = "recovery" \/ (selected = {} /\ sourceRows = 0)
    /\ part = "phrase" \/ masterFile.file = "missing"

MCNext ==
    \/ part = "generations" /\ HostNext /\ UNCHANGED <<recVars, recoveryVars, part>>
    \/ part = "recovery" /\ RecNext /\ UNCHANGED <<hostVars, recoveryVars, part>>
    \/ part = "phrase" /\ RecoveryNext /\ UNCHANGED <<hostVars, recVars, part>>

MCSpec == /\ MCInit /\ [][MCNext]_MCVars
          /\ part = "recovery" => RecFairness

\* OfflineRecovery.RecoveryConverges, in the behaviours that are restores.
RestoreConverges == part = "recovery" => RecoveryConverges

=============================================================================
