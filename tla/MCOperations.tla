---------------------------- MODULE MCOperations ----------------------------
(***************************************************************************)
(* The journaled operations of the server for TLC: storage moves (one that *)
(* meets faults, two at once that do not) and a live restore.  The parts   *)
(* share no state; a behaviour is one of a single part, which "part" names. *)
(***************************************************************************)
EXTENDS StorageMigration, LiveRestore, TLC

CONSTANTS o1, o2, photos, files1, d1, d2, immich, paperless

VARIABLE part

\* Move the photos to the first disk or off the disks, each volume to a disk, or
\* the files to the second disk (only where two operations meet).
Moves == {photos :> d1 @@ files1 :> "keep", photos :> "system" @@ files1 :> "keep",
          photos :> d2 @@ files1 :> d1, photos :> "keep" @@ files1 :> d2}

\* The files are on the first disk already.
FilesOnDisk == photos :> "system" @@ files1 :> d1

Apps(ins, des) == [installed |-> ins, desired |-> des]

\* No application row, stopped applications only, and one of two running.
Deployments == {Apps({}, {}), Apps(RestoreBundle, {}), Apps(RestoreBundle, {immich})}
OneRunning  == {Apps(RestoreBundle, {immich})}

-----------------------------------------------------------------------------
MCVars == <<storageVars, restoreVars, part>>

MCInit ==
    /\ part \in {"one move", "two moves", "restore"}
    /\ StorageInit /\ RestoreInit
    /\ part = "restore" \/ deployed = Apps({}, {})

Storing   == StorageNext /\ UNCHANGED <<restoreVars, part>>
Restoring == RestoreNext /\ UNCHANGED <<storageVars, part>>

MCNext ==
    \/ /\ part = "one move" /\ Storing
       /\ UNCHANGED <<journal[o2], exec[o2]>> /\ journal'[o1].target[files1] # d2
    \/ part = "two moves" /\ Storing /\ UNCHANGED storageFaults
    \/ part = "restore" /\ Restoring

MCSpec == MCInit /\ [][MCNext]_MCVars /\ StorageFairness /\ RestoreFairness

\* A journaled operation settles, a storage move and a live restore alike: only
\* one that was killed, or a move in which something failed, may stay as it is.
OperationsSettle == OpsSettle /\ OpSettles

=============================================================================
