--------------------------- MODULE AuthorizedKeys ---------------------------
(***************************************************************************)
(* The SSH keys of the administrator (internal/sshkeys,                    *)
(* internal/controlplane/ssh_keys.go): each edit takes the lock of the     *)
(* directory, reads authorized_keys, writes a temporary file and renames   *)
(* it over the old one.  Requests and the installer edit beside each       *)
(* other and may die at any step.  A line is a key or a text; a line that  *)
(* was removed leaves its place to no line at all, so that the others keep *)
(* theirs.                                                                 *)
(***************************************************************************)
EXTENDS Integers, Sequences

CONSTANTS
  SSHKeys,      \* bound: the fingerprints there are
  Edits,        \* bound: calls of AddSSHKeys and DeleteSSHKey
  FirstFiles,   \* bound: what authorized_keys may hold at first
  KeyDeaths     \* bound: deaths of the process

NoLine == ""

ASSUME KeysAssumption ==
  /\ NoLine \notin SSHKeys
  /\ \A f \in FirstFiles : f \in Seq({f[i] : i \in DOMAIN f})

VARIABLES
  keyFile,      \* the lines of authorized_keys
  keyLock,      \* who holds .authorized_keys.lock
  edits,        \* call -> where it is, what it is for, what it has read, what it answers
  keyDeaths

keyVars == <<keyFile, keyLock, edits, keyDeaths>>

Free == {}
Idle == [step |-> "idle", adds |-> <<>>, removes |-> {}, confirmed |-> FALSE, read |-> <<>>, answer |-> ""]

KeysOf(file) == {file[i] : i \in DOMAIN file} \intersect SSHKeys

KeysInit ==
  /\ keyFile \in FirstFiles /\ keyLock = Free /\ keyDeaths = KeyDeaths
  /\ edits = [e \in Edits |-> Idle]

EditAt(e, s) == edits[e].step = s
EditGoes(e, s) == edits' = [edits EXCEPT ![e].step = s]
Answers(e, answer) == edits' = [edits EXCEPT ![e].step = "unlock", ![e].answer = answer]

\* What may be offered: pasted or of a GitHub account, each key once in each of the two.
Offered == {<<k>> : k \in SSHKeys} \union {<<k, l>> : k, l \in SSHKeys}

\* AddSSHKeys: all that is offered is well formed, or nothing is done
AddSSHKeys(e) ==
  /\ EditAt(e, "idle")
  /\ \/ \E offered \in Offered : edits' = [edits EXCEPT ![e].step = "lock", ![e].adds = offered]
     \/ edits' = [edits EXCEPT ![e].step = "over", ![e].answer = "invalid"]
  /\ UNCHANGED <<keyFile, keyLock, keyDeaths>>

DeleteSSHKey(e) ==
  /\ EditAt(e, "idle")
  /\ \E k \in SSHKeys, confirm \in BOOLEAN : edits' = [edits EXCEPT ![e].step = "lock", ![e].removes = {k}, ![e].confirmed = confirm]
  /\ UNCHANGED <<keyFile, keyLock, keyDeaths>>

\* Mutated form: the lock is taken whoever holds it.
AcquireAnyway(e) == EditAt(e, "lock") /\ keyLock' = {e} /\ EditGoes(e, "read") /\ UNCHANGED <<keyFile, keyDeaths>>

acquireLock(e) == EditAt(e, "lock") /\ keyLock = Free /\ keyLock' = {e} /\ EditGoes(e, "read") /\ UNCHANGED <<keyFile, keyDeaths>>

ReadLines(e) ==
  /\ EditAt(e, "read")
  /\ edits' = [edits EXCEPT ![e].step = IF edits[e].removes = {} THEN "merge" ELSE "remove", ![e].read = keyFile]
  /\ UNCHANGED <<keyFile, keyLock, keyDeaths>>

\* what is in the file, or came earlier in the offer, is not added again
Missing(e) == LET offer == edits[e].adds
              IN {i \in DOMAIN offer : /\ offer[i] \notin KeysOf(edits[e].read)
                                      /\ \A j \in 1 .. i - 1 : offer[j] # offer[i]}
NewKeys(e) == [i \in DOMAIN edits[e].adds |-> IF i \in Missing(e) THEN edits[e].adds[i] ELSE NoLine]

\* the temporary file is synced before it takes the name
EnsureAuthorizedKeysAt(e) ==
  /\ EditAt(e, "merge")
  /\ IF Missing(e) = {} THEN Answers(e, "nothing added")
     ELSE edits' = [edits EXCEPT ![e].step = "rename", ![e].read = @ \o NewKeys(e), ![e].answer = "added"]
  /\ UNCHANGED <<keyFile, keyLock, keyDeaths>>

Without(e) == LET file == edits[e].read
              IN [i \in DOMAIN file |-> IF file[i] \in edits[e].removes THEN NoLine ELSE file[i]]

\* all records of the key go; the last key only if that was confirmed
RemoveAuthorizedKey(e) ==
  /\ EditAt(e, "remove")
  /\ IF KeysOf(edits[e].read) \intersect edits[e].removes = {} THEN Answers(e, "not found")
     ELSE IF KeysOf(edits[e].read) = edits[e].removes /\ ~edits[e].confirmed THEN Answers(e, "confirm the last")
     ELSE edits' = [edits EXCEPT ![e].step = "rename", ![e].read = Without(e), ![e].answer = "removed"]
  /\ UNCHANGED <<keyFile, keyLock, keyDeaths>>

writeAuthorizedKeysAtomic(e) ==
  /\ EditAt(e, "rename")
  /\ keyFile' = edits[e].read
  /\ EditGoes(e, "unlock")
  /\ UNCHANGED <<keyLock, keyDeaths>>

releaseLock(e) == EditAt(e, "unlock") /\ keyLock' = keyLock \ {e} /\ EditGoes(e, "over") /\ UNCHANGED <<keyFile, keyDeaths>>

\* the lock goes with the process; what was not renamed stays aside
KeysCrash ==
  /\ keyDeaths > 0 /\ keyDeaths' = keyDeaths - 1
  /\ keyLock' = Free
  /\ edits' = [e \in Edits |-> IF EditAt(e, "idle") THEN edits[e] ELSE [edits[e] EXCEPT !.step = "over"]]
  /\ UNCHANGED keyFile

KeysNext ==
  \/ KeysCrash
  \/ \E e \in Edits : \/ AddSSHKeys(e) \/ DeleteSSHKey(e) \/ acquireLock(e) \/ ReadLines(e) \/ EnsureAuthorizedKeysAt(e)
                      \/ RemoveAuthorizedKey(e) \/ writeAuthorizedKeysAtomic(e) \/ releaseLock(e)

KeysSpec == KeysInit /\ [][KeysNext]_keyVars

-----------------------------------------------------------------------------
\* The lines that are no keys, each at its place.
OtherLines(file) == {<<i, file[i]>> : i \in {i \in DOMAIN file : file[i] \notin SSHKeys \union {NoLine}}}

\* The administrator is locked out only by a call that was told so, and an edit undoes no
\* other: between any two states of the file, whoever edits beside whom, keys appear only
\* because the edit that is renamed offers them, one disappears only because it removes
\* it, the last one only if it "confirmed"; other lines "are preserved".
AccessStands ==
  [][keyFile' # keyFile =>
       \E e \in Edits :
         /\ EditAt(e, "rename") /\ ~EditAt(e, "rename")'
         /\ KeysOf(keyFile') = (KeysOf(keyFile) \union KeysOf(edits[e].adds)) \ edits[e].removes
         /\ OtherLines(keyFile') = OtherLines(keyFile)
         /\ KeysOf(keyFile') = {} => edits[e].confirmed]_keyVars

=============================================================================
