---------------------------- MODULE Clients_proofs ----------------------------
(***************************************************************************)
(* Theorems about what the daemon owes to those who use it: the inbox of   *)
(* events implements the feed, a device that was reported revoked has no   *)
(* credential left, and an account is what a request was told it made of   *)
(* it.  The three components share no state; the run "events" checks the   *)
(* first on an instance and the run "people" the others.                   *)
(***************************************************************************)
EXTENDS Events, Devices, Accounts, TLAPS

-----------------------------------------------------------------------------
(* Sequences: what Append and Tail leave at each place.                     *)

LEMMA AppendPlaces ==
    ASSUME NEW S, NEW q \in Seq(S), NEW e \in S
    PROVE  /\ Append(q, e) \in Seq(S) /\ Len(Append(q, e)) = Len(q) + 1
           /\ \A i \in 1..Len(q) : Append(q, e)[i] = q[i]
           /\ Append(q, e)[Len(q) + 1] = e
OBVIOUS

LEMMA TailPlaces ==
    ASSUME NEW S, NEW q \in Seq(S), q # <<>>
    PROVE  /\ Head(q) \in S /\ Head(q) = q[1] /\ 1 \in 1..Len(q)
           /\ Tail(q) \in Seq(S) /\ Len(Tail(q)) = Len(q) - 1
           /\ \A i \in 1..Len(q) - 1 : Tail(q)[i] = q[i + 1] /\ i + 1 \in 1..Len(q)
OBVIOUS

-----------------------------------------------------------------------------
(* The event inbox.                                                         *)

Subscription ==
    [at : {"free", "join", "page", "push", "wait", "gone"}, since : Publishers \cup {"none"},
     todo : SUBSET Publishers, full : BOOLEAN, q : Seq(Publishers), reading : BOOLEAN,
     ended : BOOLEAN, closed : BOOLEAN]

InboxType ==
    /\ pub \in [Publishers -> [at : {"never", "new", "insert", "cast", "done"},
                               answer : Publishers \cup {"none", "error"}]]
    /\ rows \subseteq Publishers /\ subs \subseteq Slots
    /\ sub \in [Slots -> Subscription]
    /\ conn \in Streams \cup {"none"} /\ lastID \in Publishers \cup {"none"}
    /\ notes.shown \in [Publishers -> Nat] /\ posted \in [Publishers -> Nat]

\* A call has answered nothing before its insertion, and its own event after it.
CallsInv ==
    \A p \in Publishers :
        /\ pub[p].at \in {"never", "new", "insert"} => pub[p].answer = "none"
        /\ pub[p].at = "cast" => pub[p].answer = p /\ p \in rows

\* Only committed events are on their way to a reader.
Durable(r) == r.todo \subseteq rows /\ \A i \in 1..Len(r.q) : r.q[i] \in rows
DurableInv == \A s \in Slots : Durable(sub[s])

\* What the notifier does not remember it has not shown.
NotesInv == \A e \in Publishers : e \notin notes.seen => notes.shown[e] = 0

\* The forwarder never replays; what waits in its channel was broadcast, once, and was not posted.
Waits(f, e) == \E i \in 1..Len(f.q) : f.q[i] = e
PostedOnce(f) ==
    /\ f.at \notin {"page", "push"}
    /\ \A i \in 1..Len(f.q) : pub[f.q[i]].at = "done" /\ posted[f.q[i]] = 0
    /\ \A i, j \in 1..Len(f.q) : f.q[i] = f.q[j] => i = j
ForwarderInv ==
    /\ PostedOnce(sub[Forwarder])
    /\ \A p \in Publishers : pub[p].at # "done" => posted[p] = 0

InboxInv == InboxType /\ CallsInv /\ DurableInv /\ NotesInv /\ ForwarderInv

LEMMA FreeIs == Free \in Subscription /\ Free.q = <<>> /\ Free.todo = {} /\ Free.at = "free"
BY DEF Free, Subscription

LEMMA OpenedIs ==
    ASSUME NEW c \in Publishers \cup {"none"}
    PROVE  /\ Opened(c) \in Subscription /\ Opened(c).q = <<>> /\ Opened(c).todo = {}
           /\ Opened(c).at = IF c = "none" THEN "join" ELSE "page"
<1>1. Free \in Subscription /\ Free.q = <<>> /\ Free.todo = {}
  BY FreeIs
<1>2. Opened(c) = [Free EXCEPT !.at = IF c = "none" THEN "join" ELSE "page", !.since = c, !.reading = TRUE]
  BY DEF Opened
<1> QED
  BY <1>1, <1>2 DEF Subscription

LEMMA InboxStart == Init => InboxInv
<1> SUFFICES ASSUME Init PROVE InboxInv
  OBVIOUS
<1>1. PICK x \in Scenarios : pub = [p \in Publishers |-> [at |-> IF p \in x.calls THEN "new" ELSE "never",
                                                          answer |-> "none"]]
  BY DEF Init
<1>2. sub = [s \in Slots |-> IF s = Forwarder THEN Opened("none") ELSE Free]
  BY DEF Init
<1>3. Free \in Subscription /\ Opened("none") \in Subscription /\ Free.q = <<>> /\ Opened("none").q = <<>>
      /\ Free.todo = {} /\ Opened("none").todo = {} /\ Opened("none").at = "join"
  BY FreeIs, OpenedIs
<1>4. InboxType
  BY <1>1, <1>2, <1>3 DEF Init, InboxType, Slots
<1>5. CallsInv /\ NotesInv
  BY <1>1 DEF Init, CallsInv, NotesInv
<1>6. DurableInv
  BY <1>2, <1>3 DEF DurableInv, Durable
<1>7. ForwarderInv
  BY <1>1, <1>2, <1>3 DEF Init, ForwarderInv, PostedOnce, Slots
<1> QED
  BY <1>4, <1>5, <1>6, <1>7 DEF InboxInv

\* Tidying drops the channel or leaves it, and the page.
LEMMA TidyKeeps ==
    ASSUME NEW r \in Subscription
    PROVE  /\ Tidy(r) \in Subscription /\ Tidy(r).q \in {r.q, <<>>} /\ Tidy(r).todo \in {r.todo, {}}
           /\ Tidy(r).at \in {r.at, "free"}
<1>1. CASE r.at = "gone" /\ ~r.reading
  BY <1>1, FreeIs DEF Tidy
<1>2. CASE ~(r.at = "gone" /\ ~r.reading)
  <2> DEFINE new == [r EXCEPT !.q = IF r.reading /\ ~r.ended THEN @ ELSE <<>>,
                             !.since = IF r.at \in {"page", "push"} THEN @ ELSE "none",
                             !.full = @ /\ r.at = "push"]
  <2>1. Tidy(r) = new
    BY <1>2 DEF Tidy
  <2>2. DOMAIN new = {"at", "since", "todo", "full", "q", "reading", "ended", "closed"}
    BY DEF Subscription
  <2>3. new.q \in {r.q, <<>>} /\ new.todo = r.todo /\ new.at = r.at
    BY DEF Subscription
  <2>4. new.since \in Publishers \cup {"none"} /\ new.reading = r.reading /\ new.ended = r.ended
        /\ new.closed = r.closed /\ new.full \in BOOLEAN
    BY DEF Subscription
  <2>5. <<>> \in Seq(Publishers)
    OBVIOUS
  <2>6. new \in Subscription
    BY <2>2, <2>3, <2>4, <2>5 DEF Subscription
  <2> QED
    BY <2>1, <2>3, <2>6
<1> QED
  BY <1>1, <1>2

LEMMA OfferAdds ==
    ASSUME NEW r \in Subscription, NEW e \in Publishers
    PROVE  /\ Offer(r, e) \in Subscription /\ Offer(r, e).q \in {r.q, Append(r.q, e)}
           /\ Offer(r, e).todo = r.todo /\ Offer(r, e).at = r.at
BY DEF Offer, Subscription

\* A step that only tidies subscriptions keeps what the readers rely on.
Shrinks(r, old) ==
    /\ r \in Subscription /\ r.q \in {old.q, <<>>} /\ r.todo \in {old.todo, {}}
    /\ r.at \in {"page", "push"} => old.at = r.at

LEMMA ShrinkKeeps ==
    ASSUME InboxType, DurableInv, ForwarderInv,
           UNCHANGED <<pub, rows, posted>>,
           sub' \in [Slots -> Subscription],
           \A s \in Slots \ {Forwarder} : sub'[s].q \in {sub[s].q, <<>>} /\ sub'[s].todo \subseteq rows,
           Shrinks(sub'[Forwarder], sub[Forwarder])
    PROVE  DurableInv' /\ ForwarderInv'
<1>0. Forwarder \in Slots /\ \A s \in Slots : sub[s] \in Subscription
  BY DEF Slots, InboxType
<1>1. DurableInv'
  BY <1>0 DEF DurableInv, Durable, Shrinks
<1>2. ForwarderInv'
  BY <1>0 DEF ForwarderInv, PostedOnce, Shrinks
<1> QED
  BY <1>1, <1>2

\* A call that is over stays over.
LEMMA ForwarderStays ==
    ASSUME InboxType, ForwarderInv, sub'[Forwarder] = sub[Forwarder], posted' = posted,
           \A x \in Publishers : pub[x].at = "done" => pub'[x].at = "done"
    PROVE  ForwarderInv'
<1> DEFINE f == sub[Forwarder]
<1>1. f.q \in Seq(Publishers)
  BY DEF InboxType, Slots, Subscription
<1>2. \A i \in 1..Len(f.q) : f.q[i] \in Publishers
  BY <1>1
<1>3. \A i \in 1..Len(f.q) : pub'[f.q[i]].at = "done" /\ posted'[f.q[i]] = 0
  BY <1>2 DEF ForwarderInv, PostedOnce
<1>4. \A x \in Publishers : pub'[x].at # "done" => posted'[x] = 0
  BY DEF ForwarderInv
<1> HIDE DEF f
<1>5. PostedOnce(f)' /\ f' = f
  BY <1>3 DEF ForwarderInv, PostedOnce, f
<1> QED
  BY <1>4, <1>5 DEF ForwarderInv, f

\* A step of the inbox is a step of the feed, or none.
FeedStep == [Feed!FeedNext]_(Feed!fvars)

\* What the publishers do, while the readers stand still.
LEMMA LookupStep ==
    ASSUME InboxInv, NEW p \in Publishers, Lookup(p)
    PROVE  InboxInv' /\ FeedStep
<1> USE DEF InboxInv, Lookup
<1>1. UNCHANGED <<rows, sub, subs, conn, lastID, notes, posted>> /\ pub[p].at = "new" /\ pub[p].answer = "none"
  BY DEF CallsInv
<1>2. CASE ByKey(p) # {}
  <2>1. PICK e \in ByKey(p) : pub' = [pub EXCEPT ![p] = [at |-> "done", answer |-> e]]
    BY <1>2 DEF Answer
  <2>2. e \in rows /\ e \in Publishers /\ Key[p] # "" /\ Key[e] = Key[p]
    BY <2>1 DEF ByKey, InboxType
  <2>3. InboxType' /\ CallsInv' /\ NotesInv' /\ DurableInv'
    BY <1>1, <2>1, <2>2 DEF InboxType, CallsInv, NotesInv, DurableInv, Durable
  <2>4. ForwarderInv'
    <3>1. \A x \in Publishers : pub[x].at = "done" => pub'[x].at = "done"
      BY <2>1 DEF InboxType
    <3> QED
      BY <1>1, <3>1, ForwarderStays
  <2>5. Feed!Record(p)
    <3>1. [q \in Publishers |-> pub'[q].answer] = [[q \in Publishers |-> pub[q].answer] EXCEPT ![p] = e]
      BY <2>1 DEF InboxType
    <3>2. e \in Feed!Twin(p)
      BY <2>2 DEF Feed!Twin
    <3> QED
      BY <1>1, <3>1, <3>2 DEF Feed!Record
  <2> QED
    BY <2>3, <2>4, <2>5 DEF FeedStep, Feed!FeedNext
<1>3. CASE ByKey(p) = {}
  <2>1. pub' = [pub EXCEPT ![p] = [at |-> "insert", answer |-> "none"]]
    BY <1>3 DEF Answer
  <2>2. InboxType' /\ CallsInv' /\ NotesInv' /\ DurableInv'
    BY <1>1, <2>1 DEF InboxType, CallsInv, NotesInv, DurableInv, Durable
  <2>3. ForwarderInv'
    BY <1>1, <2>1 DEF ForwarderInv, PostedOnce, InboxType
  <2>4. UNCHANGED Feed!fvars
    <3>1. [q \in Publishers |-> pub'[q].answer] = [q \in Publishers |-> pub[q].answer]
      BY <1>1, <2>1 DEF InboxType
    <3> QED
      BY <1>1, <3>1 DEF Feed!fvars
  <2> QED
    BY <2>2, <2>3, <2>4 DEF FeedStep
<1> QED
  BY <1>2, <1>3

LEMMA InsertStep ==
    ASSUME InboxInv, NEW p \in Publishers, Insert(p)
    PROVE  InboxInv' /\ FeedStep
<1> USE DEF InboxInv, Insert
<1>1. UNCHANGED <<sub, subs, conn, lastID, notes, posted>> /\ pub[p].at = "insert" /\ pub[p].answer = "none"
  BY DEF CallsInv
<1>2. CASE ByKey(p) # {}
  <2>1. PICK e \in ByKey(p) : pub' = [pub EXCEPT ![p] = [at |-> "done", answer |-> e]] /\ rows' = rows
    BY <1>2 DEF Answer
  <2>2. e \in rows /\ e \in Publishers /\ Key[p] # "" /\ Key[e] = Key[p]
    BY <2>1 DEF ByKey, InboxType
  <2>3. InboxType' /\ CallsInv' /\ NotesInv' /\ DurableInv'
    BY <1>1, <2>1, <2>2 DEF InboxType, CallsInv, NotesInv, DurableInv, Durable
  <2>4. ForwarderInv'
    <3>1. \A x \in Publishers : pub[x].at = "done" => pub'[x].at = "done"
      BY <2>1 DEF InboxType
    <3> QED
      BY <1>1, <3>1, ForwarderStays
  <2>5. Feed!Record(p)
    <3>1. [q \in Publishers |-> pub'[q].answer] = [[q \in Publishers |-> pub[q].answer] EXCEPT ![p] = e]
      BY <2>1 DEF InboxType
    <3>2. e \in Feed!Twin(p)
      BY <2>2 DEF Feed!Twin
    <3> QED
      BY <1>1, <2>1, <3>1, <3>2 DEF Feed!Record
  <2> QED
    BY <2>3, <2>4, <2>5 DEF FeedStep, Feed!FeedNext
<1>3. CASE ByKey(p) = {}
  <2>1. pub' = [pub EXCEPT ![p] = [at |-> "cast", answer |-> p]] /\ rows' = rows \cup {p}
    BY <1>3 DEF Answer
  <2>2. InboxType' /\ CallsInv' /\ NotesInv'
    BY <1>1, <2>1 DEF InboxType, CallsInv, NotesInv
  <2>3. DurableInv'
    BY <1>1, <2>1 DEF DurableInv, Durable
  <2>4. ForwarderInv'
    BY <1>1, <2>1 DEF ForwarderInv, PostedOnce, InboxType
  <2>5. Feed!Record(p)
    <3>1. [q \in Publishers |-> pub'[q].answer] = [[q \in Publishers |-> pub[q].answer] EXCEPT ![p] = p]
      BY <2>1 DEF InboxType
    <3>2. Feed!Twin(p) = {}
      BY <1>3 DEF Feed!Twin, ByKey
    <3> QED
      BY <1>1, <2>1, <3>1, <3>2 DEF Feed!Record
  <2> QED
    BY <2>2, <2>3, <2>4, <2>5 DEF FeedStep, Feed!FeedNext
<1> QED
  BY <1>2, <1>3

LEMMA InsertFailsStep ==
    ASSUME InboxInv, NEW p \in Publishers, InsertFails(p)
    PROVE  InboxInv' /\ FeedStep
<1> USE DEF InboxInv, InsertFails
<1>1. /\ UNCHANGED <<rows, sub, subs, conn, lastID, notes, posted>>
      /\ pub[p].at = "insert" /\ pub[p].answer = "none"
      /\ pub' = [pub EXCEPT ![p] = [at |-> "done", answer |-> "error"]]
  BY DEF CallsInv, Answer
<1>2. InboxType' /\ CallsInv' /\ NotesInv' /\ DurableInv'
  BY <1>1 DEF InboxType, CallsInv, NotesInv, DurableInv, Durable
<1>3. ForwarderInv'
  BY <1>1 DEF ForwarderInv, PostedOnce, InboxType
<1>4. Feed!Refuse({p})
  <2>1. [q \in Publishers |-> pub'[q].answer]
          = [q \in Publishers |-> IF q \in {p} THEN "error" ELSE [x \in Publishers |-> pub[x].answer][q]]
    BY <1>1 DEF InboxType
  <2> QED
    BY <1>1, <2>1 DEF Feed!Refuse
<1> QED
  BY <1>2, <1>3, <1>4 DEF FeedStep, Feed!FeedNext

\* The event goes to the channels of those who are registered, the forwarder's among them.
LEMMA BroadcastStep ==
    ASSUME InboxInv, NEW p \in Publishers, Broadcast(p)
    PROVE  InboxInv' /\ FeedStep
<1> USE DEF InboxInv, Broadcast
<1>1. /\ UNCHANGED <<rows, subs, conn, lastID, notes, posted>>
      /\ pub[p].at = "cast" /\ pub[p].answer = p /\ p \in rows /\ posted[p] = 0
      /\ pub' = [pub EXCEPT ![p] = [at |-> "done", answer |-> p]]
      /\ sub' = [s \in Slots |-> IF s \in subs THEN Offer(sub[s], p) ELSE sub[s]]
  BY DEF CallsInv, Answer, ForwarderInv
<1>2. \A s \in Slots : sub[s] \in Subscription
  BY DEF InboxType
<1>3. \A s \in Slots : /\ sub'[s] \in Subscription /\ sub'[s].q \in {sub[s].q, Append(sub[s].q, p)}
                       /\ sub'[s].todo = sub[s].todo /\ sub'[s].at = sub[s].at
  BY <1>1, <1>2, OfferAdds
<1>4. sub' \in [Slots -> Subscription]
  BY <1>1, <1>3
<1>5. InboxType' /\ CallsInv' /\ NotesInv'
  BY <1>1, <1>4 DEF InboxType, CallsInv, NotesInv
<1>6. DurableInv'
  <2> SUFFICES ASSUME NEW s \in Slots PROVE Durable(sub[s])'
    BY DEF DurableInv
  <2>1. sub[s].q \in Seq(Publishers) /\ Durable(sub[s])
    BY <1>2 DEF Subscription, DurableInv
  <2>2. CASE sub'[s].q = sub[s].q
    BY <1>1, <1>3, <2>1, <2>2 DEF Durable
  <2>3. CASE sub'[s].q = Append(sub[s].q, p)
    <3>1. \A i \in 1..Len(sub'[s].q) : i \in 1..Len(sub[s].q) \/ i = Len(sub[s].q) + 1
      BY <2>1, <2>3, AppendPlaces
    <3>2. \A i \in 1..Len(sub[s].q) : sub'[s].q[i] = sub[s].q[i]
      BY <2>1, <2>3, AppendPlaces
    <3>3. sub'[s].q[Len(sub[s].q) + 1] = p
      BY <2>1, <2>3, AppendPlaces
    <3>4. \A i \in 1..Len(sub'[s].q) : sub'[s].q[i] \in rows'
      BY <1>1, <2>1, <3>1, <3>2, <3>3 DEF Durable
    <3> QED
      BY <1>1, <1>3, <2>1, <3>4 DEF Durable
  <2> QED
    BY <1>3, <2>2, <2>3
<1>7. ForwarderInv'
  <2> DEFINE f == sub[Forwarder]
  <2>0. Forwarder \in Slots /\ f.q \in Seq(Publishers) /\ PostedOnce(f)
    BY <1>2 DEF Slots, Subscription, ForwarderInv
  <2>1. \A i \in 1..Len(f.q) : f.q[i] # p /\ f.q[i] \in Publishers
    BY <1>1, <2>0 DEF PostedOnce
  <2>2. CASE f'.q = f.q
    <3>1. \A i \in 1..Len(f'.q) : pub'[f'.q[i]].at = "done" /\ posted'[f'.q[i]] = 0
      BY <1>1, <2>0, <2>1, <2>2 DEF PostedOnce, InboxType
    <3>2. \A x \in Publishers : pub'[x].at # "done" => posted'[x] = 0
      BY <1>1 DEF InboxType, ForwarderInv
    <3>3. \A i, j \in 1..Len(f'.q) : f'.q[i] = f'.q[j] => i = j
      BY <2>0, <2>2 DEF PostedOnce
    <3> QED
      BY <1>3, <2>0, <3>1, <3>2, <3>3 DEF ForwarderInv, PostedOnce
  <2>3. CASE f'.q = Append(f.q, p)
    <3>1. /\ \A i \in 1..Len(f'.q) : i \in 1..Len(f.q) \/ i = Len(f.q) + 1
          /\ \A i \in 1..Len(f.q) : f'.q[i] = f.q[i]
          /\ f'.q[Len(f.q) + 1] = p
      BY <2>0, <2>3, AppendPlaces
    <3>2. \A i \in 1..Len(f'.q) : pub'[f'.q[i]].at = "done" /\ posted'[f'.q[i]] = 0
      <4> SUFFICES ASSUME NEW i \in 1..Len(f'.q) PROVE pub'[f'.q[i]].at = "done" /\ posted'[f'.q[i]] = 0
        OBVIOUS
      <4>1. pub'[p].at = "done"
        BY <1>1 DEF InboxType
      <4>2. CASE i = Len(f.q) + 1
        BY <1>1, <3>1, <4>1, <4>2
      <4>3. CASE i \in 1..Len(f.q)
        <5>1. f'.q[i] = f.q[i] /\ f.q[i] \in Publishers /\ f.q[i] # p
          BY <2>1, <3>1, <4>3
        <5>2. pub[f.q[i]].at = "done" /\ posted[f.q[i]] = 0
          BY <2>0, <4>3 DEF PostedOnce
        <5>3. pub'[f.q[i]] = pub[f.q[i]]
          BY <1>1, <5>1 DEF InboxType
        <5> QED
          BY <1>1, <5>1, <5>2, <5>3
      <4> QED
        BY <3>1, <4>2, <4>3
    <3>3. \A i, j \in 1..Len(f'.q) : f'.q[i] = f'.q[j] => i = j
      BY <2>0, <2>1, <3>1 DEF PostedOnce
    <3>4. \A x \in Publishers : pub'[x].at # "done" => posted'[x] = 0
      BY <1>1 DEF InboxType, ForwarderInv
    <3> QED
      BY <1>3, <2>0, <3>2, <3>3, <3>4 DEF ForwarderInv, PostedOnce
  <2> QED
    BY <1>3, <2>0, <2>2, <2>3
<1>8. UNCHANGED Feed!fvars
  <2>1. [x \in Publishers |-> pub'[x].answer] = [x \in Publishers |-> pub[x].answer]
    BY <1>1 DEF InboxType
  <2> QED
    BY <1>1, <2>1 DEF Feed!fvars
<1> QED
  BY <1>5, <1>6, <1>7, <1>8 DEF FeedStep

\* What moves subscriptions only is none of the feed's business.
LEMMA StillIsStutter ==
    ASSUME UNCHANGED <<pub, rows, notes, posted>>
    PROVE  FeedStep
BY DEF FeedStep, Feed!fvars

LEMMA ReplayPageStep ==
    ASSUME InboxInv, NEW s \in Slots, ReplayPage(s)
    PROVE  InboxInv' /\ FeedStep
<1> USE DEF InboxInv
<1> DEFINE page == IF sub[s].ended THEN {} ELSE List(sub[s].since)
<1>1. /\ UNCHANGED <<pub, rows, subs, conn, lastID, notes, posted>>
      /\ sub[s].at = "page"
      /\ sub' = [sub EXCEPT ![s].todo = page, ![s].full = Cardinality(page) = PageLimit,
                            ![s].at = IF page = {} THEN "join" ELSE "push"]
  BY DEF ReplayPage
<1>2. page \subseteq rows /\ rows \subseteq Publishers
  BY DEF List, After, InboxType
<1>3. s # Forwarder
  BY <1>1 DEF ForwarderInv, PostedOnce
<1> HIDE DEF page
<1>4. sub[s] \in Subscription
  BY DEF InboxType
<1>5. sub'[s] \in Subscription /\ sub'[s].q = sub[s].q /\ sub'[s].todo = page
  <2> DEFINE new == [sub[s] EXCEPT !.todo = page, !.full = Cardinality(page) = PageLimit,
                                   !.at = IF page = {} THEN "join" ELSE "push"]
  <2>1. sub'[s] = new
    BY <1>1 DEF InboxType
  <2>2. (Cardinality(page) = PageLimit) \in BOOLEAN
    OBVIOUS
  <2>3. new \in Subscription /\ new.q = sub[s].q /\ new.todo = page
    BY <1>2, <1>4, <2>2 DEF Subscription
  <2> QED
    BY <2>1, <2>3
<1>6. sub' \in [Slots -> Subscription] /\ \A x \in Slots \ {s} : sub'[x] = sub[x]
  BY <1>1, <1>5 DEF InboxType
<1>7. Shrinks(sub'[Forwarder], sub[Forwarder])
  BY <1>3, <1>6 DEF Shrinks, InboxType, Slots
<1>8. \A x \in Slots \ {Forwarder} : sub'[x].q \in {sub[x].q, <<>>} /\ sub'[x].todo \subseteq rows
  BY <1>2, <1>5, <1>6 DEF DurableInv, Durable
<1>9. DurableInv' /\ ForwarderInv'
  BY <1>1, <1>6, <1>7, <1>8, ShrinkKeeps
<1>10. InboxType' /\ CallsInv' /\ NotesInv'
  BY <1>1, <1>6 DEF InboxType, CallsInv, NotesInv
<1> QED
  BY <1>1, <1>9, <1>10, StillIsStutter

LEMMA ReplayPushStep ==
    ASSUME InboxInv, NEW s \in Slots, ReplayPush(s)
    PROVE  InboxInv' /\ FeedStep
<1> USE DEF InboxInv
<1>1. /\ UNCHANGED <<pub, rows, subs, conn, lastID, notes, posted>>
      /\ sub[s].at = "push"
  BY DEF ReplayPush
<1>2. PICK e \in sub[s].todo :
          sub' = [sub EXCEPT ![s] = [Offer(sub[s], e) EXCEPT !.todo = @ \ {e}, !.since = e,
                                         !.at = IF sub[s].todo # {e} THEN "push"
                                                ELSE IF sub[s].full THEN "page" ELSE "join"]]
  BY DEF ReplayPush
<1>3. s # Forwarder
  BY <1>1 DEF ForwarderInv, PostedOnce
<1>4. sub[s] \in Subscription /\ e \in rows /\ e \in Publishers
  BY DEF InboxType, DurableInv, Durable
<1>5. /\ sub'[s] \in Subscription /\ sub'[s].q \in {sub[s].q, Append(sub[s].q, e)}
      /\ sub'[s].todo = sub[s].todo \ {e}
  <2> DEFINE o == Offer(sub[s], e)
             new == [o EXCEPT !.todo = @ \ {e}, !.since = e,
                              !.at = IF sub[s].todo # {e} THEN "push" ELSE IF sub[s].full THEN "page" ELSE "join"]
  <2>1. sub'[s] = new
    BY <1>2 DEF InboxType
  <2>2. o \in Subscription /\ o.q \in {sub[s].q, Append(sub[s].q, e)} /\ o.todo = sub[s].todo
    BY <1>4, OfferAdds
  <2> HIDE DEF o
  <2>3. new \in Subscription /\ new.q = o.q /\ new.todo = o.todo \ {e}
    BY <1>4, <2>2 DEF Subscription
  <2> QED
    BY <2>1, <2>2, <2>3
<1>6. sub' \in [Slots -> Subscription] /\ \A x \in Slots \ {s} : sub'[x] = sub[x]
  BY <1>2, <1>5 DEF InboxType
<1>7. DurableInv'
  <2> SUFFICES ASSUME NEW x \in Slots PROVE Durable(sub[x])'
    BY DEF DurableInv
  <2>1. sub[x].q \in Seq(Publishers) /\ Durable(sub[x])
    BY DEF Subscription, DurableInv, InboxType
  <2>2. CASE sub'[x].q = sub[x].q
    BY <1>1, <1>5, <1>6, <2>1, <2>2 DEF Durable
  <2>3. CASE x = s /\ sub'[x].q = Append(sub[x].q, e)
    <3>1. \A i \in 1..Len(sub'[x].q) : i \in 1..Len(sub[x].q) \/ i = Len(sub[x].q) + 1
      BY <1>4, <2>1, <2>3, AppendPlaces
    <3>2. \A i \in 1..Len(sub[x].q) : sub'[x].q[i] = sub[x].q[i]
      BY <1>4, <2>1, <2>3, AppendPlaces
    <3>3. sub'[x].q[Len(sub[x].q) + 1] = e
      BY <1>4, <2>1, <2>3, AppendPlaces
    <3>4. \A i \in 1..Len(sub'[x].q) : sub'[x].q[i] \in rows'
      BY <1>1, <1>4, <2>1, <3>1, <3>2, <3>3 DEF Durable
    <3>5. sub'[x].todo \subseteq rows'
      BY <1>1, <1>5, <2>1, <2>3 DEF Durable
    <3> QED
      BY <3>4, <3>5 DEF Durable
  <2> QED
    BY <1>5, <1>6, <2>2, <2>3
<1>8. ForwarderInv'
  BY <1>1, <1>3, <1>6, ForwarderStays DEF Slots
<1>9. InboxType' /\ CallsInv' /\ NotesInv'
  BY <1>1, <1>6 DEF InboxType, CallsInv, NotesInv
<1> QED
  BY <1>1, <1>7, <1>8, <1>9, StillIsStutter

\* The registration, the end of a goroutine, of a reader and of a connection: records change
\* in their marks and are tidied.
Marked(r, old) == r \in Subscription /\ r.q = old.q /\ r.todo = old.todo

LEMMA MarkedTidy ==
    ASSUME NEW old \in Subscription, NEW r, Marked(r, old), r.at \in {old.at, "wait", "gone"}
    PROVE  Shrinks(Tidy(r), old) /\ Shrinks(r, old)
BY TidyKeeps DEF Marked, Shrinks

\* A step of which every subscription comes out smaller or as it was.
LEMMA AllShrink ==
    ASSUME InboxInv, UNCHANGED <<pub, rows, notes, posted>>,
           subs' \subseteq Slots, conn' \in Streams \cup {"none"}, lastID' \in Publishers \cup {"none"},
           DOMAIN sub' = Slots, sub' = [s \in Slots |-> sub'[s]],
           \A s \in Slots : Shrinks(sub'[s], sub[s])
    PROVE  InboxInv' /\ FeedStep
<1> USE DEF InboxInv
<1>1. sub' \in [Slots -> Subscription]
  BY DEF Shrinks
<1>2. \A x \in Slots \ {Forwarder} : sub'[x].q \in {sub[x].q, <<>>} /\ sub'[x].todo \subseteq rows
  BY DEF DurableInv, Durable, Shrinks
<1>3. DurableInv' /\ ForwarderInv'
  BY <1>1, <1>2, ShrinkKeeps DEF Slots
<1>4. InboxType' /\ CallsInv' /\ NotesInv'
  BY <1>1 DEF InboxType, CallsInv, NotesInv
<1> QED
  BY <1>3, <1>4, StillIsStutter

LEMMA JoinStep ==
    ASSUME InboxInv, NEW s \in Slots, Join(s)
    PROVE  InboxInv' /\ FeedStep
<1> USE DEF InboxInv
<1>1. UNCHANGED <<pub, rows, conn, lastID, notes, posted>>
  BY DEF Join
<1>2. \A x \in Slots : sub[x] \in Subscription
  BY DEF InboxType
<1> DEFINE here == [sub[s] EXCEPT !.at = "wait"]
<1>3. Marked(here, sub[s]) /\ here.at = "wait"
  BY <1>2 DEF Marked, Subscription
<1>4. Shrinks(Tidy(here), sub[s]) /\ Tidy(here) \in Subscription
  BY <1>2, <1>3, MarkedTidy DEF Shrinks
<1> HIDE DEF here
<1>5. \A r \in Subscription : Shrinks([r EXCEPT !.closed = TRUE], r)
  BY DEF Shrinks, Subscription
<1>6. \A x \in Slots : Shrinks(sub[x], sub[x])
  BY <1>2 DEF Shrinks
<1>7. CASE Cardinality(subs) >= MaxSubscribers
  <2>1. PICK v \in subs : /\ sub' = [sub EXCEPT ![s] = Tidy(here), ![v].closed = TRUE]
                          /\ subs' = (subs \ {v}) \cup {s}
    BY <1>7 DEF Join, here
  <2>2. v \in Slots
    BY DEF InboxType
  <2>3. \A x \in Slots : Shrinks(sub'[x], sub[x])
    <3>1. CASE v = s
      <4>1. sub'[s] = [Tidy(here) EXCEPT !.closed = TRUE]
        BY <2>1, <3>1 DEF InboxType
      <4>2. Shrinks(sub'[s], sub[s])
        BY <1>4, <4>1 DEF Shrinks, Subscription
      <4> QED
        BY <1>6, <2>1, <3>1, <4>2 DEF InboxType
    <3>2. CASE v # s
      <4>1. sub'[s] = Tidy(here) /\ sub'[v] = [sub[v] EXCEPT !.closed = TRUE]
        BY <2>1, <2>2, <3>2 DEF InboxType
      <4> QED
        BY <1>2, <1>4, <1>5, <1>6, <2>1, <2>2, <4>1 DEF InboxType
    <3> QED
      BY <3>1, <3>2
  <2> QED
    BY <1>1, <2>1, <2>3, AllShrink DEF InboxType
<1>8. CASE ~(Cardinality(subs) >= MaxSubscribers)
  <2>1. sub' = [sub EXCEPT ![s] = Tidy(here)] /\ subs' = subs \cup {s}
    BY <1>8 DEF Join, here
  <2>2. \A x \in Slots : Shrinks(sub'[x], sub[x])
    BY <1>4, <1>6, <2>1 DEF InboxType
  <2> QED
    BY <1>1, <2>1, <2>2, AllShrink DEF InboxType
<1> QED
  BY <1>7, <1>8

LEMMA LeaveStep ==
    ASSUME InboxInv, NEW s \in Slots, Leave(s)
    PROVE  InboxInv' /\ FeedStep
<1> USE DEF InboxInv
<1> DEFINE here == [sub[s] EXCEPT !.at = "gone", !.closed = @ \/ s \in subs]
<1>1. /\ UNCHANGED <<pub, rows, conn, lastID, notes, posted>>
      /\ sub' = [sub EXCEPT ![s] = Tidy(here)] /\ subs' = subs \ {s}
  BY DEF Leave
<1>2. \A x \in Slots : sub[x] \in Subscription /\ Shrinks(sub[x], sub[x])
  BY DEF InboxType, Shrinks
<1>3. Marked(here, sub[s]) /\ here.at = "gone"
  <2>1. (sub[s].closed \/ s \in subs) \in BOOLEAN
    OBVIOUS
  <2> QED
    BY <1>2, <2>1 DEF Marked, Subscription
<1>4. Shrinks(Tidy(here), sub[s])
  BY <1>2, <1>3, MarkedTidy
<1> HIDE DEF here
<1>5. \A x \in Slots : Shrinks(sub'[x], sub[x])
  BY <1>1, <1>2, <1>4 DEF InboxType
<1> QED
  BY <1>1, <1>5, AllShrink DEF InboxType

LEMMA ReaderEndsStep ==
    ASSUME InboxInv, NEW s \in Slots, ReaderEnds(s)
    PROVE  InboxInv' /\ FeedStep
<1> USE DEF InboxInv
<1> DEFINE here == [sub[s] EXCEPT !.reading = FALSE, !.closed = @ \/ s \in subs, !.ended = @ \/ s \in Streams]
<1>1. /\ UNCHANGED <<pub, rows, lastID, notes, posted>>
      /\ sub' = [sub EXCEPT ![s] = Tidy(here)] /\ subs' = subs \ {s}
      /\ conn' = IF conn = s THEN "none" ELSE conn
  BY DEF ReaderEnds
<1>2. \A x \in Slots : sub[x] \in Subscription /\ Shrinks(sub[x], sub[x])
  BY DEF InboxType, Shrinks
<1>3. Marked(here, sub[s]) /\ here.at = sub[s].at
  <2>1. (sub[s].closed \/ s \in subs) \in BOOLEAN /\ (sub[s].ended \/ s \in Streams) \in BOOLEAN
    OBVIOUS
  <2> QED
    BY <1>2, <2>1 DEF Marked, Subscription
<1>4. Shrinks(Tidy(here), sub[s])
  BY <1>2, <1>3, MarkedTidy
<1> HIDE DEF here
<1>5. \A x \in Slots : Shrinks(sub'[x], sub[x])
  BY <1>1, <1>2, <1>4 DEF InboxType
<1> QED
  BY <1>1, <1>5, AllShrink DEF InboxType

LEMMA CutStep ==
    ASSUME InboxInv, Cut
    PROVE  InboxInv' /\ FeedStep
<1> USE DEF InboxInv
<1> DEFINE here == [sub[conn] EXCEPT !.ended = TRUE]
<1>1. /\ UNCHANGED <<pub, rows, subs, lastID, notes, posted>> /\ conn # "none"
      /\ sub' = [sub EXCEPT ![conn] = Tidy(here)] /\ conn' = "none"
  BY DEF Cut
<1>2. conn \in Slots /\ \A x \in Slots : sub[x] \in Subscription /\ Shrinks(sub[x], sub[x])
  BY <1>1 DEF InboxType, Shrinks, Slots
<1>3. Marked(here, sub[conn]) /\ here.at = sub[conn].at
  BY <1>2 DEF Marked, Subscription
<1>4. Shrinks(Tidy(here), sub[conn])
  BY <1>2, <1>3, MarkedTidy
<1> HIDE DEF here
<1>5. \A x \in Slots : Shrinks(sub'[x], sub[x])
  BY <1>1, <1>2, <1>4 DEF InboxType
<1> QED
  BY <1>1, <1>5, AllShrink DEF InboxType

LEMMA ConnectStep ==
    ASSUME InboxInv, Connect
    PROVE  InboxInv' /\ FeedStep
<1> USE DEF InboxInv
<1>1. /\ UNCHANGED <<pub, rows, subs, lastID, notes, posted>>
      /\ conn' \in Streams /\ conn' \in Slots /\ conn' # Forwarder
      /\ sub' = [sub EXCEPT ![conn'] = Opened(lastID)]
  BY EventsAssumption DEF Connect, Slots
<1>2. Opened(lastID) \in Subscription /\ Opened(lastID).q = <<>> /\ Opened(lastID).todo = {}
  BY OpenedIs DEF InboxType
<1>3. sub' \in [Slots -> Subscription] /\ sub'[Forwarder] = sub[Forwarder]
  BY <1>1, <1>2 DEF InboxType, Slots
<1>4. \A x \in Slots \ {Forwarder} : sub'[x].q \in {sub[x].q, <<>>} /\ sub'[x].todo \subseteq rows
  BY <1>1, <1>2 DEF InboxType, DurableInv, Durable
<1>5. DurableInv' /\ ForwarderInv'
  BY <1>1, <1>3, <1>4, ShrinkKeeps DEF Shrinks, InboxType, Slots
<1>6. InboxType' /\ CallsInv' /\ NotesInv'
  BY <1>1, <1>3 DEF InboxType, CallsInv, NotesInv
<1> QED
  BY <1>1, <1>5, <1>6, StillIsStutter

LEMMA QueueSet ==
    ASSUME NEW r \in Subscription, NEW t \in Seq(Publishers)
    PROVE  /\ [r EXCEPT !.q = t] \in Subscription /\ [r EXCEPT !.q = t].q = t
           /\ [r EXCEPT !.q = t].todo = r.todo /\ [r EXCEPT !.q = t].at = r.at
BY DEF Subscription

\* The head of a channel is read.
LEMMA TakeKeeps ==
    ASSUME InboxInv, NEW s \in Slots, sub[s].q # <<>>, sub' = [sub EXCEPT ![s].q = Tail(@)], rows' = rows
    PROVE  /\ Head(sub[s].q) \in rows /\ Head(sub[s].q) = sub[s].q[1] /\ 1 \in 1..Len(sub[s].q)
           /\ sub' \in [Slots -> Subscription] /\ DurableInv'
           /\ sub'[s].q = Tail(sub[s].q) /\ sub'[s].at = sub[s].at
           /\ \A x \in Slots \ {s} : sub'[x] = sub[x]
<1> USE DEF InboxInv
<1>1. sub[s] \in Subscription /\ sub[s].q \in Seq(Publishers) /\ Durable(sub[s])
  BY DEF InboxType, Subscription, DurableInv
<1>2. Tail(sub[s].q) \in Seq(Publishers)
  BY <1>1, TailPlaces
<1>3. sub'[s] = [sub[s] EXCEPT !.q = Tail(sub[s].q)] /\ \A x \in Slots \ {s} : sub'[x] = sub[x]
  BY DEF InboxType
<1>4. sub'[s] \in Subscription /\ sub'[s].q = Tail(sub[s].q) /\ sub'[s].todo = sub[s].todo /\ sub'[s].at = sub[s].at
  <2> DEFINE new == [sub[s] EXCEPT !.q = Tail(sub[s].q)]
  <2>1. new \in Subscription /\ new.q = Tail(sub[s].q) /\ new.todo = sub[s].todo /\ new.at = sub[s].at
    BY <1>1, <1>2, QueueSet
  <2>2. sub'[s] = new
    BY <1>3
  <2> HIDE DEF new
  <2> QED
    BY <2>1, <2>2
<1>5. sub' \in [Slots -> Subscription]
  BY <1>3, <1>4 DEF InboxType
<1>6. Head(sub[s].q) \in rows /\ Head(sub[s].q) = sub[s].q[1] /\ 1 \in 1..Len(sub[s].q)
  BY <1>1, TailPlaces DEF Durable
<1>7. Durable(sub[s])'
  <2>1. \A i \in 1..Len(sub'[s].q) : sub'[s].q[i] = sub[s].q[i + 1] /\ i + 1 \in 1..Len(sub[s].q)
    <3>1. /\ Len(Tail(sub[s].q)) = Len(sub[s].q) - 1
          /\ \A i \in 1..Len(sub[s].q) - 1 : Tail(sub[s].q)[i] = sub[s].q[i + 1] /\ i + 1 \in 1..Len(sub[s].q)
      BY <1>1, TailPlaces
    <3> QED
      BY <1>4, <3>1
  <2> QED
    BY <1>1, <1>4, <2>1 DEF Durable
<1>8. DurableInv'
  BY <1>3, <1>7 DEF DurableInv, Durable
<1> QED
  BY <1>3, <1>4, <1>5, <1>6, <1>8

LEMMA ReceiveStep ==
    ASSUME InboxInv, Receive
    PROVE  InboxInv' /\ FeedStep
<1> USE DEF InboxInv
<1> DEFINE e == Head(sub[conn].q)
<1>1. /\ UNCHANGED <<pub, rows, subs, conn, posted>> /\ conn # "none" /\ sub[conn].q # <<>>
      /\ sub' = [sub EXCEPT ![conn].q = Tail(@)]
      /\ IF Carried(e) THEN lastID' = e /\ notes' = Notify(e) ELSE UNCHANGED <<lastID, notes>>
  BY DEF Receive, HandleCompanionEvent
<1>2. conn \in Slots /\ conn # Forwarder /\ Forwarder \in Slots
  BY <1>1, EventsAssumption DEF InboxType, Slots
<1>3. /\ e \in rows /\ sub' \in [Slots -> Subscription] /\ DurableInv'
      /\ sub'[Forwarder] = sub[Forwarder]
  BY <1>1, <1>2, TakeKeeps
<1>4. e \in Publishers
  BY <1>3 DEF InboxType
<1> HIDE DEF e
<1>5. ForwarderInv' /\ CallsInv'
  BY <1>1, <1>3, ForwarderStays DEF CallsInv
<1>6. CASE notes'.shown = notes.shown /\ (\A x \in Publishers : x \in notes.seen => x \in notes'.seen)
  <2>1. InboxType' /\ NotesInv'
    BY <1>1, <1>3, <1>4, <1>6 DEF InboxType, NotesInv
  <2>2. UNCHANGED Feed!fvars
    BY <1>1, <1>6 DEF Feed!fvars
  <2> QED
    BY <1>3, <1>5, <2>1, <2>2 DEF FeedStep
<1>7. CASE /\ notes'.shown = [notes.shown EXCEPT ![e] = @ + 1] /\ e \notin notes.seen
           /\ notes'.seen = notes.seen \cup {e}
  <2>1. notes.shown[e] = 0 /\ notes'.shown = [notes.shown EXCEPT ![e] = 1]
    BY <1>4, <1>7 DEF NotesInv, InboxType
  <2>2. InboxType' /\ NotesInv'
    BY <1>1, <1>3, <1>4, <1>7, <2>1 DEF InboxType, NotesInv
  <2>3. Feed!Show(e)
    BY <1>1, <1>3, <2>1 DEF Feed!Show
  <2> QED
    BY <1>3, <1>4, <1>5, <2>2, <2>3 DEF FeedStep, Feed!FeedNext
<1>8. CASE Carried(e)
  <2>1. notes' = Notify(e)
    BY <1>1, <1>8
  <2>2. CASE e \in Alerts /\ e \notin notes.seen /\ Body[e] \notin notes.bodies /\ notes.sent < RateLimit
    <3>1. notes'.seen = notes.seen \cup {e} /\ notes'.shown = [notes.shown EXCEPT ![e] = @ + 1]
      BY <2>1, <2>2 DEF Notify
    <3> QED
      BY <1>7, <2>2, <3>1
  <2>3. CASE ~(e \in Alerts /\ e \notin notes.seen /\ Body[e] \notin notes.bodies /\ notes.sent < RateLimit)
    <3>1. notes'.shown = notes.shown /\ notes'.seen \in {notes.seen, notes.seen \cup {e}}
      BY <2>1, <2>3 DEF Notify
    <3> QED
      BY <1>6, <3>1
  <2> QED
    BY <2>2, <2>3
<1>9. CASE ~Carried(e)
  BY <1>1, <1>6, <1>9
<1> QED
  BY <1>8, <1>9

LEMMA PassStep ==
    ASSUME InboxInv, NEW span, Pass(span)
    PROVE  InboxInv' /\ FeedStep
<1> USE DEF InboxInv
<1>1. /\ UNCHANGED <<pub, rows, sub, subs, conn, lastID, posted>>
      /\ notes' = [seen |-> IF span = "half" THEN {} ELSE notes.seen,
                   bodies |-> IF span = "minute" THEN notes.bodies ELSE {}, sent |-> 0,
                   shown |-> IF span = "half" THEN [p \in Publishers |-> 0] ELSE notes.shown]
  BY DEF Pass
<1>2. InboxType' /\ CallsInv' /\ DurableInv' /\ NotesInv'
  BY <1>1 DEF InboxType, CallsInv, DurableInv, Durable, NotesInv
<1>3. ForwarderInv'
  BY <1>1, ForwarderStays
<1>4. CASE span = "half"
  <2>1. notes'.shown = [p \in Publishers |-> 0]
    BY <1>1, <1>4
  <2> QED
    BY <1>1, <1>2, <1>3, <2>1 DEF FeedStep, Feed!FeedNext, Feed!ForgetShown
<1>5. CASE span # "half"
  <2>1. notes'.shown = notes.shown
    BY <1>1, <1>5
  <2> QED
    BY <1>1, <1>2, <1>3, <2>1 DEF FeedStep, Feed!fvars
<1> QED
  BY <1>4, <1>5

LEMMA ForwardStep ==
    ASSUME InboxInv, Forward
    PROVE  InboxInv' /\ FeedStep
<1> USE DEF InboxInv
<1> DEFINE f == sub[Forwarder]
           e == Head(f.q)
<1>1. /\ UNCHANGED <<pub, rows, subs, conn, lastID, notes>> /\ f.q # <<>>
      /\ sub' = [sub EXCEPT ![Forwarder].q = Tail(@)]
      /\ posted' = [posted EXCEPT ![e] = @ + 1] \/ UNCHANGED posted
  BY DEF Forward
<1>2. Forwarder \in Slots /\ f.q \in Seq(Publishers) /\ PostedOnce(f)
  BY DEF InboxType, Slots, Subscription, ForwarderInv
<1>3. /\ e \in rows /\ e = f.q[1] /\ 1 \in 1..Len(f.q) /\ sub' \in [Slots -> Subscription] /\ DurableInv'
      /\ f'.q = Tail(f.q) /\ f'.at = f.at
  BY <1>1, <1>2, TakeKeeps
<1>4. e \in Publishers /\ posted[e] = 0 /\ pub[e].at = "done"
  BY <1>2, <1>3 DEF InboxType, PostedOnce
<1>5. \A i \in 1..Len(f'.q) : i + 1 \in 1..Len(f.q) /\ f'.q[i] = f.q[i + 1]
  BY <1>1, <1>2, <1>3, TailPlaces
<1> HIDE DEF e
<1>6. \A x \in Publishers : x # e => posted'[x] = posted[x]
  BY <1>1, <1>4 DEF InboxType
<1>7. PostedOnce(f)'
  <2>1. \A i \in 1..Len(f'.q) : f.q[i + 1] # e /\ f.q[i + 1] \in Publishers
    BY <1>2, <1>3, <1>5 DEF PostedOnce
  <2>2. \A i \in 1..Len(f'.q) : pub'[f'.q[i]].at = "done" /\ posted'[f'.q[i]] = 0
    BY <1>1, <1>2, <1>5, <1>6, <2>1 DEF PostedOnce
  <2>3. \A i, j \in 1..Len(f'.q) : f'.q[i] = f'.q[j] => i = j
    BY <1>2, <1>5 DEF PostedOnce
  <2> QED
    BY <1>2, <1>3, <2>2, <2>3 DEF PostedOnce
<1>8. ForwarderInv'
  BY <1>1, <1>4, <1>6, <1>7 DEF ForwarderInv
<1>9. InboxType' /\ CallsInv' /\ NotesInv'
  <2>1. posted' \in [Publishers -> Nat]
    <3>1. CASE posted' = posted
      BY <3>1 DEF InboxType
    <3>2. CASE posted' = [posted EXCEPT ![e] = @ + 1]
      BY <1>4, <3>2 DEF InboxType
    <3> QED
      BY <1>1, <3>1, <3>2
  <2> QED
    BY <1>1, <1>3, <2>1 DEF InboxType, CallsInv, NotesInv
<1>10. CASE posted' = [posted EXCEPT ![e] = @ + 1]
  <2>1. posted' = [posted EXCEPT ![e] = 1]
    BY <1>4, <1>10 DEF InboxType
  <2>2. Feed!Post(e)
    BY <1>1, <1>3, <1>4, <2>1 DEF Feed!Post
  <2> QED
    BY <1>3, <1>4, <1>8, <1>9, <2>2 DEF FeedStep, Feed!FeedNext
<1>11. CASE posted' = posted
  BY <1>1, <1>3, <1>8, <1>9, <1>11 DEF FeedStep, Feed!fvars
<1> QED
  BY <1>1, <1>10, <1>11

\* The calls of a dying daemon are refused at once; what they committed is answered nowhere else.
LEMMA CrashStep ==
    ASSUME InboxInv, Crash
    PROVE  InboxInv' /\ FeedStep
<1> USE DEF InboxInv
<1>1. /\ UNCHANGED <<rows, lastID, notes, posted>> /\ subs' = {} /\ conn' = "none"
      /\ sub' = [s \in Slots |-> IF s = Forwarder THEN Opened("none") ELSE Free]
      /\ pub' = [p \in Publishers |->
                    CASE pub[p].at = "insert" -> [at |-> "done", answer |-> "error"]
                      [] pub[p].at = "cast" -> [pub[p] EXCEPT !.at = "done"]
                      [] OTHER -> pub[p]]
  BY DEF Crash
<1>2. \A p \in Publishers :
         /\ pub[p].at = "insert" => pub'[p] = [at |-> "done", answer |-> "error"] /\ pub[p].answer = "none"
         /\ pub[p].at = "cast" => pub'[p].at = "done" /\ pub'[p].answer = pub[p].answer /\ pub'[p] = [pub[p] EXCEPT !.at = "done"]
         /\ pub[p].at \notin {"insert", "cast"} => pub'[p] = pub[p]
  BY <1>1 DEF InboxType, CallsInv
<1>3. sub' \in [Slots -> Subscription] /\ \A s \in Slots : sub'[s].q = <<>> /\ sub'[s].todo = {}
  BY <1>1, FreeIs, OpenedIs
<1>4. sub'[Forwarder].at = "join" /\ sub'[Forwarder].q = <<>>
  BY <1>1, OpenedIs DEF Slots
<1>5. InboxType'
  <2>1. pub' \in [Publishers -> [at : {"never", "new", "insert", "cast", "done"}, answer : Publishers \cup {"none", "error"}]]
    BY <1>1, <1>2 DEF InboxType
  <2> QED
    BY <1>1, <1>3, <2>1 DEF InboxType
<1>6. CallsInv' /\ NotesInv' /\ DurableInv'
  BY <1>1, <1>2, <1>3 DEF InboxType, CallsInv, NotesInv, DurableInv, Durable
<1>7. ForwarderInv'
  <2>1. PostedOnce(sub[Forwarder])'
    BY <1>4 DEF PostedOnce
  <2>2. \A p \in Publishers : pub'[p].at # "done" => posted'[p] = 0
    BY <1>1, <1>2 DEF ForwarderInv
  <2> QED
    BY <2>1, <2>2 DEF ForwarderInv
<1> DEFINE P == {p \in Publishers : pub[p].at = "insert"}
<1>8. P \in SUBSET Publishers /\ \A p \in Publishers : p \in P <=> pub[p].at = "insert"
  OBVIOUS
<1> HIDE DEF P
<1>9. Feed!Refuse(P)
  <2>1. \A p \in P : [q \in Publishers |-> pub[q].answer][p] = "none"
    BY <1>2, <1>8
  <2>2. \A q \in Publishers : pub'[q].answer = IF q \in P THEN "error" ELSE pub[q].answer
    <3> TAKE q \in Publishers
    <3>1. pub'[q].answer = IF pub[q].at = "insert" THEN "error" ELSE pub[q].answer
      <4>1. CASE pub[q].at = "insert"
        <5>1. pub'[q] = [at |-> "done", answer |-> "error"]
          BY <1>2, <4>1
        <5> QED
          BY <4>1, <5>1
      <4>2. CASE pub[q].at = "cast"
        BY <1>2, <4>2
      <4>3. CASE pub[q].at \notin {"insert", "cast"}
        BY <1>2, <4>3
      <4> QED
        BY <4>1, <4>2, <4>3
    <3> QED
      BY <1>8, <3>1
  <2>3. [q \in Publishers |-> pub'[q].answer]
          = [q \in Publishers |-> IF q \in P THEN "error" ELSE [x \in Publishers |-> pub[x].answer][q]]
    BY <2>2
  <2> QED
    BY <1>1, <2>1, <2>3 DEF Feed!Refuse
<1>10. Feed!FeedNext
  <2>1. \E Q \in SUBSET Publishers : Feed!Refuse(Q)
    BY <1>8, <1>9 DEF Feed!Refuse
  <2> QED
    BY <2>1 DEF Feed!FeedNext
<1> QED
  BY <1>5, <1>6, <1>7, <1>10 DEF FeedStep

LEMMA InboxSteps == InboxInv /\ [Next]_evars => InboxInv' /\ FeedStep
<1> SUFFICES ASSUME InboxInv, [Next]_evars PROVE InboxInv' /\ FeedStep
  OBVIOUS
<1>1. CASE UNCHANGED evars
  BY <1>1, StillIsStutter DEF evars, InboxInv, InboxType, CallsInv, DurableInv, Durable, NotesInv,
        ForwarderInv, PostedOnce
<1>2. CASE Next
  BY <1>2, LookupStep, InsertStep, InsertFailsStep, BroadcastStep, ReplayPageStep, ReplayPushStep,
     JoinStep,
     LeaveStep, ReaderEndsStep, ForwardStep, ConnectStep, ReceiveStep, CutStep, CrashStep, PassStep
  DEF Next, Publish, Subscribe
<1> QED
  BY <1>1, <1>2

\* Service.Publish, Subscribe, Forwarder.Run and the desktop's loop: with any number of callers
\* and readers, channels and pages of any length, broken connections and deaths, the inbox is the
\* abstract feed: one event per idempotency key, nothing is seen before it is durable, an event
\* that comes twice is shown once and posted once.
THEOREM ImplementsFeedHolds == Spec => ImplementsFeed
<1>1. Init => Feed!FeedInit
  BY DEF Init, Feed!FeedInit
<1> QED
  BY <1>1, InboxStart, InboxSteps, PTL DEF Spec, ImplementsFeed, Feed!FeedSpec, FeedStep

-----------------------------------------------------------------------------
(* Accounts: beside any request, the row and the pair at Pocket ID are what  *)
(* was settled, or the request knows that it does not run alone.             *)

AccOps == {"none", "create", "update", "patch", "delete", "enroll", "groups", "recover"}
AccCalls ==
    {"read", "flag", "transition", "ack", "disable", "verify", "list", "supersede", "burn", "forget",
     "blocked", "which", "account", "mint", "link", "record", "burn_closed", "insert", "put_groups", "read_groups",
     "groups", "persist", "delete", "roll_back", "drop", "burn_new"}
AccGroupSets == AccGroups \cup {0, 1}
AccRow == [is : BOOLEAN, disabled : BOOLEAN, groups : AccGroupSets, linked : BOOLEAN]
AccUp == [is : BOOLEAN, disabled : BOOLEAN, groups : AccGroupSets]
AccState ==
    [row : AccRow, up : AccUp, minted : 0..AccMaxCodes, works : SUBSET AccCodes,
     handed : SUBSET AccCodes, ledger : [AccCodes -> {"none", "current", "superseded"}],
     recoveries : SUBSET (0..AccMaxCodes)]
AccRequestType ==
    [op : AccOps, todo : Seq(AccCalls), wish : AccGroupSets, asks : BOOLEAN, want : AccGroupSets, old : AccRow,
     seen : SUBSET AccCodes, code : 0..AccMaxCodes, live : BOOLEAN, alone : BOOLEAN]
AccSettled == [flag : SUBSET BOOLEAN, listed : SUBSET AccGroupSets, groups : SUBSET AccGroupSets]

AccType ==
    /\ acc \in AccState
    /\ accReq \in [AccRequests -> AccRequestType]
    /\ settled \in AccSettled

\* What is left to do of a request about the flag, the groups or the recovery.
UpdateTodos ==
    {UserUpdate, <<"flag", "transition">>, <<"transition">>, Disable,
     <<"supersede", "burn", "disable", "verify", "forget", "ack">>,
     <<"burn", "disable", "verify", "forget", "ack">>, <<"disable", "verify", "forget", "ack">>,
     <<"verify", "forget", "ack">>, <<"forget", "ack">>, Enable, <<"verify", "ack">>, <<"ack">>,
     <<"roll_back">>}
PatchTodos == {UserPatch, <<"flag", "ack">>, <<"ack">>}
GroupsTodos ==
    {GroupChange, <<"put_groups", "read_groups", "groups", "ack">>, <<"read_groups", "groups", "ack">>,
     <<"groups", "ack">>, <<"ack">>}
RecoverTodos ==
    {RecoverySession, <<"blocked", "mint", "persist", "ack">>, <<"mint", "persist", "ack">>,
     <<"persist", "ack">>, <<"ack">>}
TodoIs(op, todo) ==
    /\ op = "update" => todo \in UpdateTodos
    /\ op = "patch" => todo \in PatchTodos
    /\ op = "groups" => todo \in GroupsTodos
    /\ op = "recover" => todo \in RecoverTodos

LEMMA UpdateGoesOn ==
    ASSUME NEW r \in AccRequestType, r.op = "update", r.todo \in UpdateTodos,
           NEW step, step = Head(r.todo), NEW t, t = AccAfter(r, step)
    PROVE  /\ step \in {"read", "flag", "transition", "list", "supersede", "burn", "disable", "verify",
                        "forget", "ack", "roll_back"}
           /\ t \in UpdateTodos \cup {<<>>}
           /\ t # <<>> => Head(t) \notin {"read", "roll_back"}
           /\ (t # <<>> /\ Head(t) \in {"forget", "ack"}) => step \in {"verify", "forget"}
           /\ (t # <<>> /\ Head(t) = "flag") <=> step = "read"
           /\ step \in {"ack", "roll_back"} => t = <<>>
<1> USE DEF UpdateTodos, UserUpdate, Disable, Enable, AccAfter, Converge
<1>1. CASE r.todo = UserUpdate
  BY <1>1
<1>2. CASE r.todo = <<"flag", "transition">>
  BY <1>2
<1>3. CASE r.todo = <<"transition">>
  <2>1. step = "transition"
    BY <1>3
  <2>2. t = Converge(r) \/ t = Disable \/ t = Enable
    BY <2>1
  <2> HIDE DEF AccAfter
  <2>3. CASE t = Disable
    BY <2>1, <2>3
  <2>4. CASE t = Enable
    BY <2>1, <2>4
  <2>5. Converge(r) = Enable
    OBVIOUS
  <2> QED
    BY <2>2, <2>3, <2>4, <2>5
<1>4. CASE r.todo = Disable
  BY <1>4
<1>5. CASE r.todo = <<"supersede", "burn", "disable", "verify", "forget", "ack">>
  BY <1>5
<1>6. CASE r.todo = <<"burn", "disable", "verify", "forget", "ack">>
  BY <1>6
<1>7. CASE r.todo = <<"disable", "verify", "forget", "ack">>
  BY <1>7
<1>8. CASE r.todo = <<"verify", "forget", "ack">>
  BY <1>8
<1>9. CASE r.todo = <<"forget", "ack">>
  BY <1>9
<1>10. CASE r.todo = Enable
  BY <1>10
<1>11. CASE r.todo = <<"verify", "ack">>
  BY <1>11
<1>12. CASE r.todo = <<"ack">>
  BY <1>12
<1>13. CASE r.todo = <<"roll_back">>
  BY <1>13
<1> QED
  BY <1>1, <1>2, <1>3, <1>4, <1>5, <1>6, <1>7, <1>8, <1>9, <1>10, <1>11, <1>12, <1>13

LEMMA UpdateGoesBack ==
    ASSUME NEW r \in AccRequestType, r.op = "update", r.todo \in UpdateTodos,
           NEW step, step = Head(r.todo), NEW t, t = AccAfterFailure(r, step)
    PROVE  \/ t = <<>>
           \/ t = <<"roll_back">> /\ step \in {"disable", "verify"}
           \/ t = <<"disable", "verify", "forget", "ack">> /\ step = "burn"
<1>1. CASE r.todo = <<"burn", "disable", "verify", "forget", "ack">>
  BY <1>1 DEF AccAfterFailure
<1>2. CASE step # "burn"
  <2>1. step \notin {"link", "blocked", "account", "mint", "record"}
    BY UpdateGoesOn
  <2> QED
    BY <1>2, <2>1 DEF AccAfterFailure
<1>3. step = "burn" => r.todo = <<"burn", "disable", "verify", "forget", "ack">>
  BY DEF UpdateTodos, UserUpdate, Disable, Enable
<1> QED
  BY <1>1, <1>2, <1>3

LEMMA PatchGoesOn ==
    ASSUME NEW r \in AccRequestType, r.op = "patch", r.todo \in PatchTodos,
           NEW step, step = Head(r.todo), NEW t, t = AccAfter(r, step)
    PROVE  /\ step \in {"read", "flag", "ack"}
           /\ t \in PatchTodos \cup {<<>>}
           /\ t # <<>> => Head(t) # "read"
           /\ (t # <<>> /\ Head(t) = "flag") <=> step = "read"
           /\ (t # <<>> /\ Head(t) = "ack") => step = "flag"
           /\ step = "ack" => t = <<>>
           /\ AccAfterFailure(r, step) = <<>>
<1> USE DEF PatchTodos, UserPatch, AccAfter, AccAfterFailure
<1>1. CASE r.todo = UserPatch
  BY <1>1
<1>2. CASE r.todo = <<"flag", "ack">>
  BY <1>2
<1>3. CASE r.todo = <<"ack">>
  BY <1>3
<1> QED
  BY <1>1, <1>2, <1>3

LEMMA GroupsGoOn ==
    ASSUME NEW r \in AccRequestType, r.op = "groups", r.todo \in GroupsTodos,
           NEW step, step = Head(r.todo), NEW t, t = AccAfter(r, step)
    PROVE  /\ step \in {"read", "put_groups", "read_groups", "groups", "ack"}
           /\ t \in GroupsTodos \cup {<<>>}
           /\ t # <<>> => Head(t) # "read"
           /\ (t # <<>> /\ Head(t) = "put_groups") => step = "read"
           /\ (t # <<>> /\ Head(t) = "read_groups") => step = "put_groups"
           /\ (t # <<>> /\ Head(t) = "groups") => step = "read_groups"
           /\ (t # <<>> /\ Head(t) = "ack") => step = "groups"
           /\ step = "ack" => t = <<>>
           /\ AccAfterFailure(r, step) = <<>>
<1> USE DEF GroupsTodos, GroupChange, AccAfter, AccAfterFailure
<1>1. CASE r.todo = GroupChange
  BY <1>1
<1>2. CASE r.todo = <<"put_groups", "read_groups", "groups", "ack">>
  BY <1>2
<1>3. CASE r.todo = <<"read_groups", "groups", "ack">>
  BY <1>3
<1>4. CASE r.todo = <<"groups", "ack">>
  BY <1>4
<1>5. CASE r.todo = <<"ack">>
  BY <1>5
<1> QED
  BY <1>1, <1>2, <1>3, <1>4, <1>5

LEMMA RecoveryGoesOn ==
    ASSUME NEW r \in AccRequestType, r.op = "recover", r.todo \in RecoverTodos,
           NEW step, step = Head(r.todo), NEW t, t = AccAfter(r, step)
    PROVE  /\ step \in {"read", "blocked", "mint", "persist", "ack"}
           /\ t \in RecoverTodos \cup {<<>>}
           /\ t # <<>> => Head(t) # "read"
           /\ step = "ack" => t = <<>>
           /\ AccAfterFailure(r, step) \in RecoverTodos \cup {<<>>}
           /\ AccAfterFailure(r, step) # <<>> => step # "read" /\ Head(AccAfterFailure(r, step)) # "read"
<1> USE DEF RecoverTodos, RecoverySession, AccAfter, AccAfterFailure
<1>1. CASE r.todo = RecoverySession
  BY <1>1
<1>2. CASE r.todo = <<"blocked", "mint", "persist", "ack">>
  BY <1>2
<1>3. CASE r.todo = <<"mint", "persist", "ack">>
  BY <1>3
<1>4. CASE r.todo = <<"persist", "ack">>
  BY <1>4
<1>5. CASE r.todo = <<"ack">>
  BY <1>5
<1> QED
  BY <1>1, <1>2, <1>3, <1>4, <1>5

LEMMA BodyStart ==
    ASSUME NEW op \in AccOps \ {"none"}
    PROVE  BodyOf(op) \in Seq(AccCalls) /\ BodyOf(op) # <<>> /\ TodoIs(op, BodyOf(op))
           /\ (op \in {"update", "patch", "groups", "recover"} => Head(BodyOf(op)) = "read")
<1> USE DEF BodyOf, AccCalls, TodoIs, UpdateTodos, PatchTodos, GroupsTodos, RecoverTodos
<1>1. CASE op = "update"
  BY <1>1 DEF UserUpdate
<1>2. CASE op = "enroll"
  BY <1>2 DEF Enrollment
<1>3. CASE op = "create"
  BY <1>3 DEF NewUser
<1>4. CASE op = "groups"
  BY <1>4 DEF GroupChange
<1>5. CASE op = "recover"
  BY <1>5 DEF RecoverySession
<1>6. CASE op = "delete"
  BY <1>6 DEF Deletion
<1>7. CASE op = "patch"
  BY <1>7 DEF UserPatch
<1> QED
  BY <1>1, <1>2, <1>3, <1>4, <1>5, <1>6, <1>7 DEF AccOps

LEMMA TodoTypes ==
    ASSUME NEW r \in AccRequestType, r.todo # <<>>, NEW step, step = Head(r.todo)
    PROVE  /\ step \in AccCalls /\ AccAfter(r, step) \in Seq(AccCalls)
           /\ AccAfterFailure(r, step) \in Seq(AccCalls)
<1>1. r.todo \in Seq(AccCalls)
  BY DEF AccRequestType
<1>2. step \in AccCalls /\ Tail(r.todo) \in Seq(AccCalls)
  BY <1>1
<1>3. Converge(r) \in Seq(AccCalls) /\ Disable \in Seq(AccCalls) /\ Enable \in Seq(AccCalls)
      /\ NextLink \in Seq(AccCalls) /\ FirstLink \in Seq(AccCalls)
  BY DEF Converge, Disable, Enable, NextLink, FirstLink, AccCalls
<1>4. <<"roll_back">> \in Seq(AccCalls) /\ <<"drop">> \in Seq(AccCalls) /\ <<"burn_new">> \in Seq(AccCalls)
      /\ <<>> \in Seq(AccCalls)
  BY DEF AccCalls
<1>5. AccAfter(r, step) \in Seq(AccCalls)
  BY <1>2, <1>3 DEF AccAfter
<1>6. AccAfterFailure(r, step) \in Seq(AccCalls)
  BY <1>2, <1>4 DEF AccAfterFailure
<1> QED
  BY <1>2, <1>5, <1>6

LEMMA RowSet ==
    ASSUME NEW a \in AccState, NEW row \in AccRow, NEW b, b = [a EXCEPT !.row = row]
    PROVE  b \in AccState /\ b.row = row /\ b.up = a.up
BY DEF AccState
LEMMA UpSet ==
    ASSUME NEW a \in AccState, NEW up \in AccUp, NEW b, b = [a EXCEPT !.up = up]
    PROVE  b \in AccState /\ b.up = up /\ b.row = a.row
BY DEF AccState
LEMMA FlagSet ==
    ASSUME NEW row \in AccRow, NEW f \in BOOLEAN, NEW g \in AccGroupSets
    PROVE  /\ [row EXCEPT !.disabled = f] \in AccRow /\ [row EXCEPT !.linked = f] \in AccRow
           /\ [row EXCEPT !.disabled = f, !.groups = g] \in AccRow /\ [row EXCEPT !.groups = g] \in AccRow
           /\ [row EXCEPT !.disabled = f, !.groups = row.groups] = [row EXCEPT !.disabled = f]
<1>1. [row EXCEPT !.disabled = f] \in AccRow /\ [row EXCEPT !.linked = f] \in AccRow
  BY DEF AccRow
<1>2. [row EXCEPT !.groups = g] \in AccRow
  BY DEF AccRow
<1>3. [row EXCEPT !.disabled = f, !.groups = g] \in AccRow
  BY DEF AccRow
<1>4. [row EXCEPT !.disabled = f, !.groups = row.groups] = [row EXCEPT !.disabled = f]
  BY DEF AccRow
<1> QED
  BY <1>1, <1>2, <1>3, <1>4
FlagIs(a, b, f, g) ==
    /\ b \in AccState /\ b.up = a.up
    /\ b.row = IF a.row.is THEN [a.row EXCEPT !.disabled = f, !.groups = g] ELSE a.row
LEMMA SetFlagIs ==
    ASSUME NEW a \in AccState, NEW f \in BOOLEAN, NEW g \in AccGroupSets, NEW b, b = SetFlag(a, f, g)
    PROVE  FlagIs(a, b, f, g)
<1> USE DEF FlagIs
<1> DEFINE row == [a.row EXCEPT !.disabled = f, !.groups = g]
<1>1. row \in AccRow
  BY FlagSet DEF AccState
<1>2. [a EXCEPT !.row.disabled = f, !.row.groups = g] = [a EXCEPT !.row = row]
  BY DEF AccState, AccRow
<1> HIDE DEF row
<1>3. a.row.is => b = [a EXCEPT !.row = row]
  BY <1>2 DEF SetFlag
<1>4. ~a.row.is => b = a
  BY DEF SetFlag
<1>5. CASE a.row.is
  BY <1>1, <1>3, <1>5, RowSet DEF row
<1>6. CASE ~a.row.is
  BY <1>4, <1>6
<1> QED
  BY <1>5, <1>6

\* What a call changes of the row and of Pocket ID, by the call.
EffectIs(a, r, step, b) ==
    /\ b \in AccState
    /\ step \notin {"insert", "flag", "roll_back", "blocked", "link", "groups", "drop", "delete"}
           => b.row = a.row
    /\ step \notin {"disable", "account", "put_groups"} => b.up = a.up
    /\ step = "flag" =>
        b.row = IF a.row.is THEN [a.row EXCEPT !.disabled = FlagOf(r), !.groups = GroupsOf(r)] ELSE a.row
    /\ step = "roll_back" => b.row = IF a.row.is THEN [a.row EXCEPT !.disabled = r.old.disabled] ELSE a.row
    /\ step = "blocked" => \/ b.row = a.row
                           \/ b.row = [a.row EXCEPT !.disabled = TRUE] /\ a.up.disabled /\ r.old.linked
    /\ step = "disable" => b.up = a.up \/ b.up = [a.up EXCEPT !.disabled = (r.wish = 1)]
    /\ step = "put_groups" => b.up = [a.up EXCEPT !.groups = r.wish]
    /\ step = "groups" => b.row = IF a.row.is THEN [a.row EXCEPT !.groups = r.old.groups] ELSE a.row

LEMMA EffectOf ==
    ASSUME NEW a \in AccState, NEW r \in AccRequestType, NEW step \in AccCalls,
           step = "mint" => a.minted < AccMaxCodes, AccMaxCodes \in Nat,
           NEW b, b = AccEffect(a, r, step)
    PROVE  EffectIs(a, r, step, b)
<1> USE DEF EffectIs
<1>1. CASE step \in {"read", "transition", "verify", "list", "which", "read_groups"}
  BY <1>1 DEF AccRow, AccUp, AccGroupSets, AccEffect, AccState, AccRequestType
<1>2. CASE step = "insert"
  BY <1>2 DEF AccRow, AccUp, AccGroupSets, AccEffect, AccState, AccRequestType, InsertUser, NoUser
<1>3. CASE step = "flag"
  <2>1. b = SetFlag(a, FlagOf(r), GroupsOf(r))
    BY <1>3 DEF AccEffect
  <2>2. PICK f \in BOOLEAN : f = FlagOf(r)
    BY DEF FlagOf, AccRow, AccRequestType
  <2>3. b = SetFlag(a, f, GroupsOf(r)) /\ GroupsOf(r) \in AccGroupSets
    BY <2>1, <2>2 DEF GroupsOf, AccRow, AccRequestType
  <2>4. FlagIs(a, b, f, GroupsOf(r))
    BY <2>3, SetFlagIs
  <2> QED
    BY <1>3, <2>2, <2>4 DEF FlagIs
<1>4. CASE step = "roll_back"
  <2>1. b = SetFlag(a, r.old.disabled, a.row.groups)
    BY <1>4 DEF AccEffect
  <2>2. r.old.disabled \in BOOLEAN /\ a.row \in AccRow /\ a.row.groups \in AccGroupSets
    BY DEF AccRow, AccState, AccRequestType
  <2>3. [a.row EXCEPT !.disabled = r.old.disabled, !.groups = a.row.groups]
           = [a.row EXCEPT !.disabled = r.old.disabled]
    BY <2>2, FlagSet
  <2> QED
    <3>1. PICK f \in BOOLEAN : f = r.old.disabled
      BY <2>2
    <3>2. PICK g \in AccGroupSets : g = a.row.groups
      BY <2>2
    <3>3. b = SetFlag(a, f, g)
      BY <2>1, <3>1, <3>2
    <3>4. FlagIs(a, b, f, g)
      BY <3>3, SetFlagIs
    <3> QED
      BY <1>4, <2>3, <3>1, <3>2, <3>4 DEF FlagIs
<1>5. CASE step = "disable"
  <2> DEFINE up == [a.up EXCEPT !.disabled = (r.wish = 1)]
  <2>1. up \in AccUp
    BY DEF AccState, AccUp
  <2>2. DisableUser(a, r.wish = 1) = [a EXCEPT !.up = up]
    BY DEF DisableUser
  <2>3. b = a \/ b = [a EXCEPT !.up = up]
    BY <1>5, <2>2 DEF AccEffect
  <2> HIDE DEF up
  <2>4. b \in AccState /\ b.row = a.row /\ (b.up = a.up \/ b.up = up)
    BY <2>1, <2>3, UpSet
  <2> QED
    BY <1>5, <2>4 DEF up
<1>6. CASE step = "supersede"
  BY <1>6 DEF AccRow, AccUp, AccGroupSets, AccEffect, AccState, AccRequestType, supersedeInvitations
<1>7. CASE step \in {"burn", "burn_closed", "burn_new"}
  BY <1>7 DEF AccRow, AccUp, AccGroupSets, AccEffect, AccState, AccRequestType, ConsumeOneTimeToken
<1>8. CASE step = "forget"
  BY <1>8 DEF AccRow, AccUp, AccGroupSets, AccEffect, AccState, AccRequestType, deleteRecoveryArtifacts
<1>9. CASE step = "blocked"
  <2>1. b = a \/ (b = SetFlag(a, TRUE, a.row.groups) /\ a.up.disabled /\ r.old.linked)
    <3>1. CASE a.up.is /\ a.up.disabled /\ r.old.linked /\ ~r.old.disabled
      BY <1>9, <3>1 DEF AccEffect
    <3>2. CASE ~(a.up.is /\ a.up.disabled /\ r.old.linked /\ ~r.old.disabled)
      BY <1>9, <3>2 DEF AccEffect
    <3> QED
      BY <3>1, <3>2
  <2>2. a.row \in AccRow /\ a.row.groups \in AccGroupSets
    BY DEF AccRow, AccState, AccRequestType
  <2>3. [a.row EXCEPT !.disabled = TRUE, !.groups = a.row.groups] = [a.row EXCEPT !.disabled = TRUE]
    BY <2>2, FlagSet
  <2> QED
    <3>1. CASE b = a
      BY <1>9, <3>1
    <3>2. CASE b = SetFlag(a, TRUE, a.row.groups) /\ a.up.disabled /\ r.old.linked
      <4>1. FlagIs(a, b, TRUE, a.row.groups)
        BY <2>2, <3>2, SetFlagIs
      <4>2. b \in AccState /\ b.up = a.up /\ (b.row = a.row \/ b.row = [a.row EXCEPT !.disabled = TRUE])
        BY <2>3, <4>1 DEF FlagIs
      <4> QED
        BY <1>9, <3>2, <4>2
    <3> QED
      BY <2>1, <3>1, <3>2
<1>10. CASE step = "account"
  BY <1>10 DEF AccRow, AccUp, AccGroupSets, AccEffect, AccState, AccRequestType, CreateAccount,
     NoAccount
<1>11. CASE step = "mint"
  <2>1. b = [a EXCEPT !.minted = a.minted + 1, !.works = a.works \cup {a.minted + 1}]
    BY <1>11 DEF createOneTimeToken, AccEffect
  <2>2. a.minted + 1 \in AccCodes /\ a.minted + 1 \in 0..AccMaxCodes
    BY <1>11 DEF AccCodes, AccState
  <2> DEFINE k == a.minted + 1
  <2> HIDE DEF k
  <2>4. k \in AccCodes /\ k \in 0..AccMaxCodes /\ b = [a EXCEPT !.minted = k, !.works = a.works \cup {k}]
    BY <2>1, <2>2 DEF k
  <2>5. PICK w \in SUBSET AccCodes : w = a.works \cup {k}
    BY <2>4 DEF AccState
  <2>6. b = [a EXCEPT !.minted = k, !.works = w]
    BY <2>4, <2>5
  <2>3. b \in AccState /\ b.row = a.row /\ b.up = a.up
    BY <2>4, <2>6 DEF AccState
  <2> QED
    BY <1>11, <2>3
<1>12. CASE step = "link"
  <2> DEFINE row == [a.row EXCEPT !.linked = TRUE]
  <2>1. row \in AccRow
    BY DEF AccState, AccRow
  <2>2. b = a \/ b = [a EXCEPT !.row = row]
    BY <1>12 DEF AccEffect
  <2> HIDE DEF row
  <2> QED
    BY <1>12, <2>1, <2>2, RowSet
<1>13. CASE step = "record"
  BY <1>13 DEF AccRow, AccUp, AccGroupSets, AccEffect, AccState, AccRequestType, recordInvitation
<1>14. CASE step = "persist"
  BY <1>14 DEF AccRow, AccUp, AccGroupSets, AccEffect, AccState, AccRequestType
<1>15. CASE step = "put_groups"
  BY <1>15 DEF AccRow, AccUp, AccGroupSets, AccEffect, AccState, AccRequestType, SetUserGroups
<1>16. CASE step = "groups"
  <2> DEFINE row == [a.row EXCEPT !.groups = r.old.groups]
  <2>1. row \in AccRow
    BY FlagSet DEF AccState, AccRow, AccRequestType
  <2>2. b = IF a.row.is THEN [a EXCEPT !.row = row] ELSE a
    BY <1>16 DEF SetGroups, AccEffect
  <2> HIDE DEF row
  <2> QED
    BY <1>16, <2>1, <2>2, RowSet DEF row
<1>17. CASE step \in {"drop", "delete"}
  BY <1>17 DEF AccRow, AccUp, AccGroupSets, AccEffect, AccState, AccRequestType, NoUser
<1>18. CASE step = "ack"
  <2>1. PICK links \in SUBSET AccCodes : b = [a EXCEPT !.handed = links]
    <3>1. a.handed \in SUBSET AccCodes /\ (r.code = 0 \/ a.handed \cup {r.code} \in SUBSET AccCodes)
      BY DEF AccState, AccRequestType, AccCodes
    <3>2. b = [a EXCEPT !.handed = IF r.code = 0 \/ r.op = "recover" THEN a.handed
                                   ELSE a.handed \cup {r.code}]
      BY <1>18 DEF AccEffect
    <3> QED
      BY <3>1, <3>2
  <2>2. b \in AccState /\ b.row = a.row /\ b.up = a.up
    BY <2>1 DEF AccState
  <2> QED
    BY <1>18, <2>2
<1> QED
  BY <1>1, <1>2, <1>3, <1>4, <1>5, <1>6, <1>7, <1>8, <1>9, <1>10, <1>11, <1>12, <1>13, <1>14, <1>15,
     <1>16, <1>17, <1>18 DEF AccCalls

LEMMA SeenSet ==
    ASSUME NEW r \in AccRequestType, NEW c \in SUBSET AccCodes, NEW q, q = [r EXCEPT !.seen = c]
    PROVE  /\ q \in AccRequestType /\ q.op = r.op /\ q.todo = r.todo /\ q.wish = r.wish /\ q.old = r.old
           /\ q.alone = r.alone /\ q.asks = r.asks /\ q.want = r.want
BY DEF AccRequestType
LEMMA TodoSet ==
    ASSUME NEW r \in AccRequestType, NEW t \in Seq(AccCalls), NEW q, q = [r EXCEPT !.todo = t]
    PROVE  /\ q \in AccRequestType /\ q.op = r.op /\ q.todo = t /\ q.wish = r.wish /\ q.old = r.old
           /\ q.alone = r.alone /\ q.asks = r.asks /\ q.want = r.want
BY DEF AccRequestType

\* What a request remembers of the answer to a call.
Remembered(a, r, step, q) ==
    /\ q \in AccRequestType /\ q.op = r.op /\ q.todo = r.todo /\ q.wish = r.wish /\ q.alone = r.alone
    /\ q.asks = r.asks /\ q.want = r.want
    /\ step = "read" => q.old = a.row
    /\ step = "read_groups" => q.old = [r.old EXCEPT !.groups = a.up.groups]
    /\ step \notin {"insert", "read", "read_groups"} => q.old = r.old

LEMMA RemembersOf ==
    ASSUME NEW a \in AccState, NEW r \in AccRequestType, NEW step \in AccCalls,
           step = "mint" => a.minted < AccMaxCodes, AccMaxCodes \in Nat,
           NEW q, q = AccRemembers(a, r, step)
    PROVE  Remembered(a, r, step, q)
<1> USE DEF Remembered
<1>1. CASE step = "insert"
  <2> DEFINE old == [NoUser EXCEPT !.is = TRUE, !.groups = r.wish]
  <2>1. old \in AccRow
    BY DEF AccRow, NoUser, AccRequestType
  <2>2. q = [r EXCEPT !.old = old]
    BY <1>1 DEF AccRemembers
  <2> HIDE DEF old
  <2> QED
    BY <1>1, <2>1, <2>2 DEF AccRequestType
<1>2. CASE step = "read"
  BY <1>2 DEF AccRemembers, AccRequestType, AccState
<1>3. CASE step = "list"
  <2>1. PICK c \in SUBSET AccCodes : c = listActiveInvitations(a)
    BY DEF listActiveInvitations
  <2>2. q = [r EXCEPT !.seen = c]
    BY <1>3, <2>1 DEF AccRemembers
  <2> QED
    BY <1>3, <2>2, SeenSet
<1>4. CASE step = "mint"
  <2>1. PICK k \in 0..AccMaxCodes : k = a.minted + 1
    BY <1>4 DEF AccState
  <2>2. q = [r EXCEPT !.code = k]
    BY <1>4, <2>1 DEF AccRemembers
  <2> QED
    BY <1>4, <2>2 DEF AccRequestType
<1>5. CASE step = "read_groups"
  <2> DEFINE old == [r.old EXCEPT !.groups = a.up.groups]
  <2>1. old \in AccRow
    BY DEF AccRow, AccRequestType, AccState, AccUp
  <2>2. q = [r EXCEPT !.old = old]
    BY <1>5 DEF AccRemembers
  <2> HIDE DEF old
  <2>3. /\ q \in AccRequestType /\ q.op = r.op /\ q.todo = r.todo /\ q.wish = r.wish /\ q.alone = r.alone
        /\ q.old = old /\ q.asks = r.asks /\ q.want = r.want
    BY <2>1, <2>2 DEF AccRequestType
  <2> QED
    BY <1>5, <2>3 DEF old
<1>6. CASE step \notin {"insert", "read", "list", "mint", "read_groups"}
  BY <1>6 DEF AccRemembers
<1> QED
  BY <1>1, <1>2, <1>3, <1>4, <1>5, <1>6

\* What a request may be while another one's word stands.
Beside(a, r, s) ==
    /\ s.flag # {} =>
        /\ r.op \in {"none", "groups", "recover", "patch"}
        /\ (r.op = "recover" /\ Head(r.todo) # "read" /\ r.old.linked) => a.row.linked
        /\ (r.op = "patch" /\ Head(r.todo) # "read") => r.old.disabled = a.row.disabled
    /\ s.listed # {} =>
        /\ r.op \in {"none", "update", "patch", "recover"}
        /\ r.op \in {"update", "patch"} => ~r.asks
        /\ (r.op \in {"update", "patch"} /\ Head(r.todo) # "read") => r.old.groups = a.row.groups
    /\ s.groups # {} => r.op \in {"none", "update", "patch", "recover"}

\* What the state is while a request runs alone, by the call it comes to next.
SureOfFlag(a, r, next) ==
    /\ next # "read" => a.row.is /\ r.old.linked = a.row.linked
    /\ next \notin {"read", "flag", "roll_back"} => a.row.disabled = (r.wish = 1)
    /\ (next \in {"forget", "ack"} /\ r.old.linked) => a.up.disabled = (r.wish = 1)
SureOfRow(a, r, next) ==
    /\ next # "read" => a.row.is
    /\ (r.asks /\ next \notin {"read", "flag"}) => a.row.groups = r.want
SureOfGroups(a, r, next) ==
    /\ next # "read" => a.row.is
    /\ next \in {"read_groups", "groups", "ack"} => a.up.groups = r.wish
    /\ next = "groups" => r.old.groups = r.wish
    /\ next = "ack" => a.row.groups = r.wish
Sure(a, r) ==
    r.alone => /\ r.op = "update" => SureOfFlag(a, r, Head(r.todo))
               /\ r.op \in {"update", "patch"} => SureOfRow(a, r, Head(r.todo))
               /\ r.op = "groups" => SureOfGroups(a, r, Head(r.todo))

Stands(a, s) ==
    /\ \A flag \in s.flag : a.row.disabled = flag /\ (a.row.linked => a.up.disabled = flag)
    /\ \A g \in s.listed : a.row.groups = g
    /\ \A g \in s.groups : a.up.groups = g

AccHolds ==
    /\ \A p \in AccRequests :
        /\ AccIdle(p) \/ (accReq[p].todo # <<>> /\ TodoIs(accReq[p].op, accReq[p].todo))
        /\ Beside(acc, accReq[p], settled)
        /\ Sure(acc, accReq[p])
        /\ ~AccIdle(p) /\ accReq[p].alone => ~AccOverlaps(p)
    /\ Stands(acc, settled)
AccInv == AccType /\ AccHolds

\* A request went from r to n, its call made b of a and s2 of s.
Keeps(a, r, s, b, n, s2) ==
    /\ b \in AccState /\ s2 \in AccSettled /\ Stands(b, s2)
    /\ n \in AccRequestType /\ (n.op # "none" => n.todo # <<>> /\ TodoIs(n.op, n.todo) /\ n.alone = r.alone)
    /\ Beside(b, n, s2) /\ Sure(b, n)
    /\ s.flag # {} => b.row.linked = a.row.linked /\ b.row.disabled = a.row.disabled
    /\ s.listed # {} => b.row.groups = a.row.groups
    /\ s2 = s \/ r.alone

\* What is settled once the call is made: the last call of a request that runs alone settles its wish.
ListedBy(s, r) ==
    IF r.op = "groups" THEN {r.wish}
    ELSE IF r.op \in {"update", "patch"} /\ r.asks THEN {r.want} ELSE s.listed
SettledBy(s, r, step) ==
    IF step = "ack" /\ r.alone
    THEN [flag |-> IF r.op = "update" THEN {r.wish = 1} ELSE s.flag,
          listed |-> ListedBy(s, r),
          groups |-> IF r.op = "groups" THEN {r.wish} ELSE s.groups]
    ELSE s

LEMMA NoRequestKeeps ==
    ASSUME NEW a \in AccState, NEW s \in AccSettled, AccMaxCodes \in Nat
    PROVE  /\ NoRequest \in AccRequestType /\ NoRequest.op = "none"
           /\ Beside(a, NoRequest, s) /\ Sure(a, NoRequest)
<1>1. NoUser \in AccRow
  BY DEF NoUser, AccRow, AccGroupSets
<1>2. NoRequest \in AccRequestType /\ NoRequest.op = "none"
  BY <1>1 DEF NoRequest, AccRequestType, AccGroupSets, AccOps
<1>3. Beside(a, NoRequest, s) /\ Sure(a, NoRequest)
  BY <1>2 DEF Beside, Sure
<1> QED
  BY <1>2, <1>3

LEMMA UpdateAdvances ==
    ASSUME NEW a \in AccState, NEW r \in AccRequestType, NEW s \in AccSettled, AccMaxCodes \in Nat,
           r.op = "update", r.todo \in UpdateTodos, r.todo # <<>>,
           Beside(a, r, s), Sure(a, r), Stands(a, s),
           NEW step, step = Head(r.todo), ~AccRefused(a, r, step),
           NEW b, b = AccEffect(a, r, step), NEW q, q = AccRemembers(a, r, step),
           NEW t, t = AccAfter(q, step), NEW n, n = IF t = <<>> THEN NoRequest ELSE [q EXCEPT !.todo = t],
           NEW s2, s2 = SettledBy(s, r, step)
    PROVE  Keeps(a, r, s, b, n, s2)
<1>1. /\ step \in {"read", "flag", "transition", "list", "supersede", "burn", "disable", "verify",
                  "forget", "ack", "roll_back"}
      /\ step \in AccCalls
  BY UpdateGoesOn, TodoTypes
<1>2. /\ q \in AccRequestType /\ q.op = "update" /\ q.todo = r.todo /\ q.wish = r.wish /\ q.alone = r.alone
      /\ q.asks = r.asks /\ q.want = r.want
      /\ step = "read" => q.old = a.row
      /\ step # "read" => q.old = r.old
  <2>1. (step = "mint" => a.minted < AccMaxCodes) /\ step \notin {"insert", "read_groups"}
    BY <1>1
  <2>2. Remembered(a, r, step, q)
    BY <1>1, <2>1, RemembersOf
  <2> QED
    BY <2>1, <2>2 DEF Remembered
<1>3. /\ t \in UpdateTodos \cup {<<>>} /\ t \in Seq(AccCalls)
      /\ t # <<>> => Head(t) \notin {"read", "roll_back"}
      /\ (t # <<>> /\ Head(t) \in {"forget", "ack"}) => step \in {"verify", "forget"}
      /\ (t # <<>> /\ Head(t) = "flag") <=> step = "read"
      /\ step \in {"ack", "roll_back"} => t = <<>>
  BY <1>2, UpdateGoesOn, TodoTypes
<1>4. /\ b \in AccState
      /\ step \notin {"flag", "roll_back"} => b.row = a.row
      /\ step # "disable" => b.up = a.up
      /\ step = "flag" =>
             b.row = IF a.row.is THEN [a.row EXCEPT !.disabled = (r.wish = 1), !.groups = GroupsOf(r)]
                     ELSE a.row
      /\ step = "roll_back" => b.row = IF a.row.is THEN [a.row EXCEPT !.disabled = r.old.disabled] ELSE a.row
      /\ step = "disable" => b.up = a.up \/ b.up = [a.up EXCEPT !.disabled = (r.wish = 1)]
  <2>1. /\ step = "mint" => a.minted < AccMaxCodes
        /\ step \notin {"insert", "blocked", "link", "groups", "drop", "delete", "account", "put_groups"}
    BY <1>1
  <2>2. EffectIs(a, r, step, b)
    BY <1>1, <2>1, EffectOf
  <2>3. FlagOf(r) = (r.wish = 1)
    BY DEF FlagOf
  <2> QED
    BY <2>1, <2>2, <2>3 DEF EffectIs
<1>5. /\ s.flag = {} /\ (s.listed # {} => ~r.asks)
      /\ (s.listed # {} /\ step # "read") => r.old.groups = a.row.groups
  BY DEF Beside
<1>6. a.row \in AccRow /\ a.up \in AccUp /\ r.old \in AccRow
  BY DEF AccState, AccRequestType
<1>7. /\ b.row.linked = a.row.linked /\ b.row.is = a.row.is
      /\ b.up.groups = a.up.groups
      /\ s.listed # {} => b.row.groups = a.row.groups
  BY <1>4, <1>5, <1>6 DEF AccRow, AccUp, GroupsOf
<1>8. step = "verify" => (r.old.linked => a.up.disabled = (r.wish = 1))
  BY DEF AccRefused
<1>9. s2 \in AccSettled
  BY DEF AccSettled, SettledBy, ListedBy, AccRequestType
<1>10. Stands(b, s2)
  <2>1. \A g \in s2.groups : b.up.groups = g
    BY <1>7 DEF Stands, AccSettled, SettledBy
  <2>2. \A g \in s2.listed : b.row.groups = g
    <3>1. CASE step = "ack" /\ r.alone /\ r.asks
      <4>1. a.row.groups = r.want
        BY <3>1 DEF Sure, SureOfRow
      <4> QED
        BY <1>4, <3>1, <4>1 DEF SettledBy, ListedBy
    <3>2. CASE ~(step = "ack" /\ r.alone /\ r.asks)
      <4>1. s2.listed = s.listed
        BY <3>2 DEF SettledBy, ListedBy
      <4> QED
        BY <1>7, <4>1 DEF Stands
    <3> QED
      BY <3>1, <3>2
  <2>3. \A flag \in s2.flag : b.row.disabled = flag /\ (b.row.linked => b.up.disabled = flag)
    <3>1. CASE step = "ack" /\ r.alone
      <4>1. b.row = a.row /\ b.up = a.up
        BY <1>4, <3>1
      <4>2. a.row.disabled = (r.wish = 1) /\ (a.row.linked => a.up.disabled = (r.wish = 1))
        BY <3>1 DEF Sure, SureOfFlag
      <4> QED
        BY <3>1, <4>1, <4>2 DEF SettledBy
    <3>2. CASE ~(step = "ack" /\ r.alone)
      BY <1>5, <3>2 DEF SettledBy
    <3> QED
      BY <3>1, <3>2
  <2> QED
    BY <2>1, <2>2, <2>3 DEF Stands
<1>11. CASE t = <<>>
  BY <1>4, <1>5, <1>7, <1>9, <1>10, <1>11, NoRequestKeeps DEF Keeps, SettledBy
<1>12. CASE t # <<>>
  <2>1. /\ n \in AccRequestType /\ n.op = "update" /\ n.todo = t /\ n.wish = r.wish /\ n.old = q.old
        /\ n.alone = r.alone /\ n.asks = r.asks /\ n.want = r.want
    BY <1>2, <1>3, <1>12, TodoSet
  <2>2. s2 = s
    BY <1>3, <1>12 DEF SettledBy
  <2>3. Beside(b, n, s2)
    BY <1>2, <1>5, <1>7, <2>1, <2>2 DEF Beside
  <2>4. ASSUME r.alone PROVE SureOfFlag(b, n, Head(t))
    <3>1. SureOfFlag(a, r, step)
      BY <2>4 DEF Sure
    <3>2. b.row.is /\ n.old.linked = b.row.linked
      <4>1. CASE step = "read"
        BY <1>2, <1>4, <2>1, <4>1 DEF AccRefused, GetUser
      <4>2. CASE step # "read"
        BY <1>2, <1>7, <2>1, <3>1, <4>2 DEF SureOfFlag
      <4> QED
        BY <4>1, <4>2
    <3>3. step \notin {"read", "roll_back"}  => b.row.disabled = (n.wish = 1)
      <4>1. CASE step = "flag"
        <5>1. a.row.is
          BY <3>1, <4>1 DEF SureOfFlag
        <5> QED
          BY <1>4, <1>6, <2>1, <4>1, <5>1 DEF AccRow
      <4>2. CASE step \notin {"flag", "read", "roll_back"}
        BY <1>4, <2>1, <3>1, <4>2 DEF SureOfFlag
      <4> QED
        BY <4>1, <4>2
    <3>4. (Head(t) \in {"forget", "ack"} /\ n.old.linked) => b.up.disabled = (n.wish = 1)
      BY <1>2, <1>3, <1>4, <1>8, <1>12, <2>1, <3>1 DEF SureOfFlag
    <3> QED
      BY <1>3, <1>12, <3>2, <3>3, <3>4 DEF SureOfFlag
  <2>7. ASSUME r.alone PROVE SureOfRow(b, n, Head(t))
    <3>1. SureOfRow(a, r, step) /\ b.row.is
      BY <2>4, <2>7, <1>3, <1>12 DEF Sure, SureOfFlag
    <3>2. ASSUME r.asks, step # "read" PROVE b.row.groups = r.want
      <4>1. CASE step = "flag"
        BY <1>4, <1>6, <3>1, <3>2, <4>1 DEF SureOfRow, GroupsOf, AccRow
      <4>2. CASE step # "flag"
        <5>1. a.row.groups = r.want /\ (b.row = a.row \/ step = "roll_back")
          BY <1>4, <3>1, <3>2, <4>2 DEF SureOfRow
        <5>2. step # "roll_back"
          BY <1>3, <1>12
        <5> QED
          BY <5>1, <5>2
      <4> QED
        BY <4>1, <4>2
    <3> QED
      BY <1>3, <1>12, <2>1, <3>1, <3>2 DEF SureOfRow
  <2>5. Sure(b, n)
    BY <2>1, <2>4, <2>7 DEF Sure
  <2>6. TodoIs(n.op, n.todo)
    BY <1>3, <1>12, <2>1 DEF TodoIs
  <2> QED
    BY <1>4, <1>5, <1>7, <1>9, <1>10, <1>12, <2>1, <2>2, <2>3, <2>5, <2>6 DEF Keeps
<1> QED
  BY <1>11, <1>12

LEMMA GroupsAdvance ==
    ASSUME NEW a \in AccState, NEW r \in AccRequestType, NEW s \in AccSettled, AccMaxCodes \in Nat,
           r.op = "groups", r.todo # <<>>, r.todo \in GroupsTodos,
           Beside(a, r, s), Sure(a, r), Stands(a, s),
           NEW step, step = Head(r.todo), ~AccRefused(a, r, step), step = "mint" => a.minted < AccMaxCodes,
           NEW b, b = AccEffect(a, r, step), NEW q, q = AccRemembers(a, r, step),
           NEW t, t = AccAfter(q, step), NEW n, n = IF t = <<>> THEN NoRequest ELSE [q EXCEPT !.todo = t],
           NEW s2, s2 = SettledBy(s, r, step)
    PROVE  Keeps(a, r, s, b, n, s2)
<1>1. step \in {"read", "put_groups", "read_groups", "groups", "ack"} /\ step \in AccCalls
  BY GroupsGoOn, TodoTypes
<1>2. /\ q \in AccRequestType /\ q.op = "groups" /\ q.todo = r.todo /\ q.wish = r.wish /\ q.alone = r.alone
      /\ step = "read_groups" => q.old = [r.old EXCEPT !.groups = a.up.groups]
      /\ step \notin {"read", "read_groups"} => q.old = r.old
  <2>1. Remembered(a, r, step, q)
    BY <1>1, RemembersOf
  <2> QED
    BY <1>1, <2>1 DEF Remembered
<1>3. /\ t \in GroupsTodos \cup {<<>>} /\ t \in Seq(AccCalls)
      /\ t # <<>> => Head(t) # "read"
      /\ (t # <<>> /\ Head(t) = "put_groups") => step = "read"
      /\ (t # <<>> /\ Head(t) = "read_groups") => step = "put_groups"
      /\ (t # <<>> /\ Head(t) = "groups") => step = "read_groups"
      /\ (t # <<>> /\ Head(t) = "ack") => step = "groups"
      /\ step = "ack" => t = <<>>
  BY <1>2, GroupsGoOn, TodoTypes
<1>4. /\ b \in AccState
      /\ step # "groups" => b.row = a.row
      /\ step # "put_groups" => b.up = a.up
      /\ step = "put_groups" => b.up = [a.up EXCEPT !.groups = r.wish]
      /\ step = "groups" => b.row = IF a.row.is THEN [a.row EXCEPT !.groups = r.old.groups] ELSE a.row
  <2>1. EffectIs(a, r, step, b)
    BY <1>1, EffectOf
  <2> QED
    BY <1>1, <2>1 DEF EffectIs
<1>5. s.groups = {} /\ s.listed = {}
  BY DEF Beside
<1>6. a.row \in AccRow /\ a.up \in AccUp /\ r.old \in AccRow /\ r.wish \in AccGroupSets
  BY DEF AccState, AccRequestType
<1>7. /\ b.row.linked = a.row.linked /\ b.row.is = a.row.is /\ b.row.disabled = a.row.disabled
      /\ b.up.disabled = a.up.disabled
  BY <1>4, <1>6 DEF AccRow, AccUp
<1>8. s2 \in AccSettled
  BY <1>6 DEF AccSettled, SettledBy, ListedBy
<1>9. Stands(b, s2)
  <2>1. \A flag \in s2.flag : b.row.disabled = flag /\ (b.row.linked => b.up.disabled = flag)
    BY <1>7 DEF Stands, AccSettled, SettledBy
  <2>2. CASE step = "ack" /\ r.alone
    <3>1. b.row = a.row /\ b.up = a.up
      BY <1>4, <2>2
    <3>2. a.row.groups = r.wish /\ a.up.groups = r.wish
      BY <2>2 DEF Sure, SureOfGroups
    <3> QED
      BY <2>1, <2>2, <3>1, <3>2 DEF Stands, SettledBy, ListedBy
  <2>3. CASE ~(step = "ack" /\ r.alone)
    BY <1>5, <2>1, <2>3 DEF Stands, SettledBy
  <2> QED
    BY <2>2, <2>3
<1>10. CASE t = <<>>
  BY <1>4, <1>5, <1>7, <1>8, <1>9, <1>10, NoRequestKeeps DEF Keeps, SettledBy
<1>11. CASE t # <<>>
  <2>1. /\ n \in AccRequestType /\ n.op = "groups" /\ n.todo = t /\ n.wish = r.wish /\ n.old = q.old
        /\ n.alone = r.alone
    BY <1>2, <1>3, <1>11, TodoSet
  <2>2. s2 = s
    BY <1>3, <1>11 DEF SettledBy
  <2>3. Beside(b, n, s2)
    BY <1>5, <2>1, <2>2 DEF Beside
  <2>4. ASSUME r.alone PROVE SureOfGroups(b, n, Head(t))
    <3>1. SureOfGroups(a, r, step)
      BY <2>4 DEF Sure
    <3>2. b.row.is
      BY <1>7, <3>1 DEF SureOfGroups, AccRefused, GetUser
    <3>3. step \in {"put_groups", "read_groups", "groups"} => b.up.groups = n.wish
      BY <1>4, <1>6, <2>1, <3>1 DEF SureOfGroups, AccUp
    <3>4. step = "read_groups" => n.old.groups = n.wish
      BY <1>2, <1>6, <2>1, <3>1 DEF SureOfGroups, AccRow
    <3>5. step = "groups" => b.row.groups = n.wish
      <4>1. step = "groups" => a.row.is /\ r.old.groups = r.wish
        BY <3>1 DEF SureOfGroups
      <4> QED
        BY <1>4, <1>6, <2>1, <4>1 DEF AccRow
    <3> QED
      BY <1>3, <1>11, <3>2, <3>3, <3>4, <3>5 DEF SureOfGroups
  <2>5. Sure(b, n)
    BY <2>1, <2>4 DEF Sure
  <2>6. TodoIs(n.op, n.todo)
    BY <1>3, <1>11, <2>1 DEF TodoIs
  <2> QED
    BY <1>4, <1>5, <1>7, <1>8, <1>9, <1>11, <2>1, <2>2, <2>3, <2>5, <2>6 DEF Keeps
<1> QED
  BY <1>10, <1>11

\* A PATCH without the flag writes the one it read.
LEMMA PatchAdvances ==
    ASSUME NEW a \in AccState, NEW r \in AccRequestType, NEW s \in AccSettled, AccMaxCodes \in Nat,
           r.op = "patch", r.todo # <<>>, r.todo \in PatchTodos,
           Beside(a, r, s), Sure(a, r), Stands(a, s),
           NEW step, step = Head(r.todo), ~AccRefused(a, r, step), step = "mint" => a.minted < AccMaxCodes,
           NEW b, b = AccEffect(a, r, step), NEW q, q = AccRemembers(a, r, step),
           NEW t, t = AccAfter(q, step), NEW n, n = IF t = <<>> THEN NoRequest ELSE [q EXCEPT !.todo = t],
           NEW s2, s2 = SettledBy(s, r, step)
    PROVE  Keeps(a, r, s, b, n, s2)
<1>1. step \in {"read", "flag", "ack"} /\ step \in AccCalls
  BY PatchGoesOn, TodoTypes
<1>2. /\ q \in AccRequestType /\ q.op = "patch" /\ q.todo = r.todo /\ q.wish = r.wish /\ q.alone = r.alone
      /\ q.asks = r.asks /\ q.want = r.want
      /\ step = "read" => q.old = a.row
      /\ step # "read" => q.old = r.old
  <2>1. Remembered(a, r, step, q)
    BY <1>1, RemembersOf
  <2> QED
    BY <1>1, <2>1 DEF Remembered
<1>3. /\ t \in PatchTodos \cup {<<>>} /\ t \in Seq(AccCalls)
      /\ t # <<>> => Head(t) # "read"
      /\ (t # <<>> /\ Head(t) = "flag") <=> step = "read"
      /\ step = "ack" => t = <<>>
  BY <1>2, PatchGoesOn, TodoTypes
<1>4. /\ b \in AccState /\ b.up = a.up
      /\ step # "flag" => b.row = a.row
      /\ step = "flag" =>
             b.row = IF a.row.is THEN [a.row EXCEPT !.disabled = r.old.disabled, !.groups = GroupsOf(r)]
                     ELSE a.row
  <2>1. EffectIs(a, r, step, b)
    BY <1>1, EffectOf
  <2>2. FlagOf(r) = r.old.disabled
    BY DEF FlagOf
  <2> QED
    BY <1>1, <2>1, <2>2 DEF EffectIs
<1>5. /\ s.listed # {} => ~r.asks
      /\ (s.listed # {} /\ step # "read") => r.old.groups = a.row.groups
      /\ (s.flag # {} /\ step # "read") => r.old.disabled = a.row.disabled
  BY DEF Beside
<1>6. a.row \in AccRow /\ a.up \in AccUp /\ r.old \in AccRow
  BY DEF AccState, AccRequestType
<1>7. /\ b.row.linked = a.row.linked /\ b.row.is = a.row.is
      /\ s.flag # {} => b.row.disabled = a.row.disabled
      /\ s.listed # {} => b.row.groups = a.row.groups
  BY <1>4, <1>5, <1>6 DEF AccRow, GroupsOf
<1>8. s2 \in AccSettled /\ s2.flag = s.flag /\ s2.groups = s.groups
  BY DEF AccSettled, SettledBy, ListedBy, AccRequestType
<1>9. Stands(b, s2)
  <2>1. \A g \in s2.listed : b.row.groups = g
    <3>1. CASE step = "ack" /\ r.alone /\ r.asks
      <4>1. a.row.groups = r.want
        BY <3>1 DEF Sure, SureOfRow
      <4> QED
        BY <1>4, <3>1, <4>1 DEF SettledBy, ListedBy
    <3>2. CASE ~(step = "ack" /\ r.alone /\ r.asks)
      <4>1. s2.listed = s.listed
        BY <3>2 DEF SettledBy, ListedBy
      <4> QED
        BY <1>7, <4>1 DEF Stands
    <3> QED
      BY <3>1, <3>2
  <2> QED
    BY <1>4, <1>7, <1>8, <2>1 DEF Stands
<1>10. CASE t = <<>>
  BY <1>4, <1>7, <1>8, <1>9, <1>10, NoRequestKeeps DEF Keeps, SettledBy
<1>11. CASE t # <<>>
  <2>1. /\ n \in AccRequestType /\ n.op = "patch" /\ n.todo = t /\ n.wish = r.wish /\ n.old = q.old
        /\ n.alone = r.alone /\ n.asks = r.asks /\ n.want = r.want
    BY <1>2, <1>3, <1>11, TodoSet
  <2>2. s2 = s
    BY <1>3, <1>11 DEF SettledBy
  <2>3. /\ s.flag # {} => n.old.disabled = b.row.disabled
        /\ s.listed # {} => n.old.groups = b.row.groups
    <3>1. CASE step = "read"
      BY <1>2, <1>4, <2>1, <3>1
    <3>2. CASE step # "read"
      BY <1>2, <1>5, <1>7, <2>1, <3>2
    <3> QED
      BY <3>1, <3>2
  <2>4. Beside(b, n, s2)
    BY <1>5, <2>1, <2>2, <2>3 DEF Beside
  <2>5. ASSUME r.alone PROVE SureOfRow(b, n, Head(t))
    <3>1. SureOfRow(a, r, step)
      BY <2>5 DEF Sure
    <3>2. b.row.is
      BY <1>7, <3>1 DEF SureOfRow, AccRefused, GetUser
    <3>3. ASSUME r.asks, step # "read" PROVE b.row.groups = r.want
      BY <1>1, <1>3, <1>4, <1>6, <1>11, <3>1, <3>3 DEF SureOfRow, GroupsOf, AccRow
    <3> QED
      BY <1>3, <1>11, <2>1, <3>2, <3>3 DEF SureOfRow
  <2>6. Sure(b, n)
    BY <2>1, <2>5 DEF Sure
  <2>7. TodoIs(n.op, n.todo)
    BY <1>3, <1>11, <2>1 DEF TodoIs
  <2> QED
    BY <1>4, <1>7, <1>8, <1>9, <1>11, <2>1, <2>2, <2>4, <2>6, <2>7 DEF Keeps
<1> QED
  BY <1>10, <1>11

LEMMA RecoveryAdvances ==
    ASSUME NEW a \in AccState, NEW r \in AccRequestType, NEW s \in AccSettled, AccMaxCodes \in Nat,
           r.op = "recover", r.todo # <<>>, r.todo \in RecoverTodos,
           Beside(a, r, s), Sure(a, r), Stands(a, s),
           NEW step, step = Head(r.todo), ~AccRefused(a, r, step), step = "mint" => a.minted < AccMaxCodes,
           NEW b, b = AccEffect(a, r, step), NEW q, q = AccRemembers(a, r, step),
           NEW t, t = AccAfter(q, step), NEW n, n = IF t = <<>> THEN NoRequest ELSE [q EXCEPT !.todo = t],
           NEW s2, s2 = SettledBy(s, r, step)
    PROVE  Keeps(a, r, s, b, n, s2)
<1>1. step \in {"read", "blocked", "mint", "persist", "ack"} /\ step \in AccCalls
  BY RecoveryGoesOn, TodoTypes
<1>2. /\ q \in AccRequestType /\ q.op = "recover" /\ q.todo = r.todo /\ q.alone = r.alone
      /\ step = "read" => q.old = a.row
      /\ step # "read" => q.old = r.old
  <2>1. Remembered(a, r, step, q)
    BY <1>1, RemembersOf
  <2> QED
    BY <1>1, <2>1 DEF Remembered
<1>3. t \in RecoverTodos \cup {<<>>} /\ t \in Seq(AccCalls) /\ (t # <<>> => Head(t) # "read")
  BY <1>2, RecoveryGoesOn, TodoTypes
<1>4. b \in AccState /\ b.up = a.up /\ b.row = a.row
  <2>1. EffectIs(a, r, step, b)
    BY <1>1, EffectOf
  <2>2. step = "blocked" => b = a
    BY DEF AccEffect, AccRefused, userLoginBlocked
  <2> QED
    BY <1>1, <2>1, <2>2 DEF EffectIs
<1>5. s2 = s
  <2>1. s = [flag |-> s.flag, listed |-> s.listed, groups |-> s.groups]
    BY DEF AccSettled
  <2> QED
    BY <2>1 DEF SettledBy, ListedBy
<1>6. Stands(b, s2)
  BY <1>4, <1>5 DEF Stands
<1>7. CASE t = <<>>
  BY <1>4, <1>5, <1>6, <1>7, NoRequestKeeps DEF Keeps
<1>8. CASE t # <<>>
  <2>1. n \in AccRequestType /\ n.op = "recover" /\ n.todo = t /\ n.old = q.old /\ n.alone = r.alone
    BY <1>2, <1>3, <1>8, TodoSet
  <2>2. Beside(b, n, s2)
    BY <1>2, <1>4, <1>5, <2>1 DEF Beside
  <2>3. Sure(b, n)
    BY <2>1 DEF Sure
  <2>4. TodoIs(n.op, n.todo)
    BY <1>3, <1>8, <2>1 DEF TodoIs
  <2> QED
    BY <1>4, <1>5, <1>6, <1>8, <2>1, <2>2, <2>3, <2>4 DEF Keeps
<1> QED
  BY <1>7, <1>8

LEMMA OthersAdvance ==
    ASSUME NEW a \in AccState, NEW r \in AccRequestType, NEW s \in AccSettled, AccMaxCodes \in Nat,
           r.op \in {"create", "delete", "enroll"}, r.todo # <<>>,
           Beside(a, r, s), Sure(a, r), Stands(a, s),
           NEW step, step = Head(r.todo), ~AccRefused(a, r, step), step = "mint" => a.minted < AccMaxCodes,
           NEW b, b = AccEffect(a, r, step), NEW q, q = AccRemembers(a, r, step),
           NEW t, t = AccAfter(q, step), NEW n, n = IF t = <<>> THEN NoRequest ELSE [q EXCEPT !.todo = t],
           NEW s2, s2 = SettledBy(s, r, step)
    PROVE  Keeps(a, r, s, b, n, s2)
<1>1. step \in AccCalls
  BY TodoTypes
<1>2. q \in AccRequestType /\ q.op = r.op /\ q.todo = r.todo /\ q.alone = r.alone
  <2>1. Remembered(a, r, step, q)
    BY <1>1, RemembersOf
  <2> QED
    BY <1>1, <2>1 DEF Remembered
<1>3. t \in Seq(AccCalls)
  BY <1>2, TodoTypes
<1>4. b \in AccState
  <2>1. EffectIs(a, r, step, b)
    BY <1>1, EffectOf
  <2> QED
    BY <1>1, <2>1 DEF EffectIs
<1>5. s2 = s
  <2>1. s = [flag |-> s.flag, listed |-> s.listed, groups |-> s.groups]
    BY DEF AccSettled
  <2> QED
    BY <2>1 DEF SettledBy, ListedBy
<1>6. s.flag = {} /\ s.listed = {} /\ s.groups = {}
  BY DEF Beside
<1>7. Stands(b, s2)
  BY <1>5, <1>6 DEF Stands
<1>8. CASE t = <<>>
  BY <1>4, <1>5, <1>6, <1>7, <1>8, NoRequestKeeps DEF Keeps
<1>9. CASE t # <<>>
  <2>1. n \in AccRequestType /\ n.op = r.op /\ n.todo = t /\ n.alone = r.alone
    BY <1>2, <1>3, <1>9, TodoSet
  <2>2. Beside(b, n, s2) /\ Sure(b, n) /\ TodoIs(n.op, n.todo)
    BY <1>5, <1>6, <2>1 DEF Beside, Sure, TodoIs
  <2> QED
    BY <1>4, <1>5, <1>6, <1>7, <1>9, <2>1, <2>2 DEF Keeps
<1> QED
  BY <1>8, <1>9

\* A request that meets an error: Pocket ID did what it was asked for or did not.
LEMMA FailureKeeps ==
    ASSUME NEW a \in AccState, NEW r \in AccRequestType, NEW s \in AccSettled, AccMaxCodes \in Nat,
           r.op # "none", r.todo # <<>>, TodoIs(r.op, r.todo),
           Beside(a, r, s), Sure(a, r), Stands(a, s),
           NEW step, step = Head(r.todo), NEW c \in SUBSET AccCodes, NEW b,
           \/ b = a
           \/ /\ step \in PocketCalls /\ b = AccEffect(a, [r EXCEPT !.seen = c], step)
              /\ step = "mint" => a.minted < AccMaxCodes,
           NEW t, t = <<>> \/ t = AccAfterFailure(r, step),
           NEW n, n = IF t = <<>> THEN NoRequest ELSE [r EXCEPT !.todo = t]
    PROVE  Keeps(a, r, s, b, n, s)
<1> DEFINE x == [r EXCEPT !.seen = c]
<1>1. x \in AccRequestType /\ x.wish = r.wish /\ x.old = r.old
  BY SeenSet
<1> HIDE DEF x
<1>2. step \in AccCalls /\ t \in Seq(AccCalls)
  <2>1. <<>> \in Seq(AccCalls)
    OBVIOUS
  <2> QED
    BY <2>1, TodoTypes
<1>3. b = a \/ (step \in PocketCalls /\ EffectIs(a, x, step, b))
  <2>1. CASE b # a
    <3>1. /\ step \in PocketCalls /\ b = AccEffect(a, x, step)
          /\ step = "mint" => a.minted < AccMaxCodes
      BY <2>1 DEF x
    <3>2. EffectIs(a, x, step, b)
      BY <1>1, <1>2, <3>1, EffectOf
    <3> QED
      BY <3>1, <3>2
  <2> QED
    BY <2>1
<1>4. b \in AccState
  BY <1>3 DEF EffectIs
<1>5. a.row \in AccRow /\ a.up \in AccUp
  BY DEF AccState
<1>6. t # <<>> => n \in AccRequestType /\ n.op = r.op /\ n.todo = t /\ n.wish = r.wish /\ n.old = r.old
                  /\ n.alone = r.alone /\ n.asks = r.asks /\ n.want = r.want
  BY <1>2, TodoSet
<1>7. t = <<>> => n \in AccRequestType /\ n.op = "none" /\ Beside(b, n, s) /\ Sure(b, n)
  BY <1>4, NoRequestKeeps
<1>8. CASE r.op = "update"
  <2>1. r.todo \in UpdateTodos
    BY <1>8 DEF TodoIs
  <2>2. step \in {"read", "flag", "transition", "list", "supersede", "burn", "disable", "verify",
                 "forget", "ack", "roll_back"}
    BY <1>8, <2>1, UpdateGoesOn
  <2>3. /\ b.row = a.row /\ (step # "disable" => b.up = a.up)
        /\ b.up = a.up \/ b.up = [a.up EXCEPT !.disabled = (r.wish = 1)]
    BY <1>1, <1>3, <2>2 DEF EffectIs, PocketCalls
  <2>4. b.up.groups = a.up.groups
    BY <1>5, <2>3 DEF AccUp
  <2>5. s.flag = {}
    BY <1>8 DEF Beside
  <2>6. Stands(b, s)
    BY <2>3, <2>4, <2>5 DEF Stands
  <2>7. CASE t # <<>>
    <3>1. \/ t = <<"roll_back">> /\ step \in {"disable", "verify"}
          \/ t = <<"disable", "verify", "forget", "ack">> /\ step = "burn"
      BY <1>8, <2>1, <2>7, UpdateGoesBack
    <3>2. Head(t) \in {"roll_back", "disable"} /\ (Head(t) = "roll_back" => step \in {"disable", "verify"})
          /\ (Head(t) = "disable" => step = "burn")
      BY <3>1
    <3>3. Beside(b, n, s)
      BY <1>6, <1>8, <2>3, <2>5, <2>7, <3>1 DEF Beside
    <3>4. r.alone => SureOfFlag(b, n, Head(t)) /\ SureOfRow(b, n, Head(t))
      BY <1>6, <1>8, <2>3, <2>7, <3>2 DEF Sure, SureOfFlag, SureOfRow
    <3>5. Sure(b, n)
      BY <1>6, <1>8, <2>7, <3>4 DEF Sure
    <3>6. TodoIs(n.op, n.todo)
      BY <1>6, <1>8, <2>7, <3>1 DEF TodoIs, UpdateTodos
    <3> QED
      BY <1>4, <1>6, <2>3, <2>6, <2>7, <3>3, <3>5, <3>6 DEF Keeps
  <2>8. CASE t = <<>>
    BY <1>4, <1>7, <2>3, <2>6, <2>8 DEF Keeps
  <2> QED
    BY <2>7, <2>8
<1>9. CASE r.op = "groups"
  <2>1. step \in {"read", "put_groups", "read_groups", "groups", "ack"} /\ t = <<>>
    <3>1. r.todo \in GroupsTodos
      BY <1>9 DEF TodoIs
    <3>2. step \in {"read", "put_groups", "read_groups", "groups", "ack"} /\ AccAfterFailure(r, step) = <<>>
      BY <1>9, <3>1, GroupsGoOn
    <3> QED
      BY <3>2
  <2>2. b.row = a.row /\ (b.up = a.up \/ b.up = [a.up EXCEPT !.groups = r.wish])
    BY <1>1, <1>3, <2>1 DEF EffectIs, PocketCalls
  <2>3. b.up.disabled = a.up.disabled
    BY <1>5, <2>2 DEF AccUp
  <2>4. s.groups = {}
    BY <1>9 DEF Beside
  <2>5. Stands(b, s)
    BY <2>2, <2>3, <2>4 DEF Stands
  <2> QED
    BY <1>4, <1>7, <2>1, <2>2, <2>5 DEF Keeps
<1>10. CASE r.op = "recover"
  <2>1. r.todo \in RecoverTodos
    BY <1>10 DEF TodoIs
  <2>2. /\ step \in {"read", "blocked", "mint", "persist", "ack"}
        /\ t \in RecoverTodos \cup {<<>>} /\ (t # <<>> => step # "read" /\ Head(t) # "read")
    BY <1>10, <2>1, RecoveryGoesOn
  <2>3. /\ b.up = a.up
        /\ \/ b.row = a.row
           \/ b.row = [a.row EXCEPT !.disabled = TRUE] /\ a.up.disabled /\ r.old.linked /\ step = "blocked"
    BY <1>1, <1>3, <2>2 DEF EffectIs, PocketCalls
  <2>4. b.row.linked = a.row.linked /\ b.row.groups = a.row.groups
    BY <1>5, <2>3 DEF AccRow
  <2>8. s.flag # {} => b.row.disabled = a.row.disabled
    <3> SUFFICES ASSUME s.flag # {}, b.row # a.row PROVE b.row.disabled = a.row.disabled
      OBVIOUS
    <3>1. a.row.linked /\ a.up.disabled /\ b.row = [a.row EXCEPT !.disabled = TRUE]
      BY <1>10, <2>3 DEF Beside
    <3>2. a.row.disabled = TRUE
      BY <1>5, <3>1 DEF Stands, AccUp
    <3> QED
      BY <1>5, <3>1, <3>2 DEF AccRow
  <2>5. Stands(b, s)
    BY <2>3, <2>4, <2>8 DEF Stands
  <2>6. CASE t # <<>>
    <3>1. Beside(b, n, s)
      BY <1>6, <1>10, <2>2, <2>4, <2>6 DEF Beside
    <3>2. Sure(b, n) /\ TodoIs(n.op, n.todo)
      BY <1>6, <1>10, <2>2, <2>6 DEF Sure, TodoIs
    <3> QED
      BY <1>4, <1>6, <2>4, <2>5, <2>6, <2>8, <3>1, <3>2 DEF Keeps
  <2>7. CASE t = <<>>
    BY <1>4, <1>7, <2>4, <2>5, <2>7, <2>8 DEF Keeps
  <2> QED
    BY <2>6, <2>7
<1>12. CASE r.op = "patch"
  <2>1. step \in {"read", "flag", "ack"} /\ t = <<>>
    <3>1. r.todo \in PatchTodos
      BY <1>12 DEF TodoIs
    <3>2. step \in {"read", "flag", "ack"} /\ AccAfterFailure(r, step) = <<>>
      BY <1>12, <3>1, PatchGoesOn
    <3> QED
      BY <3>2
  <2>2. b = a
    BY <2>1 DEF PocketCalls
  <2> QED
    BY <1>7, <2>1, <2>2 DEF Keeps
<1>11. CASE r.op \notin {"update", "patch", "groups", "recover"}
  <2>1. s.flag = {} /\ s.listed = {} /\ s.groups = {}
    BY <1>11 DEF Beside
  <2>2. Stands(b, s)
    BY <2>1 DEF Stands
  <2>3. CASE t # <<>>
    <3>1. Beside(b, n, s) /\ Sure(b, n) /\ TodoIs(n.op, n.todo)
      BY <1>6, <1>11, <2>1, <2>3 DEF Beside, Sure, TodoIs
    <3> QED
      BY <1>4, <1>6, <2>1, <2>2, <2>3, <3>1 DEF Keeps
  <2>4. CASE t = <<>>
    BY <1>4, <1>7, <2>1, <2>2, <2>4 DEF Keeps
  <2> QED
    BY <2>3, <2>4
<1> QED
  BY <1>8, <1>9, <1>10, <1>11, <1>12

\* A step of one request that keeps its side of the invariant keeps the invariant.
LEMMA MoveKeeps ==
    ASSUME AccInv, NEW p \in AccRequests, ~AccIdle(p),
           NEW n, accReq' = [accReq EXCEPT ![p] = n],
           Keeps(acc, accReq[p], settled, acc', n, settled')
    PROVE  AccInv'
<1> USE DEF AccIdle
<1>1. /\ acc' \in AccState /\ settled' \in AccSettled /\ Stands(acc', settled')
      /\ n \in AccRequestType
      /\ n.op # "none" => n.todo # <<>> /\ TodoIs(n.op, n.todo) /\ n.alone = accReq[p].alone
      /\ Beside(acc', n, settled') /\ Sure(acc', n)
  BY DEF Keeps
<1>2. accReq \in [AccRequests -> AccRequestType] /\ accReq' \in [AccRequests -> AccRequestType]
  BY <1>1 DEF AccInv, AccType
<1>3. accReq'[p] = n /\ \A q \in AccRequests \ {p} : accReq'[q] = accReq[q]
  BY <1>2
<1>4. ASSUME NEW q \in AccRequests \ {p}, accReq[q].op # "none"
      PROVE  ~accReq[q].alone /\ ~accReq[p].alone
  BY <1>4 DEF AccInv, AccHolds, AccOverlaps
<1>5. ASSUME NEW q \in AccRequests \ {p}
      PROVE  /\ accReq'[q].op = "none" \/ (accReq'[q].todo # <<>> /\ TodoIs(accReq'[q].op, accReq'[q].todo))
             /\ Beside(acc', accReq'[q], settled')
             /\ Sure(acc', accReq'[q])
             /\ accReq'[q].op = "none" \/ ~accReq'[q].alone
  <2> DEFINE r == accReq[q]
  <2>1. accReq'[q] = r /\ r \in AccRequestType
    BY <1>2, <1>3
  <2>2. /\ r.op = "none" \/ (r.todo # <<>> /\ TodoIs(r.op, r.todo))
        /\ Beside(acc, r, settled)
    BY DEF AccInv, AccHolds
  <2>3. r.op # "none" => ~r.alone /\ ~accReq[p].alone
    BY <1>4
  <2> HIDE DEF r
  <2>4. Sure(acc', r)
    BY <2>3 DEF Sure
  <2>5. CASE r.op = "none"
    BY <2>1, <2>4, <2>5 DEF Beside
  <2>6. CASE r.op # "none"
    <3>1. settled' = settled
      BY <2>3, <2>6 DEF Keeps
    <3>2. Beside(acc', r, settled')
      BY <2>2, <3>1 DEF Beside, Keeps
    <3> QED
      BY <2>1, <2>2, <2>3, <2>4, <2>6, <3>2
  <2> QED
    BY <2>5, <2>6
<1>6. (accReq'[p].op # "none" /\ accReq'[p].alone) => \A q \in AccRequests \ {p} : accReq'[q].op = "none"
  BY <1>1, <1>3, <1>4
<1>7. AccHolds'
  <2> SUFFICES ASSUME NEW q \in AccRequests
               PROVE  /\ \/ accReq'[q].op = "none"
                         \/ accReq'[q].todo # <<>> /\ TodoIs(accReq'[q].op, accReq'[q].todo)
                      /\ Beside(acc', accReq'[q], settled')
                      /\ Sure(acc', accReq'[q])
                      /\ accReq'[q].op # "none" /\ accReq'[q].alone
                           => ~ \E x \in AccRequests \ {q} : accReq'[x].op # "none"
    BY <1>1 DEF AccHolds, AccOverlaps
  <2>1. CASE q = p
    BY <1>1, <1>3, <1>6, <2>1
  <2>2. CASE q # p
    BY <1>5, <2>2
  <2> QED
    BY <2>1, <2>2
<1> QED
  BY <1>1, <1>2, <1>7 DEF AccInv, AccType

LEMMA AccStart == AccInit => AccInv
<1> SUFFICES ASSUME AccInit PROVE AccInv
  OBVIOUS
<1>1. AccMaxCodes \in Nat
  BY AccountsAssumption
<1>2. PICK u \in {NoUser, [NoUser EXCEPT !.is = TRUE, !.linked = TRUE]} :
        acc = [row |-> u, up |-> [NoAccount EXCEPT !.is = u.is], minted |-> 0, works |-> {},
               handed |-> {}, ledger |-> [c \in AccCodes |-> "none"], recoveries |-> {}]
  BY DEF AccInit
<1>3. u \in AccRow /\ [NoAccount EXCEPT !.is = u.is] \in AccUp
  <2>1. CASE u = NoUser
    BY <2>1 DEF NoUser, NoAccount, AccRow, AccUp, AccGroupSets
  <2>2. CASE u = [NoUser EXCEPT !.is = TRUE, !.linked = TRUE]
    <3>1. u = [is |-> TRUE, disabled |-> FALSE, groups |-> 0, linked |-> TRUE]
      BY <2>2 DEF NoUser
    <3> QED
      BY <3>1 DEF NoAccount, AccRow, AccUp, AccGroupSets
  <2> QED
    BY <1>2, <2>1, <2>2
<1>4. acc \in AccState
  BY <1>1, <1>2, <1>3 DEF AccState
<1>5. settled \in AccSettled /\ settled.flag = {} /\ settled.listed = {} /\ settled.groups = {}
  BY DEF AccInit, AccSettled
<1>6. \A p \in AccRequests : accReq[p] = NoRequest
  BY DEF AccInit
<1>7. /\ NoRequest \in AccRequestType /\ NoRequest.op = "none"
      /\ Beside(acc, NoRequest, settled) /\ Sure(acc, NoRequest)
  BY <1>1, <1>4, <1>5, NoRequestKeeps
<1>8. accReq \in [AccRequests -> AccRequestType]
  BY <1>7 DEF AccInit
<1>9. AccHolds
  BY <1>5, <1>6, <1>7 DEF AccHolds, AccIdle, Stands
<1> QED
  BY <1>4, <1>5, <1>8, <1>9 DEF AccInv, AccType

LEMMA AccBeginStep ==
    ASSUME AccInv, NEW p \in AccRequests, NEW op \in AccOps \ {"none"}, NEW wish \in AccGroupSets,
           NEW asks \in BOOLEAN, NEW want \in AccGroupSets, AccBegin(p, op, wish, asks, want)
    PROVE  AccInv'
<1>0. AccMaxCodes \in Nat
  BY AccountsAssumption
<1> DEFINE alone == ~AccOverlaps(p)
           r == [NoRequest EXCEPT !.op = op, !.todo = BodyOf(op), !.wish = wish, !.asks = asks,
                                !.want = want, !.alone = alone]
<1>1. acc \in AccState /\ accReq \in [AccRequests -> AccRequestType] /\ settled \in AccSettled
  BY DEF AccInv, AccType
<1>2. acc' = acc
  BY DEF AccBegin
<1>3. BodyOf(op) \in Seq(AccCalls) /\ BodyOf(op) # <<>> /\ TodoIs(op, BodyOf(op))
      /\ (op \in {"update", "patch", "groups", "recover"} => Head(BodyOf(op)) = "read")
  BY BodyStart
<1>4. /\ NoRequest \in AccRequestType /\ NoRequest.op = "none"
      /\ Beside(acc, NoRequest, settled') /\ Sure(acc, NoRequest)
  <2>1. NoRequest \in AccRequestType /\ NoRequest.op = "none"
    BY <1>0, <1>1, NoRequestKeeps
  <2> QED
    BY <2>1 DEF Beside, Sure
<1>5. r \in AccRequestType /\ r.op = op /\ r.todo = BodyOf(op) /\ r.asks = asks /\ r.alone = alone
  <2>1. alone \in BOOLEAN
    OBVIOUS
  <2> HIDE DEF alone
  <2> QED
    BY <1>3, <1>4, <2>1 DEF AccRequestType
<1>6. /\ op \notin {"groups", "recover", "patch"} => settled'.flag = {}
      /\ op \notin {"update", "patch", "recover"} \/ (op # "recover" /\ asks) => settled'.listed = {}
      /\ op \notin {"update", "patch", "recover"} => settled'.groups = {}
      /\ settled'.flag \in {{}, settled.flag} /\ settled'.groups \in {{}, settled.groups}
      /\ settled'.listed \in {{}, settled.listed}
      /\ settled' \in AccSettled
  BY <1>1 DEF AccBegin, AccSettled
<1>7. Beside(acc, r, settled') /\ Sure(acc, r)
  <2>1. Head(r.todo) = "read" \/ op \notin {"update", "patch", "groups", "recover"}
    BY <1>3, <1>5
  <2> HIDE DEF r
  <2> QED
    BY <1>5, <1>6, <2>1 DEF Beside, Sure, SureOfFlag, SureOfRow, SureOfGroups
<1> DEFINE y(q) == [accReq[q] EXCEPT !.alone = FALSE]
<1>8. ASSUME NEW q \in AccRequests
      PROVE  /\ y(q) \in AccRequestType /\ y(q).op = accReq[q].op /\ y(q).todo = accReq[q].todo
             /\ y(q).old = accReq[q].old /\ y(q).asks = accReq[q].asks /\ ~y(q).alone
  BY <1>1 DEF AccRequestType
<1>9. /\ accReq'[p] = r
      /\ \A q \in AccRequests \ {p} : accReq'[q] = IF accReq[q].op = "none" THEN NoRequest ELSE y(q)
      /\ accReq' = [q \in AccRequests |-> IF q = p THEN r ELSE IF accReq[q].op = "none" THEN NoRequest ELSE y(q)]
  BY DEF AccBegin, AccIdle
<1> HIDE DEF r, y
<1>10. accReq' \in [AccRequests -> AccRequestType]
  BY <1>4, <1>5, <1>8, <1>9
<1>11. ASSUME NEW q \in AccRequests \ {p}, accReq[q].op # "none"
       PROVE  /\ y(q).todo # <<>> /\ TodoIs(y(q).op, y(q).todo)
              /\ Beside(acc, y(q), settled') /\ Sure(acc, y(q))
  <2>1. /\ accReq[q].todo # <<>> /\ TodoIs(accReq[q].op, accReq[q].todo)
        /\ Beside(acc, accReq[q], settled)
    BY <1>11 DEF AccInv, AccHolds, AccIdle
  <2> QED
    BY <1>6, <1>8, <2>1 DEF Beside, Sure
<1>12. (r.alone => \A q \in AccRequests \ {p} : accReq[q].op = "none")
  BY <1>5 DEF AccOverlaps, AccIdle
<1>13. Stands(acc, settled')
  BY <1>6 DEF AccInv, AccHolds, Stands
<1>14. AccHolds'
  <2> SUFFICES ASSUME NEW q \in AccRequests
               PROVE  /\ \/ accReq'[q].op = "none"
                         \/ accReq'[q].todo # <<>> /\ TodoIs(accReq'[q].op, accReq'[q].todo)
                      /\ Beside(acc, accReq'[q], settled')
                      /\ Sure(acc, accReq'[q])
                      /\ accReq'[q].op # "none" /\ accReq'[q].alone
                           => ~ \E x \in AccRequests \ {q} : accReq'[x].op # "none"
    BY <1>2, <1>13 DEF AccHolds, AccOverlaps, AccIdle
  <2>1. CASE q = p
    BY <1>3, <1>4, <1>5, <1>7, <1>9, <1>12, <2>1
  <2>2. CASE q # p /\ accReq[q].op = "none"
    BY <1>4, <1>9, <2>2
  <2>3. CASE q # p /\ accReq[q].op # "none"
    BY <1>8, <1>9, <1>11, <2>3
  <2> QED
    BY <2>1, <2>2, <2>3
<1> QED
  BY <1>1, <1>2, <1>6, <1>10, <1>14 DEF AccInv, AccType

\* What the invariant says of a request under way.
LEMMA UnderWay ==
    ASSUME AccInv, NEW p \in AccRequests, ~AccIdle(p)
    PROVE  /\ acc \in AccState /\ accReq[p] \in AccRequestType
           /\ settled \in AccSettled /\ AccMaxCodes \in Nat
           /\ accReq[p].op # "none" /\ accReq[p].todo # <<>> /\ TodoIs(accReq[p].op, accReq[p].todo)
           /\ Beside(acc, accReq[p], settled) /\ Sure(acc, accReq[p]) /\ Stands(acc, settled)
BY AccountsAssumption DEF AccInv, AccType, AccHolds, AccIdle

LEMMA AccStepKeeps == ASSUME AccInv, NEW p \in AccRequests, AccStep(p) PROVE AccInv'
<1> DEFINE r == accReq[p]
           step == Head(r.todo)
           q == AccRemembers(acc, r, step)
           t == AccAfter(q, step)
           n == IF t = <<>> THEN NoRequest ELSE [q EXCEPT !.todo = t]
<1>1. ~AccIdle(p)
  BY DEF AccStep
<1>2. /\ acc \in AccState /\ r \in AccRequestType /\ settled \in AccSettled /\ AccMaxCodes \in Nat
      /\ r.op # "none" /\ r.todo # <<>> /\ TodoIs(r.op, r.todo)
      /\ Beside(acc, r, settled) /\ Sure(acc, r) /\ Stands(acc, settled)
  BY <1>1, UnderWay
<1>3. /\ ~AccRefused(acc, r, step) /\ (step = "mint" => acc.minted < AccMaxCodes)
      /\ acc' = AccEffect(acc, r, step) /\ accReq' = [accReq EXCEPT ![p] = n]
      /\ IF step = "ack" THEN Settle(r) ELSE settled' = settled
  BY DEF AccStep, Goes
<1>4. settled' = SettledBy(settled, r, step)
  <2> HIDE DEF r, step
  <2> QED
    BY <1>3 DEF Settle, SettledBy, ListedBy
<1>5. PICK step0 : step0 = step
  OBVIOUS
<1>6. PICK q0 : q0 = q
  OBVIOUS
<1>7. PICK t0 : t0 = t
  OBVIOUS
<1>8. PICK n0 : n0 = n
  OBVIOUS
<1>9. /\ step0 = Head(r.todo) /\ q0 = AccRemembers(acc, r, step0) /\ t0 = AccAfter(q0, step0)
      /\ n0 = IF t0 = <<>> THEN NoRequest ELSE [q0 EXCEPT !.todo = t0]
      /\ ~AccRefused(acc, r, step0) /\ (step0 = "mint" => acc.minted < AccMaxCodes)
      /\ acc' = AccEffect(acc, r, step0) /\ accReq' = [accReq EXCEPT ![p] = n0]
      /\ settled' = SettledBy(settled, r, step0)
  BY <1>3, <1>4, <1>5, <1>6, <1>7, <1>8
<1> HIDE DEF r, step, q, t, n
<1>10. Keeps(acc, r, settled, acc', n0, settled')
  <2>1. CASE r.op = "update"
    <3>1. r.todo \in UpdateTodos
      BY <1>2, <2>1 DEF TodoIs
    <3> QED
      BY <1>2, <1>9, <2>1, <3>1, UpdateAdvances
  <2>2. CASE r.op = "groups"
    <3>1. r.todo \in GroupsTodos
      BY <1>2, <2>2 DEF TodoIs
    <3> QED
      BY <1>2, <1>9, <2>2, <3>1, GroupsAdvance
  <2>3. CASE r.op = "recover"
    <3>1. r.todo \in RecoverTodos
      BY <1>2, <2>3 DEF TodoIs
    <3> QED
      BY <1>2, <1>9, <2>3, <3>1, RecoveryAdvances
  <2>4. CASE r.op \in {"create", "delete", "enroll"}
    BY <1>2, <1>9, <2>4, OthersAdvance
  <2>6. CASE r.op = "patch"
    <3>1. r.todo \in PatchTodos
      BY <1>2, <2>6 DEF TodoIs
    <3> QED
      BY <1>2, <1>9, <2>6, <3>1, PatchAdvances
  <2>5. r.op \in AccOps
    BY <1>2 DEF AccRequestType
  <2> QED
    BY <1>2, <2>1, <2>2, <2>3, <2>4, <2>5, <2>6 DEF AccOps
<1> QED
  BY <1>1, <1>9, <1>10, MoveKeeps DEF r

LEMMA AccFailureKeeps ==
    ASSUME AccInv, NEW p \in AccRequests, AccRefuse(p) \/ AccFail(p) \/ AccLoseAnswer(p)
    PROVE  AccInv'
<1> DEFINE r == accReq[p]
           step == Head(r.todo)
<1>1. ~AccIdle(p)
  BY DEF AccRefuse, AccFail, AccLoseAnswer
<1>2. /\ acc \in AccState /\ r \in AccRequestType /\ settled \in AccSettled /\ AccMaxCodes \in Nat
      /\ r.op # "none" /\ r.todo # <<>> /\ TodoIs(r.op, r.todo)
      /\ Beside(acc, r, settled) /\ Sure(acc, r) /\ Stands(acc, settled)
  BY <1>1, UnderWay
<1>3. /\ settled' = settled
      /\ \E c \in SUBSET AccCodes :
          \/ acc' = acc
          \/ /\ step \in PocketCalls /\ acc' = AccEffect(acc, [r EXCEPT !.seen = c], step)
             /\ step = "mint" => acc.minted < AccMaxCodes
      /\ \E t \in {<<>>, AccAfterFailure(r, step)} : Goes(p, r, t)
  <2>1. r.seen \in SUBSET AccCodes
    BY <1>2 DEF AccRequestType
  <2>2. CASE AccRefuse(p)
    <3>1. settled' = settled /\ \E t \in {<<>>, AccAfterFailure(r, step)} : Goes(p, r, t)
      BY <2>2 DEF AccRefuse
    <3>2. CASE step = "blocked"
      <4>1. [r EXCEPT !.seen = r.seen] = r
        BY <1>2 DEF AccRequestType
      <4>2. acc' = AccEffect(acc, r, step)
        BY <2>2, <3>2 DEF AccRefuse
      <4>3. acc' = AccEffect(acc, [r EXCEPT !.seen = r.seen], step)
        BY <4>1, <4>2
      <4>4. step \in PocketCalls /\ step # "mint"
        BY <3>2 DEF PocketCalls
      <4> HIDE DEF r, step
      <4> QED
        BY <2>1, <3>1, <4>3, <4>4
    <3>3. CASE step # "blocked"
      <4>1. acc' = acc
        BY <2>2, <3>3 DEF AccRefuse
      <4> HIDE DEF r, step
      <4> QED
        BY <2>1, <3>1, <4>1
    <3> QED
      BY <3>2, <3>3
  <2>3. CASE AccFail(p)
    <3>1. acc' = acc /\ settled' = settled /\ Goes(p, r, AccAfterFailure(r, step))
      BY <2>3 DEF AccFail
    <3> HIDE DEF r, step
    <3> QED
      BY <2>1, <3>1
  <2>4. CASE AccLoseAnswer(p)
    <3>1. PICK c \in SUBSET r.seen : acc' = AccEffect(acc, [r EXCEPT !.seen = c], step)
      BY <2>4 DEF AccLoseAnswer
    <3>2. /\ settled' = settled /\ Goes(p, r, AccAfterFailure(r, step))
          /\ step \in PocketCalls /\ (step = "mint" => acc.minted < AccMaxCodes)
      BY <2>4 DEF AccLoseAnswer
    <3>3. c \in SUBSET AccCodes
      BY <2>1
    <3> HIDE DEF r, step
    <3> QED
      BY <3>1, <3>2, <3>3
  <2> QED
    BY <2>2, <2>3, <2>4
<1>4. PICK c \in SUBSET AccCodes :
          \/ acc' = acc
          \/ /\ step \in PocketCalls /\ acc' = AccEffect(acc, [r EXCEPT !.seen = c], step)
             /\ step = "mint" => acc.minted < AccMaxCodes
  BY <1>3
<1>5. PICK t \in {<<>>, AccAfterFailure(r, step)} : Goes(p, r, t)
  BY <1>3
<1>6. PICK n : n = IF t = <<>> THEN NoRequest ELSE [r EXCEPT !.todo = t]
  OBVIOUS
<1>7. accReq' = [accReq EXCEPT ![p] = n]
  BY <1>5, <1>6 DEF Goes
<1>8. PICK step0 : step0 = step
  OBVIOUS
<1>9. step0 = Head(r.todo) /\ (t = <<>> \/ t = AccAfterFailure(r, step0))
      /\ \/ acc' = acc
         \/ /\ step0 \in PocketCalls /\ acc' = AccEffect(acc, [r EXCEPT !.seen = c], step0)
            /\ step0 = "mint" => acc.minted < AccMaxCodes
  BY <1>4, <1>5, <1>8
<1> HIDE DEF r, step
<1>10. Keeps(acc, r, settled, acc', n, settled')
  BY <1>2, <1>3, <1>6, <1>9, FailureKeeps
<1> QED
  BY <1>1, <1>7, <1>10, MoveKeeps DEF r

LEMMA AccRequestEndsKeeps == ASSUME AccInv, NEW p \in AccRequests, AccRequestEnds(p) PROVE AccInv'
<1> DEFINE r == accReq[p]
           n == [r EXCEPT !.live = FALSE]
<1>1. ~AccIdle(p) /\ acc' = acc /\ settled' = settled /\ accReq' = [accReq EXCEPT ![p] = n]
  BY DEF AccRequestEnds
<1>2. /\ acc \in AccState /\ r \in AccRequestType /\ settled \in AccSettled
      /\ r.op # "none" /\ r.todo # <<>> /\ TodoIs(r.op, r.todo)
      /\ Beside(acc, r, settled) /\ Sure(acc, r) /\ Stands(acc, settled)
  BY <1>1, UnderWay
<1>3. /\ n \in AccRequestType /\ n.op = r.op /\ n.todo = r.todo /\ n.wish = r.wish /\ n.old = r.old
      /\ n.alone = r.alone /\ n.asks = r.asks /\ n.want = r.want
  BY <1>2 DEF AccRequestType
<1> HIDE DEF n
<1>4. Beside(acc, n, settled) /\ Sure(acc, n)
  BY <1>2, <1>3 DEF Beside, Sure, SureOfFlag, SureOfRow, SureOfGroups
<1>5. Keeps(acc, r, settled, acc', n, settled')
  BY <1>1, <1>2, <1>3, <1>4 DEF Keeps
<1> QED
  BY <1>1, <1>5, MoveKeeps

LEMMA AccCrashKeeps == AccInv /\ AccCrash => AccInv'
<1> SUFFICES ASSUME AccInv, AccCrash PROVE AccInv'
  OBVIOUS
<1>1. acc \in AccState /\ settled \in AccSettled /\ Stands(acc, settled) /\ AccMaxCodes \in Nat
  BY AccountsAssumption DEF AccInv, AccType, AccHolds
<1>2. acc' = acc /\ settled' = settled /\ accReq' = [p \in AccRequests |-> NoRequest]
  BY DEF AccCrash
<1>3. /\ NoRequest \in AccRequestType /\ NoRequest.op = "none"
      /\ Beside(acc, NoRequest, settled) /\ Sure(acc, NoRequest)
  BY <1>1, NoRequestKeeps
<1>4. AccHolds'
  BY <1>1, <1>2, <1>3 DEF AccHolds, AccIdle
<1> QED
  BY <1>1, <1>2, <1>3, <1>4 DEF AccInv, AccType

LEMMA LinkDiesKeeps == ASSUME AccInv, NEW c \in AccCodes, LinkDies(c) PROVE AccInv'
<1>1. acc' = [acc EXCEPT !.works = acc.works \ {c}] /\ accReq' = accReq /\ settled' = settled
  BY DEF LinkDies
<1>2. acc' \in AccState /\ acc'.row = acc.row /\ acc'.up = acc.up
  BY <1>1 DEF AccInv, AccType, AccState
<1>3. AccHolds'
  BY <1>1, <1>2 DEF AccInv, AccHolds, AccIdle, AccOverlaps, Beside, Sure, SureOfFlag, SureOfRow,
     SureOfGroups, Stands
<1> QED
  BY <1>1, <1>2, <1>3 DEF AccInv, AccType

LEMMA AccNextKeeps == AccInv /\ [AccNext]_accVars => AccInv'
<1> SUFFICES ASSUME AccInv, [AccNext]_accVars PROVE AccInv'
  OBVIOUS
<1>1. CASE UNCHANGED accVars
  BY <1>1 DEF accVars, AccInv, AccType, AccHolds, AccIdle, AccOverlaps
<1>2. CASE \E p \in AccRequests : AccRequest(p)
  <2>1. PICK p \in AccRequests : AccRequest(p)
    BY <1>2
  <2>2. /\ \A op \in {"create", "update", "patch", "delete", "enroll", "groups", "recover"} : op \in AccOps \ {"none"}
        /\ \A g \in AccGroups \cup {0, 1} : g \in AccGroupSets
    BY DEF AccOps, AccGroupSets
  <2>3. CASE CreateUser(p) \/ UpdateUser(p) \/ DeleteUser(p) \/ IssueUserEnrollment(p) \/ ChangeGroups(p)
             \/ CreateUserRecoverySession(p)
    <3>1. \E op \in AccOps \ {"none"}, wish \in AccGroupSets, asks \in BOOLEAN, want \in AccGroupSets :
              AccBegin(p, op, wish, asks, want)
      BY <2>2, <2>3 DEF CreateUser, UpdateUser, DeleteUser, IssueUserEnrollment, ChangeGroups,
                        CreateUserRecoverySession
    <3> QED
      BY <3>1, AccBeginStep
  <2>4. CASE AccStep(p)
    BY <2>4, AccStepKeeps
  <2>5. CASE AccRefuse(p) \/ AccFail(p) \/ AccLoseAnswer(p)
    BY <2>5, AccFailureKeeps
  <2>6. CASE AccRequestEnds(p)
    BY <2>6, AccRequestEndsKeeps
  <2> QED
    BY <2>1, <2>3, <2>4, <2>5, <2>6 DEF AccRequest
<1>3. CASE \E c \in AccCodes : LinkDies(c)
  BY <1>3, LinkDiesKeeps
<1>4. CASE AccCrash
  BY <1>4, AccCrashKeeps
<1>5. CASE AccRest
  BY <1>1, <1>5 DEF AccRest
<1> QED
  BY <1>1, <1>2, <1>3, <1>4, <1>5 DEF AccNext

\* UpdateUser, syncPocketDisabled, SetUserGroups: for any number of requests, groups and codes, and
\* whatever call fails, loses its answer or is cut off, what a request that ran alone was told it
\* did to the account stands until the next request about it: the flag in the row and at Pocket ID,
\* the groups of a PATCH in the row alone, those of SetUserGroups in both.
THEOREM AckedAccountStandsHolds == AccSpec => []AckedAccountStands
<1>1. AccInv => AckedAccountStands
  BY DEF AccInv, AccHolds, Stands, AckedAccountStands
<1> QED
  BY <1>1, AccStart, AccNextKeeps, PTL DEF AccSpec

-----------------------------------------------------------------------------
(* Devices: from the first step of a revocation on, what the device had is  *)
(* gone, still listed by the request, or in the queue.                       *)

DevStages ==
    {"rest", "claim", "ht", "htw", "token", "revision", "values", "key", "issue", "insert", "cache",
     "answer", "enroll", "list",
     "write", "keys", "secret", "ht2", "htw2", "unshare", "drive", "row", "hw", "report", "bump"}
Targets == {"forgejo_token", "htpasswd", "gateway_key"}
Rows == Devices \X Targets \X (0..MaxKeys)
DevRequest ==
    [at : DevStages, seen : SUBSET Devices, todo : SUBSET (Codes \cup Keys \cup Rows),
     row : Rows \cup {NoRow}, rev : Nat, val : Nat]

EnvType ==
    /\ code \in [Codes -> {"fresh", "expired"} \cup Devices]
    /\ member \subseteq Devices /\ value \in Nat /\ revision \in Nat
ListsAre ==
    /\ device \in [Devices -> {"none", "live", "revoked"}]
    /\ htfile \subseteq Devices /\ htserved \subseteq Devices /\ token \subseteq Devices
    /\ keyrow \in [Keys -> {"none", "valid", "revoked"}] /\ bearer \subseteq Keys
    /\ pending \subseteq Rows
    /\ report \in [Devices -> {"none", "unconfirmed", "revoked"}]
DevType == EnvType /\ ListsAre /\ req \in [DevProcs -> DevRequest]

\* What a list that a request works through is made of, and who rewrites the file at its own turn.
Rewrites(p) == p[1] = "enroll" \/ p \in Revokes
ListsType ==
    /\ \A p \in DevProcs : DevAt(p) \in {"row", "hw"} => req[p].todo \subseteq Rows
    /\ \A p \in DevProcs : DevAt(p) = "hw" => req[p].row \in Rows /\ req[p].row[2] = "htpasswd"
    /\ \A p \in DevProcs : DevAt(p) \in {"htw", "htw2"} => Rewrites(p)
    /\ \A d \in Devices : DevAt(<<"enroll", d>>) = "claim" => req[<<"enroll", d>>].todo \subseteq Codes
    /\ \A d \in Devices : DevAt(<<"revoke", d>>) = "key" => req[<<"revoke", d>>].todo \subseteq KeysOf(d)
    /\ \A d \in Devices : DevAt(<<"fetch", d>>) = "insert" => req[<<"fetch", d>>].todo \subseteq KeysOf(d)

\* The stages of a revocation after which the keys, the token and the line are gone or queued.
AfterLine == {"unshare", "list", "write", "drive", "row", "hw", "report"}
AfterToken == {"ht2", "htw2"} \cup AfterLine
AfterKeys == {"secret", "token"} \cup AfterToken
Stage(d) == DevAt(<<"revoke", d>>)
Reached(d, stages) == Stage(d) \in stages \/ report[d] # "none"
RevokeBegun(d) == Reached(d, DevStages \ {"rest"})

\* A device that is being revoked, or was, enrolls and fetches no more.
ClosedTo(d) ==
    RevokeBegun(d) => /\ device[d] = "revoked"
                      /\ DevAt(<<"enroll", d>>) = "rest" /\ DevAt(<<"fetch", d>>) = "rest"

\* The keys the gateway still accepts are on the list or in the queue.
Held(d, keys) == \A k \in KeysOf(d) : k \in Recorded => k \in keys \/ <<d, "gateway_key", k[2]>> \in pending
KeysGone(d) ==
    /\ Stage(d) = "key" => Held(d, req[<<"revoke", d>>].todo)
    /\ Reached(d, AfterKeys) => Held(d, {})

TokenGone(d) == (Reached(d, AfterToken) /\ d \in token) => <<d, "forgejo_token", 0>> \in pending

\* The line is in the file no more, and nobody is about to write it back.
Removes(p, d) ==
    \/ p = <<"revoke", d>> /\ DevAt(p) \in {"htw", "htw2"}
    \/ DevAt(p) = "hw" /\ req[p].row[1] = d
LineGone(d) == Reached(d, AfterLine) =>
    /\ d \notin htfile /\ (d \in htserved => <<d, "htpasswd", 0>> \in pending)
    /\ \A p \in DevProcs : DevAt(p) \in {"htw", "htw2", "hw"} => d \notin req[p].seen \/ Removes(p, d)

Parts(d) == ClosedTo(d) /\ KeysGone(d) /\ TokenGone(d) /\ LineGone(d)
DevHolds ==
    \A d \in Devices : ~raced[d] => Parts(d) /\ (InFlight(<<"revoke", d>>) => ~Overlaps(d))
DevInv == DevType /\ raced \in [Devices -> BOOLEAN] /\ ListsType /\ DevHolds

-----------------------------------------------------------------------------
LEMMA HoldsTracked == ASSUME DevInv PROVE RevokedIsTracked
<1> SUFFICES ASSUME NEW d \in Devices, report[d] # "none", ~raced[d], NEW x \in LiveAt(d)
             PROVE  x \in pending
  BY DEF RevokedIsTracked
<1>1. Parts(d) /\ Reached(d, AfterKeys) /\ Reached(d, AfterToken) /\ Reached(d, AfterLine)
  BY DEF DevInv, DevHolds, Reached
<1>2. \/ x = <<d, "forgejo_token", 0>> /\ d \in token
      \/ x = <<d, "htpasswd", 0>> /\ d \in htserved
      \/ \E k \in KeysOf(d) \cap Recorded : x = <<d, "gateway_key", k[2]>>
  BY DEF LiveAt
<1> QED
  BY <1>1, <1>2 DEF Parts, KeysGone, Held, TokenGone, LineGone

\* One request's record.
LEMMA RestIs == AtRest \in DevRequest /\ AtRest.at = "rest"
BY DEF AtRest, NoRow, DevRequest, DevStages, Rows

\* A step is one request's; what it is about.
Moves(p, r) == p \in DevProcs /\ r \in DevRequest /\ req' = [req EXCEPT ![p] = r]
Kept(p, r) == r.seen = req[p].seen /\ r.todo = req[p].todo /\ r.row = req[p].row
Went(p, at) == \E r \in DevRequest : Moves(p, r) /\ r.at = at /\ (at = "rest" \/ Kept(p, r))
WentWith(p, at, seen, todo) ==
    \E r \in DevRequest : Moves(p, r) /\ r.at = at /\ r.seen = seen /\ r.todo = todo

LEMMA StepIs ==
    ASSUME DevType, NEW p \in DevProcs, NEW at \in DevStages, Step(p, at)
    PROVE  Went(p, at)
<1>1. req[p] \in DevRequest
  BY DEF DevType
<1>2. CASE at = "rest"
  BY <1>2, RestIs DEF Step, Went, Moves
<1>3. CASE at # "rest"
  <2> DEFINE r == [req[p] EXCEPT !.at = at]
  <2>1. r \in DevRequest /\ r.at = at /\ r.seen = req[p].seen /\ r.todo = req[p].todo /\ r.row = req[p].row
    BY <1>1 DEF DevRequest
  <2>2. req' = [req EXCEPT ![p] = r]
    BY <1>3 DEF Step
  <2> HIDE DEF r
  <2> QED
    BY <1>3, <2>1, <2>2 DEF Went, Moves, Kept
<1> QED
  BY <1>2, <1>3

LEMMA StepWithIs ==
    ASSUME DevType, NEW p \in DevProcs, NEW at \in DevStages, NEW seen \in SUBSET Devices,
           NEW todo \in SUBSET (Codes \cup Keys \cup Rows), StepWith(p, at, seen, todo)
    PROVE  WentWith(p, at, seen, todo)
<1> DEFINE r == [req[p] EXCEPT !.at = at, !.seen = seen, !.todo = todo]
<1>1. req[p] \in DevRequest /\ req \in [DevProcs -> DevRequest]
  BY DEF DevType
<1>2. r \in DevRequest /\ r.at = at /\ r.seen = seen /\ r.todo = todo /\ r.row = req[p].row
  BY <1>1 DEF DevRequest
<1>3. req' = [req EXCEPT ![p] = r]
  BY <1>1 DEF StepWith
<1> HIDE DEF r
<1> QED
  BY <1>2, <1>3 DEF WentWith, Moves

LEMMA MovesIs ==
    ASSUME DevType, NEW p, NEW r, Moves(p, r)
    PROVE  /\ req' \in [DevProcs -> DevRequest] /\ req'[p] = r
           /\ \A q \in DevProcs : q # p => req'[q] = req[q]
           /\ \A q \in DevProcs : q # p => DevAt(q)' = DevAt(q)
           /\ DevAt(p)' = r.at
BY DEF DevType, Moves, DevAt

LEMMA ProcsAre ==
    ASSUME NEW d \in Devices
    PROVE  /\ <<"enroll", d>> \in DevProcs /\ <<"revoke", d>> \in DevProcs /\ <<"fetch", d>> \in DevProcs
           /\ <<"share", d>> \in DevProcs /\ <<"revoke", d>> \in Revokes
BY DEF DevProcs, Enrolls, Revokes, Fetches, Shares
LEMMA LoopsAre == Retry \in DevProcs /\ Poll \in DevProcs /\ <<"put", "env">> \in DevProcs
BY DEF DevProcs

ListsOf(p, r) ==
    /\ r.at \in {"row", "hw"} => r.todo \subseteq Rows
    /\ r.at = "hw" => r.row \in Rows /\ r.row[2] = "htpasswd"
    /\ r.at \in {"htw", "htw2"} => Rewrites(p)
    /\ p[1] = "enroll" /\ r.at = "claim" => r.todo \subseteq Codes
    /\ p[1] = "revoke" /\ r.at = "key" => r.todo \subseteq KeysOf(p[2])
    /\ p[1] = "fetch" /\ r.at = "insert" => r.todo \subseteq KeysOf(p[2])
LEMMA ListsKeep ==
    ASSUME DevType, ListsType, NEW p, NEW r, Moves(p, r), ListsOf(p, r)
    PROVE  ListsType'
<1>1. /\ req'[p] = r /\ DevAt(p)' = r.at
      /\ \A q \in DevProcs : q # p => req'[q] = req[q] /\ DevAt(q)' = DevAt(q)
  BY MovesIs
<1>2. \A q \in DevProcs : DevAt(q)' \in {"row", "hw"} => req'[q].todo \subseteq Rows
  BY <1>1 DEF ListsType, ListsOf
<1>3. \A q \in DevProcs : DevAt(q)' = "hw" => req'[q].row \in Rows /\ req'[q].row[2] = "htpasswd"
  BY <1>1 DEF ListsType, ListsOf
<1>6. \A q \in DevProcs : DevAt(q)' \in {"htw", "htw2"} => Rewrites(q)
  BY <1>1 DEF ListsType, ListsOf
<1>4. ASSUME NEW d \in Devices, DevAt(<<"enroll", d>>)' = "claim"
      PROVE  req'[<<"enroll", d>>].todo \subseteq Codes
  <2>1. <<"enroll", d>> \in DevProcs /\ <<"enroll", d>>[1] = "enroll"
    BY ProcsAre
  <2>2. CASE p = <<"enroll", d>>
    BY <1>1, <1>4, <2>1, <2>2 DEF ListsOf
  <2>3. CASE p # <<"enroll", d>>
    BY <1>1, <1>4, <2>1, <2>3 DEF ListsType
  <2> QED
    BY <2>2, <2>3
<1>5. ASSUME NEW d \in Devices, DevAt(<<"revoke", d>>)' = "key"
      PROVE  req'[<<"revoke", d>>].todo \subseteq KeysOf(d)
  <2>1. <<"revoke", d>> \in DevProcs /\ <<"revoke", d>>[1] = "revoke" /\ <<"revoke", d>>[2] = d
    BY ProcsAre
  <2>2. CASE p = <<"revoke", d>>
    BY <1>1, <1>5, <2>1, <2>2 DEF ListsOf
  <2>3. CASE p # <<"revoke", d>>
    BY <1>1, <1>5, <2>1, <2>3 DEF ListsType
  <2> QED
    BY <2>2, <2>3
<1>7. ASSUME NEW d \in Devices, DevAt(<<"fetch", d>>)' = "insert"
      PROVE  req'[<<"fetch", d>>].todo \subseteq KeysOf(d)
  <2>1. <<"fetch", d>> \in DevProcs /\ <<"fetch", d>>[1] = "fetch" /\ <<"fetch", d>>[2] = d
    BY ProcsAre
  <2>2. CASE p = <<"fetch", d>>
    BY <1>1, <1>7, <2>1, <2>2 DEF ListsOf
  <2>3. CASE p # <<"fetch", d>>
    BY <1>1, <1>7, <2>1, <2>3 DEF ListsType
  <2> QED
    BY <2>2, <2>3
<1> QED
  BY <1>2, <1>3, <1>4, <1>5, <1>6, <1>7 DEF ListsType, Rewrites

LEMMA ClosedKeeps ==
    ASSUME DevType, NEW d \in Devices, ClosedTo(d), NEW p, NEW r, Moves(p, r),
           (RevokeBegun(d) /\ device[d] = "revoked") => device'[d] = "revoked",
           RevokeBegun(d)' => RevokeBegun(d),
           p \in {<<"enroll", d>>, <<"fetch", d>>} => r.at = "rest" \/ ~RevokeBegun(d)
    PROVE  ClosedTo(d)'
BY MovesIs, ProcsAre DEF ClosedTo

LEMMA KeysKeep ==
    ASSUME DevType, NEW d \in Devices, KeysGone(d),
           \A k \in KeysOf(d) : k \in Recorded' =>
               /\ k \in Recorded
               /\ <<d, "gateway_key", k[2]>> \in pending => <<d, "gateway_key", k[2]>> \in pending',
           Stage(d)' = "key" => Stage(d) = "key" /\ req'[<<"revoke", d>>].todo = req[<<"revoke", d>>].todo,
           Reached(d, AfterKeys)' => Reached(d, AfterKeys)
    PROVE  KeysGone(d)'
<1>1. Reached(d, AfterKeys)' => Held(d, {})'
  BY DEF KeysGone, Held, KeysOf, Keys
<1>2. ASSUME Stage(d)' = "key" PROVE Held(d, req[<<"revoke", d>>].todo)'
  <2>1. Held(d, req[<<"revoke", d>>].todo)
    BY <1>2 DEF KeysGone
  <2>2. req'[<<"revoke", d>>].todo = req[<<"revoke", d>>].todo
    BY <1>2
  <2> QED
    BY <2>1, <2>2 DEF Held, KeysOf, Keys
<1> QED
  BY <1>1, <1>2 DEF KeysGone

LEMMA TokenKeeps ==
    ASSUME NEW d \in Devices, TokenGone(d),
           d \in token' => /\ d \in token
                           /\ <<d, "forgejo_token", 0>> \in pending => <<d, "forgejo_token", 0>> \in pending',
           Reached(d, AfterToken)' => Reached(d, AfterToken)
    PROVE  TokenGone(d)'
BY DEF TokenGone

LEMMA LineKeeps ==
    ASSUME DevType, NEW d \in Devices, LineGone(d), NEW p, NEW r, Moves(p, r),
           Reached(d, AfterLine)' => Reached(d, AfterLine),
           Reached(d, AfterLine) => /\ d \notin htfile'
                                    /\ d \in htserved' => d \in htserved
                                    /\ (d \in htserved' /\ <<d, "htpasswd", 0>> \in pending)
                                           => <<d, "htpasswd", 0>> \in pending',
           (r.at \in {"htw", "htw2", "hw"} /\ Reached(d, AfterLine)) =>
               d \notin r.seen \/ (r.at = "hw" /\ r.row[1] = d)
    PROVE  LineGone(d)'
<1>1. SUFFICES ASSUME Reached(d, AfterLine)'
               PROVE  /\ d \notin htfile' /\ (d \in htserved' => <<d, "htpasswd", 0>> \in pending')
                      /\ \A q \in DevProcs : DevAt(q)' \in {"htw", "htw2", "hw"}
                                               => d \notin req'[q].seen \/ Removes(q, d)'
  BY DEF LineGone
<1>2. Reached(d, AfterLine)
  BY <1>1
<1>3. /\ d \notin htfile /\ (d \in htserved => <<d, "htpasswd", 0>> \in pending)
      /\ \A q \in DevProcs : DevAt(q) \in {"htw", "htw2", "hw"} => d \notin req[q].seen \/ Removes(q, d)
  BY <1>2 DEF LineGone
<1>4. ASSUME NEW q \in DevProcs, DevAt(q)' \in {"htw", "htw2", "hw"}
      PROVE  d \notin req'[q].seen \/ Removes(q, d)'
  <2>1. CASE q = p
    BY <1>2, <1>4, <2>1, MovesIs DEF Removes
  <2>2. CASE q # p
    BY <1>3, <1>4, <2>2, MovesIs DEF Removes
  <2> QED
    BY <2>1, <2>2
<1> QED
  BY <1>2, <1>3, <1>4

Lists == <<htfile, htserved, token, keyrow, bearer, pending>>

\* Without a new row, the keys that are accepted and recorded are as they were, or fewer.
LEMMA RecordedStay ==
    ASSUME keyrow' = keyrow, bearer' \subseteq bearer
    PROVE  Recorded' \subseteq Recorded
BY DEF Recorded

\* A stage of a revocation that says no more than the one before it.
Follows(from, at) ==
    /\ at # "key"
    /\ at \in AfterKeys => from \in AfterKeys
    /\ at \in AfterToken => from \in AfterToken
    /\ at \in AfterLine => from \in AfterLine
    /\ at # "rest" => from # "rest"
StageKeeps(d, p, r) == p = <<"revoke", d>> => Follows(Stage(d), r.at)

LEMMA StagesKept ==
    ASSUME DevType, NEW d \in Devices, NEW p, NEW r, Moves(p, r), StageKeeps(d, p, r), report'[d] = report[d]
    PROVE  /\ RevokeBegun(d)' => RevokeBegun(d)
           /\ Stage(d)' = "key" => Stage(d) = "key" /\ req'[<<"revoke", d>>].todo = req[<<"revoke", d>>].todo
           /\ Reached(d, AfterKeys)' => Reached(d, AfterKeys)
           /\ Reached(d, AfterToken)' => Reached(d, AfterToken)
           /\ Reached(d, AfterLine)' => Reached(d, AfterLine)
<1>1. CASE p = <<"revoke", d>>
  <2>1. Stage(d)' = r.at /\ r.at \in DevStages
    BY <1>1, MovesIs DEF Stage, Moves, DevRequest
  <2>2. Stage(d) \in DevStages
    BY ProcsAre DEF DevType, Stage, DevAt, DevRequest
  <2> QED
    BY <1>1, <2>1, <2>2 DEF StageKeeps, Follows, Reached, RevokeBegun
<1>2. CASE p # <<"revoke", d>>
  <2>1. Stage(d)' = Stage(d) /\ req'[<<"revoke", d>>] = req[<<"revoke", d>>]
    BY <1>2, MovesIs, ProcsAre DEF Stage
  <2> QED
    BY <2>1 DEF Reached, RevokeBegun
<1> QED
  BY <1>1, <1>2

\* The step of a request that the revocation of d does not notice.
Entitled(d, p, r) == p \in {<<"enroll", d>>, <<"fetch", d>>} => r.at = "rest" \/ ~RevokeBegun(d)
ReadsClean(d, r) ==
    (r.at \in {"htw", "htw2", "hw"} /\ Reached(d, AfterLine)) =>
        d \notin r.seen \/ (r.at = "hw" /\ r.row[1] = d)
Turns(d, p, r) == StageKeeps(d, p, r) /\ Entitled(d, p, r) /\ ReadsClean(d, r)

\* What was gone stays gone, what is left stays queued.
KeysFade(d) ==
    \A k \in KeysOf(d) : k \in Recorded' =>
        /\ k \in Recorded
        /\ <<d, "gateway_key", k[2]>> \in pending => <<d, "gateway_key", k[2]>> \in pending'
TokenFades(d) ==
    d \in token' => /\ d \in token
                    /\ <<d, "forgejo_token", 0>> \in pending => <<d, "forgejo_token", 0>> \in pending'
LineFades(d) ==
    Reached(d, AfterLine) => /\ d \notin htfile'
                             /\ d \in htserved' => d \in htserved
                             /\ (d \in htserved' /\ <<d, "htpasswd", 0>> \in pending)
                                    => <<d, "htpasswd", 0>> \in pending'
Fades(d) ==
    /\ RevokeBegun(d) => KeysFade(d) /\ TokenFades(d)
    /\ LineFades(d)

LEMMA BegunIs ==
    ASSUME DevType, NEW d \in Devices
    PROVE  /\ Stage(d) = "key" => RevokeBegun(d)
           /\ Reached(d, AfterKeys) => RevokeBegun(d)
           /\ Reached(d, AfterToken) => RevokeBegun(d)
           /\ Reached(d, AfterLine) => RevokeBegun(d)
BY DEF Reached, RevokeBegun, DevStages, AfterKeys, AfterToken, AfterLine

LEMMA PartsKeep ==
    ASSUME DevType, NEW d \in Devices, Parts(d), NEW p, NEW r, Moves(p, r), Turns(d, p, r), Fades(d),
           (RevokeBegun(d) /\ device[d] = "revoked") => device'[d] = "revoked", report'[d] = report[d]
    PROVE  Parts(d)'
<1>1. /\ RevokeBegun(d)' => RevokeBegun(d)
      /\ Stage(d)' = "key" => Stage(d) = "key" /\ req'[<<"revoke", d>>].todo = req[<<"revoke", d>>].todo
      /\ Reached(d, AfterKeys)' => Reached(d, AfterKeys)
      /\ Reached(d, AfterToken)' => Reached(d, AfterToken)
      /\ Reached(d, AfterLine)' => Reached(d, AfterLine)
  BY StagesKept DEF Turns
<1>2. ClosedTo(d)'
  BY <1>1, ClosedKeeps DEF Parts, Turns, Entitled
<1>3. KeysGone(d)'
  <2>1. CASE RevokeBegun(d)
    BY <1>1, <2>1, KeysKeep DEF Parts, Fades, KeysFade
  <2>2. CASE ~RevokeBegun(d)
    <3>1. ~(Stage(d) = "key") /\ ~Reached(d, AfterKeys)
      BY <2>2, BegunIs
    <3>2. ~(Stage(d)' = "key") /\ ~Reached(d, AfterKeys)'
      BY <1>1, <3>1
    <3> QED
      BY <3>2 DEF KeysGone
  <2> QED
    BY <2>1, <2>2
<1>4. TokenGone(d)'
  <2>1. CASE RevokeBegun(d)
    BY <1>1, <2>1, TokenKeeps DEF Parts, Fades, TokenFades
  <2>2. CASE ~RevokeBegun(d)
    <3>1. ~Reached(d, AfterToken)
      BY <2>2, BegunIs
    <3> QED
      BY <1>1, <3>1 DEF TokenGone
  <2> QED
    BY <2>1, <2>2
<1>5. LineGone(d)'
  BY <1>1, LineKeeps DEF Parts, Turns, ReadsClean, Fades, LineFades
<1> QED
  BY <1>2, <1>3, <1>4, <1>5 DEF Parts

LEMMA Assembled ==
    ASSUME DevInv, NoteRaces, DevType', ListsType',
           \A d \in Devices : (~raced[d] /\ (InFlight(<<"revoke", d>>) => ~Overlaps(d))') => Parts(d)'
    PROVE  DevInv'
<1>1. raced' = [d \in Devices |-> raced[d] \/ (InFlight(<<"revoke", d>>) /\ Overlaps(d))']
  BY DEF NoteRaces
<1>2. raced \in [Devices -> BOOLEAN]
  BY DEF DevInv
<1>3. \A d \in Devices : (raced[d] \/ (InFlight(<<"revoke", d>>) /\ Overlaps(d))') \in BOOLEAN
  OBVIOUS
<1>4. raced' \in [Devices -> BOOLEAN]
  BY <1>1, <1>3
<1>5. ASSUME NEW d \in Devices, ~raced'[d]
      PROVE  ~raced[d] /\ (InFlight(<<"revoke", d>>) => ~Overlaps(d))'
  BY <1>1, <1>5
<1> QED
  BY <1>4, <1>5 DEF DevInv, DevHolds

\* A step that touches nothing the revocations are about.
Calm(p, r) ==
    /\ \A d \in Devices : StageKeeps(d, p, r)
    /\ \A d \in Devices : p \in {<<"enroll", d>>, <<"fetch", d>>} =>
                              r.at = "rest" \/ DevAt(p) # "rest" \/ device[d] # "revoked"
    /\ r.at \in {"htw", "htw2", "hw"} => r.seen = htfile

LEMMA CalmTurns ==
    ASSUME DevInv, NEW p, NEW r, Moves(p, r), Calm(p, r), NEW d \in Devices, ~raced[d]
    PROVE  Turns(d, p, r)
<1>1. Parts(d)
  BY DEF DevInv, DevHolds
<1>2. Entitled(d, p, r)
  <2> SUFFICES ASSUME p \in {<<"enroll", d>>, <<"fetch", d>>}, r.at # "rest", RevokeBegun(d)
               PROVE  FALSE
    BY DEF Entitled
  <2>1. device[d] = "revoked" /\ DevAt(p) = "rest"
    BY <1>1 DEF Parts, ClosedTo
  <2> QED
    BY <2>1 DEF Calm
<1>3. ReadsClean(d, r)
  BY <1>1 DEF ReadsClean, Calm, Parts, LineGone
<1> QED
  BY <1>2, <1>3 DEF Turns, Calm

LEMMA CalmFades ==
    ASSUME NEW d \in Devices, UNCHANGED Lists, Parts(d)
    PROVE  Fades(d)
<1>1. htfile' = htfile /\ htserved' = htserved /\ token' = token /\ bearer' = bearer /\ pending' = pending
      /\ keyrow' = keyrow
  BY DEF Lists
<1>2. Reached(d, AfterLine) => d \notin htfile
  BY DEF Parts, LineGone
<1> QED
  BY <1>1, <1>2, RecordedStay DEF Fades, KeysFade, TokenFades, LineFades

LEMMA CalmStep ==
    ASSUME DevInv, NoteRaces, NEW p, NEW r, Moves(p, r), ListsOf(p, r), Calm(p, r),
           UNCHANGED Lists, report' = report, device' = device, keyrow' = keyrow, EnvType'
    PROVE  DevInv'
<1>1. DevType /\ ListsType
  BY DEF DevInv, DevHolds
<1>2. htfile' = htfile /\ htserved' = htserved /\ token' = token /\ bearer' = bearer /\ pending' = pending
      /\ keyrow' = keyrow
  BY DEF Lists
<1>3. DevType'
  BY <1>1, <1>2, MovesIs DEF DevType, ListsAre
<1>4. ListsType'
  BY <1>1, ListsKeep
<1>6. ASSUME NEW d \in Devices, ~raced[d] PROVE Parts(d)'
  <2>1. Parts(d)
    BY <1>6 DEF DevInv, DevHolds
  <2>2. Turns(d, p, r) /\ Fades(d)
    BY <1>6, <2>1, CalmTurns, CalmFades
  <2> QED
    BY <1>1, <2>1, <2>2, PartsKeep
<1> QED
  BY <1>3, <1>4, <1>6, Assembled

\* Who the request of a step is.
LEMMA Bystander ==
    ASSUME NEW p, NEW r, p \notin Revokes
    PROVE  \A d \in Devices : StageKeeps(d, p, r)
BY ProcsAre DEF StageKeeps

LEMMA KindsAre ==
    ASSUME NEW d \in Devices
    PROVE  /\ /\ <<"enroll", d>> \notin Revokes /\ <<"fetch", d>> \notin Revokes
           /\ <<"share", d>> \notin Revokes
           /\ \A e \in Devices :
                /\ <<"revoke", d>> \notin {<<"enroll", e>>, <<"fetch", e>>}
                /\ <<"share", d>> \notin {<<"enroll", e>>, <<"fetch", e>>}
                /\ <<"enroll", d>> \in {<<"enroll", e>>, <<"fetch", e>>} => e = d
                /\ <<"fetch", d>> \in {<<"enroll", e>>, <<"fetch", e>>} => e = d
BY DEF Revokes

LEMMA LoopKindsAre ==
    /\ Retry \notin Revokes /\ Poll \notin Revokes /\ <<"put", "env">> \notin Revokes
    /\ \A e \in Devices : {Retry, Poll, <<"put", "env">>} \cap {<<"enroll", e>>, <<"fetch", e>>} = {}
BY DEF Revokes, Retry, Poll

-----------------------------------------------------------------------------
(* Steps that the revocations do not notice.                                *)

LEMMA StillType ==
    ASSUME DevType, UNCHANGED <<code, member, value, revision>>
    PROVE  EnvType'
BY DEF DevType, EnvType

Entered(p, at) ==
    \A e \in Devices : p \in {<<"enroll", e>>, <<"fetch", e>>} =>
                          at = "rest" \/ DevAt(p) # "rest" \/ device[e] # "revoked"
OnTheWay(p, at) == (\A d \in Devices : p = <<"revoke", d>> => Follows(Stage(d), at)) /\ Entered(p, at)
Quiet == UNCHANGED Lists /\ report' = report /\ device' = device /\ keyrow' = keyrow /\ EnvType'

LEMMA CalmWent ==
    ASSUME DevInv, NoteRaces, NEW p \in DevProcs,
           NEW at \in DevStages \ {"claim", "key", "insert", "row", "htw", "htw2", "hw"},
           Step(p, at), OnTheWay(p, at), Quiet
    PROVE  DevInv'
<1>1. DevType
  BY DEF DevInv
<1>2. Went(p, at)
  BY <1>1, StepIs
<1>3. PICK r \in DevRequest : Moves(p, r) /\ r.at = at
  BY <1>2 DEF Went
<1>4. ListsOf(p, r) /\ Calm(p, r)
  BY <1>3 DEF ListsOf, Calm, StageKeeps, OnTheWay, Entered
<1> QED
  BY <1>3, <1>4, CalmStep DEF Quiet

LEMMA CalmWith ==
    ASSUME DevInv, NoteRaces, NEW p \in DevProcs, NEW at \in DevStages \ {"key", "insert", "hw"},
           NEW seen \in SUBSET Devices, NEW todo \in SUBSET (Codes \cup Keys \cup Rows),
           StepWith(p, at, seen, todo), OnTheWay(p, at), Quiet,
           at = "claim" => todo \subseteq Codes, at = "row" => todo \subseteq Rows,
           at \in {"htw", "htw2"} => seen = htfile /\ Rewrites(p)
    PROVE  DevInv'
<1>1. DevType
  BY DEF DevInv
<1>2. WentWith(p, at, seen, todo)
  BY <1>1, StepWithIs
<1>3. PICK r \in DevRequest : Moves(p, r) /\ r.at = at /\ r.seen = seen /\ r.todo = todo
  BY <1>2 DEF WentWith
<1>4. ListsOf(p, r) /\ Calm(p, r)
  BY <1>3 DEF ListsOf, Calm, StageKeeps, OnTheWay, Entered
<1> QED
  BY <1>3, <1>4, CalmStep DEF Quiet

\* The request in flight, and its list.
LEMMA TodoOf ==
    ASSUME DevType, NEW p \in DevProcs
    PROVE  /\ req[p] \in DevRequest /\ req[p].todo \in SUBSET (Codes \cup Keys \cup Rows)
           /\ req[p].seen \in SUBSET Devices
BY DEF DevType, DevRequest

\* Enrollment.
LEMMA CheckCodeKeeps ==
    ASSUME DevInv, NoteRaces, NEW d \in Devices, NEW p, p = <<"enroll", d>>, CheckCode(d)
    PROVE  DevInv'
<1>1. DevType /\ p \in DevProcs
  BY ProcsAre DEF DevInv
<1>2. PICK c \in Codes : StepWith(p, "claim", {}, {c})
  BY DEF CheckCode
<1>3. OnTheWay(p, "claim")
  BY KindsAre DEF CheckCode, OnTheWay, Entered
<1>4. Quiet
  BY <1>1, StillType DEF CheckCode, Quiet, Lists, envVars, keyVars, htVars, syncVars
<1>5. "claim" \in DevStages \ {"key", "insert", "hw"} /\ {c} \in SUBSET (Codes \cup Keys \cup Rows)
  BY DEF DevStages
<1> QED
  BY <1>1, <1>2, <1>3, <1>4, <1>5, CalmWith

LEMMA ReadsHtpasswdKeeps ==
    ASSUME DevInv, NoteRaces, NEW p \in DevProcs, NEW from, NEW to \in {"htw", "htw2"},
           Rewrites(p), readHtpasswd(p, from, to), OnTheWay(p, to), Quiet
    PROVE  DevInv'
<1>1. DevType
  BY DEF DevInv
<1>2. StepWith(p, to, htfile, req[p].todo) /\ req[p].todo \in SUBSET (Codes \cup Keys \cup Rows)
  BY <1>1, TodoOf DEF readHtpasswd
<1>3. to \in DevStages \ {"key", "insert", "hw"} /\ htfile \in SUBSET Devices
  BY <1>1 DEF DevStages, DevType, ListsAre
<1> QED
  BY <1>2, <1>3, CalmWith

LEMMA EnvironmentKeeps ==
    ASSUME DevInv, NoteRaces, PutToolEnv \/ \E d \in Devices : SetGrant(d)
    PROVE  DevInv'
<1> DEFINE p == <<"put", "env">>
<1>1. DevType /\ p \in DevProcs
  BY LoopsAre DEF DevInv
<1>2. \A at : OnTheWay(p, at)
  BY LoopKindsAre, ProcsAre DEF OnTheWay, Entered
<1>3. PICK at \in {"bump", "rest"} : Step(p, at)
  BY DEF PutToolEnv, SetGrant
<1>4. UNCHANGED <<code, member, device, report, keyrow, Lists>>
  BY DEF PutToolEnv, SetGrant, Lists, envVars, keyVars, htVars, syncVars
<1>5. value' \in Nat /\ revision' \in Nat
  BY <1>1 DEF DevType, EnvType, PutToolEnv, SetGrant, IncrementRevision
<1>6. Quiet
  BY <1>1, <1>4, <1>5 DEF Quiet, DevType, EnvType
<1>7. at \in DevStages \ {"claim", "key", "insert", "row", "htw", "htw2", "hw"}
  BY DEF DevStages
<1> HIDE DEF p
<1> QED
  BY <1>1, <1>2, <1>3, <1>6, <1>7, CalmWent

\* The environment a device fetches.
LEMMA FetchKeeps ==
    ASSUME DevInv, NoteRaces, NEW d \in Devices, NEW p, p = <<"fetch", d>>,
           FetchStart(d) \/ FetchAnswer(d) \/ (FetchValues(d) /\ d \notin granted)
    PROVE  DevInv'
<1>1. DevType /\ p \in DevProcs
  BY ProcsAre DEF DevInv
<1>2. PICK at \in {"revision", "rest"} : Step(p, at) /\ (at = "rest" \/ device[d] = "live")
  BY DEF FetchStart, FetchAnswer, FetchValues, IsDeviceGranted
<1>3. OnTheWay(p, at)
  BY <1>2, KindsAre DEF OnTheWay, Entered
<1>4. Quiet
  BY <1>1, StillType DEF FetchStart, FetchAnswer, FetchValues, Quiet, Lists, envVars, keyVars, htVars,
     syncVars
<1>5. at \in DevStages \ {"claim", "key", "insert", "row", "htw", "htw2", "hw"}
  BY DEF DevStages
<1> QED
  BY <1>1, <1>2, <1>3, <1>4, <1>5, CalmWent

LEMMA FetchReadsKeep ==
    ASSUME DevInv, NoteRaces, NEW d \in Devices, NEW p, p = <<"fetch", d>>,
           FetchRevision(d) \/ (FetchValues(d) /\ d \in granted)
    PROVE  DevInv'
<1>1. DevType /\ p \in DevProcs /\ req[p] \in DevRequest
  BY ProcsAre, TodoOf DEF DevInv
<1>2. PICK at \in {"values", "key"}, rev \in Nat, val \in Nat :
          req' = [req EXCEPT ![p] = [req[p] EXCEPT !.at = at, !.rev = rev, !.val = val]]
  <2>1. CASE FetchRevision(d)
    <3>1. req' = [req EXCEPT ![p] = [req[p] EXCEPT !.at = "values", !.rev = revision, !.val = req[p].val]]
      BY <1>1, <2>1 DEF FetchRevision, DevRequest, DevType
    <3> QED
      BY <1>1, <3>1 DEF DevRequest, DevType, EnvType
  <2>2. CASE FetchValues(d) /\ d \in granted
    <3>1. req' = [req EXCEPT ![p] = [req[p] EXCEPT !.at = "key", !.rev = req[p].rev, !.val = value]]
      BY <1>1, <2>2 DEF FetchValues, IsDeviceGranted, DevRequest, DevType
    <3> QED
      BY <1>1, <3>1 DEF DevRequest, DevType, EnvType
  <2> QED
    BY <2>1, <2>2
<1> DEFINE r == [req[p] EXCEPT !.at = at, !.rev = rev, !.val = val]
<1>3. r \in DevRequest /\ r.at = at
  BY <1>1 DEF DevRequest, DevStages
<1>4. Moves(p, r)
  BY <1>1, <1>2, <1>3 DEF Moves
<1> HIDE DEF r
<1>5. ListsOf(p, r)
  BY <1>3 DEF ListsOf
<1>6. Calm(p, r)
  <2>1. DevAt(p) # "rest" /\ p \notin Revokes
    BY KindsAre DEF FetchRevision, FetchValues
  <2> QED
    BY <1>3, <2>1, Bystander DEF Calm
<1>7. Quiet
  BY <1>1, StillType DEF FetchRevision, FetchValues, Quiet, Lists, envVars, keyVars, htVars, syncVars
<1> QED
  BY <1>4, <1>5, <1>6, <1>7, CalmStep DEF Quiet

\* Folders.
LEMMA ReconcileKeeps ==
    ASSUME DevInv, NoteRaces, NEW p \in DevProcs, NEW after \in {"rest", "drive"},
           \A e \in Devices : p \notin {<<"enroll", e>>, <<"fetch", e>>},
           p \in Revokes => after = "drive", reconcileFolder(p, after)
    PROVE  DevInv'
<1>1. DevType /\ Quiet
  <2>1. DevType
    BY DEF DevInv
  <2> QED
    BY <2>1, StillType DEF reconcileFolder, Quiet, Lists, envVars, keyVars, htVars
<1>2. CASE DevAt(p) = "list" /\ StepWith(p, "write", member, req[p].todo)
  <2>1. OnTheWay(p, "write")
    BY <1>2 DEF OnTheWay, Entered, Follows, Stage, AfterKeys, AfterToken, AfterLine
  <2>2. "write" \in DevStages \ {"key", "insert", "hw"} /\ member \in SUBSET Devices
    BY <1>1 DEF DevStages, DevType, EnvType
  <2> QED
    BY <1>1, <1>2, <2>1, <2>2, TodoOf, CalmWith
<1>3. CASE DevAt(p) = "write" /\ Step(p, after)
  <2>1. OnTheWay(p, after)
    BY <1>3 DEF OnTheWay, Entered, Follows, Stage, AfterKeys, AfterToken, AfterLine, Revokes
  <2>2. after \in DevStages \ {"claim", "key", "insert", "row", "htw", "htw2", "hw"}
    BY DEF DevStages
  <2> QED
    BY <1>1, <1>3, <2>1, <2>2, CalmWent
<1> QED
  BY <1>2, <1>3 DEF reconcileFolder

LEMMA ShareKeeps ==
    ASSUME DevInv, NoteRaces, NEW d \in Devices, NEW p, p = <<"share", d>>,
           CreateCompanionSyncFolder(d) \/ EnrollDevice(d)
    PROVE  DevInv'
<1>1. DevType /\ p \in DevProcs
  BY ProcsAre DEF DevInv
<1>2. PICK at \in {"enroll", "list"} : Step(p, at)
  BY DEF CreateCompanionSyncFolder, EnrollDevice
<1>3. OnTheWay(p, at)
  BY KindsAre DEF OnTheWay, Entered
<1>4. Quiet
  <2>1. member' \subseteq Devices /\ UNCHANGED <<code, value, revision>>
    BY <1>1 DEF CreateCompanionSyncFolder, EnrollDevice, DevType, EnvType, syncVars, envVars
  <2> QED
    BY <1>1, <2>1 DEF CreateCompanionSyncFolder, EnrollDevice, Quiet, Lists, htVars, keyVars, DevType,
       EnvType
<1>5. at \in DevStages \ {"claim", "key", "insert", "row", "htw", "htw2", "hw"}
  BY DEF DevStages
<1> QED
  BY <1>1, <1>2, <1>3, <1>4, <1>5, CalmWent

LEMMA PollKeeps == ASSUME DevInv, NoteRaces, PollSyncthing PROVE DevInv'
<1>1. DevType /\ Poll \in DevProcs /\ Poll \notin Revokes
      /\ \A e \in Devices : Poll \notin {<<"enroll", e>>, <<"fetch", e>>}
  BY LoopsAre, LoopKindsAre DEF DevInv
<1>2. CASE reconcileFolder(Poll, "rest")
  BY <1>1, <1>2, ReconcileKeeps
<1>3. CASE ~reconcileFolder(Poll, "rest")
  <2>1. Step(Poll, "list") /\ Quiet
    BY <1>1, <1>3, StillType DEF PollSyncthing, Quiet, Lists, envVars, keyVars, htVars, syncVars
  <2>2. OnTheWay(Poll, "list")
    BY <1>1, ProcsAre DEF OnTheWay, Entered
  <2>3. "list" \in DevStages \ {"claim", "key", "insert", "row", "htw", "htw2", "hw"}
    BY DEF DevStages
  <2> QED
    BY <1>1, <2>1, <2>2, <2>3, CalmWent
<1> QED
  BY <1>2, <1>3

\* The steps of a revocation that change no list.
LEMMA RevokeGoesOn ==
    ASSUME DevInv, NoteRaces, NEW d \in Devices, NEW p, p = <<"revoke", d>>,
           RevokeSecret(d) \/ RemoveCompanionDevice(d) \/ RetryPendingEnd(p, "report")
    PROVE  DevInv'
<1>1. DevType /\ p \in DevProcs
  BY ProcsAre DEF DevInv
<1>2. PICK at \in {"token", "list", "drive", "report"} : Step(p, at) /\ Follows(DevAt(p), at)
  BY DEF RevokeSecret, RemoveCompanionDevice, RetryPendingEnd, Follows, AfterKeys, AfterToken, AfterLine
<1>3. OnTheWay(p, at)
  BY <1>2, KindsAre DEF OnTheWay, Entered, Stage
<1>4. Quiet
  <2>1. member' \subseteq Devices /\ UNCHANGED <<code, value, revision>>
    BY <1>1 DEF RevokeSecret, RemoveCompanionDevice, RetryPendingEnd, RemoveMember, DevType, EnvType,
                syncVars, envVars
  <2> QED
    BY <1>1, <2>1 DEF RevokeSecret, RemoveCompanionDevice, RetryPendingEnd, Quiet, Lists, htVars,
       keyVars,
                      DevType, EnvType
<1>5. at \in DevStages \ {"claim", "key", "insert", "row", "htw", "htw2", "hw"}
  BY DEF DevStages
<1> QED
  BY <1>1, <1>2, <1>3, <1>4, <1>5, CalmWent

LEMMA RevokeReads ==
    ASSUME DevInv, NoteRaces, NEW d \in Devices, NEW p, p = <<"revoke", d>>, UNCHANGED htVars,
           \/ RevokeHtpasswd(d) /\ DevAt(p) = "ht"
           \/ RemoveDeviceBackupCredentials(d) /\ DevAt(p) = "ht2"
    PROVE  DevInv'
<1>1. DevType /\ p \in DevProcs
  BY ProcsAre DEF DevInv
<1>2. PICK from \in {"ht", "ht2"} : /\ readHtpasswd(p, from, IF from = "ht" THEN "htw" ELSE "htw2")
                                   /\ DevAt(p) = from
  BY DEF RevokeHtpasswd, RemoveDeviceBackupCredentials
<1>3. PICK to \in {"htw", "htw2"} : to = IF from = "ht" THEN "htw" ELSE "htw2"
  OBVIOUS
<1>4. OnTheWay(p, to)
  BY <1>2, <1>3, KindsAre DEF OnTheWay, Entered, Stage, Follows, AfterKeys, AfterToken, AfterLine
<1>5. Quiet
  BY <1>1, StillType DEF RevokeHtpasswd, RemoveDeviceBackupCredentials, Quiet, Lists, envVars,
     keyVars, htVars,
                         syncVars
<1>6. Rewrites(p)
  BY ProcsAre DEF Rewrites
<1> QED
  BY <1>1, <1>2, <1>3, <1>4, <1>5, <1>6, ReadsHtpasswdKeeps

LEMMA EnrollReads ==
    ASSUME DevInv, NoteRaces, NEW d \in Devices, NEW p, p = <<"enroll", d>>,
           ensureMachineBackupCredentials(d), DevAt(p) = "ht"
    PROVE  DevInv'
<1>1. DevType /\ p \in DevProcs
  BY ProcsAre DEF DevInv
<1>2. readHtpasswd(p, "ht", "htw") /\ UNCHANGED htVars
  BY DEF ensureMachineBackupCredentials
<1>3. OnTheWay(p, "htw")
  BY KindsAre DEF OnTheWay, Entered
<1>4. Quiet
  BY <1>1, <1>2, StillType DEF ensureMachineBackupCredentials, Quiet, Lists, envVars, keyVars, htVars,
     syncVars
<1>5. Rewrites(p)
  BY DEF Rewrites
<1> QED
  BY <1>1, <1>2, <1>3, <1>4, <1>5, ReadsHtpasswdKeeps

\* The queue is listed; the rows of the file are read for; the end of the list.
LEMMA QueueListed ==
    ASSUME DevInv, NoteRaces, NEW p \in DevProcs, NEW from,
           \A e \in Devices : p \notin {<<"enroll", e>>, <<"fetch", e>>},
           p \in Revokes => from = "drive", ListRevocationPending(p, from)
    PROVE  DevInv'
<1>1. DevType
  BY DEF DevInv
<1>2. StepWith(p, "row", {}, pending) /\ DevAt(p) = from
  BY DEF ListRevocationPending
<1>3. OnTheWay(p, "row")
  BY <1>2 DEF OnTheWay, Entered, Stage, Follows, AfterKeys, AfterToken, AfterLine, Revokes
<1>4. Quiet
  BY <1>1, StillType DEF ListRevocationPending, Quiet, Lists, envVars, keyVars, htVars, syncVars
<1>5. "row" \in DevStages \ {"key", "insert", "hw"} /\ {} \in SUBSET Devices /\ pending \subseteq Rows
      /\ pending \in SUBSET (Codes \cup Keys \cup Rows)
  BY <1>1 DEF DevStages, DevType, ListsAre
<1> QED
  BY <1>2, <1>3, <1>4, <1>5, CalmWith

LEMMA LoopEnds == ASSUME DevInv, NoteRaces, RetryPendingEnd(Retry, "rest") PROVE DevInv'
<1>1. DevType /\ Retry \in DevProcs
  BY LoopsAre DEF DevInv
<1>2. Step(Retry, "rest") /\ Quiet
  BY <1>1, StillType DEF RetryPendingEnd, Quiet, Lists, envVars, keyVars, htVars, syncVars
<1>3. OnTheWay(Retry, "rest") /\ "rest" \in DevStages \ {"claim", "key", "insert", "row", "htw", "htw2", "hw"}
  BY LoopKindsAre, ProcsAre DEF OnTheWay, Entered, DevStages
<1> QED
  BY <1>1, <1>2, <1>3, CalmWent

LEMMA CutOffKeeps == ASSUME DevInv, NoteRaces, NEW p \in DevProcs, CutOff(p) PROVE DevInv'
<1>1. DevType
  BY DEF DevInv
<1>2. Step(p, "rest") /\ Quiet
  BY <1>1, StillType DEF CutOff, Quiet, Lists, envVars, keyVars, htVars, syncVars
<1>3. OnTheWay(p, "rest") /\ "rest" \in DevStages \ {"claim", "key", "insert", "row", "htw", "htw2", "hw"}
  BY DEF OnTheWay, Entered, DevStages, Follows, AfterKeys, AfterToken, AfterLine
<1> QED
  BY <1>2, <1>3, CalmWent

-----------------------------------------------------------------------------
(* Steps that change a list.                                                *)

LEMMA TurnStep ==
    ASSUME DevInv, NoteRaces, NEW p, NEW r, Moves(p, r), ListsOf(p, r), EnvType', ListsAre',
           \A d \in Devices : (~raced[d] /\ (InFlight(<<"revoke", d>>) => ~Overlaps(d))') => Parts(d)'
    PROVE  DevInv'
<1>1. DevType /\ ListsType
  BY DEF DevInv
<1>2. DevType'
  BY <1>1, MovesIs DEF DevType
<1>3. ListsType'
  BY <1>1, ListsKeep
<1> QED
  BY <1>2, <1>3, Assembled

LEMMA PartsOf == ASSUME DevInv, NEW d \in Devices, ~raced[d] PROVE Parts(d)
BY DEF DevInv, DevHolds

\* A step that another's revocation survives: what it did to the lists, and the request's turn.
LEMMA OthersKeep ==
    ASSUME DevInv, NEW p, NEW r, Moves(p, r), Calm(p, r), NEW d \in Devices, ~raced[d], Fades(d),
           (RevokeBegun(d) /\ device[d] = "revoked") => device'[d] = "revoked", report'[d] = report[d]
    PROVE  Parts(d)'
<1>1. DevType /\ Parts(d)
  BY PartsOf DEF DevInv
<1>2. Turns(d, p, r)
  BY CalmTurns
<1> QED
  BY <1>1, <1>2, PartsKeep

\* The file: what the one who writes it has read.
LEMMA SeenIsClean ==
    ASSUME DevInv, NEW d \in Devices, ~raced[d], Reached(d, AfterLine),
           NEW p \in DevProcs, DevAt(p) \in {"htw", "htw2", "hw"}, ~Removes(p, d)
    PROVE  d \notin req[p].seen
BY PartsOf DEF Parts, LineGone

LEMMA WriteFades ==
    ASSUME DevInv, NEW d \in Devices, ~raced[d], NEW lines, writeHtpasswd(lines),
           Reached(d, AfterLine) => d \notin lines,
           token' = token, keyrow' = keyrow, bearer' = bearer, pending \subseteq pending'
    PROVE  Fades(d)
<1>1. htfile' = lines /\ (htserved' = lines \/ htserved' = htserved)
  BY DEF writeHtpasswd
<1>2. KeysFade(d) /\ TokenFades(d)
  BY RecordedStay DEF KeysFade, TokenFades
<1>3. LineFades(d)
  BY <1>1 DEF LineFades
<1> QED
  BY <1>2, <1>3 DEF Fades

LEMMA ClaimCodeKeeps ==
    ASSUME DevInv, NoteRaces, NEW d \in Devices, NEW p, p = <<"enroll", d>>, ClaimCode(d)
    PROVE  DevInv'
<1>1. DevType /\ p \in DevProcs /\ p \notin Revokes /\ DevAt(p) = "claim" /\ ListsType
  BY ProcsAre, KindsAre DEF DevInv, DevHolds, ClaimCode
<1>2. PICK at \in {"ht", "rest"} : Step(p, at)
  BY DEF ClaimCode
<1>3. Went(p, at)
  BY <1>1, <1>2, StepIs DEF DevStages
<1>4. PICK r \in DevRequest : Moves(p, r) /\ r.at = at
  BY <1>3 DEF Went
<1>5. ListsOf(p, r) /\ Calm(p, r)
  BY <1>1, <1>4, Bystander DEF ListsOf, Calm
<1>6. UNCHANGED Lists /\ report' = report /\ keyrow' = keyrow /\ UNCHANGED <<member, value, revision>>
  BY DEF ClaimCode, Lists, envVars, keyVars, htVars, syncVars
<1>7. /\ device' \in [Devices -> {"none", "live", "revoked"}]
      /\ code' \in [Codes -> {"fresh", "expired"} \cup Devices]
      /\ \A e \in Devices : e # d => device'[e] = device[e]
  <2>1. req[p].todo \subseteq Codes
    BY <1>1 DEF ListsType
  <2> QED
    BY <1>1, <2>1 DEF ClaimCode, DevType, EnvType, ListsAre
<1>8. EnvType' /\ ListsAre'
  BY <1>1, <1>6, <1>7 DEF DevType, EnvType, ListsAre, Lists
<1>9. ASSUME NEW e \in Devices, ~raced[e] PROVE Parts(e)'
  <2>1. Parts(e) /\ Fades(e)
    BY <1>6, <1>9, PartsOf, CalmFades
  <2>2. RevokeBegun(e) => e # d
    BY <1>1, <2>1 DEF Parts, ClosedTo
  <2> QED
    BY <1>4, <1>5, <1>6, <1>7, <1>9, <2>1, <2>2, OthersKeep
<1> QED
  BY <1>4, <1>5, <1>8, <1>9, TurnStep

LEMMA EnrollWrites ==
    ASSUME DevInv, NoteRaces, NEW d \in Devices, NEW p, p = <<"enroll", d>>,
           ensureMachineBackupCredentials(d), DevAt(p) = "htw"
    PROVE  DevInv'
<1>1. DevType /\ p \in DevProcs /\ p \notin Revokes
  BY ProcsAre, KindsAre DEF DevInv, DevHolds
<1>2. writeHtpasswd(req[p].seen \cup {d}) /\ Step(p, "token")
  BY DEF ensureMachineBackupCredentials, readHtpasswd
<1>3. Went(p, "token")
  BY <1>1, <1>2, StepIs DEF DevStages
<1>4. PICK r \in DevRequest : Moves(p, r) /\ r.at = "token"
  BY <1>3 DEF Went
<1>5. ListsOf(p, r) /\ Calm(p, r)
  BY <1>1, <1>4, Bystander DEF ListsOf, Calm
<1>6. UNCHANGED <<code, device, token, pending, report, member, value, revision, keyrow, bearer>>
  BY DEF ensureMachineBackupCredentials, envVars, keyVars, syncVars
<1>7. req[p].seen \cup {d} \subseteq Devices
  BY <1>1, TodoOf
<1>8. EnvType' /\ ListsAre'
  BY <1>1, <1>2, <1>6, <1>7 DEF DevType, EnvType, ListsAre, writeHtpasswd
<1>9. ASSUME NEW e \in Devices, ~raced[e] PROVE Parts(e)'
  <2>1. Reached(e, AfterLine) => e \notin req[p].seen
    BY <1>1, <1>9, SeenIsClean DEF Removes, Revokes
  <2>2. Reached(e, AfterLine) => e # d
    BY <1>1, <1>9, PartsOf, BegunIs DEF Parts, ClosedTo
  <2>3. Fades(e)
    BY <1>2, <1>6, <1>9, <2>1, <2>2, WriteFades
  <2> QED
    BY <1>4, <1>5, <1>6, <1>9, <2>3, OthersKeep
<1> QED
  BY <1>4, <1>5, <1>8, <1>9, TurnStep

LEMMA EnrollTokenKeeps ==
    ASSUME DevInv, NoteRaces, NEW d \in Devices, NEW p, p = <<"enroll", d>>, EnrollToken(d)
    PROVE  DevInv'
<1>1. DevType /\ p \in DevProcs /\ p \notin Revokes /\ DevAt(p) = "token"
  BY ProcsAre, KindsAre DEF DevInv, DevHolds, EnrollToken
<1>2. Went(p, "rest")
  BY <1>1, StepIs DEF DevStages, EnrollToken
<1>3. PICK r \in DevRequest : Moves(p, r) /\ r.at = "rest"
  BY <1>2 DEF Went
<1>4. ListsOf(p, r) /\ Calm(p, r)
  BY <1>1, <1>3, Bystander DEF ListsOf, Calm
<1>5. UNCHANGED <<code, device, pending, report, member, value, revision, keyrow, bearer, htfile, htserved>>
      /\ token' \subseteq token \cup {d}
  BY DEF EnrollToken, envVars, keyVars, syncVars, htVars
<1>6. EnvType' /\ ListsAre'
  BY <1>1, <1>5 DEF DevType, EnvType, ListsAre
<1>7. ASSUME NEW e \in Devices, ~raced[e] PROVE Parts(e)'
  <2>1. Parts(e)
    BY <1>7, PartsOf
  <2>2. RevokeBegun(e) => e # d
    BY <1>1, <2>1 DEF Parts, ClosedTo
  <2>3. Fades(e)
    BY <1>5, <2>1, <2>2, RecordedStay DEF Fades, KeysFade, TokenFades, LineFades, Parts, LineGone
  <2> QED
    BY <1>3, <1>4, <1>5, <1>7, <2>3, OthersKeep
<1> QED
  BY <1>3, <1>4, <1>6, <1>7, TurnStep

\* A key is revoked, issued or recorded for a device that no revocation has begun for.
LEMMA FetchIssues ==
    ASSUME DevInv, NoteRaces, NEW d \in Devices, NEW p, p = <<"fetch", d>>, ensureDeviceVirtualKey(d)
    PROVE  DevInv'
<1>1. DevType /\ ListsType /\ p \in DevProcs /\ p \notin Revokes
  BY ProcsAre, KindsAre DEF DevInv
<1>2. PICK r \in DevRequest : Moves(p, r) /\ ListsOf(p, r) /\ r.at \in {"answer", "issue", "insert", "cache"}
  <2>1. CASE \E at \in {"answer", "issue", "cache"} : Step(p, at)
    <3>1. PICK at \in {"answer", "issue", "cache"} : Step(p, at)
      BY <2>1
    <3>2. Went(p, at)
      BY <1>1, <3>1, StepIs DEF DevStages
    <3> QED
      BY <3>2 DEF Went, ListsOf
  <2>2. CASE \E k \in FreeKeys(d) : StepWith(p, "insert", {}, {k})
    <3>1. PICK k \in FreeKeys(d) : StepWith(p, "insert", {}, {k})
      BY <2>2
    <3>2. k \in KeysOf(d) /\ k \in Keys
      BY DEF FreeKeys, KeysOf
    <3>3. WentWith(p, "insert", {}, {k})
      <4>1. "insert" \in DevStages /\ {k} \in SUBSET (Codes \cup Keys \cup Rows)
        BY <3>2 DEF DevStages
      <4> QED
        BY <1>1, <3>1, <4>1, StepWithIs
    <3> QED
      BY <3>2, <3>3 DEF WentWith, ListsOf
  <2> QED
    BY <2>1, <2>2 DEF ensureDeviceVirtualKey, ReuseOrRevoke, IssueKey, InsertKey, CacheKey
<1>3. DevAt(p) # "rest"
  BY DEF ensureDeviceVirtualKey, ReuseOrRevoke, IssueKey, InsertKey, CacheKey
<1>4. Calm(p, r)
  BY <1>1, <1>2, <1>3, Bystander DEF Calm
<1>5. UNCHANGED <<code, device, token, pending, report, member, value, htfile, htserved>>
  BY DEF ensureDeviceVirtualKey, syncVars, htVars
<1>6. revision' \in Nat
  BY <1>1 DEF ensureDeviceVirtualKey, ReuseOrRevoke, IssueKey, InsertKey, CacheKey, IncrementRevision,
     DevType, EnvType
<1>7. /\ keyrow' \in [Keys -> {"none", "valid", "revoked"}] /\ bearer' \subseteq Keys
      /\ \A k \in Keys : k \in Recorded' => k \in Recorded \/ k \in KeysOf(d)
  <2>1. CASE ReuseOrRevoke(d)
    BY <1>1, <2>1 DEF ReuseOrRevoke, DevType, ListsAre, Recorded, ValidKeys
  <2>2. CASE IssueKey(d)
    BY <1>1, <2>2 DEF IssueKey, DevType, ListsAre, Recorded, FreeKeys, KeysOf
  <2>3. CASE InsertKey(d)
    <3>1. req[p].todo \subseteq KeysOf(d) /\ KeysOf(d) \subseteq Keys
      BY <1>1, <2>3 DEF InsertKey, ListsType, KeysOf
    <3> QED
      BY <1>1, <2>3, <3>1 DEF InsertKey, DevType, ListsAre, Recorded
  <2>4. CASE CacheKey(d)
    BY <1>1, <2>4 DEF CacheKey, DevType, ListsAre, Recorded
  <2> QED
    BY <2>1, <2>2, <2>3, <2>4 DEF ensureDeviceVirtualKey
<1>8. EnvType' /\ ListsAre'
  BY <1>1, <1>5, <1>6, <1>7 DEF DevType, EnvType, ListsAre
<1>9. ASSUME NEW e \in Devices, ~raced[e] PROVE Parts(e)'
  <2>1. Parts(e)
    BY <1>9, PartsOf
  <2>2. RevokeBegun(e) => e # d
    BY <1>3, <2>1 DEF Parts, ClosedTo
  <2>3. RevokeBegun(e) => \A k \in KeysOf(e) : k \in Recorded' => k \in Recorded
    BY <1>7, <2>2 DEF KeysOf
  <2>4. Fades(e)
    BY <1>5, <2>1, <2>3 DEF Fades, KeysFade, TokenFades, LineFades, Parts, LineGone
  <2> QED
    BY <1>2, <1>4, <1>5, <1>9, <2>4, OthersKeep
<1> QED
  BY <1>2, <1>4, <1>8, <1>9, TurnStep

\* The rows of the queue.
LEMMA QueueRowKeeps ==
    ASSUME DevInv, NoteRaces, NEW p \in DevProcs, RetryPendingRow(p),
           \A e \in Devices : p \notin {<<"enroll", e>>, <<"fetch", e>>}
    PROVE  DevInv'
<1>1. DevType /\ ListsType /\ DevAt(p) = "row" /\ req[p] \in DevRequest
  BY TodoOf DEF DevInv, DevHolds, RetryPendingRow
<1>2. req[p].todo \subseteq Rows
  BY <1>1 DEF ListsType
<1>3. UNCHANGED <<code, device, report, member, value, revision, keyrow, htfile, htserved>>
  BY DEF RetryPendingRow, syncVars, htVars, envVars
<1>4. PICK x \in req[p].todo :
        \/ /\ x[2] = "htpasswd"
           /\ req' = [req EXCEPT ![p].at = "hw", ![p].seen = htfile, ![p].row = x]
           /\ UNCHANGED <<token, bearer, pending>>
        \/ /\ x[2] # "htpasswd" /\ Confirmed(x)
           /\ token' = IF x[2] = "forgejo_token" /\ Answers("forgejo") THEN token \ {x[1]} ELSE token
           /\ bearer' = IF x[2] = "gateway_key" /\ Answers("gateway") THEN bearer \ {<<x[1], x[3]>>}
                        ELSE bearer
           /\ StepWith(p, "row", {}, req[p].todo \ {x})
  BY DEF RetryPendingRow
<1>5. x \in Rows
  BY <1>2
<1>6. CASE x[2] = "htpasswd"
  <2> DEFINE r == [req[p] EXCEPT !.at = "hw", !.seen = htfile, !.row = x]
  <2>1. /\ r \in DevRequest /\ r.at = "hw" /\ r.seen = htfile /\ r.row = x /\ r.todo = req[p].todo
        /\ req' = [req EXCEPT ![p] = r]
    BY <1>1, <1>4, <1>5, <1>6 DEF DevRequest, DevStages, DevType, ListsAre
  <2> HIDE DEF r
  <2>2. Moves(p, r) /\ ListsOf(p, r)
    BY <1>2, <1>5, <1>6, <2>1 DEF Moves, ListsOf
  <2>3. Calm(p, r)
    BY <1>1, <2>1 DEF Calm, StageKeeps, Stage, Follows, AfterKeys, AfterToken, AfterLine
  <2>4. Quiet
    BY <1>1, <1>3, <1>4, <1>6, StillType DEF Quiet, Lists
  <2> QED
    BY <2>2, <2>3, <2>4, CalmStep DEF Quiet
<1>7. CASE x[2] # "htpasswd"
  <2>1. WentWith(p, "row", {}, req[p].todo \ {x})
    <3>1. /\ "row" \in DevStages /\ {} \in SUBSET Devices
          /\ req[p].todo \ {x} \in SUBSET (Codes \cup Keys \cup Rows)
      BY <1>2 DEF DevStages
    <3> QED
      BY <1>1, <1>4, <1>7, <3>1, StepWithIs
  <2>2. PICK r \in DevRequest : Moves(p, r) /\ r.at = "row" /\ r.todo = req[p].todo \ {x}
    BY <2>1 DEF WentWith
  <2>3. ListsOf(p, r) /\ Calm(p, r)
    BY <1>1, <1>2, <2>2 DEF ListsOf, Calm, StageKeeps, Stage, Follows, AfterKeys, AfterToken, AfterLine
  <2>4. token' \subseteq token /\ bearer' \subseteq bearer /\ pending' \subseteq Rows
    BY <1>1, <1>4, <1>5, <1>7 DEF Confirmed, DevType, ListsAre
  <2>5. EnvType' /\ ListsAre'
    BY <1>1, <1>3, <2>4 DEF DevType, EnvType, ListsAre
  <2>6. ASSUME NEW y \in pending, y \notin pending'
        PROVE  y = x /\ Answers(Confirms(x))
    BY <1>4, <1>7, <2>6 DEF Confirmed
  <2>7. ASSUME NEW e \in Devices, ~raced[e] PROVE Parts(e)'
    <3>1. KeysFade(e)
      <4> SUFFICES ASSUME NEW k \in KeysOf(e), k \in bearer', <<e, "gateway_key", k[2]>> \in pending,
                          <<e, "gateway_key", k[2]>> \notin pending'
                   PROVE  FALSE
        BY <1>3, <2>4, RecordedStay DEF KeysFade, Recorded
      <4>1. x = <<e, "gateway_key", k[2]>> /\ Answers(Confirms(x))
        BY <2>6
      <4>2. k = <<e, k[2]>>
        BY DEF KeysOf, Keys
      <4>3. x[1] = e /\ x[2] = "gateway_key" /\ x[3] = k[2]
        BY <4>1
      <4>4. Answers("gateway")
        BY <4>1, <4>3 DEF Confirms
      <4> QED
        BY <1>4, <4>2, <4>3, <4>4
    <3>2. TokenFades(e)
      <4> SUFFICES ASSUME e \in token', <<e, "forgejo_token", 0>> \in pending,
                          <<e, "forgejo_token", 0>> \notin pending'
                   PROVE  FALSE
        BY <2>4 DEF TokenFades
      <4>1. x = <<e, "forgejo_token", 0>> /\ Answers(Confirms(x))
        BY <2>6
      <4>2. x[1] = e /\ x[2] = "forgejo_token"
        BY <4>1
      <4>3. Answers("forgejo")
        BY <4>1, <4>2 DEF Confirms
      <4> QED
        BY <1>4, <4>2, <4>3
    <3>3. LineFades(e)
      <4>1. <<e, "htpasswd", 0>> \in pending => <<e, "htpasswd", 0>> \in pending'
        BY <1>7, <2>6
      <4>2. Reached(e, AfterLine) => e \notin htfile
        BY <2>7, PartsOf DEF Parts, LineGone
      <4> QED
        BY <1>3, <4>1, <4>2 DEF LineFades
    <3> QED
      BY <1>3, <2>2, <2>3, <2>7, <3>1, <3>2, <3>3, OthersKeep DEF Fades
  <2> QED
    BY <2>2, <2>3, <2>5, <2>7, TurnStep
<1> QED
  BY <1>6, <1>7

LEMMA QueueLineKeeps ==
    ASSUME DevInv, NoteRaces, NEW p \in DevProcs, RetryHtpasswdRow(p),
           \A e \in Devices : p \notin {<<"enroll", e>>, <<"fetch", e>>}
    PROVE  DevInv'
<1>1. DevType /\ ListsType /\ DevAt(p) = "hw" /\ req[p] \in DevRequest
  BY TodoOf DEF DevInv, DevHolds, RetryHtpasswdRow
<1>2. UNCHANGED <<code, device, token, report, member, value, revision, keyrow, bearer>>
  BY DEF RetryHtpasswdRow, syncVars, keyVars, envVars
<1> DEFINE x == req[p].row
<1> DEFINE lines == req[p].seen \ {x[1]}
<1>3. x \in Rows /\ x[2] = "htpasswd" /\ req[p].todo \subseteq Rows /\ lines \subseteq Devices
  BY <1>1, TodoOf DEF ListsType
<1>4. writeHtpasswd(lines) /\ Confirmed(x) /\ StepWith(p, "row", {}, req[p].todo \ {x})
  BY DEF RetryHtpasswdRow
<1>5. WentWith(p, "row", {}, req[p].todo \ {x})
  <2>1. /\ "row" \in DevStages /\ {} \in SUBSET Devices
        /\ req[p].todo \ {x} \in SUBSET (Codes \cup Keys \cup Rows)
    BY <1>3 DEF DevStages
  <2> QED
    BY <1>1, <1>4, <2>1, StepWithIs
<1>6. PICK r \in DevRequest : Moves(p, r) /\ r.at = "row" /\ r.todo = req[p].todo \ {x}
  BY <1>5 DEF WentWith
<1> HIDE DEF x
<1>7. ListsOf(p, r) /\ Calm(p, r)
  BY <1>1, <1>3, <1>6 DEF ListsOf, Calm, StageKeeps, Stage, Follows, AfterKeys, AfterToken, AfterLine
<1>8. pending' \subseteq Rows /\ \A y \in pending : y \in pending' \/ (y = x /\ Answers("restic"))
  BY <1>1, <1>3, <1>4 DEF Confirmed, Confirms, DevType, ListsAre
<1>9. EnvType' /\ ListsAre'
  BY <1>1, <1>2, <1>3, <1>4, <1>8 DEF DevType, EnvType, ListsAre, writeHtpasswd
<1>10. ASSUME NEW e \in Devices, ~raced[e] PROVE Parts(e)'
  <2>1. KeysFade(e) /\ TokenFades(e)
    <3>1. /\ \A n : <<e, "gateway_key", n>> # x
          /\ <<e, "forgejo_token", 0>> # x
      BY <1>3
    <3> QED
      BY <1>2, <1>8, <3>1, RecordedStay DEF KeysFade, TokenFades
  <2>2. Reached(e, AfterLine) => e \notin lines
    <3>1. CASE x[1] = e
      BY <3>1
    <3>2. CASE x[1] # e
      <4>1. ~Removes(p, e)
        BY <1>1, <3>2 DEF Removes, x
      <4> QED
        BY <1>1, <1>10, <4>1, SeenIsClean
    <3> QED
      BY <3>1, <3>2
  <2>3. LineFades(e)
    <3> SUFFICES ASSUME Reached(e, AfterLine)
                 PROVE  /\ e \notin htfile' /\ (e \in htserved' => e \in htserved)
                        /\ (e \in htserved' /\ <<e, "htpasswd", 0>> \in pending)
                               => <<e, "htpasswd", 0>> \in pending'
      BY DEF LineFades
    <3>1. htfile' = lines /\ htserved' = IF Answers("restic") THEN lines ELSE htserved
      BY <1>4 DEF writeHtpasswd
    <3> QED
      BY <1>8, <2>2, <3>1
  <2> QED
    BY <1>2, <1>6, <1>7, <1>10, <2>1, <2>3, OthersKeep DEF Fades
<1> QED
  BY <1>6, <1>7, <1>9, <1>10, TurnStep

\* The revocation of one device: the request begins, and the device is closed.
LEMMA RevokeDeviceKeeps ==
    ASSUME DevInv, NoteRaces, NEW d \in Devices, NEW p, p = <<"revoke", d>>, RevokeDevice(d)
    PROVE  DevInv'
<1>1. DevType /\ p \in DevProcs /\ DevAt(p) = "rest" /\ Step(p, "ht")
  BY ProcsAre DEF DevInv, DevHolds, RevokeDevice
<1>2. Went(p, "ht")
  BY <1>1, StepIs DEF DevStages
<1>3. PICK r \in DevRequest : Moves(p, r) /\ r.at = "ht"
  BY <1>2 DEF Went
<1>4. UNCHANGED Lists /\ UNCHANGED <<code, report, member, value, revision, keyrow>>
      /\ device' = [device EXCEPT ![d] = "revoked"]
  BY DEF RevokeDevice, Lists, syncVars, keyVars, envVars, htVars
<1>5. EnvType' /\ ListsAre'
  BY <1>1, <1>4 DEF DevType, EnvType, ListsAre, Lists
<1>6. ListsOf(p, r)
  BY <1>3 DEF ListsOf
<1>7. ASSUME NEW e \in Devices, ~raced[e], (InFlight(<<"revoke", e>>) => ~Overlaps(e))' PROVE Parts(e)'
  <2>1. Parts(e) /\ Fades(e)
    BY <1>4, <1>7, PartsOf, CalmFades
  <2>2. /\ (RevokeBegun(e) /\ device[e] = "revoked") => device'[e] = "revoked"
        /\ device'[d] = "revoked" /\ report'[e] = report[e]
    BY <1>1, <1>4 DEF DevType, ListsAre
  <2>3. CASE e # d
    <3>1. Turns(e, p, r)
      BY <1>3, <2>3 DEF Turns, StageKeeps, Entitled, ReadsClean
    <3> QED
      BY <1>1, <1>3, <2>1, <2>2, <3>1, PartsKeep
  <2>4. CASE e = d
    <3>1. Stage(d)' = "ht" /\ p = <<"revoke", d>>
      BY <1>1, <1>3, MovesIs DEF Stage
    <3>2. ~Overlaps(d)'
      BY <1>7, <2>4, <3>1 DEF InFlight, Stage, DevAt
    <3>3. DevAt(<<"enroll", d>>)' = "rest" /\ DevAt(<<"fetch", d>>)' = "rest"
      BY <3>2, ProcsAre DEF Overlaps, InFlight, DevAt
    <3>4. ClosedTo(d)'
      BY <2>2, <3>3 DEF ClosedTo
    <3>5. /\ Reached(d, AfterKeys)' => Reached(d, AfterKeys)
          /\ Reached(d, AfterToken)' => Reached(d, AfterToken)
          /\ Reached(d, AfterLine)' => Reached(d, AfterLine)
      BY <1>4, <3>1 DEF Reached, AfterKeys, AfterToken, AfterLine
    <3>6. htfile' = htfile /\ htserved' = htserved /\ token' = token /\ Recorded' = Recorded
          /\ pending' = pending
      BY <1>4 DEF Lists, Recorded
    <3>7. KeysGone(d)'
      BY <1>1, <2>1, <2>4, <3>1, <3>5, <3>6, KeysKeep DEF Parts
    <3>8. TokenGone(d)'
      BY <2>1, <2>4, <3>5, <3>6, TokenKeeps DEF Parts
    <3>9. LineGone(d)'
      <4>1. Reached(d, AfterLine) => d \notin htfile
        BY <2>1, <2>4 DEF Parts, LineGone
      <4> QED
        BY <1>1, <1>3, <2>1, <2>4, <3>5, <3>6, <4>1, LineKeeps DEF Parts
    <3> QED
      BY <2>4, <3>4, <3>7, <3>8, <3>9 DEF Parts
  <2> QED
    BY <2>3, <2>4
<1> QED
  BY <1>3, <1>5, <1>6, <1>7, TurnStep

LEMMA RevokeWrites ==
    ASSUME DevInv, NoteRaces, NEW d \in Devices, NEW p, p = <<"revoke", d>>,
           RevokeHtpasswd(d), DevAt(p) = "htw"
    PROVE  DevInv'
<1>1. DevType /\ p \in DevProcs
  BY ProcsAre DEF DevInv, DevHolds
<1>2. writeHtpasswd(req[p].seen \ {d}) /\ Step(p, "keys")
  BY DEF RevokeHtpasswd, readHtpasswd
<1>3. Went(p, "keys")
  BY <1>1, <1>2, StepIs DEF DevStages
<1>4. PICK r \in DevRequest : Moves(p, r) /\ r.at = "keys"
  BY <1>3 DEF Went
<1>5. ListsOf(p, r) /\ Calm(p, r)
  BY <1>1, <1>4, KindsAre DEF ListsOf, Calm, StageKeeps, Stage, Follows, AfterKeys, AfterToken,
     AfterLine
<1>6. UNCHANGED <<code, device, token, pending, report, member, value, revision, keyrow, bearer>>
  BY DEF RevokeHtpasswd, envVars, keyVars, syncVars
<1>7. req[p].seen \subseteq Devices
  BY <1>1, TodoOf
<1>8. EnvType' /\ ListsAre'
  BY <1>1, <1>2, <1>6, <1>7 DEF DevType, EnvType, ListsAre, writeHtpasswd
<1>9. ASSUME NEW e \in Devices, ~raced[e] PROVE Parts(e)'
  <2>1. (Reached(e, AfterLine) /\ e # d) => e \notin req[p].seen
    BY <1>1, <1>9, SeenIsClean DEF Removes
  <2>2. Fades(e)
    BY <1>2, <1>6, <1>9, <2>1, WriteFades
  <2> QED
    BY <1>4, <1>5, <1>6, <1>9, <2>2, OthersKeep
<1> QED
  BY <1>4, <1>5, <1>8, <1>9, TurnStep

\* One's own revocation, at a stage that says more than the one before it.
LEMMA OwnStep ==
    ASSUME DevInv, NoteRaces, NEW d \in Devices, NEW p, p = <<"revoke", d>>, NEW r, Moves(p, r),
           r.at \notin {"row", "hw", "htw", "htw2"}, r.at = "key" => r.todo \subseteq KeysOf(d),
           DevAt(p) # "rest", EnvType', ListsAre', device' = device,
           \A e \in Devices : (e # d /\ ~raced[e]) => Fades(e) /\ report'[e] = report[e],
           (~raced[d] /\ (InFlight(<<"revoke", d>>) => ~Overlaps(d))')
               => KeysGone(d)' /\ TokenGone(d)' /\ LineGone(d)'
    PROVE  DevInv'
<1>1. DevType /\ Stage(d) # "rest"
  BY DEF DevInv, Stage
<1>2. ListsOf(p, r)
  BY DEF ListsOf
<1>3. ASSUME NEW e \in Devices, ~raced[e], (InFlight(<<"revoke", e>>) => ~Overlaps(e))' PROVE Parts(e)'
  <2>1. Parts(e)
    BY <1>3, PartsOf
  <2>2. CASE e # d
    <3>1. Turns(e, p, r)
      BY <2>2 DEF Turns, StageKeeps, Entitled, ReadsClean
    <3> QED
      BY <1>1, <1>3, <2>1, <2>2, <3>1, PartsKeep
  <2>3. CASE e = d
    <3>1. RevokeBegun(d)
      <4>1. Stage(d) \in DevStages
        BY <1>1, ProcsAre DEF DevType, DevRequest, Stage, DevAt
      <4> QED
        BY <1>1, <4>1 DEF RevokeBegun, Reached
    <3>2. ClosedTo(d)'
      BY <1>1, <2>1, <2>3, <3>1, ClosedKeeps, KindsAre DEF Parts
    <3> QED
      BY <1>3, <2>3, <3>2 DEF Parts
  <2> QED
    BY <2>2, <2>3
<1> QED
  BY <1>2, <1>3, TurnStep

\* Where one's own revocation goes.
LEMMA OwnStageIs ==
    ASSUME DevType, NEW d \in Devices, NEW p, p = <<"revoke", d>>, NEW r, Moves(p, r)
    PROVE  Stage(d) = DevAt(p) /\ Stage(d)' = r.at /\ req'[p] = r
BY MovesIs DEF Stage

LEMMA ListKeysKeeps ==
    ASSUME DevInv, NoteRaces, NEW d \in Devices, NEW p, p = <<"revoke", d>>, ListKeys(d)
    PROVE  DevInv'
<1> DEFINE keys == {k \in KeysOf(d) : keyrow[k] # "none"}
<1>1. DevType /\ p \in DevProcs /\ DevAt(p) = "keys"
  BY ProcsAre DEF DevInv, DevHolds, ListKeys
<1>2. StepWith(p, "key", {}, keys) /\ keys \subseteq KeysOf(d) /\ keys \subseteq Keys
  BY DEF ListKeys, KeysOf
<1>3. Quiet /\ \A k \in KeysOf(d) : k \in Recorded => k \in keys
  BY <1>1, StillType DEF ListKeys, Quiet, Lists, envVars, keyVars, htVars, syncVars, Recorded
<1> HIDE DEF keys
<1>4. WentWith(p, "key", {}, keys)
  <2>1. "key" \in DevStages /\ {} \in SUBSET Devices /\ keys \in SUBSET (Codes \cup Keys \cup Rows)
    BY <1>2 DEF DevStages
  <2> QED
    BY <1>1, <1>2, <2>1, StepWithIs
<1>5. PICK r \in DevRequest : Moves(p, r) /\ r.at = "key" /\ r.todo = keys
  BY <1>4 DEF WentWith
<1>6. Stage(d) = "keys" /\ Stage(d)' = "key" /\ req'[p].todo = keys
  BY <1>1, <1>5, OwnStageIs
<1>7. htfile' = htfile /\ htserved' = htserved /\ token' = token /\ bearer' = bearer /\ pending' = pending
      /\ report' = report /\ device' = device /\ keyrow' = keyrow /\ Recorded' = Recorded /\ EnvType'
  BY <1>3 DEF Quiet, Lists, Recorded
<1>8. ListsAre'
  BY <1>1, <1>7 DEF DevType, ListsAre
<1>9. ASSUME NEW e \in Devices, e # d, ~raced[e] PROVE Fades(e) /\ report'[e] = report[e]
  BY <1>3, <1>9, PartsOf, CalmFades DEF Quiet
<1>10. ASSUME ~raced[d] PROVE KeysGone(d)' /\ TokenGone(d)' /\ LineGone(d)'
  <2>1. Parts(d)
    BY <1>10, PartsOf
  <2>2. /\ Reached(d, AfterKeys)' => Reached(d, AfterKeys)
        /\ Reached(d, AfterToken)' => Reached(d, AfterToken)
        /\ Reached(d, AfterLine)' => Reached(d, AfterLine)
    BY <1>6, <1>7 DEF Reached, AfterKeys, AfterToken, AfterLine
  <2>3. KeysGone(d)'
    <3>1. Held(d, req[<<"revoke", d>>].todo)'
      BY <1>3, <1>6, <1>7 DEF Held, KeysOf, Keys
    <3>2. Reached(d, AfterKeys)' => Held(d, {})'
      BY <1>7, <2>1, <2>2 DEF Parts, KeysGone, Held, KeysOf, Keys
    <3> QED
      BY <3>1, <3>2 DEF KeysGone
  <2>4. TokenGone(d)'
    BY <1>7, <2>1, <2>2, TokenKeeps DEF Parts
  <2>5. LineGone(d)'
    <3>1. Reached(d, AfterLine) => d \notin htfile
      BY <2>1 DEF Parts, LineGone
    <3> QED
      BY <1>1, <1>5, <1>7, <2>1, <2>2, <3>1, LineKeeps DEF Parts
  <2> QED
    BY <2>3, <2>4, <2>5
<1> QED
  BY <1>1, <1>2, <1>5, <1>7, <1>8, <1>9, <1>10, OwnStep

\* A key leaves the list when the gateway has confirmed it, or when it is queued.
LEMMA RevokeKeyKeeps ==
    ASSUME DevInv, NoteRaces, MaxKeys \in Nat, NEW d \in Devices, NEW p, p = <<"revoke", d>>, RevokeKey(d)
    PROVE  DevInv'
<1>1. /\ DevType /\ ListsType /\ p \in DevProcs /\ DevAt(p) = "key" /\ Stage(d) = "key"
      /\ req[p].todo \subseteq KeysOf(d)
  BY ProcsAre DEF DevInv, DevHolds, RevokeKey, ListsType, Stage
<1>2. UNCHANGED <<code, device, token, report, member, value, revision, htfile, htserved>>
  BY DEF RevokeKey, envVars, htVars, syncVars
<1>3. CASE \E k \in req[p].todo :
            /\ keyrow' = [keyrow EXCEPT ![k] = "revoked"]
            /\ IF Answers("gateway") THEN bearer' = bearer \ {k} /\ UNCHANGED pending
               ELSE Queue(d, "gateway_key", k[2]) /\ UNCHANGED bearer
            /\ StepWith(p, "key", {}, req[p].todo \ {k})
  <2>1. PICK k \in req[p].todo :
            /\ keyrow' = [keyrow EXCEPT ![k] = "revoked"]
            /\ IF Answers("gateway") THEN bearer' = bearer \ {k} /\ UNCHANGED pending
               ELSE Queue(d, "gateway_key", k[2]) /\ UNCHANGED bearer
            /\ StepWith(p, "key", {}, req[p].todo \ {k})
    BY <1>3
  <2> DEFINE keys == req[p].todo \ {k}
  <2>2. /\ k \in Keys /\ k = <<d, k[2]>> /\ k[2] \in 0..MaxKeys
        /\ keys \subseteq KeysOf(d) /\ keys \subseteq Keys
    BY <1>1 DEF KeysOf, Keys
  <2>3. StepWith(p, "key", {}, keys)
    BY <2>1
  <2>4. bearer' \subseteq bearer /\ pending \subseteq pending' /\ pending' \subseteq Rows
        /\ (k \in bearer' => <<d, "gateway_key", k[2]>> \in pending')
    BY <1>1, <2>1, <2>2 DEF Queue, DevType, ListsAre, Rows, Targets
  <2>5. WentWith(p, "key", {}, keys)
    <3>1. "key" \in DevStages /\ {} \in SUBSET Devices /\ keys \in SUBSET (Codes \cup Keys \cup Rows)
      BY <2>2 DEF DevStages
    <3> HIDE DEF keys
    <3> QED
      BY <1>1, <2>3, <3>1, StepWithIs
  <2>6. PICK r \in DevRequest : Moves(p, r) /\ r.at = "key" /\ r.todo = keys
    BY <2>5 DEF WentWith
  <2>7. EnvType' /\ ListsAre'
    BY <1>1, <1>2, <2>1, <2>2, <2>4 DEF DevType, EnvType, ListsAre
  <2>8. Stage(d)' = "key" /\ req'[p].todo = keys
    BY <1>1, <2>6, OwnStageIs
  <2>9. ASSUME NEW e \in Devices, ~raced[e] PROVE (e # d => KeysFade(e)) /\ TokenFades(e) /\ LineFades(e)
    <3>1. TokenFades(e) /\ LineFades(e)
      BY <1>2, <2>4, <2>9, PartsOf DEF TokenFades, LineFades, Parts, LineGone
    <3>2. ASSUME e # d, NEW y \in KeysOf(e), y \in Recorded' PROVE y \in Recorded
      <4>1. y # k /\ y \in Keys
        BY <2>2, <3>2 DEF KeysOf
      <4> QED
        BY <1>1, <2>1, <2>4, <3>2, <4>1 DEF Recorded, DevType, ListsAre
    <3> QED
      BY <2>4, <3>1, <3>2 DEF KeysFade
  <2>10. ASSUME ~raced[d] PROVE KeysGone(d)' /\ TokenGone(d)' /\ LineGone(d)'
    <3>1. Parts(d) /\ TokenFades(d) /\ LineFades(d)
      BY <2>9, <2>10, PartsOf
    <3>2. /\ Reached(d, AfterKeys)' => Reached(d, AfterKeys)
          /\ Reached(d, AfterToken)' => Reached(d, AfterToken)
          /\ Reached(d, AfterLine)' => Reached(d, AfterLine)
      BY <1>2, <2>8 DEF Reached, AfterKeys, AfterToken, AfterLine
    <3>3. KeysGone(d)'
      <4>1. Held(d, req[p].todo)
        BY <1>1, <3>1 DEF Parts, KeysGone
      <4>5. ASSUME NEW y \in KeysOf(d), y \in Recorded', y # k PROVE y \in Recorded
        <5>1. y \in Keys
          BY DEF KeysOf
        <5> QED
          BY <1>1, <2>1, <2>4, <4>5, <5>1 DEF Recorded, DevType, ListsAre
      <4>6. k \in Recorded' => <<d, "gateway_key", k[2]>> \in pending'
        BY <2>4 DEF Recorded
      <4>2. ASSUME NEW y \in KeysOf(d), y \in Recorded'
            PROVE  y \in keys \/ <<d, "gateway_key", y[2]>> \in pending'
        BY <2>4, <4>1, <4>2, <4>5, <4>6 DEF Held
      <4>3. Held(d, req[<<"revoke", d>>].todo)'
        BY <2>8, <4>2 DEF Held, KeysOf, Keys
      <4>4. Reached(d, AfterKeys)' => Held(d, {})'
        BY <2>4, <3>1, <3>2, <4>5, <4>6 DEF Parts, KeysGone, Held, KeysOf, Keys
      <4> QED
        BY <4>3, <4>4 DEF KeysGone
    <3>4. TokenGone(d)'
      BY <3>1, <3>2, TokenKeeps DEF Parts, TokenFades
    <3>5. LineGone(d)'
      BY <1>1, <2>6, <3>1, <3>2, LineKeeps DEF Parts, LineFades
    <3> QED
      BY <3>3, <3>4, <3>5
  <2> HIDE DEF keys
  <2> QED
    BY <1>1, <1>2, <2>2, <2>6, <2>7, <2>9, <2>10, OwnStep DEF Fades
<1>4. CASE req[p].todo = {} /\ Step(p, "secret") /\ UNCHANGED <<keyrow, bearer, pending>>
  <2>1. Went(p, "secret")
    BY <1>1, <1>4, StepIs DEF DevStages
  <2>2. PICK r \in DevRequest : Moves(p, r) /\ r.at = "secret"
    BY <2>1 DEF Went
  <2>3. EnvType' /\ ListsAre'
    BY <1>1, <1>2, <1>4 DEF DevType, EnvType, ListsAre
  <2>4. Stage(d)' = "secret"
    BY <1>1, <2>2, OwnStageIs
  <2>5. ASSUME NEW e \in Devices, ~raced[e] PROVE KeysFade(e) /\ TokenFades(e) /\ LineFades(e)
    BY <1>2, <1>4, <2>5, PartsOf, RecordedStay DEF KeysFade, TokenFades, LineFades, Parts, LineGone
  <2>6. ASSUME ~raced[d] PROVE KeysGone(d)' /\ TokenGone(d)' /\ LineGone(d)'
    <3>1. Parts(d) /\ KeysFade(d) /\ TokenFades(d) /\ LineFades(d)
      BY <2>5, <2>6, PartsOf
    <3>2. /\ Reached(d, AfterToken)' => Reached(d, AfterToken)
          /\ Reached(d, AfterLine)' => Reached(d, AfterLine)
      BY <1>2, <2>4 DEF Reached, AfterKeys, AfterToken, AfterLine
    <3>3. KeysGone(d)'
      <4>1. Held(d, {})
        BY <1>1, <1>4, <3>1 DEF Parts, KeysGone
      <4> QED
        BY <1>4, <2>4, <4>1, RecordedStay DEF KeysGone, Held, KeysOf, Keys
    <3>4. TokenGone(d)'
      BY <3>1, <3>2, TokenKeeps DEF Parts, TokenFades
    <3>5. LineGone(d)'
      BY <1>1, <2>2, <3>1, <3>2, LineKeeps DEF Parts, LineFades
    <3> QED
      BY <3>3, <3>4, <3>5
  <2> QED
    BY <1>1, <1>2, <2>2, <2>3, <2>5, <2>6, OwnStep DEF Fades
<1> QED
  BY <1>3, <1>4 DEF RevokeKey

LEMMA RevokeTokenKeeps ==
    ASSUME DevInv, NoteRaces, MaxKeys \in Nat, NEW d \in Devices, NEW p, p = <<"revoke", d>>, RevokeToken(d)
    PROVE  DevInv'
<1>1. DevType /\ p \in DevProcs /\ DevAt(p) = "token" /\ Stage(d) = "token" /\ Step(p, "ht2")
  BY ProcsAre DEF DevInv, DevHolds, RevokeToken, Stage
<1>2. UNCHANGED <<code, device, report, member, value, revision, htfile, htserved, bearer, keyrow>>
  BY DEF RevokeToken, envVars, htVars, syncVars, keyVars
<1>3. Went(p, "ht2")
  BY <1>1, StepIs DEF DevStages
<1>4. PICK r \in DevRequest : Moves(p, r) /\ r.at = "ht2"
  BY <1>3 DEF Went
<1>5. token' \subseteq token /\ pending \subseteq pending' /\ pending' \subseteq Rows
      /\ (d \in token' => <<d, "forgejo_token", 0>> \in pending')
  BY <1>1 DEF RevokeToken, Queue, DevType, ListsAre, Rows, Targets
<1>6. EnvType' /\ ListsAre'
  BY <1>1, <1>2, <1>5 DEF DevType, EnvType, ListsAre
<1>7. Stage(d)' = "ht2"
  BY <1>1, <1>4, OwnStageIs
<1>8. ASSUME NEW e \in Devices, ~raced[e] PROVE KeysFade(e) /\ TokenFades(e) /\ LineFades(e)
  BY <1>2, <1>5, <1>8, PartsOf, RecordedStay DEF KeysFade, TokenFades, LineFades, Parts, LineGone
<1>9. ASSUME ~raced[d] PROVE KeysGone(d)' /\ TokenGone(d)' /\ LineGone(d)'
  <2>1. Parts(d) /\ KeysFade(d) /\ TokenFades(d) /\ LineFades(d)
    BY <1>8, <1>9, PartsOf
  <2>2. /\ Reached(d, AfterKeys)' => Reached(d, AfterKeys)
        /\ Reached(d, AfterLine)' => Reached(d, AfterLine)
    BY <1>1, <1>2, <1>7 DEF Reached, AfterKeys, AfterToken, AfterLine
  <2>3. KeysGone(d)'
    BY <1>1, <1>7, <2>1, <2>2, KeysKeep DEF Parts, KeysFade
  <2>4. TokenGone(d)'
    BY <1>5 DEF TokenGone
  <2>5. LineGone(d)'
    BY <1>1, <1>4, <2>1, <2>2, LineKeeps DEF Parts, LineFades
  <2> QED
    BY <2>3, <2>4, <2>5
<1> QED
  BY <1>1, <1>2, <1>4, <1>6, <1>8, <1>9, OwnStep DEF Fades

\* Nobody else is about to write the line back when the revocation writes the file the second time.
LEMMA RemoveCredentialsKeeps ==
    ASSUME DevInv, NoteRaces, MaxKeys \in Nat, NEW d \in Devices, NEW p, p = <<"revoke", d>>,
           RemoveDeviceBackupCredentials(d), DevAt(p) = "htw2"
    PROVE  DevInv'
<1>1. DevType /\ ListsType /\ p \in DevProcs /\ Stage(d) = "htw2"
  BY ProcsAre DEF DevInv, DevHolds, Stage
<1>2. UNCHANGED <<code, device, token, report, member, value, revision, bearer, keyrow>>
  BY DEF RemoveDeviceBackupCredentials, envVars, syncVars, keyVars
<1>3. /\ writeHtpasswd(req[p].seen \ {d}) /\ Step(p, "unshare")
      /\ IF Answers("restic") THEN UNCHANGED pending ELSE Queue(d, "htpasswd", 0)
  BY DEF RemoveDeviceBackupCredentials, readHtpasswd
<1>4. Went(p, "unshare")
  BY <1>1, <1>3, StepIs DEF DevStages
<1>5. PICK r \in DevRequest : Moves(p, r) /\ r.at = "unshare"
  BY <1>4 DEF Went
<1>6. pending \subseteq pending' /\ pending' \subseteq Rows /\ d \notin htfile'
      /\ (d \in htserved' => <<d, "htpasswd", 0>> \in pending')
  BY <1>1, <1>3 DEF writeHtpasswd, Queue, DevType, ListsAre, Rows, Targets
<1>7. req[p].seen \subseteq Devices
  BY <1>1, TodoOf
<1>8. EnvType' /\ ListsAre'
  BY <1>1, <1>2, <1>3, <1>6, <1>7 DEF DevType, EnvType, ListsAre, writeHtpasswd
<1>9. Stage(d)' = "unshare" /\ DevAt(p)' = "unshare" /\ DevAt(p) = "htw2"
      /\ \A q \in DevProcs : q # p => DevAt(q)' = DevAt(q) /\ req'[q] = req[q]
  BY <1>1, <1>5, OwnStageIs, MovesIs
<1>10. ASSUME NEW e \in Devices, e # d, ~raced[e] PROVE Fades(e) /\ report'[e] = report[e]
  <2>1. Reached(e, AfterLine) => e \notin req[p].seen
    BY <1>1, <1>9, <1>10, SeenIsClean DEF Removes
  <2> QED
    BY <1>2, <1>3, <1>6, <1>10, <2>1, WriteFades
<1>11. ASSUME ~raced[d], (InFlight(<<"revoke", d>>) => ~Overlaps(d))'
       PROVE  KeysGone(d)' /\ TokenGone(d)' /\ LineGone(d)'
  <2>1. Parts(d)
    BY <1>11, PartsOf
  <2>2. /\ Reached(d, AfterKeys)' => Reached(d, AfterKeys)
        /\ Reached(d, AfterToken)' => Reached(d, AfterToken)
    BY <1>1, <1>2, <1>9 DEF Reached, AfterKeys, AfterToken, AfterLine
  <2>3. KeysGone(d)'
    BY <1>1, <1>2, <1>6, <1>9, <2>1, <2>2, RecordedStay, KeysKeep DEF Parts
  <2>4. TokenGone(d)'
    BY <1>2, <1>6, <2>1, <2>2, TokenKeeps DEF Parts
  <2>5. ~Overlaps(d)'
    BY <1>9, <1>11 DEF InFlight, Stage, DevAt
  <2>6. ASSUME NEW q \in DevProcs, DevAt(q)' \in {"htw", "htw2", "hw"} PROVE Removes(q, d)'
    <3>1. q # p
      BY <1>9, <2>6
    <3>2. CASE DevAt(q)' \in {"htw", "htw2"}
      <4>1. Rewrites(q)
        BY <1>1, <1>9, <3>1, <3>2 DEF ListsType
      <4> QED
        BY <2>5, <3>1, <3>2, <4>1 DEF Overlaps, Rewrites, InFlight, DevAt
    <3>3. CASE DevAt(q)' = "hw"
      BY <2>5, <3>1, <3>3 DEF Overlaps, Removes
    <3> QED
      BY <2>6, <3>2, <3>3
  <2>7. LineGone(d)'
    BY <1>6, <2>6 DEF LineGone
  <2> QED
    BY <2>3, <2>4, <2>7
<1> QED
  BY <1>2, <1>5, <1>8, <1>9, <1>10, <1>11, OwnStep

LEMMA RevokeReportKeeps ==
    ASSUME DevInv, NoteRaces, NEW d \in Devices, NEW p, p = <<"revoke", d>>, RevokeReport(d)
    PROVE  DevInv'
<1>1. DevType /\ p \in DevProcs /\ DevAt(p) = "report" /\ Stage(d) = "report" /\ Step(p, "rest")
  BY ProcsAre DEF DevInv, DevHolds, RevokeReport, Stage
<1>2. UNCHANGED <<code, device, member, value, revision, keyrow>> /\ UNCHANGED Lists
  BY DEF RevokeReport, envVars, htVars, syncVars, keyVars, Lists
<1>3. htfile' = htfile /\ htserved' = htserved /\ token' = token /\ bearer' = bearer /\ pending' = pending
  BY <1>2 DEF Lists
<1>4. Went(p, "rest")
  BY <1>1, StepIs DEF DevStages
<1>5. PICK r \in DevRequest : Moves(p, r) /\ r.at = "rest"
  BY <1>4 DEF Went
<1>6. /\ report' \in [Devices -> {"none", "unconfirmed", "revoked"}]
      /\ \A e \in Devices : e # d => report'[e] = report[e]
  <2>1. report' = [report EXCEPT ![d] = IF \E x \in pending : x[1] = d THEN "unconfirmed" ELSE "revoked"]
    BY DEF RevokeReport
  <2> QED
    BY <1>1, <2>1 DEF DevType, ListsAre
<1>7. EnvType' /\ ListsAre'
  BY <1>1, <1>2, <1>3, <1>6 DEF DevType, EnvType, ListsAre
<1>8. Stage(d)' = "rest"
  BY <1>1, <1>5, OwnStageIs
<1>9. ASSUME NEW e \in Devices, e # d, ~raced[e] PROVE Fades(e) /\ report'[e] = report[e]
  BY <1>2, <1>6, <1>9, PartsOf, CalmFades
<1>10. ASSUME ~raced[d] PROVE KeysGone(d)' /\ TokenGone(d)' /\ LineGone(d)'
  <2>1. Parts(d)
    BY <1>10, PartsOf
  <2>2. Reached(d, AfterKeys) /\ Reached(d, AfterToken) /\ Reached(d, AfterLine)
    BY <1>1 DEF Reached, AfterKeys, AfterToken, AfterLine
  <2>3. KeysGone(d)' /\ TokenGone(d)'
    <3>1. Recorded' \subseteq Recorded
      BY <1>2, <1>3, RecordedStay
    <3>2. KeysGone(d)'
      BY <1>1, <1>3, <1>8, <2>1, <2>2, <3>1, KeysKeep DEF Parts
    <3>3. TokenGone(d)'
      BY <1>3, <2>1, <2>2, TokenKeeps DEF Parts
    <3> QED
      BY <3>2, <3>3
  <2>4. LineGone(d)'
    <3>1. d \notin htfile
      BY <2>1, <2>2 DEF Parts, LineGone
    <3> QED
      BY <1>1, <1>3, <1>5, <2>1, <2>2, <3>1, LineKeeps DEF Parts
  <2> QED
    BY <2>3, <2>4
<1> QED
  BY <1>1, <1>2, <1>5, <1>7, <1>9, <1>10, OwnStep

\* The world: codes age, externals stop and answer again.
LEMMA WorldKeeps ==
    ASSUME DevInv, NoteRaces,
           (\E c \in Codes : Expire(c)) \/ (\E x \in Externals : Outage(x) \/ Recovers(x))
    PROVE  DevInv'
<1> DEFINE r == req[Retry]
<1>1. DevType /\ ListsType /\ Retry \in DevProcs /\ Retry \notin Revokes
      /\ \A e \in Devices : Retry \notin {<<"enroll", e>>, <<"fetch", e>>}
  BY LoopsAre, LoopKindsAre DEF DevInv, DevHolds
<1>2. /\ UNCHANGED <<req, device, token, pending, report, member, value, revision, bearer, keyrow, htfile>>
      /\ htserved' \in {htserved, htfile}
  BY DEF Expire, Outage, Recovers, envVars, htVars, syncVars, keyVars
<1>3. code' \in [Codes -> {"fresh", "expired"} \cup Devices]
  BY <1>1 DEF Expire, Outage, Recovers, DevType, EnvType
<1>4. EnvType' /\ ListsAre'
  BY <1>1, <1>2, <1>3 DEF DevType, EnvType, ListsAre
<1>5. Moves(Retry, r)
  BY <1>1, <1>2, TodoOf DEF Moves, DevType
<1>6. ListsOf(Retry, r)
  BY <1>1 DEF ListsOf, ListsType, DevAt, Retry
<1>7. ASSUME NEW e \in Devices, ~raced[e] PROVE Parts(e)'
  <2>1. Parts(e)
    BY <1>7, PartsOf
  <2>2. Fades(e)
    BY <1>2, <2>1, RecordedStay DEF Fades, KeysFade, TokenFades, LineFades, Parts, LineGone
  <2>3. StageKeeps(e, Retry, r) /\ Entitled(e, Retry, r)
    BY <1>1, Bystander DEF Entitled
  <2>4. ReadsClean(e, r)
    <3>1. CASE Removes(Retry, e)
      BY <3>1 DEF ReadsClean, Removes, DevAt, Retry
    <3>2. CASE ~Removes(Retry, e)
      BY <1>1, <1>7, <3>2, SeenIsClean DEF ReadsClean, DevAt
    <3> QED
      BY <3>1, <3>2
  <2> QED
    BY <1>1, <1>2, <1>5, <2>1, <2>2, <2>3, <2>4, PartsKeep DEF Turns
<1> QED
  BY <1>4, <1>5, <1>6, <1>7, TurnStep

LEMMA DevStart == DevInit => DevInv
<1> SUFFICES ASSUME DevInit PROVE DevInv
  OBVIOUS
<1>1. PICK s \in DevScenarios :
        /\ device = [d \in Devices |-> IF d \in s.present THEN "live" ELSE "none"]
        /\ htfile = s.present /\ htserved = s.present /\ token = s.present
        /\ code = [c \in Codes |-> IF c \in s.codes THEN "fresh" ELSE "expired"]
  BY DEF DevInit
<1>2. s.present \subseteq Devices
  BY DevicesAssumption
<1>3. /\ keyrow = [k \in Keys |-> "none"] /\ bearer = {} /\ pending = {} /\ member = {}
      /\ value = 0 /\ revision = 1 /\ req = [p \in DevProcs |-> AtRest]
      /\ report = [d \in Devices |-> "none"] /\ raced = [d \in Devices |-> FALSE]
  BY DEF DevInit
<1>4. EnvType /\ ListsAre
  BY <1>1, <1>2, <1>3 DEF EnvType, ListsAre
<1>5. \A p \in DevProcs : DevAt(p) = "rest"
  BY <1>3, RestIs DEF DevAt
<1>6. DevType
  BY <1>3, <1>4, RestIs DEF DevType
<1>7. ListsType
  BY <1>5, ProcsAre DEF ListsType
<1>8. ASSUME NEW d \in Devices PROVE Parts(d) /\ ~InFlight(<<"revoke", d>>)
  <2>1. Stage(d) = "rest" /\ report[d] = "none"
    BY <1>3, <1>5, ProcsAre DEF Stage
  <2>2. ~RevokeBegun(d) /\ ~Reached(d, AfterKeys) /\ ~Reached(d, AfterToken) /\ ~Reached(d, AfterLine)
    BY <2>1 DEF RevokeBegun, Reached, AfterKeys, AfterToken, AfterLine
  <2> QED
    BY <2>1, <2>2 DEF Parts, ClosedTo, KeysGone, TokenGone, LineGone, Stage, DevAt, InFlight
<1> QED
  BY <1>3, <1>6, <1>7, <1>8 DEF DevInv, DevHolds

LEMMA RevocationKeeps ==
    ASSUME DevInv, NoteRaces, NEW d \in Devices, RevokeCompanionDevice(d)
    PROVE  DevInv'
<1>1. PICK p : p = <<"revoke", d>>
  OBVIOUS
<1>2. p \in DevProcs /\ \A e \in Devices : p \notin {<<"enroll", e>>, <<"fetch", e>>}
  BY <1>1, ProcsAre, KindsAre
<1>3. CASE RevokeDevice(d) \/ ListKeys(d) \/ RevokeKey(d) \/ RevokeToken(d) \/ RevokeReport(d)
  BY <1>1, <1>3, DevicesAssumption, RevokeDeviceKeeps, ListKeysKeeps, RevokeKeyKeeps, RevokeTokenKeeps,
     RevokeReportKeeps
<1>4. CASE RevokeHtpasswd(d)
  <2>1. CASE DevAt(p) = "htw"
    BY <1>1, <1>4, <2>1, RevokeWrites
  <2>2. CASE DevAt(p) # "htw"
    <3>1. DevAt(p) = "ht" /\ UNCHANGED htVars
      BY <1>1, <1>4, <2>2 DEF RevokeHtpasswd, readHtpasswd
    <3> QED
      BY <1>1, <1>4, <3>1, RevokeReads
  <2> QED
    BY <2>1, <2>2
<1>5. CASE RemoveDeviceBackupCredentials(d)
  <2>1. CASE DevAt(p) = "htw2"
    BY <1>1, <1>5, <2>1, DevicesAssumption, RemoveCredentialsKeeps
  <2>2. CASE DevAt(p) # "htw2"
    <3>1. DevAt(p) = "ht2" /\ UNCHANGED htVars
      BY <1>1, <1>5, <2>2 DEF RemoveDeviceBackupCredentials, readHtpasswd
    <3> QED
      BY <1>1, <1>5, <3>1, RevokeReads
  <2> QED
    BY <2>1, <2>2
<1>6. CASE RevokeSecret(d) \/ RemoveCompanionDevice(d) \/ RetryPendingEnd(<<"revoke", d>>, "report")
  BY <1>1, <1>6, RevokeGoesOn
<1>7. CASE reconcileFolder(<<"revoke", d>>, "drive")
  BY <1>1, <1>2, <1>7, ReconcileKeeps
<1>8. CASE ListRevocationPending(<<"revoke", d>>, "drive")
  BY <1>1, <1>2, <1>8, QueueListed
<1>9. CASE RetryPendingRow(<<"revoke", d>>) \/ RetryHtpasswdRow(<<"revoke", d>>)
  BY <1>1, <1>2, <1>9, QueueRowKeeps, QueueLineKeeps
<1> QED
  BY <1>3, <1>4, <1>5, <1>6, <1>7, <1>8, <1>9 DEF RevokeCompanionDevice

LEMMA LoopKeeps == ASSUME DevInv, NoteRaces, RetryPendingDeviceRevocations PROVE DevInv'
<1>1. /\ Retry \in DevProcs /\ Retry \notin Revokes
      /\ \A e \in Devices : Retry \notin {<<"enroll", e>>, <<"fetch", e>>}
  BY LoopsAre, LoopKindsAre
<1>2. CASE ListRevocationPending(Retry, "rest")
  BY <1>1, <1>2, QueueListed
<1>3. CASE RetryPendingRow(Retry) \/ RetryHtpasswdRow(Retry)
  BY <1>1, <1>3, QueueRowKeeps, QueueLineKeeps
<1> QED
  BY <1>2, <1>3, LoopEnds DEF RetryPendingDeviceRevocations

LEMMA DevNextKeeps == DevInv /\ [DevNext]_devVars => DevInv'
<1> SUFFICES ASSUME DevInv, [DevNext]_devVars PROVE DevInv'
  OBVIOUS
<1>1. CASE UNCHANGED devVars
  <2>1. /\ code' = code /\ device' = device /\ htfile' = htfile /\ htserved' = htserved /\ token' = token
        /\ keyrow' = keyrow /\ bearer' = bearer /\ pending' = pending /\ member' = member
        /\ value' = value /\ revision' = revision /\ req' = req /\ report' = report /\ raced' = raced
    BY <1>1 DEF devVars
  <2>2. DevType' /\ raced' \in [Devices -> BOOLEAN]
    BY <2>1 DEF DevInv, DevType, EnvType, ListsAre, DevHolds
  <2>3. ListsType'
    BY <2>1 DEF DevInv, ListsType, DevAt
  <2>4. ASSUME NEW d \in Devices, ~raced'[d]
        PROVE  Parts(d)' /\ (InFlight(<<"revoke", d>>) => ~Overlaps(d))'
    <3>1. Parts(d) /\ (InFlight(<<"revoke", d>>) => ~Overlaps(d))
      BY <2>1, <2>4 DEF DevInv, DevHolds
    <3>2. ClosedTo(d)'
      BY <2>1, <3>1 DEF Parts, ClosedTo, RevokeBegun, Reached, Stage, DevAt
    <3>3. KeysGone(d)' /\ TokenGone(d)'
      BY <2>1, <3>1 DEF Parts, KeysGone, TokenGone, Held, Recorded, Reached, Stage, DevAt
    <3>4. LineGone(d)'
      BY <2>1, <3>1 DEF Parts, LineGone, Removes, Reached, Stage, DevAt
    <3>5. (InFlight(<<"revoke", d>>) => ~Overlaps(d))'
      BY <2>1, <3>1 DEF InFlight, Overlaps, DevAt
    <3> QED
      BY <3>2, <3>3, <3>4, <3>5 DEF Parts
  <2> QED
    BY <2>2, <2>3, <2>4 DEF DevInv, DevHolds
<1>2. CASE NoteRaces /\ \E d \in Devices : CheckCode(d) \/ ClaimCode(d) \/ EnrollToken(d)
  BY <1>2, CheckCodeKeeps, ClaimCodeKeeps, EnrollTokenKeeps
<1>3. CASE NoteRaces /\ \E d \in Devices : ensureMachineBackupCredentials(d)
  <2>1. PICK d \in Devices : ensureMachineBackupCredentials(d)
    BY <1>3
  <2>2. DevAt(<<"enroll", d>>) \in {"ht", "htw"}
    BY <2>1 DEF ensureMachineBackupCredentials, readHtpasswd
  <2> QED
    BY <1>3, <2>1, <2>2, EnrollReads, EnrollWrites
<1>4. CASE NoteRaces /\ \E d \in Devices : \/ FetchStart(d) \/ FetchAnswer(d)
                                           \/ FetchRevision(d) \/ FetchValues(d)
  <2>1. PICK d \in Devices : FetchStart(d) \/ FetchAnswer(d) \/ FetchRevision(d) \/ FetchValues(d)
    BY <1>4
  <2>2. PICK p : p = <<"fetch", d>>
    OBVIOUS
  <2>3. CASE FetchStart(d) \/ FetchAnswer(d) \/ (FetchValues(d) /\ d \notin granted)
    BY <1>4, <2>2, <2>3, FetchKeeps
  <2>4. CASE FetchRevision(d) \/ (FetchValues(d) /\ d \in granted)
    BY <1>4, <2>2, <2>4, FetchReadsKeep
  <2> QED
    BY <2>1, <2>3, <2>4
<1>5. CASE NoteRaces /\ \E d \in Devices : ensureDeviceVirtualKey(d)
  <2>1. PICK d \in Devices : ensureDeviceVirtualKey(d)
    BY <1>5
  <2> QED
    BY <1>5, <2>1, FetchIssues
<1>6. CASE NoteRaces /\ \E d \in Devices : CreateCompanionSyncFolder(d) \/ EnrollDevice(d)
  BY <1>6, ShareKeeps
<1>7. CASE NoteRaces /\ \E d \in Devices : reconcileFolder(<<"share", d>>, "rest")
  <2>1. PICK d \in Devices : reconcileFolder(<<"share", d>>, "rest")
    BY <1>7
  <2>2. PICK p : p = <<"share", d>>
    OBVIOUS
  <2>3. p \in DevProcs /\ p \notin Revokes /\ \A e \in Devices : p \notin {<<"enroll", e>>, <<"fetch", e>>}
    BY <2>2, ProcsAre, KindsAre
  <2> QED
    BY <1>7, <2>1, <2>2, <2>3, ReconcileKeeps
<1>8. CASE NoteRaces /\ \E d \in Devices : RevokeCompanionDevice(d)
  BY <1>8, RevocationKeeps
<1>9. CASE NoteRaces /\ (PutToolEnv \/ \E d \in Devices : SetGrant(d))
  BY <1>9, EnvironmentKeeps
<1>10. CASE NoteRaces /\ (PollSyncthing \/ RetryPendingDeviceRevocations)
  BY <1>10, PollKeeps, LoopKeeps
<1>11. CASE NoteRaces /\ ((\E c \in Codes : Expire(c)) \/ (\E x \in Externals : Outage(x) \/ Recovers(x)))
  BY <1>11, WorldKeeps
<1>12. CASE NoteRaces /\ \E p \in DevProcs : CutOff(p)
  BY <1>12, CutOffKeeps
<1> QED
  BY <1>1, <1>2, <1>3, <1>4, <1>5, <1>6, <1>7, <1>8, <1>9, <1>10, <1>11, <1>12 DEF DevNext, DevStep

\* revokeDeviceExternals, RetryPendingDeviceRevocations: for any devices, codes and requests, whatever
\* external is down and whichever request is cut off, once a revocation that nothing overlapped has
\* run to its end, each credential that an external still accepts is in the queue; of the gateway's
\* keys, each that has a row: one whose row was never written has no handle.
THEOREM RevokedIsTrackedHolds == DevSpec => []RevokedIsTracked
<1>1. DevInv => RevokedIsTracked
  BY HoldsTracked
<1> QED
  BY <1>1, DevStart, DevNextKeeps, PTL DEF DevSpec
=============================================================================
