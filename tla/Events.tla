------------------------------- MODULE Events -------------------------------
(***************************************************************************)
(* The event inbox of the daemon and its readers: publishers with and      *)
(* without an idempotency key, subscriptions that replay the durable       *)
(* events after a cursor and then register for live ones, the forwarder to *)
(* ntfy, and a desktop that follows the companion stream, reconnects from  *)
(* the last event it saw and shows notifications.                          *)
(*                                                                         *)
(* internal/events/service.go and ntfy.go, internal/api/sse.go,            *)
(* internal/client/daemon.go (eventLoop), remote.go and notifier.go.       *)
(***************************************************************************)
EXTENDS Naturals, Sequences, FiniteSets

CONSTANTS Publishers, \* calls of Publish; an event is named by its call
          Key,        \* the idempotency key of each call, "" without one
          Body,       \* the type and message of each event
          Relevant,   \* events the companion stream carries
          Alerts,     \* those of them a desktop notifies about
          Severe,     \* events the forwarder posts
          Streams,    \* subscriptions the desktop may hold
          Forwarder,  \* the subscription of the forwarder
          SubscriberBuf, MaxSubscribers, PageLimit, RateLimit,
          Scenarios   \* bounds: the calls that are made; passages of time; broken connections, failed
                      \* insertions and daemon deaths

ASSUME EventsAssumption ==
    /\ Key \in [Publishers -> STRING]
    /\ Alerts \subseteq Relevant /\ Relevant \subseteq Publishers
    /\ Severe \subseteq Publishers
    /\ Forwarder \notin Streams
    /\ {SubscriberBuf, MaxSubscribers, PageLimit, RateLimit} \subseteq Nat \ {0}
    /\ Scenarios \subseteq [calls : SUBSET Publishers, ticks : Nat, cuts : Nat]

Slots == Streams \cup {Forwarder}

VARIABLES pub,     \* where each call of Publish is, and what it answers
          rows,    \* the events committed
          stamp,   \* created_at of each event, taken before the transaction
          clock,
          sub,     \* each subscription
          subs,    \* the registered subscribers (Service.subs)
          conn,    \* the stream of the desktop
          lastID,  \* the last event the desktop saw
          notes,   \* the desktop's notifier
          posted,  \* events posted to ntfy, with the number of posts
          ticks, cuts \* those still to come

evars == <<pub, rows, stamp, clock, sub, subs, conn, lastID, notes, posted, ticks, cuts>>

\* A subscription: its goroutine, the cursor it has reached, the rest of a page
\* (it leaves in the order of created_at),
\* the channel, whether its reader still reads, its context ended and its channel is closed.
Free == [at |-> "free", since |-> "none", todo |-> {},
         full |-> FALSE, q |-> <<>>, reading |-> FALSE, ended |-> FALSE,
         closed |-> FALSE]
Opened(c) == [Free EXCEPT !.at = IF c = "none" THEN "join" ELSE "page",
                          !.since = c, !.reading = TRUE]

Init ==
    /\ rows = {} /\ clock = 0
    /\ stamp = [p \in Publishers |-> 0]
    /\ sub = [s \in Slots |-> IF s = Forwarder THEN Opened("none") ELSE Free]
    /\ subs = {}
    /\ conn = "none" /\ lastID = "none"
    /\ notes = [seen |-> {}, bodies |-> {}, sent |-> 0, shown |-> [p \in Publishers |-> 0]]
    /\ posted = [p \in Publishers |-> 0]
    /\ \E x \in Scenarios :
          /\ ticks = x.ticks /\ cuts = x.cuts
          /\ pub = [p \in Publishers |-> [at |-> IF p \in x.calls THEN "new" ELSE "never",
                                         answer |-> "none"]]

(***************************************************************************)
(* Publishing.                                                             *)
(***************************************************************************)
ByKey(p) == {e \in rows : Key[p] # "" /\ Key[e] = Key[p]}

Answer(p, at, a) == pub' = [pub EXCEPT ![p] = [at |-> at, answer |-> a]]

\* A known key is answered at once; otherwise created_at is taken.
Lookup(p) ==
    /\ pub[p].at = "new"
    /\ IF ByKey(p) # {}
       THEN /\ \E e \in ByKey(p) : Answer(p, "done", e)
            /\ UNCHANGED <<stamp, clock>>
       ELSE /\ Answer(p, "insert", "none")
            /\ clock' = clock + 1
            /\ stamp' = [stamp EXCEPT ![p] = clock']
    /\ UNCHANGED <<rows, sub, subs, conn, lastID, notes, posted, ticks, cuts>>

\* The unique index decides between two calls with one key.
Insert(p) ==
    /\ pub[p].at = "insert"
    /\ IF ByKey(p) # {}
       THEN (\E e \in ByKey(p) : Answer(p, "done", e)) /\ UNCHANGED rows
       ELSE rows' = rows \cup {p} /\ Answer(p, "cast", p)
    /\ UNCHANGED <<stamp, clock, sub, subs, conn, lastID, notes, posted, ticks, cuts>>

InsertFails(p) ==
    /\ pub[p].at = "insert" /\ cuts > 0 /\ cuts' = cuts - 1
    /\ Answer(p, "done", "error")
    /\ UNCHANGED <<rows, stamp, clock, sub, subs, conn, lastID, notes, posted, ticks>>

\* A send that never blocks: a full channel loses the event.
Offer(r, e) ==
    [r EXCEPT !.q = IF Len(@) < SubscriberBuf /\ r.reading /\ ~r.ended THEN Append(@, e) ELSE @]

\* After the commit, under the mutex.
Broadcast(p) ==
    /\ pub[p].at = "cast"
    /\ Answer(p, "done", p)
    /\ sub' = [s \in Slots |-> IF s \in subs THEN Offer(sub[s], p) ELSE sub[s]]
    /\ UNCHANGED <<rows, stamp, clock, subs, conn, lastID, notes, posted, ticks, cuts>>

\* What nobody will look at again is forgotten: a subscription that is over,
\* the channel of an ended one, the page of a registered one.
Tidy(r) ==
    IF r.at = "gone" /\ ~r.reading THEN Free
    ELSE [r EXCEPT !.q = IF r.reading /\ ~r.ended THEN @ ELSE <<>>,
                   !.since = IF r.at \in {"page", "push"} THEN @ ELSE "none",
                   !.full = @ /\ r.at = "push"]

(***************************************************************************)
(* A subscription: pages of durable events, then registration.             *)
(***************************************************************************)
\* List after a cursor, in the order of created_at.
After(c) == {e \in rows : stamp[e] > (IF c = "none" THEN 0 ELSE stamp[c])}
Earlier(e, S) == {f \in S : stamp[f] < stamp[e]}
List(c) == {e \in After(c) : Cardinality(Earlier(e, After(c))) < PageLimit}

ReplayPage(s) ==
    LET page == IF sub[s].ended THEN {} ELSE List(sub[s].since) IN
    /\ sub[s].at = "page"
    /\ sub' = [sub EXCEPT ![s].todo = page,
                          ![s].full = Cardinality(page) = PageLimit,
                          ![s].at = IF page = {} THEN "join" ELSE "push"]
    /\ UNCHANGED <<pub, rows, stamp, clock, subs, conn, lastID, notes, posted, ticks, cuts>>

\* A full page is followed by another one after its last event.
ReplayPush(s) ==
    /\ sub[s].at = "push"
    /\ \E e \in sub[s].todo :
          /\ Earlier(e, sub[s].todo) = {}
          /\ sub' = [sub EXCEPT ![s] =
                        [Offer(sub[s], e) EXCEPT !.todo = @ \ {e}, !.since = e,
                                            !.at = IF sub[s].todo # {e} THEN "push"
                                                   ELSE IF sub[s].full THEN "page" ELSE "join"]]
    /\ UNCHANGED <<pub, rows, stamp, clock, subs, conn, lastID, notes, posted, ticks, cuts>>

\* One subscriber too many closes the channel of another, whichever comes
\* first in the map.
Join(s) ==
    /\ sub[s].at = "join"
    /\ IF Cardinality(subs) >= MaxSubscribers
       THEN \E v \in subs :
               /\ sub' = [sub EXCEPT ![s] = Tidy([@ EXCEPT !.at = "wait"]), ![v].closed = TRUE]
               /\ subs' = (subs \ {v}) \cup {s}
       ELSE /\ sub' = [sub EXCEPT ![s] = Tidy([@ EXCEPT !.at = "wait"])]
            /\ subs' = subs \cup {s}
    /\ UNCHANGED <<pub, rows, stamp, clock, conn, lastID, notes, posted, ticks, cuts>>

\* The goroutine leaves when the context has ended; whoever removes the
\* channel from the table closes it.
Leave(s) ==
    /\ sub[s].at = "wait" /\ sub[s].ended
    /\ sub' = [sub EXCEPT ![s] = Tidy([sub[s] EXCEPT !.at = "gone", !.closed = @ \/ s \in subs])]
    /\ subs' = subs \ {s}
    /\ UNCHANGED <<pub, rows, stamp, clock, conn, lastID, notes, posted, ticks, cuts>>

\* Stream returns, by its context or by a drained and closed channel, and
\* cancels; the HTTP handler returns with it, which ends the context.
ReaderEnds(s) ==
    /\ sub[s].reading
    /\ sub[s].ended \/ (sub[s].closed /\ sub[s].q = <<>>)
    /\ sub' = [sub EXCEPT ![s] = Tidy([sub[s] EXCEPT !.reading = FALSE,
                                                !.closed = @ \/ s \in subs,
                                                !.ended = @ \/ s \in Streams])]
    /\ subs' = subs \ {s}
    /\ conn' = IF conn = s THEN "none" ELSE conn
    /\ UNCHANGED <<pub, rows, stamp, clock, lastID, notes, posted, ticks, cuts>>

\* The forwarder posts, or fails to and goes on.
Forward ==
    LET e == Head(sub[Forwarder].q) IN
    /\ sub[Forwarder].reading /\ sub[Forwarder].q # <<>>
    /\ sub' = [sub EXCEPT ![Forwarder].q = Tail(@)]
    /\ \/ e \in Severe /\ posted' = [posted EXCEPT ![e] = @ + 1]
       \/ UNCHANGED posted
    /\ UNCHANGED <<pub, rows, stamp, clock, subs, conn, lastID, notes, ticks, cuts>>

(***************************************************************************)
(* The desktop.                                                            *)
(***************************************************************************)
Idle(s) == sub[s].at = "free"

Connect ==
    /\ conn = "none" /\ \E s \in Streams : Idle(s)
    /\ conn' = (CHOOSE s \in Streams : Idle(s))
    /\ sub' = [sub EXCEPT ![conn'] = Opened(lastID)]
    /\ UNCHANGED <<pub, rows, stamp, clock, subs, lastID, notes, posted, ticks, cuts>>

\* Mutated form: an event shown before is shown again.
NotifyAgain(e) ==
    LET fresh == e \in Alerts
        new == fresh /\ Body[e] \notin notes.bodies
        send == new /\ notes.sent < RateLimit
    IN [seen |-> IF fresh THEN notes.seen \cup {e} ELSE notes.seen,
        bodies |-> notes.bodies,
        sent |-> IF send THEN notes.sent + 1 ELSE notes.sent,
        shown |-> IF send THEN [notes.shown EXCEPT ![e] = @ + 1] ELSE notes.shown]

\* An event by its ID, then a text by its body, then at most so many a
\* minute; an event that is held back counts as seen.
Notify(e) ==
    LET fresh == e \in Alerts /\ e \notin notes.seen
        new == fresh /\ Body[e] \notin notes.bodies
        send == new /\ notes.sent < RateLimit
    IN [seen |-> IF fresh THEN notes.seen \cup {e} ELSE notes.seen,
        bodies |-> IF new THEN notes.bodies \cup {Body[e]} ELSE notes.bodies,
        sent |-> IF send THEN notes.sent + 1 ELSE notes.sent,
        shown |-> IF send THEN [notes.shown EXCEPT ![e] = @ + 1] ELSE notes.shown]

\* The handler of the stream passes relevant events on.
Carried(e) == e \in Relevant

\* Every event the desktop handles ends in the notifier.
HandleCompanionEvent(e) == notes' = Notify(e)

\* The loop remembers the last event it saw.
Receive ==
    LET e == Head(sub[conn].q) IN
    /\ conn # "none" /\ sub[conn].q # <<>>
    /\ sub' = [sub EXCEPT ![conn].q = Tail(@)]
    /\ IF Carried(e) THEN lastID' = e /\ HandleCompanionEvent(e)
       ELSE UNCHANGED <<lastID, notes>>
    /\ UNCHANGED <<pub, rows, stamp, clock, subs, conn, posted, ticks, cuts>>

\* A minute, ten minutes or half an hour pass: the window of the rate limit,
\* the remembered texts and the remembered events expire.
Pass(span) ==
    /\ ticks > 0 /\ ticks' = ticks - 1
    /\ notes.seen # {}
    /\ notes' = [seen |-> IF span = "half" THEN {} ELSE notes.seen,
                 bodies |-> IF span = "minute" THEN notes.bodies ELSE {},
                 sent |-> 0,
                 shown |-> IF span = "half" THEN [p \in Publishers |-> 0] ELSE notes.shown]
    /\ UNCHANGED <<pub, rows, stamp, clock, sub, subs, conn, lastID, posted, cuts>>

(***************************************************************************)
(* Failures.                                                               *)
(***************************************************************************)
\* The connection breaks: what it still held is lost.
Cut ==
    /\ conn # "none" /\ cuts > 0 /\ cuts' = cuts - 1
    /\ sub' = [sub EXCEPT ![conn] = Tidy([@ EXCEPT !.ended = TRUE])]
    /\ conn' = "none"
    /\ UNCHANGED <<pub, rows, stamp, clock, subs, lastID, notes, posted, ticks>>

\* The daemon dies and starts again: an event committed and not broadcast is
\* left to replay.
Crash ==
    /\ cuts > 0 /\ cuts' = cuts - 1
    /\ pub' = [p \in Publishers |->
                  CASE pub[p].at = "insert" -> [at |-> "done", answer |-> "error"]
                    [] pub[p].at = "cast" -> [pub[p] EXCEPT !.at = "done"]
                    [] OTHER -> pub[p]]
    /\ sub' = [s \in Slots |-> IF s = Forwarder THEN Opened("none") ELSE Free]
    /\ subs' = {} /\ conn' = "none"
    /\ UNCHANGED <<rows, stamp, clock, lastID, notes, posted, ticks>>

-----------------------------------------------------------------------------
Publish(p) == Lookup(p) \/ Insert(p) \/ InsertFails(p) \/ Broadcast(p)
Subscribe(s) == ReplayPage(s) \/ ReplayPush(s) \/ Join(s) \/ Leave(s)

Next ==
    \/ \E p \in Publishers : Publish(p)
    \/ \E s \in Slots : Subscribe(s) \/ ReaderEnds(s)
    \/ Forward \/ Connect \/ Receive \/ Cut \/ Crash
    \/ \E span \in {"minute", "ten", "half"} : Pass(span)

\* Calls and goroutines run; a desktop reads, and reconnects after its
\* backoff.  The forwarder may hang in a post for as long as it likes.
Fairness ==
    /\ \A p \in Publishers : WF_evars(Publish(p))
    /\ \A s \in Slots : WF_evars(Subscribe(s)) /\ WF_evars(ReaderEnds(s))
    /\ WF_evars(Connect)
    /\ WF_evars(Receive)

Spec == Init /\ [][Next]_evars /\ Fairness
-----------------------------------------------------------------------------
(***************************************************************************)
(* Properties.                                                             *)
(***************************************************************************)
TypeOK ==
    /\ pub \in [Publishers -> [at : {"never", "new", "insert", "cast", "done"},
                               answer : Publishers \cup {"none", "error"}]]
    /\ rows \subseteq Publishers /\ subs \subseteq Slots
    /\ \A s \in Slots : Len(sub[s].q) <= SubscriberBuf
    /\ conn \in Streams \cup {"none"} /\ lastID \in rows \cup {"none"}
    /\ posted \in [Publishers -> Nat]
    /\ ticks \in Nat /\ cuts \in Nat

\* Publishing, replay, live delivery, reconnection and notification together
\* implement the feed: the lookup, the insertion and the broadcast of Publish
\* behave as one step with one event per key, no reader sees an event before
\* it is durable, and an event that is replayed and delivered live, or
\* replayed again after a reconnection, is shown once; the forwarder, which
\* never replays, posts it once.
Feed == INSTANCE EventFeed WITH log <- rows,
                                answer <- [p \in Publishers |-> pub[p].answer],
                                shown <- notes.shown
ImplementsFeed == Feed!FeedSpec

=============================================================================
