-------------------------------- MODULE Mail --------------------------------
(* Mail to the assistant: internal/emailing (service.go, parse.go, verifier.go, *)
(* hmac.go), the endpoint of internal/api/handlers.go and the Email Worker      *)
(* (workers/email/src/index.ts).  A sending server hands a message to the       *)
(* worker; the worker stamps it and posts it, again when the answer is          *)
(* transient or lost; when it gives up the sending server tries again later.    *)
(* Copies of a post may arrive late, requests run beside each other, database   *)
(* and DNS calls fail, omahabd dies, time passes.                               *)
EXTENDS Naturals, Sequences, FiniteSets

CONSTANTS MailKind,      \* what the message is like: [mime, from, sigs]
          MailTries,     \* bound: attempts of the sending server
          MaxRetries,    \* bound: MAX_RETRIES of the worker
          ClockSkew,     \* ClockSkew, in units longer than a request
          MailAhead,     \* how far the worker's clock may be ahead
          MailHorizon,   \* bound: the clock
          MailBudget     \* bound: faults

ASSUME MailAssumption ==
    /\ {MailTries, MaxRetries, ClockSkew, MailHorizon} \subseteq Nat
    /\ MailAhead \subseteq 0..ClockSkew /\ MailBudget \subseteq 0..(MailTries - 1)

VARIABLES mclock, ahead, message,
          sender,      \* the row of its sender: none, pending or verified
          nonces,      \* email_nonces: [nonce, expires]
          stored,      \* email_messages, in order: [nonce, status]
          quarantined, \* messages with a row in email_quarantine
          try,         \* try[t]: the worker's run for attempt t of the sending server
          request,     \* request[t][k]: post k of run t; post 0 is a late copy
          mailFaults

mailVars == <<mclock, ahead, message, sender, nonces, stored, quarantined, try, request, mailFaults>>

Tries == 1..MailTries
Posts == 0..(MaxRetries + 1)
NoRequest == [pc |-> "none", now |-> 0]
NoTry == [state |-> "none", stamp |-> 0, post |-> 0]

MailInit ==
    /\ mclock = 0 /\ ahead \in MailAhead /\ message \in MailKind
    /\ sender \in {"none", "pending"}
    /\ nonces = {} /\ stored = <<>> /\ quarantined = {}
    /\ try = [t \in Tries |-> NoTry]
    /\ request = [t \in Tries |-> [k \in Posts |-> NoRequest]]
    /\ mailFaults \in MailBudget

----------------------------------------------------------------------------
(* The message *)

\* Two labels, or three below a country's co, com, net and so on.
organizationalDomain(d) ==
    LET n == Len(d)
        country == n >= 3 /\ d[n] = "uk" /\ d[n - 1] = "co"
    IN SubSeq(d, IF n <= 2 THEN 1 ELSE n - (IF country THEN 2 ELSE 1), n)

Below(d, e) == Len(d) > Len(e) /\ SubSeq(d, Len(d) - Len(e) + 1, Len(d)) = e

isAligned(d, from) == organizationalDomain(d) = organizationalDomain(from) \/ Below(from, d)

\* t= is not in the future, x= is not in the past.
InTime(sig) == sig.t /\ sig.x

\* The hash of the canonical body, cut at l=, is the one in bh=.
BodyMatches(sig) == sig.bh

\* The signature over the headers h= names, taken from the bottom up.
HeadersMatch(sig) == sig.b

\* The key record is of the kind the signature names.
parseKeyRecord(sig) == sig.key = sig.alg

\* A key that DNS does not answer for is like a key that does not fit.
lookupPubKey(sig, dns) == dns /\ parseKeyRecord(sig)

verifyOne(sig, dns, from) ==
    LET valid == InTime(sig) /\ lookupPubKey(sig, dns) /\ BodyMatches(sig) /\ HeadersMatch(sig)
    IN [valid |-> valid, signed |-> sig.h, aligned |-> valid /\ isAligned(sig.d, from)]

\* The DKIM-Signature headers, in their order, and those with tags that can be read.
splitMessage(m) == m.sigs
parseDKIMSignatureTags(sigs) == SelectSeq(sigs, LAMBDA sig : sig.tags)

\* The first signature that verifies, else the last that can be read.
Verify(m, dns) ==
    LET read == parseDKIMSignatureTags(splitMessage(m))
        good == {i \in DOMAIN read : verifyOne(read[i], dns, m.from).valid}
        i == IF good = {} THEN Len(read) ELSE CHOOSE j \in good : \A l \in good : j <= l
    IN IF read = <<>> THEN [valid |-> FALSE, signed |-> {}, aligned |-> FALSE]
       ELSE verifyOne(read[i], dns, m.from)

\* The address of the From header; some have none.
extractAddrSpec(m) == m.from

\* A body that cannot be read or is too large is quarantined, and so is one without From.
parseMessage(m) == m.mime = "ok" /\ extractAddrSpec(m) # <<>>

\* Signed by a domain that answers for the From address, and signing it.
Vouched(m, dns) ==
    LET r == Verify(m, dns) IN r.valid /\ "from" \in r.signed /\ r.aligned

----------------------------------------------------------------------------
(* The worker *)

\* Mutated form: the nonce is made from the message.
NonceOfMessage(t) == 1

generateNonce(t) == t

Posted(t, k) == request' = [request EXCEPT ![t][k] = [NoRequest EXCEPT !.pc = "admit"]]

\* The sending server hands the message over, for the first time or once more.
handleEmail(t) ==
    /\ try[t].state = "none" /\ (t > 1 => try[t - 1].state = "failed")
    /\ try' = [try EXCEPT ![t] = [state |-> "waits", stamp |-> mclock + ahead, post |-> 1]]
    /\ Posted(t, 1)
    /\ UNCHANGED <<mclock, ahead, message, sender, nonces, stored, quarantined, mailFaults>>

\* postWithRetry: a success ends the run, everything else this server answers is
\* a 500 and posted again.
AfterAnswer(t, ok) ==
    IF ok THEN [try[t] EXCEPT !.state = "done"]
    ELSE IF try[t].post <= MaxRetries THEN [try[t] EXCEPT !.state = "again", !.post = @ + 1]
    ELSE [try[t] EXCEPT !.state = "failed"]

postWithRetry(t) ==
    /\ try[t].state = "again"
    /\ try' = [try EXCEPT ![t].state = "waits"]
    /\ Posted(t, try[t].post)
    /\ UNCHANGED <<mclock, ahead, message, sender, nonces, stored, quarantined, mailFaults>>

\* The connection is lost: the worker posts again, the request goes on.
LoseConnection(t) ==
    /\ try[t].state = "waits" /\ mailFaults > 0 /\ mailFaults' = mailFaults - 1
    /\ try' = [try EXCEPT ![t] = AfterAnswer(t, FALSE)]
    /\ UNCHANGED <<mclock, ahead, message, sender, nonces, stored, quarantined, request>>

\* A copy of a post arrives, whenever it likes.
CopyArrives(t) ==
    /\ try[t].state # "none" /\ request[t][0].pc = "none"
    /\ mailFaults > 0 /\ mailFaults' = mailFaults - 1
    /\ Posted(t, 0)
    /\ UNCHANGED <<mclock, ahead, message, sender, nonces, stored, quarantined, try>>

----------------------------------------------------------------------------
(* Service.Ingest *)

At(t, k, pc) == request[t][k].pc = pc

Goes(t, k, pc) == request' = [request EXCEPT ![t][k].pc = pc] /\ UNCHANGED try

\* The worker waits for its last post only.  A quarantined message, a replay and a
\* clock too far off are errors translateError does not know: 500.
Answers(t, k, ok) ==
    /\ request' = [request EXCEPT ![t][k] = NoRequest]
    /\ try' = IF try[t].state = "waits" /\ try[t].post = k THEN [try EXCEPT ![t] = AfterAnswer(t, ok)] ELSE try

Distance(a, b) == IF a > b THEN a - b ELSE b - a

\* The signature fits and the clock is read once; nonces that have expired go.
Admit(t, k) ==
    /\ At(t, k, "admit")
    /\ IF Distance(mclock, try[t].stamp) > ClockSkew
       THEN Answers(t, k, FALSE) /\ UNCHANGED nonces
       ELSE /\ request' = [request EXCEPT ![t][k] = [pc |-> "nonce", now |-> mclock]]
            /\ nonces' = {n \in nonces : n.expires >= mclock}
            /\ UNCHANGED try
    /\ UNCHANGED <<mclock, ahead, message, sender, stored, quarantined, mailFaults>>

ExpiresAt(now) == now + 2 * ClockSkew

\* checkAndInsertNonce: the nonce is the primary key.
checkAndInsertNonce(t, k) ==
    /\ At(t, k, "nonce")
    /\ IF \E n \in nonces : n.nonce = generateNonce(t)
       THEN Answers(t, k, FALSE) /\ UNCHANGED nonces
       ELSE nonces' = nonces \cup {[nonce |-> generateNonce(t), expires |-> ExpiresAt(request[t][k].now)]}
            /\ Goes(t, k, "look up")
    /\ UNCHANGED <<mclock, ahead, message, sender, stored, quarantined, mailFaults>>

\* What cannot be parsed or comes from nobody enrolled is quarantined.
GetSender(t, k) ==
    /\ At(t, k, "look up")
    /\ Goes(t, k, IF parseMessage(message) /\ sender # "none" THEN "verify" ELSE "quarantine")
    /\ UNCHANGED <<mclock, ahead, message, sender, nonces, stored, quarantined, mailFaults>>

\* DNS that does not answer is a signature that does not verify.
VerifyDKIM(t, k, dns) ==
    /\ At(t, k, "verify")
    /\ dns \/ mailFaults > 0
    /\ mailFaults' = IF dns THEN mailFaults ELSE mailFaults - 1
    /\ Goes(t, k, IF Vouched(message, dns) THEN "promote" ELSE "quarantine")
    /\ UNCHANGED <<mclock, ahead, message, sender, nonces, stored, quarantined>>

\* VerifySender: a sender removed meanwhile stays removed, and the message goes on.
VerifySender(t, k) ==
    /\ At(t, k, "promote")
    /\ sender' = IF sender = "pending" THEN "verified" ELSE sender
    /\ Goes(t, k, "store")
    /\ UNCHANGED <<mclock, ahead, message, nonces, stored, quarantined, mailFaults>>

Store(t, k) ==
    /\ At(t, k, "store")
    /\ stored' = Append(stored, [nonce |-> generateNonce(t), status |-> "received"])
    /\ Answers(t, k, TRUE)
    /\ UNCHANGED <<mclock, ahead, message, sender, nonces, quarantined, mailFaults>>

\* quarantine writes the message and then the row about it.
quarantine(t, k) ==
    \/ /\ At(t, k, "quarantine")
       /\ stored' = Append(stored, [nonce |-> generateNonce(t), status |-> "quarantined"])
       /\ Goes(t, k, "file")
       /\ UNCHANGED <<mclock, ahead, message, sender, nonces, quarantined, mailFaults>>
    \/ /\ At(t, k, "file")
       /\ quarantined' = quarantined \cup {generateNonce(t)}
       /\ Answers(t, k, FALSE)
       /\ UNCHANGED <<mclock, ahead, message, sender, nonces, stored, mailFaults>>

\* A statement fails, or the request has ended.  Promoting a sender may fail.
IngestFails(t, k) ==
    /\ request[t][k].pc \notin {"none", "verify"}
    /\ mailFaults > 0 /\ mailFaults' = mailFaults - 1
    /\ IF At(t, k, "promote") THEN Goes(t, k, "store") ELSE Answers(t, k, FALSE)
    /\ UNCHANGED <<mclock, ahead, message, sender, nonces, stored, quarantined>>

Running(t, k) == request[t][k] # NoRequest

MailCrash ==
    /\ mailFaults > 0 /\ mailFaults' = mailFaults - 1
    /\ \E t \in Tries, k \in Posts : Running(t, k)
    /\ request' = [t \in Tries |-> [k \in Posts |-> NoRequest]]
    /\ try' = [t \in Tries |-> IF try[t].state = "waits" THEN AfterAnswer(t, FALSE) ELSE try[t]]
    /\ UNCHANGED <<mclock, ahead, message, sender, nonces, stored, quarantined>>

----------------------------------------------------------------------------
(* The owner and the clock *)

EnrollSender ==
    /\ sender = "none" /\ try[1].state = "none" /\ sender' = "pending"
    /\ UNCHANGED <<mclock, ahead, message, nonces, stored, quarantined, try, request, mailFaults>>

RemoveSender ==
    /\ sender # "none" /\ sender' = "none"
    /\ \E t \in Tries, k \in Posts : Running(t, k)
    /\ UNCHANGED <<mclock, ahead, message, nonces, stored, quarantined, try, request, mailFaults>>

\* A request is over within 30 seconds, a run of the worker within a few of them:
\* neither sees the clock move twice.
MailTick ==
    /\ mclock < MailHorizon /\ mclock' = mclock + 1
    /\ \A t \in Tries : try[t].state \in {"waits", "again"} => mclock + ahead <= try[t].stamp
    /\ \A t \in Tries, k \in Posts : Running(t, k) /\ ~At(t, k, "admit") => request[t][k].now >= mclock
    /\ UNCHANGED <<ahead, message, sender, nonces, stored, quarantined, try, request, mailFaults>>

MailNext ==
    \/ \E t \in Tries :
         \/ handleEmail(t) \/ postWithRetry(t) \/ LoseConnection(t) \/ CopyArrives(t)
         \/ \E k \in Posts :
              \/ Admit(t, k) \/ checkAndInsertNonce(t, k) \/ GetSender(t, k)
              \/ \E dns \in BOOLEAN : VerifyDKIM(t, k, dns)
              \/ VerifySender(t, k) \/ Store(t, k) \/ quarantine(t, k) \/ IngestFails(t, k)
    \/ EnrollSender \/ RemoveSender \/ MailCrash \/ MailTick

\* Something that is under way goes on: the sending server, the worker, a request.
MailProgress ==
    \E t \in Tries :
        \/ handleEmail(t) \/ postWithRetry(t)
        \/ \E k \in Posts :
             \/ Admit(t, k) \/ checkAndInsertNonce(t, k) \/ GetSender(t, k) \/ VerifyDKIM(t, k, TRUE)
             \/ VerifySender(t, k) \/ Store(t, k) \/ quarantine(t, k)

MailFairness == WF_mailVars(MailProgress)

MailSpec == MailInit /\ [][MailNext]_mailVars /\ MailFairness

----------------------------------------------------------------------------
(* Properties *)

\* postWithRetry: "fail closed (temp failure for SMTP retry)".  A nonce is used up
\* before its message is stored, so a post that fails in between can never be
\* repeated; yet no message is lost, for the next attempt has a nonce of its own.
Kept == stored # <<>>

=============================================================================
