---------------------------- MODULE MCWorkspaces ----------------------------
(***************************************************************************)
(* The coding agents' workspaces and the mail that reaches the server, for *)
(* TLC.  Two reviews of one pull request, or one review or one workspace   *)
(* created otherwise with an operator: workspaces of different branches    *)
(* share nothing.  Or one message, signed for a list and its sender or     *)
(* with two signatures that do not count, offered twice.  A behaviour is   *)
(* one of a single part, which "part" names; the parts share no state.     *)
(***************************************************************************)
EXTENDS Workspaces, Mail, TLC

CONSTANTS r1, r2

VARIABLE part

MCScenarios ==
    {[kind |-> r1 :> "review" @@ r2 :> "review", ops |-> 0],
     [kind |-> r1 :> "review" @@ r2 :> "none", ops |-> 1],
     [kind |-> r1 :> "create" @@ r2 :> "none", ops |-> 2],
     [kind |-> r1 :> "none" @@ r2 :> "none", ops |-> 0]}

MCSig == [tags |-> TRUE, t |-> TRUE, x |-> TRUE, bh |-> TRUE, b |-> TRUE, key |-> "rsa",
          alg |-> "rsa", h |-> {"from", "to"}, d |-> <<"hey", "com">>]
MCMailFrom(sigs) == [mime |-> "ok", from |-> <<"app", "hey", "com">>, sigs |-> sigs]
MCMailKind == {MCMailFrom(<<[MCSig EXCEPT !.d = <<"list", "co", "uk">>], MCSig>>),
               MCMailFrom(<<[MCSig EXCEPT !.tags = FALSE], [MCSig EXCEPT !.bh = FALSE], MCSig>>)}
MCMailAhead  == {1}
MCMailBudget == {1}

-----------------------------------------------------------------------------
MCVars == <<wvars, mailVars, part>>

MCInit ==
    /\ part \in {"workspaces", "mail"}
    /\ Init /\ MailInit
    /\ part = "mail" <=> kind[r1] = "none"
    /\ part = "mail" \/ (sender = "pending" /\ message.sigs[1].tags)

Mailing(A) == part = "mail" /\ A /\ UNCHANGED <<wvars, part>>

MCNext ==
    \/ part = "workspaces" /\ Next /\ UNCHANGED <<mailVars, part>>
    \/ Mailing(MailNext)

MCSpec == /\ MCInit /\ [][MCNext]_MCVars
          /\ Fairness   \* nothing of it is enabled while there are no requests
          /\ WF_MCVars(Mailing(MailProgress))

\* Workspaces.Collected of r1: r2 is its mirror image, or is not asked for.
IdleCollected == Collected(r1)

\* Mail.Kept, in the behaviours that are a message's.
MailArrives == <>(part = "mail" => Kept)

=============================================================================
