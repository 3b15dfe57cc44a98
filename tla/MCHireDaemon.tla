---------------------------- MODULE MCHireDaemon ----------------------------
(***************************************************************************)
(* Three scenarios in one run.  In "polls" two calls of poll overlap, the  *)
(* daemon does not restart, no worker sends requests of its own, and one   *)
(* id comes over HTTP but is not accepted at once.  In "restart" the       *)
(* daemon is restarted once, polls one at a time, takes requests over HTTP *)
(* one at a time, and one of the two workers sends some.  In "posts" two   *)
(* handlers of POST /hire and a poll overlap on one id, without a restart  *)
(* and without requests of workers.                                        *)
(***************************************************************************)
EXTENDS HireDaemon, TLC

CONSTANTS h1, h2, a1, a2, p1, p2

VARIABLE scenario

OneAgreementEach == h1 :> a1 @@ h2 :> a2
BothMessages == <<h1, h2>>

Allowed(p) == scenario = "polls" \/ p = p1

Handlers(h) == deciding[h] + arriving[h]

Within ==
  CASE scenario = "polls" ->
         /\ crashes = 0 /\ \A a \in Agreements : lock[a] # "granted"
         /\ deciding[h1] = 0 /\ deciding[h2] <= 1 /\ \A h \in Hires : arriving[h] = 0
    [] scenario = "restart" ->
         /\ \A p \in Polls : Allowed(p) \/ poll[p] = Idle
         /\ lock[a2] # "granted" /\ Handlers(h1) + Handlers(h2) <= 1
    [] scenario = "posts" ->
         /\ \A p \in Polls : Allowed(p) \/ poll[p] = Idle
         /\ crashes = 0 /\ \A a \in Agreements : lock[a] # "granted"
         /\ Handlers(h2) = 0

MCInit == Init /\ scenario \in {"polls", "restart", "posts"}
MCNext == Next /\ UNCHANGED scenario /\ Within'

(* The fairness of HireDaemon, for the polls that the scenario has. *)
MCSpec ==
  /\ MCInit /\ [][MCNext]_<<vars, scenario>>
  /\ \A p \in Polls :
       /\ WF_vars(Allowed(p) /\ PollStart(p))
       /\ SF_vars(PollAnswered(p))
       /\ WF_vars(\E acceptable \in BOOLEAN : HandleMessage(p, acceptable))
       /\ WF_vars(Approved(p) \/ ApprovedThrows(p))
       /\ WF_vars(PollEnds(p))
=============================================================================
