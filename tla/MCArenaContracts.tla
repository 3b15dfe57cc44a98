-------------------------- MODULE MCArenaContracts --------------------------
(***************************************************************************)
(* The arena's contracts that keep no common state but the agent registry: *)
(* squads and their briefings, status updates, the split of a squad's      *)
(* revenue, artifacts and newsletters.  In one behaviour calls reach one   *)
(* of them, the scenario.                                                  *)
(***************************************************************************)
EXTENDS SquadBriefing, StatusRegistry, SquadRevenueSplit, IntelligenceRegistry, AgentNewsletter

CONSTANTS a1, a2, h1, r1, r2

VARIABLE scenario

(* One recipient occurs twice, and the shares divide no amount evenly. *)
MCSplit == <<[to |-> r1, bps |-> 3334], [to |-> r2, bps |-> 3333], [to |-> r1, bps |-> 3333]>>
MCMaxIncome == [t \in Tokens |-> IF t = "ETH" THEN 11 ELSE 4]

(* Hashes of statuses are interchangeable: the lowest free one is used.     *)
InOrder == \A h \in StatusHashes : statuses'[h] # NoStatus => \A g \in 1..(h - 1) : statuses'[g] # NoStatus

MCInit ==
  /\ scenario \in {"squads", "status", "split", "artifacts", "newsletters"}
  /\ BriefingInit /\ StatusInit /\ SplitInit /\ IntelligenceInit /\ NewsletterInit
  /\ scenario # "split" => accepting = [t \in Tokens |-> Recipients]

statusOnlyVars == <<now, statuses, windowStart, count>>
briefingOnlyVars == <<squads, roles, invited, contributions, outputVars>>

MCNext ==
  /\ UNCHANGED scenario
  /\ \/ /\ scenario = "squads" /\ BriefingNext
        /\ UNCHANGED <<statusOnlyVars, splitVars, intelligenceVars, newsletterOnlyVars>>
     \/ /\ scenario = "status" /\ StatusNext /\ InOrder
        /\ UNCHANGED <<briefingOnlyVars, splitVars, intelligenceVars, newsletterOnlyVars>>
     \/ /\ scenario = "split" /\ SplitNext
        /\ UNCHANGED <<briefingVars, statusOnlyVars, intelligenceVars, newsletterOnlyVars>>
     \/ /\ scenario = "artifacts" /\ IntelligenceNext
        /\ UNCHANGED <<briefingVars, statusOnlyVars, splitVars, newsletterOnlyVars>>
     \/ /\ scenario = "newsletters" /\ NewsletterNext
        /\ UNCHANGED <<briefingOnlyVars, statusOnlyVars, splitVars, intelligenceVars>>

contracts == <<briefingVars, statusVars, splitVars, intelligenceVars, newsletterVars>>

MCSpec == MCInit /\ [][MCNext]_<<scenario, contracts>>
=============================================================================
