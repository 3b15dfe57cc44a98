--------------------------- MODULE SquadBriefing ----------------------------
(***************************************************************************)
(* The published outputs of squads (arena/contracts/SquadBriefing.sol), on *)
(* top of ResearchSquad: a lead publishes a briefing, or approves what a   *)
(* member proposed; other agents cite it.  Previews, endpoints and tags    *)
(* are left out.                                                           *)
(***************************************************************************)
EXTENDS ResearchSquad, Sequences, SequencesExt

CONSTANTS
  TrustScores,            \* scores the trust registry may give a citer
  MIN_CITER_TRUST

VARIABLES
  briefings,     \* _briefings, with _published
  published,     \* _squadBriefings
  proposals,     \* _proposals, with _proposalExists
  proposed,      \* _squadProposals
  snapshot,      \* citationTrustSnapshot of those in _hasCited, -1 of others
  counts         \* citationCount and weightedCitationCount

outputVars == <<briefings, published, proposals, proposed, snapshot, counts>>
briefingVars == <<squadVars, outputVars>>

ASSUME SquadBriefingAssumption ==
  "none" \notin Agents /\ TrustScores \subseteq Nat /\ MIN_CITER_TRUST \in Nat

None == "none"
NoNumber == -1
NoBriefing == [squad |-> NoNumber, publisher |-> None]
NoProposal == [squad |-> NoNumber, proposer |-> None, status |-> None]

BriefingInit ==
  /\ SquadInit
  /\ briefings = [h \in Hashes |-> NoBriefing]
  /\ published = [q \in Squads |-> <<>>]
  /\ proposals = [h \in Hashes |-> NoProposal]
  /\ proposed = [q \in Squads |-> <<>>]
  /\ snapshot = [h \in Hashes |-> [a \in Agents |-> NoNumber]]
  /\ counts = [h \in Hashes |-> [raw |-> 0, weighted |-> 0]]

IsPublished(h) == briefings[h] # NoBriefing

Publish(q, h, a) ==
  /\ briefings' = [briefings EXCEPT ![h] = [squad |-> q, publisher |-> a]]
  /\ published' = [published EXCEPT ![q] = Append(@, h)]

(* The squad may be a concluded one: only the role is asked for. *)
PublishBriefing(q, h, a) ==
  /\ a \in registered /\ ~IsPublished(h) /\ IsLead(q, a)
  /\ Publish(q, h, a)
  /\ UNCHANGED <<squadVars, proposals, proposed, snapshot, counts>>

(* Faulty variant: a pending proposal can be proposed again. *)
ProposeBriefing_Pending(q, h, a) ==
  /\ a \in registered /\ ~IsPublished(h) /\ IsMember(q, a)
  /\ proposals' = [proposals EXCEPT ![h] = [squad |-> q, proposer |-> a, status |-> "Pending"]]
  /\ proposed' = IF proposals[h] = NoProposal THEN [proposed EXCEPT ![q] = Append(@, h)] ELSE proposed
  /\ UNCHANGED <<squadVars, briefings, published, snapshot, counts>>

(* What was rejected may be proposed again, in any squad and by any member; *)
(* only the first proposal is entered in a squad's list.                    *)
ProposeBriefing(q, h, a) ==
  /\ a \in registered /\ ~IsPublished(h) /\ IsMember(q, a)
  /\ proposals[h].status \in {None, "Rejected"}
  /\ proposals' = [proposals EXCEPT ![h] = [squad |-> q, proposer |-> a, status |-> "Pending"]]
  /\ proposed' = IF proposals[h] = NoProposal THEN [proposed EXCEPT ![q] = Append(@, h)] ELSE proposed
  /\ UNCHANGED <<squadVars, briefings, published, snapshot, counts>>

MayDecide(h, a) ==
  /\ a \in registered /\ proposals[h].status = "Pending"
  /\ IsLead(proposals[h].squad, a)

(* Faulty variant: the hash may have been published in the meantime. *)
ApproveProposal_Published(h, a) ==
  /\ MayDecide(h, a)
  /\ proposals' = [proposals EXCEPT ![h].status = "Approved"]
  /\ Publish(proposals[h].squad, h, proposals[h].proposer)
  /\ UNCHANGED <<squadVars, proposed, snapshot, counts>>

ApproveProposal(h, a) ==
  /\ MayDecide(h, a) /\ ~IsPublished(h)
  /\ proposals' = [proposals EXCEPT ![h].status = "Approved"]
  /\ Publish(proposals[h].squad, h, proposals[h].proposer)
  /\ UNCHANGED <<squadVars, proposed, snapshot, counts>>

RejectProposal(h, a) ==
  /\ MayDecide(h, a)
  /\ proposals' = [proposals EXCEPT ![h].status = "Rejected"]
  /\ UNCHANGED <<squadVars, briefings, published, proposed, snapshot, counts>>

(* Faulty variant: an agent may cite again. *)
CiteBriefing_Again(h, a, score) ==
  /\ a \in registered /\ IsPublished(h) /\ a # briefings[h].publisher
  /\ counts[h].raw < Cardinality(Agents)
  /\ snapshot' = [snapshot EXCEPT ![h][a] = score]
  /\ counts' = [counts EXCEPT ![h].raw = @ + 1,
                              ![h].weighted = IF score >= MIN_CITER_TRUST THEN @ + 1 ELSE @]
  /\ UNCHANGED <<squadVars, briefings, published, proposals, proposed>>

CiteBriefing(h, a, score) ==
  /\ a \in registered /\ IsPublished(h) /\ snapshot[h][a] = NoNumber
  /\ a # briefings[h].publisher
  /\ snapshot' = [snapshot EXCEPT ![h][a] = score]
  /\ counts' = [counts EXCEPT ![h].raw = @ + 1,
                              ![h].weighted = IF score >= MIN_CITER_TRUST THEN @ + 1 ELSE @]
  /\ UNCHANGED <<squadVars, briefings, published, proposals, proposed>>

BriefingNext ==
  \/ SquadNext /\ UNCHANGED outputVars
  \/ \E h \in Hashes, a \in Agents :
       \/ \E q \in Squads : PublishBriefing(q, h, a) \/ ProposeBriefing(q, h, a)
       \/ ApproveProposal(h, a) \/ RejectProposal(h, a)
       \/ \E score \in TrustScores : CiteBriefing(h, a, score)

BriefingSpec == BriefingInit /\ [][BriefingNext]_briefingVars

-----------------------------------------------------------------------------
SquadOrNone == Squads \cup {NoNumber}
AgentOrNone == Agents \cup {None}

BriefingTypeOK ==
  /\ SquadTypeOK
  /\ briefings \in [Hashes -> [squad : SquadOrNone, publisher : AgentOrNone]]
  /\ proposals \in [Hashes -> [squad : SquadOrNone, proposer : AgentOrNone,
                               status : {None, "Pending", "Approved", "Rejected"}]]
  /\ published \in [Squads -> Seq(Hashes)] /\ proposed \in [Squads -> Seq(Hashes)]
  /\ \A q \in Squads : IsInjective(published[q]) /\ IsInjective(proposed[q])
  /\ snapshot \in [Hashes -> [Agents -> TrustScores \cup {NoNumber}]]
  /\ counts \in [Hashes -> [raw : 0..Cardinality(Agents), weighted : 0..Cardinality(Agents)]]

(* A published briefing stands in the list of its squad and in no other     *)
(* squad's, its publisher is a member there, and if it was proposed it is   *)
(* as it was approved: direct publication, rival proposals and late         *)
(* approvals cannot give one hash two homes or another author.              *)
PublishedOnce ==
  \A h \in Hashes :
    /\ \A q \in Squads :
         /\ h \in ToSet(published[q]) <=> (IsPublished(h) /\ briefings[h].squad = q)
         /\ briefings[h].squad = q => IsMember(q, briefings[h].publisher)
    /\ proposals[h].status = "Approved" =>
         briefings[h] = [squad |-> proposals[h].squad, publisher |-> proposals[h].proposer]

(* A publication is final, and a proposal that waits for a lead keeps its   *)
(* proposer and its squad: nobody can take a briefing over.                 *)
NothingTakenOver ==
  [][\A h \in Hashes :
       /\ IsPublished(h) => briefings'[h] = briefings[h]
       /\ proposals[h].status = "Pending" =>
            proposals'[h] \in {[proposals[h] EXCEPT !.status = st] :
                                 st \in {"Pending", "Approved", "Rejected"}}]_briefingVars

(* The counts are those of different agents other than the publisher, each  *)
(* weighed by the score it had when it cited.                               *)
CitationsHonest ==
  \A h \in Hashes :
    LET cited == {a \in Agents : snapshot[h][a] # NoNumber}
    IN /\ briefings[h].publisher \notin cited
       /\ counts[h].raw = Cardinality(cited)
       /\ counts[h].weighted = Cardinality({a \in cited : snapshot[h][a] >= MIN_CITER_TRUST})

(* Who is in a squad, what it published and how often that was cited are    *)
(* all accounted for.                                                       *)
SquadsHonest == MembersAdmitted /\ PublishedOnce /\ CitationsHonest
=============================================================================
