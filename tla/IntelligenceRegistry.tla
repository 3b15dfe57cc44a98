------------------------- MODULE IntelligenceRegistry ------------------------
(***************************************************************************)
(* The registry of intelligence artifacts                                  *)
(* (arena/contracts/IntelligenceRegistry.sol): registered agents enter     *)
(* artifacts under a capability and cite those of others.  What an         *)
(* artifact says of itself is left out.  The authors are the agents that   *)
(* the agent registry knows here.                                          *)
(***************************************************************************)
EXTENDS Integers, FiniteSets, Sequences, SequencesExt

CONSTANTS
  Authors, Artifacts, Capabilities,
  CiterScores,             \* scores the trust registry may give a citer
  MIN_SCORE,               \* MIN_CITER_TRUST
  CitationThresholds       \* CITATION_THRESHOLD_1 and CITATION_THRESHOLD_2

ASSUME IntelligenceAssumption ==
  /\ IsFiniteSet(Authors) /\ "none" \notin Authors
  /\ CiterScores \subseteq Nat /\ MIN_SCORE \in Nat
  /\ CitationThresholds \subseteq Nat \ {0}

VARIABLES
  enrolled,       \* the authors isRegistered answers true for
  artifact,       \* _artifacts, with _exists
  byCapability,   \* _byCapability
  citedAt,        \* citationTrustSnapshot of those in _cited, -1 of others
  announced       \* the CitationThresholdReached events of each artifact

intelligenceVars == <<enrolled, artifact, byCapability, citedAt, announced>>

Registry == INSTANCE AgentRegistry WITH Agents <- Authors, registered <- enrolled

Uncited == -1
NoArtifact == [creator |-> "none", tag |-> "none", raw |-> 0, weighted |-> 0]

IntelligenceInit ==
  /\ Registry!RegistryInit
  /\ artifact = [h \in Artifacts |-> NoArtifact]
  /\ byCapability = [t \in Capabilities |-> <<>>]
  /\ citedAt = [h \in Artifacts |-> [a \in Authors |-> Uncited]]
  /\ announced = [h \in Artifacts |-> <<>>]

(* Faulty variant: a hash is unique within its capability only. *)
Register_PerCapability(a, h, t) ==
  /\ a \in enrolled /\ h \notin ToSet(byCapability[t])
  /\ artifact' = [artifact EXCEPT ![h] = [NoArtifact EXCEPT !.creator = a, !.tag = t]]
  /\ byCapability' = [byCapability EXCEPT ![t] = Append(@, h)]
  /\ UNCHANGED <<enrolled, citedAt, announced>>

Register(a, h, t) ==
  /\ a \in enrolled /\ artifact[h] = NoArtifact
  /\ artifact' = [artifact EXCEPT ![h] = [NoArtifact EXCEPT !.creator = a, !.tag = t]]
  /\ byCapability' = [byCapability EXCEPT ![t] = Append(@, h)]
  /\ UNCHANGED <<enrolled, citedAt, announced>>

(* Faulty variant: the threshold is compared with the count before. *)
Announcement_Before(weighted, counted) ==
  IF weighted - counted \in CitationThresholds THEN <<weighted - counted>> ELSE <<>>

(* The event is sent whenever the count equals a threshold, also when the   *)
(* citation did not count.                                                  *)
Announcement(weighted, counted) ==
  IF weighted \in CitationThresholds THEN <<weighted>> ELSE <<>>

RecordCitation(a, h, score) ==
  LET counted == IF score >= MIN_SCORE THEN 1 ELSE 0
      weighted == artifact[h].weighted + counted
  IN /\ a \in enrolled /\ artifact[h] # NoArtifact
     /\ citedAt[h][a] = Uncited /\ a # artifact[h].creator
     /\ citedAt' = [citedAt EXCEPT ![h][a] = score]
     /\ artifact' = [artifact EXCEPT ![h].raw = @ + 1, ![h].weighted = weighted]
     /\ announced' = [announced EXCEPT ![h] = @ \o Announcement(weighted, counted)]
     /\ UNCHANGED <<enrolled, byCapability>>

IntelligenceNext ==
  \E a \in Authors :
    \/ Registry!ChangeRegistration(a) /\ UNCHANGED <<artifact, byCapability, citedAt, announced>>
    \/ \E h \in Artifacts, t \in Capabilities : Register(a, h, t)
    \/ \E h \in Artifacts, score \in CiterScores : RecordCitation(a, h, score)

IntelligenceSpec == IntelligenceInit /\ [][IntelligenceNext]_intelligenceVars

-----------------------------------------------------------------------------
Entered == {h \in Artifacts : artifact[h] # NoArtifact}
Citers(h) == {a \in Authors : citedAt[h][a] # Uncited}

(* An artifact stands once in the list of its capability and in no other;   *)
(* its counts are those of different agents other than its creator, each    *)
(* weighed by the score it had when it cited; and exactly the thresholds    *)
(* the weighted count has reached were announced, in their order, although  *)
(* one may be announced again by a citation that does not count.            *)
ArtifactsHonest ==
  /\ \A t \in Capabilities :
       /\ IsInjective(byCapability[t])
       /\ ToSet(byCapability[t]) = {h \in Entered : artifact[h].tag = t}
  /\ \A h \in Artifacts :
       /\ artifact[h].creator \notin Citers(h)
       /\ artifact[h].raw = Cardinality(Citers(h))
       /\ artifact[h].weighted = Cardinality({a \in Citers(h) : citedAt[h][a] >= MIN_SCORE})
       /\ ToSet(announced[h]) = {n \in CitationThresholds : n <= artifact[h].weighted}
       /\ \A i \in 1..(Len(announced[h]) - 1) : announced[h][i] <= announced[h][i + 1]
=============================================================================
