--------------------------- MODULE ResearchSquad ----------------------------
(***************************************************************************)
(* Squads of agents (arena/contracts/ResearchSquad.sol): who may join, who *)
(* leads, and what the members contributed.  A call is atomic.  Squads are *)
(* numbered from 0; names and descriptions are left out.                   *)
(***************************************************************************)
EXTENDS Integers, FiniteSets, AgentRegistry

CONSTANTS
  Hashes,               \* content hashes
  MAX_SQUAD_MEMBERS,
  MaxSquads             \* bound on squads

ASSUME ResearchSquadAssumption ==
  /\ IsFiniteSet(Agents)
  /\ MAX_SQUAD_MEMBERS \in Nat \ {0} /\ MaxSquads \in Nat

VARIABLES
  squads,         \* _squads
  roles,          \* _roles, "none" for who is not a member
  invited,        \* _invited
  contributions   \* _contributions

squadVars == <<registered, squads, roles, invited, contributions>>

Squads == 0..(MaxSquads - 1)
NoSquad == [status |-> "none", inviteOnly |-> FALSE, memberCount |-> 0]

SquadInit ==
  /\ RegistryInit
  /\ squads = [q \in Squads |-> NoSquad]
  /\ roles = [q \in Squads |-> [a \in Agents |-> "none"]]
  /\ invited = [q \in Squads |-> {}]
  /\ contributions = {}

Exists(q) == squads[q].status # "none"
Active(q) == squads[q].status = "Active"
IsMember(q, a) == roles[q][a] # "none"
IsLead(q, a) == roles[q][a] = "Lead"

CreateSquad(a, inviteOnly) ==
  /\ a \in registered
  /\ \E q \in Squads :
       /\ ~Exists(q) /\ \A p \in 0..(q - 1) : Exists(p)
       /\ squads' = [squads EXCEPT ![q] =
            [status |-> "Active", inviteOnly |-> inviteOnly, memberCount |-> 1]]
       /\ roles' = [roles EXCEPT ![q][a] = "Lead"]
  /\ UNCHANGED <<registered, invited, contributions>>

(* Faulty variant: the squad's rule is not looked at. *)
JoinSquad_Uninvited(q, a) ==
  /\ Active(q) /\ a \in registered /\ ~IsMember(q, a)
  /\ squads[q].memberCount < MAX_SQUAD_MEMBERS
  /\ roles' = [roles EXCEPT ![q][a] = "Contributor"]
  /\ squads' = [squads EXCEPT ![q].memberCount = @ + 1]
  /\ UNCHANGED <<registered, invited, contributions>>

JoinSquad(q, a) ==
  /\ Active(q) /\ a \in registered /\ ~IsMember(q, a)
  /\ squads[q].inviteOnly => a \in invited[q]
  /\ squads[q].memberCount < MAX_SQUAD_MEMBERS
  /\ roles' = [roles EXCEPT ![q][a] = "Contributor"]
  /\ squads' = [squads EXCEPT ![q].memberCount = @ + 1]
  /\ UNCHANGED <<registered, invited, contributions>>

InviteAgent(q, lead, a) ==
  /\ lead \in registered /\ Active(q) /\ IsLead(q, lead)
  /\ a \in registered /\ ~IsMember(q, a) /\ a \notin invited[q]
  /\ invited' = [invited EXCEPT ![q] = @ \cup {a}]
  /\ UNCHANGED <<registered, squads, roles, contributions>>

(* A hash is recorded once in all squads. *)
RecordContribution(q, a, h) ==
  /\ a \in registered /\ Active(q) /\ IsMember(q, a)
  /\ \A c \in contributions : c.hash # h
  /\ contributions' = contributions \cup {[squad |-> q, by |-> a, hash |-> h]}
  /\ UNCHANGED <<registered, squads, roles, invited>>

ConcludeSquad(q, a) ==
  /\ a \in registered /\ Active(q) /\ IsLead(q, a)
  /\ squads' = [squads EXCEPT ![q].status = "Completed"]
  /\ UNCHANGED <<registered, roles, invited, contributions>>

SquadNext ==
  \E a \in Agents :
    \/ \E inviteOnly \in BOOLEAN : CreateSquad(a, inviteOnly)
    \/ ChangeRegistration(a) /\ UNCHANGED <<squads, roles, invited, contributions>>
    \/ \E q \in Squads :
         \/ JoinSquad(q, a) \/ ConcludeSquad(q, a)
         \/ \E b \in Agents : InviteAgent(q, a, b)
         \/ \E h \in Hashes : RecordContribution(q, a, h)

SquadSpec == SquadInit /\ [][SquadNext]_squadVars

-----------------------------------------------------------------------------
Members(q) == {a \in Agents : IsMember(q, a)}

SquadTypeOK ==
  /\ registered \subseteq Agents
  /\ squads \in [Squads -> [status : {"none", "Active", "Completed"}, inviteOnly : BOOLEAN,
                            memberCount : 0..MAX_SQUAD_MEMBERS]]
  /\ roles \in [Squads -> [Agents -> {"none", "Lead", "Contributor"}]]
  /\ invited \in [Squads -> SUBSET Agents]
  /\ contributions \subseteq [squad : Squads, by : Agents, hash : Hashes]

(* An invite-only squad has no member but its creator and those who were    *)
(* invited, whatever joins and invitations came in which order; and the     *)
(* count that limits a squad is the number of its members.                  *)
MembersAdmitted ==
  \A q \in Squads :
    /\ squads[q].memberCount = Cardinality(Members(q))
    /\ squads[q].inviteOnly => \A a \in Members(q) : IsLead(q, a) \/ a \in invited[q]
=============================================================================
