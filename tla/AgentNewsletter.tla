--------------------------- MODULE AgentNewsletter ---------------------------
(***************************************************************************)
(* Newsletters (arena/contracts/AgentNewsletter.sol): a registered agent   *)
(* creates one, publishes numbered issues and closes it.  Names, previews  *)
(* and endpoints are left out.                                             *)
(***************************************************************************)
EXTENDS AgentRegistry, Integers, Sequences, SequencesExt

CONSTANTS
  IssueHashes,
  MaxNewsletters    \* bound

ASSUME NewsletterAssumption == MaxNewsletters \in Nat

VARIABLES
  newsletters,      \* _newsletters: the id of one is its index less 1
  issues,           \* _issues, as long as _issueCount
  publishedHash     \* _publishedHash

newsletterOnlyVars == <<newsletters, issues, publishedHash>>
newsletterVars == <<registered, newsletterOnlyVars>>

Newsletters == 1..Len(newsletters)

NewsletterInit ==
  /\ RegistryInit
  /\ newsletters = <<>>
  /\ issues = [n \in 1..MaxNewsletters |-> <<>>]
  /\ publishedHash = {}

CreateNewsletter(a) ==
  /\ a \in registered /\ Len(newsletters) < MaxNewsletters
  /\ newsletters' = Append(newsletters, [publisher |-> a, active |-> TRUE])
  /\ UNCHANGED <<registered, issues, publishedHash>>

(* Faulty variant: a hash is unique within its newsletter only. *)
PublishIssue_PerNewsletter(a, n, h) ==
  /\ a \in registered
  /\ n \in Newsletters /\ newsletters[n] = [publisher |-> a, active |-> TRUE]
  /\ h \notin ToSet(issues[n])
  /\ issues' = [issues EXCEPT ![n] = Append(@, h)]
  /\ publishedHash' = publishedHash \cup {h}
  /\ UNCHANGED <<registered, newsletters>>

PublishIssue(a, n, h) ==
  /\ a \in registered
  /\ n \in Newsletters /\ newsletters[n] = [publisher |-> a, active |-> TRUE]
  /\ h \notin publishedHash
  /\ issues' = [issues EXCEPT ![n] = Append(@, h)]
  /\ publishedHash' = publishedHash \cup {h}
  /\ UNCHANGED <<registered, newsletters>>

(* An agent that has left the registry may still close what it created. *)
DeactivateNewsletter(a, n) ==
  /\ n \in Newsletters /\ newsletters[n] = [publisher |-> a, active |-> TRUE]
  /\ newsletters' = [newsletters EXCEPT ![n].active = FALSE]
  /\ UNCHANGED <<registered, issues, publishedHash>>

NewsletterNext ==
  \E a \in Agents :
    \/ ChangeRegistration(a) /\ UNCHANGED newsletterOnlyVars
    \/ CreateNewsletter(a)
    \/ \E n \in 1..MaxNewsletters :
         DeactivateNewsletter(a, n) \/ \E h \in IssueHashes : PublishIssue(a, n, h)

NewsletterSpec == NewsletterInit /\ [][NewsletterNext]_newsletterVars

-----------------------------------------------------------------------------
(* What was published stays under its number, a closed newsletter never     *)
(* grows again, whoever leaves the registry and comes back, and one hash is *)
(* the proof of one issue of one newsletter only.                           *)
IssuesKept ==
  [][\A n \in 1..MaxNewsletters :
       /\ IsPrefix(issues[n], issues'[n])
       /\ n \in Newsletters /\ ~newsletters[n].active => issues'[n] = issues[n]
       /\ IsInjective(issues'[n])
       /\ \A m \in 1..(n - 1) : ToSet(issues'[m]) \cap ToSet(issues'[n]) = {}]_newsletterVars
=============================================================================
