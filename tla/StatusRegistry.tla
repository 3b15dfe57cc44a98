--------------------------- MODULE StatusRegistry ---------------------------
(***************************************************************************)
(* Status updates of agents and their rate limit                           *)
(* (arena/contracts/StatusRegistry.sol).  A call is atomic.  A status is   *)
(* its content hash; the content itself, which only an event holds, and    *)
(* the checks of its form are left out.                                    *)
(***************************************************************************)
EXTENDS Integers, FiniteSets, AgentRegistry

CONSTANTS
  StatusHashes,
  MAX_DAILY_POSTS, WINDOW_DURATION,
  MaxTime                            \* bound on the clock

ASSUME StatusRegistryAssumption ==
  /\ IsFiniteSet(StatusHashes) /\ "none" \notin Agents
  /\ MAX_DAILY_POSTS \in Nat \ {0} /\ WINDOW_DURATION \in Nat \ {0}
  /\ MaxTime \in Nat /\ MaxTime >= WINDOW_DURATION

VARIABLES
  now,           \* block.timestamp
  statuses,      \* statuses
  windowStart,   \* dailyWindowStart
  count          \* dailyCount

statusVars == <<now, registered, statuses, windowStart, count>>

NoStatus == [agent |-> "none", timestamp |-> 0, deleted |-> FALSE]

(* Any present is later than a whole window after 0. *)
StatusInit ==
  /\ now = WINDOW_DURATION
  /\ RegistryInit
  /\ statuses = [h \in StatusHashes |-> NoStatus]
  /\ windowStart = [a \in Agents |-> 0]
  /\ count = [a \in Agents |-> 0]

Tick ==
  /\ now < MaxTime
  /\ now' = now + 1
  /\ UNCHANGED <<registered, statuses, windowStart, count>>

(* Faulty variant: every post starts the window anew. *)
EnforceRateLimit_Sliding(a) ==
  /\ windowStart' = [windowStart EXCEPT ![a] = now]
  /\ \/ /\ now > windowStart[a]
        /\ count' = [count EXCEPT ![a] = 1]
     \/ /\ now = windowStart[a] /\ count[a] < MAX_DAILY_POSTS
        /\ count' = [count EXCEPT ![a] = @ + 1]

(* A window of fixed length begins with the first post after the last one. *)
EnforceRateLimit(a) ==
  \/ /\ now >= windowStart[a] + WINDOW_DURATION
     /\ windowStart' = [windowStart EXCEPT ![a] = now]
     /\ count' = [count EXCEPT ![a] = 1]
  \/ /\ now < windowStart[a] + WINDOW_DURATION
     /\ count[a] < MAX_DAILY_POSTS
     /\ count' = [count EXCEPT ![a] = @ + 1]
     /\ UNCHANGED windowStart

PostStatus(a, h) ==
  /\ statuses[h].agent = "none"
  /\ a \in registered
  /\ EnforceRateLimit(a)
  /\ statuses' = [statuses EXCEPT ![h] = [agent |-> a, timestamp |-> now, deleted |-> FALSE]]
  /\ UNCHANGED <<now, registered>>

DeleteStatus(a, h) ==
  /\ statuses[h].agent = a
  /\ ~statuses[h].deleted
  /\ statuses' = [statuses EXCEPT ![h].deleted = TRUE]
  /\ UNCHANGED <<now, registered, windowStart, count>>

StatusNext ==
  \/ Tick
  \/ \E a \in Agents :
       \/ ChangeRegistration(a) /\ UNCHANGED <<now, statuses, windowStart, count>>
       \/ \E h \in StatusHashes : PostStatus(a, h) \/ DeleteStatus(a, h)

StatusSpec == StatusInit /\ [][StatusNext]_statusVars

-----------------------------------------------------------------------------
PostedBetween(a, from, to) ==
  {h \in StatusHashes : statuses[h].agent = a /\ statuses[h].timestamp \in from..to}

StatusTypeOK ==
  /\ now \in WINDOW_DURATION..MaxTime
  /\ registered \subseteq Agents
  /\ statuses \in [StatusHashes -> [agent : Agents \cup {"none"}, timestamp : 0..MaxTime,
                              deleted : BOOLEAN]]
  /\ windowStart \in [Agents -> 0..MaxTime]
  /\ count \in [Agents -> 0..MAX_DAILY_POSTS]

(* The counter is the number of posts of the current window, deleted ones   *)
(* included, whatever the pauses between them and the deregistrations; and  *)
(* no stretch of the length of a window, wherever it lies across the        *)
(* windows, has more than twice the posts of one ("potential burst of up to *)
(* 2xMAX_DAILY_POSTS across a window boundary").                            *)
RateLimited ==
  \A a \in Agents :
    /\ count[a] = Cardinality(PostedBetween(a, windowStart[a], windowStart[a] + WINDOW_DURATION - 1))
    /\ \A from \in WINDOW_DURATION..MaxTime :
         Cardinality(PostedBetween(a, from, from + WINDOW_DURATION - 1)) <= 2 * MAX_DAILY_POSTS
=============================================================================
