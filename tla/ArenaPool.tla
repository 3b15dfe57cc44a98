----------------------------- MODULE ArenaPool ------------------------------
(***************************************************************************)
(* The prediction rounds of the arena (arena/contracts/ArenaPool.sol):     *)
(* agents stake on yes or no, a quorum of watchtowers resolves the round,  *)
(* winners claim their stake and their part of the losers' stakes less a   *)
(* fee, and stakes of a round that is not resolved in time are refunded.   *)
(* All rounds share one balance.  A call is atomic; one that reverts is a  *)
(* step that is not taken.                                                 *)
(*                                                                         *)
(* Which agents and watchtowers are registered, and what a spending policy *)
(* allows, is decided by other contracts: any agent of the model may be    *)
(* let in.  Notes, evidence hashes and the standings, which nothing reads, *)
(* are left out.  received and feesPaid record transfers out, and refunded  *)
(* the agents that took the stake of an unresolved round back.             *)
(***************************************************************************)
EXTENDS Integers, FiniteSets, Functions

CONSTANTS
  Agents, Watchtowers,
  Amounts,                        \* stakes an agent may choose
  MinEntries,                     \* minimum entries a creator may choose
  Durations,                      \* durations a creator may choose
  FeeChoices,                     \* fees governance may set
  STAKING_CUTOFF_BEFORE_RESOLVE, RESOLUTION_GRACE_PERIOD, EMERGENCY_REFUND_DELAY,
  RESOLUTION_QUORUM,
  MaxRounds,                      \* bound on rounds
  MaxTime                         \* bound on the clock

ASSUME ArenaPoolAssumption ==
  /\ IsFiniteSet(Agents) /\ IsFiniteSet(Watchtowers)
  /\ Amounts \subseteq Nat /\ MinEntries \subseteq Nat \ {0}
  /\ Durations \subseteq Nat /\ FeeChoices \subseteq Nat
  /\ STAKING_CUTOFF_BEFORE_RESOLVE \in Nat
  /\ EMERGENCY_REFUND_DELAY \in Nat
  /\ RESOLUTION_GRACE_PERIOD \in 0..EMERGENCY_REFUND_DELAY
  /\ RESOLUTION_QUORUM \in Nat \ {0}
  /\ MaxRounds \in Nat /\ MaxTime \in Nat \ {0}

VARIABLES
  now,        \* block.timestamp
  feeBps,     \* the fee rounds resolved from now on will pay
  nextRound,  \* _nextRoundId: ids below it exist
  rounds,     \* _rounds with _roundMinEntry and _roundFeeBps
  entries,    \* _entries: side and amount of each agent in each round
  attested,   \* _resolutionAttestations, with the outcome attested
  claimed,    \* _claimed: agents paid or refunded, per round
  received,   \* what an agent was paid out of a round
  feesPaid,   \* what the treasury was paid out of a round
  refunded,   \* who left before the round was resolved
  vault       \* the contract's USDC

vars == <<now, feeBps, nextRound, rounds, entries, attested, claimed, received, feesPaid, refunded, vault>>

MAX_FEE_BPS == 1000
BPS_DENOMINATOR == 10000

Rounds == 0..(MaxRounds - 1)
Sides == {"yes", "no"}
NoEntry == [side |-> "none", amount |-> 0]
NoRound == [pot |-> [s \in Sides |-> 0], stakingClosesAt |-> 0, resolvesAt |-> 0,
            minEntry |-> 0, resolved |-> FALSE, outcome |-> "none", fee |-> 0]

Init ==
  /\ now = 1
  /\ feeBps \in {f \in FeeChoices : f <= MAX_FEE_BPS}
  /\ nextRound = 0
  /\ rounds = [r \in Rounds |-> NoRound]
  /\ entries = [r \in Rounds |-> [a \in Agents |-> NoEntry]]
  /\ attested = [r \in Rounds |-> [w \in Watchtowers |-> "none"]]
  /\ claimed = [r \in Rounds |-> {}]
  /\ received = [r \in Rounds |-> [a \in Agents |-> 0]]
  /\ feesPaid = [r \in Rounds |-> 0]
  /\ refunded = [r \in Rounds |-> {}]
  /\ vault = 0

Exists(r) == r \in Rounds /\ r < nextRound
Other(s) == IF s = "yes" THEN "no" ELSE "yes"
Entered(r) == {a \in Agents : entries[r][a] # NoEntry}
(* Faulty variant: every vote counts towards the quorum. *)
Votes_AnyOutcome(r, s) == Cardinality({w \in Watchtowers : attested[r][w] # "none"})

Votes(r, s) == Cardinality({w \in Watchtowers : attested[r][w] = s})

Tick ==
  /\ now < MaxTime
  /\ now' = now + 1
  /\ UNCHANGED <<feeBps, nextRound, rounds, entries, attested, claimed, received, feesPaid, refunded, vault>>

CreateRound(d, m) ==
  /\ nextRound < MaxRounds
  /\ now + d + EMERGENCY_REFUND_DELAY < MaxTime  \* bound: the clock outlasts the round
  /\ d > STAKING_CUTOFF_BEFORE_RESOLVE
  /\ nextRound' = nextRound + 1
  /\ rounds' = [rounds EXCEPT ![nextRound] =
       [NoRound EXCEPT !.resolvesAt = now + d,
                       !.stakingClosesAt = now + d - STAKING_CUTOFF_BEFORE_RESOLVE,
                       !.minEntry = m]]
  /\ UNCHANGED <<now, feeBps, entries, attested, claimed, received, feesPaid, refunded, vault>>

EnterRound(r, a, s, amount) ==
  /\ Exists(r)
  /\ ~rounds[r].resolved
  /\ now < rounds[r].stakingClosesAt
  /\ amount >= rounds[r].minEntry
  /\ entries[r][a] = NoEntry
  /\ entries' = [entries EXCEPT ![r][a] = [side |-> s, amount |-> amount]]
  /\ rounds' = [rounds EXCEPT ![r].pot[s] = @ + amount]
  /\ vault' = vault + amount
  /\ UNCHANGED <<now, feeBps, nextRound, attested, claimed, received, feesPaid, refunded>>

SubmitResolution(r, w, s) ==
  /\ Exists(r)
  /\ now >= rounds[r].resolvesAt
  /\ ~rounds[r].resolved
  /\ attested[r][w] = "none"
  /\ attested' = [attested EXCEPT ![r][w] = s]
  /\ rounds' = IF Votes(r, s) + 1 >= RESOLUTION_QUORUM
               THEN [rounds EXCEPT ![r].resolved = TRUE, ![r].outcome = s, ![r].fee = feeBps]
               ELSE rounds
  /\ UNCHANGED <<now, feeBps, nextRound, entries, claimed, received, feesPaid, refunded, vault>>

(* transfers to agent a and to the treasury; both revert without the money *)
PayOut(r, a, amount, fee) ==
  /\ vault >= amount + fee
  /\ claimed' = [claimed EXCEPT ![r] = @ \cup {a}]
  /\ received' = [received EXCEPT ![r][a] = amount]
  /\ feesPaid' = [feesPaid EXCEPT ![r] = @ + fee]
  /\ vault' = vault - amount - fee
  /\ UNCHANGED <<now, feeBps, nextRound, rounds, entries, attested>>

(* Faulty variant: the fee of today, not the one of the resolution. *)
Winnings_CurrentFee(round, stake) ==
  LET losing == round.pot[Other(round.outcome)]
      fee == (losing * feeBps) \div BPS_DENOMINATOR
  IN stake + (stake * (losing - fee)) \div round.pot[round.outcome]

(* What a winner with this stake gets, and the treasury with it: the fee is *)
(* taken from the losers' pot, and every division rounds down.              *)
Winnings(round, stake) ==
  LET losing == round.pot[Other(round.outcome)]
      fee == (losing * round.fee) \div BPS_DENOMINATOR
  IN stake + (stake * (losing - fee)) \div round.pot[round.outcome]

(* Faulty variant: the treasury's part of a claim is rounded up. *)
FeeShare_RoundedUp(round, stake) ==
  1 + (round.pot[Other(round.outcome)] * round.fee * stake)
        \div (BPS_DENOMINATOR * round.pot[round.outcome])

FeeShare(round, stake) ==
  (round.pot[Other(round.outcome)] * round.fee * stake)
    \div (BPS_DENOMINATOR * round.pot[round.outcome])

CanLeave(r, a) == Exists(r) /\ a \in Entered(r) \ claimed[r]

Claim(r, a) ==
  LET round == rounds[r]
      entry == entries[r][a]
  IN /\ CanLeave(r, a)
     /\ round.resolved
     /\ \/ /\ round.pot[round.outcome] = 0  \* nobody won: everybody is refunded
           /\ PayOut(r, a, entry.amount, 0)
           /\ UNCHANGED refunded
        \/ /\ round.pot[round.outcome] > 0
           /\ entry.side = round.outcome
           /\ PayOut(r, a, Winnings(round, entry.amount), FeeShare(round, entry.amount))
           /\ UNCHANGED refunded

Refund(r, a) ==
  /\ PayOut(r, a, entries[r][a].amount, 0)
  /\ refunded' = [refunded EXCEPT ![r] = @ \cup {a}]

EmergencyRefund(r, a) ==
  /\ CanLeave(r, a)
  /\ ~rounds[r].resolved
  /\ now > rounds[r].resolvesAt + EMERGENCY_REFUND_DELAY
  /\ Refund(r, a)

(* Faulty variant: a refund only for a round that a vote was cast on. *)
RefundUnresolved_Attested(r, a) ==
  /\ CanLeave(r, a)
  /\ \E w \in Watchtowers : attested[r][w] # "none"
  /\ now > rounds[r].resolvesAt + RESOLUTION_GRACE_PERIOD
  /\ Refund(r, a)

RefundUnresolved(r, a) ==
  /\ CanLeave(r, a)
  /\ ~rounds[r].resolved
  /\ now > rounds[r].resolvesAt + RESOLUTION_GRACE_PERIOD
  /\ Refund(r, a)

SetFeeBps(f) ==
  /\ f <= MAX_FEE_BPS
  /\ feeBps' = f
  /\ UNCHANGED <<now, nextRound, rounds, entries, attested, claimed, received, feesPaid, refunded, vault>>

Next ==
  \/ Tick
  \/ \E d \in Durations, m \in MinEntries : CreateRound(d, m)
  \/ \E f \in FeeChoices : SetFeeBps(f)
  \/ \E r \in Rounds :
       \/ \E w \in Watchtowers, s \in Sides : SubmitResolution(r, w, s)
       \/ \E a \in Agents :
            \/ \E s \in Sides, amount \in Amounts : EnterRound(r, a, s, amount)
            \/ Claim(r, a)
            \/ EmergencyRefund(r, a)
            \/ RefundUnresolved(r, a)

(* Time passes, and an agent asks for its winnings or its refund when it may. *)
Fairness ==
  /\ WF_vars(Tick)
  /\ \A r \in Rounds, a \in Agents : WF_vars(Claim(r, a) \/ RefundUnresolved(r, a))

Spec == Init /\ [][Next]_vars /\ Fairness

-----------------------------------------------------------------------------
Statuses == Sides \cup {"none"}

TypeOK ==
  /\ now \in 1..MaxTime
  /\ feeBps \in 0..MAX_FEE_BPS
  /\ nextRound \in 0..MaxRounds
  /\ rounds \in [Rounds -> [pot : [Sides -> Nat], stakingClosesAt : Nat, resolvesAt : Nat,
                            minEntry : Nat, resolved : BOOLEAN, outcome : Statuses,
                            fee : 0..MAX_FEE_BPS]]
  /\ entries \in [Rounds -> [Agents -> [side : Statuses, amount : Nat]]]
  /\ attested \in [Rounds -> [Watchtowers -> Statuses]]
  /\ claimed \in [Rounds -> SUBSET Agents]
  /\ received \in [Rounds -> [Agents -> Nat]]
  /\ feesPaid \in [Rounds -> Nat]
  /\ refunded \in [Rounds -> SUBSET Agents]
  /\ vault \in Nat

Winner(r, a) == entries[r][a].side = rounds[r].outcome
NobodyWon(r) == rounds[r].resolved /\ rounds[r].pot[rounds[r].outcome] = 0

(* What leaves the contract when agent a takes what round r has for it.     *)
Due(r, a) ==
  IF a \notin Entered(r) \ claimed[r] THEN 0
  ELSE IF ~rounds[r].resolved \/ NobodyWon(r) THEN entries[r][a].amount
  ELSE IF Winner(r, a)
       THEN Winnings(rounds[r], entries[r][a].amount) + FeeShare(rounds[r], entries[r][a].amount)
       ELSE 0

(* A round that was refunded in part before the late vote that resolved it. *)
LateResolved(r) == rounds[r].resolved /\ ~NobodyWon(r) /\ refunded[r] # {}

(* The contract holds what every agent that has not left can still take, in *)
(* whatever order they come, however the divisions round and the fee        *)
(* changes; rounds resolved after a refund are the exception.                *)
Solvent ==
  (\A r \in Rounds : ~LateResolved(r)) =>
    SumFunction([r \in Rounds |-> SumFunction([a \in Agents |-> Due(r, a)])]) <= vault

(* Two winners of a round with the same stake are paid the same, whatever   *)
(* governance does to the fee between their claims ("Fee snapshotted at     *)
(* resolution time").                                                       *)
EqualStakesEqualPayouts ==
  \A r \in Rounds : \A a, b \in claimed[r] \ refunded[r] :
    entries[r][a] = entries[r][b] => received[r][a] = received[r][b]

(* A round is resolved by as many different watchtowers as the quorum, all  *)
(* for its outcome: votes for the other side do not count towards it.       *)
QuorumBacked ==
  \A r \in Rounds :
    rounds[r].resolved =>
      Cardinality({w \in Watchtowers : attested[r][w] = rounds[r].outcome}) >= RESOLUTION_QUORUM

(* Whatever the order of votes, fee changes and claims, a round is decided  *)
(* by its quorum and its winners are treated alike.                         *)
RoundsFair == EqualStakesEqualPayouts /\ QuorumBacked

(* What agent a put into round r has come back, or is lost for good.        *)
Returned(r, a) ==
  \/ a \in claimed[r]
  \/ rounds[r].resolved /\ ~NobodyWon(r) /\ ~Winner(r, a)
  \/ LateResolved(r)

(* Nobody is left waiting for ever: every agent that entered a round gets   *)
(* its stake or its winnings, with or without a quorum of watchtowers,      *)
(* unless the round is resolved against it or after a refund (an entry and  *)
(* its return are for good, so this is once and for all).                   *)
StakesReturned ==
  []<>(\A r \in Rounds : \A a \in Entered(r) : Returned(r, a))

(* The contract says of claim: "Losers receive nothing".  Fails: a loser    *)
(* takes the refund of an overdue round, which is resolved afterwards.      *)
LosersReceiveNothing ==
  \A r \in Rounds, a \in Agents :
    rounds[r].resolved /\ ~NobodyWon(r) /\ a \in Entered(r) /\ ~Winner(r, a)
      => received[r][a] = 0
=============================================================================
