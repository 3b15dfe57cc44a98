------------------------ MODULE SubscriptionAgreement ------------------------
(***************************************************************************)
(* The recurring-payment contract, contracts/src/SubscriptionAgreement.sol. *)
(* A provider publishes offerings; a subscriber deposits a number of        *)
(* periods, of which the first is credited at once and each later one when  *)
(* the subscription is renewed; what was not consumed goes back on          *)
(* cancellation, on expiry or at the end of a dispute.  All credits are     *)
(* pull payments.                                                           *)
(*                                                                          *)
(* Every external function of the contract is nonReentrant, so a call is    *)
(* one atomic step and a call that reverts is no step at all.  The clock is *)
(* block.timestamp, in abstract ticks.                                      *)
(***************************************************************************)
EXTENDS Integers, FiniteSets, Functions, PullPayments

CONSTANTS
  Users,            \* the accounts that call the contract or are credited by it
  Providers,        \* those of them that publish offerings
  Subscribers,      \* those of them that subscribe
  Treasuries,       \* the accounts the owner may make the protocol treasury
  NoUser,           \* address(0) where an account is expected
  Tokens,           \* payment tokens, ETH among them
  ETH,              \* address(0) where a token is expected
  Prices,           \* the pricePerPeriod values an offering may be created with
  PeriodLengths,    \* the periodSeconds values an offering may be created with
  Caps,             \* the maxSubscribers values a provider may choose
  TopUps,           \* the amounts topUp may be called with
  Awards,           \* the awards the owner may pass to a SPLIT resolution
  FeeChoices,       \* the protocolFeeBps values the owner may set
  ArbitrationSet,   \* whether the owner may set and unset disputeArbitration
  DisputeFees,      \* the msg.value a subscriber may send along with a dispute
  DISPUTE_WINDOW,   \* ticks before the owner may resolve a dispute (24 hours)
  DISPUTE_TIMEOUT,  \* ticks after which the timeout refund opens (7 days)
  MaxOfferings,     \* bound: offerings created
  MaxPeriods,       \* bound: periods bought by one subscribe
  MaxBalance,       \* bound: tokens of one kind held by the contract
  MaxTime           \* bound: the last tick

MAX_PROTOCOL_FEE_BPS == 100
BPS_DENOMINATOR == 10000

ASSUME UsersAssumption ==
  /\ NoUser \notin Users
  /\ Providers \subseteq Users
  /\ Subscribers \subseteq Users
  /\ IsFiniteSet(Users)
  /\ Treasuries \subseteq Users
ASSUME TokensAssumption == ETH \in Tokens
ASSUME AmountsAssumption ==
  /\ Prices \subseteq Nat \ {0}
  /\ PeriodLengths \subseteq Nat \ {0}
  /\ Caps \subseteq Nat
  /\ TopUps \subseteq Nat \ {0}
  /\ Awards \subseteq Nat
  /\ DisputeFees \subseteq Nat
  /\ ArbitrationSet \subseteq BOOLEAN
  /\ FeeChoices \subseteq 0..MAX_PROTOCOL_FEE_BPS
ASSUME TimeAssumption ==
  /\ DISPUTE_WINDOW \in Nat
  /\ DISPUTE_TIMEOUT \in Nat
  /\ MaxOfferings \in Nat
  /\ MaxPeriods \in Nat
  /\ MaxBalance \in Nat
  /\ MaxTime \in Nat

VARIABLES
  now,                 \* block.timestamp
  nextOfferingId,      \* _nextOfferingId
  offerings,           \* offerings[id]
  subscriptions,       \* subscriptions[keccak256(subscriber, id)]
  pendingWithdrawals,  \* pendingWithdrawals[user][token]
  balance,             \* the contract's own holdings, per token
  protocolFeeBps,      \* protocolFeeBps
  protocolTreasury,    \* protocolTreasury, NoUser when unset
  daSet                \* disputeArbitration # address(0)

config == <<protocolFeeBps, protocolTreasury, daSet>>
vars == <<now, nextOfferingId, offerings, subscriptions, pendingWithdrawals,
          balance, protocolFeeBps, protocolTreasury, daSet>>

OfferingIds == 1..MaxOfferings
SubscriptionIds == Subscribers \X OfferingIds

(* The zero-initialised structs an unused mapping slot reads as. *)
NoOffering ==
  [provider |-> NoUser, pricePerPeriod |-> 0, periodSeconds |-> 0, token |-> ETH,
   active |-> FALSE, maxSubscribers |-> 0, subscriberCount |-> 0]

NoSubscription ==
  [subscriber |-> NoUser, startedAt |-> 0, currentPeriodEnd |-> 0, deposited |-> 0,
   consumed |-> 0, active |-> FALSE, cancelled |-> FALSE, disputed |-> FALSE,
   disputeOpenedAt |-> 0]

-----------------------------------------------------------------------------
(* Derived values. *)

OfferingOf(k) == offerings[k[2]]

Remaining(k) == subscriptions[k].deposited - subscriptions[k].consumed

(* The protocol's share of one period's price; nothing when there is no    *)
(* treasury to credit.                                                     *)
ProtocolFee(price) ==
  IF protocolTreasury = NoUser THEN 0
  ELSE (price * protocolFeeBps) \div BPS_DENOMINATOR

(* Faulty variant: the fee is credited on top of the whole price. *)
CreditPeriod_FeeOnTop(pw, o) ==
  Credit(Credit(pw, protocolTreasury, o.token, ProtocolFee(o.pricePerPeriod)),
         o.provider, o.token, o.pricePerPeriod)

(* The split of one consumed period between treasury and provider. *)
CreditPeriod(pw, o) ==
  LET fee == ProtocolFee(o.pricePerPeriod)
  IN  Credit(Credit(pw, protocolTreasury, o.token, fee),
             o.provider, o.token, o.pricePerPeriod - fee)

(* Where the ETH sent along with disputeSubscription goes: forwarded when  *)
(* DisputeArbitration takes the call, handed back in every other case.     *)
FeeForwarded(value, accepted) == IF accepted THEN value ELSE 0
FeeRefunded(value, accepted) == IF accepted THEN 0 ELSE value

(* The awards a resolution pays, given what is left of the deposit. *)
ProviderAward(outcome, remaining, award) ==
  CASE outcome = "PROVIDER_WINS"   -> remaining
    [] outcome = "SUBSCRIBER_WINS" -> 0
    [] outcome = "SPLIT"           -> award

SubscriberAward(outcome, remaining, award) ==
  CASE outcome = "PROVIDER_WINS"   -> 0
    [] outcome = "SUBSCRIBER_WINS" -> remaining
    [] outcome = "SPLIT"           -> award

(* A subscription that can be renewed, cancelled, topped up or disputed. *)
Live(k) ==
  /\ subscriptions[k].subscriber # NoUser
  /\ subscriptions[k].active
  /\ ~subscriptions[k].cancelled
  /\ ~subscriptions[k].disputed

-----------------------------------------------------------------------------
Init ==
  /\ now = 0
  /\ nextOfferingId = 1
  /\ offerings = [o \in OfferingIds |-> NoOffering]
  /\ subscriptions = [k \in SubscriptionIds |-> NoSubscription]
  /\ pendingWithdrawals = [u \in Users |-> [t \in Tokens |-> 0]]
  /\ balance = [t \in Tokens |-> 0]
  /\ protocolFeeBps \in FeeChoices
  /\ protocolTreasury = NoUser
  /\ daSet = FALSE

Tick ==
  /\ now < MaxTime
  /\ now' = now + 1
  /\ UNCHANGED <<nextOfferingId, offerings, subscriptions, pendingWithdrawals,
                 balance, config>>

(* Owner configuration. *)
SetProtocolFee(bps) ==
  /\ bps <= MAX_PROTOCOL_FEE_BPS
  /\ protocolFeeBps' = bps
  /\ UNCHANGED <<now, nextOfferingId, offerings, subscriptions,
                 pendingWithdrawals, balance, protocolTreasury, daSet>>

SetProtocolTreasury(user) ==
  /\ protocolTreasury' = user
  /\ UNCHANGED <<now, nextOfferingId, offerings, subscriptions,
                 pendingWithdrawals, balance, protocolFeeBps, daSet>>

SetDisputeArbitration(set) ==
  /\ daSet' = set
  /\ UNCHANGED <<now, nextOfferingId, offerings, subscriptions,
                 pendingWithdrawals, balance, protocolFeeBps, protocolTreasury>>

(* Provider functions. *)
CreateOffering(user, price, length, tok, cap) ==
  /\ nextOfferingId <= MaxOfferings
  /\ nextOfferingId' = nextOfferingId + 1
  /\ offerings' = [offerings EXCEPT ![nextOfferingId] =
       [provider |-> user, pricePerPeriod |-> price, periodSeconds |-> length,
        token |-> tok, active |-> TRUE, maxSubscribers |-> cap,
        subscriberCount |-> 0]]
  /\ UNCHANGED <<now, subscriptions, pendingWithdrawals, balance, config>>

DeactivateOffering(o) ==
  /\ offerings[o].provider # NoUser
  /\ offerings' = [offerings EXCEPT ![o].active = FALSE]
  /\ UNCHANGED <<now, nextOfferingId, subscriptions, pendingWithdrawals,
                 balance, config>>

UpdateMaxSubscribers(o, newMax) ==
  /\ offerings[o].provider # NoUser
  /\ newMax = 0 \/ newMax >= offerings[o].subscriberCount
  /\ offerings' = [offerings EXCEPT ![o].maxSubscribers = newMax]
  /\ UNCHANGED <<now, nextOfferingId, subscriptions, pendingWithdrawals,
                 balance, config>>

(* Faulty variant: a subscriber who is already active may subscribe again. *)
CanSubscribe_Twice(user, o) ==
  LET of == offerings[o]
  IN  /\ of.provider # NoUser
      /\ of.active
      /\ user # of.provider
      /\ of.maxSubscribers = 0 \/ of.subscriberCount < of.maxSubscribers

(* Subscriber functions. *)
CanSubscribe(user, o) ==
  LET of == offerings[o]
      existing == subscriptions[<<user, o>>]
  IN  /\ of.provider # NoUser
      /\ of.active
      /\ user # of.provider
      /\ of.maxSubscribers = 0 \/ of.subscriberCount < of.maxSubscribers
      /\ existing.subscriber = NoUser \/ ~existing.active \/ existing.cancelled

Subscribe(user, o, periods) ==
  LET of == offerings[o]
      total == of.pricePerPeriod * periods
  IN  /\ CanSubscribe(user, o)
      /\ balance[of.token] + total <= MaxBalance
      /\ balance' = [balance EXCEPT ![of.token] = @ + total]
      /\ subscriptions' = [subscriptions EXCEPT ![<<user, o>>] =
           [subscriber |-> user, startedAt |-> now,
            currentPeriodEnd |-> now + of.periodSeconds,
            deposited |-> total, consumed |-> of.pricePerPeriod,
            active |-> TRUE, cancelled |-> FALSE, disputed |-> FALSE,
            disputeOpenedAt |-> 0]]
      /\ pendingWithdrawals' = CreditPeriod(pendingWithdrawals, of)
      /\ offerings' = [offerings EXCEPT ![o].subscriberCount = @ + 1]
      /\ UNCHANGED <<now, nextOfferingId, config>>

(* Faulty variant: the period is only added when the renewal is on time. *)
NextPeriodEnd_Precedence(k) ==
  LET end == subscriptions[k].currentPeriodEnd
  IN  IF now > end THEN now ELSE end + OfferingOf(k).periodSeconds

(* The end of the period that starts when a renewal is called. *)
NextPeriodEnd(k) ==
  LET end == subscriptions[k].currentPeriodEnd
  IN  (IF now > end THEN now ELSE end) + OfferingOf(k).periodSeconds

Renew(k) ==
  LET of == OfferingOf(k)
  IN  /\ Remaining(k) >= of.pricePerPeriod
      /\ subscriptions' = [subscriptions EXCEPT
           ![k].consumed = @ + of.pricePerPeriod,
           ![k].currentPeriodEnd = NextPeriodEnd(k)]
      /\ pendingWithdrawals' = CreditPeriod(pendingWithdrawals, of)
      /\ UNCHANGED offerings

(* Faulty variant: what is left below the price stays behind. *)
Expire_KeepsDust(k) ==
  /\ Remaining(k) < OfferingOf(k).pricePerPeriod
  /\ subscriptions' = [subscriptions EXCEPT ![k].active = FALSE]
  /\ offerings' = [offerings EXCEPT ![k[2]].subscriberCount = @ - 1]
  /\ UNCHANGED pendingWithdrawals

(* The deposit does not pay another period: the subscription ends. *)
Expire(k) ==
  /\ Remaining(k) < OfferingOf(k).pricePerPeriod
  /\ subscriptions' = [subscriptions EXCEPT
       ![k].active = FALSE, ![k].consumed = @ + Remaining(k)]
  /\ pendingWithdrawals' =
       Credit(pendingWithdrawals, k[1], OfferingOf(k).token, Remaining(k))
  /\ offerings' = [offerings EXCEPT ![k[2]].subscriberCount = @ - 1]

(* Called by the subscriber or by the provider. *)
RenewSubscription(k) ==
  /\ Live(k)
  /\ now >= subscriptions[k].currentPeriodEnd
  /\ Renew(k) \/ Expire(k)
  /\ UNCHANGED <<now, nextOfferingId, balance, config>>

(* Faulty variants: the refund forgets what was consumed; the access that   *)
(* was paid for ends at once.                                               *)
Cancel_RefundsDeposit(k) ==
  /\ Live(k)
  /\ subscriptions' = [subscriptions EXCEPT
       ![k].cancelled = TRUE, ![k].active = FALSE,
       ![k].consumed = subscriptions[k].deposited]
  /\ pendingWithdrawals' =
       Credit(pendingWithdrawals, k[1], OfferingOf(k).token, subscriptions[k].deposited)
  /\ offerings' = [offerings EXCEPT ![k[2]].subscriberCount = @ - 1]
  /\ UNCHANGED <<now, nextOfferingId, balance, config>>

Cancel_EndsAccess(k) ==
  /\ Live(k)
  /\ subscriptions' = [subscriptions EXCEPT
       ![k].cancelled = TRUE, ![k].active = FALSE, ![k].currentPeriodEnd = now,
       ![k].consumed = subscriptions[k].deposited]
  /\ pendingWithdrawals' =
       Credit(pendingWithdrawals, k[1], OfferingOf(k).token, Remaining(k))
  /\ offerings' = [offerings EXCEPT ![k[2]].subscriberCount = @ - 1]
  /\ UNCHANGED <<now, nextOfferingId, balance, config>>

(* Called by the subscriber: the unspent deposit goes back, access stays. *)
Cancel(k) ==
  /\ Live(k)
  /\ subscriptions' = [subscriptions EXCEPT
       ![k].cancelled = TRUE, ![k].active = FALSE,
       ![k].consumed = subscriptions[k].deposited]
  /\ pendingWithdrawals' =
       Credit(pendingWithdrawals, k[1], OfferingOf(k).token, Remaining(k))
  /\ offerings' = [offerings EXCEPT ![k[2]].subscriberCount = @ - 1]
  /\ UNCHANGED <<now, nextOfferingId, balance, config>>

TopUp(k, amount) ==
  LET tok == OfferingOf(k).token
  IN  /\ Live(k)
      /\ OfferingOf(k).active
      /\ balance[tok] + amount <= MaxBalance
      /\ balance' = [balance EXCEPT ![tok] = @ + amount]
      /\ subscriptions' = [subscriptions EXCEPT ![k].deposited = @ + amount]
      /\ UNCHANGED <<now, nextOfferingId, offerings, pendingWithdrawals, config>>

(* value is the ETH sent along for the arbitration fee; accepted says      *)
(* whether DisputeArbitration, when there is one, took the call.           *)
DisputeSubscription(k, value, accepted) ==
  /\ Live(k)
  /\ accepted => daSet
  /\ now + DISPUTE_TIMEOUT <= MaxTime
  /\ subscriptions' = [subscriptions EXCEPT
       ![k].disputed = TRUE, ![k].disputeOpenedAt = now]
  /\ balance' = [balance EXCEPT
       ![ETH] = @ + value - FeeForwarded(value, accepted)
                          - FeeRefunded(value, accepted)]
  /\ UNCHANGED <<now, nextOfferingId, offerings, pendingWithdrawals, config>>

(* What every settlement of a dispute writes. *)
CloseDispute(k) ==
  /\ subscriptions' = [subscriptions EXCEPT
       ![k].active = FALSE, ![k].disputed = FALSE,
       ![k].consumed = subscriptions[k].deposited]
  /\ offerings' = [offerings EXCEPT ![k[2]].subscriberCount = @ - 1]

(* Called by the owner; what a SPLIT leaves over is the subscriber's.  A   *)
(* HUMAN_REVIEW_REQUIRED outcome only emits an event.                      *)
ResolveDisputeDetailed(k, outcome, pAward, sAward) ==
  LET tok == OfferingOf(k).token
      p == ProviderAward(outcome, Remaining(k), pAward)
      s == SubscriberAward(outcome, Remaining(k), sAward)
      dust == Remaining(k) - p - s
  IN  /\ subscriptions[k].disputed
      /\ now >= subscriptions[k].disputeOpenedAt + DISPUTE_WINDOW
      /\ p + s <= Remaining(k)
      /\ CloseDispute(k)
      /\ pendingWithdrawals' =
           Credit(Credit(Credit(pendingWithdrawals, OfferingOf(k).provider, tok, p),
                         k[1], tok, s),
                  k[1], tok, dust)
      /\ UNCHANGED <<now, nextOfferingId, balance, config>>

(* Faulty variants: no check that a dispute is open; the guard of the other *)
(* calls, copied.                                                           *)
ClaimDisputeTimeout_AnyTime(k) ==
  /\ subscriptions[k].subscriber # NoUser
  /\ now >= subscriptions[k].disputeOpenedAt + DISPUTE_TIMEOUT
  /\ CloseDispute(k)
  /\ pendingWithdrawals' =
       Credit(pendingWithdrawals, k[1], OfferingOf(k).token, Remaining(k))
  /\ UNCHANGED <<now, nextOfferingId, balance, config>>

ClaimDisputeTimeout_Live(k) ==
  /\ Live(k)
  /\ now >= subscriptions[k].disputeOpenedAt + DISPUTE_TIMEOUT
  /\ CloseDispute(k)
  /\ pendingWithdrawals' =
       Credit(pendingWithdrawals, k[1], OfferingOf(k).token, Remaining(k))
  /\ UNCHANGED <<now, nextOfferingId, balance, config>>

(* Called by anyone. *)
ClaimDisputeTimeout(k) ==
  /\ subscriptions[k].disputed
  /\ now >= subscriptions[k].disputeOpenedAt + DISPUTE_TIMEOUT
  /\ CloseDispute(k)
  /\ pendingWithdrawals' =
       Credit(pendingWithdrawals, k[1], OfferingOf(k).token, Remaining(k))
  /\ UNCHANGED <<now, nextOfferingId, balance, config>>

(* The owner of a credit takes all of it. *)
Withdraw(user, tok) ==
  /\ pendingWithdrawals[user][tok] > 0
  /\ pendingWithdrawals' = [pendingWithdrawals EXCEPT ![user][tok] = 0]
  /\ balance' = [balance EXCEPT ![tok] = @ - pendingWithdrawals[user][tok]]
  /\ UNCHANGED <<now, nextOfferingId, offerings, subscriptions, config>>

-----------------------------------------------------------------------------
OwnerNext ==
  \/ \E bps \in FeeChoices : SetProtocolFee(bps)
  \/ \E user \in Treasuries \cup {NoUser} : SetProtocolTreasury(user)
  \/ \E set \in ArbitrationSet : SetDisputeArbitration(set)
  \/ \E k \in SubscriptionIds, outcome \in {"PROVIDER_WINS", "SUBSCRIBER_WINS", "SPLIT"},
        p, s \in Awards : ResolveDisputeDetailed(k, outcome, p, s)

ProviderNext ==
  \/ \E user \in Providers, price \in Prices, length \in PeriodLengths,
        tok \in Tokens, cap \in Caps : CreateOffering(user, price, length, tok, cap)
  \/ \E o \in OfferingIds : DeactivateOffering(o)
  \/ \E o \in OfferingIds, newMax \in Caps : UpdateMaxSubscribers(o, newMax)

SubscriberNext ==
  \/ \E user \in Subscribers, o \in OfferingIds, n \in 1..MaxPeriods : Subscribe(user, o, n)
  \/ \E k \in SubscriptionIds, amount \in TopUps : TopUp(k, amount)
  \/ \E k \in SubscriptionIds : Cancel(k)
  \/ \E k \in SubscriptionIds, value \in DisputeFees, accepted \in BOOLEAN :
        DisputeSubscription(k, value, accepted)

Next ==
  \/ Tick
  \/ OwnerNext
  \/ ProviderNext
  \/ SubscriberNext
  \/ \E k \in SubscriptionIds : RenewSubscription(k) \/ ClaimDisputeTimeout(k)
  \/ \E user \in Users, tok \in Tokens : Withdraw(user, tok)

Spec == Init /\ [][Next]_vars

(* Time passes, and whoever a timed-out dispute matters to claims the      *)
(* refund: the function has no caller check.  Nobody else is obliged to    *)
(* act.                                                                    *)
FairSpec ==
  Spec /\ WF_vars(Tick) /\ \A k \in SubscriptionIds : WF_vars(ClaimDisputeTimeout(k))

-----------------------------------------------------------------------------
(* Properties. *)

OfferingType ==
  [provider : Users \cup {NoUser}, pricePerPeriod : Nat, periodSeconds : Nat,
   token : Tokens, active : BOOLEAN, maxSubscribers : Nat, subscriberCount : Nat]

SubscriptionType ==
  [subscriber : Users \cup {NoUser}, startedAt : Nat, currentPeriodEnd : Nat,
   deposited : Nat, consumed : Nat, active : BOOLEAN, cancelled : BOOLEAN,
   disputed : BOOLEAN, disputeOpenedAt : Nat]

(* Type correctness.  Credits and subscriber counts are natural numbers, so *)
(* no uint256 subtraction behind them underflows; that the balance covers   *)
(* every withdrawal is Solvency.                                            *)
TypeOK ==
  /\ now \in Nat
  /\ nextOfferingId \in Nat \ {0}
  /\ offerings \in [OfferingIds -> OfferingType]
  /\ subscriptions \in [SubscriptionIds -> SubscriptionType]
  /\ pendingWithdrawals \in [Users -> [Tokens -> Nat]]
  /\ balance \in [Tokens -> Int]
  /\ protocolFeeBps \in 0..MAX_PROTOCOL_FEE_BPS
  /\ protocolTreasury \in Users \cup {NoUser}
  /\ daSet \in BOOLEAN

ActiveOf(o) == {k \in SubscriptionIds : k[2] = o /\ subscriptions[k].active}

(* The counter that admission is decided by is the number of subscriptions  *)
(* that are really active, whatever mix of subscribing again, cancelling,   *)
(* expiring and settling led here, and it respects the provider's cap.      *)
SubscriberCountExact ==
  \A o \in OfferingIds :
    /\ offerings[o].subscriberCount = Cardinality(ActiveOf(o))
    /\ offerings[o].maxSubscribers # 0 =>
         offerings[o].subscriberCount <= offerings[o].maxSubscribers

(* A subscription is never charged beyond its deposit, and one that is no   *)
(* longer active holds nothing: every way out of a subscription hands over  *)
(* the whole remainder, so no deposit is left where no call can reach it.   *)
NothingStranded ==
  \A k \in SubscriptionIds :
    /\ subscriptions[k].consumed <= subscriptions[k].deposited
    /\ ~subscriptions[k].active =>
         subscriptions[k].consumed = subscriptions[k].deposited

(* An active subscription has been charged for no more than the time it was *)
(* granted: as many whole periods of access as prices consumed, late        *)
(* renewals, top-ups and renewals by the provider included.                 *)
ChargedForGrantedTime ==
  \A k \in SubscriptionIds :
    subscriptions[k].active =>
      subscriptions[k].consumed * OfferingOf(k).periodSeconds
        <= OfferingOf(k).pricePerPeriod
             * (subscriptions[k].currentPeriodEnd - subscriptions[k].startedAt)

(* The access a subscriber has paid for is never taken back, neither by     *)
(* cancelling, nor by losing a dispute, nor by subscribing again before the *)
(* period that was paid is over.                                            *)
AccessNeverShrinks ==
  [][\A k \in SubscriptionIds :
       subscriptions[k].currentPeriodEnd <= subscriptions'[k].currentPeriodEnd]_vars

(* While a dispute is open the escrow is frozen: deposit, consumption and   *)
(* period stay as they were when it was opened, until one step closes it.   *)
DisputeFreezes ==
  [][\A k \in SubscriptionIds :
       subscriptions[k].disputed =>
         \/ subscriptions'[k] = subscriptions[k]
         \/ /\ ~subscriptions'[k].disputed
            /\ ~subscriptions'[k].active
            /\ subscriptions'[k].currentPeriodEnd = subscriptions[k].currentPeriodEnd
            /\ subscriptions'[k].deposited = subscriptions[k].deposited]_vars

(* A dispute does not stay open for ever even if the owner never resolves   *)
(* it: the timeout refund is open to every caller.                          *)
DisputesEnd ==
  \A k \in SubscriptionIds :
    subscriptions[k].disputed ~> ~subscriptions[k].disputed

(* The contract is a pull-payment escrow: see EscrowLedger. *)
LockedIn(k, t) == IF OfferingOf(k).token = t THEN Remaining(k) ELSE 0

Ledger == INSTANCE EscrowLedger WITH
  Accounts <- Users,
  Escrows <- SubscriptionIds,
  locked <- [k \in SubscriptionIds |-> [t \in Tokens |-> LockedIn(k, t)]],
  credit <- pendingWithdrawals,
  vault <- balance

(* Every call moves money as the abstract escrow allows: into one           *)
(* subscription, out of it as credit, or out of one account's credit.       *)
ImplementsLedger == Ledger!Spec

(* What the contract holds of a token is exactly what it owes: the unspent  *)
(* deposits and the credits not yet withdrawn.                              *)
Solvency == Ledger!Backed
=============================================================================
