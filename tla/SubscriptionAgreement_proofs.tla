--------------------- MODULE SubscriptionAgreement_proofs ---------------------
EXTENDS SubscriptionAgreement, SumTheorems

USE DEF MAX_PROTOCOL_FEE_BPS, BPS_DENOMINATOR

(* Offerings are written once, in order of their ids. *)
OfferingsInOrder ==
  \A o \in OfferingIds :
    /\ o >= nextOfferingId => offerings[o] = NoOffering
    /\ o < nextOfferingId => offerings[o].provider # NoUser

(* What a subscription slot can hold. *)
SlotsConsistent ==
  \A k \in SubscriptionIds :
    /\ subscriptions[k].subscriber \in {NoUser, k[1]}
    /\ subscriptions[k].subscriber = NoUser => subscriptions[k] = NoSubscription
    /\ subscriptions[k].subscriber # NoUser => offerings[k[2]].provider # NoUser
    /\ subscriptions[k].disputed => subscriptions[k].active
    /\ subscriptions[k].active => ~subscriptions[k].cancelled

(* Nothing is granted further ahead than one period from now. *)
EndsWithinAPeriod ==
  \A k \in SubscriptionIds :
    subscriptions[k].currentPeriodEnd <= now + offerings[k[2]].periodSeconds

-----------------------------------------------------------------------------
(* The protocol fee is a part of the price. *)
LEMMA FeeBounded ==
  ASSUME NEW price \in Nat, protocolFeeBps \in 0..MAX_PROTOCOL_FEE_BPS
  PROVE  ProtocolFee(price) \in 0..price
<1>1. price * protocolFeeBps \in 0..(price * 100)
  OBVIOUS
<1>2. (price * protocolFeeBps) \div 10000 \in 0..price
  BY <1>1
<1>. QED  BY <1>2 DEF ProtocolFee

(* Crediting an account keeps the balances well-formed. *)
LEMMA CreditType ==
  ASSUME NEW pw \in [Users -> [Tokens -> Nat]], NEW user, NEW tok \in Tokens,
         NEW amount \in Nat, user \in Users \/ amount = 0
  PROVE  Credit(pw, user, tok, amount) \in [Users -> [Tokens -> Nat]]
BY DEF Credit

(* So does crediting a consumed period. *)
LEMMA CreditPeriodType ==
  ASSUME TypeOK, NEW o \in OfferingIds, offerings[o].provider # NoUser,
         NEW pw \in [Users -> [Tokens -> Nat]]
  PROVE  CreditPeriod(pw, offerings[o]) \in [Users -> [Tokens -> Nat]]
<1> DEFINE of == offerings[o]
           fee == ProtocolFee(of.pricePerPeriod)
<1>1. of.pricePerPeriod \in Nat /\ of.token \in Tokens /\ of.provider \in Users
  BY DEF TypeOK, OfferingType
<1>2. fee \in 0..of.pricePerPeriod
  BY <1>1, FeeBounded DEF TypeOK
<1>3. protocolTreasury \in Users \/ fee = 0
  BY DEF TypeOK, ProtocolFee
<1>4. Credit(pw, protocolTreasury, of.token, fee) \in [Users -> [Tokens -> Nat]]
  BY <1>1, <1>2, <1>3, CreditType
<1>5. of.pricePerPeriod - fee \in Nat
  BY <1>1, <1>2
<1>. HIDE DEF of, fee
<1>6. Credit(Credit(pw, protocolTreasury, of.token, fee),
             of.provider, of.token, of.pricePerPeriod - fee)
        \in [Users -> [Tokens -> Nat]]
  BY <1>1, <1>4, <1>5, CreditType
<1>. QED
  BY <1>6 DEF CreditPeriod, of, fee

-----------------------------------------------------------------------------
IInv ==
  /\ TypeOK
  /\ OfferingsInOrder
  /\ SlotsConsistent
  /\ EndsWithinAPeriod
  /\ NothingStranded
  /\ ChargedForGrantedTime
  /\ SubscriberCountExact

LEMMA InitIInv == Init => IInv
<1> SUFFICES ASSUME Init PROVE IInv
  OBVIOUS
<1> USE AmountsAssumption, TimeAssumption, UsersAssumption, TokensAssumption
<1>1. TypeOK
  <2>1. NoOffering \in OfferingType /\ NoSubscription \in SubscriptionType
    BY DEF OfferingType, SubscriptionType, NoOffering, NoSubscription
  <2>2. /\ offerings \in [OfferingIds -> OfferingType]
        /\ subscriptions \in [SubscriptionIds -> SubscriptionType]
        /\ pendingWithdrawals \in [Users -> [Tokens -> Nat]]
    BY <2>1 DEF Init
  <2>3. now \in Nat /\ nextOfferingId \in Nat \ {0} /\ balance \in [Tokens -> Int]
    BY DEF Init
  <2>4. protocolFeeBps \in 0..MAX_PROTOCOL_FEE_BPS
    BY DEF Init
  <2>. QED
    BY <2>2, <2>3, <2>4 DEF Init, TypeOK
<1>2. OfferingsInOrder /\ SlotsConsistent /\ EndsWithinAPeriod /\ NothingStranded
        /\ ChargedForGrantedTime
  BY DEF Init, OfferingsInOrder, SlotsConsistent, EndsWithinAPeriod, NothingStranded,
         ChargedForGrantedTime, NoOffering, NoSubscription, OfferingIds,
         SubscriptionIds, OfferingOf
<1>3. ASSUME NEW o \in OfferingIds PROVE ActiveOf(o) = {}
  BY DEF ActiveOf, Init, NoSubscription
<1>4. SubscriberCountExact
  BY <1>3, FS_EmptySet DEF SubscriberCountExact, Init, NoOffering
<1>. QED
  BY <1>1, <1>2, <1>4 DEF IInv

-----------------------------------------------------------------------------
(* Counting active subscriptions. *)
LEMMA ActiveFinite ==
  ASSUME NEW o
  PROVE  IsFiniteSet(ActiveOf(o)) /\ IsFiniteSet(ActiveOf(o)')
<1>1. IsFiniteSet(OfferingIds)
  BY FS_Interval, TimeAssumption DEF OfferingIds
<1>2. IsFiniteSet(SubscriptionIds)
  BY <1>1, FS_Product, FS_Subset, UsersAssumption DEF SubscriptionIds
<1>3. ActiveOf(o) \subseteq SubscriptionIds /\ ActiveOf(o)' \subseteq SubscriptionIds
  BY DEF ActiveOf
<1>. QED
  BY <1>2, <1>3, FS_Subset

(* A step that leaves every active flag alone leaves the counts alone. *)
LEMMA CountSame ==
  ASSUME \A k \in SubscriptionIds : subscriptions'[k].active = subscriptions[k].active,
         NEW o
  PROVE  ActiveOf(o)' = ActiveOf(o)
BY DEF ActiveOf

(* A step that activates one subscription adds one to its offering's count. *)
LEMMA CountUp ==
  ASSUME NEW k \in SubscriptionIds,
         ~subscriptions[k].active, subscriptions'[k].active,
         \A j \in SubscriptionIds \ {k} : subscriptions'[j] = subscriptions[j],
         NEW o
  PROVE  Cardinality(ActiveOf(o)') = Cardinality(ActiveOf(o)) + (IF k[2] = o THEN 1 ELSE 0)
<1>1. CASE k[2] = o
  <2>1. ActiveOf(o)' = ActiveOf(o) \cup {k} /\ k \notin ActiveOf(o)
    BY <1>1 DEF ActiveOf
  <2>. QED
    BY <1>1, <2>1, ActiveFinite, FS_AddElement, ZenonT(60)
<1>2. CASE k[2] # o
  <2>1. ActiveOf(o)' = ActiveOf(o)
    BY <1>2 DEF ActiveOf
  <2>2. Cardinality(ActiveOf(o)) \in Nat
    BY ActiveFinite, FS_CardinalityType
  <2>. QED
    BY <1>2, <2>1, <2>2
<1>. QED
  BY <1>1, <1>2

(* A step that ends one subscription takes one from its offering's count,   *)
(* which was not zero.                                                      *)
LEMMA CountDown ==
  ASSUME NEW k \in SubscriptionIds,
         subscriptions[k].active, ~subscriptions'[k].active,
         \A j \in SubscriptionIds \ {k} : subscriptions'[j] = subscriptions[j],
         NEW o
  PROVE  /\ Cardinality(ActiveOf(o)') = Cardinality(ActiveOf(o)) - (IF k[2] = o THEN 1 ELSE 0)
         /\ k[2] = o => Cardinality(ActiveOf(o)) \in Nat \ {0}
<1>0. Cardinality(ActiveOf(o)) \in Nat
  BY ActiveFinite, FS_CardinalityType
<1>1. CASE k[2] = o
  <2>1. ActiveOf(o)' = ActiveOf(o) \ {k} /\ k \in ActiveOf(o)
    BY <1>1 DEF ActiveOf
  <2>2. Cardinality(ActiveOf(o)') = Cardinality(ActiveOf(o)) - 1
    BY <2>1, ActiveFinite, FS_RemoveElement
  <2>3. Cardinality(ActiveOf(o)) # 0
    BY <2>1, ActiveFinite, FS_EmptySet
  <2>. QED
    BY <1>0, <1>1, <2>2, <2>3
<1>2. CASE k[2] # o
  <2>1. ActiveOf(o)' = ActiveOf(o)
    BY <1>2 DEF ActiveOf
  <2>. QED
    BY <1>0, <1>2, <2>1
<1>. QED
  BY <1>1, <1>2

-----------------------------------------------------------------------------
(* What the slots and the offerings owe to each other, without the types. *)
SlotInv ==
  /\ OfferingsInOrder
  /\ SlotsConsistent
  /\ EndsWithinAPeriod
  /\ NothingStranded
  /\ ChargedForGrantedTime
  /\ SubscriberCountExact

(* Every way out of a subscription: k ends with nothing left in it, its      *)
(* period untouched, and its offering counts one subscriber less.           *)
Ends(k) ==
  /\ subscriptions[k].subscriber # NoUser
  /\ subscriptions[k].active
  /\ subscriptions' \in [SubscriptionIds -> SubscriptionType]
  /\ \A j \in SubscriptionIds \ {k} : subscriptions'[j] = subscriptions[j]
  /\ subscriptions'[k].subscriber = subscriptions[k].subscriber
  /\ subscriptions'[k].currentPeriodEnd = subscriptions[k].currentPeriodEnd
  /\ subscriptions'[k].deposited = subscriptions[k].deposited
  /\ subscriptions'[k].consumed = subscriptions[k].deposited
  /\ ~subscriptions'[k].active
  /\ ~subscriptions'[k].disputed
  /\ offerings' = [offerings EXCEPT ![k[2]].subscriberCount = @ - 1]
  /\ UNCHANGED <<now, nextOfferingId>>

LEMMA EndsStep ==
  ASSUME IInv, NEW k \in SubscriptionIds, Ends(k)
  PROVE  SlotInv' /\ offerings' \in [OfferingIds -> OfferingType]
<1> DEFINE o == k[2]
<1>1. o \in OfferingIds
  BY DEF SubscriptionIds
<1>2. offerings[o] \in OfferingType /\ offerings[o].provider # NoUser
  BY <1>1 DEF IInv, TypeOK, SlotsConsistent, Ends
<1>3. offerings[o].subscriberCount \in Nat \ {0}
  BY <1>1, CountDown DEF IInv, SubscriberCountExact, Ends
<1>4. /\ offerings' \in [OfferingIds -> OfferingType]
      /\ \A i \in OfferingIds \ {o} : offerings'[i] = offerings[i]
      /\ offerings'[o] = [offerings[o] EXCEPT !.subscriberCount = @ - 1]
  <2> DEFINE r == [offerings[o] EXCEPT !.subscriberCount = @ - 1]
  <2>1. r \in OfferingType
    BY <1>2, <1>3 DEF OfferingType
  <2>2. offerings' = [offerings EXCEPT ![o] = r]
    BY DEF Ends
  <2>3. offerings \in [OfferingIds -> OfferingType]
    BY DEF IInv, TypeOK
  <2>. HIDE DEF r
  <2>4. /\ offerings' \in [OfferingIds -> OfferingType]
        /\ \A i \in OfferingIds \ {o} : offerings'[i] = offerings[i]
        /\ offerings'[o] = r
    BY <1>1, <2>1, <2>2, <2>3
  <2>. QED
    BY <2>4 DEF r
<1>5. \A i \in OfferingIds :
        /\ offerings'[i].provider = offerings[i].provider
        /\ offerings'[i].periodSeconds = offerings[i].periodSeconds
        /\ offerings'[i].pricePerPeriod = offerings[i].pricePerPeriod
        /\ offerings'[i].maxSubscribers = offerings[i].maxSubscribers
        /\ offerings'[i].subscriberCount
              = offerings[i].subscriberCount - (IF i = o THEN 1 ELSE 0)
  BY <1>2, <1>4 DEF IInv, TypeOK, OfferingType
<1>6. OfferingsInOrder'
  <2>1. ~(o >= nextOfferingId)
    BY <1>1, <1>2 DEF OfferingsInOrder, IInv, NoOffering
  <2>. QED
    BY <1>4, <1>5, <2>1 DEF OfferingsInOrder, IInv, Ends
<1>7. SlotsConsistent'
  BY <1>5 DEF SlotsConsistent, IInv, Ends, SubscriptionIds
<1>8. EndsWithinAPeriod'
  BY <1>5 DEF EndsWithinAPeriod, IInv, Ends, SubscriptionIds
<1>9. NothingStranded'
  BY DEF NothingStranded, IInv, Ends, TypeOK, SubscriptionType
<1>10. ChargedForGrantedTime'
  <2> SUFFICES ASSUME NEW j \in SubscriptionIds, subscriptions'[j].active
               PROVE  subscriptions'[j].consumed * (OfferingOf(j)').periodSeconds
                        <= (OfferingOf(j)').pricePerPeriod
                             * (subscriptions'[j].currentPeriodEnd - subscriptions'[j].startedAt)
    BY DEF ChargedForGrantedTime
  <2>1. j # k /\ subscriptions'[j] = subscriptions[j]
    BY DEF Ends
  <2>2. /\ (OfferingOf(j)').periodSeconds = OfferingOf(j).periodSeconds
        /\ (OfferingOf(j)').pricePerPeriod = OfferingOf(j).pricePerPeriod
    BY <1>5 DEF OfferingOf, SubscriptionIds
  <2>. QED
    BY <2>1, <2>2 DEF ChargedForGrantedTime, IInv
<1>11. SubscriberCountExact'
  <2> SUFFICES ASSUME NEW i \in OfferingIds
               PROVE  /\ offerings'[i].subscriberCount = Cardinality(ActiveOf(i)')
                      /\ offerings'[i].maxSubscribers # 0 =>
                           offerings'[i].subscriberCount <= offerings'[i].maxSubscribers
    BY DEF SubscriberCountExact
  <2>1. Cardinality(ActiveOf(i)') = Cardinality(ActiveOf(i)) - (IF o = i THEN 1 ELSE 0)
    BY CountDown DEF Ends
  <2>2. /\ offerings[i].subscriberCount = Cardinality(ActiveOf(i))
        /\ offerings[i].maxSubscribers # 0 =>
             offerings[i].subscriberCount <= offerings[i].maxSubscribers
        /\ offerings[i].subscriberCount \in Nat
        /\ offerings[i].maxSubscribers \in Nat
    BY DEF IInv, SubscriberCountExact, TypeOK, OfferingType
  <2>. QED
    BY <1>5, <2>1, <2>2
<1>. QED
  BY <1>4, <1>6, <1>7, <1>8, <1>9, <1>10, <1>11 DEF SlotInv

(* Every change of a subscription that goes on: renewal, top-up, dispute.   *)
Continues(k) ==
  /\ Live(k)
  /\ subscriptions' \in [SubscriptionIds -> SubscriptionType]
  /\ \A j \in SubscriptionIds \ {k} : subscriptions'[j] = subscriptions[j]
  /\ subscriptions'[k].subscriber = subscriptions[k].subscriber
  /\ subscriptions'[k].startedAt = subscriptions[k].startedAt
  /\ subscriptions'[k].active
  /\ ~subscriptions'[k].cancelled
  /\ subscriptions'[k].consumed <= subscriptions'[k].deposited
  /\ subscriptions'[k].currentPeriodEnd <= now + OfferingOf(k).periodSeconds
  /\ subscriptions'[k].consumed * OfferingOf(k).periodSeconds
       <= OfferingOf(k).pricePerPeriod
            * (subscriptions'[k].currentPeriodEnd - subscriptions[k].startedAt)
  /\ UNCHANGED <<now, nextOfferingId, offerings>>

LEMMA ContinuesStep ==
  ASSUME IInv, NEW k \in SubscriptionIds, Continues(k)
  PROVE  SlotInv'
<1>1. OfferingsInOrder'
  BY DEF OfferingsInOrder, IInv, Continues
<1>2. SlotsConsistent'
  BY DEF SlotsConsistent, IInv, Continues, Live
<1>3. EndsWithinAPeriod'
  BY DEF EndsWithinAPeriod, IInv, Continues, OfferingOf
<1>4. NothingStranded'
  BY DEF NothingStranded, IInv, Continues
<1>5. ChargedForGrantedTime'
  <2> SUFFICES ASSUME NEW j \in SubscriptionIds, subscriptions'[j].active
               PROVE  subscriptions'[j].consumed * (OfferingOf(j)').periodSeconds
                        <= (OfferingOf(j)').pricePerPeriod
                             * (subscriptions'[j].currentPeriodEnd - subscriptions'[j].startedAt)
    BY DEF ChargedForGrantedTime
  <2>1. (OfferingOf(j)') = OfferingOf(j)
    BY DEF OfferingOf, Continues
  <2>2. CASE j = k
    BY <2>1, <2>2 DEF Continues
  <2>3. CASE j # k
    BY <2>1, <2>3 DEF Continues, ChargedForGrantedTime, IInv
  <2>. QED
    BY <2>2, <2>3
<1>6. SubscriberCountExact'
  <2>1. \A j \in SubscriptionIds : subscriptions'[j].active = subscriptions[j].active
    <3> SUFFICES ASSUME NEW j \in SubscriptionIds
                 PROVE  subscriptions'[j].active = subscriptions[j].active
      OBVIOUS
    <3>1. CASE j = k
      <4>1. subscriptions'[k].active \in BOOLEAN /\ subscriptions[k].active \in BOOLEAN
        BY DEF Continues, IInv, TypeOK, SubscriptionType
      <4>. QED
        BY <3>1, <4>1 DEF Continues, Live
    <3>2. CASE j # k
      BY <3>2 DEF Continues
    <3>. QED
      BY <3>1, <3>2
  <2>. QED
    BY <2>1, CountSame DEF SubscriberCountExact, IInv, Continues
<1>. QED
  BY <1>1, <1>2, <1>3, <1>4, <1>5, <1>6 DEF SlotInv

-----------------------------------------------------------------------------
(* One lemma per action on a subscription: it is of one of these two kinds, *)
(* and its credits are well-formed.                                         *)
LEMMA RenewStep ==
  ASSUME IInv, NEW k \in SubscriptionIds, RenewSubscription(k), Renew(k)
  PROVE  SlotInv' /\ TypeOK' /\ Continues(k)
<1> DEFINE s == subscriptions[k]
           of == OfferingOf(k)
           end == NextPeriodEnd(k)
<1>1. /\ s \in SubscriptionType
      /\ of \in OfferingType
      /\ of.provider # NoUser
      /\ k[2] \in OfferingIds
  BY DEF IInv, TypeOK, SlotsConsistent, SubscriptionIds, RenewSubscription, Live, OfferingOf
<1>2. /\ of.pricePerPeriod \in Nat
      /\ of.periodSeconds \in Nat
      /\ s.deposited \in Nat
      /\ s.consumed \in Nat
      /\ s.startedAt \in Nat
      /\ s.currentPeriodEnd \in Nat
      /\ now \in Nat
  BY <1>1 DEF SubscriptionType, OfferingType, IInv, TypeOK
<1>3. now >= s.currentPeriodEnd /\ s.deposited - s.consumed >= of.pricePerPeriod
  BY DEF RenewSubscription, Renew, Remaining
<1>4. end \in Nat /\ end = now + of.periodSeconds
  BY <1>2, <1>3 DEF NextPeriodEnd
<1>5. subscriptions' = [subscriptions EXCEPT
        ![k] = [s EXCEPT !.consumed = s.consumed + of.pricePerPeriod,
                         !.currentPeriodEnd = end]]
  BY DEF Renew, IInv, TypeOK, SubscriptionType
<1>6. [s EXCEPT !.consumed = s.consumed + of.pricePerPeriod, !.currentPeriodEnd = end]
        \in SubscriptionType
  <2> DEFINE c == s.consumed + of.pricePerPeriod
  <2>1. c \in Nat
    BY <1>2
  <2>. HIDE DEF s, of, end, c
  <2>. QED
    BY <1>1, <1>4, <2>1 DEF SubscriptionType, c
<1>7. Continues(k)
  <2>1. s.consumed * of.periodSeconds
          <= of.pricePerPeriod * (s.currentPeriodEnd - s.startedAt)
    BY DEF IInv, ChargedForGrantedTime, RenewSubscription, Live
  <2>2. (s.consumed + of.pricePerPeriod) * of.periodSeconds
          <= of.pricePerPeriod * (end - s.startedAt)
    <3>1. (s.consumed + of.pricePerPeriod) * of.periodSeconds
            = s.consumed * of.periodSeconds + of.pricePerPeriod * of.periodSeconds
      BY <1>2
    <3>2. of.pricePerPeriod * (end - s.startedAt)
            = of.pricePerPeriod * (now - s.startedAt) + of.pricePerPeriod * of.periodSeconds
      BY <1>2, <1>4
    <3>3. of.pricePerPeriod * (s.currentPeriodEnd - s.startedAt)
            <= of.pricePerPeriod * (now - s.startedAt)
      BY <1>2, <1>3
    <3>. HIDE DEF s, of, end
    <3>. QED
      BY <1>2, <1>4, <2>1, <3>1, <3>2, <3>3
  <2>. QED
    BY <1>1, <1>2, <1>3, <1>4, <1>5, <1>6, <2>2
       DEF Continues, RenewSubscription, Renew, Live, IInv, TypeOK, SubscriptionType
<1>8. TypeOK'
  <2>1. pendingWithdrawals' \in [Users -> [Tokens -> Nat]]
    BY <1>1, CreditPeriodType DEF Renew, OfferingOf, IInv, TypeOK
  <2>. QED
    BY <1>7, <2>1 DEF TypeOK, IInv, Continues, RenewSubscription, config
<1>. QED
  BY <1>7, <1>8, ContinuesStep

(* The facts every call on an existing subscription starts from. *)
LEMMA SlotFacts ==
  ASSUME IInv, NEW k \in SubscriptionIds, subscriptions[k].active
  PROVE  /\ subscriptions[k] \in SubscriptionType
         /\ subscriptions[k].subscriber # NoUser
         /\ k[1] \in Users
         /\ k[2] \in OfferingIds
         /\ OfferingOf(k) \in OfferingType
         /\ OfferingOf(k).provider \in Users
         /\ OfferingOf(k).token \in Tokens
         /\ Remaining(k) \in Nat
<1>1. subscriptions[k] \in SubscriptionType
  BY DEF IInv, TypeOK
<1>2. subscriptions[k].subscriber # NoUser
  BY DEF IInv, SlotsConsistent, NoSubscription
<1>3. k[1] \in Users /\ k[2] \in OfferingIds
  BY UsersAssumption DEF SubscriptionIds
<1>4. OfferingOf(k) \in OfferingType
  BY <1>3 DEF IInv, TypeOK, OfferingOf
<1>5. OfferingOf(k).provider \in Users /\ OfferingOf(k).token \in Tokens
  BY <1>2, <1>4 DEF IInv, SlotsConsistent, OfferingOf, OfferingType
<1>6. Remaining(k) \in Nat
  BY <1>1 DEF IInv, NothingStranded, Remaining, SubscriptionType
<1>. QED
  BY <1>1, <1>2, <1>3, <1>4, <1>5, <1>6

LEMMA ExpireStep ==
  ASSUME IInv, NEW k \in SubscriptionIds, RenewSubscription(k), Expire(k)
  PROVE  SlotInv' /\ TypeOK' /\ Ends(k)
<1> DEFINE s == subscriptions[k]
           r == [s EXCEPT !.active = FALSE, !.consumed = s.deposited]
<1>1. s.active
  BY DEF RenewSubscription, Live
<1>2. s \in SubscriptionType /\ s.consumed + Remaining(k) = s.deposited
  BY <1>1, SlotFacts DEF Remaining, SubscriptionType
<1>3. r \in SubscriptionType
  BY <1>2 DEF SubscriptionType
<1>4. subscriptions' = [subscriptions EXCEPT ![k] = r]
  BY <1>2 DEF Expire, IInv, TypeOK, SubscriptionType
<1>5. Ends(k)
  <2>1. s.subscriber # NoUser /\ s.active /\ ~s.disputed
    BY DEF RenewSubscription, Live
  <2>2. subscriptions \in [SubscriptionIds -> SubscriptionType]
    BY DEF IInv, TypeOK
  <2>3. subscriptions' \in [SubscriptionIds -> SubscriptionType]
    BY <1>3, <1>4, <2>2
  <2>4. \A j \in SubscriptionIds \ {k} : subscriptions'[j] = subscriptions[j]
    BY <1>4, <2>2
  <2>5. subscriptions'[k] = r
    BY <1>4, <2>2
  <2>6. /\ r.subscriber = s.subscriber /\ r.currentPeriodEnd = s.currentPeriodEnd
        /\ r.deposited = s.deposited /\ r.consumed = s.deposited
        /\ r.active = FALSE /\ r.disputed = s.disputed
    BY <1>2 DEF SubscriptionType
  <2>7. /\ offerings' = [offerings EXCEPT ![k[2]].subscriberCount = @ - 1]
        /\ UNCHANGED <<now, nextOfferingId>>
    BY DEF Expire, RenewSubscription
  <2>. HIDE DEF s, r
  <2>. QED
    BY <2>1, <2>3, <2>4, <2>5, <2>6, <2>7 DEF Ends, s
<1>6. pendingWithdrawals' \in [Users -> [Tokens -> Nat]]
  BY <1>1, SlotFacts, CreditType DEF Expire, IInv, TypeOK
<1>. QED
  BY <1>5, <1>6, EndsStep DEF TypeOK, IInv, Ends, RenewSubscription, config

LEMMA CancelStep ==
  ASSUME IInv, NEW k \in SubscriptionIds, Cancel(k)
  PROVE  SlotInv' /\ TypeOK' /\ Ends(k)
<1> DEFINE s == subscriptions[k]
           r == [s EXCEPT !.cancelled = TRUE, !.active = FALSE, !.consumed = s.deposited]
<1>1. s.active
  BY DEF Cancel, Live
<1>2. s \in SubscriptionType
  BY <1>1, SlotFacts
<1>3. r \in SubscriptionType
  BY <1>2 DEF SubscriptionType
<1>4. subscriptions' = [subscriptions EXCEPT ![k] = r]
  BY <1>2 DEF Cancel, IInv, TypeOK, SubscriptionType
<1>5. Ends(k)
  BY <1>1, <1>2, <1>3, <1>4, SlotFacts
     DEF Ends, Cancel, Live, IInv, TypeOK, SubscriptionType
<1>6. pendingWithdrawals' \in [Users -> [Tokens -> Nat]]
  BY <1>1, SlotFacts, CreditType DEF Cancel, IInv, TypeOK
<1>. QED
  BY <1>5, <1>6, EndsStep DEF TypeOK, IInv, Ends, Cancel, config

LEMMA CloseDisputeEnds ==
  ASSUME IInv, NEW k \in SubscriptionIds, subscriptions[k].disputed, CloseDispute(k),
         UNCHANGED <<now, nextOfferingId>>
  PROVE  subscriptions[k].active /\ Ends(k)
<1> DEFINE s == subscriptions[k]
           r == [s EXCEPT !.active = FALSE, !.disputed = FALSE, !.consumed = s.deposited]
<1>1. s.active
  BY DEF IInv, SlotsConsistent
<1>2. s \in SubscriptionType
  BY <1>1, SlotFacts
<1>3. r \in SubscriptionType
  BY <1>2 DEF SubscriptionType
<1>4. subscriptions' = [subscriptions EXCEPT ![k] = r]
  BY <1>2 DEF CloseDispute, IInv, TypeOK, SubscriptionType
<1>. QED
  BY <1>1, <1>2, <1>3, <1>4, SlotFacts
     DEF Ends, CloseDispute, IInv, TypeOK, SubscriptionType

LEMMA ResolveStep ==
  ASSUME IInv, NEW k \in SubscriptionIds,
         NEW outcome \in {"PROVIDER_WINS", "SUBSCRIBER_WINS", "SPLIT"},
         NEW pAward \in Awards, NEW sAward \in Awards,
         ResolveDisputeDetailed(k, outcome, pAward, sAward)
  PROVE  SlotInv' /\ TypeOK' /\ Ends(k)
<1> DEFINE tok == OfferingOf(k).token
           prov == OfferingOf(k).provider
           pa == ProviderAward(outcome, Remaining(k), pAward)
           sa == SubscriberAward(outcome, Remaining(k), sAward)
           dust == Remaining(k) - pa - sa
           pw1 == Credit(pendingWithdrawals, prov, tok, pa)
           pw2 == Credit(pw1, k[1], tok, sa)
<1>1. subscriptions[k].active /\ Ends(k)
  BY CloseDisputeEnds DEF ResolveDisputeDetailed
<1>2. /\ prov \in Users
      /\ k[1] \in Users
      /\ tok \in Tokens
      /\ Remaining(k) \in Nat
  BY <1>1, SlotFacts
<1>3. pa \in Nat /\ sa \in Nat
  BY <1>2, AmountsAssumption DEF ProviderAward, SubscriberAward
<1>4. dust \in Nat
  BY <1>2, <1>3 DEF ResolveDisputeDetailed
<1>5. pendingWithdrawals' = Credit(pw2, k[1], tok, dust)
  BY DEF ResolveDisputeDetailed
<1>6. pendingWithdrawals \in [Users -> [Tokens -> Nat]]
  BY DEF IInv, TypeOK
<1>. HIDE DEF tok, prov, pa, sa, dust
<1>7. pw1 \in [Users -> [Tokens -> Nat]]
  BY <1>2, <1>3, <1>6, CreditType
<1>8. pw2 \in [Users -> [Tokens -> Nat]]
  BY <1>2, <1>3, <1>7, CreditType
<1>9. pendingWithdrawals' \in [Users -> [Tokens -> Nat]]
  BY <1>2, <1>4, <1>5, <1>8, CreditType
<1>. QED
  BY <1>1, <1>9, EndsStep DEF TypeOK, IInv, Ends, ResolveDisputeDetailed, config

LEMMA ClaimStep ==
  ASSUME IInv, NEW k \in SubscriptionIds, ClaimDisputeTimeout(k)
  PROVE  SlotInv' /\ TypeOK' /\ Ends(k)
<1>1. subscriptions[k].active /\ Ends(k)
  BY CloseDisputeEnds DEF ClaimDisputeTimeout
<1>2. pendingWithdrawals' \in [Users -> [Tokens -> Nat]]
  BY <1>1, SlotFacts, CreditType DEF ClaimDisputeTimeout, IInv, TypeOK
<1>. QED
  BY <1>1, <1>2, EndsStep DEF TypeOK, IInv, Ends, ClaimDisputeTimeout, config

LEMMA TopUpStep ==
  ASSUME IInv, NEW k \in SubscriptionIds, NEW amount \in TopUps, TopUp(k, amount)
  PROVE  SlotInv' /\ TypeOK' /\ Continues(k)
<1> DEFINE s == subscriptions[k]
           r == [s EXCEPT !.deposited = s.deposited + amount]
<1>1. s.active
  BY DEF TopUp, Live
<1>2. s \in SubscriptionType /\ OfferingOf(k).token \in Tokens /\ amount \in Nat
  BY <1>1, SlotFacts, AmountsAssumption
<1>3. r \in SubscriptionType
  BY <1>2 DEF SubscriptionType
<1>4. subscriptions' = [subscriptions EXCEPT ![k] = r]
  BY <1>2 DEF TopUp, IInv, TypeOK, SubscriptionType
<1>5. s.consumed <= s.deposited + amount
  BY <1>2 DEF IInv, NothingStranded, SubscriptionType
<1>6. /\ s.currentPeriodEnd <= now + OfferingOf(k).periodSeconds
      /\ s.consumed * OfferingOf(k).periodSeconds
           <= OfferingOf(k).pricePerPeriod * (s.currentPeriodEnd - s.startedAt)
  BY <1>1 DEF IInv, EndsWithinAPeriod, ChargedForGrantedTime, OfferingOf
<1>7. Continues(k)
  BY <1>1, <1>2, <1>3, <1>4, <1>5, <1>6
     DEF Continues, TopUp, Live, IInv, TypeOK, SubscriptionType
<1>8. balance' \in [Tokens -> Int]
  BY <1>2 DEF TopUp, IInv, TypeOK
<1>. QED
  BY <1>7, <1>8, ContinuesStep DEF TypeOK, IInv, Continues, TopUp, config

LEMMA DisputeStep ==
  ASSUME IInv, NEW k \in SubscriptionIds, NEW value \in DisputeFees,
         NEW accepted \in BOOLEAN, DisputeSubscription(k, value, accepted)
  PROVE  SlotInv' /\ TypeOK' /\ Continues(k)
<1> DEFINE s == subscriptions[k]
           r == [s EXCEPT !.disputed = TRUE, !.disputeOpenedAt = now]
<1>1. s.active
  BY DEF DisputeSubscription, Live
<1>2. s \in SubscriptionType /\ now \in Nat
  BY <1>1, SlotFacts DEF IInv, TypeOK
<1>3. r \in SubscriptionType
  BY <1>2 DEF SubscriptionType
<1>4. subscriptions' = [subscriptions EXCEPT ![k] = r]
  BY <1>2 DEF DisputeSubscription, IInv, TypeOK, SubscriptionType
<1>5. s.consumed <= s.deposited
  BY DEF IInv, NothingStranded
<1>6. /\ s.currentPeriodEnd <= now + OfferingOf(k).periodSeconds
      /\ s.consumed * OfferingOf(k).periodSeconds
           <= OfferingOf(k).pricePerPeriod * (s.currentPeriodEnd - s.startedAt)
  BY <1>1 DEF IInv, EndsWithinAPeriod, ChargedForGrantedTime, OfferingOf
<1>7. Continues(k)
  BY <1>1, <1>2, <1>3, <1>4, <1>5, <1>6
     DEF Continues, DisputeSubscription, Live, IInv, TypeOK, SubscriptionType
<1>8. balance' \in [Tokens -> Int]
  <2>1. FeeForwarded(value, accepted) \in Int /\ FeeRefunded(value, accepted) \in Int
    BY AmountsAssumption DEF FeeForwarded, FeeRefunded
  <2>. QED
    BY <2>1, AmountsAssumption, TokensAssumption DEF DisputeSubscription, IInv, TypeOK
<1>. QED
  BY <1>7, <1>8, ContinuesStep DEF TypeOK, IInv, Continues, DisputeSubscription, config

LEMMA SubscribeStep ==
  ASSUME IInv, NEW user \in Subscribers, NEW o \in OfferingIds, NEW n \in 1..MaxPeriods,
         Subscribe(user, o, n)
  PROVE  SlotInv' /\ TypeOK'
<1> DEFINE k == <<user, o>>
           of == offerings[o]
           r == [subscriber |-> user, startedAt |-> now,
                 currentPeriodEnd |-> now + of.periodSeconds,
                 deposited |-> of.pricePerPeriod * n, consumed |-> of.pricePerPeriod,
                 active |-> TRUE, cancelled |-> FALSE, disputed |-> FALSE,
                 disputeOpenedAt |-> 0]
<1>1. k \in SubscriptionIds /\ user \in Users /\ user # NoUser /\ k[1] = user /\ k[2] = o
  BY UsersAssumption DEF SubscriptionIds
<1>2. of \in OfferingType /\ of.provider # NoUser
  BY DEF IInv, TypeOK, Subscribe, CanSubscribe
<1>3. /\ of.pricePerPeriod \in Nat
      /\ of.periodSeconds \in Nat
      /\ of.subscriberCount \in Nat
      /\ of.maxSubscribers \in Nat
      /\ of.token \in Tokens
      /\ now \in Nat
      /\ n \in Nat /\ n >= 1
  BY <1>2, TimeAssumption DEF OfferingType, IInv, TypeOK
<1>4. of.pricePerPeriod * n \in Nat /\ of.pricePerPeriod <= of.pricePerPeriod * n
  BY <1>3
<1>5. r \in SubscriptionType
  <2>. HIDE DEF of
  <2>. QED
    BY <1>1, <1>3, <1>4 DEF SubscriptionType
<1>6. /\ subscriptions' \in [SubscriptionIds -> SubscriptionType]
      /\ subscriptions'[k] = r
      /\ \A j \in SubscriptionIds \ {k} : subscriptions'[j] = subscriptions[j]
  <2>1. subscriptions' = [subscriptions EXCEPT ![k] = r]
    BY DEF Subscribe
  <2>2. subscriptions \in [SubscriptionIds -> SubscriptionType]
    BY DEF IInv, TypeOK
  <2>. HIDE DEF r, k
  <2>. QED
    BY <1>1, <1>5, <2>1, <2>2
<1>7. /\ offerings' \in [OfferingIds -> OfferingType]
      /\ \A i \in OfferingIds \ {o} : offerings'[i] = offerings[i]
      /\ offerings'[o] = [of EXCEPT !.subscriberCount = @ + 1]
  <2> DEFINE q == [of EXCEPT !.subscriberCount = @ + 1]
  <2>1. q \in OfferingType
    BY <1>2, <1>3 DEF OfferingType
  <2>2. offerings' = [offerings EXCEPT ![o] = q] /\ offerings \in [OfferingIds -> OfferingType]
    BY DEF Subscribe, IInv, TypeOK
  <2>. HIDE DEF q
  <2>3. /\ offerings' \in [OfferingIds -> OfferingType]
        /\ \A i \in OfferingIds \ {o} : offerings'[i] = offerings[i]
        /\ offerings'[o] = q
    BY <2>1, <2>2
  <2>. QED
    BY <2>3 DEF q
<1>8. \A i \in OfferingIds :
        /\ offerings'[i].provider = offerings[i].provider
        /\ offerings'[i].periodSeconds = offerings[i].periodSeconds
        /\ offerings'[i].pricePerPeriod = offerings[i].pricePerPeriod
        /\ offerings'[i].maxSubscribers = offerings[i].maxSubscribers
        /\ offerings'[i].subscriberCount
              = offerings[i].subscriberCount + (IF i = o THEN 1 ELSE 0)
  BY <1>2, <1>7 DEF IInv, TypeOK, OfferingType
<1>9. UNCHANGED <<now, nextOfferingId>>
  BY DEF Subscribe
<1>10. OfferingsInOrder'
  <2>1. ~(o >= nextOfferingId)
    BY <1>2 DEF OfferingsInOrder, IInv, NoOffering
  <2>. QED
    BY <1>7, <1>8, <1>9, <2>1 DEF OfferingsInOrder, IInv
<1>11. SlotsConsistent'
  BY <1>1, <1>2, <1>6, <1>8 DEF SlotsConsistent, IInv, SubscriptionIds
<1>12. EndsWithinAPeriod'
  <2> SUFFICES ASSUME NEW j \in SubscriptionIds
               PROVE  subscriptions'[j].currentPeriodEnd
                        <= now + offerings[j[2]].periodSeconds
    BY <1>8, <1>9 DEF EndsWithinAPeriod, SubscriptionIds
  <2>1. CASE j = k
    BY <1>1, <1>3, <1>6, <2>1
  <2>2. CASE j # k
    BY <1>6, <2>2 DEF EndsWithinAPeriod, IInv
  <2>. QED
    BY <2>1, <2>2
<1>13. NothingStranded'
  BY <1>4, <1>6 DEF NothingStranded, IInv
<1>14. ChargedForGrantedTime'
  <2> SUFFICES ASSUME NEW j \in SubscriptionIds, subscriptions'[j].active
               PROVE  subscriptions'[j].consumed * offerings[j[2]].periodSeconds
                        <= offerings[j[2]].pricePerPeriod
                             * (subscriptions'[j].currentPeriodEnd - subscriptions'[j].startedAt)
    BY <1>8 DEF ChargedForGrantedTime, OfferingOf, SubscriptionIds
  <2>1. CASE j = k
    <3>1. (now + of.periodSeconds) - now = of.periodSeconds
      BY <1>3
    <3>2. of.pricePerPeriod * of.periodSeconds <= of.pricePerPeriod * of.periodSeconds
      BY <1>3
    <3>. QED
      BY <1>1, <1>6, <2>1, <3>1, <3>2
  <2>2. CASE j # k
    BY <1>6, <2>2 DEF ChargedForGrantedTime, IInv, OfferingOf
  <2>. QED
    BY <2>1, <2>2
<1>15. SubscriberCountExact'
  <2>1. ~subscriptions[k].active
    BY <1>1 DEF Subscribe, CanSubscribe, IInv, SlotsConsistent, NoSubscription
  <2> SUFFICES ASSUME NEW i \in OfferingIds
               PROVE  /\ offerings'[i].subscriberCount = Cardinality(ActiveOf(i)')
                      /\ offerings'[i].maxSubscribers # 0 =>
                           offerings'[i].subscriberCount <= offerings'[i].maxSubscribers
    BY DEF SubscriberCountExact
  <2>2. Cardinality(ActiveOf(i)') = Cardinality(ActiveOf(i)) + (IF o = i THEN 1 ELSE 0)
    BY <1>1, <1>6, <2>1, CountUp
  <2>3. /\ offerings[i].subscriberCount = Cardinality(ActiveOf(i))
        /\ offerings[i].maxSubscribers # 0 =>
             offerings[i].subscriberCount <= offerings[i].maxSubscribers
        /\ offerings[i].subscriberCount \in Nat
        /\ offerings[i].maxSubscribers \in Nat
    BY DEF IInv, SubscriberCountExact, TypeOK, OfferingType
  <2>4. of.maxSubscribers = 0 \/ of.subscriberCount < of.maxSubscribers
    BY DEF Subscribe, CanSubscribe
  <2>. QED
    BY <1>8, <2>2, <2>3, <2>4
<1>16. TypeOK'
  <2>1. pendingWithdrawals' \in [Users -> [Tokens -> Nat]]
    BY <1>2, CreditPeriodType DEF Subscribe, IInv, TypeOK
  <2>2. balance' \in [Tokens -> Int]
    BY <1>3, <1>4 DEF Subscribe, IInv, TypeOK
  <2>. QED
    BY <1>6, <1>7, <1>9, <2>1, <2>2 DEF Subscribe, IInv, TypeOK, config
<1>. QED
  BY <1>10, <1>11, <1>12, <1>13, <1>14, <1>15, <1>16 DEF SlotInv

-----------------------------------------------------------------------------
(* The actions that leave every subscription alone. *)
LEMMA CreateOfferingStep ==
  ASSUME IInv, NEW user \in Providers, NEW price \in Prices, NEW length \in PeriodLengths,
         NEW tok \in Tokens, NEW cap \in Caps,
         CreateOffering(user, price, length, tok, cap)
  PROVE  SlotInv' /\ TypeOK'
<1> DEFINE id == nextOfferingId
           q == [provider |-> user, pricePerPeriod |-> price, periodSeconds |-> length,
                 token |-> tok, active |-> TRUE, maxSubscribers |-> cap,
                 subscriberCount |-> 0]
<1>1. id \in OfferingIds /\ user \in Users /\ user # NoUser
  BY UsersAssumption, TimeAssumption DEF CreateOffering, IInv, TypeOK, OfferingIds
<1>2. q \in OfferingType
  BY <1>1, AmountsAssumption DEF OfferingType
<1>3. /\ offerings' \in [OfferingIds -> OfferingType]
      /\ \A i \in OfferingIds \ {id} : offerings'[i] = offerings[i]
      /\ offerings'[id] = q
  <2>1. offerings' = [offerings EXCEPT ![id] = q] /\ offerings \in [OfferingIds -> OfferingType]
    BY DEF CreateOffering, IInv, TypeOK
  <2>. HIDE DEF q
  <2>. QED
    BY <1>1, <1>2, <2>1
<1>4. offerings[id] = NoOffering
  BY <1>1, TimeAssumption DEF IInv, TypeOK, OfferingsInOrder, OfferingIds
<1>5. UNCHANGED <<now, subscriptions>> /\ nextOfferingId' = id + 1 /\ id \in Nat
  BY DEF CreateOffering, IInv, TypeOK
<1>6. \A j \in SubscriptionIds : subscriptions[j].subscriber # NoUser => j[2] # id
  BY <1>4 DEF IInv, SlotsConsistent, NoOffering
<1>7. OfferingsInOrder'
  BY <1>1, <1>3, <1>5 DEF OfferingsInOrder, IInv, OfferingIds
<1>8. SlotsConsistent'
  BY <1>3, <1>5, <1>6 DEF SlotsConsistent, IInv, SubscriptionIds
<1>9. EndsWithinAPeriod'
  <2> SUFFICES ASSUME NEW j \in SubscriptionIds
               PROVE  subscriptions[j].currentPeriodEnd <= now + offerings'[j[2]].periodSeconds
    BY <1>5 DEF EndsWithinAPeriod
  <2>1. CASE j[2] = id
    <3>1. subscriptions[j] = NoSubscription
      BY <1>6, <2>1 DEF IInv, SlotsConsistent
    <3>. QED
      BY <1>3, <2>1, <3>1, AmountsAssumption DEF NoSubscription, IInv, TypeOK
  <2>2. CASE j[2] # id
    BY <1>3, <2>2 DEF IInv, EndsWithinAPeriod, SubscriptionIds
  <2>. QED
    BY <2>1, <2>2
<1>10. NothingStranded'
  BY <1>5 DEF NothingStranded, IInv
<1>11. ChargedForGrantedTime'
  <2> SUFFICES ASSUME NEW j \in SubscriptionIds, subscriptions[j].active
               PROVE  subscriptions[j].consumed * offerings'[j[2]].periodSeconds
                        <= offerings'[j[2]].pricePerPeriod
                             * (subscriptions[j].currentPeriodEnd - subscriptions[j].startedAt)
    BY <1>5 DEF ChargedForGrantedTime, OfferingOf
  <2>1. j[2] # id /\ j[2] \in OfferingIds
    BY <1>6, SlotFacts
  <2>. QED
    BY <1>3, <2>1 DEF ChargedForGrantedTime, IInv, OfferingOf
<1>12. SubscriberCountExact'
  <2> SUFFICES ASSUME NEW i \in OfferingIds
               PROVE  /\ offerings'[i].subscriberCount = Cardinality(ActiveOf(i))
                      /\ offerings'[i].maxSubscribers # 0 =>
                           offerings'[i].subscriberCount <= offerings'[i].maxSubscribers
    BY <1>5, CountSame DEF SubscriberCountExact
  <2>1. CASE i = id
    <3>1. Cardinality(ActiveOf(i)) = 0
      BY <1>4, <2>1 DEF IInv, SubscriberCountExact, NoOffering
    <3>. QED
      BY <1>3, <2>1, <3>1, AmountsAssumption
  <2>2. CASE i # id
    BY <1>3, <2>2 DEF IInv, SubscriberCountExact
  <2>. QED
    BY <2>1, <2>2
<1>13. TypeOK'
  BY <1>3, <1>5 DEF CreateOffering, IInv, TypeOK, config
<1>. QED
  BY <1>7, <1>8, <1>9, <1>10, <1>11, <1>12, <1>13 DEF SlotInv

(* What a provider may change in an offering never touches what the         *)
(* subscriptions depend on.                                                 *)
EditsOffering(o) ==
  /\ offerings[o].provider # NoUser
  /\ offerings' \in [OfferingIds -> OfferingType]
  /\ \A i \in OfferingIds \ {o} : offerings'[i] = offerings[i]
  /\ offerings'[o].provider = offerings[o].provider
  /\ offerings'[o].pricePerPeriod = offerings[o].pricePerPeriod
  /\ offerings'[o].periodSeconds = offerings[o].periodSeconds
  /\ offerings'[o].subscriberCount = offerings[o].subscriberCount
  /\ offerings'[o].maxSubscribers # 0 =>
       offerings'[o].subscriberCount <= offerings'[o].maxSubscribers
  /\ UNCHANGED <<now, nextOfferingId, subscriptions, pendingWithdrawals, balance, config>>

LEMMA EditsOfferingStep ==
  ASSUME IInv, NEW o \in OfferingIds, EditsOffering(o)
  PROVE  SlotInv' /\ TypeOK'
<1>1. \A i \in OfferingIds :
        /\ offerings'[i].provider = offerings[i].provider
        /\ offerings'[i].periodSeconds = offerings[i].periodSeconds
        /\ offerings'[i].pricePerPeriod = offerings[i].pricePerPeriod
        /\ offerings'[i].subscriberCount = offerings[i].subscriberCount
        /\ offerings'[i].maxSubscribers # 0 =>
             offerings'[i].subscriberCount <= offerings'[i].maxSubscribers
  BY DEF EditsOffering, IInv, SubscriberCountExact
<1>2. UNCHANGED <<now, nextOfferingId, subscriptions>>
  BY DEF EditsOffering
<1>3. OfferingsInOrder'
  <2>1. ~(o >= nextOfferingId)
    BY DEF OfferingsInOrder, IInv, EditsOffering, NoOffering
  <2>. QED
    BY <1>1, <1>2, <2>1 DEF OfferingsInOrder, IInv, EditsOffering
<1>4. SlotsConsistent' /\ EndsWithinAPeriod' /\ NothingStranded'
  BY <1>1, <1>2 DEF SlotsConsistent, EndsWithinAPeriod, NothingStranded, IInv, SubscriptionIds
<1>5. ChargedForGrantedTime'
  BY <1>1, <1>2 DEF ChargedForGrantedTime, IInv, SubscriptionIds, OfferingOf
<1>6. SubscriberCountExact'
  BY <1>1, <1>2, CountSame DEF SubscriberCountExact, IInv
<1>7. TypeOK'
  BY DEF EditsOffering, IInv, TypeOK, config
<1>. QED
  BY <1>3, <1>4, <1>5, <1>6, <1>7 DEF SlotInv

LEMMA DeactivateOfferingStep ==
  ASSUME IInv, NEW o \in OfferingIds, DeactivateOffering(o)
  PROVE  SlotInv' /\ TypeOK'
<1> DEFINE q == [offerings[o] EXCEPT !.active = FALSE]
<1>1. offerings[o] \in OfferingType
  BY DEF IInv, TypeOK
<1>2. q \in OfferingType
  BY <1>1 DEF OfferingType
<1>3. offerings' = [offerings EXCEPT ![o] = q]
  BY DEF DeactivateOffering
<1>4. EditsOffering(o)
  BY <1>1, <1>2, <1>3
     DEF EditsOffering, DeactivateOffering, IInv, TypeOK, OfferingType, SubscriberCountExact
<1>. QED
  BY <1>4, EditsOfferingStep

LEMMA UpdateMaxSubscribersStep ==
  ASSUME IInv, NEW o \in OfferingIds, NEW newMax \in Caps, UpdateMaxSubscribers(o, newMax)
  PROVE  SlotInv' /\ TypeOK'
<1> DEFINE q == [offerings[o] EXCEPT !.maxSubscribers = newMax]
<1>1. offerings[o] \in OfferingType /\ newMax \in Nat
  BY AmountsAssumption DEF IInv, TypeOK
<1>2. q \in OfferingType
  BY <1>1 DEF OfferingType
<1>3. offerings' = [offerings EXCEPT ![o] = q]
  BY DEF UpdateMaxSubscribers
<1>4. EditsOffering(o)
  BY <1>1, <1>2, <1>3 DEF EditsOffering, UpdateMaxSubscribers, IInv, TypeOK, OfferingType
<1>. QED
  BY <1>4, EditsOfferingStep

(* Steps that touch neither offerings nor subscriptions, the clock apart. *)
LEMMA OtherStep ==
  ASSUME IInv, UNCHANGED <<nextOfferingId, offerings, subscriptions>>,
         now' \in Nat, now' >= now
  PROVE  SlotInv'
<1>1. OfferingsInOrder' /\ SlotsConsistent' /\ NothingStranded'
  BY DEF OfferingsInOrder, SlotsConsistent, NothingStranded, IInv
<1>2. EndsWithinAPeriod'
  <2> SUFFICES ASSUME NEW j \in SubscriptionIds
               PROVE  subscriptions[j].currentPeriodEnd <= now' + offerings[j[2]].periodSeconds
    BY DEF EndsWithinAPeriod
  <2>1. subscriptions[j].currentPeriodEnd \in Nat /\ offerings[j[2]].periodSeconds \in Nat
    BY DEF IInv, TypeOK, SubscriptionType, OfferingType, SubscriptionIds
  <2>. QED
    BY <2>1 DEF IInv, TypeOK, EndsWithinAPeriod
<1>3. ChargedForGrantedTime'
  BY DEF ChargedForGrantedTime, IInv, OfferingOf
<1>4. SubscriberCountExact'
  BY CountSame DEF SubscriberCountExact, IInv
<1>. QED
  BY <1>1, <1>2, <1>3, <1>4 DEF SlotInv

LEMMA ConfigStep ==
  ASSUME IInv,
         \/ Tick
         \/ \E bps \in FeeChoices : SetProtocolFee(bps)
         \/ \E user \in Treasuries \cup {NoUser} : SetProtocolTreasury(user)
         \/ \E set \in ArbitrationSet : SetDisputeArbitration(set)
         \/ \E user \in Users, tok \in Tokens : Withdraw(user, tok)
  PROVE  SlotInv' /\ TypeOK'
<1>0. now \in Nat
  BY DEF IInv, TypeOK
<1>1. CASE Tick
  BY <1>0, <1>1, OtherStep DEF Tick, IInv, TypeOK, config
<1>2. CASE \E bps \in FeeChoices : SetProtocolFee(bps)
  BY <1>0, <1>2, OtherStep, AmountsAssumption DEF SetProtocolFee, IInv, TypeOK
<1>3. CASE \E user \in Treasuries \cup {NoUser} : SetProtocolTreasury(user)
  BY <1>0, <1>3, OtherStep, UsersAssumption DEF SetProtocolTreasury, IInv, TypeOK
<1>4. CASE \E set \in ArbitrationSet : SetDisputeArbitration(set)
  BY <1>0, <1>4, OtherStep, AmountsAssumption DEF SetDisputeArbitration, IInv, TypeOK
<1>5. CASE \E user \in Users, tok \in Tokens : Withdraw(user, tok)
  BY <1>0, <1>5, OtherStep DEF Withdraw, IInv, TypeOK, config
<1>. QED
  BY <1>1, <1>2, <1>3, <1>4, <1>5

-----------------------------------------------------------------------------
LEMMA NextIInv == IInv /\ [Next]_vars => IInv'
<1> SUFFICES ASSUME IInv, [Next]_vars PROVE SlotInv' /\ TypeOK'
  BY DEF IInv, SlotInv
<1>1. CASE Tick
  BY <1>1, ConfigStep
<1>2. CASE OwnerNext
  BY <1>2, ConfigStep, ResolveStep DEF OwnerNext
<1>3. CASE ProviderNext
  BY <1>3, CreateOfferingStep, DeactivateOfferingStep, UpdateMaxSubscribersStep DEF ProviderNext
<1>4. CASE SubscriberNext
  BY <1>4, SubscribeStep, TopUpStep, CancelStep, DisputeStep DEF SubscriberNext
<1>5. CASE \E k \in SubscriptionIds : RenewSubscription(k) \/ ClaimDisputeTimeout(k)
  BY <1>5, RenewStep, ExpireStep, ClaimStep DEF RenewSubscription
<1>6. CASE \E user \in Users, tok \in Tokens : Withdraw(user, tok)
  BY <1>6, ConfigStep
<1>7. CASE UNCHANGED vars
  <2>1. now \in Nat
    BY DEF IInv, TypeOK
  <2>. QED
    BY <1>7, <2>1, OtherStep DEF vars, IInv, TypeOK
<1>. QED
  BY <1>1, <1>2, <1>3, <1>4, <1>5, <1>6, <1>7 DEF Next

(* The inductive invariant: the state of every slot, offering and counter   *)
(* fits together in every reachable state.                                  *)
THEOREM Invariance == Spec => []IInv
BY InitIInv, NextIInv, PTL DEF Spec

(* Type correctness of the contract's state: in particular no counter and   *)
(* no credit ever goes below zero.                                          *)
THEOREM TypeCorrect == Spec => []TypeOK
BY Invariance, PTL DEF IInv

(* The admission counter is exact and within the cap, for any number of     *)
(* subscribers and offerings.                                               *)
THEOREM CountCorrect == Spec => []SubscriberCountExact
BY Invariance, PTL DEF IInv

(* No deposit is overdrawn and none is left in an ended subscription.       *)
THEOREM NoStrandedDeposit == Spec => []NothingStranded
BY Invariance, PTL DEF IInv

(* No active subscription was charged for more periods than it was granted. *)
THEOREM ChargedCorrect == Spec => []ChargedForGrantedTime
BY Invariance, PTL DEF IInv

-----------------------------------------------------------------------------
(* What a step may do to one subscription: everything but a new            *)
(* subscription leaves its slot's other fields to the call's own writes.   *)
SlotStep(j) ==
  \/ subscriptions'[j] = subscriptions[j]
  \/ /\ subscriptions[j].disputed
     /\ ~subscriptions'[j].disputed
     /\ ~subscriptions'[j].active
     /\ subscriptions'[j].currentPeriodEnd = subscriptions[j].currentPeriodEnd
     /\ subscriptions'[j].deposited = subscriptions[j].deposited
  \/ /\ ~subscriptions[j].disputed
     /\ subscriptions'[j].currentPeriodEnd >= subscriptions[j].currentPeriodEnd

LEMMA SubscribeSlot ==
  ASSUME IInv, NEW user \in Subscribers, NEW o \in OfferingIds, NEW n \in 1..MaxPeriods,
         Subscribe(user, o, n), NEW j \in SubscriptionIds
  PROVE  SlotStep(j)
<1> DEFINE k == <<user, o>>
<1>1. k \in SubscriptionIds
  BY DEF SubscriptionIds
<1>2. subscriptions \in [SubscriptionIds -> SubscriptionType]
  BY DEF IInv, TypeOK
<1>3. subscriptions'[k].currentPeriodEnd = now + offerings[o].periodSeconds
  BY <1>1, <1>2 DEF Subscribe
<1>4. subscriptions[k].currentPeriodEnd <= now + offerings[o].periodSeconds
  BY <1>1 DEF IInv, EndsWithinAPeriod
<1>5. ~subscriptions[k].disputed
  BY <1>1 DEF IInv, SlotsConsistent, Subscribe, CanSubscribe, NoSubscription
<1>6. subscriptions[k].currentPeriodEnd \in Nat /\ offerings[o].periodSeconds \in Nat /\ now \in Nat
  BY <1>1 DEF IInv, TypeOK, SubscriptionType, OfferingType
<1>7. j # k => subscriptions'[j] = subscriptions[j]
  BY <1>2 DEF Subscribe
<1>. QED
  BY <1>3, <1>4, <1>5, <1>6, <1>7 DEF SlotStep

LEMMA RenewSlot ==
  ASSUME IInv, NEW k \in SubscriptionIds, RenewSubscription(k), NEW j \in SubscriptionIds
  PROVE  SlotStep(j)
<1>1. subscriptions \in [SubscriptionIds -> SubscriptionType] /\ now \in Nat
  BY DEF IInv, TypeOK
<1>2. ~subscriptions[k].disputed
  BY DEF RenewSubscription, Live
<1>3. j # k => subscriptions'[j] = subscriptions[j]
  BY <1>1 DEF RenewSubscription, Renew, Expire
<1>4. CASE Renew(k)
  <2>1. OfferingOf(k).periodSeconds \in Nat /\ subscriptions[k].currentPeriodEnd \in Nat
    BY <1>1 DEF IInv, TypeOK, OfferingOf, OfferingType, SubscriptionType, SubscriptionIds
  <2>2. NextPeriodEnd(k) >= subscriptions[k].currentPeriodEnd
    BY <1>1, <2>1 DEF NextPeriodEnd
  <2>3. subscriptions'[k].currentPeriodEnd = NextPeriodEnd(k)
    BY <1>1, <1>4 DEF Renew, SubscriptionType
  <2>. QED
    BY <1>2, <1>3, <2>2, <2>3 DEF SlotStep
<1>5. CASE Expire(k)
  <2>1. /\ subscriptions'[k].currentPeriodEnd = subscriptions[k].currentPeriodEnd
        /\ subscriptions[k].currentPeriodEnd \in Nat
    BY <1>1, <1>5 DEF Expire, SubscriptionType
  <2>. QED
    BY <1>2, <1>3, <2>1 DEF SlotStep
<1>. QED
  BY <1>4, <1>5 DEF RenewSubscription

LEMMA LiveSlot ==
  ASSUME IInv, NEW k \in SubscriptionIds, NEW j \in SubscriptionIds,
         \/ Cancel(k)
         \/ \E amount \in TopUps : TopUp(k, amount)
         \/ \E value \in DisputeFees, accepted \in BOOLEAN :
               DisputeSubscription(k, value, accepted)
  PROVE  SlotStep(j)
<1>1. subscriptions \in [SubscriptionIds -> SubscriptionType]
  BY DEF IInv, TypeOK
<1>2. ~subscriptions[k].disputed
  BY DEF Cancel, TopUp, DisputeSubscription, Live
<1>3. j # k => subscriptions'[j] = subscriptions[j]
  BY <1>1 DEF Cancel, TopUp, DisputeSubscription
<1>4. /\ subscriptions'[k].currentPeriodEnd = subscriptions[k].currentPeriodEnd
      /\ subscriptions[k].currentPeriodEnd \in Nat
  BY <1>1 DEF Cancel, TopUp, DisputeSubscription, SubscriptionType
<1>. QED
  BY <1>2, <1>3, <1>4 DEF SlotStep

LEMMA CloseSlot ==
  ASSUME IInv, NEW k \in SubscriptionIds, NEW j \in SubscriptionIds,
         subscriptions[k].disputed, CloseDispute(k)
  PROVE  SlotStep(j)
BY DEF SlotStep, CloseDispute, IInv, TypeOK, SubscriptionType

LEMMA NextSlot ==
  ASSUME IInv, [Next]_vars, NEW j \in SubscriptionIds
  PROVE  SlotStep(j)
<1>1. CASE UNCHANGED subscriptions
  BY <1>1 DEF SlotStep
<1>2. CASE \E k \in SubscriptionIds : subscriptions[k].disputed /\ CloseDispute(k)
  BY <1>2, CloseSlot
<1>3. CASE SubscriberNext
  BY <1>3, SubscribeSlot, LiveSlot DEF SubscriberNext
<1>4. CASE \E k \in SubscriptionIds : RenewSubscription(k)
  BY <1>4, RenewSlot
<1>. QED
  BY <1>1, <1>2, <1>3, <1>4
     DEF Next, OwnerNext, ProviderNext, vars, Tick, SetProtocolFee, SetProtocolTreasury,
         SetDisputeArbitration, ResolveDisputeDetailed, CreateOffering, DeactivateOffering,
         UpdateMaxSubscribers, ClaimDisputeTimeout, Withdraw

(* Access that was paid for is never taken back by any call, in any order.  *)
THEOREM AccessPreserved == Spec => AccessNeverShrinks
<1>1. IInv /\ [Next]_vars =>
        [\A k \in SubscriptionIds :
           subscriptions[k].currentPeriodEnd <= subscriptions'[k].currentPeriodEnd]_vars
  <2> SUFFICES ASSUME IInv, [Next]_vars, NEW k \in SubscriptionIds
               PROVE  subscriptions[k].currentPeriodEnd <= subscriptions'[k].currentPeriodEnd
    OBVIOUS
  <2>1. subscriptions[k].currentPeriodEnd \in Nat
    BY DEF IInv, TypeOK, SubscriptionType
  <2>2. subscriptions'[k].currentPeriodEnd \in Nat
    BY NextIInv DEF IInv, TypeOK, SubscriptionType
  <2>. QED
    BY <2>1, <2>2, NextSlot DEF SlotStep
<1>. QED
  BY <1>1, Invariance, PTL DEF Spec, AccessNeverShrinks

(* While a dispute is open nothing moves in the subscription until one step *)
(* closes it.                                                               *)
THEOREM DisputeFrozen == Spec => DisputeFreezes
<1> DEFINE Frozen == \A k \in SubscriptionIds :
             subscriptions[k].disputed =>
               \/ subscriptions'[k] = subscriptions[k]
               \/ /\ ~subscriptions'[k].disputed
                  /\ ~subscriptions'[k].active
                  /\ subscriptions'[k].currentPeriodEnd = subscriptions[k].currentPeriodEnd
                  /\ subscriptions'[k].deposited = subscriptions[k].deposited
<1>1. IInv /\ [Next]_vars => [Frozen]_vars
  BY NextSlot DEF SlotStep
<1>. QED
  BY <1>1, Invariance, PTL DEF Spec, DisputeFreezes

-----------------------------------------------------------------------------
(* Money.  The sum of what all accounts may withdraw in token t. *)
CreditIn(pw, t) == [u \in Users |-> pw[u][t]]
CreditSum(pw, t) == SumFunctionOnSet(CreditIn(pw, t), Users)

LEMMA CreditSumType ==
  ASSUME NEW pw \in [Users -> [Tokens -> Nat]], NEW t \in Tokens
  PROVE  CreditSum(pw, t) \in Int
<1>1. \A u \in Users : CreditIn(pw, t)[u] \in Int
  BY DEF CreditIn
<1>. QED
  BY <1>1, SumType, UsersAssumption DEF CreditSum

(* Crediting raises the sum of its token by the amount, and nothing falls.  *)
LEMMA CreditAdds ==
  ASSUME NEW pw \in [Users -> [Tokens -> Nat]], NEW user, NEW tok \in Tokens,
         NEW amount \in Nat, user \in Users \/ amount = 0, NEW t \in Tokens
  PROVE  /\ CreditSum(Credit(pw, user, tok, amount), t)
              = CreditSum(pw, t) + (IF tok = t THEN amount ELSE 0)
         /\ \A u \in Users : Credit(pw, user, tok, amount)[u][t] >= pw[u][t]
<1>1. CASE amount = 0
  BY <1>1, CreditSumType DEF Credit
<1>2. CASE amount # 0
  <2> DEFINE qw == [pw EXCEPT ![user][tok] = @ + amount]
             f == CreditIn(pw, t)
             g == CreditIn(qw, t)
             d == IF tok = t THEN amount ELSE 0
  <2>1. user \in Users /\ Credit(pw, user, tok, amount) = qw
    BY <1>2 DEF Credit
  <2>2. f \in [Users -> Nat] /\ g \in [Users -> Nat] /\ d \in Nat
    BY <2>1 DEF CreditIn
  <2>3. \A u \in Users \ {user} : g[u] = f[u]
    BY <2>1 DEF CreditIn
  <2>4. g[user] = f[user] + d
    BY <2>1 DEF CreditIn
  <2>5. IsFiniteSet(Users)
    BY UsersAssumption
  <2>6. /\ SumFunctionOnSet(g, Users) = SumFunctionOnSet(f, Users) + d
        /\ \A u \in Users : g[u] >= f[u]
    <3>1. user \in Users
      BY <2>1
    <3>. HIDE DEF f, g, d, qw
    <3>2. f \in [Users -> Nat]
      BY <2>2
    <3>3. g \in [Users -> Nat]
      BY <2>2
    <3>4. d \in Nat
      BY <2>2
    <3>. QED
      BY <3>1, <3>2, <3>3, <3>4, <2>3, <2>4, <2>5, SumRaise
  <2>7. \A u \in Users : f[u] = pw[u][t] /\ g[u] = qw[u][t]
    BY DEF CreditIn
  <2>8. CreditSum(pw, t) = SumFunctionOnSet(f, Users) /\ CreditSum(qw, t) = SumFunctionOnSet(g, Users)
    BY DEF CreditSum
  <2>9. \A u \in Users : qw[u][t] >= pw[u][t]
    <3>. HIDE DEF f, g, qw
    <3>. QED
      BY <2>6, <2>7
  <2>. HIDE DEF f, g, qw
  <2>. QED
    BY <2>1, <2>6, <2>8, <2>9
<1>. QED
  BY <1>1, <1>2

(* Crediting a period raises the sum by exactly its price, fee or no fee.   *)
LEMMA CreditPeriodAdds ==
  ASSUME TypeOK, NEW o \in OfferingIds, offerings[o].provider # NoUser,
         NEW pw \in [Users -> [Tokens -> Nat]], NEW t \in Tokens
  PROVE  /\ CreditSum(CreditPeriod(pw, offerings[o]), t)
              = CreditSum(pw, t)
                  + (IF offerings[o].token = t THEN offerings[o].pricePerPeriod ELSE 0)
         /\ \A u \in Users : CreditPeriod(pw, offerings[o])[u][t] >= pw[u][t]
<1> DEFINE of == offerings[o]
           fee == ProtocolFee(of.pricePerPeriod)
           qw == Credit(pw, protocolTreasury, of.token, fee)
           rw == Credit(qw, of.provider, of.token, of.pricePerPeriod - fee)
<1>1. of.pricePerPeriod \in Nat /\ of.token \in Tokens /\ of.provider \in Users
  BY DEF TypeOK, OfferingType
<1>2. fee \in 0..of.pricePerPeriod
  BY <1>1, FeeBounded DEF TypeOK
<1>3. (protocolTreasury \in Users \/ fee = 0) /\ fee \in Nat /\ of.pricePerPeriod - fee \in Nat
  BY <1>1, <1>2 DEF TypeOK, ProtocolFee
<1>4. CreditPeriod(pw, offerings[o]) = rw
  BY DEF CreditPeriod
<1>. HIDE DEF of, fee
<1>5. qw \in [Users -> [Tokens -> Nat]]
  BY <1>1, <1>3, CreditType
<1>6. rw \in [Users -> [Tokens -> Nat]]
  BY <1>1, <1>3, <1>5, CreditType
<1>7. /\ CreditSum(qw, t) = CreditSum(pw, t) + (IF of.token = t THEN fee ELSE 0)
      /\ \A u \in Users : qw[u][t] >= pw[u][t]
  BY <1>1, <1>3, CreditAdds
<1>8. /\ CreditSum(rw, t)
          = CreditSum(qw, t) + (IF of.token = t THEN of.pricePerPeriod - fee ELSE 0)
      /\ \A u \in Users : rw[u][t] >= qw[u][t]
  BY <1>1, <1>3, <1>5, CreditAdds
<1>. HIDE DEF qw, rw
<1>9. CreditSum(rw, t) = CreditSum(pw, t) + (IF of.token = t THEN of.pricePerPeriod ELSE 0)
  BY <1>1, <1>3, <1>7, <1>8, CreditSumType
<1>10. \A u \in Users : rw[u][t] >= pw[u][t]
  <2>1. \A u \in Users : rw[u][t] \in Nat /\ qw[u][t] \in Nat /\ pw[u][t] \in Nat
    BY <1>5, <1>6
  <2>. QED
    BY <1>7, <1>8, <2>1
<1>. QED
  BY <1>4, <1>9, <1>10 DEF of

-----------------------------------------------------------------------------
(* The sums of the abstract escrow, which its instance brings along, are    *)
(* the sums of the library.                                                *)
LEMMA LedgerTotal ==
  ASSUME NEW pw, NEW t, pw \in [Users -> [Tokens -> Nat]]
  PROVE  Ledger!Total(pw, t) = CreditSum(pw, t)
<1> DEFINE f == CreditIn(pw, t)
<1>1. Ledger!Total(pw, t) = Ledger!SumFunction(f) /\ DOMAIN f = Users
  BY DEF Ledger!Total, CreditIn
<1>. HIDE DEF f
<1>2. Ledger!SumFunction(f) = SumFunctionOnSet(f, DOMAIN f)
  BY DEF Ledger!SumFunction, Ledger!SumFunctionOnSet, Ledger!FoldFunctionOnSet,
         Ledger!MapThenFoldSet, SumFunctionOnSet, FoldFunctionOnSet, MapThenFoldSet
<1>. QED
  BY <1>1, <1>2 DEF CreditSum, f

LEMMA LedgerTyped == IInv => Ledger!LedgerType
<1> SUFFICES ASSUME IInv PROVE Ledger!LedgerType
  OBVIOUS
<1>1. \A k \in SubscriptionIds : Remaining(k) \in Nat
  BY DEF IInv, TypeOK, NothingStranded, Remaining, SubscriptionType
<1>. QED
  BY <1>1 DEF Ledger!LedgerType, IInv, TypeOK, LockedIn

(* A call that takes in and credits the given amounts, in one token, on     *)
(* account of one subscription is a move of the abstract escrow.            *)
LEMMA MoveOfAmounts ==
  ASSUME IInv, IInv', NEW k \in SubscriptionIds, NEW tok \in Tokens,
         NEW in \in Nat, NEW out \in Nat,
         \A j \in SubscriptionIds, t \in Tokens :
            LockedIn(j, t)' = LockedIn(j, t) + (IF j = k /\ t = tok THEN in - out ELSE 0),
         \A t \in Tokens :
            /\ CreditSum(pendingWithdrawals', t)
                 = CreditSum(pendingWithdrawals, t) + (IF t = tok THEN out ELSE 0)
            /\ \A u \in Users : pendingWithdrawals'[u][t] >= pendingWithdrawals[u][t]
            /\ balance'[t] = balance[t] + (IF t = tok THEN in ELSE 0)
  PROVE  Ledger!Move(k)
<1>1. Ledger!LedgerType'
  BY LedgerTyped, PTL
<1>2. \A j \in SubscriptionIds, t \in Tokens : LockedIn(j, t) \in Int
  BY DEF LockedIn, IInv, TypeOK, NothingStranded, Remaining, SubscriptionType
<1>3. \A j \in SubscriptionIds \ {k} :
        [t \in Tokens |-> LockedIn(j, t)'] = [t \in Tokens |-> LockedIn(j, t)]
  BY <1>2
<1>4. ASSUME NEW t \in Tokens
      PROVE  /\ balance'[t] >= balance[t]
             /\ balance'[t] - balance[t]
                  = (LockedIn(k, t)' - LockedIn(k, t))
                      + (Ledger!Total(pendingWithdrawals', t)
                           - Ledger!Total(pendingWithdrawals, t))
  <2>1. /\ CreditSum(pendingWithdrawals, t) \in Int
        /\ pendingWithdrawals \in [Users -> [Tokens -> Nat]]
        /\ pendingWithdrawals' \in [Users -> [Tokens -> Nat]]
    BY CreditSumType DEF IInv, TypeOK
  <2>2. /\ Ledger!Total(pendingWithdrawals', t) = CreditSum(pendingWithdrawals', t)
        /\ Ledger!Total(pendingWithdrawals, t) = CreditSum(pendingWithdrawals, t)
    BY <2>1, LedgerTotal
  <2>3. balance[t] \in Int /\ LockedIn(k, t) \in Int
    BY <1>2 DEF IInv, TypeOK
  <2>. QED
    BY <2>1, <2>2, <2>3
<1>. QED
  BY <1>1, <1>3, <1>4 DEF Ledger!Move

(* What a call on subscription k does to the locked amounts, when it writes *)
(* no other slot and no offering's token.                                  *)
LEMMA LockedStep ==
  ASSUME IInv, NEW k \in SubscriptionIds, NEW d \in Int,
         \A j \in SubscriptionIds \ {k} : subscriptions'[j] = subscriptions[j],
         \A i \in OfferingIds : offerings'[i].token = offerings[i].token,
         subscriptions'[k].deposited - subscriptions'[k].consumed = Remaining(k) + d,
         NEW j \in SubscriptionIds, NEW t \in Tokens
  PROVE  LockedIn(j, t)'
           = LockedIn(j, t) + (IF j = k /\ t = OfferingOf(k).token THEN d ELSE 0)
<1>1. (OfferingOf(j)').token = OfferingOf(j).token
  BY DEF OfferingOf, SubscriptionIds
<1>2. Remaining(j) \in Int
  BY DEF IInv, TypeOK, SubscriptionType, Remaining
<1>3. Remaining(j)' = Remaining(j) + (IF j = k THEN d ELSE 0)
  <2>1. CASE j = k
    BY <2>1 DEF Remaining
  <2>2. CASE j # k
    BY <1>2, <2>2 DEF Remaining
  <2>. QED
    BY <2>1, <2>2
<1>. QED
  BY <1>1, <1>2, <1>3 DEF LockedIn

(* A way out of a subscription credits what was left in it, and moves no    *)
(* money out of the contract.                                              *)
LEMMA EndsMove ==
  ASSUME IInv, IInv', NEW k \in SubscriptionIds, Ends(k), UNCHANGED balance,
         \A t \in Tokens :
            /\ CreditSum(pendingWithdrawals', t)
                 = CreditSum(pendingWithdrawals, t)
                     + (IF OfferingOf(k).token = t THEN Remaining(k) ELSE 0)
            /\ \A u \in Users : pendingWithdrawals'[u][t] >= pendingWithdrawals[u][t]
  PROVE  Ledger!Move(k)
<1> DEFINE tok == OfferingOf(k).token
           out == Remaining(k)
<1>1. tok \in Tokens /\ out \in Nat
  BY SlotFacts DEF Ends
<1>2. \A i \in OfferingIds : offerings'[i].token = offerings[i].token
  BY DEF Ends, IInv, TypeOK, OfferingType
<1>3. subscriptions'[k].deposited - subscriptions'[k].consumed = Remaining(k) + (0 - out)
  BY <1>1 DEF Ends, IInv, TypeOK, SubscriptionType
<1>4. \A j \in SubscriptionIds, t \in Tokens :
        LockedIn(j, t)' = LockedIn(j, t) + (IF j = k /\ t = tok THEN 0 - out ELSE 0)
  <2>1. 0 - out \in Int
    BY <1>1
  <2>2. \A j \in SubscriptionIds \ {k} : subscriptions'[j] = subscriptions[j]
    BY DEF Ends
  <2>. HIDE DEF out
  <2>. QED
    BY <1>2, <1>3, <2>1, <2>2, LockedStep
<1>5. \A t \in Tokens : balance[t] \in Int
  BY DEF IInv, TypeOK
<1>. HIDE DEF tok, out
<1>6. \A t \in Tokens : balance'[t] = balance[t] + (IF t = tok THEN 0 ELSE 0)
  BY <1>5
<1>7. \A t \in Tokens :
        /\ CreditSum(pendingWithdrawals', t)
              = CreditSum(pendingWithdrawals, t) + (IF t = tok THEN out ELSE 0)
        /\ \A u \in Users : pendingWithdrawals'[u][t] >= pendingWithdrawals[u][t]
  BY DEF tok, out
<1>. QED
  BY <1>1, <1>4, <1>6, <1>7, MoveOfAmounts

(* Expiry, cancellation and the timeout refund.                             *)
LEMMA RefundMove ==
  ASSUME IInv, IInv', NEW k \in SubscriptionIds, Ends(k), UNCHANGED balance,
         pendingWithdrawals'
           = Credit(pendingWithdrawals, k[1], OfferingOf(k).token, Remaining(k))
  PROVE  Ledger!Move(k)
<1>1. /\ k[1] \in Users
      /\ OfferingOf(k).token \in Tokens
      /\ Remaining(k) \in Nat
  BY SlotFacts DEF Ends
<1>2. pendingWithdrawals \in [Users -> [Tokens -> Nat]]
  BY DEF IInv, TypeOK
<1>. QED
  BY <1>1, <1>2, CreditAdds, EndsMove

(* The awards of a resolution add up to what was left, the dust included.  *)
LEMMA ResolveMove ==
  ASSUME IInv, IInv', NEW k \in SubscriptionIds,
         NEW outcome \in {"PROVIDER_WINS", "SUBSCRIBER_WINS", "SPLIT"},
         NEW pAward \in Awards, NEW sAward \in Awards,
         ResolveDisputeDetailed(k, outcome, pAward, sAward)
  PROVE  Ledger!Move(k)
<1> DEFINE tok == OfferingOf(k).token
           prov == OfferingOf(k).provider
           pa == ProviderAward(outcome, Remaining(k), pAward)
           sa == SubscriberAward(outcome, Remaining(k), sAward)
           dust == Remaining(k) - pa - sa
           pw1 == Credit(pendingWithdrawals, prov, tok, pa)
           pw2 == Credit(pw1, k[1], tok, sa)
           pw3 == Credit(pw2, k[1], tok, dust)
<1>1. Ends(k) /\ subscriptions[k].active
  BY ResolveStep DEF Ends
<1>2. /\ prov \in Users
      /\ k[1] \in Users
      /\ tok \in Tokens
      /\ Remaining(k) \in Nat
  BY <1>1, SlotFacts
<1>3. pa \in Nat /\ sa \in Nat
  BY <1>2, AmountsAssumption DEF ProviderAward, SubscriberAward
<1>4. dust \in Nat /\ pa + sa + dust = Remaining(k)
  BY <1>2, <1>3 DEF ResolveDisputeDetailed
<1>5. pendingWithdrawals' = pw3 /\ UNCHANGED balance
  BY DEF ResolveDisputeDetailed
<1>6. pendingWithdrawals \in [Users -> [Tokens -> Nat]]
  BY DEF IInv, TypeOK
<1>. HIDE DEF tok, prov, pa, sa, dust
<1>7. pw1 \in [Users -> [Tokens -> Nat]]
  BY <1>2, <1>3, <1>6, CreditType
<1>8. pw2 \in [Users -> [Tokens -> Nat]]
  BY <1>2, <1>3, <1>7, CreditType
<1>9. ASSUME NEW t \in Tokens
      PROVE  /\ CreditSum(pw3, t) = CreditSum(pendingWithdrawals, t)
                                      + (IF tok = t THEN Remaining(k) ELSE 0)
             /\ \A u \in Users : pw3[u][t] >= pendingWithdrawals[u][t]
  <2>1. /\ CreditSum(pw1, t) = CreditSum(pendingWithdrawals, t) + (IF tok = t THEN pa ELSE 0)
        /\ \A u \in Users : pw1[u][t] >= pendingWithdrawals[u][t]
    BY <1>2, <1>3, <1>6, CreditAdds
  <2>2. /\ CreditSum(pw2, t) = CreditSum(pw1, t) + (IF tok = t THEN sa ELSE 0)
        /\ \A u \in Users : pw2[u][t] >= pw1[u][t]
    BY <1>2, <1>3, <1>7, CreditAdds
  <2>3. /\ CreditSum(pw3, t) = CreditSum(pw2, t) + (IF tok = t THEN dust ELSE 0)
        /\ \A u \in Users : pw3[u][t] >= pw2[u][t]
    BY <1>2, <1>4, <1>8, CreditAdds
  <2>4. pw3 \in [Users -> [Tokens -> Nat]]
    BY <1>2, <1>4, <1>8, CreditType
  <2>5. CreditSum(pendingWithdrawals, t) \in Int
    BY <1>6, CreditSumType
  <2>. HIDE DEF pw1, pw2, pw3
  <2>6. CreditSum(pw3, t) = CreditSum(pendingWithdrawals, t)
                              + (IF tok = t THEN Remaining(k) ELSE 0)
    BY <1>2, <1>3, <1>4, <2>1, <2>2, <2>3, <2>5
  <2>7. \A u \in Users : pw3[u][t] \in Nat /\ pw2[u][t] \in Nat /\ pw1[u][t] \in Nat
                          /\ pendingWithdrawals[u][t] \in Nat
    BY <1>6, <1>7, <1>8, <2>4
  <2>. QED
    BY <2>1, <2>2, <2>3, <2>6, <2>7
<1>. HIDE DEF pw3
<1>10. \A t \in Tokens :
        /\ CreditSum(pendingWithdrawals', t)
             = CreditSum(pendingWithdrawals, t) + (IF tok = t THEN Remaining(k) ELSE 0)
        /\ \A u \in Users : pendingWithdrawals'[u][t] >= pendingWithdrawals[u][t]
  BY <1>5, <1>9
<1>. QED
  BY <1>1, <1>5, <1>10, EndsMove DEF tok

LEMMA RenewMove ==
  ASSUME IInv, IInv', NEW k \in SubscriptionIds, RenewSubscription(k), Renew(k)
  PROVE  Ledger!Move(k)
<1> DEFINE tok == OfferingOf(k).token
           price == OfferingOf(k).pricePerPeriod
<1>1. Continues(k) /\ subscriptions[k].active
  BY RenewStep DEF RenewSubscription, Live
<1>2. /\ tok \in Tokens
      /\ price \in Nat
      /\ k[2] \in OfferingIds
      /\ OfferingOf(k).provider # NoUser
      /\ Remaining(k) \in Nat
  BY <1>1, SlotFacts, UsersAssumption DEF OfferingType
<1>3. subscriptions'[k].deposited - subscriptions'[k].consumed = Remaining(k) + (0 - price)
  <2>1. /\ subscriptions'[k].deposited = subscriptions[k].deposited
        /\ subscriptions'[k].consumed = subscriptions[k].consumed + price
    BY DEF Renew, IInv, TypeOK, SubscriptionType
  <2>2. subscriptions[k].deposited \in Int /\ subscriptions[k].consumed \in Int
    BY DEF IInv, TypeOK, SubscriptionType
  <2>. QED
    BY <1>2, <2>1, <2>2 DEF Remaining
<1>4. \A j \in SubscriptionIds, t \in Tokens :
        LockedIn(j, t)' = LockedIn(j, t) + (IF j = k /\ t = tok THEN 0 - price ELSE 0)
  <2>1. 0 - price \in Int
    BY <1>2
  <2>2. \A j \in SubscriptionIds \ {k} : subscriptions'[j] = subscriptions[j]
    BY <1>1 DEF Continues
  <2>3. \A i \in OfferingIds : offerings'[i].token = offerings[i].token
    BY <1>1 DEF Continues
  <2>. HIDE DEF price
  <2>. QED
    BY <1>3, <2>1, <2>2, <2>3, LockedStep
<1>5. \A t \in Tokens :
        /\ CreditSum(pendingWithdrawals', t)
             = CreditSum(pendingWithdrawals, t) + (IF tok = t THEN price ELSE 0)
        /\ \A u \in Users : pendingWithdrawals'[u][t] >= pendingWithdrawals[u][t]
  <2>1. pendingWithdrawals' = CreditPeriod(pendingWithdrawals, offerings[k[2]])
    BY DEF Renew, OfferingOf
  <2>2. pendingWithdrawals \in [Users -> [Tokens -> Nat]] /\ TypeOK
    BY DEF IInv, TypeOK
  <2>. QED
    BY <1>2, <2>1, <2>2, CreditPeriodAdds DEF OfferingOf
<1>6. (\A t \in Tokens : balance[t] \in Int) /\ UNCHANGED balance
  BY DEF IInv, TypeOK, RenewSubscription
<1>. HIDE DEF tok, price
<1>7. \A t \in Tokens :
        /\ CreditSum(pendingWithdrawals', t)
             = CreditSum(pendingWithdrawals, t) + (IF t = tok THEN price ELSE 0)
        /\ \A u \in Users : pendingWithdrawals'[u][t] >= pendingWithdrawals[u][t]
        /\ balance'[t] = balance[t] + (IF t = tok THEN 0 ELSE 0)
  BY <1>5, <1>6
<1>. QED
  BY <1>2, <1>4, <1>7, MoveOfAmounts

LEMMA TopUpMove ==
  ASSUME IInv, IInv', NEW k \in SubscriptionIds, NEW amount \in TopUps, TopUp(k, amount)
  PROVE  Ledger!Move(k)
<1> DEFINE tok == OfferingOf(k).token
<1>1. Continues(k) /\ subscriptions[k].active
  BY TopUpStep DEF TopUp, Live
<1>2. tok \in Tokens /\ amount \in Nat /\ Remaining(k) \in Nat
  BY <1>1, SlotFacts, AmountsAssumption
<1>3. subscriptions'[k].deposited - subscriptions'[k].consumed = Remaining(k) + amount
  <2>1. /\ subscriptions'[k].deposited = subscriptions[k].deposited + amount
        /\ subscriptions'[k].consumed = subscriptions[k].consumed
    BY DEF TopUp, IInv, TypeOK, SubscriptionType
  <2>2. subscriptions[k].deposited \in Int /\ subscriptions[k].consumed \in Int
    BY DEF IInv, TypeOK, SubscriptionType
  <2>. QED
    BY <1>2, <2>1, <2>2 DEF Remaining
<1>4. \A j \in SubscriptionIds, t \in Tokens :
        LockedIn(j, t)' = LockedIn(j, t) + (IF j = k /\ t = tok THEN amount ELSE 0)
  <2>1. \A j \in SubscriptionIds \ {k} : subscriptions'[j] = subscriptions[j]
    BY <1>1 DEF Continues
  <2>2. \A i \in OfferingIds : offerings'[i].token = offerings[i].token
    BY <1>1 DEF Continues
  <2>. QED
    BY <1>2, <1>3, <2>1, <2>2, LockedStep
<1>5. \A t \in Tokens :
        /\ CreditSum(pendingWithdrawals, t) \in Int
        /\ \A u \in Users : pendingWithdrawals[u][t] \in Nat
        /\ UNCHANGED pendingWithdrawals
  BY CreditSumType DEF IInv, TypeOK, TopUp
<1>6. \A t \in Tokens : balance'[t] = balance[t] + (IF t = tok THEN amount ELSE 0)
  BY <1>2 DEF TopUp, IInv, TypeOK
<1>. HIDE DEF tok
<1>7. \A t \in Tokens :
        /\ CreditSum(pendingWithdrawals', t)
             = CreditSum(pendingWithdrawals, t) + (IF t = tok THEN 0 ELSE 0)
        /\ \A u \in Users : pendingWithdrawals'[u][t] >= pendingWithdrawals[u][t]
  BY <1>5
<1>8. amount - 0 = amount
  BY <1>2
<1>. QED
  BY <1>2, <1>4, <1>6, <1>7, <1>8, MoveOfAmounts

(* What stays behind of a dispute fee is nothing.                           *)
LEMMA DisputeKeepsLedger ==
  ASSUME IInv, NEW k \in SubscriptionIds, NEW value \in DisputeFees,
         NEW accepted \in BOOLEAN, DisputeSubscription(k, value, accepted)
  PROVE  UNCHANGED Ledger!ledger
<1>1. balance' = balance
  <2>1. value - FeeForwarded(value, accepted) - FeeRefunded(value, accepted) = 0
    BY AmountsAssumption DEF FeeForwarded, FeeRefunded
  <2>2. balance[ETH] \in Int /\ value \in Int /\ FeeForwarded(value, accepted) \in Int
          /\ FeeRefunded(value, accepted) \in Int
    BY AmountsAssumption, TokensAssumption DEF FeeForwarded, FeeRefunded, IInv, TypeOK
  <2>3. balance[ETH] + value - FeeForwarded(value, accepted) - FeeRefunded(value, accepted)
          = balance[ETH]
    BY <2>1, <2>2
  <2>. QED
    BY <2>3 DEF DisputeSubscription, IInv, TypeOK
<1>2. \A j \in SubscriptionIds : /\ subscriptions'[j].deposited = subscriptions[j].deposited
                                 /\ subscriptions'[j].consumed = subscriptions[j].consumed
  BY DEF DisputeSubscription, IInv, TypeOK, SubscriptionType
<1>3. UNCHANGED <<offerings, pendingWithdrawals>>
  BY DEF DisputeSubscription
<1>4. \A j \in SubscriptionIds, t \in Tokens : LockedIn(j, t)' = LockedIn(j, t)
  BY <1>2, <1>3 DEF LockedIn, Remaining, OfferingOf
<1>. QED
  BY <1>1, <1>3, <1>4 DEF Ledger!ledger

LEMMA SubscribeMove ==
  ASSUME IInv, IInv', NEW user \in Subscribers, NEW o \in OfferingIds,
         NEW n \in 1..MaxPeriods, Subscribe(user, o, n)
  PROVE  Ledger!Move(<<user, o>>)
<1> DEFINE k == <<user, o>>
           of == offerings[o]
           total == of.pricePerPeriod * n
           price == of.pricePerPeriod
           tok == of.token
<1>1. k \in SubscriptionIds /\ OfferingOf(k) = of
  BY DEF SubscriptionIds, OfferingOf
<1>2. of.provider # NoUser /\ price \in Nat /\ tok \in Tokens /\ n \in Nat
  BY TimeAssumption DEF Subscribe, CanSubscribe, IInv, TypeOK, OfferingType
<1>3. total \in Nat
  BY <1>2
<1>4. Remaining(k) = 0
  <2>1. ~subscriptions[k].active
    BY <1>1 DEF Subscribe, CanSubscribe, IInv, SlotsConsistent, NoSubscription
  <2>2. subscriptions[k].deposited \in Int /\ subscriptions[k].consumed \in Int
    BY <1>1 DEF IInv, TypeOK, SubscriptionType
  <2>. QED
    BY <1>1, <2>1, <2>2 DEF IInv, NothingStranded, Remaining
<1>5. subscriptions'[k].deposited - subscriptions'[k].consumed = Remaining(k) + (total - price)
  <2>1. subscriptions'[k].deposited = total /\ subscriptions'[k].consumed = price
    BY <1>1 DEF Subscribe, IInv, TypeOK
  <2>. HIDE DEF total, price
  <2>. QED
    BY <1>2, <1>3, <1>4, <2>1
<1>6. \A j \in SubscriptionIds, t \in Tokens :
        LockedIn(j, t)' = LockedIn(j, t) + (IF j = k /\ t = tok THEN total - price ELSE 0)
  <2>1. \A j \in SubscriptionIds \ {k} : subscriptions'[j] = subscriptions[j]
    BY DEF Subscribe, IInv, TypeOK
  <2>2. \A i \in OfferingIds : offerings'[i].token = offerings[i].token
    BY DEF Subscribe, IInv, TypeOK, OfferingType
  <2>3. total - price \in Int /\ OfferingOf(k).token = tok
    BY <1>1, <1>2, <1>3
  <2>. HIDE DEF k, total, price, tok
  <2>. QED
    BY <1>1, <1>5, <2>1, <2>2, <2>3, LockedStep
<1>7. \A t \in Tokens :
        /\ CreditSum(pendingWithdrawals', t)
             = CreditSum(pendingWithdrawals, t) + (IF tok = t THEN price ELSE 0)
        /\ \A u \in Users : pendingWithdrawals'[u][t] >= pendingWithdrawals[u][t]
  <2>1. pendingWithdrawals' = CreditPeriod(pendingWithdrawals, of)
    BY DEF Subscribe
  <2>2. pendingWithdrawals \in [Users -> [Tokens -> Nat]] /\ TypeOK
    BY DEF IInv, TypeOK
  <2>. QED
    BY <1>2, <2>1, <2>2, CreditPeriodAdds
<1>8. \A t \in Tokens : balance'[t] = balance[t] + (IF t = tok THEN total ELSE 0)
  <2>1. balance' = [balance EXCEPT ![tok] = balance[tok] + total] /\ balance \in [Tokens -> Int]
    BY DEF Subscribe, IInv, TypeOK
  <2>. HIDE DEF total, tok
  <2>. QED
    BY <1>2, <1>3, <2>1
<1>. HIDE DEF k, total, price, tok
<1>9. \A t \in Tokens :
        /\ CreditSum(pendingWithdrawals', t)
             = CreditSum(pendingWithdrawals, t) + (IF t = tok THEN price ELSE 0)
        /\ \A u \in Users : pendingWithdrawals'[u][t] >= pendingWithdrawals[u][t]
        /\ balance'[t] = balance[t] + (IF t = tok THEN total ELSE 0)
  BY <1>7, <1>8
<1>10. Ledger!Move(k)
  BY <1>1, <1>2, <1>3, <1>6, <1>9, MoveOfAmounts
<1>. QED
  BY <1>10 DEF k

(* Publishing and editing offerings, the configuration and the clock.       *)
LEMMA OfferingKeepsLedger ==
  ASSUME IInv, UNCHANGED <<subscriptions, pendingWithdrawals, balance>>,
         \A o \in OfferingIds : \/ offerings'[o].token = offerings[o].token
                                \/ offerings[o].provider = NoUser
  PROVE  UNCHANGED Ledger!ledger
<1>1. ASSUME NEW j \in SubscriptionIds, NEW t \in Tokens
      PROVE  LockedIn(j, t)' = LockedIn(j, t)
  <2>1. Remaining(j)' = Remaining(j)
    BY DEF Remaining
  <2>2. CASE (OfferingOf(j)').token = OfferingOf(j).token
    BY <2>1, <2>2 DEF LockedIn
  <2>3. CASE OfferingOf(j).provider = NoUser
    <3>1. subscriptions[j] = NoSubscription
      BY <2>3 DEF IInv, SlotsConsistent, OfferingOf
    <3>2. Remaining(j) = 0
      BY <3>1 DEF Remaining, NoSubscription
    <3>. QED
      BY <2>1, <3>2 DEF LockedIn
  <2>. QED
    BY <2>2, <2>3 DEF OfferingOf, SubscriptionIds
<1>. QED
  BY <1>1 DEF Ledger!ledger

LEMMA ProviderKeepsLedger ==
  ASSUME IInv, ProviderNext
  PROVE  UNCHANGED Ledger!ledger
<1>1. UNCHANGED <<subscriptions, pendingWithdrawals, balance>>
  BY DEF ProviderNext, CreateOffering, DeactivateOffering, UpdateMaxSubscribers
<1>2. \A o \in OfferingIds : \/ offerings'[o].token = offerings[o].token
                             \/ offerings[o].provider = NoUser
  <2>1. CASE UNCHANGED nextOfferingId
    <3>1. \E o \in OfferingIds : \/ offerings' = [offerings EXCEPT ![o].active = FALSE]
                                \/ \E m \in Caps :
                                     offerings' = [offerings EXCEPT ![o].maxSubscribers = m]
      BY <2>1 DEF ProviderNext, CreateOffering, DeactivateOffering, UpdateMaxSubscribers,
                  IInv, TypeOK
    <3>2. PICK i \in OfferingIds : \/ offerings' = [offerings EXCEPT ![i].active = FALSE]
                                  \/ \E m \in Caps :
                                       offerings' = [offerings EXCEPT ![i].maxSubscribers = m]
      BY <3>1
    <3>3. offerings \in [OfferingIds -> OfferingType]
      BY DEF IInv, TypeOK
    <3>4. CASE offerings' = [offerings EXCEPT ![i].active = FALSE]
      BY <3>3, <3>4 DEF OfferingType
    <3>5. CASE \E m \in Caps : offerings' = [offerings EXCEPT ![i].maxSubscribers = m]
      BY <3>3, <3>5 DEF OfferingType
    <3>. QED
      BY <3>2, <3>4, <3>5
  <2>2. CASE ~UNCHANGED nextOfferingId
    <3>1. offerings[nextOfferingId] = NoOffering
      BY <2>2 DEF ProviderNext, CreateOffering, DeactivateOffering, UpdateMaxSubscribers,
                  IInv, OfferingsInOrder, OfferingIds, TypeOK
    <3>2. \A o \in OfferingIds : o # nextOfferingId => offerings'[o] = offerings[o]
      BY <2>2 DEF ProviderNext, CreateOffering, DeactivateOffering, UpdateMaxSubscribers,
                  IInv, TypeOK
    <3>. QED
      BY <3>1, <3>2 DEF NoOffering
  <2>. QED
    BY <2>1, <2>2
<1>. QED
  BY <1>1, <1>2, OfferingKeepsLedger

LEMMA WithdrawPays ==
  ASSUME IInv, NEW user \in Users, NEW tok \in Tokens, Withdraw(user, tok)
  PROVE  Ledger!Pay(user, tok)
<1>1. \A j \in SubscriptionIds, t \in Tokens : LockedIn(j, t)' = LockedIn(j, t)
  BY DEF Withdraw, LockedIn, Remaining, OfferingOf
<1>. QED
  BY <1>1 DEF Ledger!Pay, Withdraw

(* Every step of the contract is a step of the abstract escrow, or none.    *)
LEMMA NextLedger ==
  ASSUME IInv, [Next]_vars
  PROVE  [Ledger!Next]_(Ledger!ledger)
<1>0. IInv'
  BY NextIInv
<1>1. CASE UNCHANGED <<offerings, subscriptions, pendingWithdrawals, balance>>
  BY <1>1, OfferingKeepsLedger
<1>2. CASE OwnerNext
  <2>1. CASE \E k \in SubscriptionIds, outcome \in {"PROVIDER_WINS", "SUBSCRIBER_WINS", "SPLIT"},
                p, s \in Awards : ResolveDisputeDetailed(k, outcome, p, s)
    BY <1>0, <2>1, ResolveMove DEF Ledger!Next
  <2>. QED
    BY <1>1, <1>2, <2>1
       DEF OwnerNext, SetProtocolFee, SetProtocolTreasury, SetDisputeArbitration
<1>3. CASE ProviderNext
  BY <1>3, ProviderKeepsLedger
<1>4. CASE \E user \in Subscribers, o \in OfferingIds, n \in 1..MaxPeriods :
              Subscribe(user, o, n)
  <2>1. PICK user \in Subscribers, o \in OfferingIds, n \in 1..MaxPeriods :
              Subscribe(user, o, n)
    BY <1>4
  <2>2. Ledger!Move(<<user, o>>) /\ <<user, o>> \in SubscriptionIds
    BY <1>0, <2>1, SubscribeMove DEF SubscriptionIds
  <2>. QED
    BY <2>2 DEF Ledger!Next
<1>5. CASE \E k \in SubscriptionIds, amount \in TopUps : TopUp(k, amount)
  BY <1>0, <1>5, TopUpMove DEF Ledger!Next
<1>6. CASE \E k \in SubscriptionIds : Cancel(k)
  <2>1. PICK k \in SubscriptionIds : Cancel(k)
    BY <1>6
  <2>2. Ends(k)
    BY <2>1, CancelStep
  <2>3. Ledger!Move(k)
    BY <1>0, <2>1, <2>2, RefundMove DEF Cancel
  <2>. QED
    BY <2>3 DEF Ledger!Next
<1>7. CASE \E k \in SubscriptionIds, value \in DisputeFees, accepted \in BOOLEAN :
              DisputeSubscription(k, value, accepted)
  BY <1>7, DisputeKeepsLedger
<1>8. CASE \E k \in SubscriptionIds : RenewSubscription(k) \/ ClaimDisputeTimeout(k)
  <2>1. PICK k \in SubscriptionIds : RenewSubscription(k) \/ ClaimDisputeTimeout(k)
    BY <1>8
  <2>2. CASE RenewSubscription(k) /\ Renew(k)
    BY <1>0, <2>2, RenewMove DEF Ledger!Next
  <2>3. CASE RenewSubscription(k) /\ Expire(k)
    <3>1. Ends(k)
      BY <2>3, ExpireStep
    <3>2. Ledger!Move(k)
      BY <1>0, <2>3, <3>1, RefundMove DEF Expire, RenewSubscription
    <3>. QED
      BY <3>2 DEF Ledger!Next
  <2>4. CASE ClaimDisputeTimeout(k)
    <3>1. Ends(k)
      BY <2>4, ClaimStep
    <3>2. Ledger!Move(k)
      BY <1>0, <2>4, <3>1, RefundMove DEF ClaimDisputeTimeout
    <3>. QED
      BY <3>2 DEF Ledger!Next
  <2>. QED
    BY <2>1, <2>2, <2>3, <2>4 DEF RenewSubscription
<1>9. CASE \E user \in Users, tok \in Tokens : Withdraw(user, tok)
  BY <1>9, WithdrawPays DEF Ledger!Next
<1>. QED
  BY <1>1, <1>2, <1>3, <1>4, <1>5, <1>6, <1>7, <1>8, <1>9
     DEF Next, SubscriberNext, Tick, vars

LEMMA InitLedger == Init => Ledger!Init
<1> SUFFICES ASSUME Init PROVE Ledger!Init
  OBVIOUS
<1>1. \A j \in SubscriptionIds, t \in Tokens : LockedIn(j, t) = 0
  BY DEF Init, LockedIn, Remaining, NoSubscription
<1>. QED
  BY <1>1 DEF Ledger!Init, Init

(* The contract implements the pull-payment escrow, fees, awards, refunds   *)
(* and dispute fees included.                                               *)
THEOREM LedgerImplemented == Spec => ImplementsLedger
<1>1. IInv /\ [Next]_vars => [Ledger!Next]_(Ledger!ledger)
  BY NextLedger
<1>. QED
  BY <1>1, InitLedger, Invariance, PTL DEF Spec, ImplementsLedger, Ledger!Spec

LEMMA IdsFinite == Ledger!IsFiniteSet(SubscriptionIds) /\ Ledger!IsFiniteSet(Users)
<1>1. IsFiniteSet(OfferingIds)
  BY FS_Interval, TimeAssumption DEF OfferingIds
<1>2. IsFiniteSet(SubscriptionIds) /\ IsFiniteSet(Users)
  BY <1>1, FS_Product, FS_Subset, UsersAssumption DEF SubscriptionIds
<1>3. \A S : IsFiniteSet(S) => Ledger!IsFiniteSet(S)
  BY DEF IsFiniteSet, Ledger!IsFiniteSet
<1>. QED
  BY <1>2, <1>3

(* The contract is solvent in every token: what it holds is exactly the     *)
(* unspent deposits and the credits not yet withdrawn.                      *)
THEOREM SolvencyHolds == Spec => []Solvency
<1>1. Init => Solvency
  BY InitLedger, IdsFinite, Ledger!InitBacked DEF Solvency
<1>2. IInv /\ Solvency /\ [Next]_vars => Solvency'
  <2> SUFFICES ASSUME IInv, Solvency, [Next]_vars PROVE Solvency'
    OBVIOUS
  <2>1. [Ledger!Next]_(Ledger!ledger)
    BY NextLedger
  <2>2. Ledger!LedgerType /\ Ledger!Backed
    BY LedgerTyped DEF Solvency
  <2>. QED
    BY <2>1, <2>2, IdsFinite, Ledger!StepBacked DEF Solvency
<1>. QED
  BY <1>1, <1>2, Invariance, PTL DEF Spec
===============================================================================
