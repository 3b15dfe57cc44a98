----------------------- MODULE ServiceAgreement_proofs -----------------------
(***************************************************************************)
(* Theorems about the hire escrow, for any accounts, tokens, prices and    *)
(* decisions, and whichever accounts refuse ETH.                           *)
(***************************************************************************)
EXTENDS ServiceAgreement, SumTheorems

USE DEF MAX_PROTOCOL_FEE_BPS, BPS_DENOMINATOR

(* Statuses before a dispute or a settlement: resolvedAt is not written.     *)
EarlyStatuses == {"PROPOSED", "ACCEPTED", "PENDING_VERIFICATION", "REVISED", "REVISION_REQUESTED"}

AgreementSound(a) ==
  /\ a > nextId => agreements[a] = NoAgreement
  /\ a <= nextId => agreements[a].client \in Users /\ agreements[a].provider \in Users
  /\ agreements[a].status \in EarlyStatuses => agreements[a].resolvedAt = 0

(* What is locked in all agreements, and what was paid out, per token. *)
LockedSum(t) == SumFunctionOnSet([a \in Ids |-> LockedIn(a, t)], Ids)
PaidSum(rc, t) == SumFunctionOnSet([u \in Users |-> rc[u][t]], Users)

(* The contract holds exactly the prices of the agreements not yet settled. *)
EscrowBacked == \A t \in Tokens : balance[t] = LockedSum(t)

IInv ==
  /\ TypeOK
  /\ \A a \in Ids : AgreementSound(a)
  /\ EscrowBacked

-----------------------------------------------------------------------------
(* Payments. *)
LEMMA IdsFinite == IsFiniteSet(Ids) /\ MaxAgreements \in Nat /\ IsFiniteSet(Users) /\ NoUser \notin Users
  BY AmountsAssumption, UsersAssumption, FS_Interval DEF Ids

LEMMA AgreementFacts ==
  ASSUME IInv, NEW a \in Ids
  PROVE  /\ agreements \in [Ids -> AgreementType] /\ agreements[a] \in AgreementType
         /\ AgreementSound(a) /\ a \in Nat /\ nextId \in Nat
         /\ agreements[a].price \in Nat /\ agreements[a].token \in Tokens
         /\ agreements[a].resolvedAt \in Nat /\ agreements[a].status \in Status
         /\ a <= nextId => agreements[a].client \in Users /\ agreements[a].provider \in Users
  BY IdsFinite, SMTT(30) DEF IInv, TypeOK, AgreementType, AgreementSound, Ids

LEMMA FeeBounded ==
  ASSUME NEW amount \in Nat, IInv
  PROVE  ProtocolFee(amount) \in 0..amount /\ (ProtocolFee(amount) = 0 \/ protocolTreasury \in Users)
<1>1. protocolFeeBps \in 0..100 /\ protocolTreasury \in Users \cup {NoUser}
  BY DEF IInv, TypeOK
<1>2. amount * protocolFeeBps \in 0..(amount * 100)
  BY <1>1
<1>3. (amount * protocolFeeBps) \div 10000 \in 0..amount
  BY <1>2
<1>. QED  BY <1>1, <1>3 DEF ProtocolFee

(* A decision pays out exactly what it splits, whatever the fee rounds to.   *)
LEMMA PayoutSum ==
  ASSUME IInv, NEW a \in Ids, a <= nextId, NEW d, d.toProvider \in Nat, d.toClient \in Nat,
         d.withFee \in BOOLEAN
  PROVE  /\ Payout(a, d) \in [Users -> Nat]
         /\ SumFunction(Payout(a, d)) = d.toProvider + d.toClient
<1>. DEFINE fee == IF d.withFee THEN ProtocolFee(d.toProvider) ELSE 0
            tr == protocolTreasury
            pr == agreements[a].provider
            cl == agreements[a].client
<1>1. fee \in 0..d.toProvider /\ (tr \in Users \/ fee = 0) /\ pr \in Users /\ cl \in Users
  BY AgreementFacts, FeeBounded
<1>. PICK x \in Nat : x = fee
  BY <1>1
<1>. PICK y \in Nat : y = d.toProvider - fee
  BY <1>1
<1>. PICK z \in Nat : z = d.toClient
  OBVIOUS
<1>2. x + y = d.toProvider
  BY <1>1
<1>3. Payout(a, d) = [u \in Users |-> (IF u = tr THEN x ELSE 0) + (IF u = pr THEN y ELSE 0)
                                         + (IF u = cl THEN z ELSE 0)]
  BY DEF Payout
<1>. DEFINE f == [u \in Users |-> IF u = tr THEN x ELSE 0]
            g == [u \in Users |-> IF u = pr THEN y ELSE 0]
            h == [u \in Users |-> IF u = cl THEN z ELSE 0]
            fg == [u \in Users |-> f[u] + g[u]]
            p == Payout(a, d)
<1>4. /\ SumFunctionOnSet(f, Users) = x
      /\ SumFunctionOnSet(g, Users) = y
      /\ SumFunctionOnSet(h, Users) = z
  <2>1. (tr \in Users \/ x = 0) /\ pr \in Users /\ cl \in Users /\ IsFiniteSet(Users)
    BY <1>1, IdsFinite
  <2>2. x \in Int /\ y \in Int /\ z \in Int
    OBVIOUS
  <2>. HIDE DEF fee, tr, pr, cl
  <2>3. SumFunctionOnSet(f, Users) = x
    BY <2>1, <2>2, SumPoint
  <2>4. SumFunctionOnSet(g, Users) = y
    BY <2>1, <2>2, SumPoint
  <2>5. SumFunctionOnSet(h, Users) = z
    BY <2>1, <2>2, SumPoint
  <2>. QED  BY <2>3, <2>4, <2>5
<1>5. \A u \in Users : /\ f[u] \in Nat /\ g[u] \in Nat /\ h[u] \in Nat
                       /\ fg[u] = f[u] + g[u] /\ fg[u] \in Nat
  BY <1>1
<1>6. \A u \in Users : p[u] = fg[u] + h[u]
  BY <1>3
<1>7. p \in [Users -> Nat]
  BY <1>3, <1>1
<1>8. SumFunction(p) = SumFunctionOnSet(p, Users)
  BY <1>7 DEF SumFunction
<1>. HIDE DEF f, g, h, fg, p, fee, tr, pr, cl
<1>9. SumFunctionOnSet(fg, Users) = x + y
  <2>1. \A u \in Users : f[u] \in Int /\ g[u] \in Int /\ fg[u] = f[u] + g[u]
    BY <1>5
  <2>2. SumFunctionOnSet(fg, Users) = SumFunctionOnSet(f, Users) + SumFunctionOnSet(g, Users)
    BY <2>1, SumAdd, IdsFinite
  <2>. QED  BY <1>4, <2>2
<1>10. SumFunctionOnSet(p, Users) = x + y + z
  <2>1. \A u \in Users : fg[u] \in Int /\ h[u] \in Int /\ p[u] = fg[u] + h[u]
    BY <1>5, <1>6
  <2>2. SumFunctionOnSet(p, Users) = SumFunctionOnSet(fg, Users) + SumFunctionOnSet(h, Users)
    BY <2>1, SumAdd, IdsFinite
  <2>. QED  BY <1>4, <1>9, <2>2
<1>. QED  BY <1>2, <1>7, <1>8, <1>10 DEF p

LEMMA PaidType ==
  ASSUME NEW rc \in [Users -> [Tokens -> Nat]], NEW t \in Tokens
  PROVE  PaidSum(rc, t) \in Nat
<1> DEFINE f == [u \in Users |-> rc[u][t]]
<1>1. (\A u \in Users : f[u] \in Nat) /\ PaidSum(rc, t) = SumFunctionOnSet(f, Users)
  BY DEF PaidSum
<1>. HIDE DEF f
<1>. QED  BY <1>1, SumNat, IdsFinite

LEMMA LockedTypes ==
  agreements \in [Ids -> AgreementType] =>
    /\ \A a \in Ids, t \in Tokens : LockedIn(a, t) \in Nat
    /\ \A t \in Tokens : LockedSum(t) \in Nat /\ \A a \in Ids : LockedIn(a, t) <= LockedSum(t)
<1> HAVE agreements \in [Ids -> AgreementType]
<1>1. \A a \in Ids, t \in Tokens : LockedIn(a, t) \in Nat
  BY DEF LockedIn, AgreementType
<1>2. ASSUME NEW t \in Tokens
      PROVE  LockedSum(t) \in Nat /\ \A a \in Ids : LockedIn(a, t) <= LockedSum(t)
  <2> DEFINE f == [z \in Ids |-> LockedIn(z, t)]
  <2>1. \A z \in Ids : f[z] \in Nat /\ f[z] = LockedIn(z, t)
    BY <1>1
  <2>2. LockedSum(t) = SumFunctionOnSet(f, Ids)
    BY DEF LockedSum
  <2>. HIDE DEF f
  <2>. QED  BY <2>1, <2>2, SumNat, IdsFinite
<1>. QED  BY <1>1, <1>2

-----------------------------------------------------------------------------
(* What a call on one agreement writes. *)
Terms(x, y) ==
  /\ x.client = y.client
  /\ x.provider = y.provider
  /\ x.price = y.price
  /\ x.token = y.token
  /\ x.deadline = y.deadline

Rewrites(a) ==
  /\ a <= nextId /\ ~Settled(a)
  /\ agreements' \in [Ids -> AgreementType]
  /\ \A z \in Ids : z # a => agreements'[z] = agreements[z]
  /\ Terms(agreements'[a], agreements[a])
  /\ agreements'[a].status \in EarlyStatuses => agreements'[a].resolvedAt = 0
  /\ UNCHANGED <<now, nextId, config>>

(* Either no money moves, or exactly the price is paid out. *)
Stays(a) == Rewrites(a) /\ ~Settled(a)' /\ UNCHANGED <<balance, received>>

PaysOut(a) ==
  /\ Rewrites(a)
  /\ Settled(a)'
  /\ balance' = [balance EXCEPT ![agreements[a].token] = @ - agreements[a].price]
  /\ received' \in [Users -> [Tokens -> Nat]]
  /\ \A t \in Tokens :
       /\ PaidSum(received', t) = PaidSum(received, t)
                                    + (IF agreements[a].token = t THEN agreements[a].price ELSE 0)
       /\ \A u \in Users : received'[u][t] >= received[u][t]

LEMMA RewriteOne ==
  ASSUME IInv, NEW a \in Ids, a <= nextId, ~Settled(a), NEW st \in Status, NEW at \in Nat,
         NEW we \in Nat, st \in EarlyStatuses => at = 0,
         agreements' = [agreements EXCEPT ![a].status = st, ![a].resolvedAt = at,
                                          ![a].verifyWindowEnd = we],
         UNCHANGED <<now, nextId, config>>
  PROVE  Rewrites(a) /\ agreements'[a].status = st /\ agreements'[a].resolvedAt = at
<1>. DEFINE r == [agreements[a] EXCEPT !.status = st, !.resolvedAt = at, !.verifyWindowEnd = we]
<1>1. agreements \in [Ids -> AgreementType] /\ agreements[a] \in AgreementType
  BY AgreementFacts
<1>2. r \in AgreementType /\ r.status = st /\ r.resolvedAt = at /\ Terms(r, agreements[a])
  BY <1>1 DEF AgreementType, Terms
<1>3. agreements' = [agreements EXCEPT ![a] = r]
  BY <1>1
<1>. HIDE DEF r
<1>4. /\ agreements' \in [Ids -> AgreementType] /\ agreements'[a] = r
      /\ \A z \in Ids : z # a => agreements'[z] = agreements[z]
  BY <1>1, <1>2, <1>3, ZenonT(60)
<1>. QED  BY <1>2, <1>4 DEF Rewrites

LEMMA MoveStays ==
  ASSUME IInv, NEW a \in Ids, a <= nextId, ~Settled(a), NEW st \in Status, MoveTo(a, st),
         st \in EarlyStatuses \cup TerminalStatuses => agreements[a].resolvedAt = 0
  PROVE  Stays(a)
<1>1. agreements[a] \in AgreementType /\ agreements \in [Ids -> AgreementType]
  BY AgreementFacts
<1>. PICK at \in Nat : at = agreements[a].resolvedAt
  BY <1>1 DEF AgreementType
<1>. PICK we \in Nat : we = agreements[a].verifyWindowEnd
  BY <1>1 DEF AgreementType
<1>2. agreements' = [agreements EXCEPT ![a].status = st, ![a].resolvedAt = at,
                                       ![a].verifyWindowEnd = we]
  BY <1>1 DEF MoveTo, AgreementType
<1>3. Rewrites(a) /\ agreements'[a].status = st /\ agreements'[a].resolvedAt = at
  <2>1. (st \in EarlyStatuses => at = 0) /\ UNCHANGED <<now, nextId, config>>
    BY DEF MoveTo
  <2>. QED  BY <1>2, <2>1, RewriteOne, ZenonT(60)
<1>. QED  BY <1>3 DEF Stays, Settled, MoveTo

LEMMA SettlePays ==
  ASSUME IInv, NEW a \in Ids, a <= nextId, ~Settled(a), NEW d, d.status \in TerminalStatuses,
         d.toProvider \in Nat, d.toClient \in Nat, d.withFee \in BOOLEAN,
         d.toProvider + d.toClient = agreements[a].price, Settle(a, d)
  PROVE  PaysOut(a)
<1>1. agreements[a] \in AgreementType /\ agreements \in [Ids -> AgreementType]
  BY AgreementFacts
<1>. PICK tok \in Tokens : tok = agreements[a].token
  BY AgreementFacts
<1>. PICK x \in Nat : x = agreements[a].price
  BY AgreementFacts
<1>. PICK we \in Nat : we = agreements[a].verifyWindowEnd
  BY <1>1 DEF AgreementType
<1>. PICK at \in Nat \ {0} : at = now
  BY DEF IInv, TypeOK
<1>. PICK st : st = d.status
  OBVIOUS
<1>2. st \in Status /\ st \notin EarlyStatuses /\ st \in TerminalStatuses
  BY DEF TerminalStatuses, Status, EarlyStatuses
<1>3. agreements' = [agreements EXCEPT ![a].status = st, ![a].resolvedAt = at,
                                       ![a].verifyWindowEnd = we]
  BY <1>1 DEF Settle, AgreementType
<1>4. UNCHANGED <<now, nextId, config>>
  BY DEF Settle
<1>5. Rewrites(a) /\ agreements'[a].status = st /\ agreements'[a].resolvedAt = at
  BY <1>2, <1>3, <1>4, RewriteOne, ZenonT(60)
<1>6. Payout(a, d) \in [Users -> Nat] /\ SumFunction(Payout(a, d)) = x
  BY PayoutSum
<1>. PICK out \in [Users -> Nat] : out = Payout(a, d) /\ SumFunction(out) = x
  BY <1>6
<1>7. /\ balance' = [balance EXCEPT ![tok] = @ - x]
      /\ received' = [u \in Users |-> [received[u] EXCEPT ![tok] = @ + out[u]]]
  BY DEF Settle
<1>8. received \in [Users -> [Tokens -> Nat]]
  BY DEF IInv, TypeOK
<1>9. /\ received' \in [Users -> [Tokens -> Nat]]
      /\ \A t \in Tokens, u \in Users :
           received'[u][t] = received[u][t] + (IF t = tok THEN out[u] ELSE 0)
  BY <1>7, <1>8
<1>10. SumFunctionOnSet(out, Users) = x
  BY DEF SumFunction
<1>11. ASSUME NEW t \in Tokens
       PROVE  PaidSum(received', t) = PaidSum(received, t) + (IF tok = t THEN x ELSE 0)
  <2> DEFINE f == [u \in Users |-> received[u][t]]
             h == [u \in Users |-> received'[u][t]]
  <2>1. \A u \in Users : f[u] \in Int /\ h[u] = f[u] + (IF t = tok THEN out[u] ELSE 0)
    BY <1>8, <1>9
  <2>2. PaidSum(received, t) = SumFunctionOnSet(f, Users)
          /\ PaidSum(received', t) = SumFunctionOnSet(h, Users)
    BY DEF PaidSum
  <2>3. \A u \in Users : out[u] \in Int
    OBVIOUS
  <2>. HIDE DEF f, h
  <2>4. SumFunctionOnSet(f, Users) \in Int
    BY <2>1, SumType, IdsFinite
  <2>5. CASE t = tok
    <3>1. \A u \in Users : f[u] \in Int /\ out[u] \in Int /\ h[u] = f[u] + out[u]
      BY <2>1, <2>3, <2>5
    <3>2. SumFunctionOnSet(h, Users) = SumFunctionOnSet(f, Users) + SumFunctionOnSet(out, Users)
      BY <3>1, SumAdd, IdsFinite
    <3>. QED  BY <1>10, <2>2, <2>5, <3>2
  <2>6. CASE t # tok
    <3>1. \A u \in Users : f[u] \in Int /\ h[u] = f[u]
      BY <2>1, <2>6
    <3>2. SumFunctionOnSet(h, Users) = SumFunctionOnSet(f, Users)
      BY <3>1, SumSame, IdsFinite
    <3>. QED  BY <2>2, <2>4, <2>6, <3>2
  <2>. QED  BY <2>5, <2>6
<1>12. \A t \in Tokens, u \in Users : received'[u][t] >= received[u][t]
  <2>1. \A t \in Tokens, u \in Users : received[u][t] \in Nat /\ out[u] \in Nat
    BY <1>8
  <2>. QED  BY <1>9, <2>1
<1>. QED  BY <1>2, <1>5, <1>7, <1>9, <1>11, <1>12 DEF PaysOut, Settled

-----------------------------------------------------------------------------
(* The calls on one agreement. *)
LEMMA OpenStatus ==
  ASSUME IInv, NEW a \in Ids, NEW S, Is(a, S), S \cap TerminalStatuses = {}
  PROVE  /\ a <= nextId /\ ~Settled(a) /\ agreements[a].status \in S
         /\ agreements[a].status \in EarlyStatuses => agreements[a].resolvedAt = 0
  BY AgreementFacts DEF Is, Settled, AgreementSound

LEMMA PayProviderPays ==
  ASSUME IInv, NEW a \in Ids, a <= nextId, ~Settled(a), PayProvider(a)
  PROVE  PaysOut(a)
<1>. DEFINE d == [status |-> "FULFILLED", toProvider |-> agreements[a].price, toClient |-> 0,
                  withFee |-> TRUE]
<1>1. agreements[a].price \in Nat
  BY AgreementFacts
<1>2. /\ d.status \in TerminalStatuses /\ d.toProvider \in Nat /\ d.toClient \in Nat
      /\ d.withFee \in BOOLEAN /\ d.toProvider + d.toClient = agreements[a].price
  BY <1>1 DEF TerminalStatuses
<1>3. Settle(a, d)
  BY DEF PayProvider
<1>. HIDE DEF d
<1>. QED  BY <1>2, <1>3, SettlePays

LEMMA RefundClientPays ==
  ASSUME IInv, NEW a \in Ids, a <= nextId, ~Settled(a), RefundClient(a)
  PROVE  PaysOut(a)
<1>. DEFINE d == [status |-> "CANCELLED", toProvider |-> 0, toClient |-> agreements[a].price,
                  withFee |-> FALSE]
<1>1. agreements[a].price \in Nat
  BY AgreementFacts
<1>2. /\ d.status \in TerminalStatuses /\ d.toProvider \in Nat /\ d.toClient \in Nat
      /\ d.withFee \in BOOLEAN /\ d.toProvider + d.toClient = agreements[a].price
  BY <1>1 DEF TerminalStatuses
<1>3. Settle(a, d)
  BY DEF RefundClient
<1>. HIDE DEF d
<1>. QED  BY <1>2, <1>3, SettlePays

LEMMA DecisionPays ==
  ASSUME IInv, NEW a \in Ids, a <= nextId, ~Settled(a), NEW d \in Decisions(agreements[a].price),
         Settle(a, d)
  PROVE  PaysOut(a)
<1>1. agreements[a].price \in Nat
  BY AgreementFacts
<1>2. /\ d.status \in TerminalStatuses /\ d.withFee \in BOOLEAN
      /\ d.toProvider \in Nat /\ d.toClient \in Nat
      /\ d.toProvider + d.toClient = agreements[a].price
  <2>1. CASE d \in [status : {"FULFILLED"}, toProvider : {agreements[a].price}, toClient : {0},
                    withFee : BOOLEAN]
    BY <1>1, <2>1 DEF TerminalStatuses
  <2>2. CASE d \in [status : {"CANCELLED", "MUTUAL_CANCEL"}, toProvider : {0},
                    toClient : {agreements[a].price}, withFee : {FALSE}]
    <3>1. d.status \in TerminalStatuses /\ d.withFee \in BOOLEAN
      BY <2>2 DEF TerminalStatuses
    <3>2. d.toProvider = 0 /\ d.toClient = agreements[a].price
      BY <2>2
    <3>3. d.toProvider \in Nat /\ d.toClient \in Nat
             /\ d.toProvider + d.toClient = agreements[a].price
      BY <1>1, <3>2
    <3>. QED  BY <3>1, <3>3
  <2>3. CASE /\ d \in [status : {"PARTIAL_SETTLEMENT"}, toProvider : Awards,
                       toClient : {agreements[a].price - x : x \in Awards}, withFee : BOOLEAN]
             /\ d.toProvider + d.toClient = agreements[a].price /\ d.toClient >= 0
    <3>1. /\ d.status \in TerminalStatuses /\ d.withFee \in BOOLEAN
          /\ d.toProvider \in Awards
          /\ d.toProvider + d.toClient = agreements[a].price
      BY <2>3 DEF TerminalStatuses
    <3>2. PICK x \in Awards : d.toClient = agreements[a].price - x
      BY <2>3
    <3>3. d.toProvider \in Nat /\ x \in Nat
      BY <3>1, AmountsAssumption
    <3>4. d.toClient \in Nat
      <4>. PICK c : c = d.toClient
        OBVIOUS
      <4>1. c = agreements[a].price - x /\ c >= 0
        BY <2>3, <3>2
      <4>. QED  BY <1>1, <3>3, <4>1
    <3>. QED  BY <3>1, <3>3, <3>4
  <2>. QED  BY <2>1, <2>2, <2>3 DEF Decisions
<1>. QED  BY <1>2, SettlePays

LEMMA CommitStays ==
  ASSUME IInv, NEW a \in Ids, CommitDeliverable(a)
  PROVE  Stays(a)
<1>1. agreements[a] \in AgreementType /\ agreements \in [Ids -> AgreementType]
  BY AgreementFacts
<1>2. a <= nextId /\ ~Settled(a) /\ agreements[a].resolvedAt = 0
  BY OpenStatus DEF CommitDeliverable, TerminalStatuses, EarlyStatuses
<1>. PICK we \in Nat : we = now + VERIFY_WINDOW
  BY AmountsAssumption DEF IInv, TypeOK
<1>3. agreements' = [agreements EXCEPT ![a].status = "PENDING_VERIFICATION", ![a].resolvedAt = 0,
                                       ![a].verifyWindowEnd = we]
  BY <1>1, <1>2 DEF CommitDeliverable, AgreementType
<1>. PICK st \in Status : st = "PENDING_VERIFICATION"
  BY DEF Status
<1>. PICK at \in Nat : at = 0
  OBVIOUS
<1>4. UNCHANGED <<now, nextId, config>> /\ UNCHANGED <<balance, received>>
  BY DEF CommitDeliverable
<1>5. Rewrites(a) /\ agreements'[a].status = st
  BY <1>2, <1>3, <1>4, RewriteOne
<1>. QED  BY <1>4, <1>5 DEF Stays, Settled, TerminalStatuses

LEMMA DisputeStays ==
  ASSUME IInv, NEW a \in Ids, OpenFormalDispute(a)
  PROVE  Stays(a)
<1>1. agreements[a] \in AgreementType /\ agreements \in [Ids -> AgreementType]
  BY AgreementFacts
<1>2. a <= nextId /\ ~Settled(a)
  BY OpenStatus DEF OpenFormalDispute, DisputableStatuses, RevisableStatuses, TerminalStatuses
<1>. PICK we \in Nat : we = agreements[a].verifyWindowEnd
  BY <1>1 DEF AgreementType
<1>. PICK at \in Nat : at = IF agreements[a].resolvedAt = 0 THEN now ELSE agreements[a].resolvedAt
  BY <1>1 DEF AgreementType, IInv, TypeOK
<1>3. agreements' = [agreements EXCEPT ![a].status = "DISPUTED", ![a].resolvedAt = at,
                                       ![a].verifyWindowEnd = we]
  BY <1>1 DEF OpenFormalDispute, AgreementType
<1>4. /\ "DISPUTED" \in Status \ EarlyStatuses
      /\ UNCHANGED <<now, nextId, balance, received, config>>
  BY DEF Status, EarlyStatuses, OpenFormalDispute
<1>5. Rewrites(a) /\ agreements'[a].status = "DISPUTED"
  BY <1>2, <1>3, <1>4, RewriteOne, ZenonT(60)
<1>. QED  BY <1>4, <1>5 DEF Stays, Settled, TerminalStatuses

HumanReview(a) ==
  \E time \in {now, agreements[a].resolvedAt} :
    /\ agreements' = [agreements EXCEPT
         ![a].status = "ESCALATED_TO_HUMAN", ![a].resolvedAt = time]
    /\ UNCHANGED <<now, nextId, balance, received, config>>

LEMMA HumanStays ==
  ASSUME IInv, NEW a \in Ids, Is(a, DisputeStatuses), HumanReview(a)
  PROVE  Stays(a)
<1>1. agreements[a] \in AgreementType /\ agreements \in [Ids -> AgreementType]
  BY AgreementFacts
<1>2. a <= nextId /\ ~Settled(a)
  BY OpenStatus DEF DisputeStatuses, TerminalStatuses
<1>. PICK we \in Nat : we = agreements[a].verifyWindowEnd
  BY <1>1 DEF AgreementType
<1>6. PICK at \in Nat : agreements' = [agreements EXCEPT
                           ![a].status = "ESCALATED_TO_HUMAN", ![a].resolvedAt = at]
  BY <1>1 DEF AgreementType, IInv, TypeOK, HumanReview
<1>. at \in Nat
  BY <1>6
<1>3. agreements' = [agreements EXCEPT ![a].status = "ESCALATED_TO_HUMAN", ![a].resolvedAt = at,
                                       ![a].verifyWindowEnd = we]
  BY <1>1, <1>6 DEF AgreementType
<1>4. /\ "ESCALATED_TO_HUMAN" \in Status \ EarlyStatuses
      /\ UNCHANGED <<now, nextId, balance, received, config>>
  BY DEF Status, EarlyStatuses, HumanReview
<1>5. Rewrites(a) /\ agreements'[a].status = "ESCALATED_TO_HUMAN"
  BY <1>2, <1>3, <1>4, RewriteOne, ZenonT(60)
<1>. QED  BY <1>4, <1>5 DEF Stays, Settled, TerminalStatuses

LEMMA HireStep ==
  ASSUME IInv, NEW a \in Ids, HireNext(a)
  PROVE  Stays(a) \/ PaysOut(a)
<1>. USE DEF TerminalStatuses, EarlyStatuses
<1>1. CASE Accept(a)
  <2>1. a <= nextId /\ ~Settled(a) /\ agreements[a].resolvedAt = 0
    BY <1>1, OpenStatus DEF Accept
  <2>. QED  BY <1>1, <2>1, MoveStays DEF Accept, Status
<1>2. CASE CommitDeliverable(a)
  BY <1>2, CommitStays
<1>3. CASE Fulfill(a) \/ VerifyDeliverable(a) \/ AutoRelease(a)
  <2>1. a <= nextId /\ ~Settled(a)
    BY <1>3, OpenStatus DEF Fulfill, VerifyDeliverable, AutoRelease
  <2>. QED  BY <1>3, <2>1, PayProviderPays DEF Fulfill, VerifyDeliverable, AutoRelease
<1>4. CASE Cancel(a) \/ ExpiredCancel(a)
  <2>1. a <= nextId /\ ~Settled(a)
    BY <1>4, OpenStatus DEF Cancel, ExpiredCancel
  <2>. QED  BY <1>4, <2>1, RefundClientPays DEF Cancel, ExpiredCancel
<1>. QED  BY <1>1, <1>2, <1>3, <1>4 DEF HireNext

LEMMA DisputeStep ==
  ASSUME IInv, NEW a \in Ids, DisputeNext(a)
  PROVE  Stays(a) \/ PaysOut(a)
<1>. USE DEF TerminalStatuses, EarlyStatuses, DisputeStatuses, RevisableStatuses,
             DisputableStatuses
<1>1. CASE RequestRevision(a)
  <2>1. a <= nextId /\ ~Settled(a) /\ agreements[a].resolvedAt = 0
    BY <1>1, OpenStatus DEF RequestRevision
  <2>. QED  BY <1>1, <2>1, MoveStays DEF RequestRevision, Status
<1>2. CASE RespondToRevision(a)
  <2>1. a <= nextId /\ ~Settled(a) /\ agreements[a].resolvedAt = 0
    BY <1>2, OpenStatus DEF RespondToRevision
  <2>2. ASSUME NEW response \in RevisionResponses, MoveTo(a, response) PROVE Stays(a)
    <3>1. response \in Status
      BY DEF RevisionResponses, Status
    <3>. QED  BY <2>1, <2>2, <3>1, MoveStays
  <2>. QED  BY <1>2, <2>2, DisputeStays DEF RespondToRevision
<1>3. CASE OpenFormalDispute(a)
  BY <1>3, DisputeStays
<1>4. CASE NominateArbitrator(a) \/ RequestHumanEscalation(a)
  <2>1. a <= nextId /\ ~Settled(a)
    BY <1>4, OpenStatus DEF NominateArbitrator, RequestHumanEscalation
  <2>. QED  BY <1>4, <2>1, MoveStays DEF NominateArbitrator, RequestHumanEscalation, Status
<1>5. CASE CastArbitrationVote(a)
  <2>1. a <= nextId /\ ~Settled(a)
    BY <1>5, OpenStatus DEF CastArbitrationVote
  <2>2. MoveTo(a, "ESCALATED_TO_HUMAN") => Stays(a)
    BY <2>1, MoveStays DEF Status
  <2>. QED  BY <1>5, <2>1, <2>2, DecisionPays DEF CastArbitrationVote
<1>6. CASE OwnerResolveDispute(a)
  <2>1. a <= nextId /\ ~Settled(a)
    BY <1>6, OpenStatus DEF OwnerResolveDispute
  <2>. QED  BY <1>6, <2>1, DecisionPays DEF OwnerResolveDispute
<1>7. CASE ResolveDisputeDetailed(a)
  <2>1. a <= nextId /\ ~Settled(a) /\ Is(a, DisputeStatuses)
    BY <1>7, OpenStatus DEF ResolveDisputeDetailed
  <2>. QED  BY <1>7, <2>1, DecisionPays, HumanStays DEF ResolveDisputeDetailed, HumanReview
<1>8. CASE ExpiredDisputeRefund(a)
  <2>1. a <= nextId /\ ~Settled(a)
    BY <1>8, OpenStatus DEF ExpiredDisputeRefund
  <2>. QED  BY <1>8, <2>1, RefundClientPays DEF ExpiredDisputeRefund
<1>. QED  BY <1>1, <1>2, <1>3, <1>4, <1>5, <1>6, <1>7, <1>8 DEF DisputeNext

-----------------------------------------------------------------------------
(* What a call on one agreement leaves behind. *)
LEMMA RewritesKeep ==
  ASSUME IInv, NEW a \in Ids, Rewrites(a)
  PROVE  \A z \in Ids : /\ AgreementSound(z)'
                        /\ z # a => \A t \in Tokens : LockedIn(z, t)' = LockedIn(z, t)
<1>1. \A z \in Ids : AgreementSound(z) /\ z \in Nat
  BY AgreementFacts
<1>2. AgreementSound(a)'
  BY <1>1, AgreementFacts DEF Rewrites, Terms, AgreementSound
<1>3. ASSUME NEW z \in Ids, z # a
      PROVE  AgreementSound(z)' /\ \A t \in Tokens : LockedIn(z, t)' = LockedIn(z, t)
  <2>1. agreements'[z] = agreements[z] /\ nextId' = nextId
    BY <1>3 DEF Rewrites
  <2>. QED  BY <1>1, <2>1 DEF AgreementSound, LockedIn, Settled
<1>. QED  BY <1>2, <1>3

LEMMA TypedFrom ==
  ASSUME IInv, UNCHANGED <<now, nextId, config>>, agreements' \in [Ids -> AgreementType],
         balance' \in [Tokens -> Nat], received' \in [Users -> [Tokens -> Nat]]
  PROVE  TypeOK'
  BY DEF IInv, TypeOK, config

LEMMA StaysKeeps ==
  ASSUME IInv, NEW a \in Ids, Stays(a)
  PROVE  IInv' /\ \A z \in Ids, t \in Tokens : LockedIn(z, t)' = LockedIn(z, t)
<1>1. \A t \in Tokens : LockedIn(a, t)' = LockedIn(a, t)
  BY DEF Stays, Rewrites, Terms, LockedIn
<1>2. \A z \in Ids, t \in Tokens : LockedIn(z, t)' = LockedIn(z, t)
  BY <1>1, RewritesKeep DEF Stays
<1>3. EscrowBacked'
  BY <1>2 DEF EscrowBacked, LockedSum, Stays, IInv
<1>4. TypeOK'
  BY TypedFrom DEF Stays, Rewrites, IInv, TypeOK
<1>. QED  BY <1>2, <1>3, <1>4, RewritesKeep DEF Stays, IInv

LEMMA PaysOutLocked ==
  ASSUME IInv, NEW a \in Ids, PaysOut(a), NEW t \in Tokens
  PROVE  /\ LockedIn(a, t) = (IF agreements[a].token = t THEN agreements[a].price ELSE 0)
         /\ LockedIn(a, t)' = 0
         /\ \A z \in Ids : z # a => LockedIn(z, t)' = LockedIn(z, t)
         /\ LockedSum(t)' = LockedSum(t) - LockedIn(a, t)
<1>1. /\ LockedIn(a, t) = (IF agreements[a].token = t THEN agreements[a].price ELSE 0)
      /\ LockedIn(a, t)' = 0
  BY DEF PaysOut, Rewrites, LockedIn
<1>2. \A z \in Ids : z # a => LockedIn(z, t)' = LockedIn(z, t)
  BY RewritesKeep DEF PaysOut
<1> DEFINE f == [z \in Ids |-> LockedIn(z, t)]
           g == [z \in Ids |-> LockedIn(z, t)']
<1>3. \A z \in Ids : LockedIn(z, t) \in Nat
  BY LockedTypes DEF IInv, TypeOK
<1>4. /\ \A z \in Ids : f[z] \in Int /\ g[z] \in Int
      /\ \A z \in Ids \ {a} : g[z] = f[z]
      /\ f[a] = LockedIn(a, t) /\ g[a] = 0
  BY <1>1, <1>2, <1>3
<1>5. LockedSum(t) = SumFunctionOnSet(f, Ids) /\ LockedSum(t)' = SumFunctionOnSet(g, Ids)
  BY DEF LockedSum
<1>. HIDE DEF f, g
<1>6. SumFunctionOnSet(g, Ids) = SumFunctionOnSet(f, Ids) - f[a] + g[a]
  BY <1>4, SumChange, IdsFinite
<1>7. LockedSum(t)' = LockedSum(t) - LockedIn(a, t)
  <2>1. SumFunctionOnSet(f, Ids) \in Int /\ f[a] \in Int
    BY <1>4, SumType, IdsFinite
  <2>. QED  BY <1>4, <1>5, <1>6, <2>1
<1>. QED  BY <1>1, <1>2, <1>7

LEMMA PaysOutKeeps ==
  ASSUME IInv, NEW a \in Ids, PaysOut(a)
  PROVE  IInv'
<1>. PICK tok \in Tokens : tok = agreements[a].token
  BY AgreementFacts
<1>. PICK x \in Nat : x = agreements[a].price
  BY AgreementFacts
<1>1. balance \in [Tokens -> Nat] /\ balance' = [balance EXCEPT ![tok] = @ - x]
  BY DEF PaysOut, IInv, TypeOK
<1>2. \A t \in Tokens : /\ LockedIn(a, t) = (IF tok = t THEN x ELSE 0)
                        /\ LockedIn(a, t) <= LockedSum(t) /\ LockedSum(t) \in Nat
                        /\ balance[t] = LockedSum(t)
                        /\ LockedSum(t)' = LockedSum(t) - LockedIn(a, t)
  BY PaysOutLocked, LockedTypes DEF IInv, TypeOK, EscrowBacked
<1>3. x <= balance[tok]
  BY <1>2
<1>4. /\ balance' \in [Tokens -> Nat]
      /\ \A t \in Tokens : balance'[t] = balance[t] - (IF tok = t THEN x ELSE 0)
  BY <1>1, <1>3
<1>5. EscrowBacked'
  <2>1. \A t \in Tokens : balance'[t] = LockedSum(t)'
    BY <1>2, <1>4
  <2>. QED  BY <2>1 DEF EscrowBacked
<1>6. TypeOK'
  BY <1>4, TypedFrom DEF PaysOut, Rewrites
<1>. QED  BY <1>5, <1>6, RewritesKeep DEF PaysOut, IInv

LEMMA ProposeKeeps ==
  ASSUME IInv, NEW client \in Clients, NEW provider \in Providers, NEW price \in Prices,
         NEW tok \in Tokens, NEW deadline \in Deadlines,
         Propose(client, provider, price, tok, deadline)
  PROVE  /\ IInv'
         /\ nextId + 1 \in Ids
         /\ \A z \in Ids : z # nextId + 1 => agreements'[z] = agreements[z]
         /\ \A z \in Ids, t \in Tokens :
              LockedIn(z, t)' = LockedIn(z, t) + (IF z = nextId + 1 /\ t = tok THEN price ELSE 0)
         /\ balance' = [balance EXCEPT ![tok] = @ + price]
         /\ price \in Nat /\ UNCHANGED received
<1>. PICK n \in Ids : n = nextId + 1
  BY AmountsAssumption DEF Propose, IInv, TypeOK, Ids
<1>. PICK p \in Nat : p = price
  BY AmountsAssumption
<1>. DEFINE r == [client |-> client, provider |-> provider, price |-> p, token |-> tok,
                  deadline |-> deadline, status |-> "PROPOSED", resolvedAt |-> 0,
                  verifyWindowEnd |-> 0]
<1>1. client \in Users /\ provider \in Users /\ deadline \in Nat
  BY AmountsAssumption, UsersAssumption
<1>2. /\ r \in AgreementType /\ r.client = client /\ r.provider = provider /\ r.price = p
      /\ r.token = tok /\ r.status = "PROPOSED" /\ r.resolvedAt = 0
  BY <1>1 DEF AgreementType, Status
<1>3. /\ agreements' = [agreements EXCEPT ![n] = r] /\ nextId' = n
      /\ balance' = [balance EXCEPT ![tok] = @ + p]
      /\ UNCHANGED <<now, received, config>>
  BY DEF Propose
<1>. HIDE DEF r
<1>4. /\ agreements \in [Ids -> AgreementType]
      /\ \A z \in Ids : AgreementSound(z) /\ z \in Nat
      /\ nextId \in Nat /\ balance \in [Tokens -> Nat]
      /\ nextId \in 0..MaxAgreements /\ MaxAgreements \in Nat
  BY AgreementFacts, AmountsAssumption DEF IInv, TypeOK
<1>5. /\ agreements' \in [Ids -> AgreementType] /\ agreements'[n] = r
      /\ \A z \in Ids : z # n => agreements'[z] = agreements[z]
  BY <1>2, <1>3, <1>4
<1>6. AgreementSound(n)'
  BY <1>1, <1>2, <1>3, <1>4, <1>5 DEF AgreementSound
<1>7. \A z \in Ids : z # n => AgreementSound(z)'
  <2> SUFFICES ASSUME NEW z \in Ids, z # n PROVE AgreementSound(z)'
    OBVIOUS
  <2>1. (z > nextId' <=> z > nextId) /\ (z <= nextId' <=> z <= nextId)
    BY <1>3, <1>4
  <2>. QED  BY <1>4, <1>5, <2>1 DEF AgreementSound
<1>8. \A z \in Ids, t \in Tokens :
        LockedIn(z, t)' = LockedIn(z, t) + (IF z = n /\ t = tok THEN p ELSE 0)
  <2> SUFFICES ASSUME NEW z \in Ids, NEW t \in Tokens
               PROVE  LockedIn(z, t)' = LockedIn(z, t) + (IF z = n /\ t = tok THEN p ELSE 0)
    OBVIOUS
  <2>1. CASE z = n
    <3>1. agreements[n] = NoAgreement
      BY <1>4 DEF AgreementSound
    <3>2. LockedIn(n, t) = 0
      BY <3>1 DEF LockedIn, NoAgreement
    <3>3. LockedIn(n, t)' = IF t = tok THEN p ELSE 0
      BY <1>2, <1>5 DEF LockedIn, Settled
    <3>. QED  BY <2>1, <3>2, <3>3
  <2>2. CASE z # n
    <3>1. LockedIn(z, t) \in Nat
      BY <1>4, LockedTypes
    <3>2. LockedIn(z, t)' = LockedIn(z, t)
      BY <1>5, <2>2 DEF LockedIn, Settled
    <3>. QED  BY <2>2, <3>1, <3>2
  <2>. QED  BY <2>1, <2>2
<1>9. ASSUME NEW t \in Tokens
      PROVE  LockedSum(t)' = LockedSum(t) + (IF t = tok THEN p ELSE 0)
  <2> DEFINE f == [z \in Ids |-> LockedIn(z, t)]
             g == [z \in Ids |-> LockedIn(z, t)']
  <2>1. \A z \in Ids : LockedIn(z, t) \in Nat
    BY <1>4, LockedTypes
  <2>2. /\ f \in [Ids -> Nat] /\ g \in [Ids -> Nat]
        /\ \A z \in Ids \ {n} : g[z] = f[z]
        /\ g[n] = f[n] + (IF t = tok THEN p ELSE 0)
    BY <1>8, <2>1
  <2>3. LockedSum(t) = SumFunctionOnSet(f, Ids) /\ LockedSum(t)' = SumFunctionOnSet(g, Ids)
    BY DEF LockedSum
  <2>. HIDE DEF f, g
  <2>. PICK d \in Nat : d = IF t = tok THEN p ELSE 0
    OBVIOUS
  <2>4. SumFunctionOnSet(g, Ids) = SumFunctionOnSet(f, Ids) + d
    BY <2>2, SumRaise, IdsFinite, ZenonT(60)
  <2>. QED  BY <2>3, <2>4
<1>10. EscrowBacked'
  <2>1. \A t \in Tokens : balance'[t] = balance[t] + (IF t = tok THEN p ELSE 0)
    BY <1>3, <1>4
  <2>2. \A t \in Tokens : balance[t] = LockedSum(t)
    BY DEF IInv, EscrowBacked
  <2>3. \A t \in Tokens : balance'[t] = LockedSum(t)'
    BY <1>9, <2>1, <2>2
  <2>. QED  BY <2>3 DEF EscrowBacked
<1>11. TypeOK'
  <2>1. balance' \in [Tokens -> Nat] /\ nextId' \in 0..MaxAgreements
    BY <1>3, <1>4 DEF Ids
  <2>. QED  BY <1>3, <1>5, <2>1 DEF IInv, TypeOK, config
<1>. QED  BY <1>3, <1>5, <1>6, <1>7, <1>8, <1>10, <1>11 DEF IInv

(* The clock, the owner's and the guardian's configuration.                  *)
Idles == UNCHANGED <<agreements, nextId, balance, received>>

Configures == Tick \/ ConfigNext \/ UNCHANGED vars

LEMMA ConfigKeeps ==
  ASSUME IInv, Configures
  PROVE  IInv' /\ Idles /\ \A z, t : LockedIn(z, t)' = LockedIn(z, t)
<1>1. Idles
  BY DEF Configures, ConfigNext, Tick, SetAllowedToken, SetProtocolFee, SetProtocolTreasury,
         SetLegacyFulfill, Pause, vars, Idles
<1>2. /\ now' \in Nat \ {0}
      /\ allowedTokens' \subseteq Tokens
      /\ protocolFeeBps' \in 0..MAX_PROTOCOL_FEE_BPS
      /\ protocolTreasury' \in Users \cup {NoUser}
      /\ paused' \in BOOLEAN
      /\ legacyFulfill' \in BOOLEAN
  <2>1. TypeOK
    BY DEF IInv
  <2>2. CASE Tick \/ UNCHANGED vars
    BY <2>1, <2>2 DEF Tick, vars, config, TypeOK
  <2>3. ASSUME NEW tok \in Tokens, NEW allowed \in BOOLEAN, SetAllowedToken(tok, allowed)
        PROVE  <1>2!:
    BY <2>1, <2>3 DEF SetAllowedToken, TypeOK
  <2>4. ASSUME NEW bps \in FeeChoices, SetProtocolFee(bps) PROVE <1>2!:
    BY <2>1, <2>4, AmountsAssumption DEF SetProtocolFee, TypeOK
  <2>5. ASSUME NEW user \in Treasuries, SetProtocolTreasury(user) PROVE <1>2!:
    BY <2>1, <2>5, UsersAssumption DEF SetProtocolTreasury, TypeOK
  <2>6. ASSUME NEW enabled \in LegacyChoices, SetLegacyFulfill(enabled) PROVE <1>2!:
    BY <2>1, <2>6, AmountsAssumption DEF SetLegacyFulfill, TypeOK
  <2>7. ASSUME NEW pause \in PauseChoices, Pause(pause) PROVE <1>2!:
    BY <2>1, <2>7, AmountsAssumption DEF Pause, TypeOK
  <2>. QED  BY <2>2, <2>3, <2>4, <2>5, <2>6, <2>7 DEF Configures, ConfigNext
<1>3. TypeOK'
  BY <1>1, <1>2 DEF Idles, IInv, TypeOK
<1>4. /\ \A z, t : LockedIn(z, t)' = LockedIn(z, t)
      /\ \A z \in Ids : AgreementSound(z)'
  BY <1>1 DEF Idles, LockedIn, Settled, AgreementSound, IInv
<1>5. EscrowBacked'
  BY <1>1, <1>4 DEF EscrowBacked, LockedSum, Idles, IInv
<1>. QED  BY <1>1, <1>3, <1>4, <1>5 DEF IInv

LEMMA InitIInv == Init => IInv
<1> SUFFICES ASSUME Init PROVE IInv
  OBVIOUS
<1> USE AmountsAssumption, UsersAssumption
<1>1. NoAgreement \in AgreementType
  BY DEF NoAgreement, AgreementType, Status
<1>2. TypeOK
  <2>1. agreements \in [Ids -> AgreementType]
    BY <1>1 DEF Init
  <2>2. balance \in [Tokens -> Nat] /\ received \in [Users -> [Tokens -> Nat]]
    BY DEF Init
  <2>3. nextId \in 0..MaxAgreements /\ protocolFeeBps \in 0..MAX_PROTOCOL_FEE_BPS
    BY DEF Init
  <2>4. now \in Nat \ {0}
    BY DEF Init
  <2>5. allowedTokens \subseteq Tokens /\ protocolTreasury \in Users \cup {NoUser}
    BY DEF Init
  <2>6. paused \in BOOLEAN
    BY DEF Init
  <2>7. legacyFulfill \in BOOLEAN
    BY DEF Init
  <2>. QED  BY <2>1, <2>2, <2>3, <2>4, <2>5, <2>6, <2>7 DEF TypeOK
<1>3. \A a \in Ids : agreements[a] = NoAgreement /\ a > nextId /\ ~(a <= nextId)
  BY DEF Init, Ids
<1>4. \A a \in Ids : AgreementSound(a)
  BY <1>3 DEF AgreementSound, NoAgreement
<1>5. EscrowBacked
  <2> SUFFICES ASSUME NEW t \in Tokens PROVE balance[t] = LockedSum(t)
    BY DEF EscrowBacked
  <2> DEFINE f == [a \in Ids |-> LockedIn(a, t)]
  <2>1. \A a \in Ids : f[a] = 0
    BY <1>3 DEF LockedIn, NoAgreement
  <2>2. LockedSum(t) = SumFunctionOnSet(f, Ids)
    BY DEF LockedSum
  <2>. HIDE DEF f
  <2>3. LockedSum(t) = 0
    BY <2>1, <2>2, SumZero, IdsFinite
  <2>. QED  BY <2>3 DEF Init
<1>. QED  BY <1>2, <1>4, <1>5 DEF IInv

(* Every step is a configuration, a proposal, or a call on one agreement     *)
(* that moves no money or pays exactly its price out.                        *)
LEMMA StepKinds ==
  ASSUME IInv, [Next]_vars
  PROVE  \/ Configures
         \/ \E client \in Clients, provider \in Providers, price \in Prices, tok \in Tokens,
               deadline \in Deadlines : Propose(client, provider, price, tok, deadline)
         \/ \E a \in Ids : Stays(a) \/ PaysOut(a)
  BY HireStep, DisputeStep DEF Next, Configures

LEMMA NextIInv == IInv /\ [Next]_vars => IInv'
  BY StepKinds, ConfigKeeps, ProposeKeeps, StaysKeeps, PaysOutKeeps

-----------------------------------------------------------------------------
(* Theorems. *)

LEMMA InvHolds == Spec => []IInv
BY InitIInv, NextIInv, PTL DEF Spec

(* Type correctness, and the contract holds of each token exactly the prices *)
(* of the agreements that are not settled: no settlement reverts for want of *)
(* money, and nothing is left behind.                                        *)
THEOREM EscrowIsBacked == Spec => [](TypeOK /\ EscrowBacked)
<1>1. IInv => TypeOK /\ EscrowBacked
  BY DEF IInv
<1>. QED  BY <1>1, InvHolds, PTL

(* What a step may do to an agreement that exists, and to one that is        *)
(* settled.                                                                  *)
SettledStep ==
  \A a \in 1..nextId :
    /\ \A f \in {"client", "provider", "price", "token", "deadline"} :
         agreements'[a][f] = agreements[a][f]
    /\ Settled(a) => agreements'[a] = agreements[a]

LEMMA StepSettled == IInv /\ [Next]_vars => SettledStep
<1> SUFFICES ASSUME IInv, [Next]_vars, NEW a \in 1..nextId
             PROVE  /\ \A f \in {"client", "provider", "price", "token", "deadline"} :
                         agreements'[a][f] = agreements[a][f]
                    /\ Settled(a) => agreements'[a] = agreements[a]
  BY DEF SettledStep
<1>1. a \in Ids /\ a # nextId + 1
  <2>1. nextId \in 0..MaxAgreements /\ MaxAgreements \in Nat
    BY IdsFinite DEF IInv, TypeOK
  <2>. QED  BY <2>1 DEF Ids
<1>2. CASE Configures
  BY <1>2, ConfigKeeps DEF Idles
<1>3. ASSUME NEW client \in Clients, NEW provider \in Providers, NEW price \in Prices,
             NEW tok \in Tokens, NEW deadline \in Deadlines,
             Propose(client, provider, price, tok, deadline)
      PROVE  agreements'[a] = agreements[a]
  BY <1>1, <1>3, ProposeKeeps
<1>4. ASSUME NEW b \in Ids, Stays(b) \/ PaysOut(b)
      PROVE  /\ Terms(agreements'[a], agreements[a])
             /\ Settled(a) => agreements'[a] = agreements[a]
  <2>1. Rewrites(b)
    BY <1>4 DEF Stays, PaysOut
  <2>. QED  BY <1>1, <2>1 DEF Rewrites, Terms
<1>5. ASSUME Terms(agreements'[a], agreements[a])
      PROVE  \A f \in {"client", "provider", "price", "token", "deadline"} :
               agreements'[a][f] = agreements[a][f]
  BY <1>5 DEF Terms
<1>. QED  BY <1>2, <1>3, <1>4, <1>5, StepKinds

(* The terms of an agreement never change, and a settled one stays as it was *)
(* settled, so that no second settlement can pay it out again.               *)
THEOREM AgreementsSettleOnce == Spec => SettledOnce
<1>1. IInv /\ [Next]_vars => [SettledStep]_vars
  BY StepSettled
<1>2. Spec => [][SettledStep]_vars
  BY <1>1, InvHolds, PTL DEF Spec
<1>3. [][SettledStep]_vars => SettledOnce
  BY PTL DEF SettledOnce, SettledStep
<1>. QED  BY <1>2, <1>3, PTL

-----------------------------------------------------------------------------
(* The escrow of EscrowLedger: credit is what accounts were paid, and the    *)
(* vault is what the contract holds together with it.                        *)
Vault(t) == balance[t] + SumFunction([u \in Users |-> received[u][t]])

LEMMA LedgerTotal ==
  ASSUME NEW rc, NEW t, rc \in [Users -> [Tokens -> Nat]]
  PROVE  Ledger!Total(rc, t) = PaidSum(rc, t) /\ SumFunction([u \in Users |-> rc[u][t]]) = PaidSum(rc, t)
<1> DEFINE f == [u \in Users |-> rc[u][t]]
<1>1. Ledger!Total(rc, t) = Ledger!SumFunction(f) /\ DOMAIN f = Users
  BY DEF Ledger!Total
<1>2. PaidSum(rc, t) = SumFunctionOnSet(f, Users)
  BY DEF PaidSum
<1>. HIDE DEF f
<1>3. Ledger!SumFunction(f) = SumFunctionOnSet(f, DOMAIN f)
  BY DEF Ledger!SumFunction, Ledger!SumFunctionOnSet, Ledger!FoldFunctionOnSet,
         Ledger!MapThenFoldSet, SumFunctionOnSet, FoldFunctionOnSet, MapThenFoldSet
<1>4. SumFunction(f) = SumFunctionOnSet(f, DOMAIN f)
  BY DEF SumFunction
<1>. QED  BY <1>1, <1>2, <1>3, <1>4 DEF f

LEMMA VaultIs ==
  IInv => \A t \in Tokens : /\ Vault(t) = balance[t] + PaidSum(received, t)
                            /\ Vault(t) \in Nat /\ balance[t] \in Nat
                            /\ PaidSum(received, t) \in Nat
                            /\ Ledger!Total(received, t) = PaidSum(received, t)
<1> SUFFICES ASSUME IInv, NEW t \in Tokens
             PROVE  /\ Vault(t) = balance[t] + PaidSum(received, t)
                    /\ Vault(t) \in Nat /\ balance[t] \in Nat /\ PaidSum(received, t) \in Nat
                    /\ Ledger!Total(received, t) = PaidSum(received, t)
  OBVIOUS
<1>1. received \in [Users -> [Tokens -> Nat]] /\ balance[t] \in Nat
  BY DEF IInv, TypeOK
<1>2. PaidSum(received, t) \in Nat /\ Ledger!Total(received, t) = PaidSum(received, t)
        /\ SumFunction([u \in Users |-> received[u][t]]) = PaidSum(received, t)
  BY <1>1, PaidType, LedgerTotal
<1>. QED  BY <1>1, <1>2 DEF Vault

LEMMA LedgerTyped == IInv => Ledger!LedgerType
<1> SUFFICES ASSUME IInv PROVE Ledger!LedgerType
  OBVIOUS
<1>1. \A a \in Ids, t \in Tokens : LockedIn(a, t) \in Nat
  BY LockedTypes DEF IInv, TypeOK
<1>2. \A t \in Tokens : balance[t] + SumFunction([u \in Users |-> received[u][t]]) \in Int
  BY VaultIs DEF Vault
<1>. QED  BY <1>1, <1>2 DEF Ledger!LedgerType, IInv, TypeOK

(* A step that takes in an amount, locks it in an agreement and pays another *)
(* out of it, in one token, is a move of the abstract escrow.                *)
LEMMA MoveOfAmounts ==
  ASSUME IInv, IInv', NEW a \in Ids, NEW tok \in Tokens, NEW in \in Nat, NEW out \in Nat,
         \A z \in Ids, t \in Tokens :
            LockedIn(z, t)' = LockedIn(z, t) + (IF z = a /\ t = tok THEN in - out ELSE 0),
         \A t \in Tokens :
            /\ PaidSum(received', t) = PaidSum(received, t) + (IF t = tok THEN out ELSE 0)
            /\ \A u \in Users : received'[u][t] >= received[u][t]
            /\ balance'[t] = balance[t] + (IF t = tok THEN in - out ELSE 0)
  PROVE  Ledger!Move(a)
<1>1. Ledger!LedgerType'
  BY LedgerTyped, PTL
<1>2. \A z \in Ids, t \in Tokens : LockedIn(z, t) \in Nat
  BY LockedTypes DEF IInv, TypeOK
<1>3. \A z \in Ids \ {a} :
        [t \in Tokens |-> LockedIn(z, t)'] = [t \in Tokens |-> LockedIn(z, t)]
  BY <1>2
<1>4. /\ received \in [Users -> [Tokens -> Nat]]
      /\ received' \in [Users -> [Tokens -> Nat]]
      /\ balance \in [Tokens -> Nat] /\ balance' \in [Tokens -> Nat]
  BY DEF IInv, TypeOK
<1>5. ASSUME NEW t \in Tokens
      PROVE  /\ Vault(t) = balance[t] + PaidSum(received, t)
             /\ Vault(t)' = balance'[t] + PaidSum(received', t)
             /\ Ledger!Total(received, t) = PaidSum(received, t)
             /\ Ledger!Total(received', t) = PaidSum(received', t)
             /\ PaidSum(received, t) \in Nat
  BY <1>4, LedgerTotal, PaidType DEF Vault
<1>6. ASSUME NEW t \in Tokens
      PROVE  /\ Vault(t)' >= Vault(t)
             /\ Vault(t)' - Vault(t)
                  = (LockedIn(a, t)' - LockedIn(a, t))
                      + (Ledger!Total(received', t) - Ledger!Total(received, t))
  <2>1. /\ PaidSum(received', t) = PaidSum(received, t) + (IF t = tok THEN out ELSE 0)
        /\ balance'[t] = balance[t] + (IF t = tok THEN in - out ELSE 0)
        /\ LockedIn(a, t)' = LockedIn(a, t) + (IF t = tok THEN in - out ELSE 0)
        /\ LockedIn(a, t) \in Nat /\ balance[t] \in Nat
    BY <1>2, <1>4
  <2>. QED  BY <1>5, <2>1
<1>. QED  BY <1>1, <1>3, <1>6 DEF Ledger!Move, Vault

LEMMA InitLedger == Init => Ledger!Init
<1> SUFFICES ASSUME Init PROVE Ledger!Init
  OBVIOUS
<1>1. \A a \in Ids, t \in Tokens : LockedIn(a, t) = 0
  BY DEF Init, LockedIn, NoAgreement
<1>2. \A t \in Tokens : balance[t] + SumFunction([u \in Users |-> received[u][t]]) = 0
  <2> SUFFICES ASSUME NEW t \in Tokens PROVE Vault(t) = 0
    BY DEF Vault
  <2> DEFINE f == [u \in Users |-> received[u][t]]
  <2>1. (\A u \in Users : f[u] = 0) /\ PaidSum(received, t) = SumFunctionOnSet(f, Users)
    BY DEF Init, PaidSum
  <2>. HIDE DEF f
  <2>2. PaidSum(received, t) = 0
    BY <2>1, SumZero, IdsFinite
  <2>3. IInv
    BY InitIInv
  <2>. QED  BY <2>2, <2>3, VaultIs DEF Init
<1>. QED  BY <1>1, <1>2 DEF Ledger!Init, Init

LEMMA StepLedger == IInv /\ IInv' /\ [Next]_vars => [Ledger!Next]_Ledger!ledger
<1> SUFFICES ASSUME IInv, IInv', [Next]_vars PROVE [Ledger!Next]_Ledger!ledger
  OBVIOUS
<1>1. CASE Configures
  BY <1>1, ConfigKeeps DEF Idles, Ledger!ledger
<1>2. ASSUME NEW a \in Ids, Stays(a) PROVE UNCHANGED Ledger!ledger
  BY <1>2, StaysKeeps DEF Stays, Ledger!ledger
<1>3. ASSUME NEW a \in Ids, PaysOut(a) PROVE Ledger!Move(a)
  <2>. PICK tok \in Tokens : tok = agreements[a].token
    BY AgreementFacts
  <2>. PICK x \in Nat : x = agreements[a].price
    BY AgreementFacts
  <2>1. \A z \in Ids, t \in Tokens : LockedIn(z, t) \in Nat
    BY LockedTypes DEF IInv, TypeOK
  <2>2. \A z \in Ids, t \in Tokens :
          LockedIn(z, t)' = LockedIn(z, t) + (IF z = a /\ t = tok THEN 0 - x ELSE 0)
    BY <1>3, <2>1, PaysOutLocked
  <2>3. balance \in [Tokens -> Nat] /\ balance' = [balance EXCEPT ![tok] = @ - x]
    BY <1>3 DEF PaysOut, IInv, TypeOK
  <2>4. \A t \in Tokens : balance'[t] = balance[t] + (IF t = tok THEN 0 - x ELSE 0)
    BY <2>3
  <2>5. \A t \in Tokens :
          /\ PaidSum(received', t) = PaidSum(received, t) + (IF t = tok THEN x ELSE 0)
          /\ \A u \in Users : received'[u][t] >= received[u][t]
    BY <1>3 DEF PaysOut
  <2>. QED  BY <2>2, <2>4, <2>5, MoveOfAmounts
<1>4. ASSUME NEW client \in Clients, NEW provider \in Providers, NEW price \in Prices,
             NEW tok \in Tokens, NEW deadline \in Deadlines,
             Propose(client, provider, price, tok, deadline)
      PROVE  \E a \in Ids : Ledger!Move(a)
  <2>. PICK n \in Ids : n = nextId + 1
    BY <1>4, ProposeKeeps
  <2>. PICK p \in Nat : p = price
    BY <1>4, ProposeKeeps
  <2>1. /\ \A z \in Ids, t \in Tokens :
             LockedIn(z, t)' = LockedIn(z, t) + (IF z = n /\ t = tok THEN p - 0 ELSE 0)
        /\ balance' = [balance EXCEPT ![tok] = @ + p] /\ received' = received
    BY <1>4, ProposeKeeps
  <2>2. balance \in [Tokens -> Nat] /\ received \in [Users -> [Tokens -> Nat]]
    BY DEF IInv, TypeOK
  <2>3. \A t \in Tokens : balance'[t] = balance[t] + (IF t = tok THEN p - 0 ELSE 0)
    BY <2>1, <2>2
  <2>4. \A t \in Tokens :
          /\ PaidSum(received', t) = PaidSum(received, t) + (IF t = tok THEN 0 ELSE 0)
          /\ \A u \in Users : received'[u][t] >= received[u][t]
    BY <2>1, <2>2, PaidType
  <2>5. Ledger!Move(n)
    BY <2>1, <2>3, <2>4, MoveOfAmounts
  <2>. QED  BY <2>5
<1>. QED  BY <1>1, <1>2, <1>3, <1>4, StepKinds DEF Ledger!Next

(* Every call either leaves the money alone or moves it for one agreement,   *)
(* and then all of it: the parties and the treasury together get exactly the *)
(* price, whatever a decision splits and the fee rounds.                     *)
THEOREM LedgerImplemented == Spec => ImplementsLedger
BY StepLedger, InitLedger, InvHolds, PTL DEF Spec, ImplementsLedger, Ledger!Spec
==============================================================================
