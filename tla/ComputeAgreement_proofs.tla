------------------------ MODULE ComputeAgreement_proofs ------------------------
(***************************************************************************)
(* Theorems about the compute-rental escrow, for any accounts, sessions,   *)
(* tokens, rates and reports.                                              *)
(***************************************************************************)
EXTENDS ComputeAgreement, SumTheorems

USE DEF MAX_PROTOCOL_FEE_BPS, BPS_DENOMINATOR, MINUTES_PER_HOUR

(* What a session's record can hold. *)
SessionSound(s) ==
  /\ Exists(s) \/ sessions[s] = NoSession
  /\ Exists(s) => sessions[s].client \in Users /\ sessions[s].provider \in Users
  /\ sessions[s].depositAmount = sessions[s].ratePerHour * sessions[s].maxHours
  /\ sessions[s].consumedMinutes <= sessions[s].maxHours * MINUTES_PER_HOUR
  /\ sessions[s].status = "Proposed" => sessions[s].startedAt = 0

(* What the contract has to pay out of a token sooner or later. *)
CreditSum(pw, t) == SumFunctionOnSet([u \in Users |-> pw[u][t]], Users)
LockedSum(t) == SumFunctionOnSet([s \in Sessions |-> LockedIn(s, t)], Sessions)

(* The contract holds at least that: it can pay everybody, with or without  *)
(* ETH that was sent along with disputes.                                   *)
NeverShort == \A t \in Tokens : LockedSum(t) + CreditSum(pendingWithdrawals, t) <= balance[t]

IInv ==
  /\ TypeOK
  /\ \A s \in Sessions : SessionSound(s)
  /\ BilledOnce
  /\ IsFiniteSet(reportDigestUsed)
  /\ NeverShort

-----------------------------------------------------------------------------
(* The minutes of a set of reports. *)
Minutes(S) == MapThenSumSet(LAMBDA r : r.computeMinutes, S)
MinutesOf(S) == [r \in S |-> r.computeMinutes]

LEMMA MinutesIs ==
  ASSUME NEW S, IsFiniteSet(S), \A r \in S : r.computeMinutes \in Int
  PROVE  Minutes(S) = SumFunctionOnSet(MinutesOf(S), S)
<1> DEFINE f == MinutesOf(S)
           Body(it) == [s \in SUBSET S |->
                          IF s = {} THEN 0
                          ELSE (CHOOSE x \in s : TRUE).computeMinutes
                                 + it[s \ {CHOOSE x \in s : TRUE}]]
           iter == CHOOSE it : it = Body(it)
<1>1. \A r \in S : f[r] = r.computeMinutes /\ f[r] \in Int
  BY DEF MinutesOf
<1>. HIDE DEF f
<1>2. PICK g : IsSumOf(g, f, S)
  BY <1>1, SumExists
<1>3. g = Body(g)
  <2>1. ASSUME NEW s \in SUBSET S, s # {}
        PROVE  g[s] = (CHOOSE x \in s : TRUE).computeMinutes + g[s \ {CHOOSE x \in s : TRUE}]
    <3>1. (CHOOSE x \in s : TRUE) \in s
      BY <2>1
    <3>. QED  BY <1>1, <1>2, <3>1 DEF IsSumOf
  <2>. QED  BY <1>2, <2>1 DEF IsSumOf
<1>4. iter = Body(iter)
  BY <1>3
<1>5. Minutes(S) = iter[S]
  BY DEF Minutes, MapThenSumSet, MapThenFoldSet
<1>. HIDE DEF iter
<1> DEFINE B == {s \in SUBSET S : iter[s] # g[s]}
<1>6. B = {}
  <2> SUFFICES ASSUME B # {} PROVE FALSE
    OBVIOUS
  <2>1. PICK T \in B : \A x \in T : T \ {x} \notin B
    BY SmallestSubset
  <2>2. iter[T] = IF T = {} THEN 0
                  ELSE (CHOOSE x \in T : TRUE).computeMinutes + iter[T \ {CHOOSE x \in T : TRUE}]
    BY <1>4
  <2>3. CASE T = {}
    BY <1>2, <2>1, <2>2, <2>3 DEF IsSumOf
  <2>4. CASE T # {}
    <3> DEFINE c == CHOOSE x \in T : TRUE
    <3>1. c \in T
      BY <2>4
    <3>. HIDE DEF c
    <3>2. iter[T \ {c}] = g[T \ {c}]
      BY <2>1, <3>1
    <3>3. g[T] = c.computeMinutes + g[T \ {c}]
      BY <1>1, <1>2, <3>1 DEF IsSumOf
    <3>. QED  BY <2>1, <2>2, <2>4, <3>2, <3>3 DEF c
  <2>. QED  BY <2>3, <2>4
<1>. QED  BY <1>2, <1>5, <1>6, SumIs DEF f

LEMMA MinutesEmpty == Minutes({}) = 0
<1>1. IsFiniteSet({})
  BY FS_EmptySet
<1>2. SumFunctionOnSet(MinutesOf({}), {}) = 0
  BY <1>1, SumZero
<1>. QED  BY <1>1, <1>2, MinutesIs

LEMMA MinutesAdd ==
  ASSUME NEW S, IsFiniteSet(S), NEW r, r \notin S,
         \A x \in S \cup {r} : x.computeMinutes \in Int
  PROVE  Minutes(S \cup {r}) = Minutes(S) + r.computeMinutes
<1>. DEFINE T == S \cup {r}
            f == MinutesOf(T)
            g == MinutesOf(S)
<1>1. IsFiniteSet(T) /\ T \ {r} = S /\ r \in T
  BY FS_AddElement
<1>2. /\ \A x \in T : f[x] = x.computeMinutes /\ f[x] \in Int
      /\ \A x \in S : g[x] \in Int /\ f[x] = g[x]
  BY DEF MinutesOf
<1>3. Minutes(T) = SumFunctionOnSet(f, T) /\ Minutes(S) = SumFunctionOnSet(g, S)
  BY <1>1, MinutesIs
<1>. HIDE DEF T, f, g
<1>4. SumFunctionOnSet(f, T) = f[r] + SumFunctionOnSet(f, T \ {r})
  BY <1>1, <1>2, SumRemove
<1>5. SumFunctionOnSet(f, S) = SumFunctionOnSet(g, S) /\ SumFunctionOnSet(g, S) \in Int
  BY <1>2, SumSame, SumType
<1>6. Minutes(T) = Minutes(S) + r.computeMinutes
  <2>1. f[r] = r.computeMinutes /\ f[r] \in Int
    BY <1>1, <1>2
  <2>2. Minutes(T) = f[r] + SumFunctionOnSet(f, S)
    BY <1>1, <1>3, <1>4
  <2>. QED  BY <1>3, <1>5, <2>1, <2>2
<1>. QED  BY <1>6 DEF T

(* Reported minutes never cost more than the hours that were paid for.       *)
LEMMA CostBounded ==
  ASSUME NEW m \in Nat, NEW h \in Nat, NEW r \in Nat, m <= h * 60
  PROVE  (m * r) \div 60 <= r * h /\ (m * r) \div 60 \in Nat
<1>1. m * r <= (h * 60) * r
  OBVIOUS
<1>2. (h * 60) * r = 60 * (r * h)
  OBVIOUS
<1>. DEFINE x == m * r
            d == r * h
<1>3. x \in Nat /\ d \in Nat /\ x <= 60 * d
  BY <1>1, <1>2
<1>. HIDE DEF x, d
<1>4. x \div 60 <= d /\ x \div 60 \in Nat
  BY <1>3
<1>. QED  BY <1>4 DEF x, d

-----------------------------------------------------------------------------
(* The bill of one session. *)
Billed(s) ==
  /\ sessions[s].consumedMinutes = Minutes(ReportsOf(s))
  /\ \A r \in ReportsOf(s) : 0 < sessions[s].startedAt /\ sessions[s].startedAt <= r.periodStart
  /\ calculateCost(s) <= sessions[s].depositAmount
  /\ sessions[s].status = "Cancelled" => ReportsOf(s) = {}

AllBilled == \A s \in Sessions : Billed(s)

LEMMA BilledIs == BilledOnce <=> AllBilled
  BY DEF BilledOnce, AllBilled, Billed, Minutes

LEMMA InvFacts ==
  ASSUME IInv, NEW s \in Sessions
  PROVE  /\ sessions \in [Sessions -> SessionType] /\ sessions[s] \in SessionType
         /\ SessionSound(s) /\ Billed(s)
         /\ ETH \in Tokens /\ IsFiniteSet(Users) /\ IsFiniteSet(Sessions)
         /\ sessions[s].depositAmount \in Nat /\ sessions[s].token \in Tokens
         /\ sessions[s].maxHours \in Nat /\ sessions[s].ratePerHour \in Nat
         /\ sessions[s].consumedMinutes \in Nat /\ sessions[s].startedAt \in Nat
         /\ Exists(s) => sessions[s].client \in Users /\ sessions[s].provider \in Users
  BY BilledIs, UsersAssumption, AmountsAssumption
     DEF IInv, TypeOK, SessionType, SessionSound, AllBilled

(* A bill is right when the minutes are within the hours paid for.           *)
LEMMA CostCovered ==
  ASSUME NEW s, sessions[s].consumedMinutes \in Nat, sessions[s].maxHours \in Nat,
         sessions[s].ratePerHour \in Nat,
         sessions[s].depositAmount = sessions[s].ratePerHour * sessions[s].maxHours,
         sessions[s].consumedMinutes <= sessions[s].maxHours * MINUTES_PER_HOUR
  PROVE  calculateCost(s) <= sessions[s].depositAmount /\ calculateCost(s) \in Nat
  BY CostBounded DEF calculateCost

(* A session whose record changes in its status only, or that starts.        *)
LEMMA StatusKeeps ==
  ASSUME IInv, NEW s \in Sessions, NEW st \in Statuses \ {"Proposed"}, Exists(s),
         sessions' = [sessions EXCEPT ![s].status = st], UNCHANGED reportDigestUsed,
         st = "Cancelled" => ReportsOf(s) = {}
  PROVE  /\ sessions' \in [Sessions -> SessionType]
         /\ \A z \in Sessions : SessionSound(z)' /\ Billed(z)'
         /\ \A z \in Sessions : z # s => sessions'[z] = sessions[z]
         /\ sessions'[s].token = sessions[s].token /\ sessions'[s].status = st
         /\ sessions'[s].depositAmount = sessions[s].depositAmount
<1>. DEFINE r == [sessions[s] EXCEPT !.status = st]
<1>1. /\ sessions \in [Sessions -> SessionType] /\ sessions[s] \in SessionType
      /\ \A z \in Sessions : SessionSound(z) /\ Billed(z)
  BY InvFacts
<1>2. /\ r \in SessionType /\ r.status = st /\ r.client = sessions[s].client
      /\ r.provider = sessions[s].provider /\ r.token = sessions[s].token
      /\ r.ratePerHour = sessions[s].ratePerHour /\ r.maxHours = sessions[s].maxHours
      /\ r.depositAmount = sessions[s].depositAmount /\ r.startedAt = sessions[s].startedAt
      /\ r.consumedMinutes = sessions[s].consumedMinutes
  BY <1>1 DEF SessionType
<1>3. sessions' = [sessions EXCEPT ![s] = r]
  BY <1>1
<1>. HIDE DEF r
<1>4. /\ sessions' \in [Sessions -> SessionType] /\ sessions'[s] = r
      /\ \A z \in Sessions : z # s => sessions'[z] = sessions[z]
  BY <1>1, <1>2, <1>3
<1>5. \A z : ReportsOf(z)' = ReportsOf(z)
  BY DEF ReportsOf
<1>6. SessionSound(s)' /\ Billed(s)'
  BY <1>1, <1>2, <1>4, <1>5 DEF SessionSound, Billed, Exists, calculateCost
<1>7. \A z \in Sessions : z # s => SessionSound(z)' /\ Billed(z)'
  BY <1>1, <1>4, <1>5 DEF SessionSound, Billed, Exists, calculateCost
<1>. QED  BY <1>2, <1>4, <1>6, <1>7

LEMMA SessionsSame ==
  ASSUME IInv, UNCHANGED <<sessions, reportDigestUsed>>
  PROVE  /\ sessions' \in [Sessions -> SessionType]
         /\ \A z \in Sessions : SessionSound(z)' /\ Billed(z)'
         /\ \A z, t : LockedIn(z, t)' = LockedIn(z, t)
<1>1. \A z \in Sessions : SessionSound(z) /\ Billed(z)
  BY InvFacts
<1>2. \A z : ReportsOf(z)' = ReportsOf(z)
  BY DEF ReportsOf
<1>3. \A z \in Sessions : SessionSound(z)' /\ Billed(z)'
  BY <1>1, <1>2 DEF SessionSound, Billed, Exists, calculateCost
<1>. QED  BY <1>3 DEF LockedIn, IInv, TypeOK

-----------------------------------------------------------------------------
(* Money.  The credits grow by amount, all of it in token tok.               *)
Credited(pw, qw, tok, amount) ==
  /\ qw \in [Users -> [Tokens -> Nat]]
  /\ \A t \in Tokens :
       /\ CreditSum(qw, t) = CreditSum(pw, t) + (IF tok = t THEN amount ELSE 0)
       /\ \A u \in Users : qw[u][t] >= pw[u][t]

LEMMA CreditSumType ==
  ASSUME NEW pw \in [Users -> [Tokens -> Nat]], NEW t \in Tokens
  PROVE  /\ CreditSum(pw, t) \in Nat
         /\ \A u \in Users : pw[u][t] <= CreditSum(pw, t)
<1> DEFINE f == [u \in Users |-> pw[u][t]]
<1>1. IsFiniteSet(Users) /\ (\A u \in Users : f[u] \in Nat /\ f[u] = pw[u][t])
  BY UsersAssumption
<1>2. CreditSum(pw, t) = SumFunctionOnSet(f, Users)
  BY DEF CreditSum
<1>. HIDE DEF f
<1>. QED  BY <1>1, <1>2, SumNat

LEMMA CreditedOnce ==
  ASSUME NEW pw \in [Users -> [Tokens -> Nat]], NEW user, NEW tok \in Tokens, NEW amount \in Nat,
         user \in Users \/ amount = 0
  PROVE  Credited(pw, Credit(pw, user, tok, amount), tok, amount)
  BY CreditSums, UsersAssumption DEF Credited, CreditSum

LEMMA CreditedTwice ==
  ASSUME NEW pw \in [Users -> [Tokens -> Nat]], NEW qw, NEW rw, NEW tok \in Tokens,
         NEW a \in Nat, NEW b \in Nat, Credited(pw, qw, tok, a), Credited(qw, rw, tok, b)
  PROVE  Credited(pw, rw, tok, a + b)
<1>1. qw \in [Users -> [Tokens -> Nat]] /\ rw \in [Users -> [Tokens -> Nat]]
  BY DEF Credited
<1>2. \A t \in Tokens : CreditSum(pw, t) \in Nat /\ CreditSum(qw, t) \in Nat /\ CreditSum(rw, t) \in Nat
  BY <1>1, CreditSumType
<1>3. \A t \in Tokens : CreditSum(rw, t) = CreditSum(pw, t) + (IF tok = t THEN a + b ELSE 0)
  BY <1>2 DEF Credited
<1>4. \A t \in Tokens, u \in Users : rw[u][t] >= pw[u][t]
  <2>1. \A t \in Tokens, u \in Users :
          /\ rw[u][t] \in Nat /\ qw[u][t] \in Nat /\ pw[u][t] \in Nat
          /\ rw[u][t] >= qw[u][t] /\ qw[u][t] >= pw[u][t]
    BY <1>1 DEF Credited
  <2>. QED  BY <2>1
<1>. QED  BY <1>1, <1>3, <1>4 DEF Credited

(* The protocol's fee is a part of what the provider is paid.                *)
LEMMA FeeBounded ==
  ASSUME NEW amount \in Nat, IInv
  PROVE  ProtocolFee(amount) \in 0..amount /\ (ProtocolFee(amount) = 0 \/ protocolTreasury \in Users)
<1>1. protocolFeeBps \in 0..100 /\ protocolTreasury \in Users \cup {NoUser}
  BY DEF IInv, TypeOK
<1>2. amount * protocolFeeBps \in 0..(amount * 100)
  BY <1>1
<1>3. (amount * protocolFeeBps) \div 10000 \in 0..amount
  BY <1>2
<1>. QED  BY <1>1, <1>3 DEF ProtocolFee

LEMMA SettleCredits ==
  ASSUME IInv, NEW s \in Sessions, Exists(s), NEW p \in Nat, NEW c \in Nat
  PROVE  Credited(pendingWithdrawals, Settle(pendingWithdrawals, s, p, c), sessions[s].token, p + c)
<1>. DEFINE pw == pendingWithdrawals
            tok == sessions[s].token
            fee == ProtocolFee(p)
            qw == Credit(pw, protocolTreasury, tok, fee)
            rw == Credit(qw, sessions[s].provider, tok, p - fee)
            sw == Credit(rw, sessions[s].client, tok, c)
<1>1. /\ sessions[s].client \in Users /\ sessions[s].provider \in Users /\ tok \in Tokens
      /\ pw \in [Users -> [Tokens -> Nat]]
  BY InvFacts DEF IInv, TypeOK
<1>2. fee \in Nat /\ p - fee \in Nat /\ fee + (p - fee) = p /\ (protocolTreasury \in Users \/ fee = 0)
  BY FeeBounded
<1>3. Settle(pendingWithdrawals, s, p, c) = sw
  BY DEF Settle
<1>. HIDE DEF pw, tok, fee
<1>4. Credited(pw, qw, tok, fee)
  BY <1>1, <1>2, CreditedOnce
<1>5. Credited(qw, rw, tok, p - fee)
  <2>1. qw \in [Users -> [Tokens -> Nat]]
    BY <1>4 DEF Credited
  <2>. QED  BY <1>1, <1>2, <2>1, CreditedOnce
<1>6. Credited(pw, rw, tok, p)
  <2>. HIDE DEF qw, rw
  <2>1. Credited(pw, rw, tok, fee + (p - fee))
    BY <1>1, <1>2, <1>4, <1>5, CreditedTwice
  <2>. QED  BY <1>2, <2>1
<1>7. Credited(rw, sw, tok, c)
  <2>1. rw \in [Users -> [Tokens -> Nat]]
    BY <1>6 DEF Credited
  <2>. QED  BY <1>1, <2>1, CreditedOnce
<1>. HIDE DEF qw, rw, sw
<1>8. Credited(pw, sw, tok, p + c)
  BY <1>1, <1>6, <1>7, CreditedTwice
<1>. QED  BY <1>3, <1>8 DEF pw, tok

(* A call takes in an amount, locks it in a session, and takes another out   *)
(* of it as credit.                                                          *)
Moves(s, tok, in, out) ==
  /\ \A z \in Sessions, t \in Tokens :
       LockedIn(z, t)' = LockedIn(z, t) + (IF z = s /\ t = tok THEN in - out ELSE 0)
  /\ Credited(pendingWithdrawals, pendingWithdrawals', tok, out)
  /\ balance' = [balance EXCEPT ![tok] = @ + in]

LEMMA LockedTypes ==
  sessions \in [Sessions -> SessionType] =>
    /\ \A z \in Sessions, t \in Tokens : LockedIn(z, t) \in Nat
    /\ \A t \in Tokens : LockedSum(t) \in Nat
<1> HAVE sessions \in [Sessions -> SessionType]
<1>1. \A z \in Sessions, t \in Tokens : LockedIn(z, t) \in Nat
  BY DEF LockedIn, SessionType
<1>2. ASSUME NEW t \in Tokens PROVE LockedSum(t) \in Nat
  <2> DEFINE f == [z \in Sessions |-> LockedIn(z, t)]
  <2>1. \A z \in Sessions : f[z] \in Nat
    BY <1>1
  <2>2. LockedSum(t) = SumFunctionOnSet(f, Sessions)
    BY DEF LockedSum
  <2>. HIDE DEF f
  <2>. QED  BY <2>1, <2>2, SumNat, UsersAssumption
<1>. QED  BY <1>1, <1>2

LEMMA MovesKeep ==
  ASSUME IInv, NEW s \in Sessions, NEW tok \in Tokens, NEW in \in Nat, NEW out \in Nat,
         sessions' \in [Sessions -> SessionType], Moves(s, tok, in, out)
  PROVE  /\ pendingWithdrawals' \in [Users -> [Tokens -> Nat]]
         /\ balance' \in [Tokens -> Nat]
         /\ NeverShort'
<1>1. /\ pendingWithdrawals' \in [Users -> [Tokens -> Nat]]
      /\ pendingWithdrawals \in [Users -> [Tokens -> Nat]]
      /\ balance \in [Tokens -> Nat] /\ balance' \in [Tokens -> Nat]
      /\ \A t \in Tokens : balance'[t] = balance[t] + (IF t = tok THEN in ELSE 0)
  BY DEF Moves, Credited, IInv, TypeOK
<1>2. /\ \A z \in Sessions, t \in Tokens : LockedIn(z, t) \in Nat /\ LockedIn(z, t)' \in Nat
      /\ \A t \in Tokens : LockedSum(t) \in Nat /\ LockedSum(t)' \in Nat
  <2>1. /\ \A z \in Sessions, t \in Tokens : LockedIn(z, t) \in Nat
        /\ \A t \in Tokens : LockedSum(t) \in Nat
    BY LockedTypes DEF IInv, TypeOK
  <2>2. /\ (\A z \in Sessions, t \in Tokens : LockedIn(z, t) \in Nat)'
        /\ (\A t \in Tokens : LockedSum(t) \in Nat)'
    <3>1. (sessions \in [Sessions -> SessionType])'
      OBVIOUS
    <3>. QED  BY <3>1, LockedTypes, PTL
  <2>. QED  BY <2>1, <2>2
<1>3. ASSUME NEW t \in Tokens
      PROVE  LockedSum(t)' = LockedSum(t) + (IF t = tok THEN in - out ELSE 0)
  <2> DEFINE f == [z \in Sessions |-> LockedIn(z, t)]
             g == [z \in Sessions |-> LockedIn(z, t)']
  <2>1. \A z \in Sessions : f[z] \in Int /\ g[z] \in Int
    BY <1>2
  <2>2. \A z \in Sessions \ {s} : g[z] = f[z]
    BY <1>2 DEF Moves
  <2>3. g[s] - f[s] = (IF t = tok THEN in - out ELSE 0)
    BY <1>2 DEF Moves
  <2>4. LockedSum(t) = SumFunctionOnSet(f, Sessions) /\ LockedSum(t)' = SumFunctionOnSet(g, Sessions)
    BY DEF LockedSum
  <2>. HIDE DEF f, g
  <2>5. SumFunctionOnSet(g, Sessions) = SumFunctionOnSet(f, Sessions) - f[s] + g[s]
    BY <2>1, <2>2, SumChange, UsersAssumption
  <2>6. f[s] \in Int /\ g[s] \in Int /\ LockedSum(t) \in Int
    BY <1>2, <2>1
  <2>. QED  BY <2>3, <2>4, <2>5, <2>6
<1>4. ASSUME NEW t \in Tokens
      PROVE  LockedSum(t)' + CreditSum(pendingWithdrawals', t) <= balance'[t]
  <2>1. CreditSum(pendingWithdrawals', t) = CreditSum(pendingWithdrawals, t) + (IF t = tok THEN out ELSE 0)
    BY DEF Moves, Credited
  <2>2. CreditSum(pendingWithdrawals, t) \in Nat /\ CreditSum(pendingWithdrawals', t) \in Nat
    BY <1>1, CreditSumType
  <2>3. LockedSum(t) + CreditSum(pendingWithdrawals, t) <= balance[t]
    BY DEF IInv, NeverShort
  <2>4. balance[t] \in Nat /\ balance'[t] = balance[t] + (IF t = tok THEN in ELSE 0)
    BY <1>1
  <2>5. LockedSum(t) \in Nat /\ LockedSum(t)' = LockedSum(t) + (IF t = tok THEN in - out ELSE 0)
    BY <1>2, <1>3
  <2>. QED  BY <2>1, <2>2, <2>3, <2>4, <2>5
<1>. QED  BY <1>1, <1>4 DEF NeverShort

(* A call that moves no money, but may leave some ETH.                       *)
LEMMA QuietKeeps ==
  ASSUME IInv, \A z \in Sessions, t \in Tokens : LockedIn(z, t)' = LockedIn(z, t),
         UNCHANGED pendingWithdrawals, balance' \in [Tokens -> Nat],
         \A t \in Tokens : balance'[t] >= balance[t],
         sessions' \in [Sessions -> SessionType]
  PROVE  NeverShort'
<1> SUFFICES ASSUME NEW t \in Tokens
             PROVE  LockedSum(t)' + CreditSum(pendingWithdrawals', t) <= balance'[t]
  BY DEF NeverShort
<1>1. LockedSum(t)' = LockedSum(t) /\ LockedSum(t) \in Nat
  BY LockedTypes DEF LockedSum, IInv, TypeOK
<1>2. CreditSum(pendingWithdrawals, t) \in Nat /\ balance[t] \in Nat /\ balance'[t] \in Nat
  BY CreditSumType DEF IInv, TypeOK
<1>3. LockedSum(t) + CreditSum(pendingWithdrawals, t) <= balance[t] /\ balance'[t] >= balance[t]
  BY DEF IInv, NeverShort
<1>. QED  BY <1>1, <1>2, <1>3

(* The parts of the invariant that a call keeps, put together.               *)
LEMMA InvFrom ==
  ASSUME IInv, UNCHANGED <<now, config>>,
         sessions' \in [Sessions -> SessionType],
         \A z \in Sessions : SessionSound(z)' /\ Billed(z)',
         reportDigestUsed' \subseteq Report, IsFiniteSet(reportDigestUsed'),
         pendingWithdrawals' \in [Users -> [Tokens -> Nat]], balance' \in [Tokens -> Nat],
         NeverShort'
  PROVE  IInv'
<1>1. TypeOK'
  BY DEF IInv, TypeOK, config
<1>2. BilledOnce'
  <2>1. AllBilled'
    BY DEF AllBilled
  <2>. QED  BY <2>1, BilledIs, PTL
<1>. QED  BY <1>1, <1>2 DEF IInv

-----------------------------------------------------------------------------
(* The calls. *)
LEMMA InitIInv == Init => IInv
<1> SUFFICES ASSUME Init PROVE IInv
  OBVIOUS
<1> USE AmountsAssumption, UsersAssumption
<1>1. NoSession \in SessionType
  BY DEF NoSession, SessionType, Statuses
<1>2. TypeOK
  <2>1. sessions \in [Sessions -> SessionType]
    BY <1>1 DEF Init
  <2>2. /\ pendingWithdrawals \in [Users -> [Tokens -> Nat]]
        /\ balance \in [Tokens -> Nat]
    BY DEF Init
  <2>3. now \in Nat \ {0}
    BY DEF Init
  <2>5. daSet \in BOOLEAN
    BY DEF Init
  <2>4. /\ reportDigestUsed = {}
        /\ protocolFeeBps \in 0..MAX_PROTOCOL_FEE_BPS
        /\ protocolTreasury \in Users \cup {NoUser}
    BY DEF Init
  <2>. QED  BY <2>1, <2>2, <2>3, <2>4, <2>5 DEF TypeOK
<1>3. \A s \in Sessions : sessions[s] = NoSession /\ ReportsOf(s) = {}
  BY DEF Init, ReportsOf
<1>4. \A s \in Sessions : SessionSound(s)
  BY <1>3 DEF SessionSound, Exists, NoSession
<1>5. \A s \in Sessions : Billed(s)
  <2> SUFFICES ASSUME NEW s \in Sessions PROVE Billed(s)
    OBVIOUS
  <2>1. /\ sessions[s].consumedMinutes = 0 /\ sessions[s].ratePerHour = 0
        /\ sessions[s].depositAmount = 0 /\ sessions[s].status = "Proposed"
        /\ ReportsOf(s) = {}
    BY <1>3 DEF NoSession
  <2>2. calculateCost(s) = 0
    BY <2>1 DEF calculateCost
  <2>. QED  BY <2>1, <2>2, MinutesEmpty DEF Billed
<1>6. IsFiniteSet(reportDigestUsed)
  BY FS_EmptySet DEF Init
<1>7. NeverShort
  <2> SUFFICES ASSUME NEW t \in Tokens
               PROVE  LockedSum(t) + CreditSum(pendingWithdrawals, t) <= balance[t]
    BY DEF NeverShort
  <2> DEFINE f == [z \in Sessions |-> LockedIn(z, t)]
             g == [u \in Users |-> pendingWithdrawals[u][t]]
  <2>1. (\A z \in Sessions : f[z] = 0) /\ (\A u \in Users : g[u] = 0)
    BY <1>3 DEF LockedIn, NoSession, Init
  <2>2. LockedSum(t) = SumFunctionOnSet(f, Sessions)
          /\ CreditSum(pendingWithdrawals, t) = SumFunctionOnSet(g, Users)
    BY DEF LockedSum, CreditSum
  <2>. HIDE DEF f, g
  <2>3. LockedSum(t) = 0 /\ CreditSum(pendingWithdrawals, t) = 0
    BY <2>1, <2>2, SumZero
  <2>. QED  BY <2>3 DEF Init
<1>. QED  BY <1>2, <1>4, <1>5, <1>6, <1>7, BilledIs DEF IInv, AllBilled

(* Calls that settle a session: its deposit becomes credit.                  *)
LEMMA SettleInv ==
  ASSUME IInv, NEW s \in Sessions, Exists(s), NEW st \in {"Completed", "Cancelled"},
         sessions[s].status \notin {"Completed", "Cancelled"},
         sessions' = [sessions EXCEPT ![s].status = st],
         st = "Cancelled" => ReportsOf(s) = {},
         Credited(pendingWithdrawals, pendingWithdrawals', sessions[s].token,
                  sessions[s].depositAmount),
         UNCHANGED <<now, reportDigestUsed, balance, config>>
  PROVE  IInv' /\ Moves(s, sessions[s].token, 0, sessions[s].depositAmount)
<1>. PICK tok \in Tokens : tok = sessions[s].token
  BY InvFacts
<1>. PICK d \in Nat : d = sessions[s].depositAmount
  BY InvFacts
<1>1. st \in Statuses \ {"Proposed"}
  BY DEF Statuses
<1>2. /\ sessions' \in [Sessions -> SessionType]
      /\ \A z \in Sessions : SessionSound(z)' /\ Billed(z)'
      /\ \A z \in Sessions : z # s => sessions'[z] = sessions[z]
      /\ sessions'[s].token = tok /\ sessions'[s].status = st
      /\ sessions'[s].depositAmount = d
  BY <1>1, StatusKeeps
<1>3. ASSUME NEW z \in Sessions, NEW t \in Tokens
      PROVE  LockedIn(z, t)' = LockedIn(z, t) + (IF z = s /\ t = tok THEN 0 - d ELSE 0)
  <2>1. CASE z = s
    BY <1>2, <2>1 DEF LockedIn
  <2>2. CASE z # s
    BY <1>2, <2>2, LockedTypes DEF LockedIn, IInv, TypeOK
  <2>. QED  BY <2>1, <2>2
<1>4. balance' = [balance EXCEPT ![tok] = @ + 0]
  BY DEF IInv, TypeOK
<1>5. Moves(s, tok, 0, d)
  BY <1>3, <1>4 DEF Moves
<1>6. /\ pendingWithdrawals' \in [Users -> [Tokens -> Nat]] /\ balance' \in [Tokens -> Nat]
      /\ NeverShort'
  BY <1>2, <1>5, MovesKeep
<1>7. reportDigestUsed' \subseteq Report /\ IsFiniteSet(reportDigestUsed')
  BY DEF IInv, TypeOK
<1>. QED  BY <1>2, <1>5, <1>6, <1>7, InvFrom

LEMMA EndInv ==
  ASSUME IInv, NEW s \in Sessions, EndSession(s)
  PROVE  IInv' /\ Moves(s, sessions[s].token, 0, sessions[s].depositAmount)
<1>. DEFINE cost == IF calculateCost(s) > sessions[s].depositAmount
                    THEN sessions[s].depositAmount ELSE calculateCost(s)
<1>1. /\ Exists(s) /\ sessions[s].status \notin {"Completed", "Cancelled"}
      /\ sessions[s].depositAmount \in Nat
  BY InvFacts DEF EndSession, Is
<1>2. /\ cost \in Nat /\ sessions[s].depositAmount - cost \in Nat
      /\ cost + (sessions[s].depositAmount - cost) = sessions[s].depositAmount
  BY InvFacts, CostCovered DEF SessionSound
<1>3. pendingWithdrawals'
        = Settle(pendingWithdrawals, s, cost, sessions[s].depositAmount - cost)
  BY DEF EndSession
<1>. HIDE DEF cost
<1>4. Credited(pendingWithdrawals, pendingWithdrawals', sessions[s].token,
               cost + (sessions[s].depositAmount - cost))
  BY <1>1, <1>2, <1>3, SettleCredits
<1>5. Credited(pendingWithdrawals, pendingWithdrawals', sessions[s].token,
               sessions[s].depositAmount)
  BY <1>2, <1>4
<1>. QED  BY <1>1, <1>5, SettleInv DEF EndSession

LEMMA ResolveInv ==
  ASSUME IInv, NEW s \in Sessions, NEW outcome \in {"PROVIDER_WINS", "CLIENT_WINS", "SPLIT"},
         NEW pAward \in Awards, NEW cAward \in Awards,
         ResolveDisputeDetailed(s, outcome, pAward, cAward)
  PROVE  IInv' /\ Moves(s, sessions[s].token, 0, sessions[s].depositAmount)
<1>. PICK d \in Nat : d = sessions[s].depositAmount
  BY InvFacts
<1>. PICK p \in Nat : p = ProviderAward(outcome, d, pAward)
  BY AmountsAssumption DEF ProviderAward
<1>. PICK c \in Nat : c = ClientAward(outcome, d, cAward)
  BY AmountsAssumption DEF ClientAward
<1>. DEFINE qw == Settle(pendingWithdrawals, s, p, c)
<1>1. /\ Exists(s) /\ sessions[s].status \notin {"Completed", "Cancelled"}
      /\ sessions[s].client \in Users /\ sessions[s].token \in Tokens
      /\ pendingWithdrawals \in [Users -> [Tokens -> Nat]]
  BY InvFacts DEF ResolveDisputeDetailed, Is, IInv, TypeOK
<1>2. p + c <= d
  BY DEF ResolveDisputeDetailed
<1>3. pendingWithdrawals' = Credit(qw, sessions[s].client, sessions[s].token, d - p - c)
  BY DEF ResolveDisputeDetailed
<1>4. Credited(pendingWithdrawals, qw, sessions[s].token, p + c)
  BY <1>1, SettleCredits
<1>. HIDE DEF qw
<1>5. p + c \in Nat /\ d - p - c \in Nat /\ (p + c) + (d - p - c) = d
  BY <1>2
<1>6. Credited(qw, pendingWithdrawals', sessions[s].token, d - p - c)
  <2>1. qw \in [Users -> [Tokens -> Nat]]
    BY <1>4 DEF Credited
  <2>. QED  BY <1>1, <1>3, <1>5, <2>1, CreditedOnce
<1>. PICK paid \in Nat : paid = p + c
  BY <1>5
<1>. PICK rest \in Nat : rest = d - p - c
  BY <1>5
<1>7. Credited(pendingWithdrawals, pendingWithdrawals', sessions[s].token, paid + rest)
  BY <1>1, <1>4, <1>6, CreditedTwice
<1>8. Credited(pendingWithdrawals, pendingWithdrawals', sessions[s].token,
               sessions[s].depositAmount)
  BY <1>5, <1>7
<1>. QED  BY <1>1, <1>8, SettleInv DEF ResolveDisputeDetailed

(* What was reported for has started, so that it cannot be cancelled.        *)
LEMMA CancelInv ==
  ASSUME IInv, NEW s \in Sessions, CancelSession(s)
  PROVE  IInv' /\ Moves(s, sessions[s].token, 0, sessions[s].depositAmount)
<1>1. /\ Exists(s) /\ sessions[s].status \notin {"Completed", "Cancelled"}
      /\ sessions[s].client \in Users /\ sessions[s].token \in Tokens
      /\ sessions[s].depositAmount \in Nat /\ sessions[s].startedAt = 0
      /\ pendingWithdrawals \in [Users -> [Tokens -> Nat]]
  BY InvFacts DEF CancelSession, CanCancel, Is, SessionSound, IInv, TypeOK
<1>2. ReportsOf(s) = {}
  BY <1>1, InvFacts DEF Billed
<1>3. Credited(pendingWithdrawals, pendingWithdrawals', sessions[s].token,
               sessions[s].depositAmount)
  BY <1>1, CreditedOnce DEF CancelSession
<1>. QED  BY <1>1, <1>2, <1>3, SettleInv DEF CancelSession

LEMMA ProposeInv ==
  ASSUME IInv, NEW s \in Sessions, NEW client \in Clients, NEW provider \in Providers,
         NEW rate \in Rates, NEW hours \in HourChoices, NEW tok \in Tokens,
         ProposeSession(s, client, provider, rate, hours, tok)
  PROVE  IInv' /\ rate * hours \in Nat /\ Moves(s, tok, rate * hours, 0)
<1>. PICK d \in Nat : d = rate * hours
  BY AmountsAssumption
<1>. DEFINE r == [client |-> client, provider |-> provider, token |-> tok,
                  ratePerHour |-> rate, maxHours |-> hours, depositAmount |-> d,
                  startedAt |-> 0, consumedMinutes |-> 0, proposedAt |-> now,
                  status |-> "Proposed"]
<1>1. /\ rate \in Nat /\ hours \in Nat /\ client \in Users /\ provider \in Users
      /\ NoUser \notin Users /\ now \in Nat
  BY AmountsAssumption, UsersAssumption DEF IInv, TypeOK
<1>2. /\ r \in SessionType /\ r.client = client /\ r.provider = provider /\ r.token = tok
      /\ r.ratePerHour = rate /\ r.maxHours = hours /\ r.depositAmount = d
      /\ r.startedAt = 0 /\ r.consumedMinutes = 0 /\ r.status = "Proposed"
  BY <1>1 DEF SessionType, Statuses
<1>3. /\ sessions' = [sessions EXCEPT ![s] = r] /\ ~Exists(s)
      /\ UNCHANGED <<now, reportDigestUsed, pendingWithdrawals, config>>
      /\ balance' = [balance EXCEPT ![tok] = @ + d]
  BY DEF ProposeSession
<1>. HIDE DEF r
<1>4. /\ sessions \in [Sessions -> SessionType]
      /\ \A z \in Sessions : SessionSound(z) /\ Billed(z)
  BY InvFacts
<1>5. /\ sessions' \in [Sessions -> SessionType] /\ sessions'[s] = r
      /\ \A z \in Sessions : z # s => sessions'[z] = sessions[z]
  BY <1>2, <1>3, <1>4
<1>6. \A z : ReportsOf(z)' = ReportsOf(z)
  BY <1>3 DEF ReportsOf
<1>7. sessions[s] = NoSession /\ ReportsOf(s) = {}
  BY <1>3, <1>4 DEF SessionSound, NoSession, Billed
<1>8. SessionSound(s)'
  BY <1>1, <1>2, <1>5 DEF SessionSound, Exists
<1>9. Billed(s)'
  <2>1. (0 * rate) \div 60 = 0
    BY <1>1
  <2>2. calculateCost(s)' = 0
    BY <1>2, <1>5, <2>1 DEF calculateCost
  <2>. QED  BY <1>2, <1>5, <1>6, <1>7, <2>2, MinutesEmpty DEF Billed
<1>10. \A z \in Sessions : z # s => SessionSound(z)' /\ Billed(z)'
  BY <1>4, <1>5, <1>6 DEF SessionSound, Billed, Exists, calculateCost
<1>11. Moves(s, tok, d, 0)
  <2>1. ASSUME NEW z \in Sessions, NEW t \in Tokens
        PROVE  LockedIn(z, t)' = LockedIn(z, t) + (IF z = s /\ t = tok THEN d - 0 ELSE 0)
    <3>1. CASE z = s
      BY <1>2, <1>5, <1>7, <3>1 DEF LockedIn, NoSession
    <3>2. CASE z # s
      BY <1>4, <1>5, <3>2, LockedTypes DEF LockedIn
    <3>. QED  BY <3>1, <3>2
  <2>2. Credited(pendingWithdrawals, pendingWithdrawals', tok, 0)
    <3>1. pendingWithdrawals \in [Users -> [Tokens -> Nat]]
      BY DEF IInv, TypeOK
    <3>2. \A t \in Tokens : CreditSum(pendingWithdrawals, t) \in Nat
      BY <3>1, CreditSumType
    <3>. QED  BY <1>3, <3>1, <3>2 DEF Credited
  <2>. QED  BY <1>3, <2>1, <2>2 DEF Moves
<1>12. /\ pendingWithdrawals' \in [Users -> [Tokens -> Nat]] /\ balance' \in [Tokens -> Nat]
       /\ NeverShort'
  BY <1>5, <1>11, MovesKeep
<1>13. reportDigestUsed' \subseteq Report /\ IsFiniteSet(reportDigestUsed')
  BY <1>3 DEF IInv, TypeOK
<1>. QED  BY <1>3, <1>5, <1>8, <1>9, <1>10, <1>11, <1>12, <1>13, InvFrom

(* Calls that move no money and consume no report.                           *)
LEMMA QuietInv ==
  ASSUME IInv, UNCHANGED <<now, config, reportDigestUsed, pendingWithdrawals>>,
         sessions' \in [Sessions -> SessionType],
         \A z \in Sessions : SessionSound(z)' /\ Billed(z)',
         \A z \in Sessions, t \in Tokens : LockedIn(z, t)' = LockedIn(z, t),
         balance' \in [Tokens -> Nat], \A t \in Tokens : balance'[t] >= balance[t]
  PROVE  IInv'
<1>1. NeverShort'
  BY QuietKeeps
<1>2. /\ reportDigestUsed' \subseteq Report /\ IsFiniteSet(reportDigestUsed')
      /\ pendingWithdrawals' \in [Users -> [Tokens -> Nat]]
  BY DEF IInv, TypeOK
<1>. QED  BY <1>1, <1>2, InvFrom

LEMMA AcceptInv ==
  ASSUME IInv, NEW s \in Sessions, AcceptSession(s)
  PROVE  IInv' /\ \A z \in Sessions, t \in Tokens : LockedIn(z, t)' = LockedIn(z, t)
<1>1. Exists(s) /\ sessions[s].status = "Proposed" /\ "Active" \in Statuses \ {"Proposed"}
  BY DEF AcceptSession, Is, Statuses
<1>2. /\ sessions' \in [Sessions -> SessionType]
      /\ \A z \in Sessions : SessionSound(z)' /\ Billed(z)'
      /\ \A z \in Sessions : z # s => sessions'[z] = sessions[z]
      /\ sessions'[s].token = sessions[s].token /\ sessions'[s].status = "Active"
      /\ sessions'[s].depositAmount = sessions[s].depositAmount
  BY <1>1, StatusKeeps DEF AcceptSession
<1>3. \A z \in Sessions, t \in Tokens : LockedIn(z, t)' = LockedIn(z, t)
  BY <1>1, <1>2 DEF LockedIn
<1>4. balance' \in [Tokens -> Nat] /\ \A t \in Tokens : balance'[t] >= balance[t]
  BY DEF AcceptSession, IInv, TypeOK
<1>. QED  BY <1>2, <1>3, <1>4, QuietInv DEF AcceptSession

LEMMA DisputeInv ==
  ASSUME IInv, NEW s \in Sessions, NEW value \in DisputeFees, NEW accepted \in BOOLEAN,
         DisputeSession(s, value, accepted)
  PROVE  IInv' /\ \A z \in Sessions, t \in Tokens : LockedIn(z, t)' = LockedIn(z, t)
<1>1. Exists(s) /\ sessions[s].status = "Active" /\ "Disputed" \in Statuses \ {"Proposed"}
  BY DEF DisputeSession, Is, Statuses
<1>2. /\ sessions' \in [Sessions -> SessionType]
      /\ \A z \in Sessions : SessionSound(z)' /\ Billed(z)'
      /\ \A z \in Sessions : z # s => sessions'[z] = sessions[z]
      /\ sessions'[s].token = sessions[s].token /\ sessions'[s].status = "Disputed"
      /\ sessions'[s].depositAmount = sessions[s].depositAmount
  BY <1>1, StatusKeeps DEF DisputeSession
<1>3. \A z \in Sessions, t \in Tokens : LockedIn(z, t)' = LockedIn(z, t)
  BY <1>1, <1>2 DEF LockedIn
<1>4. balance' \in [Tokens -> Nat] /\ \A t \in Tokens : balance'[t] >= balance[t]
  <2>1. value \in Nat /\ balance \in [Tokens -> Nat] /\ ETH \in Tokens
    BY AmountsAssumption DEF IInv, TypeOK
  <2>2. PICK x \in Nat : x = value - FeeForwarded(value, accepted)
    BY <2>1 DEF FeeForwarded
  <2>3. FeeForwarded(value, accepted) \in Nat
    BY <2>1 DEF FeeForwarded
  <2>4. balance[ETH] + value - FeeForwarded(value, accepted) = balance[ETH] + x
    BY <2>1, <2>2, <2>3
  <2>5. balance' = [balance EXCEPT ![ETH] = balance[ETH] + x]
    BY <2>4 DEF DisputeSession
  <2>. QED  BY <2>1, <2>2, <2>5
<1>. QED  BY <1>2, <1>3, <1>4, QuietInv DEF DisputeSession

LEMMA StartInv ==
  ASSUME IInv, NEW s \in Sessions, StartSession(s)
  PROVE  IInv' /\ \A z \in Sessions, t \in Tokens : LockedIn(z, t)' = LockedIn(z, t)
<1>. DEFINE r == [sessions[s] EXCEPT !.startedAt = now]
<1>1. /\ sessions \in [Sessions -> SessionType] /\ sessions[s] \in SessionType
      /\ \A z \in Sessions : SessionSound(z) /\ Billed(z)
      /\ Exists(s) /\ sessions[s].status = "Active" /\ sessions[s].startedAt = 0
  BY InvFacts DEF StartSession, Is
<1>2. /\ r \in SessionType /\ r.client = sessions[s].client
      /\ r.provider = sessions[s].provider /\ r.token = sessions[s].token
      /\ r.ratePerHour = sessions[s].ratePerHour /\ r.maxHours = sessions[s].maxHours
      /\ r.depositAmount = sessions[s].depositAmount /\ r.status = sessions[s].status
      /\ r.consumedMinutes = sessions[s].consumedMinutes
  BY <1>1 DEF SessionType, IInv, TypeOK
<1>3. sessions' = [sessions EXCEPT ![s] = r]
  BY <1>1 DEF StartSession
<1>. HIDE DEF r
<1>4. /\ sessions' \in [Sessions -> SessionType] /\ sessions'[s] = r
      /\ \A z \in Sessions : z # s => sessions'[z] = sessions[z]
  BY <1>1, <1>2, <1>3
<1>5. \A z : ReportsOf(z)' = ReportsOf(z)
  BY DEF ReportsOf, StartSession
<1>6. ReportsOf(s) = {}
  BY <1>1 DEF Billed
<1>7. SessionSound(s)' /\ Billed(s)'
  BY <1>1, <1>2, <1>4, <1>5, <1>6 DEF SessionSound, Billed, Exists, calculateCost
<1>8. \A z \in Sessions : z # s => SessionSound(z)' /\ Billed(z)'
  BY <1>1, <1>4, <1>5 DEF SessionSound, Billed, Exists, calculateCost
<1>9. \A z \in Sessions, t \in Tokens : LockedIn(z, t)' = LockedIn(z, t)
  BY <1>2, <1>4 DEF LockedIn
<1>10. balance' \in [Tokens -> Nat] /\ \A t \in Tokens : balance'[t] >= balance[t]
  BY DEF StartSession, IInv, TypeOK
<1>. QED  BY <1>4, <1>7, <1>8, <1>9, <1>10, QuietInv DEF StartSession

(* A report adds its minutes, once, to the bill of a session that runs.      *)
LEMMA ReportInv ==
  ASSUME IInv, NEW r \in Report, SubmitUsageReport(r.session, r)
  PROVE  IInv' /\ \A z \in Sessions, t \in Tokens : LockedIn(z, t)' = LockedIn(z, t)
<1>. PICK s \in Sessions : s = r.session
  BY DEF Report
<1>. PICK m \in Nat : m = r.computeMinutes
  BY AmountsAssumption DEF Report
<1>. DEFINE b == [sessions[s] EXCEPT !.consumedMinutes = @ + m]
<1>1. /\ sessions \in [Sessions -> SessionType] /\ sessions[s] \in SessionType
      /\ \A z \in Sessions : SessionSound(z) /\ Billed(z)
      /\ Exists(s) /\ sessions[s].status = "Active" /\ sessions[s].startedAt > 0
      /\ sessions[s].consumedMinutes \in Nat /\ sessions[s].startedAt \in Nat
  BY InvFacts DEF SubmitUsageReport, Is
<1>2. /\ b \in SessionType /\ b.client = sessions[s].client
      /\ b.provider = sessions[s].provider /\ b.token = sessions[s].token
      /\ b.ratePerHour = sessions[s].ratePerHour /\ b.maxHours = sessions[s].maxHours
      /\ b.depositAmount = sessions[s].depositAmount /\ b.status = "Active"
      /\ b.startedAt = sessions[s].startedAt
      /\ b.consumedMinutes = sessions[s].consumedMinutes + m
  BY <1>1 DEF SessionType
<1>3. sessions' = [sessions EXCEPT ![s] = b]
  BY <1>1 DEF SubmitUsageReport
<1>. HIDE DEF b
<1>4. /\ sessions' \in [Sessions -> SessionType] /\ sessions'[s] = b
      /\ \A z \in Sessions : z # s => sessions'[z] = sessions[z]
  BY <1>1, <1>2, <1>3
<1>5. /\ r \notin reportDigestUsed /\ reportDigestUsed' = reportDigestUsed \cup {r}
      /\ sessions[s].startedAt <= r.periodStart
      /\ sessions[s].consumedMinutes + m <= sessions[s].maxHours * MINUTES_PER_HOUR
  BY DEF SubmitUsageReport, ValidPeriod, WithinCap
<1>6. /\ ReportsOf(s)' = ReportsOf(s) \cup {r}
      /\ \A z \in Sessions : z # s => ReportsOf(z)' = ReportsOf(z)
      /\ r \notin ReportsOf(s)
  BY <1>5 DEF ReportsOf
<1>7. SessionSound(s)'
  BY <1>1, <1>2, <1>4, <1>5 DEF SessionSound, Exists
<1>8. Minutes(ReportsOf(s) \cup {r}) = Minutes(ReportsOf(s)) + m
  <2>1. IsFiniteSet(ReportsOf(s))
    BY FS_Subset DEF ReportsOf, IInv
  <2>2. \A x \in ReportsOf(s) \cup {r} : x.computeMinutes \in Int
    BY AmountsAssumption DEF ReportsOf, IInv, TypeOK, Report
  <2>. QED  BY <1>6, <2>1, <2>2, MinutesAdd
<1>9. Billed(s)'
  <2>1. sessions'[s].consumedMinutes = Minutes(ReportsOf(s)')
    <3>1. sessions[s].consumedMinutes = Minutes(ReportsOf(s))
      BY <1>1 DEF Billed
    <3>. QED  BY <1>2, <1>4, <1>6, <1>8, <3>1
  <2>2. \A x \in ReportsOf(s)' :
          0 < sessions'[s].startedAt /\ sessions'[s].startedAt <= x.periodStart
    BY <1>1, <1>2, <1>4, <1>5, <1>6 DEF Billed
  <2>3. (calculateCost(s) <= sessions[s].depositAmount)'
    <3>1. /\ b.consumedMinutes \in Nat /\ b.maxHours \in Nat /\ b.ratePerHour \in Nat
          /\ b.depositAmount = b.ratePerHour * b.maxHours
          /\ b.consumedMinutes <= b.maxHours * 60
      BY <1>1, <1>2, <1>5 DEF SessionSound, SessionType
    <3>2. (b.consumedMinutes * b.ratePerHour) \div 60 <= b.depositAmount
      BY <3>1, CostBounded
    <3>. QED  BY <1>4, <3>2 DEF calculateCost
  <2>4. sessions'[s].status # "Cancelled"
    BY <1>2, <1>4
  <2>5. calculateCost(s)' <= sessions'[s].depositAmount
    BY <2>3
  <2>. QED  BY <2>1, <2>2, <2>4, <2>5 DEF Billed
<1>10. \A z \in Sessions : z # s => SessionSound(z)' /\ Billed(z)'
  BY <1>1, <1>4, <1>6 DEF SessionSound, Billed, Exists, calculateCost
<1>11. \A z \in Sessions, t \in Tokens : LockedIn(z, t)' = LockedIn(z, t)
  BY <1>1, <1>2, <1>4 DEF LockedIn
<1>12. /\ balance' \in [Tokens -> Nat] /\ \A t \in Tokens : balance'[t] >= balance[t]
       /\ pendingWithdrawals' \in [Users -> [Tokens -> Nat]]
       /\ UNCHANGED <<now, config, pendingWithdrawals>>
  BY DEF SubmitUsageReport, IInv, TypeOK
<1>13. NeverShort'
  BY <1>4, <1>11, <1>12, QuietKeeps
<1>14. reportDigestUsed' \subseteq Report /\ IsFiniteSet(reportDigestUsed')
  BY <1>5, FS_AddElement DEF IInv, TypeOK
<1>. QED  BY <1>4, <1>7, <1>9, <1>10, <1>11, <1>12, <1>13, <1>14, InvFrom

(* A credit is never more than the contract holds.                           *)
LEMMA WithdrawInv ==
  ASSUME IInv, NEW user \in Users, NEW tok \in Tokens, Withdraw(user, tok)
  PROVE  IInv' /\ \A z \in Sessions, t \in Tokens : LockedIn(z, t)' = LockedIn(z, t)
<1>. PICK x \in Nat : x = pendingWithdrawals[user][tok]
  BY DEF IInv, TypeOK
<1>1. /\ pendingWithdrawals \in [Users -> [Tokens -> Nat]] /\ balance \in [Tokens -> Nat]
      /\ pendingWithdrawals' = [pendingWithdrawals EXCEPT ![user][tok] = 0]
      /\ balance' = [balance EXCEPT ![tok] = @ - x]
      /\ UNCHANGED <<now, sessions, reportDigestUsed, config>>
  BY DEF Withdraw, IInv, TypeOK
<1>2. /\ sessions' \in [Sessions -> SessionType]
      /\ \A z \in Sessions : SessionSound(z)' /\ Billed(z)'
      /\ \A z, t : LockedIn(z, t)' = LockedIn(z, t)
  BY <1>1, SessionsSame
<1>3. /\ pendingWithdrawals' \in [Users -> [Tokens -> Nat]]
      /\ \A u \in Users, t \in Tokens : pendingWithdrawals'[u][t]
           = IF u = user /\ t = tok THEN 0 ELSE pendingWithdrawals[u][t]
  BY <1>1
<1>4. ASSUME NEW t \in Tokens
      PROVE  CreditSum(pendingWithdrawals', t)
               = CreditSum(pendingWithdrawals, t) - (IF t = tok THEN x ELSE 0)
  <2> DEFINE f == [u \in Users |-> pendingWithdrawals[u][t]]
             g == [u \in Users |-> pendingWithdrawals'[u][t]]
  <2>1. \A u \in Users : f[u] \in Int /\ g[u] \in Int
    BY <1>1, <1>3
  <2>2. \A u \in Users \ {user} : g[u] = f[u]
    BY <1>3
  <2>3. f[user] - g[user] = (IF t = tok THEN x ELSE 0)
    BY <1>1, <1>3
  <2>4. CreditSum(pendingWithdrawals, t) = SumFunctionOnSet(f, Users)
          /\ CreditSum(pendingWithdrawals', t) = SumFunctionOnSet(g, Users)
    BY DEF CreditSum
  <2>. HIDE DEF f, g
  <2>5. SumFunctionOnSet(g, Users) = SumFunctionOnSet(f, Users) - f[user] + g[user]
    BY <2>1, <2>2, SumChange, UsersAssumption
  <2>6. f[user] \in Int /\ g[user] \in Int /\ SumFunctionOnSet(f, Users) \in Int
    BY <2>1, SumType, UsersAssumption
  <2>. QED  BY <2>3, <2>4, <2>5, <2>6
<1>5. \A t \in Tokens : /\ LockedSum(t)' = LockedSum(t) /\ LockedSum(t) \in Nat
                        /\ CreditSum(pendingWithdrawals, t) \in Nat
                        /\ LockedSum(t) + CreditSum(pendingWithdrawals, t) <= balance[t]
  BY <1>1, <1>2, LockedTypes, CreditSumType DEF LockedSum, IInv, TypeOK, NeverShort
<1>6. x <= balance[tok]
  <2>1. x <= CreditSum(pendingWithdrawals, tok)
    BY <1>1, CreditSumType
  <2>. QED  BY <1>1, <1>5, <2>1
<1>7. /\ balance' \in [Tokens -> Nat]
      /\ \A t \in Tokens : balance'[t] = balance[t] - (IF t = tok THEN x ELSE 0)
  BY <1>1, <1>6
<1>8. NeverShort'
  <2> SUFFICES ASSUME NEW t \in Tokens
               PROVE  LockedSum(t)' + CreditSum(pendingWithdrawals', t) <= balance'[t]
    BY DEF NeverShort
  <2>1. balance[t] \in Nat
    BY <1>1
  <2>. QED  BY <1>4, <1>5, <1>7, <2>1
<1>9. reportDigestUsed' \subseteq Report /\ IsFiniteSet(reportDigestUsed')
  BY <1>1 DEF IInv, TypeOK
<1>. QED  BY <1>1, <1>2, <1>3, <1>7, <1>8, <1>9, InvFrom

(* The clock, the owner's configuration, and steps that change nothing.      *)
Idles == UNCHANGED <<sessions, reportDigestUsed, pendingWithdrawals, balance>>

Configures ==
  \/ Tick
  \/ \E bps \in FeeChoices : SetProtocolFee(bps)
  \/ \E user \in Treasuries \cup {NoUser} : SetProtocolTreasury(user)
  \/ \E set \in ArbitrationSet : SetDisputeArbitration(set)
  \/ UNCHANGED vars

LEMMA ConfigInv ==
  ASSUME IInv, Configures
  PROVE  IInv' /\ Idles
<1>1. Idles
  BY DEF Configures, Tick, SetProtocolFee, SetProtocolTreasury, SetDisputeArbitration, vars, Idles
<1>2. /\ now' \in Nat \ {0}
      /\ protocolFeeBps' \in 0..MAX_PROTOCOL_FEE_BPS
      /\ protocolTreasury' \in Users \cup {NoUser}
      /\ daSet' \in BOOLEAN
  <2>1. /\ now \in Nat \ {0} /\ protocolFeeBps \in 0..MAX_PROTOCOL_FEE_BPS
        /\ protocolTreasury \in Users \cup {NoUser} /\ daSet \in BOOLEAN
    BY DEF IInv, TypeOK
  <2>2. CASE Tick
    BY <2>1, <2>2 DEF Tick, config
  <2>3. ASSUME NEW bps \in FeeChoices, SetProtocolFee(bps) PROVE <1>2!:
    BY <2>1, <2>3, AmountsAssumption DEF SetProtocolFee
  <2>4. ASSUME NEW user \in Treasuries \cup {NoUser}, SetProtocolTreasury(user) PROVE <1>2!:
    BY <2>1, <2>4, UsersAssumption DEF SetProtocolTreasury
  <2>5. ASSUME NEW set \in ArbitrationSet, SetDisputeArbitration(set) PROVE <1>2!:
    BY <2>1, <2>5, AmountsAssumption DEF SetDisputeArbitration
  <2>6. CASE UNCHANGED vars
    BY <2>1, <2>6 DEF vars
  <2>. QED  BY <2>2, <2>3, <2>4, <2>5, <2>6 DEF Configures
<1>3. /\ sessions' \in [Sessions -> SessionType]
      /\ \A z \in Sessions : SessionSound(z)' /\ Billed(z)'
      /\ \A z, t : LockedIn(z, t)' = LockedIn(z, t)
  BY <1>1, SessionsSame DEF Idles
<1>4. /\ pendingWithdrawals' \in [Users -> [Tokens -> Nat]] /\ balance' \in [Tokens -> Nat]
      /\ reportDigestUsed' \subseteq Report /\ IsFiniteSet(reportDigestUsed')
      /\ \A t \in Tokens : balance'[t] >= balance[t]
  BY <1>1 DEF IInv, TypeOK, Idles
<1>5. TypeOK'
  BY <1>2, <1>3, <1>4 DEF TypeOK
<1>6. NeverShort'
  BY <1>1, <1>3, <1>4, QuietKeeps DEF Idles
<1>7. BilledOnce'
  <2>1. AllBilled'
    BY <1>3 DEF AllBilled
  <2>. QED  BY <2>1, BilledIs, PTL
<1>. QED  BY <1>1, <1>3, <1>4, <1>5, <1>6, <1>7 DEF IInv

LEMMA NextIInv == IInv /\ [Next]_vars => IInv'
<1> SUFFICES ASSUME IInv, [Next]_vars PROVE IInv'
  OBVIOUS
<1>1. CASE Configures
  BY <1>1, ConfigInv
<1>2. CASE OwnerNext
  BY <1>1, <1>2, ResolveInv DEF OwnerNext, Configures
<1>3. CASE ClientNext
  BY <1>3, ProposeInv, DisputeInv, CancelInv DEF ClientNext
<1>4. CASE ProviderNext
  BY <1>4, AcceptInv, StartInv, ReportInv DEF ProviderNext
<1>5. CASE \E s \in Sessions : EndSession(s)
  BY <1>5, EndInv
<1>6. CASE \E user \in Users, tok \in Tokens : Withdraw(user, tok)
  BY <1>6, WithdrawInv
<1>. QED  BY <1>1, <1>2, <1>3, <1>4, <1>5, <1>6 DEF Next, Configures

-----------------------------------------------------------------------------
(* Theorems. *)

LEMMA InvHolds == Spec => []IInv
BY InitIInv, NextIInv, PTL DEF Spec

(* Type correctness: no subtraction behind a credit or a withdrawal          *)
(* underflows, whoever calls what in which order.                            *)
THEOREM TypeCorrect == Spec => []TypeOK
<1>1. IInv => TypeOK
  BY DEF IInv
<1>. QED  BY <1>1, InvHolds, PTL

(* What a session bills is what its distinct reports add up to, which the    *)
(* deposit covers, and nothing that was reported for can be cancelled.       *)
THEOREM BilledCorrect == Spec => []BilledOnce
<1>1. IInv => BilledOnce
  BY DEF IInv
<1>. QED  BY <1>1, InvHolds, PTL

(* The contract holds enough for every deposit it still has locked and every *)
(* credit it owes, also when ETH that came along with a dispute stays in it. *)
THEOREM PaysEverybody == Spec => []NeverShort
<1>1. IInv => NeverShort
  BY DEF IInv
<1>. QED  BY <1>1, InvHolds, PTL

(* What a step may do to a settled or a disputed session. *)
SettledStep ==
  \A s \in Sessions :
    /\ sessions[s].status = "Disputed" =>
         \/ sessions'[s] = sessions[s]
         \/ sessions'[s] = [sessions[s] EXCEPT !.status = "Completed"]
    /\ sessions[s].status \in {"Completed", "Cancelled"} => sessions'[s] = sessions[s]

LEMMA SettledSame == UNCHANGED sessions => SettledStep
BY DEF SettledStep

LEMMA SettledOther ==
  ASSUME NEW s \in Sessions, \A z \in Sessions : z # s => sessions'[z] = sessions[z],
         \/ sessions[s].status \notin {"Disputed", "Completed", "Cancelled"}
         \/ /\ sessions[s].status = "Disputed"
            /\ sessions'[s] = [sessions[s] EXCEPT !.status = "Completed"]
  PROVE  SettledStep
BY DEF SettledStep

LEMMA StepSettled == IInv /\ [Next]_vars => SettledStep
<1> SUFFICES ASSUME IInv, [Next]_vars PROVE SettledStep
  OBVIOUS
<1>. sessions \in [Sessions -> SessionType]
  BY DEF IInv, TypeOK
<1>1. CASE Configures
  BY <1>1, ConfigInv, SettledSame DEF Idles
<1>2. ASSUME NEW s \in Sessions,
             \/ EndSession(s) \/ CancelSession(s) \/ AcceptSession(s) \/ StartSession(s)
             \/ \E value \in DisputeFees, accepted \in BOOLEAN : DisputeSession(s, value, accepted)
             \/ \E r \in Report : r.session = s /\ SubmitUsageReport(s, r)
      PROVE  SettledStep
  <2>1. sessions[s].status \notin {"Disputed", "Completed", "Cancelled"}
    BY <1>2 DEF EndSession, CancelSession, CanCancel, AcceptSession, StartSession,
                DisputeSession, SubmitUsageReport, Is
  <2>2. \A z \in Sessions : z # s => sessions'[z] = sessions[z]
    BY <1>2 DEF EndSession, CancelSession, AcceptSession, StartSession,
                DisputeSession, SubmitUsageReport
  <2>. QED  BY <2>1, <2>2, SettledOther
<1>3. ASSUME NEW s \in Sessions, NEW client, NEW provider, NEW rate, NEW hours, NEW tok,
             ProposeSession(s, client, provider, rate, hours, tok)
      PROVE  SettledStep
  <2>1. sessions[s] = NoSession
    BY <1>3, InvFacts DEF ProposeSession, SessionSound
  <2>2. sessions[s].status \notin {"Disputed", "Completed", "Cancelled"}
    BY <2>1 DEF NoSession
  <2>3. \A z \in Sessions : z # s => sessions'[z] = sessions[z]
    BY <1>3 DEF ProposeSession
  <2>. QED  BY <2>2, <2>3, SettledOther
<1>4. ASSUME NEW s \in Sessions, NEW outcome, NEW p, NEW c,
             ResolveDisputeDetailed(s, outcome, p, c)
      PROVE  SettledStep
  <2>1. /\ sessions[s].status = "Disputed"
        /\ sessions'[s] = [sessions[s] EXCEPT !.status = "Completed"]
        /\ \A z \in Sessions : z # s => sessions'[z] = sessions[z]
    BY <1>4 DEF ResolveDisputeDetailed, Is
  <2>. QED  BY <2>1, SettledOther
<1>5. CASE \E user \in Users, tok \in Tokens : Withdraw(user, tok)
  BY <1>5, SettledSame DEF Withdraw
<1>6. CASE OwnerNext
  BY <1>1, <1>4, <1>6 DEF OwnerNext, Configures
<1>7. CASE ClientNext
  BY <1>2, <1>3, <1>7 DEF ClientNext
<1>8. CASE ProviderNext
  BY <1>2, <1>8 DEF ProviderNext, Report
<1>. QED  BY <1>1, <1>2, <1>5, <1>6, <1>7, <1>8 DEF Next, Configures

(* A disputed session is frozen until one step completes it, and a settled   *)
(* one never changes again.                                                  *)
THEOREM SessionsSettleOnce == Spec => SettledOnce
<1>1. IInv /\ [Next]_vars => [SettledStep]_vars
  BY StepSettled
<1>2. Spec => [][SettledStep]_vars
  BY <1>1, InvHolds, PTL DEF Spec
<1>3. [][SettledStep]_vars => SettledOnce
  BY PTL DEF SettledOnce, SettledStep
<1>. QED  BY <1>2, <1>3, PTL

-----------------------------------------------------------------------------
(* The escrow of EscrowLedger. *)
LEMMA LedgerTotal ==
  ASSUME NEW pw, NEW t, pw \in [Users -> [Tokens -> Nat]]
  PROVE  Ledger!Total(pw, t) = CreditSum(pw, t)
<1> DEFINE f == [u \in Users |-> pw[u][t]]
<1>1. Ledger!Total(pw, t) = Ledger!SumFunction(f) /\ DOMAIN f = Users
  BY DEF Ledger!Total
<1>. HIDE DEF f
<1>2. Ledger!SumFunction(f) = SumFunctionOnSet(f, DOMAIN f)
  BY DEF Ledger!SumFunction, Ledger!SumFunctionOnSet, Ledger!FoldFunctionOnSet,
         Ledger!MapThenFoldSet, SumFunctionOnSet, FoldFunctionOnSet, MapThenFoldSet
<1>. QED  BY <1>1, <1>2 DEF CreditSum, f

LEMMA LedgerTyped == IInv => Ledger!LedgerType
<1> SUFFICES ASSUME IInv PROVE Ledger!LedgerType
  OBVIOUS
<1>1. \A z \in Sessions, t \in Tokens : LockedIn(z, t) \in Nat
  BY LockedTypes DEF IInv, TypeOK
<1>. QED  BY <1>1 DEF Ledger!LedgerType, IInv, TypeOK

LEMMA MovesImplement ==
  ASSUME IInv, IInv', NEW s \in Sessions, NEW tok \in Tokens, NEW in \in Nat, NEW out \in Nat,
         Moves(s, tok, in, out)
  PROVE  Ledger!Move(s)
<1>1. Ledger!LedgerType'
  BY LedgerTyped, PTL
<1>2. \A z \in Sessions, t \in Tokens : LockedIn(z, t) \in Nat
  BY LockedTypes DEF IInv, TypeOK
<1>3. \A z \in Sessions \ {s} :
        [t \in Tokens |-> LockedIn(z, t)'] = [t \in Tokens |-> LockedIn(z, t)]
  BY <1>2 DEF Moves
<1>4. ASSUME NEW t \in Tokens
      PROVE  /\ \A u \in Users : pendingWithdrawals'[u][t] >= pendingWithdrawals[u][t]
             /\ balance'[t] >= balance[t]
             /\ balance'[t] - balance[t]
                  = (LockedIn(s, t)' - LockedIn(s, t))
                      + (Ledger!Total(pendingWithdrawals', t)
                           - Ledger!Total(pendingWithdrawals, t))
  <2>1. /\ pendingWithdrawals \in [Users -> [Tokens -> Nat]]
        /\ pendingWithdrawals' \in [Users -> [Tokens -> Nat]]
        /\ CreditSum(pendingWithdrawals', t)
             = CreditSum(pendingWithdrawals, t) + (IF t = tok THEN out ELSE 0)
        /\ \A u \in Users : pendingWithdrawals'[u][t] >= pendingWithdrawals[u][t]
    BY DEF Moves, Credited, IInv, TypeOK
  <2>2. /\ Ledger!Total(pendingWithdrawals', t) = CreditSum(pendingWithdrawals', t)
        /\ Ledger!Total(pendingWithdrawals, t) = CreditSum(pendingWithdrawals, t)
        /\ CreditSum(pendingWithdrawals, t) \in Nat
    BY <2>1, LedgerTotal, CreditSumType
  <2>3. /\ balance[t] \in Nat /\ LockedIn(s, t) \in Nat
        /\ balance'[t] = balance[t] + (IF t = tok THEN in ELSE 0)
        /\ LockedIn(s, t)' = LockedIn(s, t) + (IF t = tok THEN in - out ELSE 0)
    BY <1>2 DEF Moves, IInv, TypeOK
  <2>. QED  BY <2>1, <2>2, <2>3
<1>. QED  BY <1>1, <1>3, <1>4 DEF Ledger!Move

LEMMA LedgerSame ==
  ASSUME \A z \in Sessions, t \in Tokens : LockedIn(z, t)' = LockedIn(z, t),
         UNCHANGED <<pendingWithdrawals, balance>>
  PROVE  UNCHANGED Ledger!ledger
BY DEF Ledger!ledger

LEMMA InitLedger == Init => Ledger!Init
<1> SUFFICES ASSUME Init PROVE Ledger!Init
  OBVIOUS
<1>1. \A z \in Sessions, t \in Tokens : LockedIn(z, t) = 0
  BY DEF Init, LockedIn, NoSession
<1>. QED  BY <1>1 DEF Ledger!Init, Init

(* Every call moves money as the abstract escrow allows, or not at all.      *)
LEMMA StepLedger ==
  ASSUME DisputeFees \subseteq {0}
  PROVE  IInv /\ IInv' /\ [Next]_vars => [Ledger!Next]_Ledger!ledger
<1> SUFFICES ASSUME IInv, IInv', [Next]_vars PROVE [Ledger!Next]_Ledger!ledger
  OBVIOUS
<1>1. CASE Configures
  <2>1. \A z \in Sessions, t \in Tokens : LockedIn(z, t)' = LockedIn(z, t)
    BY <1>1, ConfigInv, SessionsSame DEF Idles
  <2>. QED  BY <1>1, <2>1, ConfigInv, LedgerSame DEF Idles
<1>2. ASSUME NEW s \in Sessions,
             \/ EndSession(s) \/ CancelSession(s)
             \/ \E outcome \in {"PROVIDER_WINS", "CLIENT_WINS", "SPLIT"}, p, c \in Awards :
                  ResolveDisputeDetailed(s, outcome, p, c)
      PROVE  Ledger!Move(s)
  <2>1. Moves(s, sessions[s].token, 0, sessions[s].depositAmount)
    BY <1>2, EndInv, CancelInv, ResolveInv
  <2>2. sessions[s].token \in Tokens /\ sessions[s].depositAmount \in Nat
    BY InvFacts
  <2>. QED  BY <2>1, <2>2, MovesImplement
<1>3. ASSUME NEW s \in Sessions, NEW client \in Clients, NEW provider \in Providers,
             NEW rate \in Rates, NEW hours \in HourChoices, NEW tok \in Tokens,
             ProposeSession(s, client, provider, rate, hours, tok)
      PROVE  Ledger!Move(s)
  <2>. PICK d \in Nat : d = rate * hours /\ Moves(s, tok, d, 0)
    BY <1>3, ProposeInv
  <2>. QED  BY MovesImplement
<1>4. ASSUME NEW s \in Sessions,
             \/ AcceptSession(s) \/ StartSession(s)
             \/ \E value \in DisputeFees, accepted \in BOOLEAN : DisputeSession(s, value, accepted)
      PROVE  UNCHANGED Ledger!ledger
  <2>1. \A z \in Sessions, t \in Tokens : LockedIn(z, t)' = LockedIn(z, t)
    BY <1>4, AcceptInv, StartInv, DisputeInv
  <2>2. UNCHANGED <<pendingWithdrawals, balance>>
    <3>1. CASE AcceptSession(s) \/ StartSession(s)
      BY <3>1 DEF AcceptSession, StartSession
    <3>2. ASSUME NEW value \in DisputeFees, NEW accepted \in BOOLEAN,
                 DisputeSession(s, value, accepted)
          PROVE  UNCHANGED <<pendingWithdrawals, balance>>
      <4>1. value = 0 /\ FeeForwarded(value, accepted) = 0
        BY DEF FeeForwarded
      <4>2. balance \in [Tokens -> Nat] /\ ETH \in Tokens
        BY AmountsAssumption DEF IInv, TypeOK
      <4>3. balance[ETH] + value - FeeForwarded(value, accepted) = balance[ETH]
        BY <4>1, <4>2
      <4>. QED  BY <3>2, <4>2, <4>3 DEF DisputeSession
    <3>. QED  BY <1>4, <3>1, <3>2
  <2>. QED  BY <2>1, <2>2, LedgerSame
<1>5. ASSUME NEW r \in Report, SubmitUsageReport(r.session, r)
      PROVE  UNCHANGED Ledger!ledger
  BY <1>5, ReportInv, LedgerSame DEF SubmitUsageReport
<1>6. ASSUME NEW user \in Users, NEW tok \in Tokens, Withdraw(user, tok)
      PROVE  Ledger!Pay(user, tok)
  <2>1. \A z \in Sessions, t \in Tokens : LockedIn(z, t)' = LockedIn(z, t)
    BY <1>6, WithdrawInv
  <2>. QED  BY <1>6, <2>1 DEF Ledger!Pay, Withdraw
<1>7. CASE OwnerNext
  BY <1>1, <1>2, <1>7 DEF OwnerNext, Configures, Ledger!Next
<1>8. CASE ClientNext
  BY <1>2, <1>3, <1>4, <1>8 DEF ClientNext, Ledger!Next
<1>9. CASE ProviderNext
  BY <1>4, <1>5, <1>9 DEF ProviderNext
<1>. QED
  BY <1>1, <1>2, <1>6, <1>7, <1>8, <1>9 DEF Next, Configures, Ledger!Next

(* As long as no ETH is sent along with a dispute, the contract is a         *)
(* pull-payment escrow: it holds what is locked and what is owed, and        *)
(* nothing else.                                                             *)
THEOREM LedgerImplemented ==
  ASSUME DisputeFees \subseteq {0}
  PROVE  Spec => ImplementsLedger
<1>1. IInv /\ IInv' /\ [Next]_vars => [Ledger!Next]_Ledger!ledger
  BY StepLedger
<1>. QED  BY <1>1, InitLedger, InvHolds, PTL DEF Spec, ImplementsLedger, Ledger!Spec
=============================================================================
