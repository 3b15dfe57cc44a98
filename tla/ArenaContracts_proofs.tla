----------------------- MODULE ArenaContracts_proofs ------------------------
(***************************************************************************)
(* Proofs about the arena's contracts that keep no common state but the    *)
(* agent registry: the split of a squad's revenue, squads and their         *)
(* briefings, status updates, artifacts and newsletters.                   *)
(***************************************************************************)
EXTENDS SquadBriefing, StatusRegistry, SquadRevenueSplit, IntelligenceRegistry, AgentNewsletter,
        SumTheorems

-----------------------------------------------------------------------------
(* The split of a squad's revenue.                                          *)
Places == 1..Len(Split)

Floor(i, total) == (total * Split[i].bps) \div BASIS_POINTS

LEMMA SplitFacts ==
  /\ Len(Split) \in Nat \ {0} /\ IsFiniteSet(Places) /\ DOMAIN Split = Places
  /\ \A i \in Places : Split[i].to \in Recipients /\ Split[i].bps \in Nat
  /\ SumFunctionOnSet([i \in Places |-> Split[i].bps], Places) = BASIS_POINTS
  /\ IsFiniteSet(Recipients)
<1>1. Split \in Seq([to : Recipients, bps : Nat \ {0}]) /\ Split # <<>> /\ IsFiniteSet(Recipients)
  BY SquadRevenueSplitAssumption
<1>2. DOMAIN Split = Places /\ Len(Split) \in Nat /\ Len(Split) # 0
  BY <1>1 DEF Places
<1>3. \A i \in Places : Split[i] \in [to : Recipients, bps : Nat \ {0}]
  <2>1. \A S : Split \in Seq(S) => \A i \in 1..Len(Split) : Split[i] \in S
    OBVIOUS
  <2>. QED  BY <1>1, <2>1 DEF Places
<1>4. \A i \in Places : Split[i].to \in Recipients /\ Split[i].bps \in Nat
  BY <1>3
<1>5. IsFiniteSet(Places)
  BY <1>2, FS_Interval DEF Places
<1> DEFINE bps == [i \in Places |-> Split[i].bps]
<1>6. SumFunction(bps) = BASIS_POINTS /\ DOMAIN bps = Places
  BY <1>2, SquadRevenueSplitAssumption
<1>. HIDE DEF bps
<1>7. SumFunctionOnSet(bps, Places) = BASIS_POINTS
  BY <1>6 DEF SumFunction
<1>. QED  BY <1>1, <1>2, <1>4, <1>5, <1>7 DEF bps

(* All the shares of a total, each rounded down, are together no more than   *)
(* the total.                                                               *)
LEMMA FloorsFit ==
  ASSUME NEW total \in Nat
  PROVE  /\ \A i \in Places : Floor(i, total) \in Nat
         /\ SumFunctionOnSet([i \in Places |-> Floor(i, total)], Places) <= total
<1> DEFINE bps == [i \in Places |-> Split[i].bps]
           floors == [i \in Places |-> Floor(i, total)]
<1>1. BASIS_POINTS \in Nat /\ BASIS_POINTS > 0 /\ 1 * BASIS_POINTS = BASIS_POINTS
  BY DEF BASIS_POINTS
<1>2. ASSUME NEW i \in Places
      PROVE  /\ Floor(i, total) \in Nat
             /\ (1 * BASIS_POINTS) * Floor(i, total) <= Split[i].bps * total
  <2>1. PICK b \in Nat : b = Split[i].bps
    BY SplitFacts
  <2>2. total * b \in Nat /\ total * b = b * total
    BY TimesBounds
  <2>3. Floor(i, total) = (total * b) \div BASIS_POINTS
    BY <2>1 DEF Floor
  <2>. QED  BY <1>1, <2>1, <2>2, <2>3, QuotientBounds
<1>3. /\ \A i \in Places : /\ bps[i] \in Nat /\ floors[i] \in Nat
                           /\ (1 * BASIS_POINTS) * floors[i] <= bps[i] * total
      /\ BASIS_POINTS = SumFunctionOnSet(bps, Places)
  BY <1>2, SplitFacts
<1>. HIDE DEF bps, floors
<1>4. 1 * SumFunctionOnSet(floors, Places) <= total
  BY <1>1, <1>3, SplitFacts, SharesFit
<1>5. SumFunctionOnSet(floors, Places) \in Nat
  BY <1>3, SplitFacts, SumNat
<1>. QED  BY <1>2, <1>4, <1>5 DEF floors

(* The last recipient takes what is left, so that the shares of a total are *)
(* the total.                                                               *)
LEMMA SharesAreTotal ==
  ASSUME NEW total \in Nat
  PROVE  /\ \A i \in Places : ShareAt(i, total) \in Nat
         /\ SumFunctionOnSet([i \in Places |-> ShareAt(i, total)], Places) = total
<1> DEFINE floors == [i \in Places |-> Floor(i, total)]
           shares == [i \in Places |-> ShareAt(i, total)]
           n == Len(Split)
           before == 1..(n - 1)
           others == [j \in before |-> (total * Split[j].bps) \div BASIS_POINTS]
<1>1. /\ n \in Places /\ before = Places \ {n} /\ IsFiniteSet(before) /\ IsFiniteSet(Places)
      /\ \A i \in before : i # n
  <2>1. n \in Nat \ {0} /\ Places = 1..n /\ IsFiniteSet(Places)
    BY SplitFacts DEF Places
  <2>2. n \in 1..n /\ before = (1..n) \ {n} /\ \A i \in before : i # n
    <3>. HIDE DEF n
    <3>. QED  BY <2>1
  <2>3. before \subseteq Places
    BY <2>1, <2>2
  <2>. HIDE DEF n, before
  <2>4. IsFiniteSet(before)
    BY <2>1, <2>3, FS_Subset
  <2>. QED  BY <2>1, <2>2, <2>4
<1>2. /\ \A i \in Places : floors[i] \in Nat /\ floors[i] \in Int
      /\ SumFunctionOnSet(floors, Places) <= total
  BY FloorsFit
<1>3. others = [j \in before |-> floors[j]] /\ DOMAIN others = before
  BY <1>1 DEF Floor
<1>4. /\ \A j \in before : others[j] = floors[j] /\ floors[j] \in Int
      /\ SumFunction(others) = SumFunctionOnSet(others, before)
  <2>1. \A j \in before : others[j] = floors[j] /\ floors[j] \in Int
    BY <1>1, <1>2, <1>3
  <2>. HIDE DEF others, floors, before
  <2>2. SumFunction(others) = SumFunctionOnSet(others, before)
    BY <1>3 DEF SumFunction
  <2>. QED  BY <2>1, <2>2
<1>5. /\ \A i \in before : shares[i] = floors[i]
      /\ shares[n] = total - SumFunction(others)
  <2>1. \A i \in before : ShareAt(i, total) = Floor(i, total)
    BY <1>1 DEF ShareAt, Floor
  <2>2. ShareAt(n, total) = total - SumFunction(others)
    BY DEF ShareAt, Total
  <2>. QED  BY <1>1, <2>1, <2>2
<1>. HIDE DEF floors, shares, others, n, before
<1>6. SumFunctionOnSet(others, before) = SumFunctionOnSet(floors, before)
  BY <1>1, <1>4, SumSame
<1>7. SumFunctionOnSet(floors, Places) = floors[n] + SumFunctionOnSet(floors, before)
  BY <1>1, <1>2, SumRemove
<1>8. SumFunctionOnSet(floors, before) \in Int
  BY <1>1, <1>4, SumType
<1>9. shares[n] = total - SumFunctionOnSet(floors, before) /\ shares[n] \in Nat
  BY <1>1, <1>2, <1>4, <1>5, <1>6, <1>7, <1>8
<1>10. \A i \in Places : shares[i] \in Nat /\ shares[i] \in Int
  BY <1>1, <1>2, <1>5, <1>9
<1>11. SumFunctionOnSet(shares, before) = SumFunctionOnSet(floors, before)
  BY <1>1, <1>4, <1>5, SumSame
<1>12. SumFunctionOnSet(shares, Places) = shares[n] + SumFunctionOnSet(shares, before)
  BY <1>1, <1>10, SumRemove
<1>. QED  BY <1>8, <1>9, <1>10, <1>11, <1>12 DEF shares

(* What the recipients get of a total is the total, also when one of them    *)
(* has several places in the split.                                         *)
LEMMA PartsAreTotal ==
  ASSUME NEW total \in Nat
  PROVE  /\ \A r \in Recipients : Part(r, total) \in Nat
         /\ SumFunctionOnSet([r \in Recipients |-> Part(r, total)], Recipients) = total
<1> DEFINE shares == [i \in Places |-> ShareAt(i, total)]
           parts == [r \in Recipients |-> Part(r, total)]
           places == [r \in Recipients |-> {i \in Places : Split[i].to = r}]
           kind == [i \in Places |-> Split[i].to]
<1>1. /\ \A i \in Places : shares[i] \in Nat /\ shares[i] \in Int /\ kind[i] \in Recipients
      /\ SumFunctionOnSet(shares, Places) = total
  BY SharesAreTotal, SplitFacts
<1>2. ASSUME NEW r \in Recipients
      PROVE  /\ Part(r, total) = SumFunctionOnSet(shares, places[r])
             /\ Part(r, total) \in Nat
             /\ places[r] \in SUBSET Places
             /\ \A i \in Places : i \in places[r] <=> kind[i] = r
  <2> DEFINE mine == [i \in places[r] |-> ShareAt(i, total)]
  <2>1. Part(r, total) = SumFunction(mine) /\ DOMAIN mine = places[r]
    BY SplitFacts DEF Part, Total
  <2>2. /\ \A i \in places[r] : mine[i] = shares[i] /\ shares[i] \in Int /\ mine[i] \in Nat
        /\ places[r] \subseteq Places /\ \A i \in Places : i \in places[r] <=> kind[i] = r
    BY <1>1
  <2>3. IsFiniteSet(places[r])
    BY <2>2, SplitFacts, FS_Subset
  <2>. HIDE DEF mine, places, shares, kind
  <2>4. SumFunction(mine) = SumFunctionOnSet(mine, places[r])
    BY <2>1 DEF SumFunction
  <2>5. SumFunctionOnSet(mine, places[r]) = SumFunctionOnSet(shares, places[r])
    BY <2>2, <2>3, SumSame
  <2>6. SumFunctionOnSet(mine, places[r]) \in Nat
    BY <2>2, <2>3, SumNat
  <2>. QED  BY <2>1, <2>2, <2>4, <2>5, <2>6
<1>3. \A r \in Recipients : parts[r] = SumFunctionOnSet(shares, places[r])
  BY <1>2
<1>. HIDE DEF shares, parts, kind, places
<1>4. SumFunctionOnSet(parts, Recipients) = SumFunctionOnSet(shares, Places)
  <2>1. IsFiniteSet(Places) /\ IsFiniteSet(Recipients)
    BY SplitFacts
  <2>. QED  BY <1>1, <1>2, <1>3, <2>1, SumByKind
<1>. QED  BY <1>1, <1>2, <1>4 DEF parts

LEMMA TotalIs ==
  ASSUME NEW f, DOMAIN f = Recipients
  PROVE  Total(f) = SumFunctionOnSet(f, Recipients)
  BY DEF Total, SumFunction

(* A total goes to the recipients: pushed, or owed on top of what is owed.   *)
LEMMA OweAndPush ==
  ASSUME SplitTypeOK, NEW t \in Tokens, NEW total \in Nat
  PROVE  /\ Owe(t, total) \in [Recipients -> Nat] /\ Push(t, total) \in [Recipients -> Nat]
         /\ Total(Owe(t, total)) \in Nat /\ Total(Push(t, total)) \in Nat
         /\ Owed(t) \in Nat
         /\ Total(Owe(t, total)) + Total(Push(t, total)) = Owed(t) + total
         /\ Total(Push(t, total)) <= total
         /\ \A r \in Recipients :
              Owe(t, total)[r] + Push(t, total)[r] = pending[t][r] + Part(r, total)
<1> DEFINE owe == Owe(t, total)
           push == Push(t, total)
           parts == [r \in Recipients |-> Part(r, total)]
           both == [r \in Recipients |-> pending[t][r] + parts[r]]
           sum(f) == SumFunctionOnSet(f, Recipients)
<1>1. /\ pending[t] \in [Recipients -> Nat]
      /\ \A r \in Recipients : parts[r] = Part(r, total) /\ parts[r] \in Nat
      /\ SumFunctionOnSet(parts, Recipients) = total /\ IsFiniteSet(Recipients)
  BY PartsAreTotal, SplitFacts DEF SplitTypeOK
<1>2. \A r \in Recipients :
        /\ owe[r] = pending[t][r] + (IF r \in accepting[t] THEN 0 ELSE Part(r, total))
        /\ push[r] = IF r \in accepting[t] THEN Part(r, total) ELSE 0
        /\ both[r] = pending[t][r] + parts[r]
  BY DEF Owe, Push
<1>3. DOMAIN owe = Recipients /\ DOMAIN push = Recipients /\ DOMAIN pending[t] = Recipients
      /\ owe = [r \in Recipients |-> owe[r]] /\ push = [r \in Recipients |-> push[r]]
  BY <1>1 DEF Owe, Push
<1>. HIDE DEF owe, push, parts, both
<1>4. \A r \in Recipients :
        /\ pending[t][r] \in Nat /\ owe[r] \in Nat /\ push[r] \in Nat /\ both[r] \in Nat
        /\ both[r] = pending[t][r] + parts[r] /\ both[r] = owe[r] + push[r]
        /\ push[r] <= parts[r]
        /\ pending[t][r] \in Int /\ owe[r] \in Int /\ push[r] \in Int /\ parts[r] \in Int
  BY <1>1, <1>2
<1>5. owe \in [Recipients -> Nat] /\ push \in [Recipients -> Nat]
  BY <1>3, <1>4
<1>6. SumFunctionOnSet(both, Recipients) = SumFunctionOnSet(pending[t], Recipients) + total
  BY <1>1, <1>4, SumAdd
<1>7. SumFunctionOnSet(both, Recipients)
        = SumFunctionOnSet(owe, Recipients) + SumFunctionOnSet(push, Recipients)
  BY <1>1, <1>4, SumAdd
<1>8. SumFunctionOnSet(push, Recipients) <= total
  BY <1>1, <1>4, SumMonotone
<1>9. /\ SumFunctionOnSet(owe, Recipients) \in Nat /\ SumFunctionOnSet(push, Recipients) \in Nat
      /\ SumFunctionOnSet(pending[t], Recipients) \in Nat
  BY <1>1, <1>4, SumNat
<1>10. /\ Total(owe) = SumFunctionOnSet(owe, Recipients)
       /\ Total(push) = SumFunctionOnSet(push, Recipients)
       /\ Owed(t) = SumFunctionOnSet(pending[t], Recipients)
  BY <1>3, TotalIs DEF Owed
<1>11. \A r \in Recipients : owe[r] + push[r] = pending[t][r] + Part(r, total)
  BY <1>1, <1>4
<1>. QED  BY <1>5, <1>6, <1>7, <1>8, <1>9, <1>10, <1>11 DEF owe, push

(* What no part of which is left to anybody.                                *)
LEMMA NothingToPart ==
  ASSUME SplitTypeOK, NEW t \in Tokens
  PROVE  \A r \in Recipients : Part(r, 0) = 0
<1> DEFINE parts == [r \in Recipients |-> Part(r, 0)]
<1>1. /\ \A r \in Recipients : parts[r] \in Nat /\ parts[r] = Part(r, 0)
      /\ SumFunctionOnSet(parts, Recipients) = 0
  BY PartsAreTotal
<1>. HIDE DEF parts
<1>2. \A r \in Recipients : parts[r] <= SumFunctionOnSet(parts, Recipients)
  BY <1>1, SplitFacts, SumNat
<1>. QED  BY <1>1, <1>2

(* A distribution leaves in the contract what it adds to the debts.          *)
LEMMA DistributeAllFits ==
  ASSUME SplitTypeOK, NEW in \in [Tokens -> Nat], NEW total \in [Tokens -> Nat],
         DistributeAll(in, total), \A t \in Tokens : total[t] <= balance[t] + in[t]
  PROVE  /\ pending' \in [Tokens -> [Recipients -> Nat]]
         /\ paid' \in [Tokens -> [Recipients -> Nat]] /\ balance' \in [Tokens -> Nat]
         /\ \A t \in Tokens :
              /\ Owed(t) \in Nat /\ Owed(t)' \in Nat
              /\ Owed(t)' - balance'[t] = Owed(t) + total[t] - balance[t] - in[t]
              /\ \A r \in Recipients :
                   /\ paid'[t][r] + pending'[t][r] = paid[t][r] + pending[t][r] + Part(r, total[t])
                   /\ total[t] = 0 => pending'[t][r] = pending[t][r]
<1>1. ASSUME NEW t \in Tokens
      PROVE  /\ pending'[t] \in [Recipients -> Nat] /\ paid'[t] \in [Recipients -> Nat]
             /\ balance'[t] \in Nat
             /\ Owed(t) \in Nat /\ Owed(t)' \in Nat
             /\ Owed(t)' - balance'[t] = Owed(t) + total[t] - balance[t] - in[t]
             /\ \A r \in Recipients :
                  /\ paid'[t][r] + pending'[t][r] = paid[t][r] + pending[t][r] + Part(r, total[t])
                  /\ total[t] = 0 => pending'[t][r] = pending[t][r]
  <2>1. PICK x \in Nat : x = total[t]
    OBVIOUS
  <2>2. PICK n \in Nat : n = in[t]
    OBVIOUS
  <2> DEFINE owe == Owe(t, x)
             push == Push(t, x)
  <2>3. /\ owe \in [Recipients -> Nat] /\ push \in [Recipients -> Nat]
        /\ Total(owe) \in Nat /\ Total(push) \in Nat /\ Owed(t) \in Nat
        /\ Total(owe) + Total(push) = Owed(t) + x /\ Total(push) <= x
        /\ \A r \in Recipients : owe[r] + push[r] = pending[t][r] + Part(r, x)
    BY OweAndPush
  <2>4. /\ pending'[t] = owe /\ balance'[t] = balance[t] + n - Total(push)
        /\ paid'[t] = [r \in Recipients |-> paid[t][r] + push[r]]
    BY <2>1, <2>2 DEF DistributeAll
  <2>5. balance[t] \in Nat /\ paid[t] \in [Recipients -> Nat] /\ x <= balance[t] + n
    BY <2>1, <2>2 DEF SplitTypeOK
  <2>6. Owed(t)' = Total(owe)
    BY <2>4 DEF Owed
  <2>7. x = 0 => \A r \in Recipients : owe[r] = pending[t][r]
    BY NothingToPart DEF Owe, SplitTypeOK
  <2>. HIDE DEF owe, push
  <2>8. paid'[t] \in [Recipients -> Nat] /\ \A r \in Recipients : paid'[t][r] = paid[t][r] + push[r]
    BY <2>3, <2>4, <2>5
  <2>9. ASSUME NEW r \in Recipients
        PROVE  /\ paid'[t][r] + pending'[t][r] = paid[t][r] + pending[t][r] + Part(r, x)
               /\ x = 0 => pending'[t][r] = pending[t][r]
    <3>1. pending[t][r] \in Nat /\ Part(r, x) \in Nat /\ paid[t][r] \in Nat
      BY <2>5, PartsAreTotal DEF SplitTypeOK
    <3>2. owe[r] \in Nat /\ push[r] \in Nat /\ owe[r] + push[r] = pending[t][r] + Part(r, x)
      BY <2>3
    <3>3. pending'[t][r] = owe[r] /\ paid'[t][r] = paid[t][r] + push[r]
      BY <2>4, <2>8
    <3>4. x = 0 => owe[r] = pending[t][r]
      BY <2>7
    <3>. QED  BY <3>1, <3>2, <3>3, <3>4
  <2>10. pending'[t] \in [Recipients -> Nat] /\ paid'[t] \in [Recipients -> Nat]
    BY <2>3, <2>4, <2>8
  <2>11. balance'[t] \in Nat /\ Owed(t)' \in Nat /\ Owed(t)' - balance'[t] = Owed(t) + x - balance[t] - n
    <3>1. /\ Total(owe) \in Nat /\ Total(push) \in Nat /\ Owed(t) \in Nat /\ x \in Nat
          /\ n \in Nat /\ balance[t] \in Nat
          /\ Total(owe) + Total(push) = Owed(t) + x /\ Total(push) <= x /\ x <= balance[t] + n
      BY <2>3, <2>5
    <3>. QED  BY <2>4, <2>6, <3>1
  <2>. QED  BY <2>1, <2>2, <2>3, <2>9, <2>10, <2>11
<1>2. /\ DOMAIN pending' = Tokens /\ pending' = [t \in Tokens |-> pending'[t]]
      /\ paid' = [t \in Tokens |-> paid'[t]] /\ balance' = [t \in Tokens |-> balance'[t]]
  BY DEF DistributeAll
<1>. QED  BY <1>1, <1>2

(* What is owed changes by a claim as the claim does.                       *)
LEMMA ClaimFits ==
  ASSUME SplitTypeOK, NEW t \in Tokens, NEW r \in Recipients, Claim(t, r)
  PROVE  /\ SplitTypeOK'
         /\ \A u \in Tokens :
              /\ Owed(u) \in Nat /\ Owed(u)' \in Nat
              /\ Owed(u)' - balance'[u] = Owed(u) - balance[u]
              /\ \A q \in Recipients : pending'[u][q] <= pending[u][q]
<1> DEFINE row == [pending[t] EXCEPT ![r] = 0]
           paidRow == [paid[t] EXCEPT ![r] = @ + pending[t][r]]
<1>1. /\ \A u \in Tokens : pending[u] \in [Recipients -> Nat] /\ paid[u] \in [Recipients -> Nat]
      /\ \A u \in Tokens : balance[u] \in Nat
      /\ pending[t][r] \in Nat /\ pending[t][r] <= balance[t]
  BY DEF SplitTypeOK, Claim
<1>2. row \in [Recipients -> Nat] /\ paidRow \in [Recipients -> Nat]
  BY <1>1
<1>3. /\ pending' = [pending EXCEPT ![t] = row] /\ paid' = [paid EXCEPT ![t] = paidRow]
      /\ balance' = [balance EXCEPT ![t] = balance[t] - pending[t][r]]
      /\ UNCHANGED <<accepting, income, swept>>
  BY DEF Claim
<1>4. row[r] = 0 /\ \A q \in Recipients \ {r} : row[q] = pending[t][q]
  BY <1>1
<1>. HIDE DEF row, paidRow
<1>5. /\ pending'[t] = row /\ balance'[t] = balance[t] - pending[t][r]
      /\ \A u \in Tokens \ {t} : pending'[u] = pending[u] /\ balance'[u] = balance[u]
  BY <1>3 DEF SplitTypeOK
<1>6. SplitTypeOK'
  <2>1. pending' \in [Tokens -> [Recipients -> Nat]] /\ paid' \in [Tokens -> [Recipients -> Nat]]
    BY <1>2, <1>3 DEF SplitTypeOK
  <2>2. balance[t] - pending[t][r] \in Nat
    BY <1>1
  <2>3. balance' \in [Tokens -> Nat]
    BY <1>3, <2>2 DEF SplitTypeOK
  <2>. QED  BY <1>3, <2>1, <2>3 DEF SplitTypeOK
<1>7. ASSUME NEW u \in Tokens
      PROVE  /\ Owed(u) = SumFunctionOnSet(pending[u], Recipients)
             /\ Owed(u)' = SumFunctionOnSet(pending'[u], Recipients)
             /\ Owed(u) \in Nat /\ Owed(u)' \in Nat
  <2>1. /\ DOMAIN pending[u] = Recipients /\ DOMAIN pending'[u] = Recipients
        /\ \A q \in Recipients : pending[u][q] \in Nat /\ pending'[u][q] \in Nat
    BY <1>1, <1>6 DEF SplitTypeOK
  <2>2. Owed(u) = SumFunctionOnSet(pending[u], Recipients)
    BY <2>1, TotalIs DEF Owed
  <2>3. Owed(u)' = SumFunctionOnSet(pending'[u], Recipients)
    <3>1. PICK f : f = pending'[u]
      OBVIOUS
    <3>2. Total(f) = SumFunctionOnSet(f, Recipients)
      BY <2>1, <3>1, TotalIs
    <3>. QED  BY <3>1, <3>2 DEF Owed
  <2>4. SumFunctionOnSet(pending[u], Recipients) \in Nat
    BY <2>1, SplitFacts, SumNat
  <2>5. SumFunctionOnSet(pending'[u], Recipients) \in Nat
    BY <2>1, SplitFacts, SumNat
  <2>. QED  BY <2>2, <2>3, <2>4, <2>5
<1>8. Owed(t)' - balance'[t] = Owed(t) - balance[t]
  <2>1. /\ \A q \in Recipients : pending[t][q] \in Int /\ row[q] \in Int
        /\ \A q \in Recipients \ {r} : row[q] = pending[t][q]
    BY <1>1, <1>2, <1>4
  <2>2. SumFunctionOnSet(row, Recipients)
          = SumFunctionOnSet(pending[t], Recipients) - pending[t][r] + row[r]
    <3>1. PICK old : old = pending[t]
      OBVIOUS
    <3>2. /\ \A q \in Recipients : old[q] \in Int /\ row[q] \in Int
          /\ \A q \in Recipients \ {r} : row[q] = old[q]
      BY <2>1, <3>1
    <3>3. IsFiniteSet(Recipients)
      BY SplitFacts
    <3>4. SumFunctionOnSet(row, Recipients) = SumFunctionOnSet(old, Recipients) - old[r] + row[r]
      BY <3>2, <3>3, SumChange
    <3>. QED  BY <3>1, <3>4
  <2>3. Owed(t)' = Owed(t) - pending[t][r]
    BY <1>1, <1>4, <1>5, <1>7, <2>2
  <2>. QED  BY <1>1, <1>5, <1>7, <2>3
<1>9. ASSUME NEW u \in Tokens PROVE Owed(u)' - balance'[u] = Owed(u) - balance[u]
  <2>1. CASE u = t
    BY <1>8, <2>1
  <2>2. CASE u # t
    <3>1. pending'[u] = pending[u] /\ balance'[u] = balance[u]
      BY <1>5, <2>2
    <3>2. PICK f : f = pending[u]
      OBVIOUS
    <3>3. Owed(u) = Total(f) /\ Owed(u)' = Total(f)
      BY <3>1, <3>2 DEF Owed
    <3>. QED  BY <3>1, <3>3
  <2>. QED  BY <2>1, <2>2
<1>10. ASSUME NEW u \in Tokens, NEW q \in Recipients PROVE pending'[u][q] <= pending[u][q]
  <2>1. CASE u = t /\ q = r
    BY <1>1, <1>4, <1>5, <2>1
  <2>2. CASE u = t /\ q # r
    BY <1>1, <1>4, <1>5, <2>2
  <2>3. CASE u # t
    BY <1>1, <1>5, <2>3
  <2>. QED  BY <2>1, <2>2, <2>3
<1>. QED  BY <1>6, <1>7, <1>9, <1>10

SplitInv == SplitTypeOK /\ OwedIsHeldUnlessSwept

LEMMA SplitInitial == SplitInit => SplitInv
<1> SUFFICES ASSUME SplitInit PROVE SplitInv
  OBVIOUS
<1>1. SplitTypeOK
  BY DEF SplitInit, SplitTypeOK
<1>2. ASSUME NEW t \in Tokens PROVE Owed(t) <= balance[t]
  <2>1. /\ \A r \in Recipients : pending[t][r] = 0
        /\ DOMAIN pending[t] = Recipients /\ balance[t] = 0
    BY DEF SplitInit
  <2>2. Owed(t) = SumFunctionOnSet(pending[t], Recipients)
    BY <2>1, TotalIs DEF Owed
  <2>3. SumFunctionOnSet(pending[t], Recipients) = 0
    BY <2>1, SplitFacts, SumZero
  <2>. QED  BY <2>1, <2>2, <2>3
<1>. QED  BY <1>1, <1>2 DEF SplitInv, OwedIsHeldUnlessSwept

(* What is owed and what is held, after income has been split.              *)
LEMMA ReceiveFits ==
  ASSUME SplitTypeOK, NEW t \in Tokens, NEW amount \in Amounts, Receive(t, amount)
  PROVE  /\ SplitTypeOK'
         /\ income'[t] = income[t] + amount /\ amount \in Nat \ {0}
         /\ \A u \in Tokens \ {t} : income'[u] = income[u]
         /\ \A u \in Tokens :
              /\ Owed(u) \in Nat /\ Owed(u)' \in Nat
              /\ Owed(u)' - balance'[u] = Owed(u) - balance[u]
              /\ \A r \in Recipients :
                   /\ u = t => paid'[u][r] + pending'[u][r]
                                 = paid[u][r] + pending[u][r] + Part(r, amount)
                   /\ u # t => pending'[u][r] = pending[u][r]
<1> DEFINE only == Only(t, amount)
<1>1. amount \in Nat /\ amount # 0
  BY SquadRevenueSplitAssumption
<1>2. /\ only \in [Tokens -> Nat] /\ only[t] = amount
      /\ \A u \in Tokens \ {t} : only[u] = 0
  BY <1>1 DEF Only
<1>3. \A u \in Tokens : balance[u] \in Nat /\ income[u] \in Nat
  BY DEF SplitTypeOK
<1>4. DistributeAll(only, only) /\ income' = [income EXCEPT ![t] = income[t] + amount]
      /\ UNCHANGED <<accepting, swept>>
  BY DEF Receive, Earn
<1>. HIDE DEF only
<1>5. \A u \in Tokens : only[u] \in Nat /\ only[u] <= balance[u] + only[u]
  BY <1>2, <1>3
<1>6. /\ pending' \in [Tokens -> [Recipients -> Nat]]
      /\ paid' \in [Tokens -> [Recipients -> Nat]] /\ balance' \in [Tokens -> Nat]
      /\ \A u \in Tokens :
           /\ Owed(u) \in Nat /\ Owed(u)' \in Nat
           /\ Owed(u)' - balance'[u] = Owed(u) + only[u] - balance[u] - only[u]
           /\ \A r \in Recipients :
                /\ paid'[u][r] + pending'[u][r] = paid[u][r] + pending[u][r] + Part(r, only[u])
                /\ only[u] = 0 => pending'[u][r] = pending[u][r]
  BY <1>2, <1>4, <1>5, DistributeAllFits
<1>7. income' \in [Tokens -> Nat] /\ income'[t] = income[t] + amount
      /\ \A u \in Tokens \ {t} : income'[u] = income[u]
  BY <1>1, <1>3, <1>4 DEF SplitTypeOK
<1>8. SplitTypeOK'
  BY <1>4, <1>6, <1>7 DEF SplitTypeOK
<1>9. ASSUME NEW u \in Tokens PROVE Owed(u)' - balance'[u] = Owed(u) - balance[u]
  <2>1. /\ Owed(u) \in Nat /\ Owed(u)' \in Nat /\ balance[u] \in Nat /\ only[u] \in Nat
        /\ balance'[u] \in Nat
    BY <1>3, <1>5, <1>6
  <2>2. Owed(u)' - balance'[u] = Owed(u) + only[u] - balance[u] - only[u]
    BY <1>6
  <2>. QED  BY <2>1, <2>2
<1>10. ASSUME NEW u \in Tokens, NEW r \in Recipients
       PROVE  /\ u = t => paid'[u][r] + pending'[u][r]
                                 = paid[u][r] + pending[u][r] + Part(r, amount)
              /\ u # t => pending'[u][r] = pending[u][r]
  BY <1>2, <1>6
<1>. QED  BY <1>1, <1>6, <1>7, <1>8, <1>9, <1>10

(* What is owed and what is held, after what is held has been split again.  *)
LEMMA DistributeFits ==
  ASSUME SplitTypeOK, Distribute
  PROVE  /\ SplitTypeOK'
         /\ UNCHANGED income
         /\ \A t \in Tokens :
              /\ Owed(t) \in Nat /\ Owed(t)' \in Nat
              /\ Owed(t)' - balance'[t] = Owed(t)
              /\ \A r \in Recipients :
                   paid'[t][r] + pending'[t][r] = paid[t][r] + pending[t][r] + Part(r, balance[t])
<1> DEFINE nothing == [t \in Tokens |-> 0]
<1>1. nothing \in [Tokens -> Nat] /\ \A t \in Tokens : nothing[t] = 0
  OBVIOUS
<1>2. balance \in [Tokens -> Nat] /\ \A t \in Tokens : balance[t] \in Nat
  BY DEF SplitTypeOK
<1>3. DistributeAll(nothing, balance) /\ UNCHANGED <<accepting, income>>
      /\ swept' \in [Tokens -> BOOLEAN]
  <2>1. DistributeAll(nothing, balance) /\ UNCHANGED <<accepting, income>>
    BY DEF Distribute
  <2>2. swept' \in [Tokens -> BOOLEAN]
    BY Zenon DEF Distribute, SplitTypeOK
  <2>. QED  BY <2>1, <2>2
<1>. HIDE DEF nothing
<1>4. \A t \in Tokens : balance[t] <= balance[t] + nothing[t]
  BY <1>1, <1>2
<1>5. /\ pending' \in [Tokens -> [Recipients -> Nat]]
      /\ paid' \in [Tokens -> [Recipients -> Nat]] /\ balance' \in [Tokens -> Nat]
      /\ \A t \in Tokens :
           /\ Owed(t) \in Nat /\ Owed(t)' \in Nat
           /\ Owed(t)' - balance'[t] = Owed(t) + balance[t] - balance[t] - nothing[t]
           /\ \A r \in Recipients :
                paid'[t][r] + pending'[t][r] = paid[t][r] + pending[t][r] + Part(r, balance[t])
  BY <1>1, <1>2, <1>3, <1>4, DistributeAllFits
<1>6. SplitTypeOK'
  BY <1>3, <1>5 DEF SplitTypeOK
<1>7. ASSUME NEW t \in Tokens PROVE Owed(t)' - balance'[t] = Owed(t)
  <2>1. Owed(t) \in Nat /\ Owed(t)' \in Nat /\ balance[t] \in Nat /\ balance'[t] \in Nat
    BY <1>2, <1>5
  <2>2. Owed(t)' - balance'[t] = Owed(t) + balance[t] - balance[t] - 0
    BY <1>1, <1>5
  <2>. QED  BY <2>1, <2>2
<1>. QED  BY <1>3, <1>5, <1>6, <1>7

(* A step keeps the invariant, and splits income as it should.              *)
SharedAlike ==
  \A t \in Tokens :
       LET total == IF income'[t] > income[t] THEN income'[t] - income[t] ELSE balance[t]
       IN /\ paid' # paid /\ income'[t] > income[t] =>
               balance'[t] - balance[t] = Total(pending'[t]) - Total(pending[t])
          /\ (\E q \in Recipients : pending'[t][q] > pending[t][q]) =>
               \A r \in Recipients :
                 paid'[t][r] + pending'[t][r] = paid[t][r] + pending[t][r] + Part(r, total)

LEMMA SplitStep ==
  ASSUME SplitInv, [SplitNext]_splitVars
  PROVE  SplitInv' /\ [SharedAlike]_splitVars
<1> USE DEF SplitInv
<1>1. /\ SplitTypeOK
      /\ \A u \in Tokens : balance[u] \in Nat /\ income[u] \in Nat /\ pending[u] \in [Recipients -> Nat]
      /\ \A u \in Tokens : ~swept[u] => Owed(u) <= balance[u]
  BY DEF SplitTypeOK, OwedIsHeldUnlessSwept
<1>2. \A u \in Tokens : Total(pending[u]) = Owed(u) /\ Total(pending'[u]) = Owed(u)'
  BY DEF Owed
<1>3. ASSUME UNCHANGED <<balance, pending, swept>> PROVE OwedIsHeldUnlessSwept'
  BY <1>1, <1>3 DEF OwedIsHeldUnlessSwept, Owed
<1>4. ASSUME NEW t \in Tokens, NEW amount \in Amounts, Receive(t, amount)
      PROVE  SplitInv' /\ SharedAlike
  <2>1. /\ SplitTypeOK'
        /\ income'[t] = income[t] + amount /\ amount \in Nat \ {0}
        /\ \A u \in Tokens \ {t} : income'[u] = income[u]
        /\ \A u \in Tokens :
             /\ Owed(u) \in Nat /\ Owed(u)' \in Nat
             /\ Owed(u)' - balance'[u] = Owed(u) - balance[u]
             /\ \A r \in Recipients :
                  /\ u = t => paid'[u][r] + pending'[u][r]
                                = paid[u][r] + pending[u][r] + Part(r, amount)
                  /\ u # t => pending'[u][r] = pending[u][r]
    BY <1>1, <1>4, ReceiveFits
  <2>2. swept' = swept /\ \A u \in Tokens : balance'[u] \in Nat
    BY <1>4, <2>1 DEF Receive, SplitTypeOK
  <2>3. OwedIsHeldUnlessSwept'
    <3>1. ASSUME NEW u \in Tokens, ~swept'[u] PROVE Owed(u)' <= balance'[u]
      <4>1. Owed(u) <= balance[u]
        BY <1>1, <2>2, <3>1
      <4>. QED  BY <1>1, <2>1, <2>2, <4>1
    <3>. QED  BY <3>1 DEF OwedIsHeldUnlessSwept
  <2>4. SharedAlike
    <3>1. ASSUME NEW u \in Tokens PROVE balance'[u] - balance[u] = Owed(u)' - Owed(u)
      BY <1>1, <2>1, <2>2
    <3>2. ASSUME NEW u \in Tokens, NEW q \in Recipients, pending'[u][q] > pending[u][q]
          PROVE  u = t
      <4>1. pending[u][q] \in Nat
        BY <1>1
      <4>. QED  BY <2>1, <3>2, <4>1
    <3>3. income'[t] > income[t] /\ income'[t] - income[t] = amount
      BY <1>1, <2>1
    <3>. QED  BY <1>2, <2>1, <3>1, <3>2, <3>3 DEF SharedAlike
  <2>. QED  BY <2>1, <2>3, <2>4
<1>5. ASSUME NEW t \in Tokens, NEW amount \in Amounts, Deposit(t, amount)
      PROVE  SplitInv' /\ SharedAlike
  <2>1. amount \in Nat
    BY SquadRevenueSplitAssumption
  <2>2. /\ UNCHANGED <<accepting, pending, paid, swept>>
        /\ income' = [income EXCEPT ![t] = income[t] + amount]
        /\ balance' = [balance EXCEPT ![t] = balance[t] + amount]
    BY <1>5 DEF Deposit, Earn
  <2>3. SplitTypeOK'
    BY <1>1, <2>1, <2>2 DEF SplitTypeOK
  <2>4. OwedIsHeldUnlessSwept'
    <3>1. ASSUME NEW u \in Tokens, ~swept'[u] PROVE Owed(u)' <= balance'[u]
      <4>1. Owed(u)' = Owed(u) /\ Owed(u) <= balance[u]
        BY <1>1, <2>2, <3>1 DEF Owed
      <4>2. PICK o : o = Owed(u)
        OBVIOUS
      <4>3. o \in Nat
        <5>1. DOMAIN pending[u] = Recipients /\ \A q \in Recipients : pending[u][q] \in Nat
          BY <1>1
        <5>2. Owed(u) = SumFunctionOnSet(pending[u], Recipients)
          BY <5>1, TotalIs DEF Owed
        <5>. QED  BY <4>2, <5>1, <5>2, SplitFacts, SumNat
      <4>4. balance'[u] = balance[u] \/ balance'[u] = balance[u] + amount
        BY <2>2 DEF SplitTypeOK
      <4>. QED  BY <1>1, <2>1, <4>1, <4>2, <4>3, <4>4
    <3>. QED  BY <3>1 DEF OwedIsHeldUnlessSwept
  <2>5. SharedAlike
    <3>1. ASSUME NEW u \in Tokens, NEW q \in Recipients PROVE ~ (pending'[u][q] > pending[u][q])
      <4>1. pending'[u][q] = pending[u][q] /\ pending[u][q] \in Nat
        BY <1>1, <2>2
      <4>. QED  BY <4>1
    <3>. QED  BY <2>2, <3>1 DEF SharedAlike
  <2>. QED  BY <2>3, <2>4, <2>5
<1>6. ASSUME Distribute PROVE SplitInv' /\ SharedAlike
  <2>1. /\ SplitTypeOK'
        /\ UNCHANGED income
        /\ \A t \in Tokens :
             /\ Owed(t) \in Nat /\ Owed(t)' \in Nat
             /\ Owed(t)' - balance'[t] = Owed(t)
             /\ \A r \in Recipients :
                  paid'[t][r] + pending'[t][r] = paid[t][r] + pending[t][r] + Part(r, balance[t])
    BY <1>1, <1>6, DistributeFits
  <2>2. swept' = [t \in Tokens |-> swept[t] \/ (balance[t] > 0 /\ Owed(t) > 0)]
    BY <1>2, <1>6 DEF Distribute
  <2>3. OwedIsHeldUnlessSwept'
    <3>1. ASSUME NEW u \in Tokens, ~swept'[u] PROVE Owed(u)' <= balance'[u]
      <4>1. ~swept[u] /\ ~(balance[u] > 0 /\ Owed(u) > 0)
        BY <2>2, <3>1, Zenon
      <4>2. Owed(u) = 0
        BY <1>1, <2>1, <4>1
      <4>3. Owed(u)' - balance'[u] = 0 /\ Owed(u)' \in Nat /\ balance'[u] \in Nat
        BY <2>1, <4>2 DEF SplitTypeOK
      <4>. QED  BY <4>3
    <3>. QED  BY <3>1 DEF OwedIsHeldUnlessSwept
  <2>4. SharedAlike
    <3>1. \A u \in Tokens : ~ (income'[u] > income[u])
      BY <1>1, <2>1
    <3>. QED  BY <2>1, <3>1 DEF SharedAlike
  <2>. QED  BY <2>1, <2>3, <2>4
<1>7. ASSUME NEW t \in Tokens, NEW r \in Recipients, Claim(t, r)
      PROVE  SplitInv' /\ SharedAlike
  <2>1. /\ SplitTypeOK'
        /\ \A u \in Tokens :
             /\ Owed(u) \in Nat /\ Owed(u)' \in Nat
             /\ Owed(u)' - balance'[u] = Owed(u) - balance[u]
             /\ \A q \in Recipients : pending'[u][q] <= pending[u][q]
    BY <1>1, <1>7, ClaimFits
  <2>2. swept' = swept /\ income' = income
    BY <1>7 DEF Claim
  <2>3. OwedIsHeldUnlessSwept'
    <3>1. ASSUME NEW u \in Tokens, ~swept'[u] PROVE Owed(u)' <= balance'[u]
      <4>1. Owed(u) <= balance[u]
        BY <1>1, <2>2, <3>1
      <4>2. balance[u] \in Nat /\ balance'[u] \in Nat
        BY <1>1, <2>1 DEF SplitTypeOK
      <4>. QED  BY <2>1, <4>1, <4>2
    <3>. QED  BY <3>1 DEF OwedIsHeldUnlessSwept
  <2>4. SharedAlike
    <3>1. \A u \in Tokens : ~ (income'[u] > income[u])
      BY <1>1, <2>2
    <3>2. ASSUME NEW u \in Tokens, NEW q \in Recipients PROVE ~ (pending'[u][q] > pending[u][q])
      <4>1. pending'[u][q] \in Nat /\ pending[u][q] \in Nat
        BY <1>1, <2>1 DEF SplitTypeOK
      <4>. QED  BY <2>1, <4>1
    <3>. QED  BY <3>1, <3>2 DEF SharedAlike
  <2>. QED  BY <2>1, <2>3, <2>4
<1>8. ASSUME NEW t \in Tokens, NEW r \in Recipients, ChangeAccepting(t, r)
      PROVE  SplitInv' /\ SharedAlike
  <2>1. /\ accepting' = [accepting EXCEPT ![t] = (accepting[t] \ {r}) \cup ({r} \ accepting[t])]
        /\ UNCHANGED <<balance, pending, income, paid, swept>>
    BY <1>8 DEF ChangeAccepting
  <2>2. accepting[t] \in SUBSET Recipients
    BY <1>1 DEF SplitTypeOK
  <2>3. SplitTypeOK'
    BY <1>1, <2>1, <2>2 DEF SplitTypeOK
  <2>4. SharedAlike
    <3>1. ASSUME NEW u \in Tokens, NEW q \in Recipients PROVE ~ (pending'[u][q] > pending[u][q])
      <4>1. pending'[u][q] = pending[u][q] /\ pending[u][q] \in Nat
        BY <1>1, <2>1
      <4>. QED  BY <4>1
    <3>. QED  BY <2>1, <3>1 DEF SharedAlike
  <2>. QED  BY <1>3, <2>1, <2>3, <2>4
<1>9. ASSUME UNCHANGED splitVars PROVE SplitInv'
  <2>1. SplitTypeOK'
    BY <1>1, <1>9 DEF SplitTypeOK, splitVars
  <2>. QED  BY <1>3, <1>9, <2>1 DEF splitVars
<1>. QED  BY <1>4, <1>5, <1>6, <1>7, <1>8, <1>9 DEF SplitNext

(* As long as nobody distributes money that is owed, the contract holds what *)
(* it owes (claimETH, claimUSDC: the transfer cannot fail for lack of it).   *)
THEOREM OwedCanBeClaimed == SplitSpec => []OwedIsHeldUnlessSwept
<1>1. SplitInv /\ [SplitNext]_splitVars => SplitInv'
  BY SplitStep
<1>2. SplitInv => OwedIsHeldUnlessSwept
  BY DEF SplitInv
<1>. QED  BY <1>1, <1>2, SplitInitial, PTL DEF SplitSpec

(* Income is split in full and every recipient is given its part, or owed    *)
(* it, whoever else refuses (receive, receiveUSDC and distribute).           *)
THEOREM IncomeIsSplit == SplitSpec => IncomeShared
<1>1. SplitInv /\ [SplitNext]_splitVars => SplitInv' /\ [SharedAlike]_splitVars
  BY SplitStep
<1>2. SplitSpec => [][SharedAlike]_splitVars
  BY <1>1, SplitInitial, PTL DEF SplitSpec
<1>3. [][SharedAlike]_splitVars => IncomeShared
  BY PTL DEF IncomeShared, SharedAlike
<1>. QED  BY <1>2, <1>3

-----------------------------------------------------------------------------
(* The rate limit of status updates.                                        *)

(* The posts of an agent lie in its current window or before, none of them   *)
(* in the future, and the stretch of a window's length that ends before the  *)
(* current window has no more posts than a window.                           *)
WindowsKept ==
  \A a \in Agents :
    /\ windowStart[a] <= now
    /\ \A h \in StatusHashes :
         statuses[h].agent = a =>
           statuses[h].timestamp <= now /\ statuses[h].timestamp < windowStart[a] + WINDOW_DURATION
    /\ Cardinality(PostedBetween(a, windowStart[a] - WINDOW_DURATION + 1, windowStart[a] - 1))
         <= MAX_DAILY_POSTS

StatusInv == StatusTypeOK /\ WindowsKept /\ RateLimited

LEMMA PostedFinite ==
  ASSUME NEW a, NEW from \in Int, NEW to \in Int
  PROVE  /\ IsFiniteSet(PostedBetween(a, from, to))
         /\ Cardinality(PostedBetween(a, from, to)) \in Nat
<1>1. PostedBetween(a, from, to) \in SUBSET StatusHashes /\ IsFiniteSet(StatusHashes)
  BY StatusRegistryAssumption DEF PostedBetween
<1>2. IsFiniteSet(PostedBetween(a, from, to))
  BY <1>1, FS_Subset
<1>. QED  BY <1>2, FS_CardinalityType

LEMMA StatusInitial == StatusInit => StatusInv
<1> SUFFICES ASSUME StatusInit PROVE StatusInv
  OBVIOUS
<1>1. /\ MAX_DAILY_POSTS \in Nat /\ WINDOW_DURATION \in Nat /\ WINDOW_DURATION > 0
      /\ MaxTime \in Nat /\ WINDOW_DURATION <= MaxTime /\ "none" \notin Agents
  BY StatusRegistryAssumption
<1>2. StatusTypeOK
  BY <1>1 DEF StatusInit, StatusTypeOK, NoStatus, RegistryInit
<1>3. \A a \in Agents : \A from, to : PostedBetween(a, from, to) = {}
  BY <1>1 DEF StatusInit, NoStatus, PostedBetween
<1>4. \A a \in Agents : \A from, to : Cardinality(PostedBetween(a, from, to)) = 0
  BY <1>3, FS_EmptySet
<1>5. WindowsKept
  BY <1>1, <1>4 DEF WindowsKept, StatusInit, NoStatus
<1>6. RateLimited
  BY <1>1, <1>4 DEF RateLimited, StatusInit
<1>. QED  BY <1>2, <1>5, <1>6 DEF StatusInv

(* What steps that post nothing leave alone.                                *)
LEMMA NothingPosted ==
  ASSUME StatusInv, UNCHANGED <<windowStart, count>>, now <= now', StatusTypeOK',
         \A h \in StatusHashes : /\ statuses'[h].agent = statuses[h].agent
                                 /\ statuses'[h].timestamp = statuses[h].timestamp
  PROVE  StatusInv'
<1>1. ASSUME NEW a, NEW from, NEW to
      PROVE  PostedBetween(a, from, to)' = PostedBetween(a, from, to)
  BY DEF PostedBetween
<1>2. RateLimited'
  BY <1>1 DEF StatusInv, RateLimited
<1>3. now \in Int /\ now' \in Int
  BY DEF StatusInv, StatusTypeOK
<1>4. WindowsKept'
  <2> SUFFICES ASSUME NEW a \in Agents
               PROVE  /\ windowStart'[a] <= now'
                      /\ \A h \in StatusHashes : statuses'[h].agent = a =>
                           /\ statuses'[h].timestamp <= now'
                           /\ statuses'[h].timestamp < windowStart'[a] + WINDOW_DURATION
                      /\ Cardinality(PostedBetween(a, windowStart[a] - WINDOW_DURATION + 1,
                                                   windowStart[a] - 1)') <= MAX_DAILY_POSTS
    BY <1>1 DEF WindowsKept
  <2>1. windowStart[a] \in Int /\ \A h \in StatusHashes : statuses[h].timestamp \in Int
    BY DEF StatusInv, StatusTypeOK
  <2>. QED  BY <1>1, <1>3, <2>1 DEF StatusInv, WindowsKept
<1>. QED  BY <1>2, <1>4 DEF StatusInv

(* A post joins exactly the stretches of its author that hold the present.   *)
LEMMA PostJoins ==
  ASSUME StatusInv, NEW a \in Agents, NEW h \in StatusHashes, PostStatus(a, h),
         NEW b \in Agents, NEW from \in Int, NEW to \in Int
  PROVE  /\ PostedBetween(b, from, to)' = IF b = a /\ now \in from..to
                                          THEN PostedBetween(b, from, to) \cup {h}
                                          ELSE PostedBetween(b, from, to)
         /\ h \notin PostedBetween(b, from, to)
         /\ Cardinality(PostedBetween(b, from, to)') =
              Cardinality(PostedBetween(b, from, to)) + (IF b = a /\ now \in from..to THEN 1 ELSE 0)
<1>1. /\ statuses[h].agent = "none" /\ "none" \notin Agents
      /\ statuses'[h].agent = a /\ statuses'[h].timestamp = now
      /\ \A g \in StatusHashes : g # h => statuses'[g] = statuses[g]
  BY StatusRegistryAssumption DEF PostStatus, StatusInv, StatusTypeOK
<1>2. h \notin PostedBetween(b, from, to)
  BY <1>1 DEF PostedBetween
<1>3. PostedBetween(b, from, to)' = IF b = a /\ now \in from..to
                                    THEN PostedBetween(b, from, to) \cup {h}
                                    ELSE PostedBetween(b, from, to)
  BY <1>1 DEF PostedBetween
<1>4. PICK S : S = PostedBetween(b, from, to)
  OBVIOUS
<1>5. IsFiniteSet(S) /\ Cardinality(S) \in Nat /\ h \notin S
  BY <1>2, <1>4, PostedFinite
<1>6. Cardinality(S \cup {h}) = Cardinality(S) + 1
  BY <1>5, FS_AddElement
<1>. QED  BY <1>2, <1>3, <1>4, <1>5, <1>6

LEMMA PostKeepsLimit ==
  ASSUME StatusInv, NEW a \in Agents, NEW h \in StatusHashes, PostStatus(a, h)
  PROVE  StatusInv'
<1> DEFINE Posts(b, from, to) == Cardinality(PostedBetween(b, from, to))
<1>1. /\ WINDOW_DURATION \in Int /\ WINDOW_DURATION > 0
      /\ MAX_DAILY_POSTS \in Int /\ MAX_DAILY_POSTS > 0 /\ MaxTime \in Int
  BY StatusRegistryAssumption
<1>2. PICK m \in Int, w \in Int, start \in Int, n \in Int, c \in Int :
        /\ m = MAX_DAILY_POSTS /\ w = WINDOW_DURATION /\ start = windowStart[a]
        /\ n = now /\ c = count[a] /\ m > 0 /\ w > 0 /\ start <= n /\ c <= m /\ 0 <= start
        /\ n <= MaxTime /\ w <= n /\ c >= 0
  <2>1. /\ windowStart[a] \in 0..MaxTime /\ now \in WINDOW_DURATION..MaxTime
        /\ count[a] \in 0..MAX_DAILY_POSTS /\ windowStart[a] <= now
    BY DEF StatusInv, StatusTypeOK, WindowsKept
  <2>. QED  BY <1>1, <2>1
<1>3. \A g \in StatusHashes :
        /\ statuses[g].timestamp \in Int
        /\ statuses[g].agent = a => statuses[g].timestamp <= n /\ statuses[g].timestamp < start + w
  BY <1>1, <1>2 DEF StatusInv, StatusTypeOK, WindowsKept
<1>4. \A b \in Agents, from \in Int, to \in Int :
        /\ Posts(b, from, to) \in Nat
        /\ PostedBetween(b, from, to)' = IF b = a /\ n \in from..to
                                    THEN PostedBetween(b, from, to) \cup {h}
                                    ELSE PostedBetween(b, from, to)
        /\ Posts(b, from, to)' = Posts(b, from, to) + (IF b = a /\ n \in from..to THEN 1 ELSE 0)
  BY <1>2, PostJoins, PostedFinite
<1>5. /\ c = Posts(a, start, start + w - 1)
      /\ Posts(a, start - w + 1, start - 1) <= m
      /\ \A from \in Int : from \in w..MaxTime => Posts(a, from, from + w - 1) <= 2 * m
  BY <1>1, <1>2 DEF StatusInv, WindowsKept, RateLimited
<1>6. \A f1, t1, f2, t2 \in Int :
        f2 <= f1 /\ t1 <= t2 => Posts(a, f1, t1) <= Posts(a, f2, t2)
  <2> SUFFICES ASSUME NEW f1 \in Int, NEW t1 \in Int, NEW f2 \in Int, NEW t2 \in Int,
                      f2 <= f1, t1 <= t2
               PROVE  Posts(a, f1, t1) <= Posts(a, f2, t2)
    OBVIOUS
  <2>1. PostedBetween(a, f1, t1) \in SUBSET PostedBetween(a, f2, t2)
    BY <1>3 DEF PostedBetween
  <2>. QED  BY <2>1, PostedFinite, FS_Subset
<1>7. \A f1 \in Int : f1 > start => \A t1 \in Int : Posts(a, f1, t1) <= c
  <2> SUFFICES ASSUME NEW f1 \in Int, NEW t1 \in Int, f1 > start
               PROVE  Posts(a, f1, t1) <= c
    OBVIOUS
  <2>1. PostedBetween(a, f1, t1) \in SUBSET PostedBetween(a, start, start + w - 1)
    BY <1>3, <1>2 DEF PostedBetween
  <2>2. start + w - 1 \in Int
    OBVIOUS
  <2>3. IsFiniteSet(PostedBetween(a, start, start + w - 1))
    BY <2>2, PostedFinite
  <2>. QED  BY <1>5, <2>1, <2>3, FS_Subset
<1>8. \A from \in Int :
        from > start - w /\ from <= start =>
          Posts(a, from, from + w - 1) <= Posts(a, start - w + 1, start - 1) + c
  <2> SUFFICES ASSUME NEW from \in Int, from > start - w, from <= start
               PROVE  Posts(a, from, from + w - 1) <= Posts(a, start - w + 1, start - 1) + c
    OBVIOUS
  <2>1. start - w + 1 \in Int /\ start - 1 \in Int /\ start + w - 1 \in Int /\ from + w - 1 \in Int
    OBVIOUS
  <2>2. PICK S, T, U : /\ S = PostedBetween(a, start - w + 1, start - 1)
                       /\ T = PostedBetween(a, start, start + w - 1)
                       /\ U = PostedBetween(a, from, from + w - 1)
    OBVIOUS
  <2>3. U \in SUBSET (S \cup T)
    BY <1>3, <1>2, <2>2 DEF PostedBetween
  <2>4. IsFiniteSet(S) /\ IsFiniteSet(T)
    BY <2>1, <2>2, PostedFinite
  <2>5. /\ IsFiniteSet(S \cup T) /\ IsFiniteSet(S \cap T)
        /\ Cardinality(S \cup T) = Cardinality(S) + Cardinality(T) - Cardinality(S \cap T)
    <3>1. S \cap T \in SUBSET S
      OBVIOUS
    <3>. QED  BY <2>4, <3>1, FS_Union, FS_Subset
  <2>6. Cardinality(U) <= Cardinality(S \cup T) /\ IsFiniteSet(U)
    BY <2>3, <2>5, FS_Subset
  <2>7. /\ Cardinality(U) \in Nat /\ Cardinality(S) \in Nat /\ Cardinality(T) \in Nat
        /\ Cardinality(S \cap T) \in Nat /\ Cardinality(S \cup T) \in Nat
    BY <2>4, <2>5, <2>6, FS_CardinalityType
  <2>. QED  BY <1>5, <2>2, <2>5, <2>6, <2>7
<1>9. /\ statuses'[h].timestamp = n /\ statuses'[h].agent = a /\ statuses[h].agent # a
      /\ \A g \in StatusHashes : g # h => statuses'[g] = statuses[g]
      /\ statuses' \in [StatusHashes -> [agent : Agents \cup {"none"}, timestamp : 0..MaxTime,
                                          deleted : BOOLEAN]]
      /\ now' = now /\ registered' = registered
  <2>1. /\ statuses' = [statuses EXCEPT ![h] = [agent |-> a, timestamp |-> n, deleted |-> FALSE]]
        /\ statuses[h].agent = "none" /\ "none" \notin Agents
        /\ now' = now /\ registered' = registered
    BY <1>2, StatusRegistryAssumption DEF PostStatus
  <2>2. n \in 0..MaxTime
    BY <1>1, <1>2
  <2>. QED  BY <2>1, <2>2 DEF StatusInv, StatusTypeOK
<1> DEFINE Fine(b) ==
             \E s \in Int :
               /\ s = windowStart'[b] /\ s <= n
               /\ count'[b] = Posts(b, s, s + w - 1)'
               /\ Posts(b, s - w + 1, s - 1)' <= m
               /\ \A g \in StatusHashes : statuses'[g].agent = b =>
                    statuses'[g].timestamp <= n /\ statuses'[g].timestamp < s + w
               /\ \A from \in Int : from \in w..MaxTime => Posts(b, from, from + w - 1)' <= 2 * m
<1>10. ASSUME windowStart' \in [Agents -> 0..MaxTime], count' \in [Agents -> 0..MAX_DAILY_POSTS],
              \A b \in Agents : Fine(b)
       PROVE  StatusInv'
  <2>1. StatusTypeOK'
    BY <1>9, <1>10 DEF StatusInv, StatusTypeOK
  <2>2. WindowsKept'
    <3> SUFFICES ASSUME NEW b \in Agents
                 PROVE  /\ windowStart'[b] <= now'
                        /\ \A g \in StatusHashes : statuses'[g].agent = b =>
                             /\ statuses'[g].timestamp <= now'
                             /\ statuses'[g].timestamp < windowStart'[b] + WINDOW_DURATION
                        /\ Cardinality(PostedBetween(b, windowStart[b] - WINDOW_DURATION + 1,
                                                     windowStart[b] - 1)') <= MAX_DAILY_POSTS
      BY DEF WindowsKept
    <3>1. PICK s \in Int :
               /\ s = windowStart'[b] /\ s <= n
               /\ Posts(b, s - w + 1, s - 1)' <= m
               /\ \A g \in StatusHashes : statuses'[g].agent = b =>
                    statuses'[g].timestamp <= n /\ statuses'[g].timestamp < s + w
      BY <1>10
    <3>2. PostedBetween(b, windowStart[b] - WINDOW_DURATION + 1, windowStart[b] - 1)'
            = PostedBetween(b, s - w + 1, s - 1)'
      BY <1>2, <3>1 DEF PostedBetween
    <3>. QED  BY <1>2, <1>9, <3>1, <3>2
  <2>3. RateLimited'
    <3> SUFFICES ASSUME NEW b \in Agents
                 PROVE  /\ count'[b] = Cardinality(PostedBetween(b, windowStart[b],
                                                     windowStart[b] + WINDOW_DURATION - 1)')
                        /\ \A from \in WINDOW_DURATION..MaxTime :
                             Cardinality(PostedBetween(b, from, from + WINDOW_DURATION - 1)')
                               <= 2 * MAX_DAILY_POSTS
      BY DEF RateLimited
    <3>1. PICK s \in Int :
               /\ s = windowStart'[b]
               /\ count'[b] = Posts(b, s, s + w - 1)'
               /\ \A from \in Int : from \in w..MaxTime => Posts(b, from, from + w - 1)' <= 2 * m
      BY <1>10
    <3>2. PostedBetween(b, windowStart[b], windowStart[b] + WINDOW_DURATION - 1)'
            = PostedBetween(b, s, s + w - 1)'
      BY <1>2, <3>1 DEF PostedBetween
    <3>. QED  BY <1>1, <1>2, <3>1, <3>2
  <2>. QED  BY <2>1, <2>2, <2>3 DEF StatusInv
<1>11. ASSUME NEW b \in Agents, b # a, windowStart'[b] = windowStart[b], count'[b] = count[b]
       PROVE  Fine(b)
  <2>1. PICK s \in Int : s = windowStart[b]
    BY <1>1 DEF StatusInv, StatusTypeOK
  <2>2. /\ s <= n /\ count[b] = Posts(b, s, s + w - 1)
        /\ Posts(b, s - w + 1, s - 1) <= m
        /\ \A g \in StatusHashes : statuses[g].agent = b =>
             statuses[g].timestamp <= n /\ statuses[g].timestamp < s + w
        /\ \A from \in Int : from \in w..MaxTime => Posts(b, from, from + w - 1) <= 2 * m
    BY <1>1, <1>2, <2>1 DEF StatusInv, WindowsKept, RateLimited
  <2>3. \A from \in Int, to \in Int : Posts(b, from, to)' = Posts(b, from, to)
    <3>1. \A from \in Int, to \in Int : PostedBetween(b, from, to)' = PostedBetween(b, from, to)
      BY <1>4, <1>11
    <3>. QED  BY <3>1
  <2>4. \A g \in StatusHashes : statuses'[g].agent = b => statuses'[g] = statuses[g]
    BY <1>9, <1>11
  <2>5. s + w - 1 \in Int /\ s - w + 1 \in Int /\ s - 1 \in Int
        /\ \A from \in Int : from + w - 1 \in Int
    OBVIOUS
  <2>. HIDE DEF Posts
  <2>. QED  BY <1>11, <2>1, <2>2, <2>3, <2>4, <2>5
<1>. HIDE DEF Posts, Fine
<1>12. CASE n >= start + w
  <2>1. windowStart' = [windowStart EXCEPT ![a] = n] /\ count' = [count EXCEPT ![a] = 1]
    BY <1>1, <1>2, <1>12 DEF PostStatus, EnforceRateLimit
  <2>2. /\ windowStart'[a] = n /\ count'[a] = 1
        /\ \A b \in Agents : b # a => windowStart'[b] = windowStart[b] /\ count'[b] = count[b]
        /\ windowStart' \in [Agents -> 0..MaxTime] /\ count' \in [Agents -> 0..MAX_DAILY_POSTS]
    BY <1>1, <1>2, <2>1 DEF StatusInv, StatusTypeOK
  <2>3. Posts(a, n, n + w - 1)' = 1
    <3>1. PostedBetween(a, n, n + w - 1) = {}
      BY <1>2, <1>3, <1>12 DEF PostedBetween
    <3>2. Posts(a, n, n + w - 1) = 0
      BY <3>1, FS_EmptySet DEF Posts
    <3>. QED  BY <1>2, <1>4, <3>2
  <2>4. Posts(a, n - w + 1, n - 1)' <= m
    <3>1. n - w + 1 \in Int /\ n - w + 1 > start /\ n - 1 \in Int
      BY <1>2, <1>12
    <3>2. Posts(a, n - w + 1, n - 1) <= c
      BY <1>7, <3>1
    <3>3. n \notin (n - w + 1)..(n - 1)
      BY <1>2
    <3>4. Posts(a, n - w + 1, n - 1)' = Posts(a, n - w + 1, n - 1) + 0
      BY <1>4, <3>1, <3>3
    <3>5. Posts(a, n - w + 1, n - 1) \in Nat
      BY <1>4, <3>1
    <3>. QED  BY <1>2, <3>2, <3>4, <3>5
  <2>5. ASSUME NEW from \in Int, from \in w..MaxTime PROVE Posts(a, from, from + w - 1)' <= 2 * m
    <3>1. from + w - 1 \in Int /\ Posts(a, from, from + w - 1) <= 2 * m
          /\ Posts(a, from, from + w - 1) \in Nat
      BY <1>4, <1>5, <2>5
    <3>2. CASE n \in from..(from + w - 1)
      <4>1. Posts(a, from, from + w - 1) <= c
        BY <1>2, <1>7, <1>12, <3>1, <3>2
      <4>. QED  BY <1>2, <1>4, <3>1, <4>1
    <3>3. CASE n \notin from..(from + w - 1)
      BY <1>4, <3>1, <3>3
    <3>. QED  BY <3>2, <3>3
  <2>6. \A g \in StatusHashes : statuses'[g].agent = a =>
          statuses'[g].timestamp <= n /\ statuses'[g].timestamp < n + w
    BY <1>2, <1>3, <1>9, <1>12
  <2>7. Fine(a)
    BY <1>2, <2>2, <2>3, <2>4, <2>5, <2>6 DEF Fine
  <2>. QED  BY <1>10, <1>11, <2>2, <2>7
<1>13. CASE n < start + w
  <2>1. windowStart' = windowStart /\ c < m /\ count' = [count EXCEPT ![a] = c + 1]
    BY <1>1, <1>2, <1>13 DEF PostStatus, EnforceRateLimit
  <2>2. /\ windowStart'[a] = start /\ count'[a] = c + 1
        /\ \A b \in Agents : b # a => windowStart'[b] = windowStart[b] /\ count'[b] = count[b]
        /\ windowStart' \in [Agents -> 0..MaxTime] /\ count' \in [Agents -> 0..MAX_DAILY_POSTS]
    BY <1>1, <1>2, <2>1 DEF StatusInv, StatusTypeOK
  <2>3. Posts(a, start, start + w - 1)' = c + 1
    BY <1>2, <1>4, <1>5, <1>13
  <2>4. Posts(a, start - w + 1, start - 1)' <= m
    <3>1. start - w + 1 \in Int /\ start - 1 \in Int /\ n \notin (start - w + 1)..(start - 1)
      BY <1>2
    <3>. QED  BY <1>4, <1>5, <3>1
  <2>5. ASSUME NEW from \in Int, from \in w..MaxTime PROVE Posts(a, from, from + w - 1)' <= 2 * m
    <3>1. from + w - 1 \in Int /\ Posts(a, from, from + w - 1) <= 2 * m
          /\ Posts(a, from, from + w - 1) \in Nat
      BY <1>4, <1>5, <2>5
    <3>2. CASE n \in from..(from + w - 1)
      <4>1. CASE from > start
        <5>1. Posts(a, from, from + w - 1) <= c
          BY <1>7, <3>1, <4>1
        <5>. QED  BY <1>2, <1>4, <2>1, <3>1, <5>1
      <4>2. CASE from <= start
        <5>1. from > start - w
          BY <1>2, <3>2
        <5>2. Posts(a, from, from + w - 1) <= Posts(a, start - w + 1, start - 1) + c
          BY <1>8, <4>2, <5>1
        <5>3. Posts(a, start - w + 1, start - 1) \in Nat
          BY <1>4
        <5>. QED  BY <1>2, <1>4, <1>5, <2>1, <3>1, <5>2, <5>3
      <4>. QED  BY <4>1, <4>2
    <3>3. CASE n \notin from..(from + w - 1)
      BY <1>4, <3>1, <3>3
    <3>. QED  BY <3>2, <3>3
  <2>6. \A g \in StatusHashes : statuses'[g].agent = a =>
          statuses'[g].timestamp <= n /\ statuses'[g].timestamp < start + w
    BY <1>2, <1>3, <1>9, <1>13
  <2>7. Fine(a)
    BY <1>2, <2>2, <2>3, <2>4, <2>5, <2>6 DEF Fine
  <2>. QED  BY <1>10, <1>11, <2>2, <2>7
<1>. QED  BY <1>2, <1>12, <1>13

(* The daily limit of an agent's status updates, counted over the windows    *)
(* (_enforceRateLimit), bounds every stretch of a window's length.           *)
THEOREM PostsAreLimited == StatusSpec => []RateLimited
<1>1. ASSUME StatusInv, [StatusNext]_statusVars PROVE StatusInv'
  <2>1. CASE Tick
    <3>1. StatusTypeOK' /\ now <= now'
      BY <1>1, <2>1, StatusRegistryAssumption DEF Tick, StatusInv, StatusTypeOK
    <3>. QED  BY <1>1, <2>1, <3>1, NothingPosted DEF Tick
  <2>2. ASSUME NEW a \in Agents, ChangeRegistration(a), UNCHANGED <<now, statuses, windowStart, count>>
        PROVE  StatusInv'
    <3>1. StatusTypeOK' /\ now <= now'
      BY <1>1, <2>2, StatusRegistryAssumption DEF ChangeRegistration, StatusInv, StatusTypeOK
    <3>. QED  BY <1>1, <2>2, <3>1, NothingPosted
  <2>3. ASSUME NEW a \in Agents, NEW h \in StatusHashes, PostStatus(a, h) PROVE StatusInv'
    BY <1>1, <2>3, PostKeepsLimit
  <2>4. ASSUME NEW a \in Agents, NEW h \in StatusHashes, DeleteStatus(a, h) PROVE StatusInv'
    <3>1. statuses' = [statuses EXCEPT ![h].deleted = TRUE]
          /\ UNCHANGED <<now, registered, windowStart, count>>
      BY <2>4 DEF DeleteStatus
    <3>2. StatusTypeOK' /\ now <= now'
      <4>1. now \in Int /\ statuses[h] \in [agent : Agents \cup {"none"}, timestamp : 0..MaxTime,
                                             deleted : BOOLEAN]
        BY <1>1, StatusRegistryAssumption DEF StatusInv, StatusTypeOK
      <4> DEFINE new == [statuses[h] EXCEPT !.deleted = TRUE]
      <4>2. new \in [agent : Agents \cup {"none"}, timestamp : 0..MaxTime, deleted : BOOLEAN]
        BY <4>1
      <4>3. statuses' = [statuses EXCEPT ![h] = new]
        BY <3>1
      <4>. HIDE DEF new
      <4>4. statuses' \in [StatusHashes -> [agent : Agents \cup {"none"}, timestamp : 0..MaxTime,
                                             deleted : BOOLEAN]]
        BY <1>1, <4>2, <4>3 DEF StatusInv, StatusTypeOK
      <4>5. now <= now' /\ now' \in WINDOW_DURATION..MaxTime
        BY <1>1, <3>1, <4>1 DEF StatusInv, StatusTypeOK
      <4>. QED  BY <1>1, <3>1, <4>4, <4>5 DEF StatusInv, StatusTypeOK
    <3>3. \A g \in StatusHashes : /\ statuses'[g].agent = statuses[g].agent
                                  /\ statuses'[g].timestamp = statuses[g].timestamp
      BY <1>1, <3>1 DEF StatusInv, StatusTypeOK
    <3>. QED  BY <1>1, <3>1, <3>2, <3>3, NothingPosted
  <2>5. CASE UNCHANGED statusVars
    <3>1. StatusTypeOK' /\ now <= now'
      BY <1>1, <2>5, StatusRegistryAssumption DEF statusVars, StatusInv, StatusTypeOK
    <3>. QED  BY <1>1, <2>5, <3>1, NothingPosted DEF statusVars
  <2>. QED  BY <1>1, <2>1, <2>2, <2>3, <2>4, <2>5 DEF StatusNext
<1>2. StatusInv => RateLimited
  BY DEF StatusInv
<1>. QED  BY <1>1, <1>2, StatusInitial, PTL DEF StatusSpec

-----------------------------------------------------------------------------
(* Squads and their briefings.                                              *)
SquadsGrow ==
  \A q \in Squads : ~Exists(q) => Members(q) = {}

SquadInv == SquadTypeOK /\ MembersAdmitted /\ SquadsGrow

LEMMA SquadInitial == SquadInit => SquadInv
<1> SUFFICES ASSUME SquadInit PROVE SquadInv
  OBVIOUS
<1>1. SquadTypeOK
  BY ResearchSquadAssumption DEF SquadInit, SquadTypeOK, NoSquad, RegistryInit
<1>2. \A q \in Squads : Members(q) = {} /\ squads[q].memberCount = 0
  BY DEF SquadInit, Members, IsMember, NoSquad
<1>. QED  BY <1>1, <1>2, FS_EmptySet DEF SquadInv, MembersAdmitted, SquadsGrow

(* What a step that concerns one squad has to say of it.                    *)
LEMMA OneSquadTouched ==
  ASSUME SquadInv, SquadTypeOK', NEW q \in Squads,
         \A p \in Squads \ {q} : /\ squads'[p] = squads[p] /\ roles'[p] = roles[p]
                                 /\ invited'[p] = invited[p],
         squads'[q].memberCount = Cardinality(Members(q)'),
         squads'[q].inviteOnly =>
           \A a \in Agents : roles'[q][a] # "none" => roles'[q][a] = "Lead" \/ a \in invited'[q],
         squads'[q].status = "none" => Members(q)' = {},
         \A a \in Agents : roles[q][a] # "none" => roles'[q][a] = roles[q][a]
  PROVE  /\ SquadInv'
         /\ \A p \in Squads, a \in Agents : IsMember(p, a) => IsMember(p, a)'
<1>1. ASSUME NEW p \in Squads, p # q PROVE Members(p)' = Members(p)
  BY <1>1 DEF Members, IsMember
<1>2. ASSUME NEW p \in Squads
      PROVE  /\ squads'[p].memberCount = Cardinality(Members(p)')
             /\ squads'[p].inviteOnly =>
                  \A a \in Agents : roles'[p][a] # "none" => roles'[p][a] = "Lead" \/ a \in invited'[p]
             /\ squads'[p].status = "none" => Members(p)' = {}
  <2>1. CASE p = q
    BY <2>1
  <2>2. CASE p # q
    <3>1. /\ squads[p].memberCount = Cardinality(Members(p))
          /\ squads[p].inviteOnly => \A a \in Members(p) : IsLead(p, a) \/ a \in invited[p]
          /\ squads[p].status = "none" => Members(p) = {}
      BY DEF SquadInv, MembersAdmitted, SquadsGrow, Exists
    <3>2. /\ squads'[p] = squads[p] /\ roles'[p] = roles[p] /\ invited'[p] = invited[p]
          /\ Members(p)' = Members(p)
      BY <1>1, <2>2
    <3>3. squads'[p].inviteOnly =>
            \A a \in Agents : roles'[p][a] # "none" => roles'[p][a] = "Lead" \/ a \in invited'[p]
      BY <3>1, <3>2 DEF Members, IsMember, IsLead
    <3>. QED  BY <3>1, <3>2, <3>3
  <2>. QED  BY <2>1, <2>2
<1>3. MembersAdmitted'
  BY <1>2 DEF MembersAdmitted, Members, IsMember, IsLead
<1>4. SquadsGrow'
  BY <1>2 DEF SquadsGrow, Exists
<1>5. \A p \in Squads, a \in Agents : IsMember(p, a) => IsMember(p, a)'
  BY DEF IsMember
<1>. QED  BY <1>3, <1>4, <1>5 DEF SquadInv

LEMMA SquadStep ==
  ASSUME SquadInv, [SquadNext]_squadVars
  PROVE  /\ SquadInv'
         /\ \A q \in Squads, a \in Agents : IsMember(q, a) => IsMember(q, a)'
<1> DEFINE Goal == /\ SquadInv'
                   /\ \A q \in Squads, a \in Agents : IsMember(q, a) => IsMember(q, a)'
<1>1. /\ squads \in [Squads -> [status : {"none", "Active", "Completed"}, inviteOnly : BOOLEAN,
                                memberCount : 0..MAX_SQUAD_MEMBERS]]
      /\ roles \in [Squads -> [Agents -> {"none", "Lead", "Contributor"}]]
      /\ invited \in [Squads -> SUBSET Agents]
      /\ MAX_SQUAD_MEMBERS \in Nat /\ MAX_SQUAD_MEMBERS >= 1
  BY ResearchSquadAssumption DEF SquadInv, SquadTypeOK
<1>2. \A q \in Squads : IsFiniteSet(Members(q)) /\ Cardinality(Members(q)) \in Nat
  <2>1. \A q \in Squads : Members(q) \in SUBSET Agents
    BY DEF Members
  <2>2. \A q \in Squads : IsFiniteSet(Members(q))
    BY <2>1, ResearchSquadAssumption, FS_Subset
  <2>. QED  BY <2>2, FS_CardinalityType
<1>3. ASSUME NEW q \in Squads
      PROVE  /\ squads[q].memberCount = Cardinality(Members(q))
             /\ squads[q].inviteOnly =>
                  \A b \in Agents : roles[q][b] # "none" => roles[q][b] = "Lead" \/ b \in invited[q]
             /\ squads[q].status = "none" => Members(q) = {}
  BY DEF SquadInv, MembersAdmitted, SquadsGrow, Exists, Members, IsMember, IsLead
<1>4. ASSUME UNCHANGED <<squads, roles, invited>>, SquadTypeOK' PROVE Goal
  <2>1. MembersAdmitted'
    BY <1>4 DEF SquadInv, MembersAdmitted, Members, IsMember, IsLead
  <2>2. SquadsGrow'
    BY <1>4 DEF SquadInv, SquadsGrow, Members, IsMember, Exists
  <2>. QED  BY <1>4, <2>1, <2>2 DEF SquadInv, IsMember
<1>5. ASSUME NEW a \in Agents, NEW inviteOnly \in BOOLEAN, CreateSquad(a, inviteOnly) PROVE Goal
  <2>1. PICK q \in Squads :
          /\ ~Exists(q)
          /\ squads' = [squads EXCEPT ![q] =
               [status |-> "Active", inviteOnly |-> inviteOnly, memberCount |-> 1]]
          /\ roles' = [roles EXCEPT ![q][a] = "Lead"]
    BY <1>5 DEF CreateSquad
  <2>2. UNCHANGED <<registered, invited, contributions>>
    BY <1>5 DEF CreateSquad
  <2>3. \A b \in Agents : roles[q][b] = "none"
    BY <1>3, <2>1 DEF Members, IsMember, Exists
  <2> DEFINE row == [roles[q] EXCEPT ![a] = "Lead"]
  <2>4. row \in [Agents -> {"none", "Lead", "Contributor"}] /\ roles' = [roles EXCEPT ![q] = row]
        /\ row[a] = "Lead" /\ \A b \in Agents : b # a => row[b] = "none"
    BY <1>1, <2>1, <2>3
  <2>. HIDE DEF row
  <2>5. /\ \A p \in Squads \ {q} : /\ squads'[p] = squads[p] /\ roles'[p] = roles[p]
                                   /\ invited'[p] = invited[p]
        /\ squads'[q] = [status |-> "Active", inviteOnly |-> inviteOnly, memberCount |-> 1]
        /\ roles'[q] = row
    BY <1>1, <2>1, <2>2, <2>4
  <2>6. SquadTypeOK'
    <3>1. [status |-> "Active", inviteOnly |-> inviteOnly, memberCount |-> 1]
            \in [status : {"none", "Active", "Completed"}, inviteOnly : BOOLEAN,
                 memberCount : 0..MAX_SQUAD_MEMBERS]
      BY <1>1
    <3>2. squads' \in [Squads -> [status : {"none", "Active", "Completed"}, inviteOnly : BOOLEAN,
                                  memberCount : 0..MAX_SQUAD_MEMBERS]]
      BY <1>1, <2>1, <3>1
    <3>3. roles' \in [Squads -> [Agents -> {"none", "Lead", "Contributor"}]]
      BY <1>1, <2>4
    <3>. QED  BY <2>2, <3>2, <3>3 DEF SquadInv, SquadTypeOK
  <2>7. Members(q)' = {a}
    BY <2>4, <2>5 DEF Members, IsMember
  <2>8. squads'[q].memberCount = Cardinality(Members(q)')
    <3>1. Cardinality({a}) = 1 /\ squads'[q].memberCount = 1
      BY <2>5, FS_Singleton
    <3>. QED  BY <2>7, <3>1
  <2>. QED  BY <2>3, <2>4, <2>5, <2>6, <2>8, OneSquadTouched
<1>6. ASSUME NEW q \in Squads, NEW a \in Agents, JoinSquad(q, a) PROVE Goal
  <2> DEFINE row == [roles[q] EXCEPT ![a] = "Contributor"]
             squad == [squads[q] EXCEPT !.memberCount = squads[q].memberCount + 1]
  <2>1. /\ Active(q) /\ ~IsMember(q, a) /\ (squads[q].inviteOnly => a \in invited[q])
        /\ squads[q].memberCount < MAX_SQUAD_MEMBERS
        /\ roles' = [roles EXCEPT ![q] = row] /\ squads' = [squads EXCEPT ![q] = squad]
        /\ UNCHANGED <<registered, invited, contributions>>
    BY <1>6 DEF JoinSquad
  <2>2. /\ row \in [Agents -> {"none", "Lead", "Contributor"}] /\ row[a] = "Contributor"
        /\ \A b \in Agents : b # a => row[b] = roles[q][b]
    BY <1>1
  <2>3. /\ squad \in [status : {"none", "Active", "Completed"}, inviteOnly : BOOLEAN,
                      memberCount : 0..MAX_SQUAD_MEMBERS]
        /\ squad.status = "Active" /\ squad.inviteOnly = squads[q].inviteOnly
        /\ squad.memberCount = squads[q].memberCount + 1
    <3>1. squads[q] \in [status : {"none", "Active", "Completed"}, inviteOnly : BOOLEAN,
                         memberCount : 0..MAX_SQUAD_MEMBERS]
      BY <1>1
    <3>2. squads[q].memberCount + 1 \in 0..MAX_SQUAD_MEMBERS
      BY <1>1, <2>1, <3>1
    <3>. QED  BY <2>1, <3>1, <3>2 DEF Active
  <2>. HIDE DEF row, squad
  <2>4. /\ \A p \in Squads \ {q} : /\ squads'[p] = squads[p] /\ roles'[p] = roles[p]
                                   /\ invited'[p] = invited[p]
        /\ squads'[q] = squad /\ roles'[q] = row /\ invited'[q] = invited[q]
    BY <1>1, <2>1
  <2>5. SquadTypeOK'
    <3>1. squads' \in [Squads -> [status : {"none", "Active", "Completed"}, inviteOnly : BOOLEAN,
                                  memberCount : 0..MAX_SQUAD_MEMBERS]]
      BY <1>1, <2>1, <2>3
    <3>2. roles' \in [Squads -> [Agents -> {"none", "Lead", "Contributor"}]]
      BY <1>1, <2>1, <2>2
    <3>. QED  BY <2>1, <3>1, <3>2 DEF SquadInv, SquadTypeOK
  <2>6. roles[q][a] = "none"
    BY <2>1 DEF IsMember
  <2>7. Members(q)' = Members(q) \cup {a} /\ a \notin Members(q)
    BY <2>2, <2>4, <2>6 DEF Members, IsMember
  <2>8. squads'[q].memberCount = Cardinality(Members(q)')
    <3>1. PICK S : S = Members(q)
      OBVIOUS
    <3>2. IsFiniteSet(S) /\ a \notin S
      BY <1>2, <2>7, <3>1
    <3>3. Cardinality(S \cup {a}) = Cardinality(S) + 1
      BY <3>2, FS_AddElement
    <3>4. squads'[q].memberCount = Cardinality(S) + 1
      BY <1>3, <2>3, <2>4, <3>1
    <3>. QED  BY <2>7, <3>1, <3>3, <3>4
  <2>9. squads'[q].inviteOnly =>
          \A b \in Agents : roles'[q][b] # "none" => roles'[q][b] = "Lead" \/ b \in invited'[q]
    <3>1. \A b \in Agents : b # a => roles'[q][b] = roles[q][b]
      BY <2>2, <2>4
    <3>2. squads'[q].inviteOnly = squads[q].inviteOnly
      BY <2>3, <2>4
    <3>. QED  BY <1>3, <2>1, <2>4, <3>1, <3>2
  <2>. QED  BY <2>2, <2>3, <2>4, <2>5, <2>6, <2>8, <2>9, OneSquadTouched
<1>7. ASSUME NEW q \in Squads, NEW a \in Agents, ConcludeSquad(q, a) PROVE Goal
  <2> DEFINE squad == [squads[q] EXCEPT !.status = "Completed"]
  <2>1. squads' = [squads EXCEPT ![q] = squad] /\ UNCHANGED <<registered, roles, invited, contributions>>
    BY <1>7 DEF ConcludeSquad
  <2>2. /\ squad \in [status : {"none", "Active", "Completed"}, inviteOnly : BOOLEAN,
                      memberCount : 0..MAX_SQUAD_MEMBERS]
        /\ squad.status = "Completed" /\ squad.inviteOnly = squads[q].inviteOnly
        /\ squad.memberCount = squads[q].memberCount
    BY <1>1
  <2>. HIDE DEF squad
  <2>3. /\ \A p \in Squads \ {q} : /\ squads'[p] = squads[p] /\ roles'[p] = roles[p]
                                   /\ invited'[p] = invited[p]
        /\ squads'[q] = squad /\ roles'[q] = roles[q] /\ invited'[q] = invited[q]
    BY <1>1, <2>1
  <2>4. SquadTypeOK'
    BY <1>1, <2>1, <2>2 DEF SquadInv, SquadTypeOK
  <2>5. Members(q)' = Members(q)
    BY <2>3 DEF Members, IsMember
  <2>. QED  BY <1>3, <2>2, <2>3, <2>4, <2>5, OneSquadTouched
<1>8. ASSUME NEW q \in Squads, NEW lead \in Agents, NEW a \in Agents, InviteAgent(q, lead, a) PROVE Goal
  <2>1. invited' = [invited EXCEPT ![q] = invited[q] \cup {a}]
        /\ UNCHANGED <<registered, squads, roles, contributions>>
    BY <1>8 DEF InviteAgent
  <2>2. /\ \A p \in Squads \ {q} : /\ squads'[p] = squads[p] /\ roles'[p] = roles[p]
                                   /\ invited'[p] = invited[p]
        /\ squads'[q] = squads[q] /\ roles'[q] = roles[q] /\ invited[q] \subseteq invited'[q]
    BY <1>1, <2>1
  <2>3. SquadTypeOK'
    <3>1. invited[q] \cup {a} \in SUBSET Agents
      BY <1>1
    <3>2. invited' \in [Squads -> SUBSET Agents]
      BY <1>1, <2>1, <3>1
    <3>. QED  BY <2>1, <3>2 DEF SquadInv, SquadTypeOK
  <2>4. Members(q)' = Members(q)
    BY <2>2 DEF Members, IsMember
  <2>. QED  BY <1>3, <2>2, <2>3, <2>4, OneSquadTouched
<1>9. ASSUME NEW q \in Squads, NEW a \in Agents, NEW h \in Hashes, RecordContribution(q, a, h) PROVE Goal
  <2>1. SquadTypeOK' /\ UNCHANGED <<squads, roles, invited>>
    BY <1>9 DEF RecordContribution, SquadInv, SquadTypeOK
  <2>. QED  BY <1>4, <2>1
<1>10. ASSUME NEW a \in Agents, ChangeRegistration(a), UNCHANGED <<squads, roles, invited, contributions>>
       PROVE  Goal
  <2>1. SquadTypeOK' /\ UNCHANGED <<squads, roles, invited>>
    BY <1>10 DEF ChangeRegistration, SquadInv, SquadTypeOK
  <2>. QED  BY <1>4, <2>1
<1>11. ASSUME UNCHANGED squadVars PROVE Goal
  <2>1. SquadTypeOK' /\ UNCHANGED <<squads, roles, invited>>
    BY <1>11 DEF squadVars, SquadInv, SquadTypeOK
  <2>. QED  BY <1>4, <2>1
<1>. QED  BY <1>5, <1>6, <1>7, <1>8, <1>9, <1>10, <1>11 DEF SquadNext

(* A new element at the end of a sequence without repetitions.              *)
LEMMA AppendDistinct ==
  ASSUME NEW S, NEW s \in Seq(S), NEW x \in S
  PROVE  /\ Append(s, x) \in Seq(S)
         /\ ToSet(Append(s, x)) = ToSet(s) \cup {x}
         /\ IsInjective(s) /\ x \notin ToSet(s) => IsInjective(Append(s, x))
<1> DEFINE t == Append(s, x)
           n == Len(s)
<1>1. /\ t \in Seq(S) /\ n \in Nat /\ DOMAIN s = 1..n /\ DOMAIN t = 1..(n + 1)
      /\ t[n + 1] = x /\ \A i \in 1..n : t[i] = s[i]
  OBVIOUS
<1>2. \A i \in 1..(n + 1) : i \in 1..n \/ i = n + 1
  BY <1>1
<1>3. 1..n \subseteq 1..(n + 1) /\ n + 1 \in 1..(n + 1)
  BY <1>1
<1>. HIDE DEF t, n
<1>4. ToSet(t) = ToSet(s) \cup {x}
  BY <1>1, <1>2, <1>3 DEF ToSet
<1>5. ASSUME IsInjective(s), x \notin ToSet(s) PROVE IsInjective(t)
  <2>1. \A i \in 1..n : s[i] # x
    BY <1>1, <1>5 DEF ToSet
  <2>2. \A i, j \in 1..n : s[i] = s[j] => i = j
    BY <1>1, <1>5 DEF IsInjective
  <2>. QED  BY <1>1, <1>2, <2>1, <2>2 DEF IsInjective
<1>. QED  BY <1>1, <1>4, <1>5 DEF t

(* What is published belongs to a squad and an agent, what nobody published  *)
(* nobody has cited, and a proposal is a member's.                          *)
BriefingsKnown ==
  \A h \in Hashes :
    /\ IsPublished(h) => briefings[h].squad \in Squads /\ briefings[h].publisher \in Agents
    /\ ~IsPublished(h) => \A a \in Agents : snapshot[h][a] = NoNumber
    /\ proposals[h].status # None =>
         /\ proposals[h].squad \in Squads /\ proposals[h].proposer \in Agents
         /\ IsMember(proposals[h].squad, proposals[h].proposer)
    /\ proposals[h] = NoProposal => \A q \in Squads : h \notin ToSet(proposed[q])

BriefingInv ==
  SquadInv /\ BriefingTypeOK /\ PublishedOnce /\ CitationsHonest /\ BriefingsKnown

LEMMA BriefingConstants ==
  /\ None \notin Agents /\ NoNumber \notin Squads /\ IsFiniteSet(Agents)
  /\ \A score \in TrustScores : score # NoNumber
  /\ Cardinality(Agents) \in Nat
  BY ResearchSquadAssumption, SquadBriefingAssumption, FS_CardinalityType
  DEF None, NoNumber, Squads

LEMMA BriefingInitial == BriefingInit => BriefingInv
<1> SUFFICES ASSUME BriefingInit PROVE BriefingInv
  OBVIOUS
<1>1. SquadInv
  BY SquadInitial DEF BriefingInit
<1>2. /\ \A q \in Squads : published[q] = <<>> /\ proposed[q] = <<>>
      /\ \A h \in Hashes : /\ briefings[h] = NoBriefing /\ proposals[h] = NoProposal
                           /\ counts[h].raw = 0 /\ counts[h].weighted = 0
                           /\ \A a \in Agents : snapshot[h][a] = NoNumber
  BY DEF BriefingInit
<1>3. ToSet(<<>>) = {} /\ IsInjective(<<>>)
  BY DEF ToSet, IsInjective
<1>4. BriefingTypeOK
  <2>1. published \in [Squads -> Seq(Hashes)] /\ proposed \in [Squads -> Seq(Hashes)]
    BY DEF BriefingInit
  <2>2. /\ NoBriefing \in [squad : SquadOrNone, publisher : AgentOrNone]
        /\ NoProposal \in [squad : SquadOrNone, proposer : AgentOrNone,
                           status : {None, "Pending", "Approved", "Rejected"}]
    BY DEF NoBriefing, NoProposal, SquadOrNone, AgentOrNone
  <2>3. [raw |-> 0, weighted |-> 0] \in [raw : 0..Cardinality(Agents), weighted : 0..Cardinality(Agents)]
    BY BriefingConstants
  <2>. QED  BY <1>1, <1>2, <1>3, <2>1, <2>2, <2>3 DEF BriefingInit, BriefingTypeOK, SquadInv
<1>5. PublishedOnce
  BY <1>2, <1>3, BriefingConstants DEF PublishedOnce, IsPublished, NoBriefing, NoProposal, None
<1>6. CitationsHonest
  <2>1. ASSUME NEW h \in Hashes
        PROVE  LET cited == {a \in Agents : snapshot[h][a] # NoNumber}
               IN  cited = {} /\ {a \in cited : snapshot[h][a] >= MIN_CITER_TRUST} = {}
    BY <1>2
  <2>2. Cardinality({}) = 0
    BY FS_EmptySet
  <2>. QED  BY <1>2, <2>1, <2>2 DEF CitationsHonest
<1>7. BriefingsKnown
  BY <1>2, <1>3 DEF BriefingsKnown, IsPublished, NoProposal
<1>. QED  BY <1>1, <1>4, <1>5, <1>6, <1>7 DEF BriefingInv

(* What a step of the squads alone leaves true of their briefings.          *)
LEMMA OutputsUntouched ==
  ASSUME BriefingInv, SquadInv', UNCHANGED outputVars,
         \A q \in Squads, a \in Agents : IsMember(q, a) => IsMember(q, a)'
  PROVE  BriefingInv'
<1>1. BriefingTypeOK'
  BY DEF BriefingInv, BriefingTypeOK, SquadInv, outputVars
<1>2. CitationsHonest'
  BY DEF BriefingInv, CitationsHonest, outputVars
<1>3. PublishedOnce'
  <2> SUFFICES ASSUME NEW h \in Hashes
               PROVE  /\ \A q \in Squads :
                           /\ h \in ToSet(published'[q]) <=>
                                (briefings'[h] # NoBriefing /\ briefings'[h].squad = q)
                           /\ briefings'[h].squad = q => IsMember(q, briefings[h].publisher)'
                      /\ proposals'[h].status = "Approved" =>
                           briefings'[h] = [squad |-> proposals'[h].squad,
                                            publisher |-> proposals'[h].proposer]
    BY DEF PublishedOnce, IsPublished
  <2>1. UNCHANGED <<briefings, published, proposals>>
    BY DEF outputVars
  <2>2. ASSUME NEW q \in Squads, briefings[h].squad = q PROVE IsMember(q, briefings[h].publisher)'
    <3>1. briefings[h] # NoBriefing
      BY <2>2, BriefingConstants DEF NoBriefing
    <3>2. briefings[h].publisher \in Agents
      BY <3>1 DEF BriefingInv, BriefingsKnown, IsPublished
    <3>3. IsMember(q, briefings[h].publisher)
      BY <2>2 DEF BriefingInv, PublishedOnce
    <3>4. PICK p \in Agents : p = briefings[h].publisher
      BY <3>2
    <3>5. IsMember(q, p)'
      BY <3>3, <3>4
    <3>. QED  BY <2>1, <3>4, <3>5 DEF IsMember
  <2>. QED  BY <2>1, <2>2 DEF BriefingInv, PublishedOnce, IsPublished
<1>4. BriefingsKnown'
  <2>1. UNCHANGED <<briefings, proposals, proposed, snapshot>>
    BY DEF outputVars
  <2> SUFFICES ASSUME NEW h \in Hashes, proposals[h].status # None
               PROVE  roles'[proposals[h].squad][proposals[h].proposer] # "none"
    BY <2>1 DEF BriefingInv, BriefingsKnown, IsPublished, IsMember
  <2>2. PICK q \in Squads, a \in Agents : q = proposals[h].squad /\ a = proposals[h].proposer /\ IsMember(q, a)
    BY DEF BriefingInv, BriefingsKnown
  <2>3. IsMember(q, a)'
    BY <2>2
  <2>. QED  BY <2>2, <2>3 DEF IsMember
<1>. QED  BY <1>1, <1>2, <1>3, <1>4 DEF BriefingInv

(* A publication by, or in the name of, a member (_publish).                *)
LEMMA PublishKeeps ==
  ASSUME BriefingInv, NEW q \in Squads, NEW h \in Hashes, NEW a \in Agents,
         ~IsPublished(h), IsMember(q, a), Publish(q, h, a),
         UNCHANGED <<squadVars, proposed, snapshot, counts>>,
         \/ proposals' = proposals
         \/ /\ proposals[h].status = "Pending"
            /\ proposals[h].squad = q /\ proposals[h].proposer = a
            /\ proposals' = [proposals EXCEPT ![h].status = "Approved"]
  PROVE  BriefingInv'
<1>1. /\ briefings \in [Hashes -> [squad : SquadOrNone, publisher : AgentOrNone]]
      /\ proposals \in [Hashes -> [squad : SquadOrNone, proposer : AgentOrNone,
                                   status : {None, "Pending", "Approved", "Rejected"}]]
      /\ published \in [Squads -> Seq(Hashes)]
      /\ briefings[h] = NoBriefing
      /\ q \in SquadOrNone /\ a \in AgentOrNone
  BY DEF BriefingInv, BriefingTypeOK, IsPublished, SquadOrNone, AgentOrNone
<1> DEFINE new == [squad |-> q, publisher |-> a]
           list == Append(published[q], h)
<1>2. /\ briefings' = [briefings EXCEPT ![h] = new]
      /\ published' = [published EXCEPT ![q] = list]
  BY DEF Publish
<1>3. new # NoBriefing /\ new.squad = q /\ new.publisher = a
      /\ new \in [squad : SquadOrNone, publisher : AgentOrNone]
  BY <1>1, BriefingConstants DEF NoBriefing
<1>4. \A p \in Squads : h \notin ToSet(published[p])
  BY DEF BriefingInv, PublishedOnce
<1>5. list \in Seq(Hashes) /\ ToSet(list) = ToSet(published[q]) \cup {h} /\ IsInjective(list)
  <2>1. IsInjective(published[q]) /\ published[q] \in Seq(Hashes)
    BY <1>1 DEF BriefingInv, BriefingTypeOK
  <2>. QED  BY <1>4, <2>1, AppendDistinct
<1>. HIDE DEF new, list
<1>6. /\ briefings'[h] = new /\ published'[q] = list
      /\ \A g \in Hashes : g # h => briefings'[g] = briefings[g]
      /\ \A p \in Squads : p # q => published'[p] = published[p]
      /\ briefings' \in [Hashes -> [squad : SquadOrNone, publisher : AgentOrNone]]
      /\ published' \in [Squads -> Seq(Hashes)]
  BY <1>1, <1>2, <1>3, <1>5
<1>7. /\ proposals' \in [Hashes -> [squad : SquadOrNone, proposer : AgentOrNone,
                                    status : {None, "Pending", "Approved", "Rejected"}]]
      /\ \A g \in Hashes : /\ g # h => proposals'[g] = proposals[g]
                           /\ proposals'[g].squad = proposals[g].squad
                           /\ proposals'[g].proposer = proposals[g].proposer
                           /\ proposals'[g].status # None => proposals[g].status # None
                           /\ proposals'[g] = NoProposal => proposals[g] = NoProposal
      /\ proposals'[h].status = "Approved" => proposals[h].squad = q /\ proposals[h].proposer = a
  <2>1. CASE proposals' = proposals
    <3>1. proposals[h].status # "Approved"
      BY <1>1, BriefingConstants DEF BriefingInv, PublishedOnce, BriefingsKnown, NoBriefing, None
    <3>. QED  BY <1>1, <2>1, <3>1
  <2>2. CASE proposals' # proposals
    <3> DEFINE entry == [proposals[h] EXCEPT !.status = "Approved"]
    <3>1. /\ proposals[h].status = "Pending" /\ proposals[h].squad = q /\ proposals[h].proposer = a
          /\ proposals' = [proposals EXCEPT ![h] = entry]
      BY <2>2
    <3>2. /\ entry \in [squad : SquadOrNone, proposer : AgentOrNone,
                        status : {None, "Pending", "Approved", "Rejected"}]
          /\ entry.squad = q /\ entry.proposer = a /\ entry.status = "Approved"
      BY <1>1, <3>1
    <3>3. entry # NoProposal
      BY <3>2 DEF NoProposal, None
    <3>. HIDE DEF entry
    <3>. QED  BY <1>1, <3>1, <3>2, <3>3 DEF None
  <2>. QED  BY <2>1, <2>2
<1>8. BriefingTypeOK'
  <2>1. \A p \in Squads : IsInjective(published'[p]) /\ IsInjective(proposed'[p])
    BY <1>5, <1>6 DEF BriefingInv, BriefingTypeOK
  <2>2. SquadTypeOK'
    BY DEF BriefingInv, BriefingTypeOK, SquadTypeOK, squadVars
  <2>. QED  BY <1>6, <1>7, <2>1, <2>2 DEF BriefingInv, BriefingTypeOK
<1>9. SquadInv'
  BY SquadStep DEF BriefingInv
<1>10. PublishedOnce'
  <2>1. ASSUME NEW g \in Hashes, NEW p \in Squads
        PROVE  /\ g \in ToSet(published'[p]) <=>
                    (briefings'[g] # NoBriefing /\ briefings'[g].squad = p)
               /\ briefings'[g].squad = p => roles'[p][briefings'[g].publisher] # "none"
    <3>1. roles' = roles
      BY DEF squadVars
    <3>2. CASE g = h
      BY <1>3, <1>4, <1>5, <1>6, <3>1, <3>2 DEF IsMember
    <3>3. CASE g # h
      <4>1. g \in ToSet(published'[p]) <=> g \in ToSet(published[p])
        BY <1>5, <1>6, <3>3
      <4>2. /\ g \in ToSet(published[p]) <=> (briefings[g] # NoBriefing /\ briefings[g].squad = p)
            /\ briefings[g].squad = p => roles[p][briefings[g].publisher] # "none"
        BY DEF BriefingInv, PublishedOnce, IsPublished, IsMember
      <4>3. briefings'[g] = briefings[g]
        BY <1>6, <3>3
      <4>. QED  BY <3>1, <4>1, <4>2, <4>3
    <3>. QED  BY <3>2, <3>3
  <2>2. ASSUME NEW g \in Hashes, proposals'[g].status = "Approved"
        PROVE  briefings'[g] = [squad |-> proposals'[g].squad, publisher |-> proposals'[g].proposer]
    <3>1. CASE g = h
      BY <1>6, <1>7, <2>2, <3>1 DEF new
    <3>2. CASE g # h
      BY <1>6, <1>7, <2>2, <3>2 DEF BriefingInv, PublishedOnce
    <3>. QED  BY <3>1, <3>2
  <2>. QED  BY <2>1, <2>2 DEF PublishedOnce, IsPublished, IsMember
<1>11. CitationsHonest'
  <2>1. \A g \in Hashes : snapshot'[g] = snapshot[g] /\ counts'[g] = counts[g]
    OBVIOUS
  <2>2. \A b \in Agents : snapshot[h][b] = NoNumber
    BY DEF BriefingInv, BriefingsKnown
  <2>3. \A g \in Hashes : briefings'[g].publisher \notin {b \in Agents : snapshot[g][b] # NoNumber}
    BY <1>6, <2>2, ZenonT(60) DEF BriefingInv, CitationsHonest
  <2>. QED  BY <2>1, <2>3, ZenonT(60) DEF BriefingInv, CitationsHonest
<1>12. BriefingsKnown'
  <2> SUFFICES ASSUME NEW g \in Hashes
               PROVE  /\ briefings'[g] # NoBriefing =>
                           briefings'[g].squad \in Squads /\ briefings'[g].publisher \in Agents
                      /\ briefings'[g] = NoBriefing => \A b \in Agents : snapshot'[g][b] = NoNumber
                      /\ proposals'[g].status # None =>
                           /\ proposals'[g].squad \in Squads /\ proposals'[g].proposer \in Agents
                           /\ roles'[proposals'[g].squad][proposals'[g].proposer] # "none"
                      /\ proposals'[g] = NoProposal => \A p \in Squads : g \notin ToSet(proposed'[p])
    BY DEF BriefingsKnown, IsPublished, IsMember
  <2>1. /\ briefings'[g] # NoBriefing =>
             briefings'[g].squad \in Squads /\ briefings'[g].publisher \in Agents
        /\ briefings'[g] = NoBriefing => \A b \in Agents : snapshot'[g][b] = NoNumber
    BY <1>3, <1>6 DEF BriefingInv, BriefingsKnown, IsPublished
  <2>2. roles' = roles /\ proposed' = proposed
    BY DEF squadVars
  <2>. QED  BY <1>7, <2>1, <2>2 DEF BriefingInv, BriefingsKnown, IsMember
<1>. QED  BY <1>8, <1>9, <1>10, <1>11, <1>12 DEF BriefingInv

(* The citations of a briefing stay honest when nothing is cited.            *)
LEMMA CitationsKept ==
  ASSUME CitationsHonest, briefings' = briefings, snapshot' = snapshot, counts' = counts
  PROVE  CitationsHonest'
  BY DEF CitationsHonest

(* A proposal made or rejected publishes nothing.                           *)
LEMMA ProposalKeeps ==
  ASSUME BriefingInv, NEW h \in Hashes, NEW entry,
         UNCHANGED <<squadVars, briefings, published, snapshot, counts>>,
         entry \in [squad : Squads, proposer : Agents, status : {"Pending", "Rejected"}],
         IsMember(entry.squad, entry.proposer),
         proposals' = [proposals EXCEPT ![h] = entry],
         \/ proposed' = proposed /\ proposals[h] # NoProposal
         \/ \E q \in Squads : /\ proposals[h] = NoProposal
                              /\ proposed' = [proposed EXCEPT ![q] = Append(@, h)]
  PROVE  BriefingInv'
<1>1. entry \in [squad : SquadOrNone, proposer : AgentOrNone,
                 status : {None, "Pending", "Approved", "Rejected"}]
      /\ entry.status # "Approved" /\ entry # NoProposal /\ entry.status # None
  BY DEF SquadOrNone, AgentOrNone, NoProposal, None
<1>2. /\ proposals \in [Hashes -> [squad : SquadOrNone, proposer : AgentOrNone,
                                   status : {None, "Pending", "Approved", "Rejected"}]]
      /\ proposed \in [Squads -> Seq(Hashes)] /\ \A q \in Squads : IsInjective(proposed[q])
  BY DEF BriefingInv, BriefingTypeOK
<1>3. /\ proposals'[h] = entry /\ \A g \in Hashes : g # h => proposals'[g] = proposals[g]
      /\ proposals' \in [Hashes -> [squad : SquadOrNone, proposer : AgentOrNone,
                                    status : {None, "Pending", "Approved", "Rejected"}]]
  BY <1>1, <1>2
<1>4. /\ proposed' \in [Squads -> Seq(Hashes)] /\ \A q \in Squads : IsInjective(proposed'[q])
      /\ \A q \in Squads : \A g \in Hashes : g # h /\ g \in ToSet(proposed'[q]) => g \in ToSet(proposed[q])
  <2>1. CASE proposed' = proposed
    BY <1>2, <2>1
  <2>2. ASSUME NEW q \in Squads, proposals[h] = NoProposal, proposed' = [proposed EXCEPT ![q] = Append(@, h)]
        PROVE  /\ proposed' \in [Squads -> Seq(Hashes)] /\ \A p \in Squads : IsInjective(proposed'[p])
               /\ \A p \in Squads : \A g \in Hashes :
                    g # h /\ g \in ToSet(proposed'[p]) => g \in ToSet(proposed[p])
    <3> DEFINE list == Append(proposed[q], h)
    <3>1. list \in Seq(Hashes) /\ ToSet(list) = ToSet(proposed[q]) \cup {h} /\ IsInjective(list)
      <4>1. proposed[q] \in Seq(Hashes) /\ IsInjective(proposed[q]) /\ h \notin ToSet(proposed[q])
        BY <1>2, <2>2 DEF BriefingInv, BriefingsKnown
      <4>. QED  BY <4>1, AppendDistinct
    <3>2. proposed' = [proposed EXCEPT ![q] = list]
      BY <2>2
    <3>. HIDE DEF list
    <3>. QED  BY <1>2, <3>1, <3>2
  <2>. QED  BY <2>1, <2>2
<1>5. BriefingTypeOK'
  <2>1. SquadTypeOK'
    BY DEF BriefingInv, BriefingTypeOK, SquadTypeOK, squadVars
  <2>. QED  BY <1>3, <1>4, <2>1 DEF BriefingInv, BriefingTypeOK
<1>6. SquadInv'
  BY SquadStep DEF BriefingInv
<1>7. CitationsHonest'
  BY CitationsKept DEF BriefingInv
<1>8. PublishedOnce'
  <2>1. ASSUME NEW g \in Hashes, proposals'[g].status = "Approved"
        PROVE  briefings'[g] = [squad |-> proposals'[g].squad, publisher |-> proposals'[g].proposer]
    <3>1. g # h
      BY <1>1, <1>3, <2>1
    <3>. QED  BY <1>3, <2>1, <3>1 DEF BriefingInv, PublishedOnce
  <2>2. roles' = roles
    BY DEF squadVars
  <2>. QED  BY <2>1, <2>2, ZenonT(60) DEF BriefingInv, PublishedOnce, IsPublished, IsMember
<1>9. BriefingsKnown'
  <2> SUFFICES ASSUME NEW g \in Hashes
               PROVE  /\ proposals'[g].status # None =>
                           /\ proposals'[g].squad \in Squads /\ proposals'[g].proposer \in Agents
                           /\ roles[proposals'[g].squad][proposals'[g].proposer] # "none"
                      /\ proposals'[g] = NoProposal => \A p \in Squads : g \notin ToSet(proposed'[p])
    <3>1. roles' = roles
      BY DEF squadVars
    <3>. QED  BY <3>1 DEF BriefingInv, BriefingsKnown, IsPublished, IsMember
  <2>1. CASE g = h
    BY <1>1, <1>3, <2>1 DEF IsMember
  <2>2. CASE g # h
    BY <1>3, <1>4, <2>2 DEF BriefingInv, BriefingsKnown, IsMember
  <2>. QED  BY <2>1, <2>2
<1>. QED  BY <1>5, <1>6, <1>7, <1>8, <1>9 DEF BriefingInv

(* A citation counts one agent more, who had not cited before.               *)
LEMMA CitationKeeps ==
  ASSUME BriefingInv, NEW h \in Hashes, NEW a \in Agents, NEW score \in TrustScores,
         CiteBriefing(h, a, score)
  PROVE  BriefingInv'
<1> DEFINE Cited(g) == {b \in Agents : snapshot[g][b] # NoNumber}
           Weighty(g) == {b \in Cited(g) : snapshot[g][b] >= MIN_CITER_TRUST}
           row == [snapshot[h] EXCEPT ![a] = score]
           gain == IF score >= MIN_CITER_TRUST THEN 1 ELSE 0
           tally == [raw |-> counts[h].raw + 1, weighted |-> counts[h].weighted + gain]
<1>1. /\ snapshot \in [Hashes -> [Agents -> TrustScores \cup {NoNumber}]]
      /\ counts \in [Hashes -> [raw : 0..Cardinality(Agents), weighted : 0..Cardinality(Agents)]]
      /\ score # NoNumber /\ score \in TrustScores \cup {NoNumber}
  BY BriefingConstants DEF BriefingInv, BriefingTypeOK
<1>2. /\ snapshot' = [snapshot EXCEPT ![h] = row]
      /\ snapshot[h][a] = NoNumber /\ a # briefings[h].publisher /\ IsPublished(h)
      /\ UNCHANGED <<squadVars, briefings, published, proposals, proposed>>
  BY DEF CiteBriefing
<1>3. /\ row \in [Agents -> TrustScores \cup {NoNumber}] /\ row[a] = score
      /\ \A b \in Agents : b # a => row[b] = snapshot[h][b]
  BY <1>1
<1>4. counts' = [counts EXCEPT ![h] = tally]
  <2>1. counts[h] \in [raw : 0..Cardinality(Agents), weighted : 0..Cardinality(Agents)]
    BY <1>1
  <2>2. counts' = [counts EXCEPT ![h].raw = @ + 1,
                                 ![h].weighted = IF score >= MIN_CITER_TRUST THEN @ + 1 ELSE @]
    BY DEF CiteBriefing
  <2>3. counts' = [counts EXCEPT ![h] = [[counts[h] EXCEPT !.raw = @ + 1] EXCEPT
                     !.weighted = IF score >= MIN_CITER_TRUST THEN @ + 1 ELSE @]]
    BY <1>1, <2>2
  <2>4. [[counts[h] EXCEPT !.raw = @ + 1] EXCEPT
                     !.weighted = IF score >= MIN_CITER_TRUST THEN @ + 1 ELSE @] = tally
    <3>1. PICK r, v \in Int : counts[h] = [raw |-> r, weighted |-> v]
      BY <2>1, BriefingConstants
    <3>2. PICK next : next = [counts[h] EXCEPT !.raw = @ + 1]
      OBVIOUS
    <3>3. next = [raw |-> r + 1, weighted |-> v]
      BY <3>1, <3>2
    <3>4. tally = [raw |-> r + 1, weighted |-> v + gain]
      BY <3>1
    <3>5. [next EXCEPT !.weighted = IF score >= MIN_CITER_TRUST THEN @ + 1 ELSE @] = tally
      BY <3>3, <3>4
    <3>. QED  BY <3>2, <3>5
  <2>. QED  BY <2>3, <2>4
<1>5. ASSUME NEW g \in Hashes
      PROVE  /\ briefings[g].publisher \notin Cited(g)
             /\ counts[g].raw = Cardinality(Cited(g))
             /\ counts[g].weighted = Cardinality(Weighty(g))
  BY DEF BriefingInv, CitationsHonest
<1>6. /\ tally.raw = counts[h].raw + 1 /\ tally.weighted = counts[h].weighted + gain
      /\ (score >= MIN_CITER_TRUST => gain = 1) /\ (~(score >= MIN_CITER_TRUST) => gain = 0)
      /\ counts[h].weighted \in Nat /\ counts[h].raw \in Nat /\ gain \in Nat
      /\ tally = [raw |-> tally.raw, weighted |-> tally.weighted]
  BY <1>1, BriefingConstants
<1>. HIDE DEF row, tally, gain
<1>7. /\ snapshot'[h] = row /\ counts'[h] = tally
      /\ \A g \in Hashes : g # h => snapshot'[g] = snapshot[g] /\ counts'[g] = counts[g]
  BY <1>1, <1>2, <1>3, <1>4
<1> DEFINE CitedNow == {b \in Agents : row[b] # NoNumber}
           WeightyNow == {b \in CitedNow : row[b] >= MIN_CITER_TRUST}
<1>8. /\ CitedNow = Cited(h) \cup {a} /\ a \notin Cited(h) /\ CitedNow \subseteq Agents
      /\ WeightyNow = IF score >= MIN_CITER_TRUST THEN Weighty(h) \cup {a} ELSE Weighty(h)
      /\ Weighty(h) \subseteq Agents /\ a \notin Weighty(h) /\ WeightyNow \subseteq Agents
      /\ Cited(h) \subseteq Agents
  BY <1>1, <1>2, <1>3
<1>9. PICK C, D, W, X : C = Cited(h) /\ D = CitedNow /\ W = Weighty(h) /\ X = WeightyNow
  OBVIOUS
<1>10. /\ IsFiniteSet(C) /\ IsFiniteSet(D) /\ IsFiniteSet(W) /\ IsFiniteSet(X)
       /\ Cardinality(D) <= Cardinality(Agents) /\ Cardinality(X) <= Cardinality(Agents)
  <2>1. C \in SUBSET Agents /\ D \in SUBSET Agents /\ W \in SUBSET Agents /\ X \in SUBSET Agents
    BY <1>8, <1>9
  <2>. QED  BY <2>1, BriefingConstants, FS_Subset
<1>11. Cardinality(D) = Cardinality(C) + 1
  BY <1>8, <1>9, <1>10, FS_AddElement
<1>12. Cardinality(X) = Cardinality(W) + gain
  <2>1. CASE score >= MIN_CITER_TRUST
    <3>1. X = W \cup {a} /\ a \notin W
      BY <1>8, <1>9, <2>1
    <3>. QED  BY <1>6, <1>10, <2>1, <3>1, FS_AddElement
  <2>2. CASE ~(score >= MIN_CITER_TRUST)
    <3>1. X = W /\ Cardinality(W) \in Nat
      BY <1>8, <1>9, <1>10, <2>2, FS_CardinalityType
    <3>. QED  BY <1>6, <2>2, <3>1
  <2>. QED  BY <2>1, <2>2
<1>13. tally.raw = Cardinality(CitedNow) /\ tally.weighted = Cardinality(WeightyNow)
  <2>1. counts[h].raw = Cardinality(C) /\ counts[h].weighted = Cardinality(W)
    BY <1>5, <1>9
  <2>. QED  BY <1>6, <1>9, <1>11, <1>12, <2>1
<1>14. tally \in [raw : 0..Cardinality(Agents), weighted : 0..Cardinality(Agents)]
  <2>1. Cardinality(D) \in Nat /\ Cardinality(X) \in Nat
    BY <1>10, FS_CardinalityType
  <2>2. tally.raw \in 0..Cardinality(Agents) /\ tally.weighted \in 0..Cardinality(Agents)
    BY <1>9, <1>10, <1>13, <2>1, BriefingConstants
  <2>. QED  BY <1>6, <2>2
<1>15. BriefingTypeOK'
  <2>1. SquadTypeOK'
    BY <1>2 DEF BriefingInv, BriefingTypeOK, SquadTypeOK, squadVars
  <2>2. snapshot' \in [Hashes -> [Agents -> TrustScores \cup {NoNumber}]]
    BY <1>1, <1>2, <1>3
  <2>3. counts' \in [Hashes -> [raw : 0..Cardinality(Agents), weighted : 0..Cardinality(Agents)]]
    BY <1>1, <1>4, <1>14
  <2>. QED  BY <1>2, <2>1, <2>2, <2>3 DEF BriefingInv, BriefingTypeOK
<1>16. SquadInv'
  BY <1>2, SquadStep DEF BriefingInv
<1>17. PublishedOnce'
  BY <1>2 DEF BriefingInv, PublishedOnce, IsPublished, IsMember, squadVars
<1>18. BriefingsKnown'
  <2> SUFFICES ASSUME NEW g \in Hashes, ~IsPublished(g)
               PROVE  \A b \in Agents : snapshot'[g][b] = NoNumber
    BY <1>2 DEF BriefingInv, BriefingsKnown, IsPublished, IsMember, squadVars
  <2>1. g # h
    BY <1>2
  <2>. QED  BY <1>7, <2>1 DEF BriefingInv, BriefingsKnown
<1>19. CitationsHonest'
  <2> SUFFICES ASSUME NEW g \in Hashes
               PROVE  /\ briefings[g].publisher \notin {b \in Agents : snapshot'[g][b] # NoNumber}
                      /\ counts'[g].raw = Cardinality({b \in Agents : snapshot'[g][b] # NoNumber})
                      /\ counts'[g].weighted =
                           Cardinality({b \in {c \in Agents : snapshot'[g][c] # NoNumber} :
                                          snapshot'[g][b] >= MIN_CITER_TRUST})
    BY <1>2 DEF CitationsHonest
  <2>1. CASE g = h
    <3>1. briefings[h].publisher \notin CitedNow
      BY <1>2, <1>5, <1>8
    <3>2. snapshot'[g] = row /\ counts'[g] = tally
      BY <1>7, <2>1
    <3>. QED  BY <1>13, <2>1, <3>1, <3>2
  <2>2. CASE g # h
    <3>1. snapshot'[g] = snapshot[g] /\ counts'[g] = counts[g]
      BY <1>7, <2>2
    <3>. QED  BY <1>5, <3>1
  <2>. QED  BY <2>1, <2>2
<1>. QED  BY <1>15, <1>16, <1>17, <1>18, <1>19 DEF BriefingInv

(* A step keeps the invariant and takes nothing over.                       *)
NothingTaken ==
  \A h \in Hashes :
       /\ IsPublished(h) => briefings'[h] = briefings[h]
       /\ proposals[h].status = "Pending" =>
            proposals'[h] \in {[proposals[h] EXCEPT !.status = st] :
                                 st \in {"Pending", "Approved", "Rejected"}}

LEMMA BriefingStep ==
  ASSUME BriefingInv, [BriefingNext]_briefingVars
  PROVE  BriefingInv' /\ [NothingTaken]_briefingVars
<1>1. /\ proposals \in [Hashes -> [squad : SquadOrNone, proposer : AgentOrNone,
                                   status : {None, "Pending", "Approved", "Rejected"}]]
      /\ briefings \in [Hashes -> [squad : SquadOrNone, publisher : AgentOrNone]]
  BY DEF BriefingInv, BriefingTypeOK
<1>2. ASSUME NEW g \in Hashes, proposals[g].status = "Pending"
      PROVE  proposals[g] \in {[proposals[g] EXCEPT !.status = st] :
                                 st \in {"Pending", "Approved", "Rejected"}}
  <2>1. proposals[g] = [proposals[g] EXCEPT !.status = "Pending"]
    BY <1>1, <1>2
  <2>. QED  BY <2>1
<1>3. ASSUME UNCHANGED <<briefings, proposals>> PROVE NothingTaken
  BY <1>2, <1>3 DEF NothingTaken
<1>4. CASE SquadNext /\ UNCHANGED outputVars
  <2>1. BriefingInv'
    BY <1>4, SquadStep, OutputsUntouched DEF BriefingInv
  <2>. QED  BY <1>3, <1>4, <2>1 DEF outputVars
<1>5. ASSUME NEW h \in Hashes, NEW a \in Agents, NEW q \in Squads, PublishBriefing(q, h, a)
      PROVE  BriefingInv' /\ NothingTaken
  <2>1. /\ ~IsPublished(h) /\ IsMember(q, a) /\ Publish(q, h, a)
        /\ UNCHANGED <<squadVars, proposals, proposed, snapshot, counts>>
    BY <1>5 DEF PublishBriefing, IsLead, IsMember
  <2>2. BriefingInv'
    BY <2>1, PublishKeeps
  <2>3. \A g \in Hashes : IsPublished(g) => briefings'[g] = briefings[g]
    BY <1>1, <2>1 DEF Publish
  <2>. QED  BY <1>2, <2>1, <2>2, <2>3 DEF NothingTaken
<1>6. ASSUME NEW h \in Hashes, NEW a \in Agents, NEW q \in Squads, ProposeBriefing(q, h, a)
      PROVE  BriefingInv' /\ NothingTaken
  <2> DEFINE entry == [squad |-> q, proposer |-> a, status |-> "Pending"]
  <2>1. /\ ~IsPublished(h) /\ IsMember(q, a) /\ proposals[h].status \in {None, "Rejected"}
        /\ proposals' = [proposals EXCEPT ![h] = entry]
        /\ proposed' = IF proposals[h] = NoProposal THEN [proposed EXCEPT ![q] = Append(@, h)] ELSE proposed
        /\ UNCHANGED <<squadVars, briefings, published, snapshot, counts>>
    BY <1>6 DEF ProposeBriefing
  <2>2. entry \in [squad : Squads, proposer : Agents, status : {"Pending", "Rejected"}]
        /\ entry.squad = q /\ entry.proposer = a
    OBVIOUS
  <2>. HIDE DEF entry
  <2>3. \/ proposed' = proposed /\ proposals[h] # NoProposal
        \/ proposals[h] = NoProposal /\ proposed' = [proposed EXCEPT ![q] = Append(@, h)]
    BY <2>1
  <2>4. BriefingInv'
    BY <2>1, <2>2, <2>3, ProposalKeeps
  <2>5. ASSUME NEW g \in Hashes, proposals[g].status = "Pending" PROVE proposals'[g] = proposals[g]
    <3>1. g # h
      BY <2>1, <2>5 DEF None
    <3>. QED  BY <1>1, <2>1, <3>1
  <2>. QED  BY <1>2, <2>1, <2>4, <2>5 DEF NothingTaken
<1>7. ASSUME NEW h \in Hashes, NEW a \in Agents, ApproveProposal(h, a)
      PROVE  BriefingInv' /\ NothingTaken
  <2>1. /\ ~IsPublished(h) /\ proposals[h].status = "Pending"
        /\ proposals' = [proposals EXCEPT ![h].status = "Approved"]
        /\ Publish(proposals[h].squad, h, proposals[h].proposer)
        /\ UNCHANGED <<squadVars, proposed, snapshot, counts>>
    BY <1>7 DEF ApproveProposal, MayDecide
  <2>2. PICK q \in Squads, b \in Agents :
          q = proposals[h].squad /\ b = proposals[h].proposer /\ IsMember(q, b)
    BY <2>1 DEF BriefingInv, BriefingsKnown, None
  <2>3. BriefingInv'
    BY <2>1, <2>2, PublishKeeps
  <2>4. \A g \in Hashes : IsPublished(g) => briefings'[g] = briefings[g]
    BY <1>1, <2>1 DEF Publish
  <2>5. ASSUME NEW g \in Hashes, proposals[g].status = "Pending"
        PROVE  proposals'[g] \in {[proposals[g] EXCEPT !.status = st] :
                                    st \in {"Pending", "Approved", "Rejected"}}
    <3>1. CASE g = h
      BY <1>1, <2>1, <3>1
    <3>2. CASE g # h
      <4>1. proposals'[g] = proposals[g]
        BY <1>1, <2>1, <3>2
      <4>. QED  BY <1>2, <2>5, <4>1
    <3>. QED  BY <3>1, <3>2
  <2>. QED  BY <2>3, <2>4, <2>5 DEF NothingTaken
<1>8. ASSUME NEW h \in Hashes, NEW a \in Agents, RejectProposal(h, a)
      PROVE  BriefingInv' /\ NothingTaken
  <2> DEFINE entry == [proposals[h] EXCEPT !.status = "Rejected"]
  <2>1. /\ proposals[h].status = "Pending" /\ proposals' = [proposals EXCEPT ![h] = entry]
        /\ UNCHANGED <<squadVars, briefings, published, proposed, snapshot, counts>>
    BY <1>8 DEF RejectProposal, MayDecide
  <2>2. PICK q \in Squads, b \in Agents :
          q = proposals[h].squad /\ b = proposals[h].proposer /\ IsMember(q, b)
    BY <2>1 DEF BriefingInv, BriefingsKnown, None
  <2>3. entry \in [squad : Squads, proposer : Agents, status : {"Pending", "Rejected"}]
        /\ entry.squad = q /\ entry.proposer = b
    <3>1. proposals[h] \in [squad : SquadOrNone, proposer : AgentOrNone,
                            status : {None, "Pending", "Approved", "Rejected"}]
      BY <1>1
    <3>2. entry = [squad |-> q, proposer |-> b, status |-> "Rejected"]
      BY <2>2, <3>1
    <3>. QED  BY <2>2, <3>2
  <2>4. proposals[h] # NoProposal
    BY <2>1 DEF NoProposal, None
  <2>5. ASSUME NEW g \in Hashes, proposals[g].status = "Pending"
        PROVE  proposals'[g] \in {[proposals[g] EXCEPT !.status = st] :
                                    st \in {"Pending", "Approved", "Rejected"}}
    <3>1. CASE g = h
      BY <1>1, <2>1, <3>1
    <3>2. CASE g # h
      <4>1. proposals'[g] = proposals[g]
        BY <1>1, <2>1, <3>2
      <4>. QED  BY <1>2, <2>5, <4>1
    <3>. QED  BY <3>1, <3>2
  <2>. HIDE DEF entry
  <2>6. BriefingInv'
    BY <2>1, <2>2, <2>3, <2>4, ProposalKeeps
  <2>. QED  BY <2>1, <2>5, <2>6 DEF NothingTaken
<1>9. ASSUME NEW h \in Hashes, NEW a \in Agents, NEW score \in TrustScores, CiteBriefing(h, a, score)
      PROVE  BriefingInv' /\ NothingTaken
  BY <1>3, <1>9, CitationKeeps DEF CiteBriefing
<1>10. CASE UNCHANGED briefingVars
  <2>1. UNCHANGED squadVars /\ UNCHANGED outputVars
    BY <1>10 DEF briefingVars
  <2>2. BriefingInv'
    BY <2>1, SquadStep, OutputsUntouched DEF BriefingInv
  <2>. QED  BY <1>10, <2>2
<1>. QED  BY <1>4, <1>5, <1>6, <1>7, <1>8, <1>9, <1>10 DEF BriefingNext

(* Squads, their briefings and the citations of these are accounted for     *)
(* (joinSquad, publishBriefing, approveProposal, citeBriefing).             *)
THEOREM SquadsAreHonest == BriefingSpec => []SquadsHonest
<1>1. BriefingInv /\ [BriefingNext]_briefingVars => BriefingInv'
  BY BriefingStep
<1>2. BriefingInv => SquadsHonest
  BY DEF BriefingInv, SquadInv, SquadsHonest
<1>. QED  BY <1>1, <1>2, BriefingInitial, PTL DEF BriefingSpec

(* A publication is final, and a pending proposal keeps its proposer and its *)
(* squad (proposeBriefing, approveProposal).                                *)
THEOREM BriefingsStay == BriefingSpec => NothingTakenOver
<1>1. BriefingInv /\ [BriefingNext]_briefingVars => BriefingInv' /\ [NothingTaken]_briefingVars
  BY BriefingStep
<1>2. BriefingSpec => [][NothingTaken]_briefingVars
  BY <1>1, BriefingInitial, PTL DEF BriefingSpec
<1>3. [][NothingTaken]_briefingVars => NothingTakenOver
  BY PTL DEF NothingTakenOver, NothingTaken
<1>. QED  BY <1>2, <1>3

-----------------------------------------------------------------------------
(* Newsletters.                                                             *)
LEMMA AppendGrows ==
  ASSUME NEW S, NEW s \in Seq(S), NEW x \in S
  PROVE  IsPrefix(s, s) /\ IsPrefix(s, Append(s, x))
<1> DEFINE t == Append(s, x)
           n == Len(s)
<1>1. t \in Seq(S) /\ n \in Nat /\ Len(t) = n + 1 /\ \A i \in 1..n : t[i] = s[i]
  OBVIOUS
<1>. HIDE DEF t
<1>2. SubSeq(s, 1, n) = [i \in 1..n |-> s[i]] /\ SubSeq(t, 1, n) = [i \in 1..n |-> t[i]]
  BY <1>1
<1>3. [i \in 1..n |-> s[i]] = [i \in 1..n |-> t[i]]
  BY <1>1
<1>. QED  BY <1>1, <1>2, <1>3 DEF IsPrefix, t

Numbers == 1..MaxNewsletters

(* The hashes in use are those of the issues, each that of one.             *)
NewsletterInv ==
  /\ newsletters \in Seq([publisher : Agents, active : BOOLEAN])
  /\ issues \in [Numbers -> Seq(IssueHashes)]
  /\ registered \subseteq Agents
  /\ \A n \in Numbers : IsInjective(issues[n]) /\ ToSet(issues[n]) \subseteq publishedHash
  /\ \A m, n \in Numbers : m # n => ToSet(issues[m]) \cap ToSet(issues[n]) = {}

LEMMA NewsletterInitial == NewsletterInit => NewsletterInv
<1>1. ToSet(<<>>) = {} /\ IsInjective(<<>>)
  BY DEF ToSet, IsInjective
<1>2. NewsletterInit => newsletters = <<>> /\ \A n \in Numbers : issues[n] = <<>>
  BY DEF NewsletterInit, Numbers
<1>3. NewsletterInit => issues \in [Numbers -> Seq(IssueHashes)]
  BY DEF NewsletterInit, Numbers
<1>4. <<>> \in Seq([publisher : Agents, active : BOOLEAN])
  OBVIOUS
<1>5. NewsletterInit => \A n \in Numbers : IsInjective(issues[n]) /\ ToSet(issues[n]) = {}
  BY <1>1, <1>2
<1>. QED  BY <1>2, <1>3, <1>4, <1>5 DEF NewsletterInit, RegistryInit, NewsletterInv

IssuesStay ==
  \A n \in 1..MaxNewsletters :
       /\ IsPrefix(issues[n], issues'[n])
       /\ n \in Newsletters /\ ~newsletters[n].active => issues'[n] = issues[n]
       /\ IsInjective(issues'[n])
       /\ \A m \in 1..(n - 1) : ToSet(issues'[m]) \cap ToSet(issues'[n]) = {}

LEMMA NewsletterStep ==
  ASSUME NewsletterInv, [NewsletterNext]_newsletterVars
  PROVE  NewsletterInv' /\ [IssuesStay]_newsletterVars
<1>1. /\ newsletters \in Seq([publisher : Agents, active : BOOLEAN])
      /\ issues \in [Numbers -> Seq(IssueHashes)] /\ registered \subseteq Agents
      /\ MaxNewsletters \in Nat
  BY NewsletterAssumption DEF NewsletterInv
<1>2. ASSUME NEW n \in Numbers PROVE IsPrefix(issues[n], issues[n])
  <2>1. issues[n] \in Seq(IssueHashes)
    BY <1>1, <1>2
  <2>2. \A s \in Seq(IssueHashes) : IsPrefix(s, s)
    BY DEF IsPrefix
  <2>. QED  BY <2>1, <2>2
<1>3. \A n \in Numbers : \A m \in 1..(n - 1) : m \in Numbers /\ m # n
  BY <1>1 DEF Numbers
<1>4. ASSUME UNCHANGED <<issues, publishedHash>>, registered' \subseteq Agents,
             newsletters' \in Seq([publisher : Agents, active : BOOLEAN])
      PROVE  NewsletterInv' /\ IssuesStay
  BY <1>2, <1>3, <1>4 DEF NewsletterInv, IssuesStay, Numbers
<1>5. ASSUME NEW a \in Agents, CreateNewsletter(a) PROVE NewsletterInv' /\ IssuesStay
  <2>1. newsletters' = Append(newsletters, [publisher |-> a, active |-> TRUE])
        /\ UNCHANGED <<registered, issues, publishedHash>>
    BY <1>5 DEF CreateNewsletter
  <2>2. newsletters' \in Seq([publisher : Agents, active : BOOLEAN])
    BY <1>1, <2>1
  <2>. QED  BY <1>1, <1>4, <2>1, <2>2
<1>6. ASSUME NEW a \in Agents, NEW n \in Numbers, DeactivateNewsletter(a, n)
      PROVE  NewsletterInv' /\ IssuesStay
  <2>1. /\ n \in 1..Len(newsletters) /\ newsletters[n] = [publisher |-> a, active |-> TRUE]
        /\ newsletters' = [newsletters EXCEPT ![n].active = FALSE]
        /\ UNCHANGED <<registered, issues, publishedHash>>
    BY <1>6 DEF DeactivateNewsletter, Newsletters
  <2> DEFINE closed == [newsletters[n] EXCEPT !.active = FALSE]
  <2>2. newsletters[n] \in [publisher : Agents, active : BOOLEAN]
    BY <1>1, <2>1
  <2>3. newsletters' = [newsletters EXCEPT ![n] = closed]
    BY <2>1
  <2>4. closed \in [publisher : Agents, active : BOOLEAN]
    BY <2>2
  <2>. HIDE DEF closed
  <2>5. \A S : newsletters \in Seq(S) /\ closed \in S => [newsletters EXCEPT ![n] = closed] \in Seq(S)
    BY <2>1
  <2>. QED  BY <1>1, <1>4, <2>1, <2>3, <2>4, <2>5
<1>7. ASSUME NEW a \in Agents, NEW n \in Numbers, NEW h \in IssueHashes, PublishIssue(a, n, h)
      PROVE  NewsletterInv' /\ IssuesStay
  <2> DEFINE list == Append(issues[n], h)
  <2>1. /\ n \in Newsletters /\ newsletters[n] = [publisher |-> a, active |-> TRUE]
        /\ h \notin publishedHash
        /\ issues' = [issues EXCEPT ![n] = list]
        /\ publishedHash' = publishedHash \cup {h} /\ UNCHANGED <<registered, newsletters>>
    BY <1>7 DEF PublishIssue
  <2>2. issues[n] \in Seq(IssueHashes) /\ IsInjective(issues[n]) /\ h \notin ToSet(issues[n])
    BY <1>1, <2>1 DEF NewsletterInv
  <2>3. /\ list \in Seq(IssueHashes) /\ ToSet(list) = ToSet(issues[n]) \cup {h}
        /\ IsInjective(list) /\ IsPrefix(issues[n], list)
    BY <2>2, AppendDistinct, AppendGrows
  <2>. HIDE DEF list
  <2>4. /\ issues'[n] = list /\ issues' \in [Numbers -> Seq(IssueHashes)]
        /\ \A m \in Numbers : m # n => issues'[m] = issues[m]
    BY <1>1, <2>1, <2>3
  <2>5. \A m \in Numbers : h \notin ToSet(issues[m])
    BY <2>1 DEF NewsletterInv
  <2>6. \A m \in Numbers : IsInjective(issues'[m]) /\ ToSet(issues'[m]) \subseteq publishedHash'
    BY <2>1, <2>3, <2>4 DEF NewsletterInv
  <2>7. \A m, k \in Numbers : m # k => ToSet(issues'[m]) \cap ToSet(issues'[k]) = {}
    <3> SUFFICES ASSUME NEW m \in Numbers, NEW k \in Numbers, m # k
                 PROVE  ToSet(issues'[m]) \cap ToSet(issues'[k]) = {}
      OBVIOUS
    <3>1. ToSet(issues[m]) \cap ToSet(issues[k]) = {}
      BY DEF NewsletterInv
    <3>2. \A j \in Numbers : ToSet(issues'[j]) = IF j = n THEN ToSet(issues[n]) \cup {h} ELSE ToSet(issues[j])
      BY <2>3, <2>4
    <3>. QED  BY <2>5, <3>1, <3>2
  <2>8. NewsletterInv'
    BY <1>1, <2>1, <2>4, <2>6, <2>7 DEF NewsletterInv
  <2>9. ASSUME NEW m \in Numbers
        PROVE  /\ IsPrefix(issues[m], issues'[m])
               /\ m \in Newsletters /\ ~newsletters[m].active => issues'[m] = issues[m]
    <3>1. newsletters[n].active
      BY <2>1
    <3>2. CASE m = n
      BY <2>3, <2>4, <3>1, <3>2
    <3>3. CASE m # n
      <4>1. issues'[m] = issues[m]
        BY <2>4, <3>3
      <4>. QED  BY <1>2, <4>1
    <3>. QED  BY <3>2, <3>3
  <2>. QED  BY <1>3, <2>6, <2>7, <2>8, <2>9 DEF IssuesStay, Numbers
<1>8. ASSUME NEW a \in Agents, ChangeRegistration(a), UNCHANGED newsletterOnlyVars
      PROVE  NewsletterInv' /\ IssuesStay
  BY <1>1, <1>4, <1>8 DEF ChangeRegistration, newsletterOnlyVars
<1>9. CASE UNCHANGED newsletterVars
  BY <1>1, <1>4, <1>9 DEF newsletterVars, newsletterOnlyVars
<1>. QED  BY <1>5, <1>6, <1>7, <1>8, <1>9 DEF NewsletterNext, Numbers

(* Issues stay under their numbers, and one hash is the proof of one issue   *)
(* only (publishIssue, deactivateNewsletter).                               *)
THEOREM IssuesAreKept == NewsletterSpec => IssuesKept
<1>1. NewsletterInv /\ [NewsletterNext]_newsletterVars => NewsletterInv' /\ [IssuesStay]_newsletterVars
  BY NewsletterStep
<1>2. NewsletterSpec => [][IssuesStay]_newsletterVars
  BY <1>1, NewsletterInitial, PTL DEF NewsletterSpec
<1>3. [][IssuesStay]_newsletterVars => IssuesKept
  BY PTL DEF IssuesKept, IssuesStay
<1>. QED  BY <1>2, <1>3

-----------------------------------------------------------------------------
(* Artifacts.                                                               *)
ArtifactType == [creator : Authors \cup {"none"}, tag : Capabilities \cup {"none"}, raw : Nat, weighted : Nat]

IntelligenceInv ==
  /\ artifact \in [Artifacts -> ArtifactType]
  /\ byCapability \in [Capabilities -> Seq(Artifacts)]
  /\ citedAt \in [Artifacts -> [Authors -> CiterScores \cup {Uncited}]]
  /\ announced \in [Artifacts -> Seq(CitationThresholds)]
  /\ enrolled \subseteq Authors
  /\ \A h \in Artifacts : artifact[h] # NoArtifact => artifact[h].creator \in Authors
  /\ ArtifactsHonest

LEMMA IntelligenceConstants ==
  /\ IsFiniteSet(Authors) /\ "none" \notin Authors
  /\ \A score \in CiterScores : score # Uncited /\ score \in Nat
  /\ MIN_SCORE \in Nat /\ \A n \in CitationThresholds : n \in Nat /\ n # 0
  BY IntelligenceAssumption DEF Uncited

LEMMA CitersFinite ==
  ASSUME IntelligenceInv, NEW h \in Artifacts
  PROVE  /\ IsFiniteSet(Citers(h)) /\ Cardinality(Citers(h)) \in Nat
         /\ Cardinality(Citers(h)) = 0 <=> Citers(h) = {}
<1>1. Citers(h) \in SUBSET Authors
  BY DEF Citers
<1>2. IsFiniteSet(Citers(h))
  BY <1>1, IntelligenceConstants, FS_Subset
<1>. QED  BY <1>2, FS_CardinalityType, FS_EmptySet

LEMMA IntelligenceInitial == IntelligenceInit => IntelligenceInv
<1> SUFFICES ASSUME IntelligenceInit PROVE IntelligenceInv
  OBVIOUS
<1>1. /\ \A h \in Artifacts : /\ artifact[h] = NoArtifact /\ announced[h] = <<>>
                              /\ \A a \in Authors : citedAt[h][a] = Uncited
      /\ \A t \in Capabilities : byCapability[t] = <<>>
  BY DEF IntelligenceInit
<1>2. ToSet(<<>>) = {} /\ IsInjective(<<>>) /\ Len(<<>>) = 0
  BY DEF ToSet, IsInjective
<1>3. NoArtifact \in ArtifactType /\ NoArtifact.creator = "none" /\ NoArtifact.raw = 0 /\ NoArtifact.weighted = 0
  BY DEF NoArtifact, ArtifactType
<1>4. /\ artifact \in [Artifacts -> ArtifactType]
      /\ byCapability \in [Capabilities -> Seq(Artifacts)]
      /\ citedAt \in [Artifacts -> [Authors -> CiterScores \cup {Uncited}]]
      /\ announced \in [Artifacts -> Seq(CitationThresholds)]
      /\ enrolled \subseteq Authors
  BY <1>3 DEF IntelligenceInit, Registry!RegistryInit
<1>5. \A h \in Artifacts : Citers(h) = {} /\ {a \in Citers(h) : citedAt[h][a] >= MIN_SCORE} = {}
  BY <1>1 DEF Citers
<1>6. ASSUME NEW t \in Capabilities
      PROVE  /\ IsInjective(byCapability[t])
             /\ ToSet(byCapability[t]) = {h \in Entered : artifact[h].tag = t}
  BY <1>1, <1>2 DEF Entered
<1>7. ASSUME NEW h \in Artifacts
      PROVE  /\ artifact[h].creator \notin Citers(h)
             /\ artifact[h].raw = Cardinality(Citers(h))
             /\ artifact[h].weighted = Cardinality({a \in Citers(h) : citedAt[h][a] >= MIN_SCORE})
             /\ ToSet(announced[h]) = {n \in CitationThresholds : n <= artifact[h].weighted}
             /\ \A i \in 1..(Len(announced[h]) - 1) : announced[h][i] <= announced[h][i + 1]
  <2>1. Cardinality({}) = 0
    BY FS_EmptySet
  <2>2. {n \in CitationThresholds : n <= 0} = {}
    BY IntelligenceConstants
  <2>3. 1..(0 - 1) = {}
    OBVIOUS
  <2>4. artifact[h].creator \notin Citers(h) /\ artifact[h].raw = Cardinality(Citers(h))
    BY <1>1, <1>3, <1>5, <2>1
  <2>5. artifact[h].weighted = Cardinality({a \in Citers(h) : citedAt[h][a] >= MIN_SCORE})
    BY <1>1, <1>3, <1>5, <2>1
  <2>6. ToSet(announced[h]) = {n \in CitationThresholds : n <= artifact[h].weighted}
    BY <1>1, <1>2, <1>3, <2>2
  <2>7. \A i \in 1..(Len(announced[h]) - 1) : announced[h][i] <= announced[h][i + 1]
    BY <1>1, <1>2, <2>3
  <2>. QED  BY <2>4, <2>5, <2>6, <2>7
<1>. QED  BY <1>1, <1>4, <1>6, <1>7 DEF IntelligenceInv, ArtifactsHonest

(* An artifact is entered in the list of its capability (register).         *)
LEMMA RegisterKeeps ==
  ASSUME IntelligenceInv, NEW a \in Authors, NEW h \in Artifacts, NEW t \in Capabilities,
         Register(a, h, t)
  PROVE  IntelligenceInv'
<1> DEFINE new == [NoArtifact EXCEPT !.creator = a, !.tag = t]
           list == Append(byCapability[t], h)
<1>1. /\ artifact[h] = NoArtifact /\ artifact' = [artifact EXCEPT ![h] = new]
      /\ byCapability' = [byCapability EXCEPT ![t] = list]
      /\ UNCHANGED <<enrolled, citedAt, announced>>
  BY DEF Register
<1>2. /\ artifact \in [Artifacts -> ArtifactType] /\ byCapability \in [Capabilities -> Seq(Artifacts)]
      /\ NoArtifact.raw = 0 /\ NoArtifact.weighted = 0 /\ NoArtifact.creator = "none"
  BY DEF IntelligenceInv, NoArtifact
<1>3. /\ new \in ArtifactType /\ new.creator = a /\ new.tag = t /\ new.raw = 0 /\ new.weighted = 0
      /\ new # NoArtifact
  BY IntelligenceConstants DEF NoArtifact, ArtifactType
<1>4. \A u \in Capabilities : h \notin ToSet(byCapability[u])
  BY <1>1 DEF IntelligenceInv, ArtifactsHonest, Entered
<1>5. list \in Seq(Artifacts) /\ ToSet(list) = ToSet(byCapability[t]) \cup {h} /\ IsInjective(list)
  <2>1. byCapability[t] \in Seq(Artifacts) /\ IsInjective(byCapability[t])
    BY <1>2 DEF IntelligenceInv, ArtifactsHonest
  <2>. QED  BY <1>4, <2>1, AppendDistinct
<1>. HIDE DEF new, list
<1>6. /\ artifact'[h] = new /\ byCapability'[t] = list
      /\ \A g \in Artifacts : g # h => artifact'[g] = artifact[g]
      /\ \A u \in Capabilities : u # t => byCapability'[u] = byCapability[u]
      /\ artifact' \in [Artifacts -> ArtifactType] /\ byCapability' \in [Capabilities -> Seq(Artifacts)]
  BY <1>1, <1>2, <1>3, <1>5
<1>7. ASSUME NEW u \in Capabilities
      PROVE  /\ IsInjective(byCapability'[u])
             /\ ToSet(byCapability'[u]) = {g \in Entered' : artifact'[g].tag = u}
  <2>1. /\ IsInjective(byCapability[u])
        /\ ToSet(byCapability[u]) = {g \in Artifacts : artifact[g] # NoArtifact /\ artifact[g].tag = u}
    BY DEF IntelligenceInv, ArtifactsHonest, Entered
  <2>2. CASE u = t
    BY <1>1, <1>3, <1>5, <1>6, <2>1, <2>2 DEF Entered
  <2>3. CASE u # t
    BY <1>1, <1>3, <1>6, <2>1, <2>3 DEF Entered
  <2>. QED  BY <2>2, <2>3
<1>8. \A g \in Artifacts : Citers(g)' = Citers(g)
  BY <1>1 DEF Citers
<1>9. ASSUME NEW g \in Artifacts
      PROVE  /\ artifact'[g].creator \notin Citers(g)
             /\ artifact'[g].raw = artifact[g].raw /\ artifact'[g].weighted = artifact[g].weighted
             /\ artifact'[g] # NoArtifact => artifact'[g].creator \in Authors
  <2>1. CASE g = h
    <3>1. artifact[h].raw = Cardinality(Citers(h))
      BY DEF IntelligenceInv, ArtifactsHonest
    <3>2. Citers(h) = {}
      BY <1>1, <1>2, <3>1, CitersFinite
    <3>. QED  BY <1>1, <1>2, <1>3, <1>6, <2>1, <3>2
  <2>2. CASE g # h
    BY <1>6, <2>2 DEF IntelligenceInv, ArtifactsHonest
  <2>. QED  BY <2>1, <2>2
<1>10. ArtifactsHonest'
  <2> SUFFICES ASSUME NEW g \in Artifacts
               PROVE  /\ artifact'[g].creator \notin Citers(g)'
                      /\ artifact'[g].raw = Cardinality(Citers(g)')
                      /\ artifact'[g].weighted = Cardinality({b \in Citers(g)' : citedAt'[g][b] >= MIN_SCORE})
                      /\ ToSet(announced'[g]) = {n \in CitationThresholds : n <= artifact'[g].weighted}
                      /\ \A i \in 1..(Len(announced'[g]) - 1) : announced'[g][i] <= announced'[g][i + 1]
    BY <1>7 DEF ArtifactsHonest
  <2>1. /\ artifact[g].raw = Cardinality(Citers(g))
        /\ artifact[g].weighted = Cardinality({b \in Citers(g) : citedAt[g][b] >= MIN_SCORE})
        /\ ToSet(announced[g]) = {n \in CitationThresholds : n <= artifact[g].weighted}
        /\ \A i \in 1..(Len(announced[g]) - 1) : announced[g][i] <= announced[g][i + 1]
    BY DEF IntelligenceInv, ArtifactsHonest
  <2>2. citedAt' = citedAt /\ announced' = announced
    BY <1>1
  <2>. QED  BY <1>8, <1>9, <2>1, <2>2
<1>. QED  BY <1>1, <1>6, <1>9, <1>10 DEF IntelligenceInv

(* A citation counts one agent more, and announces the threshold it reaches  *)
(* What was announced when the weighted count is n.                         *)
AnnouncedUpTo(list, n) ==
  /\ list \in Seq(CitationThresholds)
  /\ ToSet(list) = {m \in CitationThresholds : m <= n}
  /\ \A i \in 1..(Len(list) - 1) : list[i] <= list[i + 1]

(* A citation announces the threshold it reaches, or announces the last one  *)
(* again.                                                                   *)
LEMMA AnnouncementFits ==
  ASSUME NEW list, NEW before \in Nat, NEW counted \in {0, 1}, AnnouncedUpTo(list, before)
  PROVE  AnnouncedUpTo(list \o Announcement(before + counted, counted), before + counted)
<1>1. PICK after \in Nat : after = before + counted /\ before <= after /\ after <= before + 1
  OBVIOUS
<1> DEFINE longer == list \o Announcement(after, counted)
<1>2. \A n \in CitationThresholds : n \in Nat /\ (n <= after <=> n <= before \/ n = after)
  BY <1>1, IntelligenceConstants
<1>3. /\ list \in Seq(CitationThresholds)
      /\ ToSet(list) = {m \in CitationThresholds : m <= before}
      /\ \A i \in 1..(Len(list) - 1) : list[i] <= list[i + 1]
  BY DEF AnnouncedUpTo
<1>4. CASE after \notin CitationThresholds
  <2>1. longer = list
    BY <1>3, <1>4 DEF Announcement
  <2>2. {n \in CitationThresholds : n <= after} = {n \in CitationThresholds : n <= before}
    BY <1>2, <1>4
  <2>. QED  BY <1>1, <1>3, <2>1, <2>2 DEF AnnouncedUpTo
<1>5. CASE after \in CitationThresholds
  <2>1. longer = Append(list, after)
    BY <1>3, <1>5 DEF Announcement
  <2>. HIDE DEF longer
  <2>2. longer \in Seq(CitationThresholds) /\ ToSet(longer) = ToSet(list) \cup {after}
    <3>1. /\ Append(list, after) \in Seq(CitationThresholds)
          /\ ToSet(Append(list, after)) = ToSet(list) \cup {after}
      BY <1>3, <1>5, AppendDistinct
    <3>. QED  BY <2>1, <3>1
  <2>3. {n \in CitationThresholds : n <= after} = {n \in CitationThresholds : n <= before} \cup {after}
    BY <1>2, <1>5
  <2>4. PICK k \in Nat : /\ k = Len(list) /\ Len(longer) = k + 1 /\ longer[k + 1] = after
                         /\ \A i \in 1..k : longer[i] = list[i] /\ list[i] \in ToSet(list)
    BY <1>3, <1>5, <2>1 DEF ToSet
  <2>5. ASSUME NEW i \in 1..(Len(longer) - 1) PROVE longer[i] <= longer[i + 1]
    <3>1. i \in 1..k
      BY <2>4, <2>5
    <3>2. CASE i = k
      <4>1. longer[i] <= before /\ longer[i] \in Nat
        BY <1>2, <1>3, <2>4, <3>1
      <4>. QED  BY <1>1, <2>4, <3>2, <4>1
    <3>3. CASE i # k
      <4>1. i \in 1..(k - 1) /\ i + 1 \in 1..k
        BY <3>1, <3>3
      <4>. QED  BY <1>3, <2>4, <3>1, <4>1
    <3>. QED  BY <3>2, <3>3
  <2>6. ToSet(longer) = {n \in CitationThresholds : n <= after}
    BY <1>3, <2>2, <2>3
  <2>7. AnnouncedUpTo(longer, after)
    BY <2>2, <2>5, <2>6 DEF AnnouncedUpTo
  <2>. QED  BY <1>1, <2>7 DEF longer
<1>. QED  BY <1>1, <1>4, <1>5

(* A citation counts one agent more (recordCitation).                       *)
LEMMA RecordKeeps ==
  ASSUME IntelligenceInv, NEW a \in Authors, NEW h \in Artifacts, NEW score \in CiterScores,
         RecordCitation(a, h, score)
  PROVE  IntelligenceInv'
<1>1. PICK counted \in {0, 1} : counted = IF score >= MIN_SCORE THEN 1 ELSE 0
  OBVIOUS
<1>2. PICK before \in Nat, raw \in Nat : before = artifact[h].weighted /\ raw = artifact[h].raw
  BY DEF IntelligenceInv, ArtifactType
<1> DEFINE row == [citedAt[h] EXCEPT ![a] = score]
           new == [[artifact[h] EXCEPT !.raw = raw + 1] EXCEPT !.weighted = before + counted]
           list == announced[h] \o Announcement(before + counted, counted)
           Weighty(g) == {b \in Citers(g) : citedAt[g][b] >= MIN_SCORE}
<1>3. /\ artifact[h] # NoArtifact /\ citedAt[h][a] = Uncited /\ a # artifact[h].creator
      /\ citedAt' = [citedAt EXCEPT ![h] = row]
      /\ announced' = [announced EXCEPT ![h] = list]
      /\ UNCHANGED <<enrolled, byCapability>>
  BY <1>1, <1>2 DEF RecordCitation
<1>4. /\ artifact \in [Artifacts -> ArtifactType]
      /\ citedAt \in [Artifacts -> [Authors -> CiterScores \cup {Uncited}]]
      /\ announced \in [Artifacts -> Seq(CitationThresholds)]
  BY DEF IntelligenceInv
<1>5. artifact' = [artifact EXCEPT ![h] = new]
  <2>1. artifact' = [artifact EXCEPT ![h].raw = raw + 1, ![h].weighted = before + counted]
    BY <1>1, <1>2 DEF RecordCitation
  <2>. QED  BY <1>4, <2>1
<1>6. /\ new \in ArtifactType /\ new.creator = artifact[h].creator /\ new.tag = artifact[h].tag
      /\ new.raw = raw + 1 /\ new.weighted = before + counted
  <2>1. artifact[h] \in ArtifactType /\ raw + 1 \in Nat /\ before + counted \in Nat
    BY <1>4
  <2>. QED  BY <2>1 DEF ArtifactType
<1>7. row \in [Authors -> CiterScores \cup {Uncited}] /\ row[a] = score
      /\ \A b \in Authors : b # a => row[b] = citedAt[h][b]
  BY <1>4
<1>8. ASSUME NEW g \in Artifacts
      PROVE  /\ artifact[g].creator \notin Citers(g)
             /\ artifact[g].raw = Cardinality(Citers(g))
             /\ artifact[g].weighted = Cardinality(Weighty(g))
             /\ ToSet(announced[g]) = {n \in CitationThresholds : n <= artifact[g].weighted}
             /\ \A i \in 1..(Len(announced[g]) - 1) : announced[g][i] <= announced[g][i + 1]
             /\ artifact[g] # NoArtifact => artifact[g].creator \in Authors
  BY DEF IntelligenceInv, ArtifactsHonest
<1>9. /\ list \in Seq(CitationThresholds)
      /\ ToSet(list) = {n \in CitationThresholds : n <= before + counted}
      /\ \A i \in 1..(Len(list) - 1) : list[i] <= list[i + 1]
  <2>1. AnnouncedUpTo(announced[h], before)
    BY <1>2, <1>4, <1>8 DEF AnnouncedUpTo
  <2>2. AnnouncedUpTo(list, before + counted)
    BY <1>1, <1>2, <2>1, AnnouncementFits
  <2>. QED  BY <2>2 DEF AnnouncedUpTo
<1>. HIDE DEF row, new, list
<1>10. /\ artifact'[h] = new /\ citedAt'[h] = row /\ announced'[h] = list
       /\ \A g \in Artifacts : g # h => /\ artifact'[g] = artifact[g] /\ citedAt'[g] = citedAt[g]
                                        /\ announced'[g] = announced[g]
       /\ artifact' \in [Artifacts -> ArtifactType]
       /\ citedAt' \in [Artifacts -> [Authors -> CiterScores \cup {Uncited}]]
       /\ announced' \in [Artifacts -> Seq(CitationThresholds)]
  BY <1>3, <1>4, <1>5, <1>6, <1>7, <1>9
<1> DEFINE CitersNow == {b \in Authors : row[b] # Uncited}
           WeightyNow == {b \in CitersNow : row[b] >= MIN_SCORE}
<1>11. /\ CitersNow = Citers(h) \cup {a} /\ a \notin Citers(h)
       /\ WeightyNow = IF score >= MIN_SCORE THEN Weighty(h) \cup {a} ELSE Weighty(h)
       /\ a \notin Weighty(h)
  BY <1>3, <1>7, IntelligenceConstants DEF Citers
<1>12. PICK C, D, W, X : C = Citers(h) /\ D = CitersNow /\ W = Weighty(h) /\ X = WeightyNow
  OBVIOUS
<1>13. IsFiniteSet(C) /\ IsFiniteSet(W) /\ Cardinality(W) \in Nat
  <2>1. IsFiniteSet(C)
    BY <1>12, CitersFinite
  <2>2. W \in SUBSET C
    BY <1>12
  <2>3. IsFiniteSet(W)
    BY <2>1, <2>2, FS_Subset
  <2>. QED  BY <2>1, <2>3, FS_CardinalityType
<1>14. Cardinality(D) = Cardinality(C) + 1
  BY <1>11, <1>12, <1>13, FS_AddElement
<1>15. Cardinality(X) = Cardinality(W) + counted
  <2>1. CASE score >= MIN_SCORE
    <3>1. X = W \cup {a} /\ a \notin W
      BY <1>11, <1>12, <2>1
    <3>. QED  BY <1>1, <1>13, <2>1, <3>1, FS_AddElement
  <2>2. CASE ~(score >= MIN_SCORE)
    <3>1. X = W
      BY <1>11, <1>12, <2>2
    <3>. QED  BY <1>1, <1>13, <2>2, <3>1
  <2>. QED  BY <2>1, <2>2
<1>16. /\ new.raw = Cardinality(CitersNow) /\ new.weighted = Cardinality(WeightyNow)
       /\ new.creator \notin CitersNow /\ new.creator \in Authors
  <2>1. raw = Cardinality(C) /\ before = Cardinality(W)
    BY <1>2, <1>8, <1>12
  <2>. QED  BY <1>3, <1>6, <1>8, <1>11, <1>12, <1>14, <1>15, <2>1
<1>17. ASSUME NEW g \in Artifacts
       PROVE  /\ artifact'[g].creator \notin Citers(g)'
              /\ artifact'[g].raw = Cardinality(Citers(g)')
              /\ artifact'[g].weighted = Cardinality({b \in Citers(g)' : citedAt'[g][b] >= MIN_SCORE})
              /\ ToSet(announced'[g]) = {n \in CitationThresholds : n <= artifact'[g].weighted}
              /\ \A i \in 1..(Len(announced'[g]) - 1) : announced'[g][i] <= announced'[g][i + 1]
              /\ artifact'[g] # NoArtifact => artifact'[g].creator \in Authors
              /\ artifact'[g].tag = artifact[g].tag
              /\ artifact'[g] # NoArtifact <=> artifact[g] # NoArtifact
  <2>1. CASE g = h
    <3>1. artifact'[g] = new /\ citedAt'[g] = row /\ announced'[g] = list /\ new.weighted = before + counted
      BY <1>6, <1>10, <2>1
    <3>2. Citers(g)' = CitersNow
      BY <3>1 DEF Citers
    <3>3. {b \in Citers(g)' : citedAt'[g][b] >= MIN_SCORE} = WeightyNow
      BY <3>1, <3>2
    <3>4. new # NoArtifact
      BY <1>16, IntelligenceConstants DEF NoArtifact
    <3>. HIDE DEF CitersNow, WeightyNow
    <3>. QED  BY <1>3, <1>6, <1>9, <1>16, <2>1, <3>1, <3>2, <3>3, <3>4
  <2>2. CASE g # h
    <3>1. artifact'[g] = artifact[g] /\ citedAt'[g] = citedAt[g] /\ announced'[g] = announced[g]
      BY <1>10, <2>2
    <3>2. Citers(g)' = Citers(g)
      BY <3>1 DEF Citers
    <3>. QED  BY <1>8, <3>1, <3>2
  <2>. QED  BY <2>1, <2>2
<1>18. ASSUME NEW t \in Capabilities
       PROVE  /\ IsInjective(byCapability'[t])
              /\ ToSet(byCapability'[t]) = {g \in Entered' : artifact'[g].tag = t}
  <2>1. /\ IsInjective(byCapability[t])
        /\ ToSet(byCapability[t]) = {g \in Artifacts : artifact[g] # NoArtifact /\ artifact[g].tag = t}
    BY DEF IntelligenceInv, ArtifactsHonest, Entered
  <2>2. {g \in Entered' : artifact'[g].tag = t}
          = {g \in Artifacts : artifact[g] # NoArtifact /\ artifact[g].tag = t}
    BY <1>17 DEF Entered
  <2>. QED  BY <1>3, <2>1, <2>2
<1>19. ArtifactsHonest'
  BY <1>17, <1>18 DEF ArtifactsHonest
<1>. QED  BY <1>3, <1>10, <1>17, <1>19 DEF IntelligenceInv

(* The lists, the counts and the announcements of artifacts are right        *)
(* (register, recordCitation).                                              *)
THEOREM ArtifactsAreHonest == IntelligenceSpec => []ArtifactsHonest
<1>1. ASSUME IntelligenceInv, [IntelligenceNext]_intelligenceVars PROVE IntelligenceInv'
  <2>1. ASSUME UNCHANGED <<artifact, byCapability, citedAt, announced>>, enrolled' \subseteq Authors
        PROVE  IntelligenceInv'
    BY <1>1, <2>1 DEF IntelligenceInv, ArtifactsHonest, Entered, Citers
  <2>2. ASSUME NEW a \in Authors, Registry!ChangeRegistration(a),
               UNCHANGED <<artifact, byCapability, citedAt, announced>>
        PROVE  IntelligenceInv'
    BY <1>1, <2>1, <2>2 DEF IntelligenceInv, Registry!ChangeRegistration
  <2>3. CASE UNCHANGED intelligenceVars
    BY <1>1, <2>1, <2>3 DEF IntelligenceInv, intelligenceVars
  <2>. QED  BY <1>1, <2>2, <2>3, RegisterKeeps, RecordKeeps DEF IntelligenceNext
<1>2. IntelligenceInv => ArtifactsHonest
  BY DEF IntelligenceInv
<1>. QED  BY <1>1, <1>2, IntelligenceInitial, PTL DEF IntelligenceSpec
=============================================================================
