---------------------------- MODULE EscrowLedger ----------------------------
(***************************************************************************)
(* What a pull-payment escrow promises: money that comes in is locked in    *)
(* one escrow; out of an escrow it can only become credit of accounts;      *)
(* credit only ever falls by its owner taking all of it.  Nothing is        *)
(* created, nothing disappears, and one call touches one escrow.            *)
(*                                                                          *)
(* contracts/src/SubscriptionAgreement.sol and ComputeAgreement.sol are     *)
(* implementations: there an escrow is a subscription or a compute session, *)
(* credit is pendingWithdrawals and the vault is the contract's balance.    *)
(* ServiceAgreement.sol, which pushes its payments, is one with what it     *)
(* ever paid to an account as the credit of the account.                    *)
(***************************************************************************)
EXTENDS Integers, Functions, SumTheorems

CONSTANTS Accounts, Escrows, Tokens

VARIABLES locked,  \* locked[e][t]: held for escrow e in token t
          credit,  \* credit[a][t]: what account a may withdraw of token t
          vault    \* vault[t]: what the contract holds of token t

ledger == <<locked, credit, vault>>

LedgerType ==
  /\ locked \in [Escrows -> [Tokens -> Nat]]
  /\ credit \in [Accounts -> [Tokens -> Nat]]
  /\ vault \in [Tokens -> Int]

Init ==
  /\ locked = [e \in Escrows |-> [t \in Tokens |-> 0]]
  /\ credit = [a \in Accounts |-> [t \in Tokens |-> 0]]
  /\ vault = [t \in Tokens |-> 0]

(* The holdings of all escrows, or of all accounts, in one token. *)
Total(holdings, t) == SumFunction([x \in DOMAIN holdings |-> holdings[x][t]])

(* Money enters escrow e and money leaves it as credit, in any proportion. *)
Move(e) ==
  /\ LedgerType'
  /\ \A f \in Escrows \ {e} : locked'[f] = locked[f]
  /\ \A t \in Tokens :
       /\ \A a \in Accounts : credit'[a][t] >= credit[a][t]
       /\ vault'[t] >= vault[t]
       /\ vault'[t] - vault[t] = (locked'[e][t] - locked[e][t])
                                   + (Total(credit', t) - Total(credit, t))

Pay(a, t) ==
  /\ credit[a][t] > 0
  /\ credit' = [credit EXCEPT ![a][t] = 0]
  /\ vault' = [vault EXCEPT ![t] = @ - credit[a][t]]
  /\ UNCHANGED locked

Next ==
  \/ \E e \in Escrows : Move(e)
  \/ \E a \in Accounts, t \in Tokens : Pay(a, t)

Spec == Init /\ [][Next]_ledger

(* The vault holds exactly what is locked and what is owed. *)
Backed == \A t \in Tokens : vault[t] = Total(locked, t) + Total(credit, t)

-----------------------------------------------------------------------------
(* Totals are integers, and follow a change of one holder. *)
LEMMA TotalIs ==
  ASSUME NEW S, NEW h \in [S -> [Tokens -> Nat]], NEW t
  PROVE  Total(h, t) = SumFunctionOnSet([x \in S |-> h[x][t]], S)
BY DEF Total, SumFunction

LEMMA TotalType ==
  ASSUME NEW S, IsFiniteSet(S), NEW h \in [S -> [Tokens -> Nat]], NEW t \in Tokens
  PROVE  Total(h, t) \in Int
<1> DEFINE f == [x \in S |-> h[x][t]]
<1>1. \A x \in S : f[x] \in Int
  OBVIOUS
<1>2. Total(h, t) = SumFunctionOnSet(f, S)
  BY TotalIs
<1>. HIDE DEF f
<1>. QED
  BY <1>1, <1>2, SumType

LEMMA TotalChange ==
  ASSUME NEW S, NEW h, NEW j, NEW t, NEW x, IsFiniteSet(S),
         h \in [S -> [Tokens -> Nat]], j \in [S -> [Tokens -> Nat]], t \in Tokens, x \in S,
         \A y \in S : y # x => j[y][t] = h[y][t]
  PROVE  Total(j, t) = Total(h, t) - h[x][t] + j[x][t]
<1> DEFINE f == [y \in S |-> h[y][t]]
           g == [y \in S |-> j[y][t]]
<1>1. f \in [S -> Nat] /\ g \in [S -> Nat]
  OBVIOUS
<1>2. \A y \in S \ {x} : g[y] = f[y]
  OBVIOUS
<1>3. f[x] = h[x][t] /\ g[x] = j[x][t]
  OBVIOUS
<1>4. Total(h, t) = SumFunctionOnSet(f, S) /\ Total(j, t) = SumFunctionOnSet(g, S)
  BY TotalIs
<1>. HIDE DEF f, g
<1>5. f \in [S -> Nat]
  BY <1>1
<1>6. g \in [S -> Nat]
  BY <1>1
<1>7. SumFunctionOnSet(g, S) = SumFunctionOnSet(f, S) - f[x] + g[x]
  BY <1>2, <1>5, <1>6, SumChange
<1>. QED
  BY <1>3, <1>4, <1>7

(* Both kinds of step keep the vault exact. *)
LEMMA StepBacked ==
  ASSUME IsFiniteSet(Accounts), IsFiniteSet(Escrows), LedgerType, Backed, [Next]_ledger
  PROVE  LedgerType' /\ Backed'
<1>1. CASE \E e \in Escrows : Move(e)
  <2>1. PICK e \in Escrows : Move(e)
    BY <1>1
  <2>2. LedgerType'
    BY <2>1 DEF Move
  <2>3. ASSUME NEW t \in Tokens
        PROVE  vault'[t] = Total(locked', t) + Total(credit', t)
    <3>1. Total(locked', t) = Total(locked, t) - locked[e][t] + locked'[e][t]
      <4>1. locked \in [Escrows -> [Tokens -> Nat]]
        BY DEF LedgerType
      <4>2. locked' \in [Escrows -> [Tokens -> Nat]]
        BY <2>2 DEF LedgerType
      <4>3. \A f \in Escrows : f # e => locked'[f][t] = locked[f][t]
        BY <2>1 DEF Move
      <4>. QED
        BY <4>1, <4>2, <4>3, TotalChange
    <3>2. /\ Total(locked, t) \in Int /\ Total(locked', t) \in Int
          /\ Total(credit, t) \in Int /\ Total(credit', t) \in Int
      BY <2>2, TotalType DEF LedgerType
    <3>3. vault[t] = Total(locked, t) + Total(credit, t)
      BY DEF Backed
    <3>4. vault'[t] - vault[t] = (locked'[e][t] - locked[e][t])
                                   + (Total(credit', t) - Total(credit, t))
      BY <2>1 DEF Move
    <3>5. vault[t] \in Int /\ vault'[t] \in Int /\ locked[e][t] \in Int /\ locked'[e][t] \in Int
      BY <2>2 DEF LedgerType
    <3>6. \A v, w, l, m, x, y, c, d \in Int :
            v = x + c /\ y = x - l + m /\ w - v = (m - l) + (d - c) => w = y + d
      OBVIOUS
    <3>. QED
      BY <3>1, <3>2, <3>3, <3>4, <3>5, <3>6
  <2>. QED
    BY <2>2, <2>3 DEF Backed
<1>2. CASE \E a \in Accounts, u \in Tokens : Pay(a, u)
  <2>1. PICK a \in Accounts, u \in Tokens : Pay(a, u)
    BY <1>2
  <2>2. LedgerType' /\ UNCHANGED locked
    BY <2>1 DEF Pay, LedgerType
  <2>3. ASSUME NEW t \in Tokens
        PROVE  vault'[t] = Total(locked', t) + Total(credit', t)
    <3>1. credit \in [Accounts -> [Tokens -> Nat]]
      BY DEF LedgerType
    <3>0. credit' \in [Accounts -> [Tokens -> Nat]]
      BY <2>2 DEF LedgerType
    <3>2. \A b \in Accounts : b # a => credit'[b][t] = credit[b][t]
      BY <2>1, <3>1 DEF Pay
    <3>3. Total(credit', t) = Total(credit, t) - credit[a][t] + credit'[a][t]
      BY <3>0, <3>1, <3>2, TotalChange
    <3>4. vault[t] = Total(locked, t) + Total(credit, t)
      BY DEF Backed
    <3>5. vault'[t] = vault[t] - credit[a][t] + credit'[a][t]
      <4>1. CASE t = u
        BY <2>1, <3>1, <4>1 DEF Pay, LedgerType
      <4>2. CASE t # u
        BY <2>1, <3>1, <4>2 DEF Pay, LedgerType
      <4>. QED
        BY <4>1, <4>2
    <3>6. /\ Total(locked, t) \in Int /\ Total(credit, t) \in Int /\ vault[t] \in Int
          /\ credit[a][t] \in Int /\ credit'[a][t] \in Int
      BY <3>0, <3>1, TotalType DEF LedgerType
    <3>. QED
      BY <2>2, <3>3, <3>4, <3>5, <3>6
  <2>. QED
    BY <2>2, <2>3 DEF Backed
<1>3. CASE UNCHANGED ledger
  BY <1>3 DEF ledger, LedgerType, Backed
<1>. QED
  BY <1>1, <1>2, <1>3 DEF Next

LEMMA InitBacked ==
  ASSUME IsFiniteSet(Accounts), IsFiniteSet(Escrows), Init
  PROVE  LedgerType /\ Backed
<1>1. LedgerType
  BY DEF Init, LedgerType
<1>2. ASSUME NEW t \in Tokens PROVE Total(locked, t) = 0 /\ Total(credit, t) = 0
  <2> DEFINE f == [e \in Escrows |-> locked[e][t]]
             g == [a \in Accounts |-> credit[a][t]]
  <2>1. (\A e \in Escrows : f[e] = 0) /\ (\A a \in Accounts : g[a] = 0)
    BY DEF Init
  <2>2. Total(locked, t) = SumFunctionOnSet(f, Escrows)
          /\ Total(credit, t) = SumFunctionOnSet(g, Accounts)
    BY <1>1, TotalIs DEF LedgerType
  <2>. HIDE DEF f, g
  <2>. QED
    BY <2>1, <2>2, SumZero
<1>. QED
  BY <1>1, <1>2 DEF Init, Backed

(* Whatever implements the ledger is solvent: it holds what it owes.        *)
THEOREM LedgerBacked ==
  ASSUME IsFiniteSet(Accounts), IsFiniteSet(Escrows)
  PROVE  Spec => [](LedgerType /\ Backed)
<1>1. Init => LedgerType /\ Backed
  BY InitBacked
<1>2. LedgerType /\ Backed /\ [Next]_ledger => (LedgerType /\ Backed)'
  BY StepBacked
<1>. QED
  BY <1>1, <1>2, PTL DEF Spec
=============================================================================
