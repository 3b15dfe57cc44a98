------------------------- MODULE SquadRevenueSplit --------------------------
(***************************************************************************)
(* The revenue of a research squad (arena/contracts/SquadRevenueSplit.sol):*)
(* what comes in is split by fixed shares and pushed to the recipients at  *)
(* once; a share that cannot be pushed is owed and can be claimed.  A call *)
(* is atomic, and the guard against reentrancy leaves the pushes no way    *)
(* back into the contract.  ETH and USDC are kept the same way, except     *)
(* that one call distributes both.  Within one call a recipient accepts    *)
(* all transfers of a token or none.                                       *)
(*                                                                         *)
(* paid and swept are history variables: what a recipient was ever sent,   *)
(* and whether distribute was ever called while something was owed.        *)
(***************************************************************************)
EXTENDS Integers, Sequences, FiniteSets, Functions

CONSTANTS
  Recipients,
  Split,       \* _recipients with _shares: a sequence of [to, bps]; one may occur twice
  Amounts,     \* payments that may come in
  MaxIncome,   \* bound on what comes in of each token
  MaxOwed      \* bound on what is owed of each token

Tokens == {"ETH", "USDC"}
BASIS_POINTS == 10000

(* What the constructor checks. *)
ASSUME SquadRevenueSplitAssumption ==
  /\ IsFiniteSet(Recipients)
  /\ Split \in Seq([to : Recipients, bps : Nat \ {0}]) /\ Split # <<>>
  /\ SumFunction([i \in DOMAIN Split |-> Split[i].bps]) = BASIS_POINTS
  /\ Amounts \subseteq Nat \ {0}
  /\ MaxIncome \in [Tokens -> Nat] /\ MaxOwed \in Nat

VARIABLES
  accepting,   \* recipients a transfer of a token succeeds for at present
  balance,     \* what the contract holds of each token
  pending,     \* pendingETH and pendingUSDC
  income,      \* what ever came in
  paid,
  swept

splitVars == <<accepting, balance, pending, income, paid, swept>>

SplitInit ==
  /\ accepting \in [Tokens -> SUBSET Recipients]
  /\ balance = [t \in Tokens |-> 0]
  /\ pending = [t \in Tokens |-> [r \in Recipients |-> 0]]
  /\ income = [t \in Tokens |-> 0]
  /\ paid = [t \in Tokens |-> [r \in Recipients |-> 0]]
  /\ swept = [t \in Tokens |-> FALSE]

Total(f) == SumFunction(f)

(* Shares round down; the last recipient takes what is left. *)
ShareAt(i, total) ==
  LET floor(j) == (total * Split[j].bps) \div BASIS_POINTS
  IN IF i = Len(Split) THEN total - Total([j \in 1..(Len(Split) - 1) |-> floor(j)])
     ELSE floor(i)

(* What recipient r gets of a total, in all the places it has in the split. *)
Part(r, total) ==
  Total([i \in {j \in DOMAIN Split : Split[j].to = r} |-> ShareAt(i, total)])

(* Faulty variant: what was owed before is forgotten. *)
Owe_Overwritten(t, total) ==
  [r \in Recipients |-> IF r \in accepting[t] \/ Part(r, total) = 0 THEN pending[t][r] ELSE Part(r, total)]

Owe(t, total) ==
  [r \in Recipients |-> pending[t][r] + IF r \in accepting[t] THEN 0 ELSE Part(r, total)]

Push(t, total) ==
  [r \in Recipients |-> IF r \in accepting[t] THEN Part(r, total) ELSE 0]

(* _distributeETH and _distributeUSDC of the totals, on top of money in *)
DistributeAll(in, total) ==
  /\ pending' = [t \in Tokens |-> Owe(t, total[t])]
  /\ paid' = [t \in Tokens |-> [r \in Recipients |-> paid[t][r] + Push(t, total[t])[r]]]
  /\ balance' = [t \in Tokens |-> balance[t] + in[t] - Total(Push(t, total[t]))]

Only(t, amount) == [u \in Tokens |-> IF u = t THEN amount ELSE 0]
Earn(t, amount) ==
  /\ income[t] + amount <= MaxIncome[t]  \* bound
  /\ income' = [income EXCEPT ![t] = @ + amount]

(* receive and receiveUSDC *)
Receive(t, amount) ==
  /\ Earn(t, amount)
  /\ DistributeAll(Only(t, amount), Only(t, amount))
  /\ UNCHANGED <<accepting, swept>>

(* A plain token transfer, or ETH that reaches the contract without a call. *)
Deposit(t, amount) ==
  /\ Earn(t, amount)
  /\ balance' = [balance EXCEPT ![t] = @ + amount]
  /\ UNCHANGED <<accepting, pending, paid, swept>>

Distribute ==
  /\ \E t \in Tokens : balance[t] > 0
  /\ DistributeAll([t \in Tokens |-> 0], balance)
  /\ \A t \in Tokens : Total(pending'[t]) <= MaxOwed  \* bound
  /\ swept' = [t \in Tokens |-> swept[t] \/ (balance[t] > 0 /\ Total(pending[t]) > 0)]
  /\ UNCHANGED <<accepting, income>>

(* Faulty variant: the debt stays after it was paid. *)
Claim_KeepsDebt(t, r) ==
  /\ pending[t][r] > 0
  /\ r \in accepting[t]
  /\ balance[t] >= pending[t][r]
  /\ balance' = [balance EXCEPT ![t] = @ - pending[t][r]]
  /\ paid' = [paid EXCEPT ![t][r] = @ + pending[t][r]]
  /\ UNCHANGED <<accepting, pending, income, swept>>

(* claimETH and claimUSDC: a transfer that fails reverts the call. *)
Claim(t, r) ==
  /\ pending[t][r] > 0
  /\ r \in accepting[t]
  /\ balance[t] >= pending[t][r]
  /\ pending' = [pending EXCEPT ![t][r] = 0]
  /\ balance' = [balance EXCEPT ![t] = @ - pending[t][r]]
  /\ paid' = [paid EXCEPT ![t][r] = @ + pending[t][r]]
  /\ UNCHANGED <<accepting, income, swept>>

(* A recipient's contract is changed, or the token lists it or delists it. *)
ChangeAccepting(t, r) ==
  /\ accepting' = [accepting EXCEPT ![t] = (@ \ {r}) \cup ({r} \ @)]
  /\ UNCHANGED <<balance, pending, income, paid, swept>>

SplitNext ==
  \/ Distribute
  \/ \E t \in Tokens :
       \/ \E amount \in Amounts : Receive(t, amount) \/ Deposit(t, amount)
       \/ \E r \in Recipients : Claim(t, r) \/ ChangeAccepting(t, r)

SplitSpec == SplitInit /\ [][SplitNext]_splitVars

-----------------------------------------------------------------------------
SplitTypeOK ==
  /\ accepting \in [Tokens -> SUBSET Recipients]
  /\ balance \in [Tokens -> Nat]
  /\ pending \in [Tokens -> [Recipients -> Nat]]
  /\ income \in [Tokens -> Nat]
  /\ paid \in [Tokens -> [Recipients -> Nat]]
  /\ swept \in [Tokens -> BOOLEAN]

Owed(t) == Total(pending[t])

(* As long as nobody distributes money that is owed, the contract holds     *)
(* what it owes, whichever pushes failed and in whatever order the claims   *)
(* come, and whichever recipients occur twice.                              *)
OwedIsHeldUnlessSwept == \A t \in Tokens : ~swept[t] => Owed(t) <= balance[t]

(* What comes in or is distributed is passed on in full: rounding leaves    *)
(* nothing behind but what is owed, and a recipient that refuses a transfer *)
(* costs no other recipient anything, each of the others being given what   *)
(* it is given when all of them accept.                                     *)
IncomeShared ==
  [][\A t \in Tokens :
       LET total == IF income'[t] > income[t] THEN income'[t] - income[t] ELSE balance[t]
       IN /\ paid' # paid /\ income'[t] > income[t] =>
               balance'[t] - balance[t] = Total(pending'[t]) - Total(pending[t])
          /\ (\E q \in Recipients : pending'[t][q] > pending[t][q]) =>
               \A r \in Recipients :
                 paid'[t][r] + pending'[t][r] = paid[t][r] + pending[t][r] + Part(r, total)]_splitVars

(* "Failed transfers accumulate in pending mappings (no permanent lock)".   *)
(* Fails: distribute hands owed money out a second time, and the claim of   *)
(* the recipient it is owed to reverts.                                     *)
OwedIsHeld == \A t \in Tokens : Owed(t) <= balance[t]
=============================================================================
