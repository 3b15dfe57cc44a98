----------------------------- MODULE SumTheorems -----------------------------
(***************************************************************************)
(* Facts about sums over finite sets, for the theorems on money: the        *)
(* balances of the contracts are compared with sums of deposits and         *)
(* credits.  The library's induction theorems take an operator as a         *)
(* parameter; the inductions here are by a smallest counterexample instead. *)
(***************************************************************************)
EXTENDS Integers, Functions, FiniteSetsExt, FiniteSetTheorems, WellFoundedInduction, PullPayments, TLAPS

(* g maps every subset of S to the sum of f over it. *)
IsSumOf(g, f, S) ==
  /\ g \in [SUBSET S -> Int]
  /\ g[{}] = 0
  /\ \A s \in SUBSET S : \A x \in s : g[s] = f[x] + g[s \ {x}]

(* A nonempty set of subsets of a finite set has a smallest member. *)
LEMMA SmallestSubset ==
  ASSUME NEW S, IsFiniteSet(S), NEW B, B \subseteq SUBSET S, B # {}
  PROVE  \E T \in B : \A x \in T : T \ {x} \notin B
<1>1. IsWellFoundedOn(StrictSubsetOrdering(S), SUBSET S)
  BY FS_StrictSubsetOrderingWellFounded, FS_FiniteSubsetsOfFinite
<1>2. PICK T \in B : \A U \in B : ~ (<<U, T>> \in StrictSubsetOrdering(S))
  BY <1>1, WFMin
<1>3. ASSUME NEW x \in T, T \ {x} \in B PROVE FALSE
  <2>1. T \ {x} \in SUBSET S /\ T \in SUBSET S /\ T \ {x} # T
    BY <1>3
  <2>2. <<T \ {x}, T>> \in StrictSubsetOrdering(S)
    BY <2>1 DEF StrictSubsetOrdering
  <2>. QED
    BY <1>2, <1>3, <2>2
<1>. QED
  BY <1>3

LEMMA SumExists ==
  ASSUME NEW S, IsFiniteSet(S), NEW f, \A s \in S : f[s] \in Int
  PROVE  \E g : IsSumOf(g, f, S)
<1> DEFINE B == {T \in SUBSET S : ~ \E g : IsSumOf(g, f, T)}
<1> SUFFICES ASSUME B # {} PROVE FALSE
  OBVIOUS
<1>1. PICK T \in B : \A x \in T : T \ {x} \notin B
  BY SmallestSubset
<1>2. CASE T = {}
  <2>1. IsSumOf([s \in SUBSET {} |-> 0], f, {})
    BY DEF IsSumOf
  <2>. QED
    BY <1>2, <2>1
<1>3. CASE T # {}
  <2>1. PICK x \in T : TRUE
    BY <1>3
  <2>2. PICK g : IsSumOf(g, f, T \ {x})
    BY <1>1, <2>1
  <2> DEFINE h == [s \in SUBSET T |-> IF x \in s THEN f[x] + g[s \ {x}] ELSE g[s]]
  <2>3. f[x] \in Int
    BY <2>1
  <2>4. \A s \in SUBSET T : s \ {x} \in SUBSET (T \ {x}) /\ (x \notin s => s \in SUBSET (T \ {x}))
    OBVIOUS
  <2>5. h \in [SUBSET T -> Int]
    BY <2>2, <2>3, <2>4 DEF IsSumOf
  <2>6. h[{}] = 0
    BY <2>2 DEF IsSumOf
  <2>7. ASSUME NEW s \in SUBSET T, NEW y \in s PROVE h[s] = f[y] + h[s \ {y}]
    <3>1. s \ {y} \in SUBSET T /\ f[y] \in Int
      OBVIOUS
    <3>2. CASE y = x
      <4>1. h[s] = f[x] + g[s \ {x}] /\ h[s \ {x}] = g[s \ {x}]
        BY <3>1, <3>2
      <4>. QED
        BY <3>2, <4>1
    <3>3. CASE y # x /\ x \in s
      <4>1. (s \ {x}) \ {y} = (s \ {y}) \ {x}
        OBVIOUS
      <4>2. g[s \ {x}] = f[y] + g[(s \ {x}) \ {y}]
        BY <2>2, <2>4, <3>3 DEF IsSumOf
      <4>3. h[s] = f[x] + g[s \ {x}] /\ h[s \ {y}] = f[x] + g[(s \ {y}) \ {x}]
        BY <3>1, <3>3
      <4>4. g[(s \ {x}) \ {y}] \in Int
        BY <2>2 DEF IsSumOf
      <4> DEFINE rest == g[(s \ {x}) \ {y}]
      <4>5. h[s] = f[x] + (f[y] + rest) /\ h[s \ {y}] = f[x] + rest /\ rest \in Int
        BY <4>1, <4>2, <4>3, <4>4
      <4>. HIDE DEF h, rest
      <4>. QED
        BY <2>3, <3>1, <4>5
    <3>4. CASE x \notin s
      <4>1. g[s] = f[y] + g[s \ {y}]
        BY <2>2, <2>4, <3>4 DEF IsSumOf
      <4>. QED
        BY <3>1, <3>4, <4>1
    <3>. QED
      BY <3>2, <3>3, <3>4
  <2>8. IsSumOf(h, f, T)
    BY <2>5, <2>6, <2>7 DEF IsSumOf
  <2>. QED
    BY <2>8
<1>. QED
  BY <1>2, <1>3

(* The sum of the library is that function. *)
LEMMA SumIs ==
  ASSUME NEW S, IsFiniteSet(S), NEW f, NEW g, IsSumOf(g, f, S)
  PROVE  SumFunctionOnSet(f, S) = g[S]
<1> DEFINE Body(it) == [s \in SUBSET S |->
                          IF s = {} THEN 0
                          ELSE f[CHOOSE x \in s : TRUE] + it[s \ {CHOOSE x \in s : TRUE}]]
           iter == CHOOSE it : it = Body(it)
<1>1. g = Body(g)
  <2>1. ASSUME NEW s \in SUBSET S, s # {}
        PROVE  g[s] = f[CHOOSE x \in s : TRUE] + g[s \ {CHOOSE x \in s : TRUE}]
    <3>1. (CHOOSE x \in s : TRUE) \in s
      BY <2>1
    <3>. QED
      BY <3>1 DEF IsSumOf
  <2>. QED
    BY <2>1 DEF IsSumOf
<1>2. iter = Body(iter)
  BY <1>1
<1>3. SumFunctionOnSet(f, S) = iter[S]
  BY DEF SumFunctionOnSet, FoldFunctionOnSet, MapThenFoldSet
<1>. HIDE DEF iter
<1> DEFINE B == {s \in SUBSET S : iter[s] # g[s]}
<1>4. SUFFICES ASSUME B # {} PROVE FALSE
  BY <1>3
<1>5. PICK T \in B : \A x \in T : T \ {x} \notin B
  BY <1>4, SmallestSubset
<1>6. iter[T] = IF T = {} THEN 0
                ELSE f[CHOOSE x \in T : TRUE] + iter[T \ {CHOOSE x \in T : TRUE}]
  BY <1>2
<1>7. CASE T = {}
  BY <1>6, <1>7 DEF IsSumOf
<1>8. CASE T # {}
  <2> DEFINE c == CHOOSE x \in T : TRUE
  <2>1. c \in T
    BY <1>8
  <2>. HIDE DEF c
  <2>2. iter[T \ {c}] = g[T \ {c}]
    BY <1>5, <2>1
  <2>3. g[T] = f[c] + g[T \ {c}]
    BY <2>1 DEF IsSumOf
  <2>. QED
    BY <1>6, <1>8, <2>2, <2>3 DEF c
<1>. QED
  BY <1>7, <1>8

-----------------------------------------------------------------------------
(* What the other modules cite. *)
LEMMA SumType ==
  ASSUME NEW S, IsFiniteSet(S), NEW f, \A s \in S : f[s] \in Int
  PROVE  SumFunctionOnSet(f, S) \in Int
<1>1. PICK g : IsSumOf(g, f, S)
  BY SumExists
<1>2. S \in SUBSET S
  OBVIOUS
<1>3. g[S] \in Int
  BY <1>1, <1>2 DEF IsSumOf
<1>. QED
  BY <1>1, <1>3, SumIs

LEMMA SumRemove ==
  ASSUME NEW S, IsFiniteSet(S), NEW f, \A s \in S : f[s] \in Int, NEW x \in S
  PROVE  SumFunctionOnSet(f, S) = f[x] + SumFunctionOnSet(f, S \ {x})
<1>1. PICK g : IsSumOf(g, f, S)
  BY SumExists
<1>2. IsFiniteSet(S \ {x})
  BY FS_Subset
<1> DEFINE h == [s \in SUBSET (S \ {x}) |-> g[s]]
<1>3. IsSumOf(h, f, S \ {x})
  <2>1. ASSUME NEW s \in SUBSET (S \ {x}), NEW y \in s PROVE h[s] = f[y] + h[s \ {y}]
    <3>1. s \in SUBSET S /\ s \ {y} \in SUBSET (S \ {x})
      OBVIOUS
    <3>. QED
      BY <1>1, <3>1 DEF IsSumOf
  <2>2. h \in [SUBSET (S \ {x}) -> Int] /\ h[{}] = 0
    BY <1>1 DEF IsSumOf
  <2>. QED
    BY <2>1, <2>2 DEF IsSumOf
<1>4. SumFunctionOnSet(f, S) = g[S] /\ SumFunctionOnSet(f, S \ {x}) = h[S \ {x}]
  BY <1>1, <1>2, <1>3, SumIs
<1>5. g[S] = f[x] + g[S \ {x}]
  BY <1>1 DEF IsSumOf
<1>. QED
  BY <1>4, <1>5

LEMMA SumSame ==
  ASSUME NEW S, IsFiniteSet(S), NEW f, NEW g,
         \A s \in S : f[s] \in Int /\ g[s] = f[s]
  PROVE  SumFunctionOnSet(g, S) = SumFunctionOnSet(f, S)
<1>1. PICK h : IsSumOf(h, f, S)
  BY SumExists
<1>2. IsSumOf(h, g, S)
  BY <1>1 DEF IsSumOf
<1>. QED
  BY <1>1, <1>2, SumIs

(* Two functions that differ at one place have sums that differ by as much. *)
LEMMA SumChange ==
  ASSUME NEW S, IsFiniteSet(S), NEW f, NEW g, NEW x \in S,
         \A s \in S : f[s] \in Int /\ g[s] \in Int,
         \A s \in S \ {x} : g[s] = f[s]
  PROVE  SumFunctionOnSet(g, S) = SumFunctionOnSet(f, S) - f[x] + g[x]
<1>1. IsFiniteSet(S \ {x})
  BY FS_Subset
<1>2. /\ SumFunctionOnSet(f, S) = f[x] + SumFunctionOnSet(f, S \ {x})
      /\ SumFunctionOnSet(g, S) = g[x] + SumFunctionOnSet(g, S \ {x})
  BY SumRemove
<1>3. SumFunctionOnSet(g, S \ {x}) = SumFunctionOnSet(f, S \ {x})
  BY <1>1, SumSame
<1>4. SumFunctionOnSet(f, S \ {x}) \in Int
  BY <1>1, SumType
<1>. QED
  BY <1>2, <1>3, <1>4

LEMMA SumRaise ==
  ASSUME NEW S, IsFiniteSet(S), NEW f \in [S -> Nat], NEW g \in [S -> Nat],
         NEW x \in S, NEW d \in Nat, g[x] = f[x] + d,
         \A s \in S \ {x} : g[s] = f[s]
  PROVE  /\ SumFunctionOnSet(g, S) = SumFunctionOnSet(f, S) + d
         /\ \A s \in S : g[s] >= f[s]
<1>1. \A s \in S : f[s] \in Int /\ g[s] \in Int
  OBVIOUS
<1>2. SumFunctionOnSet(f, S) \in Int
  BY <1>1, SumType
<1>3. SumFunctionOnSet(g, S) = SumFunctionOnSet(f, S) - f[x] + g[x]
  BY <1>1, SumChange
<1>4. f[x] \in Int /\ g[x] \in Int
  BY <1>1
<1>5. SumFunctionOnSet(g, S) = SumFunctionOnSet(f, S) + d
  BY <1>2, <1>3, <1>4
<1>6. \A s \in S : g[s] >= f[s]
  OBVIOUS
<1>. QED
  BY <1>5, <1>6

LEMMA SumUpdate ==
  ASSUME NEW S, IsFiniteSet(S), NEW f \in [S -> Int], NEW x \in S, NEW v \in Int
  PROVE  SumFunctionOnSet([f EXCEPT ![x] = v], S) = SumFunctionOnSet(f, S) - f[x] + v
<1> DEFINE g == [f EXCEPT ![x] = v]
<1>1. \A s \in S : f[s] \in Int /\ g[s] \in Int
  OBVIOUS
<1>2. \A s \in S \ {x} : g[s] = f[s]
  OBVIOUS
<1>3. g[x] = v
  OBVIOUS
<1>. HIDE DEF g
<1>4. SumFunctionOnSet(g, S) = SumFunctionOnSet(f, S) - f[x] + g[x]
  BY <1>1, <1>2, SumChange
<1>. QED
  BY <1>3, <1>4 DEF g

LEMMA SumZero ==
  ASSUME NEW S, IsFiniteSet(S), NEW f, \A s \in S : f[s] = 0
  PROVE  SumFunctionOnSet(f, S) = 0
<1>1. IsSumOf([T \in SUBSET S |-> 0], f, S)
  <2>1. ASSUME NEW s \in SUBSET S, NEW x \in s
        PROVE  0 = f[x] + 0 /\ s \ {x} \in SUBSET S
    OBVIOUS
  <2>. QED
    BY <2>1 DEF IsSumOf
<1>. QED
  BY <1>1, SumIs

(* A sum of natural numbers is one, and at least as large as each of them.  *)
LEMMA SumNat ==
  ASSUME NEW S, IsFiniteSet(S), NEW f, \A s \in S : f[s] \in Nat
  PROVE  /\ SumFunctionOnSet(f, S) \in Nat
         /\ \A x \in S : f[x] <= SumFunctionOnSet(f, S)
<1>1. PICK g : IsSumOf(g, f, S)
  BY SumExists
<1> DEFINE B == {s \in SUBSET S : ~ (g[s] >= 0)}
<1>2. B = {}
  <2> SUFFICES ASSUME B # {} PROVE FALSE
    OBVIOUS
  <2>1. PICK T \in B : \A x \in T : T \ {x} \notin B
    BY SmallestSubset
  <2>2. T # {}
    <3>1. g[{}] = 0
      BY <1>1 DEF IsSumOf
    <3>2. ~ (g[T] >= 0)
      BY <2>1
    <3>. QED
      BY <3>1, <3>2
  <2>3. PICK x \in T : TRUE
    BY <2>2
  <2>4. g[T \ {x}] >= 0 /\ g[T] = f[x] + g[T \ {x}] /\ f[x] \in Nat /\ g[T \ {x}] \in Int
    BY <1>1, <2>1, <2>3 DEF IsSumOf
  <2>. QED
    BY <2>1, <2>4
<1>3. \A s \in SUBSET S : g[s] \in Nat
  BY <1>1, <1>2 DEF IsSumOf
<1>4. ASSUME NEW x \in S PROVE f[x] <= g[S]
  <2>1. g[S] = f[x] + g[S \ {x}] /\ g[S \ {x}] \in Nat /\ f[x] \in Nat
    BY <1>1, <1>3 DEF IsSumOf
  <2>. QED
    BY <2>1
<1>. QED
  BY <1>1, <1>3, <1>4, SumIs

(* The sum of the values of two functions is the sum of their sums.         *)
LEMMA SumAdd ==
  ASSUME NEW S, IsFiniteSet(S), NEW f, NEW g, NEW h,
         \A s \in S : f[s] \in Int /\ g[s] \in Int /\ h[s] = f[s] + g[s]
  PROVE  SumFunctionOnSet(h, S) = SumFunctionOnSet(f, S) + SumFunctionOnSet(g, S)
<1>1. PICK p : IsSumOf(p, f, S)
  BY SumExists
<1>2. PICK q : IsSumOf(q, g, S)
  BY SumExists
<1> DEFINE r == [T \in SUBSET S |-> p[T] + q[T]]
<1>3. IsSumOf(r, h, S)
  <2>1. r \in [SUBSET S -> Int] /\ r[{}] = 0
    BY <1>1, <1>2 DEF IsSumOf
  <2>2. ASSUME NEW s \in SUBSET S, NEW x \in s PROVE r[s] = h[x] + r[s \ {x}]
    <3>1. /\ p[s] = f[x] + p[s \ {x}] /\ q[s] = g[x] + q[s \ {x}]
          /\ p[s \ {x}] \in Int /\ q[s \ {x}] \in Int
          /\ f[x] \in Int /\ g[x] \in Int /\ h[x] = f[x] + g[x]
      BY <1>1, <1>2 DEF IsSumOf
    <3>2. r[s] = p[s] + q[s] /\ r[s \ {x}] = p[s \ {x}] + q[s \ {x}]
      OBVIOUS
    <3>. HIDE DEF r
    <3>. QED  BY <3>1, <3>2
  <2>. HIDE DEF r
  <2>. QED  BY <2>1, <2>2 DEF IsSumOf
<1>4. r[S] = p[S] + q[S]
  OBVIOUS
<1>. HIDE DEF r
<1>. QED  BY <1>1, <1>2, <1>3, <1>4, SumIs

(* The sum of a function that is zero but at one place.                     *)
LEMMA SumPoint ==
  ASSUME NEW S, IsFiniteSet(S), NEW x, NEW v \in Int, x \in S \/ v = 0
  PROVE  SumFunctionOnSet([s \in S |-> IF s = x THEN v ELSE 0], S) = v
<1> DEFINE f == [s \in S |-> 0]
           g == [s \in S |-> IF s = x THEN v ELSE 0]
<1>1. \A s \in S : f[s] = 0 /\ f[s] \in Int /\ g[s] \in Int /\ (s # x => g[s] = f[s])
  OBVIOUS
<1>2. (v = 0 => \A s \in S : g[s] = 0) /\ (x \in S => g[x] = v)
  OBVIOUS
<1>. HIDE DEF f, g
<1>3. SumFunctionOnSet(f, S) = 0
  BY <1>1, SumZero
<1>4. SumFunctionOnSet(g, S) = v
  <2>1. CASE v = 0
    BY <1>2, <2>1, SumZero
  <2>2. CASE x \in S
    <3>1. SumFunctionOnSet(g, S) = SumFunctionOnSet(f, S) - f[x] + g[x]
      BY <1>1, <2>2, SumChange
    <3>. QED  BY <1>1, <1>2, <1>3, <2>2, <3>1
  <2>. QED  BY <2>1, <2>2
<1>. QED  BY <1>4 DEF g

-----------------------------------------------------------------------------
(* Crediting an account keeps the balances of a pull-payment contract well- *)
(* formed, raises their sum in its token by the amount, and lowers none.    *)
LEMMA CreditSums ==
  ASSUME NEW S, IsFiniteSet(S), NEW T, NEW pw \in [S -> [T -> Nat]], NEW user, NEW tok \in T,
         NEW amount \in Nat, user \in S \/ amount = 0
  PROVE  /\ Credit(pw, user, tok, amount) \in [S -> [T -> Nat]]
         /\ \A t \in T :
              /\ SumFunctionOnSet([u \in S |-> Credit(pw, user, tok, amount)[u][t]], S)
                   = SumFunctionOnSet([u \in S |-> pw[u][t]], S) + (IF tok = t THEN amount ELSE 0)
              /\ \A u \in S : Credit(pw, user, tok, amount)[u][t] >= pw[u][t]
<1> DEFINE qw == Credit(pw, user, tok, amount)
           f(t) == [u \in S |-> pw[u][t]]
           g(t) == [u \in S |-> qw[u][t]]
<1>1. \A t \in T : f(t) \in [S -> Nat] /\ SumFunctionOnSet(f(t), S) \in Int
  <2>1. ASSUME NEW t \in T PROVE f(t) \in [S -> Nat] /\ \A s \in S : f(t)[s] \in Int
    OBVIOUS
  <2>. HIDE DEF f
  <2>. QED  BY <2>1, SumType
<1>2. CASE amount = 0
  <2>1. qw = pw
    BY <1>2 DEF Credit
  <2>2. \A t \in T : g(t) = f(t) /\ \A u \in S : qw[u][t] >= pw[u][t]
    BY <2>1
  <2>. HIDE DEF f, g, qw
  <2>3. \A t \in T : SumFunctionOnSet(g(t), S)
                       = SumFunctionOnSet(f(t), S) + (IF tok = t THEN amount ELSE 0)
    BY <1>1, <1>2, <2>2
  <2>. QED  BY <2>1, <2>2, <2>3 DEF f, g, qw
<1>3. CASE amount # 0
  <2>1. user \in S /\ qw = [pw EXCEPT ![user][tok] = @ + amount]
    BY <1>3 DEF Credit
  <2>2. qw \in [S -> [T -> Nat]]
    BY <2>1
  <2>3. ASSUME NEW t \in T
        PROVE  /\ SumFunctionOnSet(g(t), S)
                    = SumFunctionOnSet(f(t), S) + (IF tok = t THEN amount ELSE 0)
               /\ \A u \in S : qw[u][t] >= pw[u][t]
    <3> DEFINE d == IF tok = t THEN amount ELSE 0
    <3>1. g(t) \in [S -> Nat] /\ d \in Nat
      BY <2>2
    <3>2. g(t)[user] = f(t)[user] + d /\ \A u \in S \ {user} : g(t)[u] = f(t)[u]
      BY <2>1
    <3>3. \A u \in S : g(t)[u] = qw[u][t] /\ f(t)[u] = pw[u][t]
      OBVIOUS
    <3>. HIDE DEF f, g, d, qw
    <3>4. /\ SumFunctionOnSet(g(t), S) = SumFunctionOnSet(f(t), S) + d
          /\ \A u \in S : g(t)[u] >= f(t)[u]
      <4>. PICK ft \in [S -> Nat] : ft = f(t)
        BY <1>1
      <4>. PICK gt \in [S -> Nat] : gt = g(t)
        BY <3>1
      <4>1. d \in Nat /\ user \in S /\ gt[user] = ft[user] + d /\ \A u \in S \ {user} : gt[u] = ft[u]
        BY <2>1, <3>1, <3>2
      <4>2. SumFunctionOnSet(gt, S) = SumFunctionOnSet(ft, S) + d /\ \A u \in S : gt[u] >= ft[u]
        BY <4>1, SumRaise, SMTT(30)
      <4>. QED  BY <4>2
    <3>. QED  BY <3>3, <3>4 DEF d
  <2>. QED  BY <2>2, <2>3
<1>. QED  BY <1>2, <1>3

-----------------------------------------------------------------------------
(* Whole numbers: what a product or a quotient is bounded by.               *)
LEMMA TimesBounds ==
  ASSUME NEW a \in Nat, NEW b \in Nat, NEW c \in Nat
  PROVE  /\ a * b \in Nat
         /\ a * (b + c) = a * b + a * c
         /\ a * b = b * a
         /\ a <= b => a * c <= b * c /\ c * a <= c * b
         /\ c > 0 /\ c * a <= c * b => a <= b
  OBVIOUS

LEMMA QuotientBounds ==
  ASSUME NEW a \in Nat, NEW b \in Nat, b > 0
  PROVE  /\ a \div b \in Nat
         /\ b * (a \div b) <= a
         /\ \A k \in Nat : b * k <= a => k <= a \div b
  OBVIOUS

(* Larger terms have the larger sum.                                        *)
LEMMA SumMonotone ==
  ASSUME NEW S, IsFiniteSet(S), NEW f, NEW g,
         \A s \in S : f[s] \in Int /\ g[s] \in Int /\ f[s] <= g[s]
  PROVE  SumFunctionOnSet(f, S) <= SumFunctionOnSet(g, S)
<1> DEFINE d == [s \in S |-> g[s] - f[s]]
<1>1. \A s \in S : d[s] \in Nat /\ d[s] \in Int /\ g[s] = f[s] + d[s]
  OBVIOUS
<1>. HIDE DEF d
<1>2. SumFunctionOnSet(g, S) = SumFunctionOnSet(f, S) + SumFunctionOnSet(d, S)
  BY <1>1, SumAdd
<1>3. SumFunctionOnSet(d, S) \in Nat /\ SumFunctionOnSet(f, S) \in Int
  BY <1>1, SumNat, SumType
<1>. QED  BY <1>2, <1>3

(* A factor of every term is a factor of the sum.                           *)
LEMMA SumTimes ==
  ASSUME NEW S, IsFiniteSet(S), NEW f, NEW h, NEW k \in Int,
         \A s \in S : f[s] \in Int /\ h[s] = k * f[s]
  PROVE  SumFunctionOnSet(h, S) = k * SumFunctionOnSet(f, S)
<1>1. PICK p : IsSumOf(p, f, S)
  BY SumExists
<1> DEFINE r == [T \in SUBSET S |-> k * p[T]]
<1>2. IsSumOf(r, h, S)
  <2>1. r \in [SUBSET S -> Int] /\ r[{}] = 0
    BY <1>1 DEF IsSumOf
  <2>2. ASSUME NEW s \in SUBSET S, NEW x \in s PROVE r[s] = h[x] + r[s \ {x}]
    <3>1. /\ p[s] = f[x] + p[s \ {x}] /\ p[s \ {x}] \in Int
          /\ f[x] \in Int /\ h[x] = k * f[x]
      BY <1>1 DEF IsSumOf
    <3>2. r[s] = k * p[s] /\ r[s \ {x}] = k * p[s \ {x}]
      OBVIOUS
    <3>. HIDE DEF r
    <3>3. \A a, b \in Int : k * (a + b) = k * a + k * b
      OBVIOUS
    <3>. QED  BY <3>1, <3>2, <3>3
  <2>. HIDE DEF r
  <2>. QED  BY <2>1, <2>2 DEF IsSumOf
<1>3. SumFunctionOnSet(h, S) = r[S]
  BY <1>2, SumIs
<1>4. SumFunctionOnSet(f, S) = p[S]
  BY <1>1, SumIs
<1>. QED  BY <1>3, <1>4

(* Shares of an amount K in proportion to f, each rounded down, are          *)
(* together no more than K: D * W times a share is at most its part of K,    *)
(* where W is the whole and D a common divisor.                              *)
LEMMA SharesFit ==
  ASSUME NEW S, IsFiniteSet(S), NEW f, NEW g, NEW K \in Nat, NEW D \in Nat,
         NEW W \in Nat, W > 0, W = SumFunctionOnSet(f, S),
         \A s \in S : f[s] \in Nat /\ g[s] \in Nat /\ (D * W) * g[s] <= f[s] * K
  PROVE  D * SumFunctionOnSet(g, S) <= K
<1> DEFINE l == [s \in S |-> (D * W) * g[s]]
           u == [s \in S |-> K * f[s]]
<1>1. D * W \in Nat
  BY TimesBounds
<1>2. \A s \in S : /\ l[s] = (D * W) * g[s] /\ u[s] = K * f[s]
                   /\ l[s] \in Int /\ u[s] \in Int /\ l[s] <= u[s]
                   /\ f[s] \in Int /\ g[s] \in Int
  BY <1>1, TimesBounds
<1>. HIDE DEF l, u
<1>3. SumFunctionOnSet(l, S) = (D * W) * SumFunctionOnSet(g, S)
  <2>1. PICK k \in Int : k = D * W
    BY <1>1
  <2>2. \A s \in S : g[s] \in Int /\ l[s] = k * g[s]
    BY <1>2, <2>1
  <2>3. SumFunctionOnSet(l, S) = k * SumFunctionOnSet(g, S)
    BY <2>2, SumTimes
  <2>. QED  BY <2>1, <2>3
<1>4. SumFunctionOnSet(u, S) = K * W
  <2>1. PICK k \in Int : k = K
    OBVIOUS
  <2>2. \A s \in S : f[s] \in Int /\ u[s] = k * f[s]
    BY <1>2, <2>1
  <2>3. SumFunctionOnSet(u, S) = k * SumFunctionOnSet(f, S)
    BY <2>2, SumTimes
  <2>. QED  BY <2>1, <2>3
<1>5. SumFunctionOnSet(l, S) <= SumFunctionOnSet(u, S)
  BY <1>2, SumMonotone
<1>6. SumFunctionOnSet(g, S) \in Nat
  BY SumNat
<1>7. \A x \in Nat : (D * W) * x = W * (D * x) /\ D * x \in Nat
  OBVIOUS
<1>8. W * (D * SumFunctionOnSet(g, S)) <= W * K
  BY <1>3, <1>4, <1>5, <1>6, <1>7, TimesBounds
<1>. QED  BY <1>6, <1>7, <1>8, TimesBounds

(* The sum over a set is that over a part of it and over the rest.           *)
LEMMA SumSplit ==
  ASSUME NEW S, IsFiniteSet(S), NEW f, \A s \in S : f[s] \in Int, NEW A, A \subseteq S
  PROVE  SumFunctionOnSet(f, S) = SumFunctionOnSet(f, A) + SumFunctionOnSet(f, S \ A)
<1>1. PICK p : IsSumOf(p, f, S)
  BY SumExists
<1>2. ASSUME NEW T \in SUBSET S PROVE SumFunctionOnSet(f, T) = p[T]
  <2> DEFINE h == [s \in SUBSET T |-> p[s]]
  <2>1. ASSUME NEW s \in SUBSET T, NEW y \in s PROVE h[s] = f[y] + h[s \ {y}]
    <3>1. s \in SUBSET S /\ s \ {y} \in SUBSET T
      OBVIOUS
    <3>. QED  BY <1>1, <3>1 DEF IsSumOf
  <2>2. h \in [SUBSET T -> Int] /\ h[{}] = 0
    BY <1>1 DEF IsSumOf
  <2>3. h[T] = p[T] /\ IsFiniteSet(T)
    BY FS_Subset
  <2>. HIDE DEF h
  <2>4. IsSumOf(h, f, T)
    BY <2>1, <2>2 DEF IsSumOf
  <2>. QED  BY <2>3, <2>4, SumIs
<1>3. /\ p[{}] = 0 /\ \A T \in SUBSET S : p[T] \in Int
      /\ \A T \in SUBSET S : \A x \in T : p[T] = f[x] + p[T \ {x}]
  BY <1>1 DEF IsSumOf
<1> DEFINE B == {T \in SUBSET S : p[T] # p[T \cap A] + p[T \ A]}
<1>4. SUFFICES ASSUME B # {} PROVE FALSE
  <2>1. S \notin B => p[S] = p[S \cap A] + p[S \ A]
    OBVIOUS
  <2>2. S \cap A = A /\ A \in SUBSET S /\ S \ A \in SUBSET S /\ S \in SUBSET S
    OBVIOUS
  <2>. HIDE DEF B
  <2>. QED  BY <1>2, <1>4, <2>1, <2>2
<1>5. PICK T \in B : \A x \in T : T \ {x} \notin B
  BY <1>4, SmallestSubset
<1>6. T # {}
  <2>1. ASSUME T = {} PROVE p[T] = p[T \cap A] + p[T \ A]
    <3>1. T \cap A = {} /\ T \ A = {}
      BY <2>1
    <3>. QED  BY <1>3, <2>1, <3>1
  <2>. QED  BY <1>5, <2>1
<1>7. PICK x \in T : TRUE
  BY <1>6
<1> DEFINE U == T \ {x}
<1>8. /\ U \in SUBSET S /\ T \cap A \in SUBSET S /\ T \ A \in SUBSET S /\ T \in SUBSET S
      /\ U \cap A \in SUBSET S /\ U \ A \in SUBSET S /\ f[x] \in Int
  BY <1>7
<1>9. p[U] = p[U \cap A] + p[U \ A]
  BY <1>5, <1>7, <1>8
<1>10. p[T] = f[x] + p[U] /\ p[T] # p[T \cap A] + p[T \ A]
  BY <1>3, <1>5, <1>7, <1>8
<1>11. /\ p[U \cap A] \in Int /\ p[U \ A] \in Int
  BY <1>3, <1>8
<1>12. CASE x \in A
  <2>1. (T \cap A) \ {x} = U \cap A /\ T \ A = U \ A /\ x \in T \cap A
    BY <1>7, <1>12
  <2>2. p[T \cap A] = f[x] + p[U \cap A] /\ p[T \ A] = p[U \ A]
    BY <1>3, <1>8, <2>1, ZenonT(60)
  <2>. HIDE DEF U, B
  <2>. QED  BY <1>8, <1>9, <1>10, <1>11, <2>2
<1>13. CASE x \notin A
  <2>1. (T \ A) \ {x} = U \ A /\ T \cap A = U \cap A /\ x \in T \ A
    BY <1>7, <1>13
  <2>2. p[T \ A] = f[x] + p[U \ A] /\ p[T \cap A] = p[U \cap A]
    BY <1>3, <1>8, <2>1
  <2>. HIDE DEF U, B
  <2>. QED  BY <1>8, <1>9, <1>10, <1>11, <2>2
<1>. QED  BY <1>12, <1>13

(* Summing up by kinds gives the whole sum.                                  *)
LEMMA SumByKind ==
  ASSUME NEW S, IsFiniteSet(S), NEW R, IsFiniteSet(R), NEW f, \A s \in S : f[s] \in Int,
         NEW kind, \A s \in S : kind[s] \in R,
         NEW part, \A r \in R : part[r] \in SUBSET S,
         \A r \in R, s \in S : s \in part[r] <=> kind[s] = r,
         NEW h, \A r \in R : h[r] = SumFunctionOnSet(f, part[r])
  PROVE  SumFunctionOnSet(h, R) = SumFunctionOnSet(f, S)
<1> DEFINE of(T) == {s \in S : kind[s] \in T}
           g == [T \in SUBSET R |-> SumFunctionOnSet(f, of(T))]
<1>1. ASSUME NEW T \in SUBSET R
      PROVE  of(T) \in SUBSET S /\ IsFiniteSet(of(T)) /\ SumFunctionOnSet(f, of(T)) \in Int
  <2>1. of(T) \in SUBSET S
    OBVIOUS
  <2>2. IsFiniteSet(of(T))
    BY <2>1, FS_Subset
  <2>3. \A s \in of(T) : f[s] \in Int
    OBVIOUS
  <2>. HIDE DEF of
  <2>. QED  BY <2>1, <2>2, <2>3, SumType
<1>2. g[{}] = 0
  <2>1. of({}) = {}
    OBVIOUS
  <2>2. SumFunctionOnSet(f, {}) = 0
    <3>1. IsFiniteSet({})
      BY FS_EmptySet
    <3>2. \A s \in {} : f[s] = 0
      OBVIOUS
    <3>. QED  BY <3>1, <3>2, SumZero
  <2>. QED  BY <2>1, <2>2
<1>3. ASSUME NEW T \in SUBSET R, NEW x \in T PROVE g[T] = h[x] + g[T \ {x}]
  <2>1. /\ of({x}) \subseteq of(T) /\ of(T) \ of({x}) = of(T \ {x})
        /\ of({x}) = part[x] /\ \A s \in of(T) : f[s] \in Int
    <3>1. of({x}) = part[x]
      OBVIOUS
    <3>. QED  BY <3>1
  <2>2. IsFiniteSet(of(T)) /\ T \ {x} \in SUBSET R
    BY <1>1
  <2>3. h[x] = SumFunctionOnSet(f, of({x}))
    BY <2>1
  <2>4. g[T] = SumFunctionOnSet(f, of(T)) /\ g[T \ {x}] = SumFunctionOnSet(f, of(T \ {x}))
    BY <2>2
  <2>. HIDE DEF of, g
  <2>5. SumFunctionOnSet(f, of(T))
          = SumFunctionOnSet(f, of({x})) + SumFunctionOnSet(f, of(T) \ of({x}))
    <3>1. PICK whole : whole = of(T)
      OBVIOUS
    <3>2. PICK some : some = of({x})
      OBVIOUS
    <3>3. IsFiniteSet(whole) /\ (\A s \in whole : f[s] \in Int) /\ some \subseteq whole
      BY <2>1, <2>2, <3>1, <3>2
    <3>4. SumFunctionOnSet(f, whole) = SumFunctionOnSet(f, some) + SumFunctionOnSet(f, whole \ some)
      BY <3>3, SumSplit
    <3>. QED  BY <3>1, <3>2, <3>4
  <2>. QED  BY <2>1, <2>3, <2>4, <2>5
<1>4. g \in [SUBSET R -> Int]
  BY <1>1
<1>5. g[R] = SumFunctionOnSet(f, S)
  <2>1. of(R) = S /\ R \in SUBSET R
    OBVIOUS
  <2>. QED  BY <2>1
<1>. HIDE DEF g, of
<1>6. IsSumOf(g, h, R)
  BY <1>2, <1>3, <1>4 DEF IsSumOf
<1>. QED  BY <1>5, <1>6, SumIs

-----------------------------------------------------------------------------
(* What holds of 0, and of the successor of each number below n that it      *)
(* holds of, holds up to n; G is the set of numbers it holds of.            *)
LEMMA UpTo ==
  ASSUME NEW n \in Nat, NEW G, 0 \in G, \A k \in 1..n : k - 1 \in G => k \in G
  PROVE  0..n \subseteq G
<1> DEFINE B == {T \in SUBSET (0..n) : \E k \in 0..n : k \notin G /\ T = 0..k}
<1>1. ASSUME NEW k \in 0..n, k \notin G PROVE FALSE
  <2>1. IsFiniteSet(0..n)
    BY FS_Interval
  <2>2. 0..k \in B
    <3>1. 0..k \subseteq 0..n
      OBVIOUS
    <3>. QED  BY <1>1, <3>1
  <2>3. B \subseteq SUBSET (0..n) /\ B # {}
    BY <2>2
  <2>4. PICK T \in B : \A x \in T : T \ {x} \notin B
    <3>. HIDE DEF B
    <3>. QED  BY <2>1, <2>3, SmallestSubset
  <2>5. PICK m \in 0..n : m \notin G /\ T = 0..m
    BY <2>4
  <2>6. m # 0 /\ m \in 1..n /\ m - 1 \in 0..n /\ m \in T
    BY <2>5
  <2>7. m - 1 \notin G
    BY <2>5, <2>6
  <2>8. (0..m) \ {m} = 0..(m - 1) /\ 0..(m - 1) \subseteq 0..n
    BY <2>6
  <2>9. T \ {m} \in B
    BY <2>5, <2>6, <2>7, <2>8
  <2>. QED  BY <2>4, <2>6, <2>9
<1>. QED  BY <1>1

(* The largest of finitely many numbers is one of them.                     *)
LEMMA MaxIsLargest ==
  ASSUME NEW S \in SUBSET Nat, IsFiniteSet(S), S # {}
  PROVE  Max(S) \in S /\ \A y \in S : Max(S) >= y
<1> DEFINE Top(T) == \E m \in T : \A y \in T : m >= y
           B == {T \in SUBSET S : T # {} /\ ~Top(T)}
<1>1. B = {}
  <2> SUFFICES ASSUME B # {} PROVE FALSE
    OBVIOUS
  <2>1. PICK T \in B : \A x \in T : T \ {x} \notin B
    BY SmallestSubset
  <2>2. PICK x \in T : TRUE
    OBVIOUS
  <2>3. T \in SUBSET Nat /\ ~Top(T)
    OBVIOUS
  <2>4. T \ {x} = {} \/ Top(T \ {x})
    BY <2>1
  <2>5. CASE T \ {x} = {}
    BY <2>2, <2>3, <2>5
  <2>6. CASE Top(T \ {x})
    <3>1. PICK m \in T \ {x} : \A y \in T \ {x} : m >= y
      BY <2>6
    <3>2. \A y \in T : (IF m >= x THEN m ELSE x) >= y
      BY <2>2, <2>3, <3>1
    <3>. QED  BY <2>2, <2>3, <3>2
  <2>. QED  BY <2>4, <2>5, <2>6
<1>2. Top(S)
  BY <1>1
<1>. QED  BY <1>2 DEF Max

(* The smallest of finitely many numbers is one of them.                     *)
LEMMA MinIsSmallest ==
  ASSUME NEW S \in SUBSET Int, IsFiniteSet(S), S # {}
  PROVE  Min(S) \in S /\ \A y \in S : Min(S) <= y
<1> DEFINE Low(T) == \E m \in T : \A y \in T : m <= y
           B == {T \in SUBSET S : T # {} /\ ~Low(T)}
<1>1. B = {}
  <2> SUFFICES ASSUME B # {} PROVE FALSE
    OBVIOUS
  <2>1. PICK T \in B : \A x \in T : T \ {x} \notin B
    BY SmallestSubset
  <2>2. PICK x \in T : TRUE
    OBVIOUS
  <2>3. T \in SUBSET Int /\ ~Low(T)
    OBVIOUS
  <2>4. T \ {x} = {} \/ Low(T \ {x})
    BY <2>1
  <2>5. CASE T \ {x} = {}
    BY <2>2, <2>3, <2>5
  <2>6. CASE Low(T \ {x})
    <3>1. PICK m \in T \ {x} : \A y \in T \ {x} : m <= y
      BY <2>6
    <3>2. \A y \in T : (IF m <= x THEN m ELSE x) <= y
      BY <2>2, <2>3, <3>1
    <3>. QED  BY <2>2, <2>3, <3>2
  <2>. QED  BY <2>4, <2>5, <2>6
<1>2. Low(S)
  BY <1>1
<1>. QED  BY <1>2 DEF Min
=============================================================================
